------------------------------ MODULE ModelFiles ------------------------------
(***************************************************************************)
(* Telling model files apart (app/sniff.py) and finding them by name       *)
(* (ModelManager.resolve).  An entry of MODELS_DIR is a file or directory  *)
(* with a name; of its content only what the rules look at is kept: the    *)
(* class a config names, and the prefixes of the keys of its tensors.  The *)
(* directory is one of Linux: a.ckpt and a.CKPT are two names.             *)
(***************************************************************************)
EXTENDS FiniteSets, Sequences

Directories == {"pipeline", "component", "folder"}     \* model_index.json, config.json, neither
SmallEndings == {".safetensors", ".ckpt", ".pth", ".txt"}
Capitals == {".SAFETENSORS", ".CKPT", ".PTH", ".TXT"}    \* any spelling not in small letters
Endings == SmallEndings \cup Capitals

\* name.lower(), as far as the ending goes; a directory keeps its form.
lower(form) == CASE form = ".SAFETENSORS" -> ".safetensors" [] form = ".CKPT" -> ".ckpt"
                 [] form = ".PTH" -> ".pth" [] form = ".TXT" -> ".txt" [] OTHER -> form

\* The prefixes the rules ask for; "first_stage_model." stands for its keys
\* other than those of the encoder and the decoder.
KeyPrefixes == {"conditioner.embedders.", "cond_stage_model.", "model.diffusion_model.",
             "first_stage_model.encoder.", "first_stage_model.decoder.", "first_stage_model.",
             "text_encoder_2.", "unet.", "vae.", "text_encoder.",
             "controlnet_down_blocks.", "controlnet_mid_block.", "input_hint_block.",
             "control_model.", "encoder.conv_in.", "decoder.conv_in.", "other"}

\* hint: the name contains one of _UPSCALE_NAME_HINTS.
Entries(stems, keySets) ==
    [stem : stems, form : Directories, cls : {"none", "AutoencoderKL", "ControlNetModel", "Other"},
     keys : {{}}, hint : {FALSE}]
    \cup [stem : stems, form : Endings, cls : {"none"}, keys : keySets, hint : BOOLEAN]

IsDir(e) == e.form \in Directories
has(e, prefixes) == e.keys \cap prefixes # {}

SD15 == "StableDiffusionPipeline"
SDXL == "StableDiffusionXLPipeline"

FirstStage == {"first_stage_model.", "first_stage_model.encoder.", "first_stage_model.decoder."}
Original == FirstStage \cup {"cond_stage_model.", "model.diffusion_model."}

\* Fault: sniff_arch knows complete checkpoints of the newer layout only.
sniff_archNewer(e) ==
    CASE e.form = "pipeline" -> IF e.cls = "none" THEN "refused" ELSE e.cls
      [] e.form = ".ckpt" -> SD15
      [] e.form = ".safetensors" -> IF has(e, {"conditioner.embedders.", "text_encoder_2."}) THEN SDXL
                                    ELSE IF has(e, {"unet.", "vae.", "text_encoder."}) THEN SD15
                                    ELSE "refused"
      [] OTHER -> "refused"

\* sniff_arch: the class of the pipe, or "refused".
sniff_arch(e) ==
    CASE e.form = "pipeline" -> IF e.cls = "none" THEN "refused" ELSE e.cls
      [] e.form = ".ckpt" -> SD15
      [] e.form = ".safetensors" ->
            IF has(e, {"conditioner.embedders."}) THEN SDXL
            ELSE IF has(e, Original) THEN SD15
            ELSE IF has(e, {"text_encoder_2."}) THEN SDXL
            ELSE IF has(e, {"unet.", "vae.", "text_encoder."}) THEN SD15
            ELSE "refused"
      [] OTHER -> "refused"

Whole == {"model.diffusion_model.", "unet.", "cond_stage_model.", "text_encoder.",
          "conditioner.embedders."}
OfNet == {"controlnet_down_blocks.", "controlnet_mid_block.", "input_hint_block.",
          "control_model."}
OfVae == {"first_stage_model.encoder.", "first_stage_model.decoder.",
          "encoder.conv_in.", "decoder.conv_in."}

\* sniff_component: the kind, "whole" for a complete checkpoint, or "refused".
sniff_component(e) ==
    CASE e.form = "pipeline" -> "whole"
      [] e.form = "component" -> IF e.cls = "AutoencoderKL" THEN "vae"
                                 ELSE IF e.cls = "ControlNetModel" THEN "controlnet"
                                 ELSE "refused"
      [] e.form = ".safetensors" ->
            IF has(e, Whole) THEN "whole"
            ELSE IF has(e, OfNet) THEN "controlnet"
            ELSE IF has(e, OfVae) THEN "vae"
            ELSE "refused"
      [] OTHER -> "refused"

\* _classify_entry: under which kind the list offers it.  It looks at the ending
\* in small letters, sniff_component and sniff_arch at the one that is written.
Classified(e) ==
    LET kind == sniff_component(e)
        form == lower(e.form)
    IN
    CASE form = "pipeline" -> "checkpoint"
      [] form = ".pth" -> "upscale"
      [] form \in {"component", ".safetensors", ".ckpt"} /\ kind \in {"vae", "controlnet"} -> kind
      [] form \in {".safetensors", ".ckpt"} /\ kind = "whole" -> "checkpoint"
      [] form \in {".safetensors", ".ckpt"} /\ kind = "refused" ->
            IF e.hint THEN "upscale" ELSE "checkpoint"
      [] OTHER -> "other"

\* resolve: a directory of that name, then the name with the two suffixes, as
\* they are.  A name that ends in one of them itself is left out.
resolve(dir, stem) ==
    LET called(forms) == {e \in dir : e.stem = stem /\ e.form \in forms}
    IN  IF called(Directories) # {} THEN called(Directories)
        ELSE IF called({".safetensors"}) # {} THEN called({".safetensors"})
        ELSE called({".ckpt"})

Listed(dir) == {[name |-> e.stem, kind |-> Classified(e)] :
                    e \in {f \in dir : Classified(f) # "other"}}

\* The loader of a kind, as far as the sniffing before or after decides.
Loads(e, kind) == CASE kind = "checkpoint" -> sniff_arch(e) # "refused"
                    [] kind \in {"vae", "controlnet"} -> sniff_component(e) = kind

\* Listed as checkpoints for want of a better kind.
Unknown(e) == \/ e.form = ".safetensors" /\ e.keys \subseteq {"other"}
              \/ e.form = "pipeline" /\ e.cls = "none"

Offered(e) == Classified(e) \in {"checkpoint", "vae", "controlnet"}

\* Who picks a model from the list (GET /models/files) gets it: the loader of
\* the kind it is listed under takes it, and a name that is listed once, with no
\* directory in its way, finds that entry.  Exactly two sorts of entries are
\* listed and not loaded: those of an unknown layout, and those whose ending is
\* not in small letters, which the list looks through (sniff.py:162) and neither
\* the rules (sniff.py:49, 69, 109) nor resolve (model_manager.py:157) does.
CatalogueLoads(keySets, fewKeys) ==
    /\ \A e \in Entries({"a"}, keySets) :
          Offered(e) => (Loads(e, Classified(e)) <=> ~Unknown(e) /\ e.form \notin Capitals)
    /\ \A e, f \in Entries({"a"}, fewKeys) :
          (e.form # f.form /\ Cardinality(Listed({e, f})) = 1 /\ Classified(f) = "other"
           /\ Offered(e) /\ ~IsDir(f))
              => resolve({e, f}, "a") = IF e.form \in Capitals THEN {} ELSE {e}
===============================================================================
