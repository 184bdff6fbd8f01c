---------------------------- MODULE PluginsProofs ----------------------------
(***************************************************************************)
(* Proofs about Plugins, for any files, operators and contents.            *)
(*                                                                         *)
(* The types hold for any number of uploads at once.  That a refusal       *)
(* leaves no trace, and that books and registry agree between requests, is *)
(* proved under the premise that there is one thread: with uploads side by *)
(* side it is false.  Began says that an upload still knows the state in   *)
(* which it began and that this state was in order; Done relates what is   *)
(* registered now to that state and to what the upload has claimed.        *)
(* InOrder is the order that a restart needs to serve the same as before.  *)
(***************************************************************************)
EXTENDS Plugins, TLAPS

OneAdmin == \A a, b \in Admins : a = b

Disks == [Files -> Contents \cup {NoContent}]
Registries == [Ops -> OpVersions \cup {NoOp}]
Owners == [Ops -> Files \cup {NoFile}]
Routes == [file : Files, content : Contents, by : Admins \cup {"listed", Nobody}]

Uploads ==
    [file : Files, content : Contents, force : BOOLEAN, backup : Contents \cup {NoContent},
     before : Registries, did : SUBSET Ops, claimed : SUBSET Ops,
     was : Disks \X Registries \X Owners \X SUBSET Routes]

\* TypeOK, with the locals of an upload in full.
Kinds ==
    /\ disk \in Disks /\ ops \in Registries /\ owner \in Owners /\ routes \subseteq Routes
    /\ heard \subseteq {a \in Admins : pc[a] = "load"}
    /\ pc \in [Admins -> {"idle", "written", "load", "judge", "accept",
                          "undo", "update", "refuse", "withdraw"}]
    /\ up \in [Admins -> Uploads \cup {NoUpload}]
    /\ \A a \in Admins : pc[a] = "idle" <=> up[a] = NoUpload
    /\ \A a \in Admins : pc[a] # "idle" => up[a].did \subseteq up[a].content.ops
    /\ spent \in 0 .. Requests /\ drift \in BOOLEAN

LEMMA UploadKind ==
    ASSUME Kinds, NEW a \in Admins, pc[a] # "idle"
    PROVE  /\ up[a] \in Uploads
           /\ up[a].file \in Files /\ up[a].content \in Contents
           /\ up[a].backup \in Contents \cup {NoContent} /\ up[a].before \in Registries
           /\ up[a].did \subseteq up[a].content.ops /\ up[a].claimed \subseteq Ops
           /\ up[a].content.ops \subseteq Ops
<1>1. up[a] \in Uploads
  BY DEF Kinds
<1>2. up[a].content \in [ops : SUBSET Ops, routes : BOOLEAN, broken : BOOLEAN]
  BY <1>1, ContentAssumption DEF Uploads
<1> QED BY <1>1, <1>2 DEF Kinds, Uploads

LEMMA NoUploadIsNone == NoUpload \notin Uploads
  BY FileAssumption DEF NoUpload, Uploads

\* A step of a thread from one label to another that keeps its locals.
LEMMA StepKind ==
    ASSUME Kinds, NEW a \in Admins, NEW from, NEW to, Step(a, from, to), from # "idle",
           to \in {"load", "judge", "accept", "undo", "update", "refuse", "withdraw"},
           heard' \in {{}, heard}, from = "load" => heard' = {}, UNCHANGED up
    PROVE  /\ heard' \subseteq {b \in Admins : pc'[b] = "load"}
           /\ pc' \in [Admins -> {"idle", "written", "load", "judge", "accept",
                                  "undo", "update", "refuse", "withdraw"}]
           /\ up' \in [Admins -> Uploads \cup {NoUpload}]
           /\ \A b \in Admins : pc'[b] = "idle" <=> up'[b] = NoUpload
           /\ \A b \in Admins : pc'[b] # "idle" => up'[b].did \subseteq up'[b].content.ops
<1>1. pc[a] = from /\ pc' = [pc EXCEPT ![a] = to]
  BY DEF Step
<1>2. pc'[a] = to /\ \A b \in Admins : b # a => pc'[b] = pc[b]
  BY <1>1 DEF Kinds
<1>3. pc' \in [Admins -> {"idle", "written", "load", "judge", "accept",
                          "undo", "update", "refuse", "withdraw"}]
  BY <1>1 DEF Kinds
<1>4. heard' \subseteq {b \in Admins : pc'[b] = "load"}
  BY <1>1, <1>2 DEF Kinds
<1>5. \A b \in Admins : pc'[b] = "idle" <=> pc[b] = "idle"
  BY <1>1, <1>2
<1> QED BY <1>3, <1>4, <1>5 DEF Kinds

\* A request of a thread ends, and its locals with it.
LEMMA IdleKind ==
    ASSUME Kinds, NEW a \in Admins, NEW from, Step(a, from, "idle"), from # "load",
           up' = [up EXCEPT ![a] = NoUpload], UNCHANGED heard
    PROVE  /\ heard' \subseteq {b \in Admins : pc'[b] = "load"}
           /\ pc' \in [Admins -> {"idle", "written", "load", "judge", "accept",
                                  "undo", "update", "refuse", "withdraw"}]
           /\ up' \in [Admins -> Uploads \cup {NoUpload}]
           /\ \A b \in Admins : pc'[b] = "idle" <=> up'[b] = NoUpload
           /\ \A b \in Admins : pc'[b] # "idle" => up'[b].did \subseteq up'[b].content.ops
<1>1. pc[a] = from /\ pc' = [pc EXCEPT ![a] = "idle"]
  BY DEF Step
<1>2. /\ pc'[a] = "idle" /\ up'[a] = NoUpload
      /\ \A b \in Admins : b # a => pc'[b] = pc[b] /\ up'[b] = up[b]
  BY <1>1 DEF Kinds
<1>3. up' \in [Admins -> Uploads \cup {NoUpload}]
  BY DEF Kinds
<1>4. pc' \in [Admins -> {"idle", "written", "load", "judge", "accept",
                          "undo", "update", "refuse", "withdraw"}]
  BY <1>1 DEF Kinds
<1>5. heard' \subseteq {b \in Admins : pc'[b] = "load"}
  BY <1>1, <1>2 DEF Kinds
<1> QED BY <1>2, <1>3, <1>4, <1>5 DEF Kinds

-----------------------------------------------------------------------------
(* Types. *)

LEMMA WriteKinds ==
    ASSUME Kinds, NEW a \in Admins, NEW f \in Files, NEW c \in Contents,
           NEW force \in BOOLEAN, Write(a, f, c, force)
    PROVE  Kinds'
<1> DEFINE new == [file |-> f, content |-> c, force |-> force, backup |-> disk[f],
                   before |-> ops, did |-> {}, claimed |-> {},
                   was |-> <<disk, ops, owner, routes>>]
<1>1. /\ pc[a] = "idle" /\ pc' = [pc EXCEPT ![a] = "written"] /\ up' = [up EXCEPT ![a] = new]
      /\ disk' = [disk EXCEPT ![f] = c] /\ spent' = spent + 1 /\ spent < Requests
      /\ UNCHANGED <<ops, owner, routes, heard, drift>>
  BY DEF Write, Step, Request
<1>2. new \in Uploads /\ new.did \subseteq new.content.ops
  BY DEF Kinds, Uploads, Disks, Registries
<1> HIDE DEF new
<1>3. /\ pc'[a] = "written" /\ up'[a] = new
      /\ \A b \in Admins : b # a => pc'[b] = pc[b] /\ up'[b] = up[b]
  BY <1>1 DEF Kinds
<1>4. spent' \in 0 .. Requests
  BY <1>1, FileAssumption DEF Kinds
<1>5. disk' \in Disks
  BY <1>1 DEF Kinds, Disks
<1>6. /\ pc' \in [Admins -> {"idle", "written", "load", "judge", "accept",
                             "undo", "update", "refuse", "withdraw"}]
      /\ up' \in [Admins -> Uploads \cup {NoUpload}]
  BY <1>1, <1>2 DEF Kinds
<1>7. heard' \subseteq {b \in Admins : pc'[b] = "load"}
  BY <1>1, <1>3 DEF Kinds
<1>8. \A b \in Admins : pc'[b] = "idle" <=> up'[b] = NoUpload
  BY <1>2, <1>3, NoUploadIsNone DEF Kinds
<1>9. \A b \in Admins : pc'[b] # "idle" => up'[b].did \subseteq up'[b].content.ops
  BY <1>2, <1>3 DEF Kinds
<1> QED BY <1>1, <1>4, <1>5, <1>6, <1>7, <1>8, <1>9 DEF Kinds

LEMMA SnapshotKinds ==
    ASSUME Kinds, NEW a \in Admins, Snapshot(a)
    PROVE  Kinds'
<1> DEFINE new == [up[a] EXCEPT !.before = ops]
<1>1. /\ pc[a] = "written" /\ pc' = [pc EXCEPT ![a] = "load"] /\ up' = [up EXCEPT ![a] = new]
      /\ heard' = heard \cup {a}
      /\ UNCHANGED <<disk, ops, owner, routes, spent, drift>>
  BY DEF Snapshot, Step
<1>2. new \in Uploads /\ new.did \subseteq new.content.ops
  BY <1>1, UploadKind DEF Kinds, Uploads
<1> HIDE DEF new
<1>3. /\ pc'[a] = "load" /\ up'[a] = new
      /\ \A b \in Admins : b # a => pc'[b] = pc[b] /\ up'[b] = up[b]
  BY <1>1 DEF Kinds
<1>6. /\ pc' \in [Admins -> {"idle", "written", "load", "judge", "accept",
                             "undo", "update", "refuse", "withdraw"}]
      /\ up' \in [Admins -> Uploads \cup {NoUpload}]
  BY <1>1, <1>2 DEF Kinds
<1>7. heard' \subseteq {b \in Admins : pc'[b] = "load"}
  BY <1>1, <1>3 DEF Kinds
<1>8. \A b \in Admins : pc'[b] = "idle" <=> up'[b] = NoUpload
  BY <1>2, <1>3, NoUploadIsNone DEF Kinds
<1>9. \A b \in Admins : pc'[b] # "idle" => up'[b].did \subseteq up'[b].content.ops
  BY <1>2, <1>3 DEF Kinds
<1> QED BY <1>1, <1>6, <1>7, <1>8, <1>9 DEF Kinds

\* The locals of b after thread a has registered o.
Told(a, o, b) ==
    IF pc[b] # "load" THEN up[b]
    ELSE [up[b] EXCEPT !.did = IF b = a THEN @ \cup {o} ELSE @,
                       !.claimed = IF b \in heard THEN @ \cup {o} ELSE @]

LEMMA ToldKinds ==
    ASSUME NEW a \in Admins, NEW b \in Admins, NEW o \in Ops,
           up[b] \in Uploads, pc[b] = "load"
    PROVE  /\ Told(a, o, b) \in Uploads
           /\ b = a => Told(a, o, b).did = up[b].did \cup {o}
           /\ b # a => Told(a, o, b).did = up[b].did
           /\ b \in heard => Told(a, o, b).claimed = up[b].claimed \cup {o}
           /\ Told(a, o, b).file = up[b].file /\ Told(a, o, b).content = up[b].content
           /\ Told(a, o, b).backup = up[b].backup /\ Told(a, o, b).before = up[b].before
           /\ Told(a, o, b).was = up[b].was
<1> DEFINE did == IF b = a THEN up[b].did \cup {o} ELSE up[b].did
           claimed == IF b \in heard THEN up[b].claimed \cup {o} ELSE up[b].claimed
           v == Told(a, o, b)
           w == [up[b] EXCEPT !.did = did]
<1>1. did \in SUBSET Ops /\ claimed \in SUBSET Ops
  BY DEF Uploads
<1>2. v = [up[b] EXCEPT !.did = did, !.claimed = claimed]
  BY DEF Told
<1>3. v = [w EXCEPT !.claimed = claimed]
  BY <1>2
<1> HIDE DEF did, claimed, v
<1>4. /\ w \in Uploads /\ w.did = did
      /\ w.file = up[b].file /\ w.content = up[b].content /\ w.backup = up[b].backup
      /\ w.before = up[b].before /\ w.was = up[b].was
  BY <1>1 DEF Uploads
<1> HIDE DEF w
<1>5. /\ v \in Uploads /\ v.did = w.did /\ v.claimed = claimed
      /\ v.file = w.file /\ v.content = w.content /\ v.backup = w.backup
      /\ v.before = w.before /\ v.was = w.was
  BY <1>1, <1>3, <1>4 DEF Uploads
<1> QED BY <1>4, <1>5 DEF did, claimed, v

LEMMA RegisterKinds ==
    ASSUME Kinds, NEW a \in Admins, NEW o \in Ops, Register(a, o)
    PROVE  Kinds'
<1>1. /\ pc[a] = "load" /\ o \in up[a].content.ops
      /\ ops' = [ops EXCEPT ![o] = [file |-> up[a].file, content |-> up[a].content]]
      /\ up' = [b \in Admins |-> Told(a, o, b)]
      /\ UNCHANGED <<disk, owner, routes, heard, pc, spent, drift>>
  BY DEF Register, Told
<1>2. ops' \in Registries
  BY <1>1, UploadKind DEF Kinds, Registries, OpVersions
<1>3. ASSUME NEW b \in Admins
      PROVE  /\ Told(a, o, b) \in Uploads \cup {NoUpload}
             /\ pc[b] = "idle" <=> Told(a, o, b) = NoUpload
             /\ pc[b] # "idle" => Told(a, o, b).did \subseteq Told(a, o, b).content.ops
  <2>1. CASE pc[b] # "load"
    BY <2>1 DEF Told, Kinds
  <2>2. CASE pc[b] = "load"
    <3>1. up[b] \in Uploads /\ up[b].did \subseteq up[b].content.ops /\ (b = a => o \in up[b].content.ops)
      BY <1>1, <2>2, UploadKind
    <3>2. pc[b] = "load" /\ up[b] \in Uploads /\ b \in Admins /\ a \in Admins /\ o \in Ops
      BY <2>2, <3>1
    <3>4. Told(a, o, b) \in Uploads
      BY <3>2, ToldKinds
    <3>5. Told(a, o, b).content = up[b].content
      BY <3>2, ToldKinds
    <3>6. b = a => Told(a, o, b).did = up[b].did \cup {o}
      BY <3>2, ToldKinds
    <3>7. b # a => Told(a, o, b).did = up[b].did
      BY <3>2, ToldKinds
    <3> QED BY <3>1, <3>2, <3>4, <3>5, <3>6, <3>7, NoUploadIsNone
  <2> QED BY <2>1, <2>2
<1>4. up' \in [Admins -> Uploads \cup {NoUpload}]
  BY <1>1, <1>3
<1>5. \A b \in Admins : up'[b] = Told(a, o, b)
  BY <1>1
<1> QED BY <1>1, <1>2, <1>3, <1>4, <1>5 DEF Kinds

LEMMA UploadKinds ==
    ASSUME Kinds, NEW a \in Admins,
           LoadFails(a) \/ LoadEnds(a) \/ Judge(a) \/ Undo(a) \/ Undone(a) \/ Accept(a)
    PROVE  Kinds'
<1>1. CASE LoadFails(a)
  BY <1>1, StepKind DEF LoadFails, Kinds
<1>2. CASE LoadEnds(a)
  <2>1. pc[a] = "load" /\ Step(a, "load", IF heard = {} THEN "undo" ELSE "judge")
        /\ heard' = {} /\ UNCHANGED <<disk, ops, owner, up, spent, drift>>
    BY <1>2 DEF LoadEnds
  <2>2. up[a].file \in Files /\ up[a].content \in Contents
    BY <2>1, UploadKind
  <2>3. routes' \subseteq Routes
    BY <1>2, <2>2 DEF LoadEnds, Kinds, Routes
  <2>4. Step(a, "load", "undo") \/ Step(a, "load", "judge")
    BY <2>1
  <2> QED BY <2>1, <2>3, <2>4, StepKind DEF Kinds
<1>3. CASE Judge(a)
  <2>1. Step(a, "judge", "refuse") \/ Step(a, "judge", "accept")
    BY <1>3 DEF Judge
  <2> QED BY <1>3, <2>1, StepKind DEF Judge, Kinds
<1>4. CASE Undo(a)
  <2>1. ops' \in Registries
    BY <1>4 DEF Undo, Registries
  <2> QED BY <1>4, <2>1, StepKind DEF Undo, Kinds
<1>5. CASE Undone(a)
  <2>1. pc[a] # "idle" /\ (Step(a, "update", "idle") \/ Step(a, "withdraw", "idle"))
    BY <1>5 DEF Undone, Step
  <2>2. ops' \in Registries /\ disk' \in Disks /\ routes' \subseteq Routes
    BY <1>5, <2>1, UploadKind DEF Undone, Kinds, Disks
  <2> QED BY <1>5, <2>1, <2>2, IdleKind DEF Undone, Kinds
<1>6. CASE Accept(a)
  <2>1. pc[a] # "idle" /\ Step(a, "accept", "idle")
    BY <1>6 DEF Accept, Step
  <2>2. ops' \in Registries
    BY <1>6 DEF Accept, Kinds, Registries
  <2>3. owner' \in Owners
    BY <1>6, <2>1, UploadKind DEF Accept, Kinds, Owners
  <2>4. routes' \subseteq Routes
    BY <1>6 DEF Accept, Relisted, Kinds, Routes
  <2>5. drift' \in BOOLEAN
    BY <1>6 DEF Accept
  <2> QED BY <1>6, <2>1, <2>2, <2>3, <2>4, <2>5, IdleKind DEF Accept, Kinds
<1> QED BY <1>1, <1>2, <1>3, <1>4, <1>5, <1>6

LEMMA OtherKinds ==
    ASSUME Kinds,
           \/ \E a \in Admins, f \in Files : Delete(a, f)
           \/ \E f \in Files : RemoveByHand(f)
           \/ Restart \/ UNCHANGED vars
    PROVE  Kinds'
<1>1. ASSUME NEW a \in Admins, NEW f \in Files, Delete(a, f) PROVE Kinds'
  <2>1. /\ ops' = Deleted(f) /\ owner' = [o \in Ops |-> IF owner[o] = f THEN NoFile ELSE owner[o]]
        /\ routes' \subseteq routes /\ disk' = [disk EXCEPT ![f] = NoContent]
        /\ spent < Requests /\ spent' = spent + 1
        /\ UNCHANGED <<heard, pc, up, drift>>
    BY <1>1 DEF Delete, Request
  <2>2. ops' \in Registries /\ owner' \in Owners /\ disk' \in Disks
    BY <2>1 DEF Deleted, Kinds, Registries, Owners, Disks
  <2>3. spent' \in 0 .. Requests
    BY <2>1, FileAssumption DEF Kinds
  <2> QED BY <2>1, <2>2, <2>3 DEF Kinds
<1>2. ASSUME NEW f \in Files, RemoveByHand(f) PROVE Kinds'
  <2>1. disk' \in Disks
    BY <1>2 DEF RemoveByHand, Kinds, Disks
  <2>2. drift' \in BOOLEAN
    BY <1>2 DEF RemoveByHand
  <2> QED BY <1>2, <2>1, <2>2 DEF RemoveByHand, Kinds
<1>3. CASE Restart
  <2>0. \A some \in SUBSET Files : some # {} => Max(some) \in some
    BY FileAssumption DEF Max
  <2>1. ops' \in Registries
    <3>1. PICK half \in [{f \in Files : Present(f) /\ disk[f].broken} -> SUBSET Ops] :
             ops' = [o \in Ops |-> Scanned(o, half)]
      BY <1>3 DEF Restart
    <3>2. ASSUME NEW o \in Ops PROVE Scanned(o, half) \in OpVersions \cup {NoOp}
      <4>1. Declaring(o, half) \subseteq {f \in Files : Present(f)}
        BY DEF Declaring, Whole
      <4>2. CASE Declaring(o, half) = {}
        BY <4>2 DEF Scanned
      <4>3. CASE Declaring(o, half) # {}
        <5>1. Max(Declaring(o, half)) \in {f \in Files : Present(f)}
          BY <2>0, <4>1, <4>3
        <5> QED BY <4>3, <5>1 DEF Scanned, OpVersions, Present, Kinds, Disks
      <4> QED BY <4>2, <4>3
    <3> QED BY <3>1, <3>2 DEF Registries
  <2>2. owner' \in Owners
    <3>1. \A o \in Ops : {f \in Whole : o \in disk[f].ops} \in SUBSET Files
      BY DEF Whole
    <3> QED BY <1>3, <2>0, <3>1 DEF Restart, Owners
  <2>3. routes' \subseteq Routes
    BY <1>3 DEF Restart, Whole, Present, Kinds, Disks, Routes
  <2>4. /\ heard' = {} /\ pc' = [a \in Admins |-> "idle"] /\ up' = [a \in Admins |-> NoUpload]
        /\ UNCHANGED <<disk, spent>>
    BY <1>3 DEF Restart
  <2>5. drift' \in BOOLEAN
    BY <1>3 DEF Restart
  <2> QED BY <2>1, <2>2, <2>3, <2>4, <2>5 DEF Kinds
<1>4. CASE UNCHANGED vars
  BY <1>4 DEF vars, Kinds
<1> QED BY <1>1, <1>2, <1>3, <1>4

LEMMA KindsHold == Spec => []Kinds
<1>1. Init => Kinds
  <2> SUFFICES ASSUME Init PROVE Kinds
    OBVIOUS
  <2>1. disk \in Disks /\ ops \in Registries /\ owner \in Owners
    BY DEF Init, Disks, Registries, Owners
  <2>2. /\ \A a \in Admins : pc[a] = "idle" /\ up[a] = NoUpload
        /\ up \in [Admins -> Uploads \cup {NoUpload}]
        /\ pc \in [Admins -> {"idle", "written", "load", "judge", "accept",
                              "undo", "update", "refuse", "withdraw"}]
    BY DEF Init
  <2>3. spent \in 0 .. Requests
    BY FileAssumption DEF Init
  <2>4. routes = {} /\ heard = {} /\ drift \in BOOLEAN
    BY DEF Init
  <2> QED BY <2>1, <2>2, <2>3, <2>4 DEF Kinds
<1>2. Kinds /\ [Next]_vars => Kinds'
  <2> SUFFICES ASSUME Kinds, [Next]_vars PROVE Kinds'
    OBVIOUS
  <2>1. ASSUME NEW a \in Admins, Upload(a) PROVE Kinds'
    <3>1. ASSUME NEW f \in Files, NEW c \in Contents, NEW force \in BOOLEAN,
                 Write(a, f, c, force)
          PROVE  Kinds'
      BY <3>1, WriteKinds
    <3>2. CASE Snapshot(a)
      BY <3>2, SnapshotKinds
    <3>3. ASSUME NEW o \in Ops, Register(a, o) PROVE Kinds'
      BY <3>3, RegisterKinds
    <3>4. CASE LoadFails(a) \/ LoadEnds(a) \/ Judge(a) \/ Undo(a) \/ Undone(a) \/ Accept(a)
      BY <3>4, UploadKinds
    <3> QED BY <2>1, <3>1, <3>2, <3>3, <3>4 DEF Upload
  <2> QED BY <2>1, OtherKinds DEF Next
<1> QED BY <1>1, <1>2, PTL DEF Spec

\* Every variable holds a value of its kind, and a recording that stands in for
\* registry.register is that of an upload that loads (TypeOK), with any number
\* of uploads at once.
THEOREM PluginTypes == Spec => []TypeOK
<1>1. Kinds => TypeOK
  <2> SUFFICES ASSUME Kinds PROVE TypeOK
    OBVIOUS
  <2>1. \A a \in Admins : pc[a] # "idle" =>
           /\ up[a].file \in Files /\ up[a].content \in Contents
           /\ up[a].backup \in Contents \cup {NoContent}
           /\ up[a].before \in [Ops -> OpVersions \cup {NoOp}]
           /\ up[a].did \subseteq up[a].content.ops /\ up[a].claimed \subseteq Ops
    BY UploadKind DEF Registries
  <2> QED BY <2>1 DEF Kinds, TypeOK, Disks, Registries, Owners, Routes
<1> QED BY <1>1, KindsHold, PTL

-----------------------------------------------------------------------------
(* Books and registry, with one thread. *)

\* OwnedIsServed and RoutesOfUploads, of any directory, registry and books.
Agree(d, p, w, x) ==
    /\ \A o \in Ops :
          \/ p[o] = NoOp /\ w[o] = NoFile
          \/ p[o] # NoOp /\ p[o].content.broken
          \/ /\ p[o] # NoOp /\ p[o].file = w[o]
             /\ d[w[o]] # NoContent => d[w[o]] = p[o].content
    /\ \A r \in x : r.by # Nobody => d[r.file] \in {r.content, NoContent}

\* The directory and the routes as they were before the upload of a.
Old(a) == [disk EXCEPT ![up[a].file] = up[a].backup]
Others(a) == {r \in routes : r.by # a}

\* What holds of an upload wherever it is.
Began(a) ==
    /\ disk[up[a].file] = up[a].content
    /\ up[a].was = <<Old(a), up[a].before, owner, Others(a)>>
    /\ Agree(Old(a), up[a].before, owner, Others(a))

\* What it has done so far.
Done(a) ==
    /\ pc[a] = "written" => ops = up[a].before /\ up[a].claimed = {}
    /\ pc[a] = "load" => a \in heard
    /\ pc[a] \in {"load", "judge", "accept"} =>
          \A o \in Ops : ops[o] = IF o \in up[a].claimed
                                 THEN [file |-> up[a].file, content |-> up[a].content]
                                 ELSE up[a].before[o]
    /\ \A r \in routes : r.by = a =>
          /\ pc[a] \in {"judge", "accept", "refuse", "withdraw"}
          /\ r.file = up[a].file /\ r.content = up[a].content

Rest == Agree(disk, ops, owner, routes) /\ \A r \in routes : r.by \notin Admins

Booked ==
    /\ Quiet => Rest
    /\ \A a \in Admins : pc[a] # "idle" => Began(a) /\ Done(a)

\* With one thread its step is all there is.
LEMMA OneStep ==
    ASSUME OneAdmin, Kinds, NEW a \in Admins, NEW from, NEW to, Step(a, from, to),
           IF to = "idle" THEN Rest' ELSE Began(a)' /\ Done(a)'
    PROVE  Booked'
<1>1. pc'[a] = to /\ \A b \in Admins : b = a
  BY DEF Step, Kinds, OneAdmin
<1>2. CASE to = "idle"
  BY <1>1, <1>2 DEF Booked, Quiet
<1>3. CASE to # "idle"
  BY <1>1, <1>3 DEF Booked, Quiet
<1> QED BY <1>2, <1>3

\* An upload goes on: what it remembers, and what is not its own, stays.
LEMMA GoesOn ==
    ASSUME NEW a \in Admins, Began(a), UNCHANGED <<disk, owner>>,
           up'[a].file = up[a].file, up'[a].content = up[a].content,
           up'[a].backup = up[a].backup, up'[a].before = up[a].before,
           up'[a].was = up[a].was, Others(a)' = Others(a)
    PROVE  Began(a)'
<1>1. Old(a)' = Old(a)
  BY DEF Old
<1> QED BY <1>1 DEF Began, Agree

LEMMA WriteBooked ==
    ASSUME OneAdmin, Kinds, Booked, NEW a \in Admins, NEW f \in Files, NEW c \in Contents,
           NEW force \in BOOLEAN, Write(a, f, c, force)
    PROVE  Booked'
<1> DEFINE new == [file |-> f, content |-> c, force |-> force, backup |-> disk[f],
                   before |-> ops, did |-> {}, claimed |-> {},
                   was |-> <<disk, ops, owner, routes>>]
<1>1. /\ Step(a, "idle", "written") /\ up' = [up EXCEPT ![a] = new]
      /\ disk' = [disk EXCEPT ![f] = c]
      /\ UNCHANGED <<ops, owner, routes, heard, drift>>
  BY DEF Write
<1>2. /\ new.file = f /\ new.content = c /\ new.backup = disk[f] /\ new.before = ops
      /\ new.claimed = {} /\ new.was = <<disk, ops, owner, routes>>
  OBVIOUS
<1> HIDE DEF new
<1>3. pc'[a] = "written" /\ up'[a] = new /\ Quiet
  BY <1>1 DEF Step, Kinds, Quiet, OneAdmin
<1>4. Rest
  BY <1>3 DEF Booked
<1>5. Old(a)' = disk /\ disk'[f] = c
  BY <1>1, <1>2, <1>3 DEF Old, Kinds, Disks
<1>6. Others(a)' = routes
  BY <1>1, <1>4 DEF Others, Rest
<1>7. Agree(Old(a)', ops, owner, Others(a)')
  BY <1>4, <1>5, <1>6 DEF Rest
<1>8. Began(a)'
  BY <1>1, <1>2, <1>3, <1>5, <1>6, <1>7 DEF Began
<1>9. Done(a)'
  BY <1>1, <1>2, <1>3, <1>4 DEF Done, Rest
<1> QED BY <1>1, <1>8, <1>9, OneStep

LEMMA SnapshotBooked ==
    ASSUME OneAdmin, Kinds, Booked, NEW a \in Admins, Snapshot(a)
    PROVE  Booked'
<1> DEFINE new == [up[a] EXCEPT !.before = ops]
<1>1. /\ Step(a, "written", "load") /\ up' = [up EXCEPT ![a] = new]
      /\ heard' = heard \cup {a}
      /\ UNCHANGED <<disk, ops, owner, routes, spent, drift>>
  BY DEF Snapshot
<1>2. pc[a] = "written" /\ pc'[a] = "load" /\ up'[a] = new
  BY <1>1 DEF Step, Kinds
<1>3. Began(a) /\ Done(a) /\ up[a] \in Uploads /\ ops = up[a].before
  BY <1>2, UploadKind DEF Booked, Done
<1>4. /\ new.file = up[a].file /\ new.content = up[a].content /\ new.backup = up[a].backup
      /\ new.before = ops /\ new.claimed = up[a].claimed /\ new.was = up[a].was
  BY <1>3 DEF Uploads
<1> HIDE DEF new
<1>5. Others(a)' = Others(a)
  BY <1>1 DEF Others
<1>6. Began(a)'
  BY <1>1, <1>2, <1>3, <1>4, <1>5, GoesOn
<1>7. Done(a)'
  BY <1>1, <1>2, <1>3, <1>4 DEF Done
<1> QED BY <1>1, <1>6, <1>7, OneStep

LEMMA RegisterBooked ==
    ASSUME OneAdmin, Kinds, Booked, NEW a \in Admins, NEW o \in Ops, Register(a, o)
    PROVE  Booked'
<1>1. /\ pc[a] = "load"
      /\ ops' = [ops EXCEPT ![o] = [file |-> up[a].file, content |-> up[a].content]]
      /\ up' = [b \in Admins |-> Told(a, o, b)]
      /\ UNCHANGED <<disk, owner, routes, heard, pc, spent, drift>>
  BY DEF Register, Told
<1>2. Began(a) /\ Done(a) /\ up[a] \in Uploads /\ a \in heard
  BY <1>1, UploadKind DEF Booked, Done
<1>3. up'[a] = Told(a, o, a)
  BY <1>1
<1>4. up'[a].claimed = up[a].claimed \cup {o}
  BY <1>1, <1>2, <1>3, ToldKinds
<1>5. /\ up'[a].file = up[a].file /\ up'[a].content = up[a].content
      /\ up'[a].backup = up[a].backup
  BY <1>1, <1>2, <1>3, ToldKinds
<1>6. up'[a].before = up[a].before /\ up'[a].was = up[a].was
  BY <1>1, <1>2, <1>3, ToldKinds
<1>7. Others(a)' = Others(a)
  BY <1>1 DEF Others
<1>8. Began(a)'
  BY <1>1, <1>2, <1>5, <1>6, <1>7, GoesOn
<1>9. \A n \in Ops : ops'[n] = IF n \in up'[a].claimed
                              THEN [file |-> up'[a].file, content |-> up'[a].content]
                              ELSE up'[a].before[n]
  <2>1. ASSUME NEW n \in Ops
        PROVE  ops'[n] = IF n = o THEN [file |-> up[a].file, content |-> up[a].content]
                         ELSE ops[n]
    BY <1>1 DEF Kinds, Registries
  <2>2. \A n \in Ops : ops[n] = IF n \in up[a].claimed
                               THEN [file |-> up[a].file, content |-> up[a].content]
                               ELSE up[a].before[n]
    BY <1>1, <1>2 DEF Done
  <2> QED BY <1>4, <1>5, <1>6, <2>1, <2>2
<1>10. Done(a)'
  BY <1>1, <1>2, <1>9 DEF Done
<1>11. \A b \in Admins : b = a
  BY DEF OneAdmin
<1> QED BY <1>1, <1>8, <1>10, <1>11 DEF Booked, Quiet

LEMMA GoingBooked ==
    ASSUME OneAdmin, Kinds, Booked, NEW a \in Admins,
           LoadFails(a) \/ LoadEnds(a) \/ Judge(a) \/ Undo(a)
    PROVE  Booked'
<1>1. PICK from, to : Step(a, from, to) /\ from # "idle" /\ to # "idle"
  BY DEF LoadFails, LoadEnds, Judge, Undo
<1>2. UNCHANGED <<disk, owner, up>> /\ pc[a] = from /\ pc'[a] = to /\ pc[a] # "idle"
  BY <1>1 DEF LoadFails, LoadEnds, Judge, Undo, Step, Kinds
<1>3. Began(a) /\ Done(a)
  BY <1>2 DEF Booked
<1>4. Others(a)' = Others(a)
  <2>1. CASE LoadEnds(a)
    <3>1. a \in heard
      BY <1>3, <2>1 DEF LoadEnds, Done
    <3>2. \A r : r \in routes' => r \in routes \/ r.by = a
      BY <2>1, <3>1 DEF LoadEnds
    <3>3. routes \subseteq routes'
      BY <2>1 DEF LoadEnds
    <3> QED BY <3>2, <3>3 DEF Others
  <2>2. CASE LoadFails(a) \/ Judge(a) \/ Undo(a)
    BY <2>2 DEF LoadFails, Judge, Undo, Others
  <2> QED BY <2>1, <2>2
<1>5. Began(a)'
  BY <1>2, <1>3, <1>4, GoesOn
<1>6. Done(a)'
  <2>1. CASE LoadFails(a)
    <3>1. pc[a] = "load" /\ pc'[a] = "undo" /\ UNCHANGED <<ops, routes, up>>
      BY <2>1 DEF LoadFails, Step, Kinds
    <3> QED BY <1>3, <3>1 DEF Done
  <2>2. CASE LoadEnds(a)
    <3>1. a \in heard
      BY <1>3, <2>2 DEF LoadEnds, Done
    <3>2. pc[a] = "load" /\ pc'[a] = "judge" /\ UNCHANGED <<ops, up>>
      BY <2>2, <3>1 DEF LoadEnds, Step, Kinds
    <3>3. \A r \in routes' : r.by = a => r.file = up[a].file /\ r.content = up[a].content
      BY <1>3, <2>2 DEF LoadEnds, Done
    <3> QED BY <1>3, <3>2, <3>3 DEF Done
  <2>3. CASE Judge(a)
    <3>1. pc[a] = "judge" /\ pc'[a] \in {"refuse", "accept"} /\ UNCHANGED <<ops, routes, up>>
      BY <2>3 DEF Judge, Step, Kinds
    <3> QED BY <1>3, <3>1 DEF Done
  <2>4. CASE Undo(a)
    <3>1. /\ \/ pc[a] = "undo" /\ pc'[a] = "update"
             \/ pc[a] = "refuse" /\ pc'[a] = "withdraw"
          /\ UNCHANGED <<routes, up>>
      BY <2>4 DEF Undo, Step, Kinds
    <3> QED BY <1>3, <3>1 DEF Done
  <2> QED BY <2>1, <2>2, <2>3, <2>4
<1> QED BY <1>1, <1>5, <1>6, OneStep

\* The end of a refused upload: everything is as it was.
LEMMA AsItWas ==
    ASSUME Kinds, Booked, NEW a \in Admins, Undone(a)
    PROVE  /\ <<disk, ops, owner, routes>>' = up[a].was
           /\ disk' = Old(a) /\ ops' = up[a].before /\ owner' = owner /\ routes' = Others(a)
           /\ Began(a)
<1>1. /\ pc[a] \in {"update", "withdraw"} /\ ops' = up[a].before /\ disk' = Old(a)
      /\ UNCHANGED owner
      /\ routes' = IF pc[a] = "withdraw" THEN Others(a) ELSE routes
  BY DEF Undone, Step, Old, Others
<1>2. Began(a) /\ Done(a)
  BY <1>1 DEF Booked
<1>3. routes' = Others(a)
  BY <1>1, <1>2 DEF Done, Others
<1> QED BY <1>1, <1>2, <1>3 DEF Began

LEMMA UndoneBooked ==
    ASSUME OneAdmin, Kinds, Booked, NEW a \in Admins, Undone(a)
    PROVE  Booked'
<1>1. Agree(disk', ops', owner', routes')
  BY AsItWas DEF Began
<1>2. \A r \in routes' : r.by \notin Admins
  BY AsItWas DEF Others, OneAdmin
<1>3. Rest'
  BY <1>1, <1>2 DEF Rest
<1>4. Step(a, "update", "idle") \/ Step(a, "withdraw", "idle")
  BY DEF Undone
<1> QED BY <1>3, <1>4, OneStep

LEMMA AcceptBooked ==
    ASSUME OneAdmin, Kinds, Booked, NEW a \in Admins, Accept(a)
    PROVE  Booked'
<1> DEFINE file == up[a].file
           content == up[a].content
<1>1. /\ Step(a, "accept", "idle") /\ pc[a] = "accept" /\ UNCHANGED disk
      /\ ops' = [o \in Ops |-> IF o \in Dropped(a) THEN NoOp ELSE ops[o]]
      /\ owner' = [o \in Ops |-> IF o \in up[a].claimed THEN file
                                 ELSE IF o \in Dropped(a) THEN NoFile ELSE owner[o]]
      /\ routes' = Relisted(a)
  BY DEF Accept, Step
<1>2. Began(a) /\ Done(a) /\ file \in Files /\ content \in Contents
  BY <1>1, UploadKind DEF Booked
<1>3. /\ disk[file] = content
      /\ \A f \in Files : f # file => Old(a)[f] = disk[f]
  BY <1>2 DEF Began, Old, Kinds, Disks
<1>4. \A o \in Ops : ops[o] = IF o \in up[a].claimed THEN [file |-> file, content |-> content]
                             ELSE up[a].before[o]
  BY <1>1, <1>2 DEF Done
<1>5. Agree(Old(a), up[a].before, owner, Others(a))
  BY <1>2 DEF Began
<1>6. [file |-> file, content |-> content] # NoOp
  BY <1>2, NoneAssumption
<1> HIDE DEF file, content
<1>7. ASSUME NEW o \in Ops
      PROVE  \/ ops'[o] = NoOp /\ owner'[o] = NoFile
             \/ ops'[o] # NoOp /\ ops'[o].content.broken
             \/ /\ ops'[o] # NoOp /\ ops'[o].file = owner'[o]
                /\ disk[owner'[o]] # NoContent => disk[owner'[o]] = ops'[o].content
  <2>1. CASE o \in up[a].claimed
    <3>1. ops'[o] = [file |-> file, content |-> content] /\ owner'[o] = file
      BY <1>1, <1>4, <2>1 DEF Dropped
    <3> QED BY <1>3, <1>6, <3>1
  <2>2. CASE o \notin up[a].claimed /\ owner[o] = file
    BY <1>1, <2>2 DEF Dropped, file
  <2>3. CASE o \notin up[a].claimed /\ owner[o] # file
    <3>1. ops'[o] = up[a].before[o] /\ owner'[o] = owner[o]
      BY <1>1, <1>4, <2>3 DEF Dropped, file
    <3>2. owner[o] \in Files => Old(a)[owner[o]] = disk[owner[o]]
      BY <1>3, <2>3
    <3>3. up[a].before[o] # NoOp => up[a].before[o].file \in Files
      BY <1>1, UploadKind DEF Registries, OpVersions
    <3> QED BY <1>5, <3>1, <3>2, <3>3 DEF Agree
  <2> QED BY <2>1, <2>2, <2>3
<1>8. ASSUME NEW r \in routes', r.by # Nobody
      PROVE  disk[r.file] \in {r.content, NoContent} /\ r.by \notin Admins
  <2>1. "listed" \notin Admins /\ \A b \in Admins : b = a
    BY NoneAssumption DEF OneAdmin
  <2>2. CASE r \in routes /\ r.by # a /\ ~(r.file = file /\ r.by = "listed")
    <3>1. r \in Others(a) /\ r.by = "listed" /\ r.file \in Files /\ r.file # file
      BY <1>8, <2>1, <2>2 DEF Others, Kinds, Routes
    <3>2. Old(a)[r.file] \in {r.content, NoContent}
      BY <1>5, <1>8, <3>1 DEF Agree
    <3> QED BY <1>3, <2>1, <3>1, <3>2
  <2>3. CASE \E q \in routes : q.by = a /\ r = [q EXCEPT !.by = "listed"]
    <3>1. PICK q \in routes : q.by = a /\ r = [q EXCEPT !.by = "listed"]
      BY <2>3
    <3>2. q \in Routes /\ q.file = file /\ q.content = content
      BY <1>2, <3>1 DEF Done, Kinds, file, content
    <3>3. r.file = q.file /\ r.content = q.content /\ r.by = "listed"
      BY <3>1, <3>2 DEF Routes
    <3> QED BY <1>3, <2>1, <3>2, <3>3
  <2> QED BY <1>1, <2>2, <2>3 DEF Relisted, file
<1>9. Agree(disk', ops', owner', routes')
  BY <1>1, <1>7, <1>8 DEF Agree
<1>10. Rest'
  BY <1>8, <1>9, NoneAssumption DEF Rest
<1> QED BY <1>1, <1>10, OneStep

LEMMA OtherBooked ==
    ASSUME OneAdmin, Kinds, Kinds', Booked,
           \/ \E a \in Admins, f \in Files : Delete(a, f)
           \/ \E f \in Files : RemoveByHand(f)
           \/ UNCHANGED vars
    PROVE  Booked'
<1>1. ASSUME NEW a \in Admins, NEW f \in Files, Delete(a, f) PROVE Booked'
  <2>1. /\ pc[a] = "idle" /\ UNCHANGED <<pc, up>>
        /\ ops' = [o \in Ops |-> IF owner[o] = f THEN NoOp ELSE ops[o]]
        /\ owner' = [o \in Ops |-> IF owner[o] = f THEN NoFile ELSE owner[o]]
        /\ routes' \subseteq routes /\ disk' = [disk EXCEPT ![f] = NoContent]
    BY <1>1 DEF Delete, Request, Deleted
  <2>2. Quiet /\ Quiet' /\ Rest
    BY <2>1 DEF Quiet, OneAdmin, Booked
  <2>3. \A g \in Files : disk'[g] = IF g = f THEN NoContent ELSE disk[g]
    BY <2>1 DEF Kinds, Disks
  <2>4. ASSUME NEW o \in Ops
        PROVE  \/ ops'[o] = NoOp /\ owner'[o] = NoFile
               \/ ops'[o] # NoOp /\ ops'[o].content.broken
               \/ /\ ops'[o] # NoOp /\ ops'[o].file = owner'[o]
                  /\ disk'[owner'[o]] # NoContent => disk'[owner'[o]] = ops'[o].content
    <3>1. CASE owner[o] = f
      BY <2>1, <3>1
    <3>2. CASE owner[o] # f
      <4>1. ops'[o] = ops[o] /\ owner'[o] = owner[o]
        BY <2>1, <3>2
      <4>2. ops[o] # NoOp => ops[o].file \in Files
        BY DEF Kinds, Registries, OpVersions
      <4> QED BY <2>2, <2>3, <3>2, <4>1, <4>2 DEF Rest, Agree
    <3> QED BY <3>1, <3>2
  <2>5. \A r \in routes' : r.by # Nobody => disk'[r.file] \in {r.content, NoContent}
    BY <2>1, <2>2, <2>3 DEF Rest, Agree, Kinds, Routes
  <2>6. Rest'
    BY <2>1, <2>2, <2>4, <2>5 DEF Rest, Agree
  <2> QED BY <2>2, <2>6 DEF Booked, Quiet
<1>2. ASSUME NEW f \in Files, RemoveByHand(f) PROVE Booked'
  <2>1. /\ Quiet /\ UNCHANGED <<ops, owner, routes, pc>>
        /\ disk' = [disk EXCEPT ![f] = NoContent]
    BY <1>2 DEF RemoveByHand
  <2>2. Quiet' /\ Rest
    BY <2>1 DEF Quiet, Booked
  <2>3. \A g \in Files : disk'[g] = IF g = f THEN NoContent ELSE disk[g]
    BY <2>1 DEF Kinds, Disks
  <2>4. \A o \in Ops : ops[o] # NoOp => ops[o].file \in Files
    BY DEF Kinds, Registries, OpVersions
  <2>5. Agree(disk', ops, owner, routes)
    BY <2>2, <2>3, <2>4 DEF Rest, Agree, Kinds, Routes
  <2>6. Rest'
    BY <2>1, <2>2, <2>5 DEF Rest
  <2> QED BY <2>2, <2>6 DEF Booked, Quiet
<1>3. CASE UNCHANGED vars
  <2>1. UNCHANGED <<disk, ops, owner, routes, heard, pc, up>>
    BY <1>3 DEF vars
  <2> QED BY <2>1 DEF Booked, Quiet, Rest, Agree, Began, Done, Old, Others
<1> QED BY <1>1, <1>2, <1>3

LEMMA RestartBooked ==
    ASSUME Kinds, Restart
    PROVE  Booked'
<1>1. PICK half \in [{f \in Files : Present(f) /\ disk[f].broken} -> SUBSET Ops] :
         ops' = [o \in Ops |-> Scanned(o, half)]
  BY DEF Restart
<1>2. /\ owner' = [o \in Ops |-> IF {f \in Whole : o \in disk[f].ops} = {} THEN NoFile
                                 ELSE Max({f \in Whole : o \in disk[f].ops})]
      /\ \A r \in routes' : r.by = Nobody
      /\ pc' = [a \in Admins |-> "idle"] /\ disk' = disk
  BY DEF Restart
<1>3. ASSUME NEW some \in SUBSET Files, some # {}
      PROVE  Max(some) \in some /\ \A g \in some : Max(some) >= g
  BY <1>3, FileAssumption DEF Max
<1>4. ASSUME NEW o \in Ops
      PROVE  \/ ops'[o] = NoOp /\ owner'[o] = NoFile
             \/ ops'[o] # NoOp /\ ops'[o].content.broken
             \/ /\ ops'[o] # NoOp /\ ops'[o].file = owner'[o]
                /\ disk[owner'[o]] # NoContent => disk[owner'[o]] = ops'[o].content
  <2> DEFINE D == Declaring(o, half)
             S == {f \in Whole : o \in disk[f].ops}
  <2>1. D \in SUBSET Files /\ S \in SUBSET D
    BY DEF Declaring, Whole
  <2>2. /\ ops'[o] = IF D = {} THEN NoOp ELSE [file |-> Max(D), content |-> disk[Max(D)]]
        /\ owner'[o] = IF S = {} THEN NoFile ELSE Max(S)
    BY <1>1, <1>2 DEF Scanned
  <2>3. \A f \in D : Present(f) /\ (f \in S \/ disk[f].broken)
    BY DEF Declaring, Whole
  <2> HIDE DEF D, S
  <2>4. CASE D = {}
    BY <2>1, <2>2, <2>4
  <2>5. CASE D # {}
    <3>1. Max(D) \in D /\ Max(D) \in Files /\ \A g \in D : Max(D) >= g
      BY <1>3, <2>1, <2>5
    <3>2. disk[Max(D)] \in Contents
      BY <2>3, <3>1 DEF Present, Kinds, Disks
    <3>3. [file |-> Max(D), content |-> disk[Max(D)]] # NoOp
      BY <3>1, <3>2, NoneAssumption
    <3>4. CASE Max(D) \notin S
      BY <2>2, <2>3, <2>5, <3>1, <3>3, <3>4
    <3>5. CASE Max(D) \in S
      <4>1. Max(S) \in S /\ Max(S) >= Max(D)
        BY <1>3, <2>1, <3>5
      <4>2. Max(S) = Max(D)
        <5>1. Max(S) \in D /\ Max(D) >= Max(S)
          BY <2>1, <3>1, <4>1
        <5>2. Max(S) \in Nat /\ Max(D) \in Nat
          BY <2>1, <3>1, <5>1, FileAssumption
        <5> QED BY <4>1, <5>1, <5>2
      <4> QED BY <2>2, <2>5, <3>3, <3>5, <4>2
    <3> QED BY <3>4, <3>5
  <2> QED BY <2>4, <2>5
<1>5. Agree(disk', ops', owner', routes')
  BY <1>2, <1>4 DEF Agree
<1>6. Rest'
  BY <1>2, <1>5, NoneAssumption DEF Rest
<1> QED BY <1>2, <1>6 DEF Booked

LEMMA BookedHolds ==
    ASSUME OneAdmin
    PROVE  Spec => []Booked
<1>1. Init => Booked
  <2> SUFFICES ASSUME Init PROVE Booked
    OBVIOUS
  <2>1. Rest
    BY DEF Init, Rest, Agree
  <2> QED BY <2>1 DEF Booked, Init
<1>2. Kinds /\ Kinds' /\ Booked /\ [Next]_vars => Booked'
  <2> SUFFICES ASSUME Kinds, Kinds', Booked, [Next]_vars PROVE Booked'
    OBVIOUS
  <2>1. ASSUME NEW a \in Admins, Upload(a) PROVE Booked'
    <3>1. ASSUME NEW f \in Files, NEW c \in Contents, NEW force \in BOOLEAN,
                 Write(a, f, c, force)
          PROVE  Booked'
      BY <3>1, WriteBooked
    <3>2. CASE Snapshot(a)
      BY <3>2, SnapshotBooked
    <3>3. ASSUME NEW o \in Ops, Register(a, o) PROVE Booked'
      BY <3>3, RegisterBooked
    <3>4. CASE LoadFails(a) \/ LoadEnds(a) \/ Judge(a) \/ Undo(a)
      BY <3>4, GoingBooked
    <3>5. CASE Undone(a)
      BY <3>5, UndoneBooked
    <3>6. CASE Accept(a)
      BY <3>6, AcceptBooked
    <3> QED BY <2>1, <3>1, <3>2, <3>3, <3>4, <3>5, <3>6 DEF Upload
  <2>2. CASE Restart
    BY <2>2, RestartBooked
  <2> QED BY <2>1, <2>2, OtherBooked DEF Next
<1> QED BY <1>1, <1>2, KindsHold, PTL DEF Spec

\* With uploads one after the other, registry, books and directory agree
\* whenever no request is under way (ServedIsBooked), for any files, operators
\* and contents, and after takeovers, refusals, files removed by hand, crashes
\* and restarts.
THEOREM BooksAgree == ASSUME OneAdmin PROVE Spec => []ServedIsBooked
<1>1. Booked => ServedIsBooked
  BY DEF Booked, Rest, Agree, ServedIsBooked, OwnedIsServed, RoutesOfUploads, Present
<1> QED BY <1>1, BookedHolds, PTL

\* With uploads one after the other, one that does not load and one that is
\* refused leave files, registry, owners and routes as they were when it began
\* (RefusalLeavesNoTrace).
THEOREM RefusalsLeaveNoTrace == ASSUME OneAdmin PROVE Spec => RefusalLeavesNoTrace
<1>1. Kinds /\ Booked /\ [Next]_vars =>
         [\A a \in Admins : Undone(a) => <<disk, ops, owner, routes>>' = up[a].was]_vars
  BY AsItWas
<1> QED BY <1>1, KindsHold, BookedHolds, PTL DEF Spec, RefusalLeavesNoTrace

-----------------------------------------------------------------------------
(* Restarts, with one thread. *)

\* A directory in which every file is whole and every name belongs to the one
\* file that declares it, and the registry that serves it.
InOrder(d, p, w) ==
    /\ \A f \in Files : d[f] # NoContent => ~d[f].broken /\ \A o \in d[f].ops : w[o] = f
    /\ \A o \in Ops :
          IF w[o] = NoFile THEN p[o] = NoOp
          ELSE /\ d[w[o]] # NoContent /\ o \in d[w[o]].ops
               /\ p[o] = [file |-> w[o], content |-> d[w[o]]]

\* An upload claims what its file declares, once it is loaded.
Claims(a) ==
    /\ pc[a] \in {"written", "load"} => up[a].claimed = up[a].did
    /\ pc[a] \in {"judge", "accept"} =>
          up[a].claimed = up[a].content.ops /\ ~up[a].content.broken

Ordered ==
    /\ ~drift /\ Quiet => InOrder(disk, ops, owner)
    /\ \A a \in Admins : pc[a] # "idle" =>
          Claims(a) /\ (~drift => InOrder(Old(a), up[a].before, owner))

LEMMA OneOrderedStep ==
    ASSUME OneAdmin, Kinds, NEW a \in Admins, NEW from, NEW to, Step(a, from, to),
           IF to = "idle" THEN ~drift' => InOrder(disk', ops', owner')
           ELSE Claims(a)' /\ (~drift' => InOrder(Old(a)', up'[a].before, owner'))
    PROVE  Ordered'
<1>1. pc'[a] = to /\ \A b \in Admins : b = a
  BY DEF Step, Kinds, OneAdmin
<1>2. CASE to = "idle"
  BY <1>1, <1>2 DEF Ordered, Quiet
<1>3. CASE to # "idle"
  BY <1>1, <1>3 DEF Ordered, Quiet
<1> QED BY <1>2, <1>3

LEMMA WriteOrdered ==
    ASSUME OneAdmin, Kinds, Ordered, NEW a \in Admins, NEW f \in Files, NEW c \in Contents,
           NEW force \in BOOLEAN, Write(a, f, c, force)
    PROVE  Ordered'
<1> DEFINE new == [file |-> f, content |-> c, force |-> force, backup |-> disk[f],
                   before |-> ops, did |-> {}, claimed |-> {},
                   was |-> <<disk, ops, owner, routes>>]
<1>1. /\ Step(a, "idle", "written") /\ up' = [up EXCEPT ![a] = new]
      /\ disk' = [disk EXCEPT ![f] = c]
      /\ UNCHANGED <<ops, owner, routes, heard, drift>>
  BY DEF Write
<1>2. /\ new.file = f /\ new.backup = disk[f] /\ new.before = ops
      /\ new.claimed = {} /\ new.did = {}
  OBVIOUS
<1> HIDE DEF new
<1>3. pc'[a] = "written" /\ up'[a] = new /\ Quiet
  BY <1>1 DEF Step, Kinds, Quiet, OneAdmin
<1>4. Old(a)' = disk
  BY <1>1, <1>2, <1>3 DEF Old, Kinds, Disks
<1>5. Claims(a)'
  BY <1>2, <1>3 DEF Claims
<1>6. ~drift' => InOrder(Old(a)', up'[a].before, owner')
  BY <1>1, <1>2, <1>3, <1>4 DEF Ordered
<1> QED BY <1>1, <1>5, <1>6, OneOrderedStep

LEMMA SnapshotOrdered ==
    ASSUME OneAdmin, Kinds, Booked, Ordered, NEW a \in Admins, Snapshot(a)
    PROVE  Ordered'
<1> DEFINE new == [up[a] EXCEPT !.before = ops]
<1>1. /\ Step(a, "written", "load") /\ up' = [up EXCEPT ![a] = new]
      /\ UNCHANGED <<disk, ops, owner, drift>>
  BY DEF Snapshot
<1>2. pc[a] = "written" /\ pc'[a] = "load" /\ up'[a] = new
  BY <1>1 DEF Step, Kinds
<1>3. up[a] \in Uploads /\ ops = up[a].before /\ up[a].claimed = up[a].did
  BY <1>2, UploadKind DEF Booked, Done, Ordered, Claims
<1>4. /\ new.file = up[a].file /\ new.backup = up[a].backup /\ new.before = ops
      /\ new.claimed = up[a].claimed /\ new.did = up[a].did
  BY <1>3 DEF Uploads
<1> HIDE DEF new
<1>5. Old(a)' = Old(a)
  BY <1>1, <1>2, <1>4 DEF Old
<1>6. Claims(a)'
  BY <1>2, <1>3, <1>4 DEF Claims
<1>7. ~drift' => InOrder(Old(a)', up'[a].before, owner')
  BY <1>1, <1>2, <1>3, <1>4, <1>5 DEF Ordered
<1> QED BY <1>1, <1>6, <1>7, OneOrderedStep

LEMMA RegisterOrdered ==
    ASSUME OneAdmin, Kinds, Booked, Ordered, NEW a \in Admins, NEW o \in Ops, Register(a, o)
    PROVE  Ordered'
<1>1. /\ pc[a] = "load" /\ up' = [b \in Admins |-> Told(a, o, b)]
      /\ UNCHANGED <<disk, owner, pc, drift>>
  BY DEF Register, Told
<1>2. a \in heard /\ up[a] \in Uploads /\ up[a].claimed = up[a].did
  BY <1>1, UploadKind DEF Booked, Done, Ordered, Claims
<1>3. up'[a] = Told(a, o, a)
  BY <1>1
<1>4. up'[a].file = up[a].file /\ up'[a].backup = up[a].backup
  BY <1>1, <1>2, <1>3, ToldKinds
<1>5. up'[a].before = up[a].before
  BY <1>1, <1>2, <1>3, ToldKinds
<1>6. up'[a].claimed = up[a].claimed \cup {o} /\ up'[a].did = up[a].did \cup {o}
  BY <1>1, <1>2, <1>3, ToldKinds
<1>7. Old(a)' = Old(a)
  BY <1>1, <1>4 DEF Old
<1>8. Claims(a)'
  BY <1>1, <1>2, <1>6 DEF Claims
<1>9. ~drift' => InOrder(Old(a)', up'[a].before, owner')
  BY <1>1, <1>5, <1>7 DEF Ordered
<1>10. \A b \in Admins : b = a
  BY DEF OneAdmin
<1> QED BY <1>1, <1>8, <1>9, <1>10 DEF Ordered, Quiet

LEMMA GoingOrdered ==
    ASSUME OneAdmin, Kinds, Booked, Ordered, NEW a \in Admins,
           LoadFails(a) \/ LoadEnds(a) \/ Judge(a) \/ Undo(a)
    PROVE  Ordered'
<1>1. PICK from, to : Step(a, from, to) /\ from # "idle" /\ to # "idle"
  BY DEF LoadFails, LoadEnds, Judge, Undo
<1>2. UNCHANGED <<disk, owner, up, drift>> /\ pc[a] = from /\ pc'[a] = to /\ pc[a] # "idle"
  BY <1>1 DEF LoadFails, LoadEnds, Judge, Undo, Step, Kinds
<1>3. Claims(a) /\ (~drift => InOrder(Old(a), up[a].before, owner))
  BY <1>2 DEF Ordered
<1>4. Old(a)' = Old(a)
  BY <1>2 DEF Old
<1>5. Claims(a)'
  <2>1. CASE LoadFails(a) \/ Undo(a)
    BY <1>1, <1>2, <2>1 DEF LoadFails, Undo, Step, Kinds, Claims
  <2>2. CASE LoadEnds(a)
    BY <1>2, <1>3, <2>2 DEF LoadEnds, Claims
  <2>3. CASE Judge(a)
    <3>1. pc[a] = "judge" /\ UNCHANGED up
      BY <2>3 DEF Judge, Step
    <3>2. pc'[a] \in {"refuse", "accept"}
      BY <2>3 DEF Judge, Step, Kinds
    <3> QED BY <1>3, <3>1, <3>2 DEF Claims
  <2> QED BY <2>1, <2>2, <2>3
<1>6. ~drift' => InOrder(Old(a)', up'[a].before, owner')
  BY <1>2, <1>3, <1>4
<1> QED BY <1>1, <1>5, <1>6, OneOrderedStep

LEMMA UndoneOrdered ==
    ASSUME OneAdmin, Kinds, Booked, Ordered, NEW a \in Admins, Undone(a)
    PROVE  Ordered'
<1>1. pc[a] # "idle" /\ UNCHANGED drift
      /\ (Step(a, "update", "idle") \/ Step(a, "withdraw", "idle"))
  BY DEF Undone, Step
<1>2. ~drift' => InOrder(disk', ops', owner')
  BY <1>1, AsItWas DEF Ordered
<1> QED BY <1>1, <1>2, OneOrderedStep

LEMMA AcceptOrdered ==
    ASSUME OneAdmin, Kinds, Booked, Ordered, NEW a \in Admins, Accept(a)
    PROVE  Ordered'
<1> DEFINE file == up[a].file
           content == up[a].content
<1>1. /\ Step(a, "accept", "idle") /\ pc[a] = "accept" /\ UNCHANGED disk
      /\ ops' = [o \in Ops |-> IF o \in Dropped(a) THEN NoOp ELSE ops[o]]
      /\ owner' = [o \in Ops |-> IF o \in up[a].claimed THEN file
                                 ELSE IF o \in Dropped(a) THEN NoFile ELSE owner[o]]
      /\ ~drift' => ~drift /\ Conflicts(a) = {}
  BY DEF Accept, Step
<1>2. /\ Began(a) /\ Done(a) /\ file \in Files /\ content \in Contents
      /\ up[a].claimed = content.ops /\ ~content.broken
  BY <1>1, UploadKind DEF Booked, Ordered, Claims
<1>3. /\ disk[file] = content
      /\ \A f \in Files : f # file => Old(a)[f] = disk[f]
  BY <1>2 DEF Began, Old, Kinds, Disks
<1>4. \A o \in Ops : ops[o] = IF o \in up[a].claimed THEN [file |-> file, content |-> content]
                             ELSE up[a].before[o]
  BY <1>1, <1>2 DEF Done
<1>5. \A o \in Dropped(a) : owner[o] = file
  BY DEF Dropped
<1>6. \A o \in Ops : owner[o] = file /\ o \notin up[a].claimed => o \in Dropped(a)
  BY DEF Dropped
<1>7. Conflicts(a) = {} =>
         \A o \in up[a].claimed : owner[o] # NoFile /\ owner[o] # file => disk[owner[o]] = NoContent
  BY DEF Conflicts, Present
<1>8. up[a].claimed \subseteq Ops /\ owner \in Owners /\ NoFile \notin Files /\ NoContent # content
  BY <1>1, <1>2, UploadKind, FileAssumption, ContentAssumption DEF Kinds
<1>9. ~drift => InOrder(Old(a), up[a].before, owner)
  BY <1>1 DEF Ordered
<1> HIDE DEF file, content
<1>10. ASSUME ~drift' PROVE InOrder(disk, ops', owner')
  <2>1. InOrder(Old(a), up[a].before, owner)
    BY <1>1, <1>9, <1>10
  <2>2. ASSUME NEW f \in Files, disk[f] # NoContent
        PROVE  ~disk[f].broken /\ \A o \in disk[f].ops : owner'[o] = f
    <3>1. disk[f].ops \subseteq Ops
      BY <2>2, ContentAssumption DEF Kinds, Disks
    <3>2. CASE f = file
      BY <1>1, <1>2, <1>3, <3>1, <3>2
    <3>3. CASE f # file
      <4>1. ~disk[f].broken /\ \A o \in disk[f].ops : owner[o] = f
        BY <1>3, <2>1, <2>2, <3>3 DEF InOrder
      <4>2. ASSUME NEW o \in disk[f].ops PROVE o \notin up[a].claimed /\ o \notin Dropped(a)
        BY <1>1, <1>5, <1>7, <1>8, <1>10, <2>2, <3>3, <4>1
      <4>3. \A o \in disk[f].ops : owner'[o] = f
        BY <1>1, <3>1, <4>1, <4>2
      <4> QED BY <4>1, <4>3
    <3> QED BY <3>2, <3>3
  <2>3. ASSUME NEW o \in Ops
        PROVE  IF owner'[o] = NoFile THEN ops'[o] = NoOp
               ELSE /\ disk[owner'[o]] # NoContent /\ o \in disk[owner'[o]].ops
                    /\ ops'[o] = [file |-> owner'[o], content |-> disk[owner'[o]]]
    <3>1. CASE o \in up[a].claimed
      <4>1. owner'[o] = file /\ ops'[o] = [file |-> file, content |-> content]
        BY <1>1, <1>4, <3>1 DEF Dropped
      <4> QED BY <1>2, <1>3, <1>8, <3>1, <4>1
    <3>2. CASE o \in Dropped(a)
      <4>1. owner'[o] = NoFile /\ ops'[o] = NoOp
        BY <1>1, <3>2 DEF Dropped
      <4> QED BY <4>1
    <3>3. CASE o \notin up[a].claimed /\ o \notin Dropped(a)
      <4>1. owner'[o] = owner[o] /\ ops'[o] = up[a].before[o] /\ owner[o] # file
        BY <1>1, <1>4, <1>6, <3>3
      <4>2. owner[o] = NoFile \/ (owner[o] \in Files /\ Old(a)[owner[o]] = disk[owner[o]])
        BY <1>3, <1>8, <4>1 DEF Owners
      <4>3. IF owner[o] = NoFile THEN up[a].before[o] = NoOp
            ELSE /\ Old(a)[owner[o]] # NoContent /\ o \in Old(a)[owner[o]].ops
                 /\ up[a].before[o] = [file |-> owner[o], content |-> Old(a)[owner[o]]]
        BY <2>1 DEF InOrder
      <4> QED BY <4>1, <4>2, <4>3
    <3> QED BY <3>1, <3>2, <3>3
  <2> QED BY <2>2, <2>3 DEF InOrder
<1> QED BY <1>1, <1>10, OneOrderedStep

\* A scan of a directory in order finds what is served.
LEMMA ScanFindsTheSame ==
    ASSUME Kinds, InOrder(disk, ops, owner), Restart
    PROVE  UNCHANGED <<ops, owner>>
<1>1. PICK half \in [{f \in Files : Present(f) /\ disk[f].broken} -> SUBSET Ops] :
         ops' = [o \in Ops |-> Scanned(o, half)]
  BY DEF Restart
<1>2. owner' = [o \in Ops |-> IF {f \in Whole : o \in disk[f].ops} = {} THEN NoFile
                              ELSE Max({f \in Whole : o \in disk[f].ops})]
  BY DEF Restart
<1>3. DOMAIN half = {} /\ Whole = {f \in Files : disk[f] # NoContent}
  BY DEF InOrder, Present, Whole
<1>4. ASSUME NEW o \in Ops
      PROVE  owner'[o] = owner[o] /\ ops'[o] = ops[o]
  <2> DEFINE S == {f \in Whole : o \in disk[f].ops}
  <2>1. Declaring(o, half) = S
    BY <1>3 DEF Declaring
  <2>2. S = IF owner[o] = NoFile THEN {} ELSE {owner[o]}
    <3>1. owner[o] \in Files \cup {NoFile}
      BY DEF Kinds, Owners
    <3>2. \A f \in S : f \in Files /\ owner[o] = f
      BY <1>3 DEF InOrder
    <3>3. owner[o] # NoFile => owner[o] \in S
      BY <1>3, <3>1 DEF InOrder
    <3> QED BY <3>2, <3>3, FileAssumption
  <2>3. /\ ops'[o] = IF S = {} THEN NoOp ELSE [file |-> Max(S), content |-> disk[Max(S)]]
        /\ owner'[o] = IF S = {} THEN NoFile ELSE Max(S)
    BY <1>1, <1>2, <2>1 DEF Scanned
  <2> HIDE DEF S
  <2>4. S = {} \/ (S = {owner[o]} /\ S \in SUBSET Files)
    BY <2>2 DEF S, Whole
  <2>5. S # {} => Max(S) = owner[o]
    BY <2>4, FileAssumption DEF Max
  <2>6. IF owner[o] = NoFile THEN ops[o] = NoOp
        ELSE ops[o] = [file |-> owner[o], content |-> disk[owner[o]]]
    BY DEF InOrder
  <2> QED BY <2>2, <2>3, <2>5, <2>6
<1>5. ops' = [o \in Ops |-> ops[o]] /\ owner' = [o \in Ops |-> owner[o]]
  BY <1>1, <1>2, <1>4
<1> QED BY <1>5 DEF Kinds, Registries, Owners

LEMMA OtherOrdered ==
    ASSUME OneAdmin, Kinds, Ordered,
           \/ \E a \in Admins, f \in Files : Delete(a, f)
           \/ \E f \in Files : RemoveByHand(f)
           \/ Restart \/ UNCHANGED vars
    PROVE  Ordered'
<1>1. ASSUME NEW a \in Admins, NEW f \in Files, Delete(a, f) PROVE Ordered'
  <2>1. /\ pc[a] = "idle" /\ UNCHANGED <<pc, up, drift>>
        /\ ops' = [o \in Ops |-> IF owner[o] = f THEN NoOp ELSE ops[o]]
        /\ owner' = [o \in Ops |-> IF owner[o] = f THEN NoFile ELSE owner[o]]
        /\ disk' = [disk EXCEPT ![f] = NoContent]
    BY <1>1 DEF Delete, Request, Deleted
  <2>2. Quiet /\ Quiet'
    BY <2>1 DEF Quiet, OneAdmin
  <2>3. \A g \in Files : disk'[g] = IF g = f THEN NoContent ELSE disk[g]
    BY <2>1 DEF Kinds, Disks
  <2>4. ASSUME ~drift PROVE InOrder(disk', ops', owner')
    <3>1. InOrder(disk, ops, owner)
      BY <2>2, <2>4 DEF Ordered
    <3>2. ASSUME NEW g \in Files, disk'[g] # NoContent
          PROVE  ~disk'[g].broken /\ \A o \in disk'[g].ops : owner'[o] = g
      <4>1. g # f /\ disk'[g] = disk[g] /\ disk[g].ops \subseteq Ops
        BY <2>3, <3>2, ContentAssumption DEF Kinds, Disks
      <4> QED BY <2>1, <3>1, <3>2, <4>1 DEF InOrder
    <3>3. ASSUME NEW o \in Ops
          PROVE  IF owner'[o] = NoFile THEN ops'[o] = NoOp
                 ELSE /\ disk'[owner'[o]] # NoContent /\ o \in disk'[owner'[o]].ops
                      /\ ops'[o] = [file |-> owner'[o], content |-> disk'[owner'[o]]]
      <4>1. CASE owner[o] = f
        BY <2>1, <4>1
      <4>2. CASE owner[o] # f
        <5>1. ops'[o] = ops[o] /\ owner'[o] = owner[o] /\ owner[o] \in Files \cup {NoFile}
          BY <2>1, <4>2 DEF Kinds, Owners
        <5>2. owner[o] # NoFile => disk'[owner[o]] = disk[owner[o]]
          BY <2>3, <4>2, <5>1
        <5>3. IF owner[o] = NoFile THEN ops[o] = NoOp
              ELSE /\ disk[owner[o]] # NoContent /\ o \in disk[owner[o]].ops
                   /\ ops[o] = [file |-> owner[o], content |-> disk[owner[o]]]
          BY <3>1 DEF InOrder
        <5> QED BY <5>1, <5>2, <5>3
      <4> QED BY <4>1, <4>2
    <3> QED BY <3>2, <3>3 DEF InOrder
  <2> QED BY <2>1, <2>2, <2>4 DEF Ordered, Quiet
<1>2. ASSUME NEW f \in Files, RemoveByHand(f) PROVE Ordered'
  BY <1>2 DEF RemoveByHand, Ordered, Quiet
<1>3. CASE Restart
  <2>1. /\ pc' = [a \in Admins |-> "idle"] /\ disk' = disk /\ (~drift' => ~drift /\ Quiet)
    BY <1>3 DEF Restart
  <2>2. ~drift' => InOrder(disk, ops, owner)
    BY <2>1 DEF Ordered
  <2>3. ~drift' => InOrder(disk', ops', owner')
    BY <1>3, <2>1, <2>2, ScanFindsTheSame
  <2> QED BY <2>1, <2>3 DEF Ordered
<1>4. CASE UNCHANGED vars
  <2>1. UNCHANGED <<disk, ops, owner, pc, up, drift>>
    BY <1>4 DEF vars
  <2> QED BY <2>1 DEF Ordered, Quiet, InOrder, Claims, Old
<1> QED BY <1>1, <1>2, <1>3, <1>4

\* With uploads one after the other, a restart changes neither what a name
\* means nor whose it is, unless a takeover, a file removed by hand or a crash
\* in an upload came before (RestartServesTheSame).
THEOREM RestartsServeTheSame == ASSUME OneAdmin PROVE Spec => RestartServesTheSame
<1>1. Init => Ordered
  BY FileAssumption DEF Init, Ordered, InOrder
<1>2. Kinds /\ Booked /\ Ordered /\ [Next]_vars => Ordered'
  <2> SUFFICES ASSUME Kinds, Booked, Ordered, [Next]_vars PROVE Ordered'
    OBVIOUS
  <2>1. ASSUME NEW a \in Admins, Upload(a) PROVE Ordered'
    <3>1. ASSUME NEW f \in Files, NEW c \in Contents, NEW force \in BOOLEAN,
                 Write(a, f, c, force)
          PROVE  Ordered'
      BY <3>1, WriteOrdered
    <3>2. CASE Snapshot(a)
      BY <3>2, SnapshotOrdered
    <3>3. ASSUME NEW o \in Ops, Register(a, o) PROVE Ordered'
      BY <3>3, RegisterOrdered
    <3>4. CASE LoadFails(a) \/ LoadEnds(a) \/ Judge(a) \/ Undo(a)
      BY <3>4, GoingOrdered
    <3>5. CASE Undone(a)
      BY <3>5, UndoneOrdered
    <3>6. CASE Accept(a)
      BY <3>6, AcceptOrdered
    <3> QED BY <2>1, <3>1, <3>2, <3>3, <3>4, <3>5, <3>6 DEF Upload
  <2> QED BY <2>1, OtherOrdered DEF Next
<1>3. Kinds /\ Ordered /\ [Next]_vars =>
         [Quiet /\ ~drift /\ Restart => UNCHANGED <<ops, owner>>]_vars
  BY ScanFindsTheSame DEF Ordered
<1> QED BY <1>1, <1>2, <1>3, KindsHold, BookedHolds, PTL DEF Spec, RestartServesTheSame
==============================================================================
