-------------------------------- MODULE Plugins --------------------------------
(***************************************************************************)
(* Operators that arrive as files (app/plugins.py and the /admin/plugins   *)
(* requests of app/main.py).  A plugin is uploaded, written to the plugin  *)
(* directory and loaded into the registry at once; at every start the      *)
(* directory is scanned.  Each request runs on a thread of its own, and no *)
(* lock is taken: uploads may overlap.                                     *)
(***************************************************************************)
EXTENDS Integers, FiniteSetsExt

CONSTANTS
    Files,      \* file names, by their place in sorted order
    Ops,        \* names of operators
    Contents,   \* what a file may hold; see ContentAssumption
    Admins,     \* the threads that serve /admin/plugins
    NoFile, NoContent, NoOp, Nobody,
    Requests    \* bound: the number of uploads and deletions

\* Of some files, one sorts last.
ASSUME FileAssumption ==
    /\ Files \subseteq Nat /\ NoFile \notin Files /\ Requests \in Nat
    /\ \A some \in SUBSET Files : some # {} => \E f \in some : \A g \in some : f >= g

\* The operators that register declares, whether register_routes adds a
\* route, and whether one of the two raises on the way.
ASSUME ContentAssumption ==
    /\ Contents \subseteq [ops : SUBSET Ops, routes : BOOLEAN, broken : BOOLEAN]
    /\ NoContent \notin Contents
ASSUME NoneAssumption == /\ Nobody \notin Admins /\ "listed" \notin Admins
                         /\ NoOp \notin [file : Files, content : Contents]

VARIABLES
    disk,     \* the plugin directory
    ops,      \* registry._ops: which version of which file serves a name
    owner,    \* plugin_ops: the file to which a name belongs
    routes,   \* app.router.routes: by is the upload that has added the route,
              \* "listed" once it is in plugin_routes, Nobody if it never is
    heard,    \* the uploads whose recording stands in for registry.register
    pc, up,   \* per thread: where it is, and the locals of upload_plugin
    spent,    \* the number of requests so far
    drift     \* history: a takeover, a file removed by hand or a crash in an
              \* upload has set the files and the registry at odds

vars == <<disk, ops, owner, routes, heard, pc, up, spent, drift>>

OpVersions == [file : Files, content : Contents]
Present(f) == disk[f] # NoContent
Quiet == \A a \in Admins : pc[a] = "idle"

NoUpload == [file |-> NoFile]

Init == /\ disk = [f \in Files |-> NoContent]
        /\ ops = [o \in Ops |-> NoOp] /\ owner = [o \in Ops |-> NoFile]
        /\ routes = {} /\ heard = {}
        /\ pc = [a \in Admins |-> "idle"] /\ up = [a \in Admins |-> NoUpload]
        /\ spent = 0 /\ drift = FALSE

(***************************************************************************)
(* POST /admin/plugins.                                                    *)
(***************************************************************************)

Request(a) == /\ pc[a] = "idle" /\ spent < Requests
              /\ spent' = spent + 1

Step(a, from, to) == pc[a] = from /\ pc' = [pc EXCEPT ![a] = to]

\* A source that has passed check_plugin_source replaces the file.
Write(a, f, c, force) ==
    /\ Request(a)
    /\ Step(a, "idle", "written")
    /\ up' = [up EXCEPT ![a] =
                 [file |-> f, content |-> c, force |-> force, backup |-> disk[f],
                  before |-> ops, did |-> {}, claimed |-> {},
                  was |-> <<disk, ops, owner, routes>>]]
    /\ disk' = [disk EXCEPT ![f] = c]
    /\ UNCHANGED <<ops, owner, routes, heard, drift>>

\* before = dict(registry._ops), and load_plugin puts its recording in place.
Snapshot(a) ==
    /\ Step(a, "written", "load")
    /\ up' = [up EXCEPT ![a].before = ops]
    /\ heard' = heard \cup {a}
    /\ UNCHANGED <<disk, ops, owner, routes, spent, drift>>

\* One @registry.register of the plugin: every recording in the chain hears
\* the name, and the last version wins.
Register(a, o) ==
    /\ pc[a] = "load" /\ o \in up[a].content.ops \ up[a].did
    /\ ops' = [ops EXCEPT ![o] = [file |-> up[a].file, content |-> up[a].content]]
    /\ up' = [b \in Admins |->
                IF pc[b] # "load" THEN up[b]
                ELSE [up[b] EXCEPT !.did = IF b = a THEN @ \cup {o} ELSE @,
                                   !.claimed = IF b \in heard THEN @ \cup {o} ELSE @]]
    /\ UNCHANGED <<disk, owner, routes, heard, pc, spent, drift>>

\* Fault: the recording stays in place of registry.register.
LoadFailsDeaf(a) ==
    /\ up[a].file # NoFile /\ up[a].content.broken
    /\ Step(a, "load", "undo")
    /\ UNCHANGED <<disk, ops, owner, routes, heard, up, spent, drift>>

\* The plugin raises: its routes are rolled back; del registry.register.
LoadFails(a) ==
    /\ up[a].file # NoFile /\ up[a].content.broken
    /\ Step(a, "load", "undo")
    /\ heard' = {}
    /\ UNCHANGED <<disk, ops, owner, routes, up, spent, drift>>

\* del registry.register raises AttributeError if another upload has deleted
\* the attribute; the routes then stay.
LoadEnds(a) ==
    /\ pc[a] = "load" /\ ~up[a].content.broken /\ up[a].did = up[a].content.ops
    /\ Step(a, "load", IF heard = {} THEN "undo" ELSE "judge")
    /\ routes' = IF ~up[a].content.routes THEN routes
                 ELSE routes \cup {[file |-> up[a].file, content |-> up[a].content,
                                    by |-> IF heard = {} THEN Nobody ELSE a]}
    /\ heard' = {}
    /\ UNCHANGED <<disk, ops, owner, up, spent, drift>>

\* Fault: only names that belong to no file count.
ConflictsUnowned(a) == {o \in up[a].claimed : owner[o] = NoFile /\ up[a].before[o] # NoOp}

\* detect_conflicts, without what stale_owners finds: names of another file
\* that is still on the disk, and names that were there and belong to no file.
Conflicts(a) ==
    {o \in up[a].claimed :
        IF owner[o] # NoFile THEN owner[o] # up[a].file /\ Present(owner[o])
        ELSE up[a].before[o] # NoOp}

Judge(a) ==
    /\ Step(a, "judge", IF Conflicts(a) # {} /\ ~up[a].force THEN "refuse" ELSE "accept")
    /\ UNCHANGED <<disk, ops, owner, routes, heard, up, spent, drift>>

\* The rollback of a failed and of a refused upload: first _ops.clear() ...
Undo(a) ==
    /\ Step(a, "undo", "update") \/ Step(a, "refuse", "withdraw")
    /\ ops' = [o \in Ops |-> NoOp]
    /\ UNCHANGED <<disk, owner, routes, heard, up, spent, drift>>

\* Fault: the file of a refused upload stays.
UndoneOnly(a) ==
    /\ Step(a, "update", "idle") \/ Step(a, "withdraw", "idle")
    /\ ops' = up[a].before
    /\ routes' = IF pc[a] = "withdraw" THEN {r \in routes : r.by # a} ELSE routes
    /\ up' = [up EXCEPT ![a] = NoUpload]
    /\ UNCHANGED <<disk, owner, heard, spent, drift>>

\* ... then _ops.update(before), the routes of a refused one, and the file.
Undone(a) ==
    /\ Step(a, "update", "idle") \/ Step(a, "withdraw", "idle")
    /\ ops' = up[a].before
    /\ routes' = IF pc[a] = "withdraw" THEN {r \in routes : r.by # a} ELSE routes
    /\ disk' = [disk EXCEPT ![up[a].file] = up[a].backup]
    /\ up' = [up EXCEPT ![a] = NoUpload]
    /\ UNCHANGED <<owner, heard, spent, drift>>

\* Fault: what the file no longer declares stays registered.
DroppedNone(a) == {}

\* reconcile: what the file declared before, and still owns, goes.
Dropped(a) == {o \in Ops : owner[o] = up[a].file /\ o \notin up[a].claimed}

\* The book of routes: the old ones of the file go, the new ones are listed.
Relisted(a) ==
    {r \in routes : r.by # a /\ ~(r.file = up[a].file /\ r.by = "listed")}
      \cup {[r EXCEPT !.by = "listed"] : r \in {q \in routes : q.by = a}}

Accept(a) ==
    /\ Step(a, "accept", "idle")
    /\ ops' = [o \in Ops |-> IF o \in Dropped(a) THEN NoOp ELSE ops[o]]
    /\ owner' = [o \in Ops |-> IF o \in up[a].claimed THEN up[a].file
                               ELSE IF o \in Dropped(a) THEN NoFile ELSE owner[o]]
    /\ routes' = Relisted(a)
    /\ drift' = (drift \/ Conflicts(a) # {})
    /\ up' = [up EXCEPT ![a] = NoUpload]
    /\ UNCHANGED <<disk, heard, spent>>

(***************************************************************************)
(* The other requests, and what happens without one.                       *)
(***************************************************************************)

\* The registry without the names that f owns.
Deleted(f) == [o \in Ops |-> IF owner[o] = f THEN NoOp ELSE ops[o]]

\* DELETE /admin/plugins/{filename}; 404 without the file.
Delete(a, f) ==
    /\ Present(f) /\ Request(a)
    /\ ops' = Deleted(f)
    /\ owner' = [o \in Ops |-> IF owner[o] = f THEN NoFile ELSE owner[o]]
    /\ routes' = {r \in routes : ~(r.file = f /\ r.by = "listed")}
    /\ disk' = [disk EXCEPT ![f] = NoContent]
    /\ UNCHANGED <<heard, pc, up, drift>>

\* Somebody removes a file from the directory and leaves the server running.
RemoveByHand(f) ==
    /\ Present(f) /\ Quiet
    /\ disk' = [disk EXCEPT ![f] = NoContent]
    /\ drift' = TRUE
    /\ UNCHANGED <<ops, owner, routes, heard, pc, up, spent>>

\* The files that are loaded whole, and those that declare o, when broken
\* files have declared what half says before they raised.
Whole == {f \in Files : Present(f) /\ ~disk[f].broken}
Declaring(o, half) == {f \in Whole : o \in disk[f].ops} \cup {f \in DOMAIN half : o \in half[f]}

\* scan_plugins: what is loaded last, in sorted order, serves a name.
Scanned(o, half) ==
    IF Declaring(o, half) = {} THEN NoOp
    ELSE LET f == Max(Declaring(o, half)) IN [file |-> f, content |-> disk[f]]

\* The process ends at any moment and starts again: the module of the server
\* scans the directory before it serves a request.  The book of owners has the
\* files that were loaded; the book of routes stays empty.
Restart ==
    /\ \E half \in [{f \in Files : Present(f) /\ disk[f].broken} -> SUBSET Ops] :
          /\ \A f \in DOMAIN half : half[f] \subseteq disk[f].ops
          /\ ops' = [o \in Ops |-> Scanned(o, half)]
    /\ owner' = [o \in Ops |-> LET S == {f \in Whole : o \in disk[f].ops}
                                IN  IF S = {} THEN NoFile ELSE Max(S)]
    /\ routes' = {[file |-> f, content |-> disk[f], by |-> Nobody] :
                     f \in {g \in Whole : disk[g].routes}}
    /\ heard' = {}
    /\ pc' = [a \in Admins |-> "idle"] /\ up' = [a \in Admins |-> NoUpload]
    /\ drift' = (drift \/ ~Quiet)
    /\ UNCHANGED <<disk, spent>>

Upload(a) == \/ \E f \in Files, c \in Contents, force \in BOOLEAN : Write(a, f, c, force)
             \/ Snapshot(a) \/ \E o \in Ops : Register(a, o)
             \/ LoadFails(a) \/ LoadEnds(a) \/ Judge(a)
             \/ Undo(a) \/ Undone(a) \/ Accept(a)

Next == \/ \E a \in Admins : Upload(a) \/ \E f \in Files : Delete(a, f)
        \/ \E f \in Files : RemoveByHand(f)
        \/ Restart

Spec == Init /\ [][Next]_vars

-----------------------------------------------------------------------------
(* Properties. *)

\* Every variable holds a value of its kind; a recording that stands in for
\* registry.register is that of an upload that loads.
TypeOK ==
    /\ disk \in [Files -> Contents \cup {NoContent}]
    /\ ops \in [Ops -> OpVersions \cup {NoOp}]
    /\ owner \in [Ops -> Files \cup {NoFile}]
    /\ routes \subseteq [file : Files, content : Contents,
                         by : Admins \cup {"listed", Nobody}]
    /\ heard \subseteq {a \in Admins : pc[a] = "load"}
    /\ pc \in [Admins -> {"idle", "written", "load", "judge", "accept",
                          "undo", "update", "refuse", "withdraw"}]
    /\ \A a \in Admins : pc[a] = "idle" <=> up[a] = NoUpload
    /\ \A a \in Admins : pc[a] # "idle" =>
          /\ up[a].file \in Files /\ up[a].content \in Contents
          /\ up[a].backup \in Contents \cup {NoContent}
          /\ up[a].before \in [Ops -> OpVersions \cup {NoOp}]
          /\ up[a].did \subseteq up[a].content.ops /\ up[a].claimed \subseteq Ops
    /\ spent \in 0 .. Requests /\ drift \in BOOLEAN

\* The registry and the book of owners agree: a name belongs
\* to a file that serves it, in the version on the disk if the file is still
\* there, and every name belongs to a file; after takeovers, refusals, crashes
\* and files removed by hand too.  The exception are names that a broken file,
\* left by a crash, has declared in the scan at the start: the scan takes
\* nothing back.  With uploads side by side it does not hold: the rollback of
\* one takes what the other has registered (main.py:201, the failure path must
\* have no side effect).
OwnedIsServed ==
    \A o \in Ops :
        \/ ops[o] = NoOp /\ owner[o] = NoFile
        \/ ops[o] # NoOp /\ ops[o].content.broken
        \/ /\ ops[o] # NoOp /\ ops[o].file = owner[o]
           /\ Present(owner[o]) => disk[owner[o]] = ops[o].content

\* main.py:236: a route that an upload has added goes with the next upload of
\* its file and with its deletion.  Routes of the scan at the start do not:
\* plugin_routes does not list them.
RoutesOfUploads ==
    \A r \in routes : r.by # Nobody => disk[r.file] \in {r.content, NoContent}

\* What is served, by name and by route, is what the books and the directory
\* say, whenever no request is under way.
ServedIsBooked == Quiet => OwnedIsServed /\ RoutesOfUploads

\* An upload that is refused, because it does not load or because a name
\* belongs to another file, leaves files, registry, owners and routes as they
\* were when it began (main.py:164).
RefusalLeavesNoTrace ==
    [][\A a \in Admins :
         Undone(a) => <<disk, ops, owner, routes>>' = up[a].was]_vars

\* Without takeovers, files removed by hand and crashes in an upload, a restart
\* changes neither what a name means nor whose it is.
RestartServesTheSame ==
    [][Quiet /\ ~drift /\ Restart => UNCHANGED <<ops, owner>>]_vars
=============================================================================
