------------------------------ MODULE TopoSort ------------------------------
(***************************************************************************)
(* topo_sort (app/engine.py): the order in which the nodes of a graph run. *)
(*                                                                         *)
(* A graph maps each of its nodes to the nodes its inputs refer to.  The   *)
(* order of the nodes in the request decides between nodes that are ready  *)
(* at the same time.                                                       *)
(***************************************************************************)
EXTENDS Naturals, SequencesExt, Basics

NodesOf(request) == ToSet(request)

\* refs unknown node
Unknown(request, refs) == \E n \in NodesOf(request) : refs[n] \ NodesOf(request) # {}

\* Fault: a reference of a node to itself counts as a dependency.
DepsSelf(refs) == refs

\* deps: a node does not wait for itself.
Deps(refs) == [n \in DOMAIN refs |-> refs[n] \ {n}]

\* What has been ordered, what is ready (a stack), and what the rest waits for.
Start(request, refs) ==
    [order |-> <<>>, deps |-> Deps(refs),
     ready |-> Only(request, {n \in NodesOf(request) : Deps(refs)[n] = {}})]

\* One turn of the while loop: the last node of ready, and who waited only
\* for it.
Turn(request, s) ==
    IF s.ready = <<>> THEN s
    ELSE LET nid == Last(s.ready)
             freed == {n \in NodesOf(request) : s.deps[n] = {nid}}
         IN  [order |-> Append(s.order, nid),
              ready |-> Front(s.ready) \o Only(request, freed),
              deps  |-> [n \in DOMAIN s.deps |-> s.deps[n] \ {nid}]]

\* The loop, after each turn.
Turns(request, refs) ==
    LET after[i \in 0 .. Len(request)] ==
            IF i = 0 THEN Start(request, refs) ELSE Turn(request, after[i - 1])
    IN  after

\* The order, or the empty sequence for a graph that is refused.
Sorted(request, refs) ==
    LET order == Turns(request, refs)[Len(request)].order
    IN  IF Unknown(request, refs) \/ Len(order) # Len(request) THEN <<>> ELSE order

-----------------------------------------------------------------------------
(* What it is for. *)

\* The requests: some of the names, in some order.
RequestsOver(names) == UNION {SetToSeqs(S) : S \in (SUBSET names) \ {{}}}

\* Every node has its place, after the others that it refers to.
RunsInOrder(order, request, refs) ==
    /\ ToSet(order) = NodesOf(request) /\ Len(order) = Len(request)
    /\ \A i, j \in 1 .. Len(order) : order[j] \in refs[order[i]] => j <= i

\* The graphs that can be ordered at all.
Orderable(request, refs) ==
    \E order \in SetToSeqs(NodesOf(request)) : RunsInOrder(order, request, refs)

\* topo_sort orders every graph that can be ordered, in the order its inputs
\* need, and refuses the others: unknown nodes and cycles of several nodes.
TopoSortIsRight(request, other) ==
    \A refs \in [NodesOf(request) -> SUBSET (NodesOf(request) \cup {other})] :
        LET order == Sorted(request, refs) IN
        IF order = <<>> THEN Unknown(request, refs) \/ ~Orderable(request, refs)
                        ELSE ~Unknown(request, refs) /\ RunsInOrder(order, request, refs)
=============================================================================
