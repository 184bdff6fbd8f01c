--------------------------- MODULE EngineStoreProofs ---------------------------
(***************************************************************************)
(* Proofs about topo_sort, for every request, and about EngineStore, for   *)
(* any executions, objects and limits.                                     *)
(*                                                                         *)
(* The prover knows no induction over data.  SetInduction derives it from  *)
(* what the library says of injections of finite sets, and Runs from it    *)
(* that a function defined by recursion has its values.  Between two turns *)
(* of topo_sort's loop, Sound says what is ordered, ready and waited for.  *)
(*                                                                         *)
(* OwnObjectsStay is not inductive: an object that is in the store may     *)
(* still be an orphan.  Owned says that the register keeps it from being   *)
(* one: what an execution was told of, and did not borrow, is an object of *)
(* its own, and what it was told is forgotten when its lease ends.         *)
(***************************************************************************)
EXTENDS EngineStore, FiniteSetTheorems, TLAPS

-----------------------------------------------------------------------------
(* Induction over numbers, and functions defined by recursion. *)

LEMMA SetInduction ==
    ASSUME NEW S, S \subseteq Nat, 0 \in S, \A n \in S : n + 1 \in S
    PROVE  S = Nat
<1> SUFFICES ASSUME NEW m \in Nat, m \notin S PROVE FALSE
  OBVIOUS
<1> DEFINE T == S \cap (0 .. m)
           next == [n \in T |-> n + 1]
<1>1. IsFiniteSet(0 .. m)
  BY FS_Interval
<1>2. IsFiniteSet(T)
  BY <1>1, FS_Subset
<1>3. \A n \in T : n + 1 \in T /\ n \in Nat
  OBVIOUS
<1>4. 0 \in T
  OBVIOUS
<1> HIDE DEF T
<1>5. next \in Injection(T, T)
  BY <1>3 DEF Injection, IsInjective
<1>6. next \in Surjection(T, T)
  BY <1>2, <1>5, FS_Injection
<1>7. \E n \in T : next[n] = 0
  BY <1>4, <1>6 DEF Surjection
<1> QED BY <1>3, <1>7

LEMMA Least ==
    ASSUME NEW S, S \subseteq Nat, S # {}
    PROVE  \E m \in S : \A n \in S : m <= n
<1> SUFFICES ASSUME \A m \in S : \E n \in S : n < m PROVE FALSE
  OBVIOUS
<1> DEFINE T == {n \in Nat : \A k \in 0 .. n : k \notin S}
<1>1. T = Nat
  <2>1. T \subseteq Nat /\ 0 \in T
    OBVIOUS
  <2>2. \A n \in T : n + 1 \in T
    OBVIOUS
  <2> HIDE DEF T
  <2> QED BY <2>1, <2>2, SetInduction
<1>2. \A n \in T : n \notin S
  OBVIOUS
<1> HIDE DEF T
<1> QED BY <1>1, <1>2

\* What holds at first and is kept by every step holds after each.
LEMMA Preserved ==
    ASSUME NEW n \in Nat, NEW D, NEW t, t[0] \in D,
           \A i \in 1 .. n : t[i - 1] \in D => t[i] \in D
    PROVE  \A i \in 0 .. n : t[i] \in D
<1> DEFINE P == {i \in Nat : i <= n => t[i] \in D}
<1>1. 0 \in P /\ P \subseteq Nat
  OBVIOUS
<1>2. ASSUME NEW i \in P PROVE i + 1 \in P
  <2> SUFFICES ASSUME i + 1 <= n PROVE t[i + 1] \in D
    OBVIOUS
  <2>1. i + 1 \in 1 .. n /\ (i + 1) - 1 = i /\ t[i] \in D
    OBVIOUS
  <2> QED BY <2>1
<1>3. P = Nat
  <2> HIDE DEF P
  <2> QED BY <1>1, <1>2, SetInduction
<1> QED BY <1>3

\* g says where a run that begins with base is after each of n steps.
IsRun(g, n, D, base, step) ==
    /\ g \in [0 .. n -> D] /\ g[0] = base
    /\ \A i \in 1 .. n : g[i] = step[<<i, g[i - 1]>>]

LEMMA Runs ==
    ASSUME NEW n \in Nat, NEW D, NEW base \in D, NEW step \in [(1 .. n) \X D -> D]
    PROVE  \E g : IsRun(g, n, D, base, step)
<1> DEFINE Ok(g, m) == g[0] = base /\ \A i \in 1 .. m : g[i] = step[<<i, g[i - 1]>>]
           P == {m \in Nat : m <= n => \E g \in [0 .. m -> D] : Ok(g, m)}
<1>1. 0 \in P
  <2>1. [i \in 0 .. 0 |-> base] \in [0 .. 0 -> D] /\ Ok([i \in 0 .. 0 |-> base], 0)
    OBVIOUS
  <2> QED BY <2>1
<1>2. ASSUME NEW m \in P PROVE m + 1 \in P
  <2> SUFFICES ASSUME m + 1 <= n PROVE \E h \in [0 .. m + 1 -> D] : Ok(h, m + 1)
    OBVIOUS
  <2>1. PICK g \in [0 .. m -> D] : Ok(g, m)
    OBVIOUS
  <2> DEFINE h == [i \in 0 .. m + 1 |-> IF i <= m THEN g[i] ELSE step[<<m + 1, g[m]>>]]
  <2>2. step[<<m + 1, g[m]>>] \in D
    OBVIOUS
  <2>3. h \in [0 .. m + 1 -> D]
    BY <2>2
  <2>4. h[0] = base
    BY <2>1
  <2>5. \A i \in 1 .. m + 1 : h[i - 1] = g[i - 1] /\ i - 1 <= m
    OBVIOUS
  <2>6. \A i \in 1 .. m : h[i] = g[i]
    OBVIOUS
  <2>7. h[m + 1] = step[<<m + 1, g[m]>>]
    OBVIOUS
  <2> HIDE DEF h
  <2>8. \A i \in 1 .. m + 1 : h[i] = step[<<i, h[i - 1]>>]
    <3> TAKE i \in 1 .. m + 1
    <3>1. CASE i = m + 1
      <4>1. h[i] = step[<<m + 1, g[m]>>] /\ h[m] = g[m] /\ i - 1 = m
        BY <2>5, <2>7, <3>1
      <4> QED BY <3>1, <4>1
    <3>2. CASE i \in 1 .. m
      BY <2>1, <2>5, <2>6, <3>2
    <3> QED BY <3>1, <3>2
  <2> QED BY <2>3, <2>4, <2>8
<1>3. P = Nat
  <2>1. P \subseteq Nat
    OBVIOUS
  <2> HIDE DEF P
  <2> QED BY <1>1, <1>2, <2>1, SetInduction
<1>4. n \in P
  <2> HIDE DEF P
  <2> QED BY <1>3
<1> QED BY <1>4 DEF IsRun

-----------------------------------------------------------------------------
(* The list comprehension, and the turns of the loop. *)

Distinct(s) == \A i, j \in 1 .. Len(s) : s[i] = s[j] => i = j

\* Append, of what was not there.
LEMMA AppendIs ==
    ASSUME NEW N, NEW s \in Seq(N), NEW x \in N
    PROVE  /\ Append(s, x) \in Seq(N) /\ ToSet(Append(s, x)) = ToSet(s) \cup {x}
           /\ Len(Append(s, x)) = Len(s) + 1 /\ Append(s, x)[Len(s) + 1] = x
           /\ \A i \in 1 .. Len(s) : Append(s, x)[i] = s[i]
           /\ Distinct(s) /\ x \notin ToSet(s) => Distinct(Append(s, x))
<1> DEFINE t == Append(s, x)
<1>1. /\ t \in Seq(N) /\ Len(t) = Len(s) + 1 /\ Len(s) \in Nat
      /\ \A i \in 1 .. Len(s) : t[i] = s[i]
      /\ t[Len(s) + 1] = x
  OBVIOUS
<1> HIDE DEF t
<1>2. DOMAIN t = 1 .. Len(s) + 1 /\ DOMAIN s = 1 .. Len(s)
  BY <1>1
<1>3. 1 .. Len(s) + 1 = (1 .. Len(s)) \cup {Len(s) + 1}
  BY <1>1
<1>4. ToSet(t) = ToSet(s) \cup {x}
  BY <1>1, <1>2, <1>3 DEF ToSet
<1>5. Distinct(s) /\ x \notin ToSet(s) => Distinct(t)
  BY <1>1, <1>2, <1>3 DEF ToSet, Distinct
<1> QED BY <1>1, <1>4, <1>5 DEF t

\* t holds the values of taken, in Only.
IsTaken(t, s, S, N) ==
    /\ t \in [0 .. Len(s) -> Seq(N)] /\ Only(s, S) = t[Len(s)] /\ t[0] = <<>>
    /\ \A i \in 1 .. Len(s) :
           t[i] = IF s[i] \in S THEN Append(t[i - 1], s[i]) ELSE t[i - 1]

LEMMA TakenIs ==
    ASSUME NEW N, NEW s \in Seq(N), NEW S
    PROVE  \E t : IsTaken(t, s, S, N)
<1> DEFINE n == Len(s)
           D == Seq(N)
           none == <<>>
           on(i, x) == IF s[i] \in S THEN Append(x, s[i]) ELSE x
           next(g, i) == IF i = 0 THEN none ELSE on(i, g[i - 1])
           step == [p \in (1 .. n) \X D |-> on(p[1], p[2])]
           t == CHOOSE g : g = [i \in 0 .. n |-> next(g, i)]
<1>1. n \in Nat /\ none \in D
  OBVIOUS
<1>2. \A i \in 1 .. n, x \in D : on(i, x) \in D
  OBVIOUS
<1>3. Only(s, S) = t[n]
  BY DEF Only
<1> HIDE DEF n, D, none, on, t
<1>4. step \in [(1 .. n) \X D -> D]
  BY <1>2
<1>5. \A i \in 1 .. n, x \in D : step[<<i, x>>] = on(i, x)
  OBVIOUS
<1> HIDE DEF step
<1>6. PICK g : IsRun(g, n, D, none, step)
  BY <1>1, <1>4, Runs
<1>7. /\ g \in [0 .. n -> D] /\ g[0] = none
      /\ \A i \in 1 .. n : g[i] = step[<<i, g[i - 1]>>]
  BY <1>6 DEF IsRun
<1>8. \A i \in 1 .. n : i - 1 \in 0 .. n /\ g[i] = on(i, g[i - 1])
  <2> TAKE i \in 1 .. n
  <2>1. i - 1 \in 0 .. n
    BY <1>1
  <2> QED BY <1>5, <1>7, <2>1
<1>9. \A i \in 0 .. n : g[i] = next(g, i)
  BY <1>1, <1>7, <1>8
<1> HIDE DEF next
<1>10. g = [i \in 0 .. n |-> next(g, i)]
  BY <1>7, <1>9
<1>11. t = [i \in 0 .. n |-> next(t, i)]
  BY <1>10 DEF t
<1>12. /\ \A i \in 0 .. n : t[i] = next(t, i)
      /\ t \in [0 .. n -> {next(t, i) : i \in 0 .. n}]
  BY <1>11
<1>13. t[0] = none /\ \A i \in 1 .. n : t[i] = on(i, t[i - 1])
  <2>1. 0 \in 0 .. n /\ \A i \in 1 .. n : i \in 0 .. n /\ i # 0
    BY <1>1
  <2>2. t[0] = none
    BY <1>12, <2>1 DEF next
  <2>3. ASSUME NEW i \in 1 .. n PROVE t[i] = on(i, t[i - 1])
    <3>1. t[i] = next(t, i)
      BY <1>12, <2>1
    <3> QED BY <2>1, <3>1 DEF next
  <2> QED BY <2>2, <2>3
<1>14. \A i \in 0 .. n : t[i] \in D
  <2>1. \A i \in 1 .. n : t[i - 1] \in D => t[i] \in D
    BY <1>2, <1>13
  <2>2. t[0] \in D
    BY <1>1, <1>13
  <2> QED BY <1>1, <2>1, <2>2, Preserved
<1>15. t \in [0 .. n -> D]
  BY <1>12, <1>14
<1> QED BY <1>3, <1>13, <1>15 DEF n, D, none, on, IsTaken

LEMMA OnlyIs ==
    ASSUME NEW N, NEW s \in Seq(N), NEW S
    PROVE  /\ Only(s, S) \in Seq(N) /\ ToSet(Only(s, S)) = ToSet(s) \cap S
           /\ Distinct(s) => Distinct(Only(s, S))
<1>1. PICK t : IsTaken(t, s, S, N)
  BY TakenIs
<1>2. /\ Only(s, S) = t[Len(s)] /\ t[0] = <<>>
      /\ \A i \in 1 .. Len(s) :
             t[i] = IF s[i] \in S THEN Append(t[i - 1], s[i]) ELSE t[i - 1]
  BY <1>1 DEF IsTaken
<1>3. Len(s) \in Nat /\ DOMAIN s = 1 .. Len(s) /\ \A i \in 1 .. Len(s) : s[i] \in N
  OBVIOUS
<1> DEFINE Good(q, i) ==
               /\ q \in Seq(N) /\ ToSet(q) = {s[j] : j \in 1 .. i} \cap S
               /\ Distinct(s) => Distinct(q)
           P == {i \in Nat : i <= Len(s) => Good(t[i], i)}
<1>4. 0 \in P
  <2>1. Len(<<>>) = 0 /\ DOMAIN <<>> = {} /\ <<>> \in Seq(N)
    OBVIOUS
  <2>2. ToSet(<<>>) = {} /\ Distinct(<<>>)
    BY <2>1 DEF ToSet, Distinct
  <2>3. {s[j] : j \in 1 .. 0} = {}
    OBVIOUS
  <2>4. Good(<<>>, 0)
    BY <2>1, <2>2, <2>3
  <2> HIDE DEF Good
  <2> QED BY <1>2, <2>4
<1>5. ASSUME NEW i \in P PROVE i + 1 \in P
  <2> SUFFICES ASSUME i + 1 <= Len(s) PROVE Good(t[i + 1], i + 1)
    OBVIOUS
  <2>1. /\ i \in Nat /\ i + 1 \in 1 .. Len(s) /\ (i + 1) - 1 = i /\ Good(t[i], i)
        /\ 1 .. i + 1 = (1 .. i) \cup {i + 1}
    BY <1>3
  <2> DEFINE q == t[i]
             x == s[i + 1]
  <2>2. x \in N /\ t[i + 1] = IF x \in S THEN Append(q, x) ELSE q
    BY <1>2, <1>3, <2>1
  <2>3. {s[j] : j \in 1 .. i + 1} = {s[j] : j \in 1 .. i} \cup {x}
    BY <2>1
  <2>4. q \in Seq(N) /\ ToSet(q) = {s[j] : j \in 1 .. i} \cap S /\ (Distinct(s) => Distinct(q))
    BY <2>1
  <2>5. Distinct(s) => x \notin {s[j] : j \in 1 .. i}
    BY <1>3, <2>1 DEF Distinct
  <2> HIDE DEF q, x
  <2>6. CASE x \in S
    <3>1. /\ Append(q, x) \in Seq(N) /\ ToSet(Append(q, x)) = ToSet(q) \cup {x}
          /\ Distinct(q) /\ x \notin ToSet(q) => Distinct(Append(q, x))
      BY <2>2, <2>4, AppendIs
    <3> QED BY <2>2, <2>3, <2>4, <2>5, <2>6, <3>1
  <2>7. CASE x \notin S
    BY <2>2, <2>3, <2>4, <2>7
  <2> QED BY <2>6, <2>7
<1> HIDE DEF Good
<1>6. P = Nat
  <2>1. P \subseteq Nat
    OBVIOUS
  <2> HIDE DEF P
  <2> QED BY <1>4, <1>5, <2>1, SetInduction
<1>7. Good(t[Len(s)], Len(s))
  <2>1. Len(s) \in P
    <3> HIDE DEF P
    <3> QED BY <1>3, <1>6
  <2> QED BY <1>3, <2>1
<1>8. ToSet(s) = {s[j] : j \in 1 .. Len(s)}
  BY <1>3 DEF ToSet
<1> QED BY <1>2, <1>7, <1>8 DEF Good

LEMMA FrontLastIs ==
    ASSUME NEW N, NEW s \in Seq(N), s # <<>>
    PROVE  /\ Front(s) \in Seq(N) /\ Last(s) \in N /\ ToSet(s) = ToSet(Front(s)) \cup {Last(s)}
           /\ Distinct(s) => Distinct(Front(s)) /\ Last(s) \notin ToSet(Front(s))
<1>1. /\ Len(s) \in Nat /\ Len(s) >= 1 /\ DOMAIN s = 1 .. Len(s)
      /\ \A i \in 1 .. Len(s) : s[i] \in N
  OBVIOUS
<1> DEFINE f == SubSeq(s, 1, Len(s) - 1)
<1>2. f \in Seq(N) /\ Len(f) = Len(s) - 1 /\ \A i \in 1 .. Len(s) - 1 : f[i] = s[i]
  BY <1>1
<1>3. Front(s) = f /\ Last(s) = s[Len(s)]
  BY DEF Front, Last
<1> HIDE DEF f
<1>4. DOMAIN f = 1 .. Len(s) - 1 /\ 1 .. Len(s) = (1 .. Len(s) - 1) \cup {Len(s)}
  BY <1>1, <1>2
<1>5. ToSet(s) = ToSet(f) \cup {s[Len(s)]}
  BY <1>1, <1>2, <1>4 DEF ToSet
<1>6. Distinct(s) => Distinct(f) /\ s[Len(s)] \notin ToSet(f)
  BY <1>1, <1>2, <1>4 DEF ToSet, Distinct
<1> QED BY <1>1, <1>2, <1>3, <1>5, <1>6

LEMMA ConcatIs ==
    ASSUME NEW N, NEW s \in Seq(N), NEW t \in Seq(N)
    PROVE  /\ s \o t \in Seq(N) /\ ToSet(s \o t) = ToSet(s) \cup ToSet(t)
           /\ Distinct(s) /\ Distinct(t) /\ ToSet(s) \cap ToSet(t) = {} => Distinct(s \o t)
<1> DEFINE c == s \o t
<1>1. /\ c \in Seq(N) /\ Len(c) = Len(s) + Len(t) /\ Len(s) \in Nat /\ Len(t) \in Nat
      /\ \A i \in 1 .. Len(s) : c[i] = s[i]
      /\ \A i \in 1 .. Len(t) : c[Len(s) + i] = t[i]
      /\ DOMAIN s = 1 .. Len(s) /\ DOMAIN t = 1 .. Len(t) /\ DOMAIN c = 1 .. Len(s) + Len(t)
  OBVIOUS
<1> HIDE DEF c
<1>2. \A i \in 1 .. Len(c) :
          i \in 1 .. Len(s) \/ \E j \in 1 .. Len(t) : i = Len(s) + j
  <2> TAKE i \in 1 .. Len(c)
  <2>1. i \notin 1 .. Len(s) => i - Len(s) \in 1 .. Len(t) /\ i = Len(s) + (i - Len(s))
    BY <1>1
  <2> QED BY <2>1
<1>3. \A j \in 1 .. Len(t) : Len(s) + j \in 1 .. Len(c)
  BY <1>1
<1>4. ToSet(c) = ToSet(s) \cup ToSet(t)
  <2>1. \A x \in ToSet(c) : x \in ToSet(s) \cup ToSet(t)
    <3> SUFFICES ASSUME NEW i \in 1 .. Len(c) PROVE c[i] \in ToSet(s) \cup ToSet(t)
      BY <1>1 DEF ToSet
    <3>1. CASE i \in 1 .. Len(s)
      BY <1>1, <3>1 DEF ToSet
    <3>2. ASSUME NEW j \in 1 .. Len(t), i = Len(s) + j PROVE c[i] \in ToSet(t)
      BY <1>1, <3>2 DEF ToSet
    <3> QED BY <1>2, <3>1, <3>2
  <2>2. \A x \in ToSet(s) : x \in ToSet(c)
    BY <1>1 DEF ToSet
  <2>3. \A x \in ToSet(t) : x \in ToSet(c)
    BY <1>1, <1>3 DEF ToSet
  <2> QED BY <2>1, <2>2, <2>3
<1>5. ASSUME Distinct(s), Distinct(t), ToSet(s) \cap ToSet(t) = {} PROVE Distinct(c)
  <2> SUFFICES ASSUME NEW i \in 1 .. Len(c), NEW j \in 1 .. Len(c), c[i] = c[j]
               PROVE  i = j
    BY DEF Distinct
  <2>1. CASE i \in 1 .. Len(s) /\ j \in 1 .. Len(s)
    BY <1>1, <1>5, <2>1 DEF Distinct
  <2>2. CASE i \in 1 .. Len(s) /\ \E l \in 1 .. Len(t) : j = Len(s) + l
    BY <1>1, <1>5, <2>2 DEF ToSet
  <2>3. CASE j \in 1 .. Len(s) /\ \E l \in 1 .. Len(t) : i = Len(s) + l
    BY <1>1, <1>5, <2>3 DEF ToSet
  <2>4. CASE /\ \E l \in 1 .. Len(t) : i = Len(s) + l
             /\ \E l \in 1 .. Len(t) : j = Len(s) + l
    BY <1>1, <1>5, <2>4 DEF Distinct
  <2> QED BY <1>2, <2>1, <2>2, <2>3, <2>4
<1> QED BY <1>1, <1>4, <1>5 DEF c

-----------------------------------------------------------------------------
(* The loop. *)

States(N, X) == [order : Seq(N), deps : [N -> SUBSET X], ready : Seq(N)]

\* Between two turns: what is ordered or ready is what waits for nothing any
\* more, and what is ordered stands after what it waited for.
Sound(s, N, X, waits) ==
    /\ s \in States(N, X)
    /\ \A n \in N : s.deps[n] = waits[n] \ ToSet(s.order)
    /\ Distinct(s.order) /\ Distinct(s.ready) /\ ToSet(s.order) \cap ToSet(s.ready) = {}
    /\ \A n \in N : n \in ToSet(s.order) \cup ToSet(s.ready) <=> s.deps[n] = {}
    /\ \A p \in 1 .. Len(s.order) : \A y \in waits[s.order[p]] :
           \E q \in 1 .. p - 1 : s.order[q] = y

LEMMA StartSound ==
    ASSUME NEW N, NEW request \in Seq(N), N = NodesOf(request), Distinct(request),
           NEW X, NEW refs \in [N -> SUBSET X]
    PROVE  Sound(Start(request, refs), N, X, Deps(refs))
<1> DEFINE waits == Deps(refs)
           F == {n \in N : waits[n] = {}}
           ready == Only(request, F)
           s == Start(request, refs)
<1>1. waits \in [N -> SUBSET X]
  BY DEF Deps
<1>2. ready \in Seq(N) /\ ToSet(ready) = F /\ Distinct(ready)
  BY OnlyIs DEF NodesOf
<1>3. s = [order |-> <<>>, deps |-> waits, ready |-> ready]
  BY DEF Start
<1>4. /\ <<>> \in Seq(N) /\ ToSet(<<>>) = {} /\ Distinct(<<>>) /\ Len(<<>>) = 0
  BY DEF ToSet, Distinct
<1> HIDE DEF s, waits, ready
<1>5. s \in States(N, X)
  BY <1>1, <1>2, <1>3, <1>4 DEF States
<1>6. s.order = <<>> /\ s.deps = waits /\ s.ready = ready
  BY <1>3
<1>7. \A n \in N : s.deps[n] = waits[n] \ ToSet(s.order)
  BY <1>4, <1>6
<1>8. \A n \in N : n \in ToSet(s.order) \cup ToSet(s.ready) <=> s.deps[n] = {}
  BY <1>2, <1>4, <1>6
<1>9. Distinct(s.order) /\ Distinct(s.ready) /\ ToSet(s.order) \cap ToSet(s.ready) = {}
  BY <1>2, <1>4, <1>6
<1>10. 1 .. Len(s.order) = {}
  BY <1>4, <1>6
<1>11. Sound(s, N, X, waits)
  BY <1>5, <1>7, <1>8, <1>9, <1>10 DEF Sound
<1> QED BY <1>11 DEF s, waits

LEMMA TurnSound ==
    ASSUME NEW N, NEW request \in Seq(N), N = NodesOf(request), Distinct(request),
           NEW X, NEW waits \in [N -> SUBSET X],
           NEW s, Sound(s, N, X, waits), s.ready # <<>>
    PROVE  /\ Sound(Turn(request, s), N, X, waits)
           /\ Len(Turn(request, s).order) = Len(s.order) + 1
<1> DEFINE nid == Last(s.ready)
           F == {n \in N : s.deps[n] = {nid}}
           freed == Only(request, F)
           front == Front(s.ready)
           order == Append(s.order, nid)
           ready == front \o freed
           deps == [n \in N |-> s.deps[n] \ {nid}]
           t == Turn(request, s)
<1>1. /\ s.order \in Seq(N) /\ s.ready \in Seq(N) /\ s.deps \in [N -> SUBSET X]
      /\ DOMAIN s.deps = N
  BY DEF Sound, States
<1>2. t = [order |-> order, ready |-> ready, deps |-> deps]
  BY <1>1 DEF Turn
<1>3. freed \in Seq(N) /\ ToSet(freed) = F /\ Distinct(freed)
  BY OnlyIs DEF NodesOf
<1>4. /\ Distinct(s.order) /\ Distinct(s.ready) /\ ToSet(s.order) \cap ToSet(s.ready) = {}
      /\ \A n \in N : s.deps[n] = waits[n] \ ToSet(s.order)
      /\ \A n \in N : n \in ToSet(s.order) \cup ToSet(s.ready) <=> s.deps[n] = {}
      /\ \A p \in 1 .. Len(s.order) : \A y \in waits[s.order[p]] :
             \E q \in 1 .. p - 1 : s.order[q] = y
  BY DEF Sound
<1>5. /\ front \in Seq(N) /\ nid \in N /\ ToSet(s.ready) = ToSet(front) \cup {nid}
      /\ Distinct(front) /\ nid \notin ToSet(front)
  BY <1>1, <1>4, FrontLastIs
<1>6. nid \notin ToSet(s.order) /\ s.deps[nid] = {}
  BY <1>4, <1>5
<1> HIDE DEF nid, front, freed
<1>7. /\ order \in Seq(N) /\ ToSet(order) = ToSet(s.order) \cup {nid} /\ Distinct(order)
      /\ Len(order) = Len(s.order) + 1 /\ order[Len(s.order) + 1] = nid
      /\ \A i \in 1 .. Len(s.order) : order[i] = s.order[i]
  BY <1>1, <1>4, <1>5, <1>6, AppendIs
<1>8. \A n \in F : n \notin ToSet(s.order) /\ n \notin ToSet(s.ready)
  BY <1>4
<1>9. /\ ready \in Seq(N) /\ ToSet(ready) = ToSet(front) \cup F /\ Distinct(ready)
  <2>1. ToSet(front) \cap ToSet(freed) = {}
    BY <1>3, <1>5, <1>8
  <2> QED BY <1>3, <1>5, <2>1, ConcatIs
<1> HIDE DEF order, ready
<1>10. deps \in [N -> SUBSET X] /\ \A n \in N : deps[n] = s.deps[n] \ {nid}
  BY <1>1
<1> HIDE DEF deps, t
<1>11. /\ t \in States(N, X) /\ t.order = order /\ t.ready = ready /\ t.deps = deps
  BY <1>2, <1>7, <1>9, <1>10 DEF States
<1>12. \A n \in N : t.deps[n] = waits[n] \ ToSet(t.order)
  BY <1>4, <1>7, <1>10, <1>11
<1>13. ToSet(t.order) \cap ToSet(t.ready) = {}
  <2>1. nid \notin F
    BY <1>5, <1>6
  <2>2. \A n \in ToSet(front) : n \notin ToSet(s.order) /\ n # nid
    BY <1>4, <1>5
  <2> HIDE DEF F
  <2> QED BY <1>7, <1>8, <1>9, <1>11, <2>1, <2>2
<1>14. \A n \in N : n \in ToSet(t.order) \cup ToSet(t.ready) <=> t.deps[n] = {}
  <2> TAKE n \in N
  <2>1. n \in ToSet(t.order) \cup ToSet(t.ready)
          <=> n \in ToSet(s.order) \cup ToSet(s.ready) \/ s.deps[n] = {nid}
    BY <1>5, <1>7, <1>9, <1>11
  <2>2. t.deps[n] = {} <=> s.deps[n] = {} \/ s.deps[n] = {nid}
    BY <1>10, <1>11
  <2> QED BY <1>4, <2>1, <2>2
<1>15. \A p \in 1 .. Len(t.order) : \A y \in waits[t.order[p]] :
           \E q \in 1 .. p - 1 : t.order[q] = y
  <2> SUFFICES ASSUME NEW p \in 1 .. Len(t.order), NEW y \in waits[t.order[p]]
               PROVE  \E q \in 1 .. p - 1 : t.order[q] = y
    OBVIOUS
  <2>1. Len(s.order) \in Nat /\ DOMAIN s.order = 1 .. Len(s.order)
    BY <1>1
  <2>2. CASE p \in 1 .. Len(s.order)
    <3>1. y \in waits[s.order[p]]
      BY <1>7, <1>11, <2>2
    <3>2. PICK q \in 1 .. p - 1 : s.order[q] = y
      BY <1>4, <2>2, <3>1
    <3>3. q \in 1 .. Len(s.order)
      BY <2>1, <2>2
    <3>4. t.order[q] = y
      BY <1>7, <1>11, <3>2, <3>3
    <3> QED BY <3>4
  <2>3. CASE p = Len(s.order) + 1
    <3>1. y \in ToSet(s.order)
      BY <1>4, <1>5, <1>6, <1>7, <1>11, <2>3
    <3>2. PICK q \in 1 .. Len(s.order) : s.order[q] = y
      BY <2>1, <3>1 DEF ToSet
    <3> QED BY <1>7, <1>11, <2>1, <2>3, <3>2
  <2> QED BY <1>7, <1>11, <2>1, <2>2, <2>3
<1>16. Sound(t, N, X, waits)
  BY <1>7, <1>9, <1>11, <1>12, <1>13, <1>14, <1>15 DEF Sound
<1> QED BY <1>7, <1>11, <1>16 DEF t

\* t holds the states of the loop.
IsTurns(t, request, refs, D) ==
    /\ t \in [0 .. Len(request) -> D] /\ Turns(request, refs) = t
    /\ t[0] = Start(request, refs)
    /\ \A i \in 1 .. Len(request) : t[i] = Turn(request, t[i - 1])

LEMMA TurnsAre ==
    ASSUME NEW request, NEW refs, Len(request) \in Nat, NEW D, Start(request, refs) \in D,
           \A s \in D : Turn(request, s) \in D
    PROVE  \E t : IsTurns(t, request, refs, D)
<1> DEFINE n == Len(request)
           start == Start(request, refs)
           on(x) == Turn(request, x)
           next(g, i) == IF i = 0 THEN start ELSE on(g[i - 1])
           step == [p \in (1 .. n) \X D |-> on(p[2])]
           t == CHOOSE g : g = [i \in 0 .. n |-> next(g, i)]
<1>1. n \in Nat /\ start \in D
  OBVIOUS
<1>2. \A x \in D : on(x) \in D
  OBVIOUS
<1>3. Turns(request, refs) = t
  BY DEF Turns
<1> HIDE DEF n, start, on, t
<1>4. step \in [(1 .. n) \X D -> D]
  BY <1>2
<1>5. \A i \in 1 .. n, x \in D : step[<<i, x>>] = on(x)
  OBVIOUS
<1> HIDE DEF step
<1>6. PICK g : IsRun(g, n, D, start, step)
  BY <1>1, <1>4, Runs
<1>7. /\ g \in [0 .. n -> D] /\ g[0] = start
      /\ \A i \in 1 .. n : g[i] = step[<<i, g[i - 1]>>]
  BY <1>6 DEF IsRun
<1>8. \A i \in 1 .. n : i - 1 \in 0 .. n /\ g[i] = on(g[i - 1])
  <2> TAKE i \in 1 .. n
  <2>1. i - 1 \in 0 .. n
    BY <1>1
  <2> QED BY <1>5, <1>7, <2>1
<1>9. \A i \in 0 .. n : g[i] = next(g, i)
  BY <1>1, <1>7, <1>8
<1> HIDE DEF next
<1>10. g = [i \in 0 .. n |-> next(g, i)]
  BY <1>7, <1>9
<1>11. t = [i \in 0 .. n |-> next(t, i)]
  BY <1>10 DEF t
<1>12. /\ \A i \in 0 .. n : t[i] = next(t, i)
       /\ t \in [0 .. n -> {next(t, i) : i \in 0 .. n}]
  BY <1>11
<1>13. 0 \in 0 .. n /\ \A i \in 1 .. n : i \in 0 .. n /\ i # 0
  BY <1>1
<1>14. t[0] = start
  BY <1>12, <1>13 DEF next
<1>15. ASSUME NEW i \in 1 .. n PROVE t[i] = on(t[i - 1])
  <2>1. t[i] = next(t, i)
    BY <1>12, <1>13
  <2> QED BY <1>13, <2>1 DEF next
<1>16. \A i \in 0 .. n : t[i] \in D
  <2>1. \A i \in 1 .. n : t[i - 1] \in D => t[i] \in D
    BY <1>2, <1>15
  <2>2. t[0] \in D
    BY <1>1, <1>14
  <2> QED BY <1>1, <2>1, <2>2, Preserved
<1>17. t \in [0 .. n -> D]
  BY <1>12, <1>16
<1> QED BY <1>3, <1>14, <1>15, <1>17 DEF n, start, on, IsTurns

-----------------------------------------------------------------------------
(* What the loop leaves. *)

\* At the end everything is ordered or nothing is ready.
LEMMA LoopEnds ==
    ASSUME NEW N, NEW request \in Seq(N), N = NodesOf(request), Distinct(request),
           NEW X, NEW refs \in [N -> SUBSET X]
    PROVE  \E s : /\ Sound(s, N, X, Deps(refs)) /\ Turns(request, refs)[Len(request)] = s
                  /\ Len(s.order) = Len(request) \/ s.ready = <<>>
<1> DEFINE n == Len(request)
           waits == Deps(refs)
           D == {s \in States(N, X) : Sound(s, N, X, waits)}
<1>1. waits \in [N -> SUBSET X]
  BY DEF Deps
<1>2. n \in Nat
  OBVIOUS
<1>3. Start(request, refs) \in D /\ Start(request, refs).order = <<>>
  <2>1. Sound(Start(request, refs), N, X, waits)
    BY StartSound
  <2>2. Start(request, refs).order = <<>>
    BY DEF Start
  <2> HIDE DEF waits
  <2> QED BY <2>1, <2>2 DEF Sound
<1> HIDE DEF waits
<1>4. \A s \in D : Sound(s, N, X, waits)
  OBVIOUS
<1>5. \A s : Sound(s, N, X, waits) => s \in D
  BY DEF Sound
<1> HIDE DEF D
<1>6. ASSUME NEW s, Sound(s, N, X, waits), s.ready # <<>>
       PROVE  /\ Sound(Turn(request, s), N, X, waits)
              /\ Len(Turn(request, s).order) = Len(s.order) + 1
  BY <1>1, <1>6, TurnSound
<1>7. ASSUME NEW s \in D
      PROVE  /\ Turn(request, s) \in D
             /\ s.ready = <<>> => Turn(request, s) = s
             /\ s.ready # <<>> => Len(Turn(request, s).order) = Len(s.order) + 1
  <2>1. CASE s.ready = <<>>
    BY <2>1 DEF Turn
  <2>2. CASE s.ready # <<>>
    BY <1>4, <1>5, <1>6, <2>2
  <2> QED BY <2>1, <2>2
<1>8. PICK t : IsTurns(t, request, refs, D)
  BY <1>2, <1>3, <1>7, TurnsAre
<1>9. /\ t \in [0 .. n -> D] /\ Turns(request, refs) = t
      /\ t[0] = Start(request, refs)
      /\ \A i \in 1 .. n : t[i] = Turn(request, t[i - 1])
  BY <1>8 DEF IsTurns
<1> DEFINE P == {i \in Nat : i <= n => Len(t[i].order) = i \/ t[i].ready = <<>>}
<1>10. 0 \in P /\ P \subseteq Nat
  BY <1>3, <1>9
<1>11. ASSUME NEW i \in P PROVE i + 1 \in P
  <2> SUFFICES ASSUME i + 1 <= n
               PROVE  Len(t[i + 1].order) = i + 1 \/ t[i + 1].ready = <<>>
    OBVIOUS
  <2>1. i \in Nat /\ i \in 0 .. n /\ i + 1 \in 1 .. n /\ (i + 1) - 1 = i
    BY <1>2
  <2>2. t[i] \in D /\ t[i + 1] = Turn(request, t[i])
    BY <1>9, <2>1
  <2>3. Len(t[i].order) = i \/ t[i].ready = <<>>
    BY <2>1
  <2> QED BY <1>7, <2>2, <2>3
<1>12. P = Nat
  <2> HIDE DEF P
  <2> QED BY <1>10, <1>11, SetInduction
<1>13. Len(t[n].order) = n \/ t[n].ready = <<>>
  <2>1. n \in P
    <3> HIDE DEF P
    <3> QED BY <1>2, <1>12
  <2> QED BY <1>2, <2>1
<1>14. t[n] \in D
  BY <1>2, <1>9
<1> QED BY <1>9, <1>13, <1>14 DEF D, waits

LEMMA RequestIs ==
    ASSUME NEW N, NEW request \in Seq(N), N = NodesOf(request), Distinct(request)
    PROVE  /\ Len(request) \in Nat /\ IsFiniteSet(N) /\ Cardinality(N) = Len(request)
           /\ \A s \in Seq(N) : /\ Distinct(s) => (ToSet(s) = N <=> Len(s) = Len(request))
<1>1. /\ Len(request) \in Nat /\ DOMAIN request = 1 .. Len(request)
      /\ \A i \in 1 .. Len(request) : request[i] \in N
  OBVIOUS
<1>2. \A k \in Nat : IsFiniteSet(1 .. k) /\ Cardinality(1 .. k) = k
  BY FS_Interval
<1>3. ASSUME NEW s \in Seq(N), Distinct(s), ToSet(s) = N
      PROVE  IsFiniteSet(N) /\ Cardinality(N) = Len(s)
  <2>1. Len(s) \in Nat /\ DOMAIN s = 1 .. Len(s) /\ s \in [1 .. Len(s) -> N]
    OBVIOUS
  <2>2. s \in Surjection(1 .. Len(s), N)
    BY <1>3, <2>1 DEF Surjection, ToSet
  <2>3. s \in Injection(1 .. Len(s), N)
    BY <1>3, <2>1 DEF Injection, IsInjective, Distinct
  <2> QED BY <1>2, <2>1, <2>2, <2>3, FS_Surjection
<1>4. IsFiniteSet(N) /\ Cardinality(N) = Len(request)
  BY <1>3 DEF NodesOf
<1>5. ASSUME NEW s \in Seq(N), Distinct(s), Len(s) = Len(request)
      PROVE  ToSet(s) = N
  <2>1. Len(s) \in Nat /\ DOMAIN s = 1 .. Len(s) /\ s \in [1 .. Len(s) -> N]
    OBVIOUS
  <2>2. s \in Injection(1 .. Len(s), N)
    BY <1>5, <2>1 DEF Injection, IsInjective, Distinct
  <2>3. s \in Surjection(1 .. Len(s), N)
    BY <1>2, <1>4, <1>5, <2>1, <2>2, FS_Injection
  <2> QED BY <2>1, <2>3 DEF Surjection, ToSet
<1> QED BY <1>1, <1>3, <1>4, <1>5

\* What topo_sort returns is the request in an order in which every node comes
\* after the others it refers to.
LEMMA SortedRunsInOrder ==
    ASSUME NEW N, NEW request \in Seq(N), N = NodesOf(request), Distinct(request),
           NEW X, NEW refs \in [N -> SUBSET X], Sorted(request, refs) # <<>>
    PROVE  /\ ~Unknown(request, refs) /\ RunsInOrder(Sorted(request, refs), request, refs)
           /\ Sorted(request, refs) \in Seq(N)
<1> DEFINE waits == Deps(refs)
           o == Sorted(request, refs)
<1>1. PICK s : /\ Sound(s, N, X, waits) /\ Turns(request, refs)[Len(request)] = s
  BY LoopEnds
<1>2. ~Unknown(request, refs) /\ o = s.order /\ Len(o) = Len(request)
  BY <1>1 DEF Sorted
<1> HIDE DEF o
<1>3. /\ o \in Seq(N) /\ Distinct(o)
      /\ \A p \in 1 .. Len(o) : \A y \in waits[o[p]] : \E q \in 1 .. p - 1 : o[q] = y
  BY <1>1, <1>2 DEF Sound, States
<1>4. ToSet(o) = N
  BY <1>2, <1>3, RequestIs
<1>5. ASSUME NEW i \in 1 .. Len(o), NEW j \in 1 .. Len(o), o[j] \in refs[o[i]]
      PROVE  j <= i
  <2>1. Len(o) \in Nat /\ o[i] \in N
    BY <1>3
  <2>2. CASE o[j] = o[i]
    BY <1>3, <2>1, <2>2 DEF Distinct
  <2>3. CASE o[j] # o[i]
    <3>1. o[j] \in waits[o[i]]
      BY <1>5, <2>1, <2>3 DEF Deps
    <3>2. PICK q \in 1 .. i - 1 : o[q] = o[j]
      BY <1>3, <3>1
    <3>3. q \in 1 .. Len(o)
      BY <2>1
    <3>4. q = j
      BY <1>3, <3>2, <3>3 DEF Distinct
    <3> QED BY <2>1, <3>4
  <2> QED BY <2>2, <2>3
<1> QED BY <1>2, <1>3, <1>4, <1>5 DEF o, RunsInOrder

\* A graph for which topo_sort returns no order has none.
LEMMA UnsortedHasNoOrder ==
    ASSUME NEW N, NEW request \in Seq(N), N = NodesOf(request), Distinct(request),
           NEW X, NEW refs \in [N -> SUBSET X], request # <<>>,
           Sorted(request, refs) = <<>>, ~Unknown(request, refs)
    PROVE  ~Orderable(request, refs)
<1> DEFINE waits == Deps(refs)
<1>1. PICK s : /\ Sound(s, N, X, waits) /\ Turns(request, refs)[Len(request)] = s
               /\ Len(s.order) = Len(request) \/ s.ready = <<>>
  BY LoopEnds
<1>2. Len(s.order) # Len(request)
  <2>1. Len(request) # 0
    OBVIOUS
  <2>2. Len(<<>>) = 0
    OBVIOUS
  <2> QED BY <1>1, <2>1, <2>2 DEF Sorted
<1>3. /\ s.order \in Seq(N) /\ Distinct(s.order) /\ s.ready = <<>>
      /\ \A n \in N : s.deps[n] = waits[n] \ ToSet(s.order)
      /\ \A n \in N : n \in ToSet(s.order) \cup ToSet(s.ready) <=> s.deps[n] = {}
  BY <1>1, <1>2 DEF Sound, States
<1>4. ToSet(s.order) # N /\ ToSet(s.order) \subseteq N
  <2>1. ToSet(s.order) \subseteq N
    BY <1>3 DEF ToSet
  <2> QED BY <1>2, <1>3, <2>1, RequestIs
<1>5. ToSet(s.ready) = {}
  BY <1>3 DEF ToSet
<1>6. \A n \in N : waits[n] = refs[n] \ {n} /\ refs[n] \subseteq N
  BY DEF Deps, Unknown
<1> SUFFICES ASSUME Orderable(request, refs) PROVE FALSE
  OBVIOUS
<1>7. PICK o \in SetToSeqs(N) : RunsInOrder(o, request, refs)
  BY DEF Orderable
<1>8. /\ ToSet(o) = N /\ DOMAIN o = 1 .. Len(o) /\ Len(o) \in Nat
      /\ \A i, j \in 1 .. Len(o) : o[j] \in refs[o[i]] => j <= i
  <2>1. Cardinality(N) \in Nat /\ Cardinality(N) = Len(request)
    BY RequestIs
  <2>2. o \in [1 .. Cardinality(N) -> N] /\ Len(o) = Len(request)
    BY <1>7 DEF SetToSeqs, RunsInOrder
  <2> QED BY <1>7, <2>1, <2>2 DEF RunsInOrder
\* The first of those that were left out has nothing to wait for.
<1> DEFINE Left == {p \in 1 .. Len(o) : o[p] \notin ToSet(s.order)}
<1>9. PICK p \in Left : \A q \in Left : p <= q
  <2>1. Left \subseteq Nat
    OBVIOUS
  <2>2. Left # {}
    BY <1>4, <1>8 DEF ToSet
  <2> HIDE DEF Left
  <2> QED BY <2>1, <2>2, Least
<1>10. p \in 1 .. Len(o) /\ o[p] \notin ToSet(s.order) /\ o[p] \in N
  BY <1>8 DEF ToSet
<1>11. ASSUME NEW y \in waits[o[p]] PROVE y \in ToSet(s.order)
  <2>1. y \in refs[o[p]] /\ y # o[p] /\ y \in N
    BY <1>6, <1>10
  <2>2. PICK q \in 1 .. Len(o) : o[q] = y
    BY <1>8, <2>1 DEF ToSet
  <2>3. q <= p /\ q # p
    BY <1>8, <1>10, <2>1, <2>2
  <2>4. q \notin Left
    BY <1>9, <1>10, <2>3
  <2> QED BY <2>2, <2>4
<1>12. s.deps[o[p]] = {}
  BY <1>3, <1>10, <1>11
<1> QED BY <1>3, <1>5, <1>10, <1>12

\* For every request of at least one node, topo_sort returns an order in which
\* every node comes after the others its inputs refer to if there is one, and
\* refuses the request if there is none.
THEOREM EveryRequestIsSorted ==
    ASSUME NEW request, request \in Seq(NodesOf(request)), Distinct(request),
           request # <<>>, NEW other
    PROVE  TopoSortIsRight(request, other)
<1> DEFINE N == NodesOf(request)
<1> SUFFICES ASSUME NEW refs \in [N -> SUBSET (N \cup {other})]
             PROVE  IF Sorted(request, refs) = <<>>
                    THEN Unknown(request, refs) \/ ~Orderable(request, refs)
                    ELSE /\ ~Unknown(request, refs)
                         /\ RunsInOrder(Sorted(request, refs), request, refs)
  BY DEF TopoSortIsRight
<1> HIDE DEF N
<1>1. request \in Seq(N) /\ N = NodesOf(request)
  BY DEF N
<1> QED BY <1>1, SortedRunsInOrder, UnsortedHasNoOrder

\* The requests of the model are such.
LEMMA RequestsAre ==
    ASSUME NEW request \in RequestsOver(Names)
    PROVE  request \in Seq(NodesOf(request)) /\ Distinct(request) /\ request # <<>>
<1>1. PICK S \in (SUBSET Names) \ {{}} : request \in SetToSeqs(S)
  BY DEF RequestsOver
<1> DEFINE k == Cardinality(S)
<1>2. IsFiniteSet(S) /\ S # {}
  BY <1>1, GraphAssumption, FS_Subset
<1>3. k \in Nat /\ k # 0
  BY <1>2, FS_CardinalityType, FS_EmptySet
<1>4. request \in [1 .. k -> S] /\ \A i, j \in 1 .. k : i # j => request[i] # request[j]
  BY <1>1 DEF SetToSeqs
<1> HIDE DEF k
<1>5. request \in Seq(S) /\ Len(request) = k /\ DOMAIN request = 1 .. k
  BY <1>3, <1>4
<1>6. request \in [1 .. k -> NodesOf(request)]
  BY <1>4, <1>5 DEF NodesOf, ToSet
<1> QED BY <1>3, <1>4, <1>5, <1>6 DEF Distinct

\* Whatever the engine is asked to run has been put in a right order, or is
\* refused if it has none.
THEOREM RequestsHold == Spec => []RequestsAreSorted
<1>1. SortsAll
  BY RequestsAre, EveryRequestIsSorted DEF SortsAll
<1>2. Init => RequestsAreSorted
  BY <1>1 DEF RequestsAreSorted
<1>3. RequestsAreSorted /\ [Next]_vars => RequestsAreSorted'
  BY <1>1 DEF RequestsAreSorted, SortsAll
<1> QED BY <1>2, <1>3, PTL DEF Spec

LEMMA OrderIs == Order \in Seq(Nodes) /\ Len(Order) \in Nat \ {0}
<1>1. Order \in Seq(Nodes)
  <2>1. Graph \in Seq(Nodes) /\ Distinct(Graph)
    BY GraphAssumption, RequestsAre DEF Nodes
  <2> QED BY <2>1, GraphAssumption, SortedRunsInOrder DEF Order, Nodes
<1> QED BY <1>1, GraphAssumption

-----------------------------------------------------------------------------
(* Types. *)

LEMMA OldAgeNat == OldAge \in Nat
  BY LimitAssumption DEF OldAge

\* Whatever a caller does to the register, the register keeps its type.
LEMMA BookStep ==
    ASSUME BookTypeOK,
           \/ UNCHANGED bookVars \/ Elapse
           \/ \E l \in Leases : Touch(l, {}) \/ TouchExisting(l) \/ Release(l)
           \/ \E gone : Drop(gone)
    PROVE  BookTypeOK'
<1> USE OldAgeNat DEF BookTypeOK
<1>1. CASE UNCHANGED bookVars \/ Elapse
  BY <1>1 DEF bookVars, Elapse
<1>2. CASE \E l \in Leases : Touch(l, {})
  BY <1>2 DEF Touch
<1>3. CASE \E l \in Leases : TouchExisting(l)
  BY <1>3 DEF TouchExisting
<1>4. CASE \E gone : Drop(gone)
  BY <1>4 DEF Drop, Strip
<1> QED BY <1>1, <1>2, <1>3, <1>4 DEF Release

\* The parts of TypeOK.
StoreTypeOK ==
    /\ owner \in [Ids -> Leases \cup {NoLease}] /\ made \in [Ids -> Nodes \cup {NoNode}]
    /\ old \in [Ids -> 0 .. OldObject]
    /\ \A i \in Ids : i \in Stored <=> made[i] # NoNode

RunTypeOK ==
    /\ sent \in [Leases -> 0 .. Most]
    /\ pend \subseteq Leases /\ who \in Leases \cup {NoLease}
    /\ epc \in {"idle", "look", "fetch", "run", "put", "keep"}
    /\ meta \in Seq(Ids) /\ Len(meta) < Len(Order) /\ hit \in Ids \cup {NoId}

HistTypeOK ==
    handed \in [Leases -> SUBSET Ids] /\ borrowed \in [Leases -> SUBSET Ids]

\* The engine serves somebody, and knows the object that it hands out.
Serves == /\ epc # "idle" => who \in Leases
          /\ epc \in {"fetch", "keep"} => hit \in Ids

Types == /\ BookTypeOK /\ StoreTypeOK /\ RunTypeOK /\ HistTypeOK
         /\ cache \in [Nodes -> Ids \cup {NoId}]
         /\ rpc \in {"sleep", "sweep", "clear"} /\ gpc \in {"idle", "store"}

LEMMA OldObjectNat == OldObject \in Nat
  BY StoreAssumption DEF OldObject

LEMMA ReplaceType ==
    ASSUME StoreTypeOK, NEW gone, NEW new, NEW n, Replace(gone, new, n),
           new = {} \/ (who \in Leases /\ n \in Nodes)
    PROVE  StoreTypeOK'
<1> USE NoneAssumption, OldObjectNat DEF StoreTypeOK, Replace, Stored
<1>1. CASE new = {}
  BY <1>1
<1>2. CASE who \in Leases /\ n \in Nodes
  BY <1>2
<1> QED BY <1>1, <1>2

LEMMA NodeIs == ASSUME RunTypeOK PROVE Node \in Nodes
<1>1. Len(meta) \in Nat
  BY DEF RunTypeOK
<1>2. Len(meta) + 1 \in 1 .. Len(Order)
  BY <1>1, OrderIs DEF RunTypeOK
<1> QED BY <1>2, OrderIs DEF Node

LEMMA GotoType ==
    ASSUME RunTypeOK, Serves, NEW pc \in {"look", "fetch", "run", "put", "keep"}, Goto(pc),
           who \in Leases, hit' \in Ids \cup {NoId}, pc \in {"fetch", "keep"} => hit' \in Ids
    PROVE  RunTypeOK' /\ Serves'
  BY DEF RunTypeOK, Serves, Goto

LEMMA EndType ==
    ASSUME RunTypeOK, RunEnds
    PROVE  RunTypeOK' /\ Serves'
<1>1. <<>> \in Seq(Ids) /\ Len(<<>>) = 0 /\ Len(Order) \in Nat \ {0}
  BY OrderIs
<1>2. meta' = <<>> /\ epc' = "idle" /\ who' = NoLease /\ hit' = NoId /\ UNCHANGED <<sent, pend>>
  BY DEF RunEnds
<1> QED BY <1>1, <1>2 DEF RunTypeOK, Serves

LEMMA DoneType ==
    ASSUME RunTypeOK, who \in Leases, hit \in Ids, NodeDone
    PROVE  RunTypeOK' /\ Serves'
<1>1. CASE RunEnds
  BY <1>1, EndType
<1>2. CASE ~RunEnds
  <2>1. /\ Len(meta) + 1 < Len(Order) /\ epc' = "look" /\ meta' = Append(meta, hit)
        /\ hit' = NoId /\ UNCHANGED <<sent, pend, who>>
    BY <1>2 DEF NodeDone
  <2>2. meta \in Seq(Ids)
    BY DEF RunTypeOK
  <2>3. meta' \in Seq(Ids) /\ Len(meta') = Len(meta) + 1
    BY <2>1, <2>2
  <2> QED BY <2>1, <2>3 DEF RunTypeOK, Serves
<1> QED BY <1>1, <1>2

LEMMA GiveType ==
    ASSUME HistTypeOK, NEW id \in Ids, NEW others \in SUBSET Ids, Give(id, others)
    PROVE  HistTypeOK'
  BY DEF HistTypeOK, Give, histVars

LEMMA LoseType ==
    ASSUME HistTypeOK, NEW lost, NEW gone, Lose(lost, gone)
    PROVE  HistTypeOK'
  BY DEF HistTypeOK, Lose

LEMMA EngineType ==
    ASSUME Types, Serves, Engine
    PROVE  Types' /\ Serves'
<1> USE DEF Types
<1>1. CASE LookHit \/ LookMiss
  <2>1. /\ epc = "look" /\ who \in Leases /\ TouchExisting(who) /\ Node \in Nodes
        /\ UNCHANGED <<storeVars, cache, rpc, gpc, histVars>>
    BY <1>1, NodeIs DEF LookHit, LookMiss, Serves
  <2>2. BookTypeOK'
    BY <2>1, BookStep
  <2>3. RunTypeOK' /\ Serves'
    <3>1. CASE LookHit
      BY <2>1, <3>1, GotoType DEF LookHit, Valid, Stored
    <3>2. CASE LookMiss
      BY <2>1, <3>2, GotoType DEF LookMiss, RunTypeOK
    <3> QED BY <1>1, <3>1, <3>2
  <2>4. StoreTypeOK' /\ HistTypeOK'
    BY <2>1 DEF storeVars, histVars, StoreTypeOK, HistTypeOK, Stored, OldObject
  <2> QED BY <2>1, <2>2, <2>3, <2>4
<1>2. CASE Fetch
  <2>1. /\ hit \in Ids /\ who \in Leases /\ NodeDone
        /\ Give(hit, IF owner[hit] = who THEN {} ELSE {hit})
        /\ UNCHANGED <<bookVars, storeVars, cache, rpc, gpc>>
    BY <1>2 DEF Fetch, Serves
  <2>2. (IF owner[hit] = who THEN {} ELSE {hit}) \in SUBSET Ids
    BY <2>1
  <2>3. BookTypeOK' /\ RunTypeOK' /\ Serves' /\ HistTypeOK'
    BY <2>1, <2>2, BookStep, DoneType, GiveType
  <2>4. StoreTypeOK'
    BY <2>1 DEF storeVars, StoreTypeOK, Stored, OldObject
  <2> QED BY <2>1, <2>3, <2>4
<1>3. CASE FetchFails \/ RunFails
  <2>1. RunEnds /\ UNCHANGED <<bookVars, storeVars, cache, rpc, gpc, histVars>>
    BY <1>3 DEF FetchFails, RunFails
  <2>2. BookTypeOK' /\ RunTypeOK' /\ Serves'
    BY <2>1, BookStep, EndType
  <2>3. StoreTypeOK' /\ HistTypeOK'
    BY <2>1 DEF storeVars, histVars, StoreTypeOK, HistTypeOK, Stored, OldObject
  <2> QED BY <2>1, <2>2, <2>3
<1>4. CASE Run
  <2>1. /\ who \in Leases /\ Goto("put") /\ UNCHANGED hit
        /\ Touch(who, {}) \/ UNCHANGED bookVars
        /\ UNCHANGED <<storeVars, cache, rpc, gpc, histVars>>
    BY <1>4 DEF Run, Serves
  <2>2. BookTypeOK'
    BY <2>1, BookStep
  <2>3. RunTypeOK' /\ Serves'
    BY <2>1, GotoType DEF RunTypeOK
  <2>4. StoreTypeOK' /\ HistTypeOK'
    BY <2>1 DEF storeVars, histVars, StoreTypeOK, HistTypeOK, Stored, OldObject
  <2> QED BY <2>1, <2>2, <2>3, <2>4
<1>5. CASE Put
  <2>1. /\ who \in Leases /\ Node \in Nodes /\ NewId \in Ids
        /\ Replace(Expiring \cup Orphans, {NewId}, Node) /\ hit' = NewId
        /\ Goto("keep") /\ Drop(Asked) /\ Lose(Expiring, Asked)
        /\ UNCHANGED <<cache, rpc, gpc>>
    BY <1>5, NodeIs DEF Put, NewId, Serves, StoreSweep
  <2>2. BookTypeOK' /\ StoreTypeOK' /\ HistTypeOK'
    BY <2>1, BookStep, ReplaceType, LoseType
  <2>3. RunTypeOK' /\ Serves'
    BY <2>1, GotoType
  <2> QED BY <2>1, <2>2, <2>3
<1>6. CASE Keep
  <2>1. /\ hit \in Ids /\ who \in Leases /\ NodeDone /\ Node \in Nodes
        /\ cache' = [cache EXCEPT ![Node] = hit]
        /\ Give(hit, {}) \/ UNCHANGED histVars
        /\ UNCHANGED <<bookVars, storeVars, rpc, gpc>>
    BY <1>6, NodeIs DEF Keep, Serves
  <2>2. BookTypeOK' /\ RunTypeOK' /\ Serves'
    BY <2>1, BookStep, DoneType
  <2>3. HistTypeOK'
    BY <2>1, GiveType DEF histVars, HistTypeOK
  <2>4. StoreTypeOK'
    BY <2>1 DEF storeVars, StoreTypeOK, Stored, OldObject
  <2>5. cache' \in [Nodes -> Ids \cup {NoId}]
    BY <2>1
  <2> QED BY <2>1, <2>2, <2>3, <2>4, <2>5
<1> QED BY <1>1, <1>2, <1>3, <1>4, <1>5, <1>6 DEF Engine

LEMMA OtherType ==
    ASSUME Types, Serves,
           \/ \E l \in Leases : Submit(l) \/ Poll(l) \/ Begin(l) \/ ReleaseLease(l)
           \/ OtherPut \/ (\E n \in Loaders : ModelGoes(n))
           \/ GcCache \/ GcStore \/ Reclaim \/ Sweeper \/ Tick \/ UNCHANGED vars
    PROVE  Types' /\ Serves'
<1> USE DEF Types
<1>1. ASSUME UNCHANGED storeVars PROVE StoreTypeOK'
  BY <1>1 DEF storeVars, StoreTypeOK, Stored, OldObject
<1>2. ASSUME UNCHANGED runVars PROVE RunTypeOK' /\ Serves'
  BY <1>2 DEF runVars, RunTypeOK, Serves
<1>3. ASSUME UNCHANGED histVars PROVE HistTypeOK'
  BY <1>3 DEF histVars, HistTypeOK
<1>4. [n \in Nodes |-> NoId] \in [Nodes -> Ids \cup {NoId}]
  OBVIOUS
<1>5. ASSUME NEW l \in Leases, Submit(l) PROVE Types' /\ Serves'
  <2>1. RunTypeOK' /\ Serves'
    BY <1>5, StoreAssumption DEF Submit, RunTypeOK, Serves
  <2>2. Touch(l, {}) /\ UNCHANGED <<storeVars, cache, rpc, gpc, histVars>>
    BY <1>5 DEF Submit
  <2> QED BY <1>1, <1>3, <2>1, <2>2, BookStep
<1>6. ASSUME NEW l \in Leases, Poll(l) PROVE Types' /\ Serves'
  <2>1. Touch(l, {}) /\ UNCHANGED <<storeVars, cache, runVars, rpc, gpc, histVars>>
    BY <1>6 DEF Poll
  <2> QED BY <1>1, <1>2, <1>3, <2>1, BookStep
<1>7. ASSUME NEW l \in Leases, Begin(l) PROVE Types' /\ Serves'
  <2>1. RunTypeOK' /\ Serves'
    BY <1>7 DEF Begin, RunTypeOK, Serves
  <2>2. UNCHANGED <<bookVars, storeVars, cache, rpc, gpc, histVars>>
    BY <1>7 DEF Begin
  <2> QED BY <1>1, <1>3, <2>1, <2>2, BookStep
<1>8. ASSUME NEW gone, Drop(gone), Lose({}, gone), UNCHANGED <<storeVars, cache, runVars, gpc>>,
             rpc' \in {"sleep", "sweep", "clear"}
      PROVE  Types' /\ Serves'
  BY <1>1, <1>2, <1>8, BookStep, LoseType
<1>9. CASE Sweeper \/ ReclaimCheck \/ \E l \in Leases : ReleaseLease(l)
  BY <1>8, <1>9 DEF Sweeper, Sweep, ReclaimCheck, ReleaseLease, Release
<1>10. ASSUME NEW gone, Discard(gone) PROVE StoreTypeOK'
  BY <1>10, ReplaceType DEF Discard
<1>11. CASE OtherPut \/ ReclaimSweep
  <2>1. /\ Discard(Expiring \cup Orphans) /\ Drop(Asked) /\ Lose(Expiring, Asked)
        /\ rpc' \in {"sleep", "sweep", "clear"} /\ UNCHANGED <<cache, runVars, gpc>>
    BY <1>11 DEF OtherPut, ReclaimSweep, StoreSweep
  <2> QED BY <1>2, <1>10, <2>1, BookStep, LoseType
<1>12. CASE GcStore \/ \E n \in Loaders : ModelGoes(n)
  <2>1. PICK gone : /\ Discard(gone) /\ Lose(gone, {}) /\ gpc' \in {"idle", "store"}
                    /\ UNCHANGED <<bookVars, cache, runVars, rpc>>
    BY <1>12 DEF GcStore, ModelGoes
  <2> QED BY <1>2, <1>10, <2>1, BookStep, LoseType
<1>13. CASE GcCache \/ ReclaimClear
  <2>1. /\ cache' = [n \in Nodes |-> NoId] /\ gpc' \in {"idle", "store"}
        /\ rpc' \in {"sleep", "sweep", "clear"}
        /\ UNCHANGED <<bookVars, storeVars, runVars, histVars>>
    BY <1>13 DEF GcCache, ReclaimClear
  <2> QED BY <1>1, <1>2, <1>3, <1>4, <2>1, BookStep
<1>14. CASE Tick
  <2>1. Elapse /\ UNCHANGED <<owner, made, cache, runVars, rpc, gpc, histVars>>
    BY <1>14 DEF Tick
  <2>2. StoreTypeOK'
    BY <1>14, OldObjectNat DEF Tick, StoreTypeOK, Stored, OldObject
  <2> QED BY <1>2, <1>3, <2>1, <2>2, BookStep
<1>15. CASE UNCHANGED vars
  BY <1>1, <1>2, <1>3, <1>15, BookStep DEF vars
<1> QED BY <1>5, <1>6, <1>7, <1>9, <1>11, <1>12, <1>13, <1>14, <1>15 DEF Reclaim

\* Every variable of the engine and the store holds a value of its kind, for
\* any request that can be ordered: an object is complete or not there.
THEOREM EngineTypes == Spec => []TypeOK
<1>1. Init => Types /\ Serves
  <2> SUFFICES ASSUME Init PROVE Types /\ Serves
    OBVIOUS
  <2>1. <<>> \in Seq(Ids) /\ Len(<<>>) = 0 /\ Len(Order) \in Nat \ {0}
    BY OrderIs
  <2>2. BookTypeOK
    BY OldAgeNat DEF Init, BookInit, BookTypeOK
  <2>3. StoreTypeOK
    BY NoneAssumption, OldObjectNat DEF Init, StoreTypeOK, Stored
  <2>4. RunTypeOK /\ HistTypeOK /\ Serves
    BY <2>1, StoreAssumption DEF Init, RunTypeOK, HistTypeOK, Serves
  <2> QED BY <2>2, <2>3, <2>4 DEF Init, Types
<1>2. Types /\ Serves /\ [Next]_vars => Types' /\ Serves'
  BY EngineType, OtherType DEF Next
<1>3. Types => TypeOK
  BY DEF Types, StoreTypeOK, RunTypeOK, HistTypeOK, TypeOK
<1> QED BY <1>1, <1>2, <1>3, PTL DEF Spec

-----------------------------------------------------------------------------
(* Who owns what. *)

\* The types that matter here; TypeOK says more.
Kinds ==
    /\ owner \in [Ids -> Leases \cup {NoLease}]
    /\ hit \in Ids \cup {NoId} /\ who \in Leases \cup {NoLease}
    /\ handed \in [Leases -> SUBSET Ids] /\ borrowed \in [Leases -> SUBSET Ids]

\* An object that was just put, if it is still there, belongs to who put it.
JustPut == epc = "keep" /\ hit \in Stored => owner[hit] = who

Owned ==
    \A l \in Leases :
        /\ l \notin open => handed[l] = {}
        /\ \A i \in handed[l] \ borrowed[l] : owner[i] = l

Inv == Kinds /\ JustPut /\ Owned

-----------------------------------------------------------------------------
(* What a step may do to the store, the register and the histories. *)

\* Nothing leaves the register or the store, nothing is handed out.
Quiet == open \subseteq open' /\ UNCHANGED <<owner, handed, borrowed>>

\* Objects go, and their ids and those of ended leases are forgotten.
Goes(lost, gone) ==
    /\ open \ gone \subseteq open' /\ Lose(lost, gone)
    /\ \A l \in Leases, i \in Ids :
           owner[i] = l /\ i \notin lost /\ l \notin gone => owner'[i] = l

\* Whatever goes, the others keep their objects.
LEMMA GoesOwned ==
    ASSUME Kinds, Owned, NEW lost, NEW gone, Goes(lost, gone)
    PROVE  Owned'
  BY DEF Goes, Lose, Owned, Kinds

LEMMA QuietOwned ==
    ASSUME Kinds, Owned, Quiet
    PROVE  Owned'
  BY DEF Quiet, Owned

\* Objects may go, but a new one comes only with a put.
LEMMA JustPutStays ==
    ASSUME Kinds, JustPut, UNCHANGED <<epc, hit, who>>,
           \A i \in Ids : owner'[i] \in {owner[i], NoLease}
    PROVE  JustPut'
  BY NoneAssumption DEF JustPut, Kinds, Stored

LEMMA ReplaceOwner ==
    ASSUME NEW gone, NEW new, NEW n, Replace(gone, new, n)
    PROVE  \A i \in Ids : owner'[i] = IF i \in new THEN who
                                      ELSE IF i \in gone THEN NoLease ELSE owner[i]
  BY DEF Replace

\* A sweep of the store takes the objects of nobody whose lease it leaves.
LEMMA OrphansEnded ==
    ASSUME NEW i \in Orphans, owner[i] \in open
    PROVE  owner[i] \in Asked
<1>1. i \in Stored /\ old[i] > OrphanTTL /\ owner[i] \notin open \ Stale(Busy)
  BY DEF Orphans
<1>2. Asked = Stale(Busy)
  BY <1>1 DEF Asked
<1> QED BY <1>1, <1>2

LEMMA SweepGoes ==
    ASSUME Kinds, Owned, StoreSweep, Discard(Expiring \cup Orphans)
    PROVE  Owned'
<1>1. open' = open \ Asked /\ Lose(Expiring, Asked)
  BY DEF StoreSweep, Drop, Strip
<1>2. \A i \in Ids : i \notin Expiring \cup Orphans => owner'[i] = owner[i]
  BY ReplaceOwner DEF Discard
<1>3. ASSUME NEW l \in Leases, NEW i \in handed'[l] \ borrowed'[l]
      PROVE  owner'[i] = l
  <2>1. l \notin Asked /\ i \in handed[l] \ borrowed[l] /\ i \notin Expiring
    BY <1>1, <1>3 DEF Lose, Kinds
  <2>2. i \in Ids /\ owner[i] = l /\ l \in open
    BY <2>1 DEF Owned, Kinds
  <2>3. i \notin Orphans
    BY <2>1, <2>2, OrphansEnded
  <2> QED BY <1>2, <2>1, <2>2, <2>3
<1>4. \A l \in Leases : l \notin open' => handed'[l] = {}
  BY <1>1 DEF Lose, Owned
<1> QED BY <1>3, <1>4 DEF Owned

-----------------------------------------------------------------------------
(* The steps. *)

\* The engine hands out what it has put, or remembers that it is borrowed.
LEMMA GiveOwned ==
    ASSUME Kinds, Owned, NEW id \in Ids, NEW others, Give(id, others),
           owner[id] = who \/ others = {id}, others \subseteq Ids,
           UNCHANGED <<open, owner>>
    PROVE  Owned' /\ handed' \in [Leases -> SUBSET Ids] /\ borrowed' \in [Leases -> SUBSET Ids]
<1>1. CASE who \in open
  BY <1>1 DEF Give, Owned, Kinds
<1>2. CASE who \notin open
  BY <1>2 DEF Give, histVars, Owned, Kinds
<1> QED BY <1>1, <1>2

LEMMA NodeDoneLeaves ==
    ASSUME NodeDone
    PROVE  epc' \in {"look", "idle"} /\ hit' = NoId /\ who' \in {who, NoLease}
  BY DEF NodeDone, RunEnds

LEMMA PutStep == ASSUME Inv, Put PROVE Inv'
<1> USE DEF Inv
<1>1. NewId \in Ids /\ NewId \notin Known
  BY DEF Put, NewId
<1>2. /\ Replace(Expiring \cup Orphans, {NewId}, Node) /\ hit' = NewId
      /\ epc' = "keep" /\ who' = who /\ StoreSweep
  BY DEF Put, Goto
<1>3. \A l \in Leases : NewId \notin handed[l]
  BY <1>1 DEF Known
<1>4. open' = open \ Asked /\ Lose(Expiring, Asked)
  BY <1>2 DEF StoreSweep, Drop, Strip
<1>5. owner' \in [Ids -> Leases \cup {NoLease}]
  BY <1>2 DEF Replace, Kinds
<1>6. \A i \in Ids : owner'[i] = IF i = NewId THEN who
                                 ELSE IF i \in Expiring \cup Orphans THEN NoLease ELSE owner[i]
  BY <1>2, ReplaceOwner
<1>7. ASSUME NEW l \in Leases, NEW i \in handed'[l] \ borrowed'[l]
      PROVE  owner'[i] = l
  <2>1. l \notin Asked /\ i \in handed[l] \ borrowed[l] /\ i \notin Expiring
    BY <1>4, <1>7 DEF Lose, Kinds
  <2>2. i \in Ids /\ owner[i] = l /\ l \in open /\ i # NewId
    BY <1>3, <2>1 DEF Owned, Kinds
  <2>3. i \notin Orphans
    BY <2>1, <2>2, OrphansEnded
  <2> QED BY <1>6, <2>1, <2>2, <2>3
<1>8. \A l \in Leases : l \notin open' => handed'[l] = {}
  BY <1>4 DEF Lose, Owned
<1>9. Kinds'
  BY <1>1, <1>2, <1>4, <1>5 DEF Kinds, Lose
<1>10. JustPut'
  BY <1>1, <1>2, <1>6 DEF JustPut
<1> QED BY <1>7, <1>8, <1>9, <1>10 DEF Owned

LEMMA EngineStep == ASSUME Inv, Engine PROVE Inv'
<1> USE DEF Inv
<1>1. CASE LookHit \/ LookMiss
  <2>1. Quiet /\ epc' # "keep" /\ who' = who
    BY <1>1 DEF LookHit, LookMiss, Goto, TouchExisting, storeVars, histVars, Quiet
  <2>2. hit' \in Ids \cup {NoId}
    BY <1>1 DEF LookHit, LookMiss, Valid, Stored, Kinds
  <2> QED BY <2>1, <2>2, QuietOwned DEF Quiet, JustPut, Kinds
<1>2. CASE Fetch
  <2>1. /\ hit \in Ids /\ Give(hit, IF owner[hit] = who THEN {} ELSE {hit})
        /\ UNCHANGED <<open, owner>>
    BY <1>2 DEF Fetch, Stored, bookVars, storeVars
  <2>2. Owned' /\ handed' \in [Leases -> SUBSET Ids] /\ borrowed' \in [Leases -> SUBSET Ids]
    <3>1. CASE owner[hit] = who
      BY <2>1, <3>1, GiveOwned
    <3>2. CASE owner[hit] # who
      BY <2>1, <3>2, GiveOwned
    <3> QED BY <3>1, <3>2
  <2> QED BY <1>2, <2>1, <2>2, NodeDoneLeaves DEF Fetch, JustPut, Kinds
<1>3. CASE FetchFails \/ RunFails
  <2>1. Quiet /\ epc' = "idle" /\ who' = NoLease /\ hit' = NoId
    BY <1>3 DEF FetchFails, RunFails, RunEnds, Quiet, bookVars, storeVars, histVars
  <2> QED BY <2>1, QuietOwned DEF Quiet, JustPut, Kinds
<1>4. CASE Run
  <2>1. Quiet /\ epc' = "put" /\ UNCHANGED <<who, hit>>
    BY <1>4 DEF Run, Goto, Touch, Quiet, bookVars, storeVars, histVars
  <2> QED BY <2>1, QuietOwned DEF Quiet, JustPut, Kinds
<1>5. CASE Keep
  <2>1. /\ epc' # "keep" /\ who' \in {who, NoLease} /\ hit' = NoId
        /\ UNCHANGED <<open, owner>>
    BY <1>5, NodeDoneLeaves DEF Keep, bookVars, storeVars
  <2>2. Owned' /\ handed' \in [Leases -> SUBSET Ids] /\ borrowed' \in [Leases -> SUBSET Ids]
    <3>1. CASE hit \in Stored
      <4>1. hit \in Ids /\ owner[hit] = who /\ Give(hit, {})
        BY <1>5, <3>1 DEF Keep, JustPut, Stored
      <4> QED BY <2>1, <4>1, GiveOwned
    <3>2. CASE hit \notin Stored
      BY <1>5, <2>1, <3>2, QuietOwned DEF Keep, histVars, Quiet, Kinds
    <3> QED BY <3>1, <3>2
  <2> QED BY <2>1, <2>2 DEF JustPut, Kinds
<1> QED BY <1>1, <1>2, <1>3, <1>4, <1>5, PutStep DEF Engine

LEMMA OtherStep ==
    ASSUME Inv,
           \/ \E l \in Leases : Submit(l) \/ Poll(l) \/ Begin(l) \/ ReleaseLease(l)
           \/ OtherPut \/ (\E n \in Loaders : ModelGoes(n))
           \/ GcCache \/ GcStore \/ Reclaim \/ Sweeper \/ Tick \/ UNCHANGED vars
    PROVE  Inv'
<1> USE DEF Inv
<1>1. ASSUME NEW l \in Leases, Begin(l) PROVE Inv'
  <2>1. Quiet /\ epc' = "look" /\ who' = l /\ hit' = hit
    BY <1>1 DEF Begin, Quiet, bookVars, storeVars, histVars
  <2> QED BY <2>1, QuietOwned DEF Quiet, JustPut, Kinds
<1>2. ASSUME Quiet, UNCHANGED <<epc, who, hit>> PROVE Inv'
  BY <1>2, QuietOwned DEF Quiet, JustPut, Stored, Kinds
<1>3. ASSUME NEW l \in Leases, Submit(l) \/ Poll(l) PROVE Inv'
  BY <1>2, <1>3 DEF Submit, Poll, Touch, Quiet, storeVars, runVars, histVars
<1>4. CASE GcCache \/ ReclaimClear \/ Tick \/ UNCHANGED vars
  BY <1>2, <1>4 DEF GcCache, ReclaimClear, Tick, Elapse, vars, Quiet, bookVars, storeVars,
     runVars, histVars
<1>5. ASSUME NEW gone, Discard(gone), UNCHANGED runVars
      PROVE  owner' \in [Ids -> Leases \cup {NoLease}] /\ JustPut'
  <2>1. owner' \in [Ids -> Leases \cup {NoLease}]
    BY <1>5 DEF Discard, Replace, Kinds
  <2>2. \A i \in Ids : owner'[i] \in {owner[i], NoLease}
    BY <1>5, ReplaceOwner DEF Discard
  <2> QED BY <1>5, <2>1, <2>2, JustPutStays DEF runVars
<1>6. ASSUME NEW lost, NEW gone, Lose(lost, gone)
      PROVE  handed' \in [Leases -> SUBSET Ids] /\ borrowed' \in [Leases -> SUBSET Ids]
  BY <1>6 DEF Lose, Kinds
<1>7. CASE OtherPut \/ ReclaimSweep
  <2>1. Discard(Expiring \cup Orphans) /\ StoreSweep /\ UNCHANGED runVars
    BY <1>7 DEF OtherPut, ReclaimSweep
  <2>2. Lose(Expiring, Asked)
    BY <2>1 DEF StoreSweep
  <2> QED BY <1>5, <1>6, <2>1, <2>2, SweepGoes DEF Kinds, runVars
<1>8. ASSUME NEW lost, Discard(lost), Lose(lost, {}), UNCHANGED <<bookVars, runVars>>
      PROVE  Inv'
  <2>1. Goes(lost, {})
    BY <1>8, ReplaceOwner DEF Discard, Goes, bookVars
  <2> QED BY <1>5, <1>6, <1>8, <2>1, GoesOwned DEF Kinds, runVars
<1>9. ASSUME NEW n \in Loaders, ModelGoes(n) PROVE Inv'
  BY <1>8, <1>9 DEF ModelGoes
<1>10. CASE GcStore
  BY <1>8, <1>10 DEF GcStore
<1>11. ASSUME NEW gone, Drop(gone), Lose({}, gone), UNCHANGED <<storeVars, runVars>>
       PROVE  Inv'
  <2>1. Goes({}, gone)
    BY <1>11 DEF Goes, Drop, Strip, storeVars
  <2>2. JustPut'
    BY <1>11 DEF JustPut, Stored, storeVars, runVars
  <2> QED BY <1>6, <1>11, <2>1, <2>2, GoesOwned DEF Kinds, storeVars, runVars
<1>12. CASE ReclaimCheck
  BY <1>11, <1>12 DEF ReclaimCheck
<1>13. CASE Sweeper
  BY <1>11, <1>13 DEF Sweeper, Sweep
<1>14. ASSUME NEW l \in Leases, ReleaseLease(l) PROVE Inv'
  BY <1>11, <1>14 DEF ReleaseLease, Release
<1> QED BY <1>1, <1>3, <1>4, <1>7, <1>9, <1>10, <1>12, <1>13, <1>14 DEF Reclaim

-----------------------------------------------------------------------------
\* As long as its lease is registered, an execution finds what it has made and
\* was told of in the store, for any executions, graphs and limits, whoever
\* sweeps the store or the register meanwhile.
THEOREM OwnObjectsAreKept == Spec => []OwnObjectsStay
<1>1. Init => Inv
  BY NoneAssumption DEF Init, BookInit, Inv, Kinds, JustPut, Owned
<1>2. Inv /\ [Next]_vars => Inv'
  BY EngineStep, OtherStep DEF Next
<1>3. Inv => OwnObjectsStay
  BY NoneAssumption DEF Inv, Owned, Kinds, OwnObjectsStay, Stored
<1> QED BY <1>1, <1>2, <1>3, PTL DEF Spec
================================================================================
