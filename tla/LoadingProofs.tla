---------------------------- MODULE LoadingProofs ----------------------------
(***************************************************************************)
(* Proofs about Loading, for any files, requests, sizes, cards and limits. *)
(*                                                                         *)
(* What the loop of plan_eviction has after each candidate is shown to be  *)
(* a shortest prefix by induction over numbers, from the finiteness of     *)
(* intervals; the same way the list comprehensions are shown to keep       *)
(* their order and to take what they should.  Sums of sizes are numbers of *)
(* units, so that facts about them are facts about finite sets.            *)
(*                                                                         *)
(* Inv is inductive: Books (the residents, once each, with their entries), *)
(* Holds (leases, views and pins name residents) and Limits (the knobs).   *)
(* Tells adds to KeyTellsKnobs that a model that is on the card has there  *)
(* what the books claim for it: without it nothing bounds what the card    *)
(* holds by what the books say.                                            *)
(***************************************************************************)
EXTENDS Loading, FiniteSetTheorems, TLAPS

-----------------------------------------------------------------------------
(* Induction over numbers, and functions defined by recursion. *)

\* If m were not in S, adding 1 would map the part of S up to m into itself, an
\* injection of a finite set that misses 0.
LEMMA SetInduction ==
    ASSUME NEW S, S \subseteq Nat, 0 \in S, \A n \in S : n + 1 \in S
    PROVE  S = Nat
<1> SUFFICES ASSUME NEW m \in Nat, m \notin S PROVE FALSE
  OBVIOUS
<1> DEFINE T == S \cap (0 .. m)
           next == [n \in T |-> n + 1]
<1>1. IsFiniteSet(0 .. m)
  BY FS_Interval
<1>2. IsFiniteSet(T)
  BY <1>1, FS_Subset
<1>3. \A n \in T : n + 1 \in T /\ n \in Nat
  OBVIOUS
<1>4. 0 \in T
  OBVIOUS
<1> HIDE DEF T
<1>5. next \in Injection(T, T)
  BY <1>3 DEF Injection, IsInjective
<1>6. next \in Surjection(T, T)
  BY <1>2, <1>5, FS_Injection
<1>7. \E n \in T : next[n] = 0
  BY <1>4, <1>6 DEF Surjection
<1> QED BY <1>3, <1>7

\* What holds at first and is kept by every step holds after each.
LEMMA Preserved ==
    ASSUME NEW n \in Nat, NEW D, NEW t, t[0] \in D,
           \A i \in 1 .. n : t[i - 1] \in D => t[i] \in D
    PROVE  \A i \in 0 .. n : t[i] \in D
<1> DEFINE P == {i \in Nat : i <= n => t[i] \in D}
<1>1. 0 \in P /\ P \subseteq Nat
  OBVIOUS
<1>2. ASSUME NEW i \in P PROVE i + 1 \in P
  <2> SUFFICES ASSUME i + 1 <= n PROVE t[i + 1] \in D
    OBVIOUS
  <2>1. i + 1 \in 1 .. n /\ (i + 1) - 1 = i /\ t[i] \in D
    OBVIOUS
  <2> QED BY <2>1
<1>3. P = Nat
  <2> HIDE DEF P
  <2> QED BY <1>1, <1>2, SetInduction
<1> QED BY <1>3

\* g says where a run that begins with base is after each of n steps.
IsRun(g, n, D, base, step) ==
    /\ g \in [0 .. n -> D] /\ g[0] = base
    /\ \A i \in 1 .. n : g[i] = step[<<i, g[i - 1]>>]

\* There is one: a function by recursion is what its equation says.
LEMMA Runs ==
    ASSUME NEW n \in Nat, NEW D, NEW base \in D, NEW step \in [(1 .. n) \X D -> D]
    PROVE  \E g : IsRun(g, n, D, base, step)
<1> DEFINE Ok(g, m) == g[0] = base /\ \A i \in 1 .. m : g[i] = step[<<i, g[i - 1]>>]
           P == {m \in Nat : m <= n => \E g \in [0 .. m -> D] : Ok(g, m)}
<1>1. 0 \in P
  <2>1. [i \in 0 .. 0 |-> base] \in [0 .. 0 -> D] /\ Ok([i \in 0 .. 0 |-> base], 0)
    OBVIOUS
  <2> QED BY <2>1
<1>2. ASSUME NEW m \in P PROVE m + 1 \in P
  <2> SUFFICES ASSUME m + 1 <= n PROVE \E h \in [0 .. m + 1 -> D] : Ok(h, m + 1)
    OBVIOUS
  <2>1. PICK g \in [0 .. m -> D] : Ok(g, m)
    OBVIOUS
  <2> DEFINE h == [i \in 0 .. m + 1 |-> IF i <= m THEN g[i] ELSE step[<<m + 1, g[m]>>]]
  <2>2. step[<<m + 1, g[m]>>] \in D
    OBVIOUS
  <2>3. h \in [0 .. m + 1 -> D]
    BY <2>2
  <2>4. h[0] = base
    BY <2>1
  <2>5. \A i \in 1 .. m + 1 : h[i - 1] = g[i - 1] /\ i - 1 <= m
    OBVIOUS
  <2>6. \A i \in 1 .. m : h[i] = g[i]
    OBVIOUS
  <2>7. h[m + 1] = step[<<m + 1, g[m]>>]
    OBVIOUS
  <2> HIDE DEF h
  <2>8. \A i \in 1 .. m + 1 : h[i] = step[<<i, h[i - 1]>>]
    <3> TAKE i \in 1 .. m + 1
    <3>1. CASE i = m + 1
      <4>1. h[i] = step[<<m + 1, g[m]>>] /\ h[m] = g[m] /\ i - 1 = m
        BY <2>5, <2>7, <3>1
      <4> QED BY <3>1, <4>1
    <3>2. CASE i \in 1 .. m
      BY <2>1, <2>5, <2>6, <3>2
    <3> QED BY <3>1, <3>2
  <2> QED BY <2>3, <2>4, <2>8
<1>3. P = Nat
  <2>1. P \subseteq Nat
    OBVIOUS
  <2> HIDE DEF P
  <2> QED BY <1>1, <1>2, <2>1, SetInduction
<1>4. n \in P
  <2> HIDE DEF P
  <2> QED BY <1>3
<1> QED BY <1>4 DEF IsRun

-----------------------------------------------------------------------------
(* The list comprehension, and the turns of the loop. *)

\* No element twice.
Distinct(s) == \A i, j \in 1 .. Len(s) : s[i] = s[j] => i = j

\* Append, of what was not there.
LEMMA AppendIs ==
    ASSUME NEW N, NEW s \in Seq(N), NEW x \in N
    PROVE  /\ Append(s, x) \in Seq(N) /\ ToSet(Append(s, x)) = ToSet(s) \cup {x}
           /\ Len(Append(s, x)) = Len(s) + 1 /\ Append(s, x)[Len(s) + 1] = x
           /\ \A i \in 1 .. Len(s) : Append(s, x)[i] = s[i]
           /\ Distinct(s) /\ x \notin ToSet(s) => Distinct(Append(s, x))
<1> DEFINE t == Append(s, x)
<1>1. /\ t \in Seq(N) /\ Len(t) = Len(s) + 1 /\ Len(s) \in Nat
      /\ \A i \in 1 .. Len(s) : t[i] = s[i]
      /\ t[Len(s) + 1] = x
  OBVIOUS
<1> HIDE DEF t
<1>2. DOMAIN t = 1 .. Len(s) + 1 /\ DOMAIN s = 1 .. Len(s)
  BY <1>1
<1>3. 1 .. Len(s) + 1 = (1 .. Len(s)) \cup {Len(s) + 1}
  BY <1>1
<1>4. ToSet(t) = ToSet(s) \cup {x}
  BY <1>1, <1>2, <1>3 DEF ToSet
<1>5. Distinct(s) /\ x \notin ToSet(s) => Distinct(t)
  BY <1>1, <1>2, <1>3 DEF ToSet, Distinct
<1> QED BY <1>1, <1>4, <1>5 DEF t

\* t holds the values of taken, in Only.
IsTaken(t, s, S, N) ==
    /\ t \in [0 .. Len(s) -> Seq(N)] /\ Only(s, S) = t[Len(s)] /\ t[0] = <<>>
    /\ \A i \in 1 .. Len(s) :
           t[i] = IF s[i] \in S THEN Append(t[i - 1], s[i]) ELSE t[i - 1]

\* taken is what its equation says.
LEMMA TakenIs ==
    ASSUME NEW N, NEW s \in Seq(N), NEW S
    PROVE  \E t : IsTaken(t, s, S, N)
<1> DEFINE n == Len(s)
           D == Seq(N)
           none == <<>>
           on(i, x) == IF s[i] \in S THEN Append(x, s[i]) ELSE x
           next(g, i) == IF i = 0 THEN none ELSE on(i, g[i - 1])
           step == [p \in (1 .. n) \X D |-> on(p[1], p[2])]
           t == CHOOSE g : g = [i \in 0 .. n |-> next(g, i)]
<1>1. n \in Nat /\ none \in D
  OBVIOUS
<1>2. \A i \in 1 .. n, x \in D : on(i, x) \in D
  OBVIOUS
<1>3. Only(s, S) = t[n]
  BY DEF Only
<1> HIDE DEF n, D, none, on, t
<1>4. step \in [(1 .. n) \X D -> D]
  BY <1>2
<1>5. \A i \in 1 .. n, x \in D : step[<<i, x>>] = on(i, x)
  OBVIOUS
<1> HIDE DEF step
<1>6. PICK g : IsRun(g, n, D, none, step)
  BY <1>1, <1>4, Runs
<1>7. /\ g \in [0 .. n -> D] /\ g[0] = none
      /\ \A i \in 1 .. n : g[i] = step[<<i, g[i - 1]>>]
  BY <1>6 DEF IsRun
<1>8. \A i \in 1 .. n : i - 1 \in 0 .. n /\ g[i] = on(i, g[i - 1])
  <2> TAKE i \in 1 .. n
  <2>1. i - 1 \in 0 .. n
    BY <1>1
  <2> QED BY <1>5, <1>7, <2>1
<1>9. \A i \in 0 .. n : g[i] = next(g, i)
  BY <1>1, <1>7, <1>8
<1> HIDE DEF next
<1>10. g = [i \in 0 .. n |-> next(g, i)]
  BY <1>7, <1>9
<1>11. t = [i \in 0 .. n |-> next(t, i)]
  BY <1>10 DEF t
<1>12. /\ \A i \in 0 .. n : t[i] = next(t, i)
      /\ t \in [0 .. n -> {next(t, i) : i \in 0 .. n}]
  BY <1>11
<1>13. t[0] = none /\ \A i \in 1 .. n : t[i] = on(i, t[i - 1])
  <2>1. 0 \in 0 .. n /\ \A i \in 1 .. n : i \in 0 .. n /\ i # 0
    BY <1>1
  <2>2. t[0] = none
    BY <1>12, <2>1 DEF next
  <2>3. ASSUME NEW i \in 1 .. n PROVE t[i] = on(i, t[i - 1])
    <3>1. t[i] = next(t, i)
      BY <1>12, <2>1
    <3> QED BY <2>1, <3>1 DEF next
  <2> QED BY <2>2, <2>3
<1>14. \A i \in 0 .. n : t[i] \in D
  <2>1. \A i \in 1 .. n : t[i - 1] \in D => t[i] \in D
    BY <1>2, <1>13
  <2>2. t[0] \in D
    BY <1>1, <1>13
  <2> QED BY <1>1, <2>1, <2>2, Preserved
<1>15. t \in [0 .. n -> D]
  BY <1>12, <1>14
<1> QED BY <1>3, <1>13, <1>15 DEF n, D, none, on, IsTaken

\* The elements of s that are in S, once each if they are in s.
LEMMA OnlyIs ==
    ASSUME NEW N, NEW s \in Seq(N), NEW S
    PROVE  /\ Only(s, S) \in Seq(N) /\ ToSet(Only(s, S)) = ToSet(s) \cap S
           /\ Distinct(s) => Distinct(Only(s, S))
<1>1. PICK t : IsTaken(t, s, S, N)
  BY TakenIs
<1>2. /\ Only(s, S) = t[Len(s)] /\ t[0] = <<>>
      /\ \A i \in 1 .. Len(s) :
             t[i] = IF s[i] \in S THEN Append(t[i - 1], s[i]) ELSE t[i - 1]
  BY <1>1 DEF IsTaken
<1>3. Len(s) \in Nat /\ DOMAIN s = 1 .. Len(s) /\ \A i \in 1 .. Len(s) : s[i] \in N
  OBVIOUS
<1> DEFINE Good(q, i) ==
               /\ q \in Seq(N) /\ ToSet(q) = {s[j] : j \in 1 .. i} \cap S
               /\ Distinct(s) => Distinct(q)
           P == {i \in Nat : i <= Len(s) => Good(t[i], i)}
<1>4. 0 \in P
  <2>1. Len(<<>>) = 0 /\ DOMAIN <<>> = {} /\ <<>> \in Seq(N)
    OBVIOUS
  <2>2. ToSet(<<>>) = {} /\ Distinct(<<>>)
    BY <2>1 DEF ToSet, Distinct
  <2>3. {s[j] : j \in 1 .. 0} = {}
    OBVIOUS
  <2>4. Good(<<>>, 0)
    BY <2>1, <2>2, <2>3
  <2> HIDE DEF Good
  <2> QED BY <1>2, <2>4
<1>5. ASSUME NEW i \in P PROVE i + 1 \in P
  <2> SUFFICES ASSUME i + 1 <= Len(s) PROVE Good(t[i + 1], i + 1)
    OBVIOUS
  <2>1. /\ i \in Nat /\ i + 1 \in 1 .. Len(s) /\ (i + 1) - 1 = i /\ Good(t[i], i)
        /\ 1 .. i + 1 = (1 .. i) \cup {i + 1}
    BY <1>3
  <2> DEFINE q == t[i]
             x == s[i + 1]
  <2>2. x \in N /\ t[i + 1] = IF x \in S THEN Append(q, x) ELSE q
    BY <1>2, <1>3, <2>1
  <2>3. {s[j] : j \in 1 .. i + 1} = {s[j] : j \in 1 .. i} \cup {x}
    BY <2>1
  <2>4. q \in Seq(N) /\ ToSet(q) = {s[j] : j \in 1 .. i} \cap S /\ (Distinct(s) => Distinct(q))
    BY <2>1
  <2>5. Distinct(s) => x \notin {s[j] : j \in 1 .. i}
    BY <1>3, <2>1 DEF Distinct
  <2> HIDE DEF q, x
  <2>6. CASE x \in S
    <3>1. /\ Append(q, x) \in Seq(N) /\ ToSet(Append(q, x)) = ToSet(q) \cup {x}
          /\ Distinct(q) /\ x \notin ToSet(q) => Distinct(Append(q, x))
      BY <2>2, <2>4, AppendIs
    <3> QED BY <2>2, <2>3, <2>4, <2>5, <2>6, <3>1
  <2>7. CASE x \notin S
    BY <2>2, <2>3, <2>4, <2>7
  <2> QED BY <2>6, <2>7
<1> HIDE DEF Good
<1>6. P = Nat
  <2>1. P \subseteq Nat
    OBVIOUS
  <2> HIDE DEF P
  <2> QED BY <1>4, <1>5, <2>1, SetInduction
<1>7. Good(t[Len(s)], Len(s))
  <2>1. Len(s) \in P
    <3> HIDE DEF P
    <3> QED BY <1>3, <1>6
  <2> QED BY <1>3, <2>1
<1>8. ToSet(s) = {s[j] : j \in 1 .. Len(s)}
  BY <1>3 DEF ToSet
<1> QED BY <1>2, <1>7, <1>8 DEF Good

-----------------------------------------------------------------------------
(* Sums. *)

\* What Total counts.
Units(J, size) == UNION {{j} \X (1 .. size[j]) : j \in J}

LEMMA UnitsFinite ==
    ASSUME NEW J, IsFiniteSet(J), NEW size, \A j \in J : size[j] \in Nat
    PROVE  IsFiniteSet(Units(J, size)) /\ Total(J, size) \in Nat
  <1> DEFINE of == [j \in J |-> {j} \X (1 .. size[j])]
             U == {{j} \X (1 .. size[j]) : j \in J}
  <1>1. of \in Surjection(J, U)
    BY DEF Surjection
  <1>2. IsFiniteSet(U)
    BY <1>1, FS_Surjection
  <1>3. ASSUME NEW j \in J PROVE IsFiniteSet({j} \X (1 .. size[j]))
    <2>1. IsFiniteSet({j})
      BY FS_Singleton, Zenon
    <2>2. 1 \in Int /\ size[j] \in Int
      OBVIOUS
    <2>3. IsFiniteSet(1 .. size[j])
      BY <2>2, FS_Interval, Zenon
    <2> QED
      BY <2>1, <2>3, FS_Product, Zenon
  <1>4. \A T \in U : IsFiniteSet(T)
    BY <1>3
  <1>5. IsFiniteSet(UNION U)
    BY <1>2, <1>4, FS_UNION
  <1> QED
    BY <1>5, FS_CardinalityType DEF Units, Total

\* The sum over one element.
LEMMA TotalOne ==
    ASSUME NEW j, NEW size, size[j] \in Nat
    PROVE  Total({j}, size) = size[j]
  <1>1. Units({j}, size) = {j} \X (1 .. size[j])
    BY DEF Units
  <1>2. Cardinality({j}) = 1 /\ IsFiniteSet({j})
    BY FS_Singleton
  <1>3. Cardinality(1 .. size[j]) = size[j] /\ IsFiniteSet(1 .. size[j])
    BY FS_Interval
  <1>4. Cardinality({j} \X (1 .. size[j])) = 1 * size[j]
    <2>1. Cardinality({j} \X (1 .. size[j])) = Cardinality({j}) * Cardinality(1 .. size[j])
      BY <1>2, <1>3, FS_Product, Zenon
    <2> QED
      BY <2>1, <1>2, <1>3
  <1> QED
    BY <1>1, <1>4 DEF Total, Units

\* Sums over disjoint sets add up.
LEMMA TotalUnion ==
    ASSUME NEW J, NEW K, IsFiniteSet(J), IsFiniteSet(K), J \cap K = {},
           NEW size, \A j \in J \cup K : size[j] \in Nat
    PROVE  Total(J \cup K, size) = Total(J, size) + Total(K, size)
  <1>1. Units(J \cup K, size) = Units(J, size) \cup Units(K, size)
    BY DEF Units
  <1>2. Units(J, size) \cap Units(K, size) = {}
    BY DEF Units
  <1>3. IsFiniteSet(Units(J, size)) /\ IsFiniteSet(Units(K, size))
    BY UnitsFinite
  <1>4. /\ Cardinality(Units(J, size)) \in Nat /\ Cardinality(Units(K, size)) \in Nat
        /\ Cardinality({}) = 0
    BY <1>3, FS_CardinalityType, FS_EmptySet
  <1>5. Cardinality(Units(J, size) \cup Units(K, size)) =
        Cardinality(Units(J, size)) + Cardinality(Units(K, size))
          - Cardinality(Units(J, size) \cap Units(K, size))
    BY <1>3, FS_Union, Zenon
  <1>6. Cardinality(Units(J \cup K, size)) =
        Cardinality(Units(J, size)) + Cardinality(Units(K, size)) - Cardinality({})
    BY <1>1, <1>2, <1>5, Zenon
  <1>7. Cardinality(Units(J \cup K, size)) =
        Cardinality(Units(J, size)) + Cardinality(Units(K, size))
    BY <1>4, <1>6
  <1> QED
    BY <1>7, Zenon DEF Total, Units

\* A sum over a smaller set is not larger.
LEMMA TotalSubset ==
    ASSUME NEW J, NEW K, IsFiniteSet(J), K \subseteq J,
           NEW size, \A j \in J : size[j] \in Nat
    PROVE  Total(K, size) <= Total(J, size)
  <1>1. Units(K, size) \subseteq Units(J, size)
    BY DEF Units
  <1>2. IsFiniteSet(Units(J, size))
    BY UnitsFinite
  <1> QED
    BY <1>1, <1>2, FS_Subset DEF Total, Units

LEMMA ImageFinite ==
    ASSUME NEW J, IsFiniteSet(J), NEW of
    PROVE  IsFiniteSet({of[j] : j \in J})
<1> DEFINE f == [j \in J |-> of[j]]
<1>1. f \in Surjection(J, {of[j] : j \in J})
  BY DEF Surjection
<1> QED BY <1>1, FS_Surjection

-----------------------------------------------------------------------------
(* plan_eviction. *)

\* The first n candidates.
First(c, n) == {c[i] : i \in 1 .. n}

\* t holds the plans after each candidate.
IsPlans(t, c, size, N, count, free, need, reserve, cap) ==
    /\ t \in [0 .. Len(c) -> [evicted : Seq(N), freed : Nat]]
    /\ plan_eviction(c, size, count, free, need, reserve, cap) = t[Len(c)].evicted
    /\ t[0] = [evicted |-> << >>, freed |-> 0]
    /\ \A i \in 1 .. Len(c) :
           t[i] = IF Enough(Len(t[i - 1].evicted), t[i - 1].freed,
                            count, free, need, reserve, cap)
                  THEN t[i - 1]
                  ELSE [evicted |-> Append(t[i - 1].evicted, c[i]),
                        freed |-> t[i - 1].freed + size[c[i]]]

\* The loop does what its equation says.
LEMMA PlansAre ==
    ASSUME NEW N, NEW c \in Seq(N), NEW size, \A k \in N : size[k] \in Nat,
           NEW count \in Int, NEW free \in Int, NEW need \in Int, NEW reserve \in Int,
           NEW cap \in Int
    PROVE  \E t : IsPlans(t, c, size, N, count, free, need, reserve, cap)
<1> DEFINE n == Len(c)
           D == [evicted : Seq(N), freed : Nat]
           base == [evicted |-> << >>, freed |-> 0]
           on(i, x) == IF Enough(Len(x.evicted), x.freed, count, free, need, reserve, cap)
                       THEN x
                       ELSE [evicted |-> Append(x.evicted, c[i]),
                             freed |-> x.freed + size[c[i]]]
           next(g, i) == IF i = 0 THEN base ELSE on(i, g[i - 1])
           step == [p \in (1 .. n) \X D |-> on(p[1], p[2])]
           t == CHOOSE g : g = [i \in 0 .. n |-> next(g, i)]
<1>1. n \in Nat /\ base \in D
  OBVIOUS
<1>2. \A i \in 1 .. n, x \in D : on(i, x) \in D
  <2> TAKE i \in 1 .. n, x \in D
  <2>1. c[i] \in N /\ size[c[i]] \in Nat
    OBVIOUS
  <2>2. Append(x.evicted, c[i]) \in Seq(N) /\ x.freed + size[c[i]] \in Nat
    BY <2>1
  <2> QED BY <2>2
<1>3. plan_eviction(c, size, count, free, need, reserve, cap) = t[n].evicted
  BY DEF plan_eviction, Plans
<1> HIDE DEF n, D, base, on, t
<1>4. step \in [(1 .. n) \X D -> D]
  BY <1>2
<1>5. \A i \in 1 .. n, x \in D : step[<<i, x>>] = on(i, x)
  OBVIOUS
<1> HIDE DEF step
<1>6. PICK g : IsRun(g, n, D, base, step)
  BY <1>1, <1>4, Runs
<1>7. /\ g \in [0 .. n -> D] /\ g[0] = base
      /\ \A i \in 1 .. n : g[i] = step[<<i, g[i - 1]>>]
  BY <1>6 DEF IsRun
<1>8. \A i \in 1 .. n : i - 1 \in 0 .. n /\ g[i] = on(i, g[i - 1])
  <2> TAKE i \in 1 .. n
  <2>1. i - 1 \in 0 .. n
    BY <1>1
  <2> QED BY <1>5, <1>7, <2>1
<1>9. \A i \in 0 .. n : g[i] = next(g, i)
  BY <1>1, <1>7, <1>8
<1> HIDE DEF next
<1>10. g = [i \in 0 .. n |-> next(g, i)]
  BY <1>7, <1>9
<1>11. t = [i \in 0 .. n |-> next(t, i)]
  BY <1>10 DEF t
<1>12. /\ \A i \in 0 .. n : t[i] = next(t, i)
      /\ t \in [0 .. n -> {next(t, i) : i \in 0 .. n}]
  BY <1>11
<1>13. t[0] = base /\ \A i \in 1 .. n : t[i] = on(i, t[i - 1])
  <2>1. 0 \in 0 .. n /\ \A i \in 1 .. n : i \in 0 .. n /\ i # 0
    BY <1>1
  <2>2. t[0] = base
    BY <1>12, <2>1 DEF next
  <2>3. ASSUME NEW i \in 1 .. n PROVE t[i] = on(i, t[i - 1])
    <3>1. t[i] = next(t, i)
      BY <1>12, <2>1
    <3> QED BY <2>1, <3>1 DEF next
  <2> QED BY <2>2, <2>3
<1>14. \A i \in 0 .. n : t[i] \in D
  <2>1. \A i \in 1 .. n : t[i - 1] \in D => t[i] \in D
    BY <1>2, <1>13
  <2>2. t[0] \in D
    BY <1>1, <1>13
  <2> QED BY <1>1, <2>1, <2>2, Preserved
<1>15. t \in [0 .. n -> D]
  BY <1>12, <1>14
<1> QED BY <1>3, <1>13, <1>15 DEF n, D, base, on, IsPlans

\* A plan takes candidates from the front, stops as soon as there is enough,
\* and before that only when all are taken.
IsShortest(plan, c, size, N, count, free, need, reserve, cap) ==
    /\ plan \in Seq(N) /\ Len(plan) <= Len(c)
    /\ \A j \in 1 .. Len(plan) : plan[j] = c[j]
    /\ \A m \in 0 .. Len(plan) - 1 :
           ~Enough(m, Total(First(c, m), size), count, free, need, reserve, cap)
    /\ \/ Len(plan) = Len(c)
       \/ Enough(Len(plan), Total(First(c, Len(plan)), size), count, free, need, reserve, cap)

\* The plan is a shortest one: when the loop stops it stays, and what has been
\* freed is the sum over the plan.
LEMMA PlanIs ==
    ASSUME NEW N, NEW c \in Seq(N), Distinct(c), NEW size, \A k \in N : size[k] \in Nat,
           NEW count \in Int, NEW free \in Int, NEW need \in Int, NEW reserve \in Int,
           NEW cap \in Int
    PROVE  IsShortest(plan_eviction(c, size, count, free, need, reserve, cap),
                      c, size, N, count, free, need, reserve, cap)
<1> DEFINE plan == plan_eviction(c, size, count, free, need, reserve, cap)
<1> DEFINE Enuf(m, freed) == Enough(m, freed, count, free, need, reserve, cap)
           Good(p, i) ==
               /\ p \in [evicted : Seq(N), freed : Nat] /\ Len(p.evicted) <= i
               /\ \A j \in 1 .. Len(p.evicted) : p.evicted[j] = c[j]
               /\ p.freed = Total(First(c, Len(p.evicted)), size)
               /\ \A m \in 0 .. Len(p.evicted) - 1 : ~Enuf(m, Total(First(c, m), size))
               /\ Len(p.evicted) = i \/ Enuf(Len(p.evicted), p.freed)
<1>1. PICK t : IsPlans(t, c, size, N, count, free, need, reserve, cap)
  BY PlansAre
<1>2. /\ plan = t[Len(c)].evicted /\ t[0] = [evicted |-> << >>, freed |-> 0]
      /\ \A i \in 1 .. Len(c) :
             t[i] = IF Enuf(Len(t[i - 1].evicted), t[i - 1].freed) THEN t[i - 1]
                    ELSE [evicted |-> Append(t[i - 1].evicted, c[i]),
                          freed |-> t[i - 1].freed + size[c[i]]]
  BY <1>1 DEF IsPlans
<1>3. Len(c) \in Nat /\ \A i \in 1 .. Len(c) : c[i] \in N
  OBVIOUS
<1> HIDE DEF Enuf
<1> DEFINE P == {i \in Nat : i <= Len(c) => Good(t[i], i)}
<1>4. 0 \in P
  <2>1. t[0].evicted = << >> /\ t[0].freed = 0 /\ Len(<< >>) = 0
        /\ t[0] \in [evicted : Seq(N), freed : Nat]
    BY <1>2
  <2>2. First(c, 0) = {}
    <3>1. 1 .. 0 = {}
      OBVIOUS
    <3> QED BY <3>1 DEF First
  <2>3. Total({}, size) = 0
    <3>1. UNION {{j} \X (1 .. size[j]) : j \in {}} = {}
      OBVIOUS
    <3> QED BY <3>1, FS_EmptySet DEF Total
  <2>4. 0 .. 0 - 1 = {} /\ 1 .. 0 = {}
    OBVIOUS
  <2>5. t[0].freed = Total(First(c, Len(t[0].evicted)), size)
    BY <2>1, <2>2, <2>3
  <2>6. Len(t[0].evicted) = 0
    BY <2>1
  <2>7. Good(t[0], 0)
    BY <2>1, <2>4, <2>5, <2>6
  <2> HIDE DEF Good
  <2> QED BY <2>7
<1> HIDE DEF Good
<1>5. ASSUME NEW i \in P PROVE i + 1 \in P
  <2> SUFFICES ASSUME i + 1 <= Len(c) PROVE Good(t[i + 1], i + 1)
    OBVIOUS
  <2> DEFINE p == t[i]
             x == c[i + 1]
  <2>0. i \in Nat /\ Good(p, i)
    BY <1>3
  <2>1. /\ i \in Nat /\ i + 1 \in 1 .. Len(c) /\ (i + 1) - 1 = i
        /\ p \in [evicted : Seq(N), freed : Nat] /\ Len(p.evicted) <= i
        /\ \A j \in 1 .. Len(p.evicted) : p.evicted[j] = c[j]
        /\ p.freed = Total(First(c, Len(p.evicted)), size)
        /\ \A m \in 0 .. Len(p.evicted) - 1 : ~Enuf(m, Total(First(c, m), size))
        /\ Len(p.evicted) = i \/ Enuf(Len(p.evicted), p.freed)
    BY <1>3, <2>0 DEF Good
  <2>2. x \in N /\ size[x] \in Nat
    BY <1>3, <2>1
  <2>3. t[i + 1] = IF Enuf(Len(p.evicted), p.freed) THEN p
                   ELSE [evicted |-> Append(p.evicted, x), freed |-> p.freed + size[x]]
    BY <1>2, <2>1
  <2>4. Len(p.evicted) \in Nat
    BY <2>1
  <2>5. CASE Enuf(Len(p.evicted), p.freed)
    BY <2>1, <2>3, <2>4, <2>5 DEF Good
  <2>6. CASE ~Enuf(Len(p.evicted), p.freed)
    <3> DEFINE q == t[i + 1]
    <3>1. Len(p.evicted) = i
      BY <2>1, <2>6
    <3>2. q.evicted = Append(p.evicted, x) /\ q.freed = p.freed + size[x]
          /\ p.evicted \in Seq(N) /\ p.freed \in Nat
      BY <2>1, <2>3, <2>6
    <3>3. Len(q.evicted) = i + 1 /\ q.evicted \in Seq(N) /\ q.freed \in Nat
          /\ \A j \in 1 .. i + 1 : q.evicted[j] = IF j = i + 1 THEN x ELSE p.evicted[j]
      <4>1. /\ Append(p.evicted, x) \in Seq(N) /\ Len(Append(p.evicted, x)) = i + 1
            /\ Append(p.evicted, x)[i + 1] = x
            /\ \A j \in 1 .. i : Append(p.evicted, x)[j] = p.evicted[j]
        <5>1. x \in N /\ p.evicted \in Seq(N) /\ Len(p.evicted) = i
          BY <2>2, <3>1, <3>2
        <5> HIDE DEF x, p
        <5> QED BY <5>1, AppendIs
      <4>2. \A j \in 1 .. i + 1 : j = i + 1 \/ j \in 1 .. i
        BY <2>0
      <4>3. q.freed \in Nat
        <5>1. q.freed = p.freed + size[x] /\ size[x] \in Nat /\ p.freed \in Nat
          BY <2>2, <3>2
        <5> HIDE DEF q, x, p
        <5> QED BY <5>1
      <4> HIDE DEF q, x, p
      <4> QED BY <3>2, <4>1, <4>2, <4>3
    <3>4. q \in [evicted : Seq(N), freed : Nat]
      BY <2>3, <2>6, <3>2, <3>3
    <3>5. Total(First(c, i + 1), size) = Total(First(c, i), size) + size[x]
      <4>1. First(c, i + 1) = First(c, i) \cup {x}
        <5>1. 1 .. i + 1 = (1 .. i) \cup {i + 1}
          BY <2>1
        <5> QED BY <5>1 DEF First
      <4>2. First(c, i) \cap {x} = {}
        BY <1>3, <2>1 DEF First, Distinct
      <4>3. IsFiniteSet(First(c, i))
        <5>1. IsFiniteSet(1 .. i)
          <6>1. i \in Int /\ 1 \in Int
            BY <2>0
          <6> QED BY <6>1, FS_Interval, Zenon
        <5>2. First(c, i) = {c[j] : j \in 1 .. i}
          BY DEF First
        <5>3. IsFiniteSet({c[j] : j \in 1 .. i})
          BY <5>1, ImageFinite, Zenon
        <5> QED BY <5>2, <5>3, Zenon
      <4>4. IsFiniteSet({x}) /\ Total({x}, size) = size[x]
        BY <2>2, FS_Singleton, TotalOne
      <4>5. \A k \in First(c, i) \cup {x} : size[k] \in Nat
        BY <1>3, <2>1, <2>2 DEF First
      <4>6. Total(First(c, i) \cup {x}, size) = Total(First(c, i), size) + Total({x}, size)
        BY <4>2, <4>3, <4>4, <4>5, TotalUnion
      <4> QED BY <4>1, <4>4, <4>6
    <3>6. /\ \A j \in 1 .. i : p.evicted[j] = c[j]
          /\ p.freed = Total(First(c, i), size)
          /\ \A m \in 0 .. i - 1 : ~Enuf(m, Total(First(c, m), size))
      BY <2>1, <3>1
    <3>7. ~Enuf(i, Total(First(c, i), size))
      BY <2>6, <3>1, <3>6
    <3>8. \A m \in 0 .. i : ~Enuf(m, Total(First(c, m), size))
      BY <2>1, <3>6, <3>7
    <3>9. \A j \in 1 .. i + 1 : q.evicted[j] = c[j]
      BY <2>1, <3>3, <3>6
    <3> HIDE DEF q, x, p
    <3>10. i + 1 - 1 = i
      BY <2>1
    <3>11. Good(q, i + 1)
      BY <2>0, <3>2, <3>3, <3>4, <3>5, <3>6, <3>8, <3>9, <3>10 DEF Good
    <3> QED BY <3>11 DEF q
  <2> QED BY <2>5, <2>6
<1>6. P = Nat
  <2>1. P \subseteq Nat
    OBVIOUS
  <2> HIDE DEF P
  <2> QED BY <1>4, <1>5, <2>1, SetInduction
<1>7. Good(t[Len(c)], Len(c))
  <2>1. Len(c) \in P
    <3> HIDE DEF P
    <3> QED BY <1>3, <1>6
  <2> QED BY <1>3, <2>1
<1> QED BY <1>2, <1>7 DEF Good, Enuf, IsShortest

\* plan_eviction keeps its promise over lists of any length and any amounts.
THEOREM EveryPlanIsShortest ==
    ASSUME NEW n \in Nat, NEW amounts, amounts \subseteq Nat, NEW caps, caps \subseteq Int
    PROVE  PlanIsShortest(n, amounts, caps)
<1> SUFFICES ASSUME NEW many \in 0 .. n, NEW size \in [1 .. many -> amounts],
                    NEW others \in 0 .. 1, NEW free \in amounts, NEW need \in amounts,
                    NEW reserve \in amounts, NEW cap \in caps
             PROVE  LET enough(gone) == Enough(gone, Total(1 .. gone, size), many + others,
                                               free, need, reserve, cap)
                        plan == plan_eviction([i \in 1 .. many |-> i], size, many + others,
                                              free, need, reserve, cap)
                    IN  /\ plan = [i \in 1 .. Len(plan) |-> i]
                        /\ \A gone \in 0 .. Len(plan) - 1 : ~enough(gone)
                        /\ enough(Len(plan)) \/ Len(plan) = many
  BY DEF PlanIsShortest
<1> DEFINE plan == plan_eviction([i \in 1 .. many |-> i], size, many + others,
                                 free, need, reserve, cap)
<1> DEFINE c == [i \in 1 .. many |-> i]
<1>1. c \in Seq(1 .. many) /\ Len(c) = many /\ Distinct(c)
      /\ \A i \in 1 .. many : c[i] = i
  BY DEF Distinct
<1>2. \A k \in 1 .. many : size[k] \in Nat
  OBVIOUS
<1>3. many + others \in Int /\ free \in Int /\ need \in Int /\ reserve \in Int /\ cap \in Int
  OBVIOUS
<1> HIDE DEF c
<1>4. plan = plan_eviction(c, size, many + others, free, need, reserve, cap)
  BY DEF c
<1> HIDE DEF plan
<1>5. /\ plan \in Seq(1 .. many) /\ Len(plan) <= Len(c)
      /\ \A j \in 1 .. Len(plan) : plan[j] = c[j]
      /\ \A m \in 0 .. Len(plan) - 1 :
             ~Enough(m, Total(First(c, m), size), many + others, free, need, reserve, cap)
      /\ \/ Len(plan) = Len(c)
         \/ Enough(Len(plan), Total(First(c, Len(plan)), size),
                   many + others, free, need, reserve, cap)
  <2>1. IsShortest(plan_eviction(c, size, many + others, free, need, reserve, cap), c, size,
                   1 .. many, many + others, free, need, reserve, cap)
    BY <1>1, <1>2, <1>3, PlanIs
  <2> QED BY <1>4, <2>1 DEF IsShortest
<1>6. Len(plan) \in Nat /\ Len(plan) <= many
  BY <1>1, <1>5
<1>7. \A m \in 0 .. many : First(c, m) = 1 .. m
  <2> TAKE m \in 0 .. many
  <2>1. \A i \in 1 .. m : i \in 1 .. many
    OBVIOUS
  <2>2. {c[i] : i \in 1 .. m} = {i : i \in 1 .. m}
    BY <1>1, <2>1
  <2> QED BY <2>2 DEF First
<1>8. plan = [i \in 1 .. Len(plan) |-> i]
  <2>1. plan \in Seq(1 .. many)
    BY <1>5
  <2>2. plan = [i \in 1 .. Len(plan) |-> plan[i]]
    <3>1. DOMAIN plan = 1 .. Len(plan) /\ plan = [i \in DOMAIN plan |-> plan[i]]
      BY <2>1
    <3> QED BY <3>1
  <2>3. \A i \in 1 .. Len(plan) : i \in 1 .. many
    BY <1>6
  <2>4. \A i \in 1 .. Len(plan) : plan[i] = c[i]
    BY <1>5
  <2>5. \A i \in 1 .. Len(plan) : plan[i] = i
    BY <1>1, <2>3, <2>4
  <2> QED BY <2>2, <2>5
<1>9. Len(plan) \in 0 .. many /\ \A m \in 0 .. Len(plan) - 1 : m \in 0 .. many
  BY <1>6
<1>10. \A m \in 0 .. Len(plan) - 1 :
           ~Enough(m, Total(1 .. m, size), many + others, free, need, reserve, cap)
  BY <1>5, <1>7, <1>9
<1>11. \/ Len(plan) = many
       \/ Enough(Len(plan), Total(1 .. Len(plan), size), many + others,
                 free, need, reserve, cap)
  BY <1>1, <1>5, <1>7, <1>9
<1> QED BY <1>8, <1>10, <1>11 DEF plan

-----------------------------------------------------------------------------
(* The list of the files. *)

\* A file of which a rule asks nothing has only keys that no rule knows.
LEMMA KindIsLoaded ==
    ASSUME NEW keySets, keySets \subseteq SUBSET KeyPrefixes,
           NEW e \in Entries({"a"}, keySets),
           Offered(e), ~Unknown(e), e.form \notin Capitals
    PROVE  Loads(e, Classified(e))
<1>1. e.form \in Directories \cup SmallEndings /\ lower(e.form) = e.form
  BY DEF Entries, Endings, Directories, SmallEndings, Capitals, lower
<1> USE <1>1 DEF Offered
<1>2. CASE e.form = "pipeline"
  <2>1. Classified(e) = "checkpoint" /\ sniff_arch(e) = e.cls /\ e.cls # "none"
    BY <1>2 DEF Classified, sniff_arch, Unknown
  <2>2. e.cls \in {"none", "AutoencoderKL", "ControlNetModel", "Other"}
    BY DEF Entries
  <2> QED BY <2>1, <2>2 DEF Loads
<1>3. CASE e.form = "component"
  <2>1. Classified(e) \in {"vae", "controlnet"} => Classified(e) = sniff_component(e)
    BY <1>3 DEF Classified, sniff_component
  <2>2. Classified(e) # "checkpoint"
    BY <1>3 DEF Classified, sniff_component
  <2> QED BY <2>1, <2>2 DEF Loads
<1>4. CASE e.form = ".ckpt"
  <2>1. Classified(e) = "checkpoint" /\ sniff_arch(e) # "refused"
    BY <1>4 DEF Classified, sniff_component, sniff_arch, SD15
  <2> QED BY <2>1 DEF Loads
<1>5. CASE e.form = ".safetensors"
  <2>1. /\ Classified(e) \in {"vae", "controlnet"} => Classified(e) = sniff_component(e)
        /\ Classified(e) = "checkpoint" => sniff_component(e) \in {"whole", "refused"}
    BY <1>5 DEF Classified, sniff_component
  <2>2. ASSUME sniff_component(e) = "whole" PROVE sniff_arch(e) # "refused"
    <3>1. has(e, Whole)
      BY <1>5, <2>2 DEF sniff_component
    <3> QED BY <1>5, <3>1 DEF sniff_arch, has, Whole, Original, SD15, SDXL
  <2>3. ASSUME sniff_component(e) = "refused" PROVE sniff_arch(e) # "refused"
    <3>1. ~has(e, Whole) /\ ~has(e, OfNet) /\ ~has(e, OfVae)
      BY <1>5, <2>3 DEF sniff_component
    <3>2. e.keys \subseteq KeyPrefixes
      BY DEF Entries
    <3>3. ~ e.keys \subseteq {"other"}
      BY <1>5 DEF Unknown
    <3>4. PICK x \in e.keys : x # "other"
      BY <3>3
    <3>5. x \in {"first_stage_model.", "text_encoder_2.", "vae."}
      BY <3>1, <3>2, <3>4 DEF has, Whole, OfNet, OfVae, KeyPrefixes
    <3> QED BY <1>5, <3>5 DEF sniff_arch, has, Original, FirstStage, SD15, SDXL
  <2> QED BY <2>1, <2>2, <2>3 DEF Loads
<1>6. CASE e.form \in {"folder", ".pth", ".txt"}
  BY <1>6 DEF Classified
<1> QED BY <1>1, <1>2, <1>3, <1>4, <1>5, <1>6 DEF Directories, SmallEndings

\* A layout that is unknown to one set of rules is unknown to the other.
LEMMA KindIsRefused ==
    ASSUME NEW keySets, NEW e \in Entries({"a"}, keySets),
           Offered(e), Unknown(e) \/ e.form \in Capitals
    PROVE  ~Loads(e, Classified(e))
<1>1. CASE e.form \in Capitals
  <2>1. sniff_component(e) = "refused" /\ sniff_arch(e) = "refused"
    BY <1>1 DEF Capitals, sniff_component, sniff_arch
  <2>2. Classified(e) = "checkpoint"
    BY <1>1, <2>1 DEF Classified, Offered, Capitals
  <2> QED BY <2>1, <2>2 DEF Loads
<1>2. CASE e.form = ".safetensors" /\ e.keys \subseteq {"other"}
  <2>1. ~has(e, Whole) /\ ~has(e, OfNet) /\ ~has(e, OfVae)
    BY <1>2 DEF has, Whole, OfNet, OfVae
  <2>2. sniff_component(e) = "refused"
    BY <1>2, <2>1 DEF sniff_component
  <2>3. sniff_arch(e) = "refused"
    BY <1>2 DEF sniff_arch, has, Original, FirstStage
  <2>4. Classified(e) = "checkpoint"
    BY <1>2, <2>2 DEF Classified, Offered, lower
  <2> QED BY <2>3, <2>4 DEF Loads
<1>3. CASE e.form = "pipeline" /\ e.cls = "none"
  <2>1. Classified(e) = "checkpoint" /\ sniff_arch(e) = "refused"
    BY <1>3 DEF Classified, sniff_arch, lower
  <2> QED BY <2>1 DEF Loads
<1> QED BY <1>1, <1>2, <1>3 DEF Unknown

\* What lies beside it, unlisted and no directory, has another ending than the
\* ones that a name is tried with.
LEMMA NameIsFound ==
    ASSUME NEW keySets, NEW e \in Entries({"a"}, keySets), NEW f \in Entries({"a"}, keySets),
           Classified(f) = "other", Offered(e), ~IsDir(f)
    PROVE  resolve({e, f}, "a") = IF e.form \in Capitals THEN {} ELSE {e}
<1> DEFINE called(forms) == {g \in {e, f} : g.stem = "a" /\ g.form \in forms}
<1>1. e.form \in Directories \cup Endings /\ f.form \in Endings
      /\ e.stem = "a" /\ f.stem = "a"
  BY DEF Entries, IsDir
<1>2. f.form \in {".txt", ".TXT"}
  <2>1. lower(f.form) \in SmallEndings
    BY <1>1 DEF lower, Endings, SmallEndings, Capitals
  <2>2. lower(f.form) # ".pth"
    BY DEF Classified
  <2>3. sniff_component(f) \in {"whole", "vae", "controlnet", "refused"}
    BY <1>1 DEF sniff_component, Endings
  <2>4. lower(f.form) \notin {".safetensors", ".ckpt"}
    BY <2>3 DEF Classified
  <2> QED BY <1>1, <2>1, <2>2, <2>4 DEF lower, Endings, SmallEndings, Capitals
<1>3. e.form \in {"pipeline", "component", ".safetensors", ".ckpt", ".SAFETENSORS", ".CKPT"}
  BY <1>1 DEF Classified, Offered, lower, Directories, Endings, SmallEndings, Capitals
<1>4. resolve({e, f}, "a") =
          IF called(Directories) # {} THEN called(Directories)
          ELSE IF called({".safetensors"}) # {} THEN called({".safetensors"})
          ELSE called({".ckpt"})
  BY DEF resolve
<1>5. /\ called(Directories) = IF e.form \in Directories THEN {e} ELSE {}
      /\ called({".safetensors"}) = IF e.form = ".safetensors" THEN {e} ELSE {}
      /\ called({".ckpt"}) = IF e.form = ".ckpt" THEN {e} ELSE {}
  BY <1>1, <1>2 DEF Directories
<1> HIDE DEF called
<1>6. CASE e.form \in Capitals
  <2>1. /\ e.form \notin Directories /\ e.form # ".safetensors" /\ e.form # ".ckpt"
    BY <1>6 DEF Capitals, Directories
  <2> QED BY <1>4, <1>5, <1>6, <2>1
<1>7. CASE e.form \notin Capitals
  <2>1. e.form \in Directories \/ e.form = ".safetensors" \/ e.form = ".ckpt"
    BY <1>3, <1>7 DEF Capitals, Directories
  <2> QED BY <1>4, <1>5, <1>7, <2>1
<1> QED BY <1>6, <1>7

\* The list of the files keeps its promise over any sets of prefixes: what it
\* offers is loaded but for unknown layouts and endings not in small letters.
THEOREM EveryListIsRight ==
    ASSUME NEW keySets, keySets \subseteq SUBSET KeyPrefixes, NEW fewKeys
    PROVE  CatalogueLoads(keySets, fewKeys)
BY KindIsLoaded, KindIsRefused, NameIsFound DEF CatalogueLoads

\* The pure parts of the run: AlgorithmsAreRight, for any bounds of it.
THEOREM AlgorithmsHold == Spec => []AlgorithmsAreRight
<1>1. AlgorithmsAreRight
  <2>1. PlansAreShortest
    <3>1. Longest \in Nat /\ Amounts \subseteq Nat /\ Caps \subseteq Int
      BY PureAssumption
    <3> QED BY <3>1, EveryPlanIsShortest DEF PlansAreShortest
  <2>2. CatalogueIsRight
    BY PureAssumption, EveryListIsRight DEF CatalogueIsRight
  <2> QED BY <2>1, <2>2 DEF AlgorithmsAreRight
<1> QED BY <1>1, PTL

-----------------------------------------------------------------------------
(* What a request comes to. *)

\* What the books have of a resident.
Row == [size : Nat, budget : Nat, here : Nat, mode : Modes]

\* What the key k says of its entry, and what an entry on the card claims.
Tells(k, e) ==
    /\ (k.knobs = << >>) => e.mode = OFFLOAD_MODE
    /\ Len(k.knobs) = 1 => e.mode = "none"
    /\ Len(k.knobs) = 2 => e.mode = k.knobs[2]
    /\ e.mode = "none" => e.here = e.budget

\* The knobs are in their ranges.
Limits == /\ DOMAIN knobs = DOMAIN LIMITS
          /\ \A knob \in DOMAIN knobs : knobs[knob] \in LIMITS[knob]

LEMMA KnobsAre ==
    ASSUME Limits
    PROVE  knobs.floor \in Nat /\ knobs.reserve \in Nat /\ knobs.max_resident \in Nat
<1>1. /\ DOMAIN LIMITS = {"max_resident", "reserve", "strict", "floor"}
      /\ LIMITS["floor"] = 0 .. 8 /\ LIMITS["reserve"] = 0 .. 8 /\ LIMITS["max_resident"] = 1 .. 16
  BY DEF LIMITS
<1>2. /\ knobs["floor"] \in 0 .. 8 /\ knobs["reserve"] \in 0 .. 8
      /\ knobs["max_resident"] \in 1 .. 16
  BY <1>1 DEF Limits
<1> QED BY <1>2

\* A request comes to a precision, a mode and a size.
LEMMA AskIs ==
    ASSUME NEW a \in Asks
    PROVE  /\ a.loader \in Loaders /\ a.name \in Names
           /\ a.dtype \in {"auto", "fp16", "fp32"} /\ a.offload \in {"auto"} \cup Modes
           /\ Dtype(a) \in {"fp16", "fp32"} /\ Offload(a) \in Modes /\ Mode(a) \in Modes
           /\ estimate(a) \in Nat
<1>1. /\ a.loader \in Loaders /\ a.name \in Names
      /\ a.dtype \in {"auto", "fp16", "fp32"} /\ a.offload \in {"auto"} \cup Modes
  BY AskAssumption
<1>2. Dtype(a) \in {"fp16", "fp32"}
  BY <1>1 DEF Dtype
<1>3. Offload(a) \in Modes
  BY <1>1, SizeAssumption DEF Offload, Modes
<1>4. Mode(a) \in Modes
  BY <1>3 DEF Mode, Modes
<1>5. estimate(a) \in Nat
  <2>1. Weight[a.name] \in Nat /\ MOTION \in Nat
    BY <1>1, FileAssumption, SizeAssumption
  <2> DEFINE w == Weight[a.name]
  <2>2. w * (IF Dtype(a) = "fp32" THEN 2 ELSE 1) \in Nat
    BY <2>1
  <2> QED BY <2>1, <2>2 DEF estimate
<1> QED BY <1>1, <1>2, <1>3, <1>4, <1>5

\* The factor on an estimate makes it no smaller.
LEMMA FactorIs ==
    ASSUME NEW est \in Nat
    PROVE  WithFactor(est) \in Nat /\ est <= WithFactor(est) /\ (est = 0 => WithFactor(est) = 0)
BY DEF WithFactor

\* What is built under a key is what the key tells, downgraded or not.
LEMMA EntryIs ==
    ASSUME Limits, NEW a \in Asks
    PROVE  /\ Entry(a) \in Row /\ KeyOf(a) \in Keys /\ Tells(KeyOf(a), Entry(a))
           /\ Need(a) \in Nat
<1>1. /\ a.loader \in Loaders /\ a.name \in Names /\ a.offload \in {"auto"} \cup Modes
      /\ Dtype(a) \in {"fp16", "fp32"} /\ Offload(a) \in Modes /\ Mode(a) \in Modes
      /\ estimate(a) \in Nat /\ knobs.floor \in Nat
  BY AskIs, KnobsAre
<1>2. \A mode \in Modes : BudgetOf(estimate(a), mode) \in Nat
  BY <1>1 DEF BudgetOf
<1>3. Entry(a) \in Row
  BY <1>1, <1>2 DEF Entry, Row
<1>4. Need(a) \in Nat
  <2>1. (IF a.loader = "pipe" THEN BudgetOf(estimate(a), Mode(a)) ELSE estimate(a)) \in Nat
    BY <1>1, <1>2
  <2> QED BY <2>1, FactorIs DEF Need
<1>5. \/ /\ Component(a) /\ KeyKnobs(a) = <<Dtype(a)>> /\ Mode(a) = "none"
      \/ /\ ~Component(a) /\ KeyKnobs(a) = <<Dtype(a), Mode(a)>>
      \/ /\ ~Component(a) /\ KeyKnobs(a) = << >> /\ Mode(a) = OFFLOAD_MODE
  <2>1. CASE Component(a)
    BY <2>1 DEF KeyKnobs, Mode, Downgrade, Offload, Component
  <2>2. CASE ~Component(a) /\ (Explicit(a) \/ Downgrade(a))
    BY <2>2 DEF KeyKnobs
  <2>3. CASE ~Component(a) /\ ~Explicit(a) /\ ~Downgrade(a)
    BY <2>3 DEF KeyKnobs, Mode, Offload, Explicit
  <2> QED BY <2>1, <2>2, <2>3
<1>6. KeyKnobs(a) \in Seq({"fp16", "fp32"} \cup Modes)
  <2> DEFINE Words == {"fp16", "fp32"} \cup Modes
  <2>1. Dtype(a) \in Words /\ Mode(a) \in Words
    BY <1>1
  <2> HIDE DEF Words
  <2>2. \A x, y \in Words : <<x>> \in Seq(Words) /\ <<x, y>> \in Seq(Words) /\ << >> \in Seq(Words)
    OBVIOUS
  <2>3. KeyKnobs(a) \in {<<Dtype(a)>>, <<Dtype(a), Mode(a)>>, << >>}
    BY <1>5
  <2>4. KeyKnobs(a) \in Seq(Words)
    BY <2>1, <2>2, <2>3, Zenon
  <2> QED BY <2>4 DEF Words
<1>7. KeyOf(a) \in Keys
  BY <1>1, <1>6 DEF KeyOf, Keys
<1>8. Entry(a).mode = Mode(a) /\ KeyOf(a).knobs = KeyKnobs(a)
  BY DEF Entry, KeyOf
<1>9. Mode(a) = "none" => Entry(a).here = Entry(a).budget
  BY DEF Entry, BudgetOf
<1>10. Tells(KeyOf(a), Entry(a))
  <2>1. \A x, y : Len(<<x>>) = 1 /\ Len(<<x, y>>) = 2 /\ <<x, y>>[2] = y /\ <<x>> # << >>
                  /\ <<x, y>> # << >> /\ Len(<< >>) = 0
    OBVIOUS
  <2> QED BY <1>5, <1>8, <1>9, <2>1 DEF Tells
<1> QED BY <1>3, <1>4, <1>7, <1>10

-----------------------------------------------------------------------------
(* Types. *)

\* Residents are listed once, and each has an entry that its key tells.
Books == /\ resident \in Seq(Keys) /\ Distinct(resident)
         /\ entry \in [Residents -> Row] /\ \A k \in Residents : Tells(k, entry[k])

\* Leases, views and pins name residents.
Holds == /\ held \in [Executions -> SUBSET Residents]
         /\ views \in [Executions -> SUBSET Residents]
         /\ \A l \in Executions : views[l] \subseteq held[l]
         /\ pins \subseteq Residents

Inv == Books /\ Holds /\ pool \in Nat /\ Limits

LEMMA InvTypes == ASSUME Inv PROVE TypeOK
<1>1. \A i, j \in DOMAIN resident : resident[i] = resident[j] => i = j
  BY DEF Inv, Books, Distinct
<1>2. entry \in [Residents -> [size : Nat, budget : Nat, here : Nat, mode : Modes]]
  BY DEF Inv, Books, Row
<1>3. KeyTellsKnobs
  BY DEF Inv, Books, Tells, KeyTellsKnobs
<1> QED BY <1>1, <1>2, <1>3 DEF Inv, Books, Holds, Limits, TypeOK

LEMMA ResidentsFinite == ASSUME Books PROVE IsFiniteSet(Residents)
<1>1. Len(resident) \in Nat /\ DOMAIN resident = 1 .. Len(resident)
  BY DEF Books
<1>2. IsFiniteSet(1 .. Len(resident))
  BY <1>1, FS_Interval
<1>3. IsFiniteSet({resident[i] : i \in 1 .. Len(resident)})
  BY <1>2, ImageFinite, Zenon
<1> QED BY <1>1, <1>3 DEF Residents, ToSet

LEMMA PoolIs == ASSUME pool \in Nat, NEW gone PROVE PoolAfter(gone) \in Nat
BY DEF PoolAfter

\* An eviction leaves books that agree.
LEMMA ForgottenBooks ==
    ASSUME Books, NEW gone, resident' = Only(resident, Left(gone)),
           entry' = [k \in Left(gone) |-> entry[k]]
    PROVE  Books' /\ Residents' = Left(gone)
<1>1. /\ Only(resident, Left(gone)) \in Seq(Keys) /\ Distinct(Only(resident, Left(gone)))
      /\ ToSet(Only(resident, Left(gone))) = ToSet(resident) \cap Left(gone)
  BY OnlyIs DEF Books
<1>2. Residents' = Left(gone) /\ Left(gone) \subseteq Residents
  BY <1>1 DEF Residents, Left
<1>3. entry' \in [Residents' -> Row] /\ \A k \in Residents' : Tells(k, entry'[k])
  BY <1>2 DEF Books
<1> QED BY <1>1, <1>2, <1>3 DEF Books

LEMMA ForgottenInv ==
    ASSUME Inv, NEW gone, Forgotten(gone), pool' \in Nat, UNCHANGED knobs
    PROVE  Inv' /\ Residents' = Left(gone)
<1>1. Books' /\ Residents' = Left(gone)
  BY ForgottenBooks DEF Inv, Forgotten
<1>2. Holds'
  <2>1. \A l \in Executions : held[l] \subseteq Residents /\ views[l] \subseteq held[l]
    BY DEF Inv, Holds
  <2>2. /\ held' = [l \in Executions |-> held[l] \ gone]
        /\ views' = [l \in Executions |-> views[l] \ gone]
        /\ pins' = pins \ gone
    BY DEF Forgotten
  <2>3. pins' \subseteq Left(gone)
    BY <2>2 DEF Inv, Holds, Left
  <2>4. \A l \in Executions : /\ held'[l] \subseteq Left(gone) /\ views'[l] \subseteq held'[l]
                              /\ views'[l] \subseteq Left(gone)
    BY <2>1, <2>2 DEF Left
  <2> QED BY <1>1, <2>2, <2>3, <2>4 DEF Holds
<1>3. Limits'
  BY DEF Inv, Limits
<1> QED BY <1>1, <1>2, <1>3 DEF Inv

LEMMA HitInv ==
    ASSUME Inv, NEW l \in Executions, NEW a \in Asks, LoadHit(l, a)
    PROVE  Inv' /\ Residents' \subseteq Residents
<1> DEFINE k == KeyOf(a)
           s == Only(resident, Residents \ {k})
<1>1. k \in Residents /\ k \in Keys
  BY EntryIs DEF LoadHit, Inv
<1>2. s \in Seq(Keys) /\ ToSet(s) = Residents \ {k} /\ Distinct(s)
  <2>1. /\ s \in Seq(Keys) /\ ToSet(s) = ToSet(resident) \cap (Residents \ {k})
        /\ Distinct(s)
    BY OnlyIs DEF Inv, Books
  <2> QED BY <2>1 DEF Residents
<1>3. resident' = Append(s, k) /\ UNCHANGED <<entry, pins, pool, knobs>>
      /\ held' = [held EXCEPT ![l] = @ \cup {k}] /\ views' = [views EXCEPT ![l] = @ \cup {k}]
  BY DEF LoadHit, Touch
<1> HIDE DEF s, k
<1>4. resident' \in Seq(Keys) /\ ToSet(resident') = ToSet(s) \cup {k} /\ Distinct(resident')
  BY <1>1, <1>2, <1>3, AppendIs
<1>5. Residents' = Residents
  BY <1>1, <1>2, <1>4 DEF Residents
<1>6. Books'
  BY <1>3, <1>4, <1>5 DEF Inv, Books
<1>7. Holds'
  BY <1>1, <1>3, <1>5 DEF Inv, Holds
<1> QED BY <1>3, <1>5, <1>6, <1>7 DEF Inv, Limits

LEMMA FailsInv ==
    ASSUME Inv, NEW l \in Executions, NEW a \in Asks, LoadFails(l, a) \/ LoadRunsOut(l, a)
    PROVE  Inv' /\ Residents' \subseteq Residents
<1>1. PICK gone : Forgotten(gone) /\ pool' = PoolAfter(gone) /\ UNCHANGED knobs
  BY DEF LoadFails, LoadRunsOut
<1>2. pool' \in Nat
  BY <1>1, PoolIs DEF Inv
<1> QED BY <1>1, <1>2, ForgottenInv DEF Left

LEMMA UnloadInv ==
    ASSUME Inv, NEW l, NEW target, NEW keep, Unload(l, target, keep)
    PROVE  Inv' /\ Residents' \subseteq Residents
<1>1. PICK gone : Forgotten(gone) /\ pool' = PoolAfter(gone) /\ UNCHANGED knobs
  BY DEF Unload
<1>2. pool' \in Nat
  BY <1>1, PoolIs DEF Inv
<1> QED BY <1>1, <1>2, ForgottenInv DEF Left

LEMMA BuildsInv ==
    ASSUME Inv, NEW l \in Executions, NEW a \in Asks, LoadBuilds(l, a)
    PROVE  /\ Inv' /\ Residents' = Left(EvictPass(l, Need(a))) \cup {KeyOf(a)}
<1> DEFINE k == KeyOf(a)
           gone == EvictPass(l, Need(a))
           s == Only(resident, Left(gone))
<1>1. k \notin Residents /\ k \in Keys /\ Entry(a) \in Row /\ Tells(k, Entry(a))
  BY EntryIs DEF LoadBuilds, GoesOn, Misses, Inv
<1>2. s \in Seq(Keys) /\ ToSet(s) = Left(gone) /\ Distinct(s)
  <2>1. /\ s \in Seq(Keys) /\ ToSet(s) = ToSet(resident) \cap Left(gone)
        /\ Distinct(s)
    BY OnlyIs DEF Inv, Books
  <2> QED BY <2>1 DEF Residents, Left
<1>3. /\ resident' = Append(s, k) /\ UNCHANGED <<pins, knobs>>
      /\ entry' = [o \in Left(gone) \cup {k} |-> IF o = k THEN Entry(a) ELSE entry[o]]
      /\ held' = [m \in Executions |-> (held[m] \ gone) \cup (IF m = l THEN {k} ELSE {})]
      /\ views' = [m \in Executions |-> (views[m] \ gone) \cup (IF m = l THEN {k} ELSE {})]
      /\ pool' = AtLeast0(PoolAfter(gone) - Entry(a).here) /\ pins = {}
  BY DEF LoadBuilds, GoesOn, Misses
<1>4. PoolAfter(gone) \in Nat /\ Entry(a).here \in Nat
  BY <1>1, PoolIs DEF Inv, Row
<1>5. Left(gone) \subseteq Residents
  BY DEF Left
<1> HIDE DEF s, k, gone
<1>6. resident' \in Seq(Keys) /\ ToSet(resident') = ToSet(s) \cup {k} /\ Distinct(resident')
  BY <1>1, <1>2, <1>3, <1>5, AppendIs
<1>7. Residents' = Left(gone) \cup {k}
  BY <1>2, <1>6 DEF Residents
<1>8. Books'
  <2>1. entry' \in [Residents' -> Row]
    BY <1>1, <1>3, <1>5, <1>7 DEF Inv, Books
  <2>2. \A o \in Residents' : Tells(o, entry'[o])
    BY <1>1, <1>3, <1>5, <1>7 DEF Inv, Books
  <2> QED BY <1>6, <2>1, <2>2 DEF Books
<1>9. Holds'
  <2>1. \A m \in Executions : held[m] \subseteq Residents /\ views[m] \subseteq held[m]
    BY DEF Inv, Holds
  <2>2. \A m \in Executions : held[m] \ gone \subseteq Left(gone) /\ views[m] \ gone \subseteq held[m] \ gone
    BY <2>1 DEF Left
  <2>3. \A m \in Executions : held'[m] = (held[m] \ gone) \cup (IF m = l THEN {k} ELSE {})
    BY <1>3
  <2>4. \A m \in Executions : views'[m] = (views[m] \ gone) \cup (IF m = l THEN {k} ELSE {})
    BY <1>3
  <2>5. \A m \in Executions : held'[m] \subseteq Residents' /\ views'[m] \subseteq held'[m]
    BY <1>7, <2>2, <2>3, <2>4
  <2>6. DOMAIN held' = Executions /\ DOMAIN views' = Executions
    BY <1>3
  <2>7. \A m \in Executions : views'[m] \subseteq Residents'
    BY <2>5
  <2>8. /\ held' = [m \in Executions |-> held'[m]]
        /\ views' = [m \in Executions |-> views'[m]]
    BY <1>3
  <2> QED BY <1>3, <2>5, <2>7, <2>8 DEF Holds
<1>10. pool' \in Nat
  BY <1>3, <1>4 DEF AtLeast0
<1>11. Inv'
  BY <1>3, <1>8, <1>9, <1>10 DEF Inv, Limits
<1> QED BY <1>7, <1>11 DEF gone, k

LEMMA OpInv ==
    ASSUME Inv, \/ \E l \in Executions : \E k \in views[l] : OpBegins(l, k)
                \/ OpEnds
                \/ \E l \in Executions : Release(l)
    PROVE  Inv' /\ Residents' \subseteq Residents
<1>1. ASSUME NEW l \in Executions, NEW k \in views[l], OpBegins(l, k)
      PROVE  Inv' /\ Residents' \subseteq Residents
  <2>1. /\ pins' = {k} /\ held' = [held EXCEPT ![l] = @ \cup {k}]
        /\ UNCHANGED <<resident, entry, views, pool, knobs>>
    BY <1>1 DEF OpBegins
  <2>2. Residents' = Residents
    BY <2>1 DEF Residents
  <2>3. Books' /\ Limits'
    BY <2>1, <2>2 DEF Inv, Books, Limits
  <2>4. Holds'
    BY <2>1, <2>2 DEF Inv, Holds
  <2> QED BY <2>1, <2>2, <2>3, <2>4 DEF Inv
<1>2. ASSUME OpEnds PROVE Inv' /\ Residents' \subseteq Residents
  <2>1. PICK cached \in {pool, POOL}, left \in {0, LEFT} :
            /\ pool' = cached
            /\ entry' = [k \in Residents |->
                            IF k \in pins /\ entry[k].mode # "none"
                            THEN [entry[k] EXCEPT !.here = left] ELSE entry[k]]
    BY <1>2 DEF OpEnds
  <2>2. pins' = {} /\ UNCHANGED <<resident, held, views, knobs>>
    BY <1>2 DEF OpEnds
  <2>3. pool' \in Nat /\ left \in Nat
    BY <2>1, SizeAssumption DEF Inv
  <2>4. Residents' = Residents
    BY <2>2 DEF Residents
  <2>5. \A k \in Residents : entry'[k] \in Row /\ Tells(k, entry'[k])
    <3> TAKE k \in Residents
    <3>1. entry[k] \in Row /\ Tells(k, entry[k])
      BY DEF Inv, Books
    <3> DEFINE e == [entry[k] EXCEPT !.here = left]
    <3>2. e \in Row /\ e.mode = entry[k].mode
      BY <2>3, <3>1 DEF Row
    <3>3. entry[k].mode # "none" => Tells(k, e)
      BY <3>1, <3>2 DEF Tells
    <3> HIDE DEF e
    <3>4. entry'[k] = IF k \in pins /\ entry[k].mode # "none" THEN e ELSE entry[k]
      BY <2>1 DEF e
    <3> QED BY <3>1, <3>2, <3>3, <3>4
  <2>6. entry' = [k \in Residents |-> entry'[k]]
    BY <2>1
  <2>7. Books'
    BY <2>2, <2>4, <2>5, <2>6 DEF Inv, Books
  <2>8. Holds' /\ Limits'
    BY <2>2, <2>4 DEF Inv, Holds, Limits
  <2> QED BY <2>3, <2>4, <2>7, <2>8 DEF Inv
<1>3. ASSUME NEW l \in Executions, Release(l) PROVE Inv' /\ Residents' \subseteq Residents
  <2>1. /\ held' = [held EXCEPT ![l] = {}] /\ views' = [views EXCEPT ![l] = {}]
        /\ UNCHANGED <<resident, entry, pins, pool, knobs>>
    BY <1>3 DEF Release
  <2>2. Residents' = Residents
    BY <2>1 DEF Residents
  <2>3. Books' /\ Limits'
    BY <2>1, <2>2 DEF Inv, Books, Limits
  <2>4. Holds'
    BY <2>1, <2>2 DEF Inv, Holds
  <2> QED BY <2>1, <2>2, <2>3, <2>4 DEF Inv
<1> QED BY <1>1, <1>2, <1>3

LEMMA PolicyInv ==
    ASSUME Inv, NEW patch \in Patches, SetPolicy(patch)
    PROVE  Inv' /\ Residents' \subseteq Residents
<1>1. knobs' = Applied(patch) /\ UNCHANGED <<resident, entry, held, views, pins, pool>>
  BY DEF SetPolicy
<1> DEFINE written == {i \in DOMAIN patch :
                          \A j \in 1 .. i : patch[j].value \in LIMITS[patch[j].knob]}
<1>2. patch \in Seq([knob : DOMAIN LIMITS, value : Int])
  BY PatchAssumption
<1>3. \A i \in written : i \in 1 .. i /\ patch[i].value \in LIMITS[patch[i].knob]
  BY <1>2
<1>4. \A knob \in DOMAIN knobs :
          (\E i \in written : patch[i].knob = knob)
          => patch[CHOOSE i \in written : patch[i].knob = knob].value \in LIMITS[knob]
  <2> HIDE DEF written
  <2> QED BY <1>3
<1>5. \A knob \in DOMAIN knobs : knobs[knob] \in LIMITS[knob]
  BY DEF Inv, Limits
<1>6. Applied(patch) = [knob \in DOMAIN knobs |->
          IF \E i \in written : patch[i].knob = knob
          THEN patch[CHOOSE i \in written : patch[i].knob = knob].value ELSE knobs[knob]]
  BY DEF Applied
<1> HIDE DEF written
<1>7. Limits'
  BY <1>1, <1>4, <1>5, <1>6 DEF Inv, Limits
<1>8. Residents' = Residents
  BY <1>1 DEF Residents
<1>9. Books' /\ Holds'
  BY <1>1, <1>8 DEF Inv, Books, Holds
<1> QED BY <1>1, <1>7, <1>8, <1>9 DEF Inv

\* The invariant holds on an empty server.
LEMMA InitInv == Init => Inv
<1> SUFFICES ASSUME Init PROVE Inv
  OBVIOUS
<1>1. resident = << >> /\ Len(resident) = 0 /\ Residents = {}
  BY DEF Init, Residents, ToSet
<1>2. Books
  <2>1. Distinct(resident) /\ resident \in Seq(Keys)
    BY <1>1 DEF Distinct
  <2>2. entry \in [{} -> Row]
    BY DEF Init
  <2> QED BY <1>1, <2>1, <2>2 DEF Books
<1>3. Holds
  BY DEF Init, Holds
<1>4. knobs \in [max_resident : {2}, reserve : {1}, strict : {0}, floor : {1, 3}]
  BY DEF Init
<1>5. Limits
  <2>1. DOMAIN knobs = {"max_resident", "reserve", "strict", "floor"}
        /\ DOMAIN LIMITS = {"max_resident", "reserve", "strict", "floor"}
    BY <1>4 DEF LIMITS
  <2>2. /\ knobs["floor"] \in LIMITS["floor"] /\ knobs["reserve"] \in LIMITS["reserve"]
        /\ knobs["max_resident"] \in LIMITS["max_resident"]
        /\ knobs["strict"] \in LIMITS["strict"]
    BY <1>4 DEF LIMITS
  <2> QED BY <2>1, <2>2 DEF Limits
<1> QED BY <1>2, <1>3, <1>5 DEF Init, Inv

\* Every step keeps the invariant, and only one that builds adds a model.
LEMMA Step ==
    ASSUME Inv, [Next]_vars
    PROVE  /\ Inv'
           /\ \/ Residents' \subseteq Residents
              \/ \E l \in Executions, a \in Asks : LoadBuilds(l, a)
<1>1. ASSUME NEW l \in Executions, NEW a \in Asks, Load(l, a)
      PROVE  /\ Inv'
             /\ \/ Residents' \subseteq Residents
                \/ \E m \in Executions, b \in Asks : LoadBuilds(m, b)
  BY <1>1, HitInv, FailsInv, BuildsInv DEF Load
<1>2. CASE UNCHANGED vars
  BY <1>2 DEF vars, Inv, Books, Holds, Limits, Residents
<1>3. CASE \/ \E l \in Executions : \E k \in views[l] : OpBegins(l, k)
           \/ OpEnds
           \/ \E l \in Executions : Release(l)
  BY <1>3, OpInv
<1>4. ASSUME NEW l \in Executions, NEW t, NEW keep, Unload(l, t, keep)
      PROVE  Inv' /\ Residents' \subseteq Residents
  BY <1>4, UnloadInv
<1>5. ASSUME NEW patch \in Patches, SetPolicy(patch)
      PROVE  Inv' /\ Residents' \subseteq Residents
  BY <1>5, PolicyInv
<1> QED BY <1>1, <1>2, <1>3, <1>4, <1>5 DEF Next

LEMMA Invariant == Spec => []Inv
<1>1. Inv /\ [Next]_vars => Inv'
  BY Step
<1> QED BY InitInv, <1>1, PTL DEF Spec

\* Books, leases, views, pins and knobs agree, whatever is loaded, unloaded or
\* patched, and a key says how its model was loaded: TypeOK.
THEOREM TypesHold == Spec => []TypeOK
<1>1. Inv => TypeOK
  BY InvTypes
<1> QED BY <1>1, Invariant, PTL

-----------------------------------------------------------------------------
(* Memory. *)

LEMMA TotalSame ==
    ASSUME NEW J, NEW f, NEW g, \A j \in J : f[j] = g[j]
    PROVE  Total(J, f) = Total(J, g)
<1>1. UNION {{j} \X (1 .. f[j]) : j \in J} = UNION {{j} \X (1 .. g[j]) : j \in J}
  OBVIOUS
<1> QED BY <1>1 DEF Total

LEMMA TotalNone == ASSUME NEW size PROVE Total({}, size) = 0
<1>1. UNION {{j} \X (1 .. size[j]) : j \in {}} = {}
  OBVIOUS
<1> QED BY <1>1, FS_EmptySet DEF Total

\* What of the residents is on the card, and what the books claim for them.
Here == [k \in Residents |-> entry[k].here]
Budgets == [k \in Residents |-> entry[k].budget]

LEMMA SumsAre ==
    ASSUME Books, NEW keys, keys \subseteq Residents
    PROVE  /\ IsFiniteSet(keys)
           /\ OnCard(keys) = Total(keys, Here) /\ Claimed(keys) = Total(keys, Budgets)
           /\ OnCard(keys) \in Nat /\ Claimed(keys) \in Nat
           /\ \A k \in keys : Here[k] \in Nat /\ Budgets[k] \in Nat
<1>1. IsFiniteSet(keys)
  BY ResidentsFinite, FS_Subset
<1>2. \A k \in keys : /\ Here[k] = entry[k].here /\ Here[k] \in Nat
                      /\ Budgets[k] = entry[k].budget /\ Budgets[k] \in Nat
  BY DEF Books, Row, Here, Budgets
<1>3. OnCard(keys) = Total(keys, Here)
  <2> DEFINE f == [k \in keys |-> entry[k].here]
  <2>1. \A k \in keys : f[k] = Here[k]
    BY <1>2
  <2> HIDE DEF f
  <2>2. Total(keys, f) = Total(keys, Here)
    BY <2>1, TotalSame
  <2> QED BY <2>2 DEF f, OnCard
<1>4. Claimed(keys) = Total(keys, Budgets)
  <2> DEFINE f == [k \in keys |-> VramSize(k)]
  <2>1. \A k \in keys : f[k] = Budgets[k]
    BY <1>2 DEF VramSize
  <2> HIDE DEF f
  <2>2. Total(keys, f) = Total(keys, Budgets)
    BY <2>1, TotalSame
  <2> QED BY <2>2 DEF f, Claimed
<1>5. Total(keys, Here) \in Nat /\ Total(keys, Budgets) \in Nat
  BY <1>1, <1>2, UnitsFinite
<1> QED BY <1>1, <1>2, <1>3, <1>4, <1>5

LEMMA CardSplit ==
    ASSUME Books, NEW gone, gone \subseteq Residents
    PROVE  OnCard(Residents) = OnCard(gone) + OnCard(Left(gone))
<1>1. /\ gone \cup Left(gone) = Residents /\ gone \cap Left(gone) = {}
      /\ Left(gone) \subseteq Residents
  BY DEF Left
<1>2. /\ IsFiniteSet(gone) /\ IsFiniteSet(Left(gone))
      /\ OnCard(gone) = Total(gone, Here) /\ OnCard(Left(gone)) = Total(Left(gone), Here)
      /\ OnCard(Residents) = Total(Residents, Here)
      /\ \A k \in Residents : Here[k] \in Nat
  BY <1>1, SumsAre
<1>3. Total(gone \cup Left(gone), Here) = Total(gone, Here) + Total(Left(gone), Here)
  BY <1>1, <1>2, TotalUnion
<1> QED BY <1>1, <1>2, <1>3

\* What the books claim of gone is on the card, or a floor.
LEMMA ClaimedIs ==
    ASSUME Books, NEW gone, gone \subseteq Residents
    PROVE  /\ Claimed(gone) <= OnCard(gone) + Floors /\ Floors \in Nat
           /\ (\A k \in Residents : entry[k].mode = "none") => Claimed(gone) = OnCard(gone)
<1> DEFINE Whole1 == {k \in gone : entry[k].mode = "none"}
           Off == {k \in Residents : entry[k].mode # "none"}
           Part == gone \cap Off
<1>1. /\ Whole1 \subseteq gone /\ Off \subseteq Residents /\ Part \subseteq Off /\ Part \subseteq Residents
      /\ Whole1 \cup Part = gone /\ Whole1 \cap Part = {} /\ Whole1 \subseteq Residents
  OBVIOUS
<1>2. \A k \in Whole1 : Here[k] = Budgets[k]
  BY DEF Books, Tells, Here, Budgets
<1>3. Floors = Claimed(Off)
  BY DEF Floors
<1>4. (\A k \in Residents : entry[k].mode = "none") => Whole1 = gone
  OBVIOUS
<1> HIDE DEF Whole1, Off, Part
<1>5. /\ \A S \in SUBSET Residents :
             /\ IsFiniteSet(S) /\ OnCard(S) = Total(S, Here) /\ Claimed(S) = Total(S, Budgets)
             /\ OnCard(S) \in Nat /\ Claimed(S) \in Nat
      /\ \A k \in Residents : Here[k] \in Nat /\ Budgets[k] \in Nat
  BY SumsAre
<1>6. Total(Whole1, Here) = Total(Whole1, Budgets)
  BY <1>2, TotalSame
<1>7. Total(gone, Budgets) = Total(Whole1, Budgets) + Total(Part, Budgets)
  <2>1. IsFiniteSet(Whole1) /\ IsFiniteSet(Part)
    BY <1>1, <1>5
  <2>2. \A k \in Whole1 \cup Part : Budgets[k] \in Nat
    BY <1>1, <1>5
  <2>3. Total(Whole1 \cup Part, Budgets) = Total(Whole1, Budgets) + Total(Part, Budgets)
    BY <1>1, <2>1, <2>2, TotalUnion
  <2> QED BY <1>1, <2>3
<1>8. Total(Whole1, Here) <= Total(gone, Here)
  BY <1>1, <1>5, TotalSubset
<1>9. Total(Part, Budgets) <= Total(Off, Budgets)
  BY <1>1, <1>5, TotalSubset
<1>10. /\ Claimed(gone) = Total(gone, Budgets) /\ OnCard(gone) = Total(gone, Here)
       /\ Floors = Total(Off, Budgets) /\ Floors \in Nat
       /\ Total(Whole1, Here) \in Nat /\ Total(gone, Here) \in Nat
       /\ Total(Part, Budgets) \in Nat /\ Total(Off, Budgets) \in Nat
  <2>1. gone \in SUBSET Residents /\ Off \in SUBSET Residents /\ Whole1 \in SUBSET Residents
        /\ Part \in SUBSET Residents
    BY <1>1
  <2> QED BY <1>3, <1>5, <2>1
<1>11. Claimed(gone) <= OnCard(gone) + Floors
  BY <1>6, <1>7, <1>8, <1>9, <1>10
<1>12. (\A k \in Residents : entry[k].mode = "none") => Claimed(gone) = OnCard(gone)
  BY <1>4, <1>6, <1>10
<1> QED BY <1>10, <1>11, <1>12

\* As long as the card is not over-subscribed, what is free is what is not on it.
LEMMA FreeIs ==
    ASSUME Inv, ~oversubscribed, NEW gone, gone \subseteq Residents
    PROVE  /\ FreeBytes(Residents, pool) = CARD - OnCard(Residents)
           /\ FreeBytes(Left(gone), PoolAfter(gone)) = CARD - OnCard(Left(gone))
           /\ OnCard(Left(gone)) + PoolAfter(gone) <= CARD
           /\ OnCard(Left(gone)) <= OnCard(Residents)
<1>1. OnCard(Residents) = OnCard(gone) + OnCard(Left(gone))
  BY CardSplit DEF Inv
<1>2. OnCard(Residents) \in Nat /\ OnCard(gone) \in Nat /\ OnCard(Left(gone)) \in Nat
  BY SumsAre DEF Inv, Left
<1>3. OnCard(Residents) + pool <= CARD /\ pool \in Nat /\ CARD \in Nat
  BY <1>2, SizeAssumption DEF oversubscribed, Reserved, Inv
<1>4. PoolAfter(gone) \in Nat /\ PoolAfter(gone) <= pool
  BY <1>3 DEF PoolAfter
<1>5. \A x, y \in Nat : x + y <= CARD => AtLeast0(CARD - x - y) + y = CARD - x
  BY <1>3 DEF AtLeast0
<1>6. OnCard(Left(gone)) + PoolAfter(gone) <= CARD
  BY <1>1, <1>2, <1>3, <1>4
<1> QED BY <1>1, <1>2, <1>3, <1>4, <1>5, <1>6 DEF FreeBytes

\* What a pass takes: nothing that is kept, and if it stops before it has
\* taken everything else, the books say that there is room.
LEMMA EvictPassIs ==
    ASSUME Inv, NEW l \in Executions, NEW need \in Nat
    PROVE  /\ EvictPass(l, need) \subseteq Residents \ Kept(l)
           /\ \/ Residents \ Kept(l) \subseteq EvictPass(l, need)
              \/ need = 0
              \/ FreeBytes(Residents, pool) + Claimed(EvictPass(l, need)) >= need + knobs.reserve
<1>1. CASE resident = << >>
  <2>1. Residents = {}
    BY <1>1 DEF Residents, ToSet
  <2> QED BY <1>1, <2>1 DEF EvictPass
<1>2. CASE resident # << >>
  <2> DEFINE c == Only(resident, Residents \ Kept(l))
             size == [k \in Residents |-> VramSize(k)]
             free == FreeBytes(Residents, pool)
             count == Len(resident)
             reserve == knobs.reserve
             cap == knobs.max_resident
             plan == plan_eviction(c, size, count, free, need, reserve, cap)
             gone == EvictPass(l, need)
  <2>1. resident \in Seq(Residents) /\ Distinct(resident) /\ Len(resident) \in Nat
    <3>1. resident \in Seq(Keys) /\ DOMAIN resident = 1 .. Len(resident) /\ Distinct(resident)
      BY DEF Inv, Books
    <3>2. \A i \in 1 .. Len(resident) : resident[i] \in Residents
      BY <3>1 DEF Residents, ToSet
    <3> QED BY <3>1, <3>2
  <2>2. c \in Seq(Residents) /\ ToSet(c) = Residents \ Kept(l) /\ Distinct(c)
    <3>1. /\ c \in Seq(Residents) /\ ToSet(c) = ToSet(resident) \cap (Residents \ Kept(l))
          /\ Distinct(c)
      BY <2>1, OnlyIs
    <3> QED BY <3>1 DEF Residents
  <2>3. \A k \in Residents : size[k] \in Nat /\ size[k] = Budgets[k]
    BY DEF Inv, Books, Row, VramSize, Budgets
  <2>4. free \in Int /\ reserve \in Int /\ cap \in Int /\ count \in Int /\ need \in Int
        /\ cap \in Nat /\ reserve \in Nat
    <3>1. OnCard(Residents) \in Nat /\ pool \in Nat /\ CARD \in Nat
      BY SumsAre, SizeAssumption DEF Inv
    <3>2. free \in Int
      BY <3>1 DEF FreeBytes, AtLeast0
    <3>3. reserve \in Nat /\ cap \in Nat
      BY KnobsAre DEF Inv
    <3> QED BY <2>1, <3>2, <3>3
  <2>5. gone = ToSet(plan)
    BY <1>2 DEF EvictPass
  <2> HIDE DEF c, size, free, count, reserve, cap, gone
  <2>6. IsShortest(plan, c, size, Residents, count, free, need, reserve, cap)
    BY <2>2, <2>3, <2>4, PlanIs
  <2> HIDE DEF plan
  <2>7. /\ plan \in Seq(Residents) /\ Len(plan) <= Len(c)
        /\ \A j \in 1 .. Len(plan) : plan[j] = c[j]
        /\ \/ Len(plan) = Len(c)
           \/ Enough(Len(plan), Total(First(c, Len(plan)), size), count, free, need, reserve, cap)
    BY <2>6 DEF IsShortest
  <2>8. /\ DOMAIN plan = 1 .. Len(plan) /\ DOMAIN c = 1 .. Len(c)
        /\ Len(plan) \in Nat /\ Len(c) \in Nat
    BY <2>2, <2>7
  <2>9. gone = First(c, Len(plan))
    <3>1. gone = {plan[j] : j \in 1 .. Len(plan)}
      BY <2>5, <2>8 DEF ToSet
    <3> QED BY <2>7, <3>1 DEF First
  <2>10. gone \subseteq ToSet(c)
    <3> DEFINE m == Len(plan)
               n == Len(c)
    <3>0. m \in Nat /\ n \in Nat /\ m <= n
      BY <2>7, <2>8
    <3>a. \A j \in 1 .. m : j \in 1 .. n
      <4> HIDE DEF m, n
      <4> QED BY <3>0
    <3>1. \A j \in 1 .. Len(plan) : j \in 1 .. Len(c)
      BY <3>a
    <3>2. First(c, Len(plan)) \subseteq {c[j] : j \in 1 .. Len(c)}
      BY <3>1 DEF First
    <3> QED BY <2>8, <2>9, <3>2 DEF ToSet
  <2>11. Len(plan) = Len(c) => gone = ToSet(c)
    BY <2>8, <2>9 DEF First, ToSet
  <2>12. Total(gone, size) = Claimed(gone)
    <3>1. gone \subseteq Residents
      BY <2>2, <2>10
    <3>2. Claimed(gone) = Total(gone, Budgets)
      BY <3>1, SumsAre DEF Inv
    <3>3. \A k \in gone : size[k] = Budgets[k]
      BY <2>3, <3>1
    <3> QED BY <3>2, <3>3, TotalSame
  <2>13. Enough(Len(plan), Total(gone, size), count, free, need, reserve, cap)
         => need = 0 \/ free + Claimed(gone) >= need + reserve
    BY <2>12 DEF Enough
  <2> QED BY <2>2, <2>7, <2>9, <2>10, <2>11, <2>13 DEF gone, free, reserve
<1> QED BY <1>1, <1>2

-----------------------------------------------------------------------------
(* Loads that fit. *)

\* What a load that builds leaves and adds.
LEMMA BuiltIs ==
    ASSUME Inv, NEW l \in Executions, NEW a \in Asks, LoadBuilds(l, a),
           NEW gone, gone = EvictPass(l, Need(a)), NEW k \in Added
    PROVE  /\ k = KeyOf(a) /\ k \notin Residents /\ Loader(k) = l
           /\ Residents \cap Residents' = Left(gone) /\ Left(gone) = Residents \ gone
           /\ gone \subseteq Residents \ Kept(l)
           /\ pins = {} /\ UNCHANGED knobs
           /\ ~WaitsInVain(l, a, gone) /\ ~Refused(l, a, gone)
<1>1. Residents' = Left(gone) \cup {KeyOf(a)} /\ Inv'
  BY BuildsInv
<1>2. /\ KeyOf(a) \notin Residents /\ pins = {} /\ UNCHANGED knobs
      /\ ~WaitsInVain(l, a, gone) /\ ~Refused(l, a, gone)
      /\ held' = [m \in Executions |-> (held[m] \ gone) \cup (IF m = l THEN {KeyOf(a)} ELSE {})]
  BY DEF LoadBuilds, GoesOn, Misses
<1>3. gone \subseteq Residents \ Kept(l)
  <2>1. Need(a) \in Nat
    BY EntryIs DEF Inv
  <2> QED BY <2>1, EvictPassIs
<1>4. k = KeyOf(a) /\ k \notin Residents /\ Residents \cap Residents' = Left(gone)
  BY <1>1, <1>2 DEF Added, Left
<1>5. \A m \in Executions : k \in held'[m] <=> m = l
  <2>1. \A m \in Executions : held[m] \subseteq Residents
    BY DEF Inv, Holds
  <2> QED BY <1>2, <1>4, <2>1
<1>6. Loader(k) = l
  BY <1>5 DEF Loader
<1> QED BY <1>2, <1>3, <1>4, <1>6 DEF Left

\* What is on the card when the model has come.
LEMMA ReservedAfter ==
    ASSUME Inv, NEW l \in Executions, NEW a \in Asks, LoadBuilds(l, a), ~oversubscribed,
           NEW gone, gone = EvictPass(l, Need(a)),
           OnCard(Left(gone)) + Entry(a).here <= CARD
    PROVE  Reserved' <= CARD
<1> DEFINE k == KeyOf(a)
           h == Entry(a).here
<1>1. /\ Residents' = Left(gone) \cup {k} /\ Inv' /\ k \notin Left(gone)
      /\ Left(gone) \subseteq Residents /\ Entry(a) \in Row
  BY BuildsInv, EntryIs DEF LoadBuilds, GoesOn, Misses, Left, Inv
<1>2. /\ entry' = [o \in Left(gone) \cup {k} |-> IF o = k THEN Entry(a) ELSE entry[o]]
      /\ pool' = AtLeast0(PoolAfter(gone) - h)
  BY DEF LoadBuilds
<1>3. h \in Nat
  BY <1>1 DEF Row
<1>4. gone \subseteq Residents
  <2>1. Need(a) \in Nat
    BY EntryIs DEF Inv
  <2> QED BY <2>1, EvictPassIs
<1>5. /\ OnCard(Left(gone)) + PoolAfter(gone) <= CARD
      /\ OnCard(Left(gone)) \in Nat /\ PoolAfter(gone) \in Nat /\ CARD \in Nat
  BY <1>1, <1>4, FreeIs, SumsAre, PoolIs, SizeAssumption DEF Inv
<1> DEFINE f == [o \in Residents' |-> entry'[o].here]
<1>6. OnCard(Residents)' = Total(Residents', f)
  BY DEF OnCard
<1>7. f[k] = h /\ \A o \in Left(gone) : f[o] = Here[o]
  <2>1. \A o \in Left(gone) : o \in Residents /\ entry'[o] = entry[o] /\ o \in Residents'
    BY <1>1, <1>2
  <2>2. entry'[k] = Entry(a) /\ k \in Residents'
    BY <1>1, <1>2
  <2> QED BY <2>1, <2>2 DEF Here
<1> HIDE DEF f, k, h
<1>8. Total(Residents', f) = OnCard(Left(gone)) + h
  <2>1. /\ IsFiniteSet(Left(gone)) /\ OnCard(Left(gone)) = Total(Left(gone), Here)
        /\ \A o \in Left(gone) : Here[o] \in Nat
    BY <1>1, SumsAre DEF Inv
  <2>2. Total(Left(gone), f) = Total(Left(gone), Here)
    BY <1>7, TotalSame
  <2>3. Total({k}, f) = h /\ IsFiniteSet({k})
    BY <1>3, <1>7, TotalOne, FS_Singleton
  <2>4. \A o \in Left(gone) \cup {k} : f[o] \in Nat
    BY <1>3, <1>7, <2>1
  <2>5. Left(gone) \cap {k} = {}
    BY <1>1
  <2>6. Total(Left(gone) \cup {k}, f) = Total(Left(gone), f) + Total({k}, f)
    BY <2>1, <2>3, <2>4, <2>5, TotalUnion
  <2> QED BY <1>1, <2>1, <2>2, <2>3, <2>6
<1>9. Reserved' = OnCard(Left(gone)) + h + pool'
  BY <1>6, <1>8 DEF Reserved
<1>10. OnCard(Left(gone)) + h <= CARD
  BY DEF h
<1> QED BY <1>2, <1>3, <1>5, <1>9, <1>10 DEF AtLeast0

\* A pipe that strict mode has not sent to memory fits on the card.
LEMMA NotDowngraded ==
    ASSUME Limits, NEW a \in Asks, a.loader = "pipe", Mode(a) = "none", knobs.strict = 1
    PROVE  WithFactor(estimate(a)) <= CARD - knobs.reserve
<1>1. ~Downgrade(a)
  BY DEF Mode
<1>2. Offload(a) = "none"
  BY <1>1 DEF Mode
<1> QED BY <1>1, <1>2, AskIs, KnobsAre, FactorIs, SizeAssumption DEF Downgrade, NeedsDowngrade

\* What it adds has room: nothing is short, or all that may be taken is gone, or
\* the books say that there is enough and the reserve covers what they exaggerate.
LEMMA BuiltFits ==
    ASSUME Inv, NEW l \in Executions, NEW a \in Asks, LoadBuilds(l, a), NEW k \in Added,
           knobs.strict = 1, ~oversubscribed, views[l] = {}, Floors <= knobs.reserve,
           Residents # {} \/ k.loader = "pipe"
    PROVE  Reserved' <= CARD
<1> DEFINE gone == EvictPass(l, Need(a))
           h == Entry(a).here
           est == estimate(a)
<1>1. /\ k = KeyOf(a) /\ gone \subseteq Residents \ Kept(l)
      /\ pins = {} /\ ~WaitsInVain(l, a, gone) /\ ~Refused(l, a, gone)
      /\ Left(gone) = Residents \ gone
  <2> HIDE DEF gone
  <2>1. gone = EvictPass(l, Need(a))
    BY DEF gone
  <2> QED BY <2>1, BuiltIs
<1>2. /\ est \in Nat /\ knobs.reserve \in Nat /\ Need(a) \in Nat /\ CARD \in Nat
      /\ est <= WithFactor(est) /\ WithFactor(est) \in Nat
      /\ (est = 0 => WithFactor(est) = 0)
  BY AskIs, KnobsAre, EntryIs, FactorIs, SizeAssumption DEF Inv
<1>3. Mode(a) # "none" => h = 0
  BY DEF Entry
<1>4. Mode(a) = "none" => h = est /\ Need(a) = WithFactor(est)
  BY DEF Entry, Need, BudgetOf
<1> HIDE DEF gone, h, est
<1>5. /\ OnCard(Left(gone)) \in Nat /\ OnCard(gone) \in Nat /\ OnCard(Residents) \in Nat
      /\ Claimed(gone) \in Nat
  BY <1>1, SumsAre DEF Inv
<1>6. /\ FreeBytes(Residents, pool) = CARD - OnCard(Residents)
      /\ FreeBytes(Left(gone), PoolAfter(gone)) = CARD - OnCard(Left(gone))
      /\ OnCard(Left(gone)) <= OnCard(Residents) /\ OnCard(Left(gone)) <= CARD
  <2>1. gone \subseteq Residents
    BY <1>1
  <2>2. PoolAfter(gone) \in Nat
    BY PoolIs DEF Inv
  <2> QED BY <1>2, <1>5, <2>1, <2>2, FreeIs
<1>7. OnCard(Left(gone)) + h <= CARD
  <2>1. CASE Mode(a) # "none"
    BY <1>2, <1>3, <1>5, <1>6, <2>1
  <2>2. CASE Mode(a) = "none" /\ Residents = {}
    <3>1. k.loader = a.loader
      BY <1>1 DEF KeyOf
    <3>2. WithFactor(est) <= CARD - knobs.reserve
      BY <2>2, <3>1, NotDowngraded DEF Inv, est
    <3>3. OnCard(Left(gone)) = 0
      <4>1. Left(gone) = {}
        BY <1>1, <2>2
      <4> QED BY <4>1, TotalNone DEF OnCard
    <3> QED BY <1>2, <1>4, <2>2, <3>2, <3>3
  <2>3. CASE Mode(a) = "none" /\ Residents # {} /\ ~Short(a, gone)
    <3>1. resident # << >>
      BY <2>3 DEF Residents, ToSet
    <3>2. Need(a) = 0 \/ CARD - OnCard(Left(gone)) >= Need(a) + knobs.reserve
      BY <1>2, <1>5, <1>6, <2>3, <3>1 DEF Short
    <3> QED BY <1>2, <1>4, <1>5, <1>6, <2>3, <3>2
  <2>4. CASE Mode(a) = "none" /\ Residents # {} /\ Short(a, gone)
    <3>1. OthersLeft(l, gone) = {}
      BY <1>1, <2>4 DEF WaitsInVain
    <3>2. Left(gone) \cap Kept(l) = {}
      BY <1>1, <3>1 DEF Kept, OthersLeft
    <3>3. Need(a) <= CARD - knobs.reserve
      <4>1. Claimed({}) = 0
        BY TotalNone DEF Claimed
      <4>2. ~(Claimed({}) + Need(a) > CARD - knobs.reserve)
        BY <1>1, <2>4, <3>1 DEF Refused
      <4> QED BY <1>2, <4>1, <4>2
    <3>4. Need(a) > 0
      BY <2>4 DEF Short
    <3>5. \/ Residents \ Kept(l) \subseteq gone
          \/ FreeBytes(Residents, pool) + Claimed(gone) >= Need(a) + knobs.reserve
      BY <1>2, <3>4, EvictPassIs DEF gone
    <3>6. CASE Residents \ Kept(l) \subseteq gone
      <4>1. Left(gone) = {}
        BY <1>1, <3>2, <3>6
      <4>2. OnCard(Left(gone)) = 0
        BY <4>1, TotalNone DEF OnCard
      <4> QED BY <1>2, <1>4, <2>4, <3>3, <4>2
    <3>7. CASE FreeBytes(Residents, pool) + Claimed(gone) >= Need(a) + knobs.reserve
      <4>1. gone \subseteq Residents
        BY <1>1
      <4>2. /\ Claimed(gone) <= OnCard(gone) + Floors /\ Floors \in Nat
            /\ OnCard(Residents) = OnCard(gone) + OnCard(Left(gone))
        BY <4>1, ClaimedIs, CardSplit DEF Inv
      <4> QED BY <1>2, <1>4, <1>5, <1>6, <2>4, <3>7, <4>2
    <3> QED BY <3>5, <3>6, <3>7
  <2> QED BY <2>1, <2>2, <2>3, <2>4
<1> QED BY <1>7, ReservedAfter DEF gone, h

\* In strict mode loads keep to the card: StrictLoadFits, for any files, sizes
\* and cards.
THEOREM StrictLoadsFit == Spec => StrictLoadFits
<1>1. ASSUME Inv, [Next]_vars, NEW k \in Added, knobs.strict = 1, ~oversubscribed,
             views[Loader(k)] = {}, Floors <= knobs.reserve,
             Residents # {} \/ k.loader = "pipe"
      PROVE  Reserved' <= CARD
  <2>1. PICK l \in Executions, a \in Asks : LoadBuilds(l, a)
    BY <1>1, Step DEF Added
  <2>2. Loader(k) = l
    BY <1>1, <2>1, BuiltIs
  <2> QED BY <1>1, <2>1, <2>2, BuiltFits
<1>2. Inv /\ [Next]_vars =>
          [\A k \in Added :
              (/\ knobs.strict = 1 /\ ~oversubscribed /\ views[Loader(k)] = {}
               /\ Floors <= knobs.reserve /\ (Residents # {} \/ k.loader = "pipe"))
              => Reserved' <= CARD]_vars
  BY <1>1
<1> QED BY Invariant, <1>2, PTL DEF Spec, StrictLoadFits

-----------------------------------------------------------------------------
(* Loads that go on short. *)

\* A key says what its model needs.
LEMMA NeedOfKey ==
    ASSUME NEW a \in Asks, NEW b \in Asks, KeyOf(a) = KeyOf(b)
    PROVE  Need(a) = Need(b)
<1>1. a.loader = b.loader /\ a.name = b.name /\ KeyKnobs(a) = KeyKnobs(b)
  BY DEF KeyOf
<1>2. Component(a) <=> Component(b)
  BY <1>1 DEF Component
<1>3. \A x, y, z : <<x>> # << >> /\ <<x, y>> # << >> /\ <<z>> # <<x, y>>
  <2>1. \A x, y : Len(<<x>>) = 1 /\ Len(<<x, y>>) = 2 /\ Len(<< >>) = 0
    OBVIOUS
  <2> QED BY <2>1
<1>4. Dtype(a) = Dtype(b) /\ Mode(a) = Mode(b)
  <2>1. CASE Component(a)
    BY <1>1, <1>2, <2>1 DEF KeyKnobs, Mode, Downgrade, Offload, Component
  <2>2. CASE ~Component(a) /\ (Explicit(a) \/ Downgrade(a))
    <3>1. Explicit(b) \/ Downgrade(b)
      BY <1>1, <1>2, <1>3, <2>2 DEF KeyKnobs
    <3> QED BY <1>1, <1>2, <2>2, <3>1 DEF KeyKnobs
  <2>3. CASE ~Component(a) /\ ~Explicit(a) /\ ~Downgrade(a)
    <3>1. ~Explicit(b) /\ ~Downgrade(b)
      BY <1>1, <1>2, <1>3, <2>3 DEF KeyKnobs
    <3> QED BY <1>1, <1>2, <2>3, <3>1 DEF Mode, Offload, Explicit, Dtype, Component
  <2> QED BY <2>1, <2>2, <2>3
<1>5. estimate(a) = estimate(b)
  BY <1>1, <1>4 DEF estimate
<1> QED BY <1>1, <1>4, <1>5 DEF Need

\* A load that goes on short has taken all it may: ShortHasTakenAll, for any
\* files, sizes and cards.
THEOREM ShortHasTaken == Spec => ShortHasTakenAll
<1> DEFINE Rest == Residents \cap Residents'
           Room == FreeBytes(Rest, IF Rest = Residents THEN pool ELSE 0)
<1>1. ASSUME Inv, [Next]_vars, NEW k \in Added, NEW a \in Asks, k = KeyOf(a),
             Residents # {}, Need(a) > 0, BooksAreTrue, Room < Need(a) + knobs.reserve
      PROVE  Rest \subseteq Kept(Loader(k))
  <2>1. PICK l \in Executions, b \in Asks : LoadBuilds(l, b)
    BY <1>1, Step DEF Added
  <2> DEFINE gone == EvictPass(l, Need(b))
  <2>2. /\ k = KeyOf(b) /\ Loader(k) = l /\ Rest = Left(gone) /\ gone \subseteq Residents \ Kept(l)
        /\ Left(gone) = Residents \ gone
    <3> HIDE DEF gone
    <3>1. gone = EvictPass(l, Need(b))
      BY DEF gone
    <3> QED BY <1>1, <2>1, <3>1, BuiltIs
  <2>3. Need(a) = Need(b) /\ Need(b) \in Nat /\ knobs.reserve \in Nat /\ CARD \in Nat
    BY <1>1, <2>2, NeedOfKey, EntryIs, KnobsAre, SizeAssumption DEF Inv
  <2>4. \/ Residents \ Kept(l) \subseteq gone
        \/ FreeBytes(Residents, pool) + Claimed(gone) >= Need(b) + knobs.reserve
    BY <1>1, <2>3, EvictPassIs
  <2> HIDE DEF gone, Rest
  <2>5. CASE Residents \ Kept(l) \subseteq gone
    BY <2>2, <2>5
  <2>6. CASE FreeBytes(Residents, pool) + Claimed(gone) >= Need(b) + knobs.reserve
    <3>1. (IF Rest = Residents THEN pool ELSE 0) = PoolAfter(gone)
      BY <2>2 DEF PoolAfter
    <3>2. Room = FreeBytes(Left(gone), PoolAfter(gone))
      BY <2>2, <3>1
    <3>3. ~oversubscribed /\ (\A o \in Residents : entry[o].mode = "none") /\ gone \subseteq Residents
      BY <1>1, <2>2 DEF BooksAreTrue
    <3>4. /\ FreeBytes(Residents, pool) = CARD - OnCard(Residents)
          /\ FreeBytes(Left(gone), PoolAfter(gone)) = CARD - OnCard(Left(gone))
      BY <1>1, <3>3, FreeIs
    <3>5. Claimed(gone) = OnCard(gone) /\ OnCard(Residents) = OnCard(gone) + OnCard(Left(gone))
      BY <1>1, <3>3, ClaimedIs, CardSplit DEF Inv
    <3>6. OnCard(gone) \in Nat /\ OnCard(Left(gone)) \in Nat /\ OnCard(Residents) \in Nat
      BY <1>1, <2>2, <3>3, SumsAre DEF Inv
    <3>7. Room < Need(a) + knobs.reserve
      BY <1>1
    <3> HIDE DEF Room
    <3>8. CARD - OnCard(Left(gone)) < Need(b) + knobs.reserve
      BY <2>3, <3>2, <3>4, <3>7
    <3> QED BY <2>3, <2>6, <3>4, <3>5, <3>6, <3>8
  <2> QED BY <2>4, <2>5, <2>6
<1>2. Inv /\ [Next]_vars =>
          [\A k \in Added, a \in Asks :
              LET left == Residents \cap Residents'
                  room == FreeBytes(left, IF left = Residents THEN pool ELSE 0)
              IN  (/\ k = KeyOf(a) /\ Residents # {} /\ Need(a) > 0 /\ BooksAreTrue
                   /\ room < Need(a) + knobs.reserve)
                  => left \subseteq Kept(Loader(k))]_vars
  BY <1>1
<1> QED BY Invariant, <1>2, PTL DEF Spec, ShortHasTakenAll
=============================================================================
