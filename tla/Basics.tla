-------------------------------- MODULE Basics --------------------------------
(***************************************************************************)
(* Two idioms of the code as functions that can be reasoned about: a list  *)
(* comprehension, and a sum over a set.                                    *)
(***************************************************************************)
EXTENDS Naturals, Sequences, FiniteSets

\* [x for x in s if x in S]
Only(s, S) ==
    LET taken[i \in 0 .. Len(s)] ==
            IF i = 0 THEN <<>>
            ELSE IF s[i] \in S THEN Append(taken[i - 1], s[i]) ELSE taken[i - 1]
    IN  taken[Len(s)]

\* The sum of size[j] over J, by counting as many units of each.
Total(J, size) == Cardinality(UNION {{j} \X (1 .. size[j]) : j \in J})
===============================================================================
