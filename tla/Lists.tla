-------------------------------- MODULE Lists --------------------------------
(***************************************************************************)
(* Operators on lists and sets of numbers, as SequencesExt and             *)
(* FiniteSetsExt have them.  These bring Bags, TLC and Folds with them,    *)
(* which every step of a proof would have to carry along; the modules that *)
(* are reasoned about take what they need from here.                       *)
(***************************************************************************)
EXTENDS Integers, Sequences, FiniteSets

Min(S) == CHOOSE x \in S : \A y \in S : x <= y
Max(S) == CHOOSE x \in S : \A y \in S : x >= y

ToSet(l) == {l[i] : i \in DOMAIN l}
Contains(l, x) == \E i \in 1..Len(l) : l[i] = x
Last(l) == l[Len(l)]
RemoveAt(l, n) == SubSeq(l, 1, n - 1) \o SubSeq(l, n + 1, Len(l))

(* The place of the first x in l, or 0.                                    *)
PlaceOf(l, x) ==
    LET at == {i \in 1..Len(l) : l[i] = x}
    IN  IF at = {} THEN 0 ELSE Min(at)

(* The lists in ll, one behind the other.                                  *)
FlattenSeq(ll) ==
    LET upTo[i \in 1..Len(ll)] == IF i = 1 THEN ll[i] ELSE upTo[i - 1] \o ll[i]
    IN  IF ll = <<>> THEN <<>> ELSE upTo[Len(ll)]

(* The lists that have every element of the set S once.                    *)
SetToSeqs(S) ==
    {l \in [1..Cardinality(S) -> S] : \A i, j \in DOMAIN l : i # j => l[i] # l[j]}
==============================================================================
