----------------------------- MODULE Selection -----------------------------
(***************************************************************************)
(* The elements of a sequence at some of its positions, in their order.    *)
(* SelectSeq is the same for the positions that pass a test, but defined   *)
(* by recursion, which the provers do not expand, and so is SortSeq.       *)
(***************************************************************************)
EXTENDS Integers, Sequences, FiniteSets

(* How many of the positions are at most i.                                *)
PlaceIn(I, i) == Cardinality({j \in I : j <= i})

(* The position at place k, a set of one.                                  *)
AtPlace(I, k) == {i \in I : PlaceIn(I, i) = k}

ElementsAt(s, I) ==
  [k \in 1 .. Cardinality(I) |-> s[CHOOSE i \in AtPlace(I, k) : TRUE]]

(* A sequence in the order of its keys, which are different numbers.       *)
SortedBy(s, key) ==
  LET keys == {key[i] : i \in DOMAIN s}
  IN  [k \in DOMAIN s |-> s[CHOOSE i \in DOMAIN s : PlaceIn(keys, key[i]) = k]]
=============================================================================
