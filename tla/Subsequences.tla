----------------------------- MODULE Subsequences -----------------------------
(***************************************************************************)
(* What is left of a sequence when a test has been put to its items: the   *)
(* filters of the code (Enum.filter, Enum.reject, Array.filter).  They are *)
(* told by places and cardinalities, without recursion, so that proofs can *)
(* use them (Sequences!SelectSeq is opaque to the provers).                *)
(***************************************************************************)
EXTENDS Naturals, Sequences, FiniteSets

\* The k-th of the places P, from the front.
Nth(P, k) == CHOOSE i \in P : Cardinality({j \in P : j <= i}) = k

\* What stands at the places P, in order.
PickedAt(seq, P) == [k \in 1..Cardinality(P) |-> seq[Nth(P, k)]]

\* The items that are in S.
Kept(seq, S) == PickedAt(seq, {i \in DOMAIN seq : seq[i] \in S})

\* The numbers of a finite set, from the least up.
Ascending(S) == [k \in 1..Cardinality(S) |-> Nth(S, k)]
=============================================================================
