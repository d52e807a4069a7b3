---------------------------- MODULE MCWebhooks ----------------------------
(* Small instances of Webhooks for TLC. *)
EXTENDS Webhooks, TLC

Symmetry == Permutations(Endpoint) \cup Permutations(Doc) \cup Permutations(Request)
=============================================================================
