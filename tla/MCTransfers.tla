----------------------------- MODULE MCTransfers -----------------------------
(* Transfers: one upload that takes all of the quota, two downloads that share it. *)
EXTENDS Transfers

CONSTANTS u1, d1, d2

MCChunkSize == [t \in Transfer |-> CASE t = u1 -> 3 [] t = d1 -> 1 [] t = d2 -> 2]
=============================================================================
