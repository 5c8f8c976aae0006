-------------------------- MODULE MCLongMessageEx --------------------------
(* LongMessageEx with the streams that the receiver subscribes to, which   *)
(* all have the same part, as a symmetric set.                             *)
EXTENDS LongMessageEx

Symmetry == Permutations(Subscribed)
=============================================================================
