------------------------------ MODULE MCGather ------------------------------
(* Gather, for the delays of candidates.rs in units of three seconds. *)
EXTENDS Gather
=============================================================================
