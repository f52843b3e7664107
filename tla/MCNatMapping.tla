---------------------------- MODULE MCNatMapping ----------------------------
(* NatMapping, in units of thirty seconds. *)
EXTENDS NatMapping
=============================================================================
