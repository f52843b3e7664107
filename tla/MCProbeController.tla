-------------------------- MODULE MCProbeController --------------------------
(* ProbeController for TLC: its constants are all given in the configuration. *)
EXTENDS ProbeController
=============================================================================
