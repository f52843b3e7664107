---------------------------- MODULE MCRendezvous ----------------------------
(* Rendezvous, with the delays of candidates.rs scaled down in their order: a    *)
(* record lives for several refreshes, and is believed from less far ahead than *)
(* back.  The clock is right, or further ahead than is believed. *)
EXTENDS Rendezvous
=============================================================================
