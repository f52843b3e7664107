----------------------------- MODULE MCTwoPeers -----------------------------
(* One peer with a fixed address, and one whose address may change and whose *)
(* lookups may all fail. *)
EXTENDS TwoPeers

CONSTANTS still, mover, a1, b1, b2

MCPeer == {still, mover}
MCAddr == {a1, b1, b2}
MCOwner == [a \in MCAddr |-> IF a = a1 THEN still ELSE mover]
MCHome == [p \in MCPeer |-> IF p = still THEN a1 ELSE b1]
MCMute == {mover}
=============================================================================
