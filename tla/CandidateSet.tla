---------------------------- MODULE CandidateSet ----------------------------
(***************************************************************************)
(* CandidateSet of src/src/transport.rs: the remote addresses WireGuard    *)
(* datagrams are sent to and accepted from.  The addresses of the latest   *)
(* DHT record and the ones that presented the local probe token are two    *)
(* sets, and an address may be in both.                                    *)
(***************************************************************************)
EXTENDS Integers, FiniteSets

CONSTANT
  MaxPeerReflexive  \* MAX_PEER_REFLEXIVE_CANDIDATES

EmptyCandidates == [advertised |-> {}, peer_reflexive |-> {}]

Addresses(c) == c.advertised \cup c.peer_reflexive

Contains(c, address) == address \in Addresses(c)

ReplaceAdvertised(c, addresses) == [c EXCEPT !.advertised = addresses]

\* An address of either set is not added again, and a full set takes no more.
AddPeerReflexive(c, address) ==
  IF Contains(c, address) \/ Cardinality(c.peer_reflexive) = MaxPeerReflexive
  THEN c
  ELSE [c EXCEPT !.peer_reflexive = @ \cup {address}]
=============================================================================
