------------------------------ MODULE TwoPeers ------------------------------
(***************************************************************************)
(* Two processes with a connection to each other: their candidate sets,    *)
(* probe controllers and run tokens, the DHT between them and a network    *)
(* that loses, duplicates and reorders frames.  Either may be restarted,   *)
(* be given another public address, or fail to look its address up.        *)
(*                                                                         *)
(* A frame only carries a token.  A probe carries the token of the peer it *)
(* is for; whoever sees its own token echoes the frame, and whoever sees   *)
(* the other's has been answered.  When to probe is ProbeController's      *)
(* matter, the critical sections inside one process are Session's and the  *)
(* age of records is Rendezvous's; here a record is only older or newer.   *)
(***************************************************************************)
EXTENDS Integers, Sequences, FiniteSets

CONSTANTS
  Peer,             \* the two of them
  Addr,             \* public addresses
  Owner,            \* [Addr -> Peer]: whose an address can be
  Home,             \* [Peer -> Addr]: each peer's first public address
  Mute,             \* peers whose every lookup may fail
  None,             \* Option::None
  MaxPeerReflexive, \* MAX_PEER_REFLEXIVE_CANDIDATES
  MaxTroubles,      \* bound: restarts, moves and failed lookups
  MaxFrames         \* bound: frames of one peer in flight

ASSUME PeersAssumption ==
  /\ Cardinality(Peer) = 2 /\ Cardinality(Mute) < 2
  /\ Owner \in [Addr -> Peer]
  /\ Home \in [Peer -> Addr] /\ \A p \in Peer : Owner[Home[p]] = p
  /\ Cardinality(Addr) < MaxPeerReflexive

VARIABLES
  mute,             \* the peers whose every lookup does fail
  run,              \* each peer's run
  at,               \* each peer's public address
  addresses,        \* what each peer's publisher has to publish
  dht,              \* each peer's records, oldest first: <<run, list>>
  taken,            \* number of the other's record each one has in force, or 0
  connections,      \* each peer's CandidateSet
  control,          \* each peer's probe controller
  frames,           \* in flight: [from, to, token, hop]
  answered,         \* history: <<token, from>> of each echo that was sent
  troubles          \* restarts, moves and failed lookups so far

vars == <<mute, run, at, addresses, dht, taken, connections, control, frames, answered, troubles>>

INSTANCE CandidateSet

Token == Peer \X (1..MaxTroubles + 1)

Control == INSTANCE PathControl
  WITH RemoteToken <- Token, MaxProbePaths <- Cardinality(Addr), out <- frames

Other(p) == CHOOSE q \in Peer : q # p

\* local_token: random, so that no two runs have the same.
LocalToken(p) == <<p, run[p]>>

Init ==
  /\ mute \in SUBSET Mute
  /\ run = [p \in Peer |-> 1]
  /\ at = Home
  /\ addresses = [p \in Peer |-> {}]
  /\ dht = [p \in Peer |-> <<>>]
  /\ taken = [p \in Peer |-> 0]
  /\ connections = [p \in Peer |-> EmptyCandidates]
  /\ control = [p \in Peer |-> Control!New]
  /\ frames = {}
  /\ answered = {}
  /\ troubles = 0

-----------------------------------------------------------------------------
(* Publishing: the list of the last lookup and the token of this run.      *)

Record(p) == <<run[p], addresses[p]>>

\* A put of the record that is there already only renews its timestamp.
Publish(p) ==
  /\ dht[p] # <<>> => dht[p][Len(dht[p])] # Record(p)
  /\ dht' = [dht EXCEPT ![p] = Append(@, Record(p))]
  /\ UNCHANGED <<mute, run, at, addresses, taken, connections, control, frames, answered, troubles>>

LookupSucceeds(p) ==
  /\ p \notin mute
  /\ addresses[p] # {at[p]}
  /\ addresses' = [addresses EXCEPT ![p] = {at[p]}]
  /\ UNCHANGED <<mute, run, at, dht, taken, connections, control, frames, answered, troubles>>

Trouble == troubles < MaxTroubles /\ troubles' = troubles + 1

LookupFails(p) ==
  /\ Trouble
  /\ addresses' = [addresses EXCEPT ![p] = {}]
  /\ UNCHANGED <<mute, run, at, dht, taken, connections, control, frames, answered>>

\* A new token, and nothing remembered: records taken before are taken again.
Restart(p) ==
  /\ Trouble
  /\ run' = [run EXCEPT ![p] = @ + 1]
  /\ addresses' = [addresses EXCEPT ![p] = {}]
  /\ taken' = [taken EXCEPT ![p] = 0]
  /\ connections' = [connections EXCEPT ![p] = EmptyCandidates]
  /\ control' = [control EXCEPT ![p] = Control!New]
  /\ UNCHANGED <<mute, at, dht, frames, answered>>

Move(p) ==
  /\ Trouble
  /\ \E a \in Addr \ {at[p]} : Owner[a] = p /\ at' = [at EXCEPT ![p] = a]
  /\ UNCHANGED <<mute, run, addresses, dht, taken, connections, control, frames, answered>>

-----------------------------------------------------------------------------
(* Listening.                                                              *)

\* Mutant: the token of the first record is kept.
FirstToken(c, token, list) ==
  Control!Updated(c, IF c.token = None THEN token ELSE c.token, list)

NewControl(c, token, list) == Control!Updated(c, token, list)

\* Any record newer than the one in force.
Listen(p, n) ==
  LET q == Other(p)
      token == <<q, dht[q][n][1]>>
      list == dht[q][n][2]
  IN  /\ n \in taken[p] + 1 .. Len(dht[q])
      /\ taken' = [taken EXCEPT ![p] = n]
      /\ connections' = [connections EXCEPT ![p] = ReplaceAdvertised(@, list)]
      /\ control' = [control EXCEPT ![p] = NewControl(@, token, list)]
      /\ UNCHANGED <<mute, run, at, addresses, dht, frames, answered, troubles>>

-----------------------------------------------------------------------------
(* Frames.                                                                 *)

\* A frame may arrive any number of times, or never, until later frames of its
\* sender take its place.
Sends(p, new) ==
  LET sent == {f \in frames : Owner[f.from] = p}
  IN  \E kept \in SUBSET sent :
        /\ frames' = (frames \ sent) \cup kept \cup new
        /\ Cardinality(kept \cup new) <= MaxFrames
        /\ kept = sent \/ Cardinality(kept \cup new) = MaxFrames

\* schedule_probes, for the paths due by now.
Probe(p, due) ==
  /\ due # {} /\ due \subseteq Control!Known(control[p])
  /\ control' = [control EXCEPT ![p] = Control!Probed(@, due)]
  /\ Sends(p, {[from |-> at[p], to |-> a, token |-> control[p].token, hop |-> 0] : a \in due})
  /\ UNCHANGED <<mute, run, at, addresses, dht, taken, connections, answered, troubles>>

\* Mutant: a frame with either token is a request.
IsEitherToken(p, f) == f.token \in {LocalToken(p), control[p].token}

IsRequest(p, f) == f.token = LocalToken(p)

\* Mutant: only a source that is probed too is admitted.
AdmittedIfKnown(p, source) ==
  IF source \in Control!Known(control[p]) THEN AddPeerReflexive(connections[p], source)
  ELSE connections[p]

Admitted(p, source) == AddPeerReflexive(connections[p], source)

\* handle_packets on a request: the source is admitted and the frame echoed.
Echo(p, f) ==
  /\ f \in frames /\ f.to = at[p]
  /\ IsRequest(p, f)
  /\ connections' = [connections EXCEPT ![p] = Admitted(p, f.from)]
  /\ Sends(p, {[from |-> at[p], to |-> f.from, token |-> f.token, hop |-> f.hop + 1]})
  /\ answered' = answered \cup {<<f.token, at[p]>>}
  /\ UNCHANGED <<mute, run, at, addresses, dht, taken, control, troubles>>

\* Mutant: the echoes of the other's earlier runs count too.
IsAnswerOfAnyRun(p, f) == ~IsRequest(p, f) /\ f.token[1] = Other(p)

IsAnswer(p, f) == ~IsRequest(p, f) /\ f.token = control[p].token

\* ... and on an acknowledgement of an outstanding probe.
Acknowledge(p, f) ==
  /\ f \in frames /\ f.to = at[p]
  /\ IsAnswer(p, f)
  /\ Control!CanAcknowledge(control[p], f.from)
  /\ control' = [control EXCEPT ![p] = Control!Acknowledged(@, f.from)]
  /\ UNCHANGED <<mute, run, at, addresses, dht, taken, connections, frames, answered, troubles>>

Handle(p) == \E f \in frames : Echo(p, f) \/ Acknowledge(p, f)

Next ==
  \E p \in Peer :
    \/ Publish(p) \/ LookupSucceeds(p) \/ LookupFails(p) \/ Restart(p) \/ Move(p)
    \/ \E n \in 1..Len(dht[Other(p)]) : Listen(p, n)
    \/ \E due \in SUBSET Addr : Probe(p, due)
    \/ Handle(p)

Spec == Init /\ [][Next]_vars

Heard(p) == {f \in frames : f.from = at[Other(p)]}

\* Lookups, puts and the delivery of the newest record go on while there is one
\* to make; there are only so many, so that none of them is put off for ever.  All
\* paths are probed again and again, and of the frames sent again and again from
\* where a peer is some arrive.
FairSpec ==
  /\ Spec
  /\ WF_vars(\E p \in Peer : \/ Publish(p) \/ LookupSucceeds(p)
                             \/ Listen(p, Len(dht[Other(p)])))
  /\ \A p \in Peer :
       /\ WF_vars(Probe(p, Control!Known(control[p])))
       /\ SF_vars(\E f \in Heard(p) : Echo(p, f))
       /\ SF_vars(\E f \in Heard(p) : Acknowledge(p, f))

-----------------------------------------------------------------------------
\* A path counts as verified only when the very run whose token the controller
\* holds has answered from that very address: no late, duplicated or replayed
\* frame of an earlier run and no answer from elsewhere verifies it
\* (probe.rs, update_remote and packet_action; control-plane-probes.md, "control-
\* verified for this run").
VerifiedMeansAnswered ==
  \A p \in Peer : \A a \in Control!VerifiedPaths(control[p]) :
    <<control[p].token, a>> \in answered

\* An echo is never echoed, in whatever state of the two peers it arrives, also
\* after restarts (control-plane-probes.md, "cannot create a ping-pong loop").
EchoEndsExchange == \A f \in frames : f.hop <= 1

\* When the restarts, moves and failures are over each peer comes to hold the
\* other's present address as a candidate for good, also when the other's every
\* lookup fails and only its probes show where it is (probe.rs, handle_packets
\* with add_peer_reflexive, and listen_for_peer_candidates).
BothReachable ==
  \A p \in Peer : <>[](at[Other(p)] \in Addresses(connections[p]))

\* ... and a peer that does look its address up is verified again and again by
\* the other under the token of its present run.
BothVerify ==
  \A p \in Peer : Other(p) \notin mute =>
    []<>(/\ control[p].token = LocalToken(Other(p))
         /\ at[Other(p)] \in Control!VerifiedPaths(control[p]))
=============================================================================
