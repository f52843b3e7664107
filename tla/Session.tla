------------------------------- MODULE Session -------------------------------
(***************************************************************************)
(* One local/remote connection: the tasks service.rs spawns for it around  *)
(* the candidate set and the probe controller, in an arbitrary network.    *)
(*                                                                         *)
(*   DHT listener      listen_for_peer_candidates, candidates.rs           *)
(*   control handler   handle_packets, probe.rs                            *)
(*   probe scheduler   schedule_probes, probe.rs                           *)
(*   loopback task     bind_loopback_and_forward, transport.rs             *)
(*   inbound task      forward_inbound_traffic, transport.rs               *)
(*                                                                         *)
(* The runtime is multi-threaded, so the tasks interleave between any two  *)
(* critical sections.  The candidate set and the controller have a lock    *)
(* each: the listener takes the first to read, again to write, and then    *)
(* the second; the handler takes the second and then the first.  Each      *)
(* critical section is one action here.  The controller is PathControl,    *)
(* which ProbeController implements.                                       *)
(*                                                                         *)
(* DHT values come from anywhere, in any order and any number of times; a  *)
(* value that does not decrypt or parse is ignored and is not modelled.    *)
(* Timestamps are kept relative to the local clock.                        *)
(***************************************************************************)
EXTENDS Integers, Sequences, FiniteSets

CONSTANTS
  Addr,             \* SocketAddr values
  Ipv4,             \* the IPv4 addresses
  Usable,           \* the addresses is_usable_peer_addr accepts
  RemoteToken,      \* run tokens a remote record may carry
  None,             \* Option::None
  WgAddr,           \* loopback endpoints of the local WireGuard
  AddrLists,        \* ip_addr_list values of DHT records
  MaxProbePaths,    \* MAX_PROBE_PATHS
  MaxPeerReflexive, \* MAX_PEER_REFLEXIVE_CANDIDATES
  MaxRemote,        \* MAX_REMOTE_CANDIDATES
  MaxAge,           \* MAX_DHT_MESSAGE_AGE
  MaxSkew           \* MAX_DHT_FUTURE_SKEW

\* Every address of a record has a path: both limits are 64.
ASSUME SessionAssumption ==
  /\ \A bound \in {MaxProbePaths, MaxPeerReflexive, MaxRemote, MaxAge, MaxSkew} : bound \in Nat
  /\ MaxRemote <= MaxProbePaths
  /\ \A list \in AddrLists : list \in Seq(Addr)
  /\ None \notin RemoteToken /\ None \notin Addr /\ None \notin WgAddr /\ None \notin Int

VARIABLES
  flags,            \* ConnectionFlags: [filter_ipv6, no_clear]
  connections,      \* Connections: the shared CandidateSet
  control,          \* the shared ProbeController
  last_timestamp,   \* of the listener, relative to the local clock
  listener,         \* [pc, token, peers]: where the listener is, its locals
  handler,          \* source whose request is being admitted and echoed
  local_peer,       \* LocalPeer.1: where inbound packets are delivered
  loopback,         \* source of the WireGuard datagram about to be forwarded
  inbound,          \* source of the packet that passed the candidate check
  sent,             \* what the last step offered to a UDP queue (full, it drops)
  newest,           \* history: timestamp of the newest fresh record delivered
  record,           \* history: the DHT record in force
  offered,          \* history: every address an accepted record listed
  presented         \* history: every source that presented the local token

vars == <<flags, connections, control, last_timestamp, listener, handler,
          local_peer, loopback, inbound, sent, newest, record, offered, presented>>

listenerVars == <<last_timestamp, newest, listener, record, offered>>

INSTANCE CandidateSet

Control == INSTANCE PathControl WITH out <- sent

\* Echoes, probes and WireGuard datagrams for the network, and the sources of
\* datagrams for the local WireGuard.
Nothing == [echo |-> {}, probe |-> {}, data |-> {}, delivered |-> {}]

Message ==
  [timestamp : -(MaxAge + 1)..(MaxSkew + 1), ip_addr_list : AddrLists,
   token : RemoteToken \cup {None}]

Init ==
  /\ flags \in [filter_ipv6 : BOOLEAN, no_clear : BOOLEAN]
  /\ connections = EmptyCandidates
  /\ control = Control!New
  /\ last_timestamp = None
  /\ listener = [pc |-> "idle", token |-> None, peers |-> {}]
  /\ handler = None
  /\ local_peer = None
  /\ loopback = None
  /\ inbound = None
  /\ sent = Nothing
  /\ newest = None
  /\ record = None
  /\ offered = {}
  /\ presented = {}

-----------------------------------------------------------------------------
(* The DHT listener. *)

\* Mutant: records from the future are fresh.
IsNotOld(timestamp) == -MaxAge <= timestamp

IsFresh(timestamp) == -MaxAge <= timestamp /\ timestamp <= MaxSkew

\* Mutant: only a record with the very same timestamp is a replay.
IsOther(timestamp) == timestamp # last_timestamp

\* Equal or older timestamps are replays.
IsNew(timestamp) == last_timestamp # None => timestamp > last_timestamp

Newest(timestamp) == IF newest = None \/ newest < timestamp THEN timestamp ELSE newest

\* Mutant: filter_ipv6 is ignored.
AnyFamily(address) == TRUE

FamilyAllowed(address) == flags.filter_ipv6 => address \in Ipv4

Acceptable(address) == FamilyAllowed(address) /\ address \in Usable

\* The first MaxRemote acceptable entries of the list, as a set.
Learned(list) ==
  LET rank(i) == Cardinality({j \in 1..i : Acceptable(list[j])})
  IN  {list[i] : i \in {i \in DOMAIN list : Acceptable(list[i]) /\ rank(i) <= MaxRemote}}

\* Mutant: what no_clear retains is not capped.
RetainedAll(learned) ==
  {IF flags.no_clear THEN learned \cup {a \in connections.advertised : FamilyAllowed(a)}
   ELSE learned}

\* Mutant: what no_clear retains takes its room before the new addresses.
RetainedFirst(learned) ==
  IF flags.no_clear /\ Cardinality(connections.advertised) = MaxRemote
  THEN {connections.advertised} ELSE {learned}

\* With no_clear, known addresses fill the room that is left, in HashSet order.
Retained(learned) ==
  LET known == {a \in connections.advertised : FamilyAllowed(a)}
  IN  IF ~flags.no_clear THEN {learned}
      ELSE {learned \cup extra : extra \in
             {e \in SUBSET (known \ learned) :
                /\ Cardinality(learned \cup e) <= MaxRemote
                /\ e = known \ learned \/ Cardinality(learned \cup e) = MaxRemote}}

\* A record passes the freshness and replay checks, and its addresses are
\* compared with the current ones under the read lock.
ListenerAccept(m) ==
  /\ listener.pc = "idle"
  /\ IsFresh(m.timestamp) /\ IsNew(m.timestamp)
  /\ last_timestamp' = m.timestamp
  /\ newest' = Newest(m.timestamp)
  /\ \E peers \in Retained(Learned(m.ip_addr_list)) :
       listener' = [pc    |-> IF peers = connections.advertised THEN "probes" ELSE "write",
                    token |-> m.token,
                    peers |-> peers]
  /\ record' = [ip_addr_list |-> m.ip_addr_list, token |-> m.token]
  /\ offered' = offered \cup {m.ip_addr_list[i] : i \in DOMAIN m.ip_addr_list}
  /\ sent' = Nothing
  /\ UNCHANGED <<flags, connections, control, handler, local_peer, loopback, inbound,
                 presented>>

\* A record that is not fresh, or is a replay.
ListenerIgnore(m) ==
  /\ listener.pc = "idle"
  /\ ~(IsFresh(m.timestamp) /\ IsNew(m.timestamp))
  /\ newest' = IF IsFresh(m.timestamp) THEN Newest(m.timestamp) ELSE newest
  /\ sent' = Nothing
  /\ UNCHANGED <<flags, connections, control, last_timestamp, listener, handler,
                 local_peer, loopback, inbound, record, offered, presented>>

\* The write lock, taken again after the read lock was dropped.
ListenerReplace ==
  /\ listener.pc = "write"
  /\ connections' = ReplaceAdvertised(connections, listener.peers)
  /\ listener' = [listener EXCEPT !.pc = "probes"]
  /\ sent' = Nothing
  /\ UNCHANGED <<flags, control, last_timestamp, handler, local_peer, loopback, inbound,
                 newest, record, offered, presented>>

\* Mutant: the controller is only told of a new token.
ListenerUpdateToken ==
  /\ listener.pc = "probes"
  /\ \E selected \in Control!Selections(listener.peers) :
       control' = IF listener.token = control.token THEN control
                  ELSE Control!Updated(control, listener.token, selected)
  /\ listener' = [pc |-> "idle", token |-> None, peers |-> {}]
  /\ sent' = Nothing
  /\ UNCHANGED <<flags, connections, last_timestamp, handler, local_peer, loopback, inbound,
                 newest, record, offered, presented>>

ListenerUpdateProbes ==
  /\ listener.pc = "probes"
  /\ \E selected \in Control!Selections(listener.peers) :
       control' = Control!Updated(control, listener.token, selected)
  /\ listener' = [pc |-> "idle", token |-> None, peers |-> {}]
  /\ sent' = Nothing
  /\ UNCHANGED <<flags, connections, last_timestamp, handler, local_peer, loopback, inbound,
                 newest, record, offered, presented>>

-----------------------------------------------------------------------------
(* The control handler and the probe scheduler. *)

\* packet_action on a frame with the local token: echoed and admitted, or
\* dropped by the rate limit.
HandlerRequest(source) ==
  /\ handler = None
  /\ handler' = source
  /\ presented' = presented \cup {source}
  /\ sent' = Nothing
  /\ UNCHANGED <<flags, connections, control, listenerVars, local_peer, loopback, inbound>>

\* The candidate set's write lock, then the echo.
HandlerAdmit ==
  /\ handler # None
  /\ connections' = AddPeerReflexive(connections, handler)
  /\ handler' = None
  /\ sent' = [Nothing EXCEPT !.echo = {handler}]
  /\ UNCHANGED <<flags, control, listenerVars, local_peer, loopback, inbound, presented>>

HandlerAcknowledge(token, source) ==
  /\ handler = None
  /\ control.token = token
  /\ Control!CanAcknowledge(control, source)
  /\ control' = Control!Acknowledged(control, source)
  /\ sent' = Nothing
  /\ UNCHANGED <<flags, connections, listenerVars, handler, local_peer, loopback, inbound,
                 presented>>

SchedulerDue ==
  \E due \in SUBSET Control!Known(control) :
    /\ control' = Control!Probed(control, due)
    /\ sent' = [Nothing EXCEPT !.probe = due]
    /\ UNCHANGED <<flags, connections, listenerVars, handler, local_peer, loopback, inbound,
                 presented>>

-----------------------------------------------------------------------------
(* The data plane. *)

\* A datagram from WireGuard tells where to deliver, under local_peer's lock.  No
\* other task writes it, so the comparison and the write are one step.
LoopbackReceive(wireguard_addr) ==
  /\ loopback = None
  /\ loopback' = wireguard_addr
  /\ local_peer' = wireguard_addr
  /\ sent' = Nothing
  /\ UNCHANGED <<flags, connections, control, listenerVars, handler, inbound, presented>>

\* It is queued for every candidate, under the candidate set's lock.
LoopbackForward ==
  /\ loopback # None
  /\ loopback' = None
  /\ sent' = [Nothing EXCEPT !.data = Addresses(connections)]
  /\ UNCHANGED <<flags, connections, control, listenerVars, handler, local_peer, inbound,
                 presented>>

\* Mutant: every source is forwarded.
InboundUnchecked(source) ==
  /\ inbound = None
  /\ inbound' = source
  /\ sent' = Nothing
  /\ UNCHANGED <<flags, connections, control, listenerVars, handler, local_peer, loopback,
                 presented>>

InboundCheck(source) ==
  /\ inbound = None
  /\ Contains(connections, source)
  /\ inbound' = source
  /\ sent' = Nothing
  /\ UNCHANGED <<flags, connections, control, listenerVars, handler, local_peer, loopback,
                 presented>>

\* Delivered to WireGuard once WireGuard's own endpoint is known.
InboundForward ==
  /\ inbound # None
  /\ inbound' = None
  /\ sent' = IF local_peer = None THEN Nothing
             ELSE [Nothing EXCEPT !.delivered = {inbound}]
  /\ UNCHANGED <<flags, connections, control, listenerVars, handler, local_peer, loopback,
                 presented>>

\* The clock moves on.  A record that is fresh is newer than any timestamp older
\* than MaxAge, so the age of last_timestamp is not followed further.
Tick ==
  /\ last_timestamp # None
  /\ last_timestamp >= -MaxAge
  /\ last_timestamp' = last_timestamp - 1
  /\ newest' = newest - 1
  /\ sent' = Nothing
  /\ UNCHANGED <<flags, connections, control, listener, handler, local_peer, loopback, inbound,
                 record, offered, presented>>

Next ==
  \/ \E m \in Message : ListenerAccept(m) \/ ListenerIgnore(m)
  \/ ListenerReplace
  \/ ListenerUpdateProbes
  \/ \E source \in Addr : HandlerRequest(source) \/ InboundCheck(source)
  \/ HandlerAdmit
  \/ \E token \in RemoteToken, source \in Addr : HandlerAcknowledge(token, source)
  \/ SchedulerDue
  \/ \E wireguard_addr \in WgAddr : LoopbackReceive(wireguard_addr)
  \/ LoopbackForward
  \/ InboundForward
  \/ Tick

Spec == Init /\ [][Next]_vars

-----------------------------------------------------------------------------
TypeOK ==
  /\ flags \in [filter_ipv6 : BOOLEAN, no_clear : BOOLEAN]
  /\ connections \in [advertised : SUBSET Addr, peer_reflexive : SUBSET Addr]
  /\ control \in [token : RemoteToken \cup {None}, status : [Addr -> Control!Status]]
  /\ last_timestamp \in -(MaxAge + 1)..MaxSkew \cup {None}
  /\ listener \in [pc : {"idle", "write", "probes"}, token : RemoteToken \cup {None},
                   peers : SUBSET Addr]
  /\ handler \in Addr \cup {None}
  /\ local_peer \in WgAddr \cup {None}
  /\ loopback \in WgAddr \cup {None}
  /\ inbound \in Addr \cup {None}
  /\ sent \in [echo : SUBSET Addr, probe : SUBSET Addr, data : SUBSET Addr,
               delivered : SUBSET Addr]
  /\ offered \in SUBSET Addr
  /\ presented \in SUBSET Addr

\* The candidate set and the probe controller describe the same record although
\* listen_for_peer_candidates updates them under different locks: outside the
\* step between the two, the controller's paths are exactly the advertised
\* addresses (none without a token), so every verified path carries data.
PlanesAgree ==
  listener.pc # "probes" =>
    Control!Known(control) = IF control.token = None THEN {} ELSE connections.advertised

\* Once the listener is done with a record, that record is what is in force: its
\* token, and its usable addresses, with others only where no_clear keeps them.
RecordInForce ==
  listener.pc = "idle" /\ record # None =>
    LET listed == {record.ip_addr_list[i] : i \in DOMAIN record.ip_addr_list}
    IN  /\ control.token = record.token
        /\ ~flags.no_clear => connections.advertised \subseteq listed
        /\ Len(record.ip_addr_list) <= MaxRemote
             => {a \in listed : Acceptable(a)} \subseteq connections.advertised

\* WireGuard datagrams go to and come from addresses the peer vouched for: one
\* listed by an accepted record, or one that presented the local token.  The
\* candidate check of forward_inbound_traffic is stale when the packet is
\* delivered, so this speaks of the whole run and not of the current set.
DataPlaneJustified ==
  /\ Addresses(connections) \cup sent.data \cup sent.delivered \subseteq offered \cup presented
  /\ connections.advertised \subseteq Usable

\* One WireGuard datagram is copied to a bounded number of addresses, whatever
\* the sizes of the records, what no_clear retains and how many sources present
\* the token.
FanOutBounded == Cardinality(sent.data) <= MaxRemote + MaxPeerReflexive

\* Whatever the order in which the DHT delivers records, and however often, the
\* one the listener has taken is the newest of all the fresh ones it was given.
NewestWins == last_timestamp = newest

\* With filter_ipv6 no record, and nothing no_clear retains of earlier ones,
\* makes the process probe an IPv6 address.
Ipv4OnlyProbes == flags.filter_ipv6 => connections.advertised \cup sent.probe \subseteq Ipv4

-----------------------------------------------------------------------------
(* Two statements of the documentation that the code does not keep. *)

\* "An IPv4-only peer must not send to, or select, an IPv6 address":
\* docs/direct-only-nat-traversal.md, of a peer run with --filter-ipv6.
Ipv4OnlySends == flags.filter_ipv6 => sent.data \subseteq Ipv4

\* "A source which presents the local run token becomes a bounded peer-reflexive
\* candidate ... retained separately, so a DHT refresh does not immediately remove
\* the recovered path": docs/control-plane-probes.md.
RecoveredPathSurvives ==
  \A a \in presented \ {handler} :
    \/ Contains(connections, a)
    \/ Cardinality(connections.peer_reflexive) = MaxPeerReflexive
=============================================================================
