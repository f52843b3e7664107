--------------------------- MODULE InternetSocket ---------------------------
(***************************************************************************)
(* The UDP socket of one connection and what is queued around it: the      *)
(* socket's sender and receiver tasks (split_udp_socket, utils.rs), the    *)
(* router that sorts what arrives (split_internet_receiver, transport.rs,  *)
(* with the classifier of setup_connection, service.rs) and the STUN       *)
(* lookup that sends and receives through them (send_request, stun/mod.rs).*)
(*                                                                         *)
(*   lookup, others -> outq -> sender -> network                           *)
(*   network -> receiver -> sockq -> router -> stunq, others               *)
(*                                                                         *)
(* The network delays, loses, repeats and reorders; the public address may *)
(* change between two requests, and so may the reachable destinations.     *)
(* Time passes (Tick) when no task can run: a task needs no time to take a *)
(* datagram from a queue.  What decode_const makes of a datagram's bytes   *)
(* is the matter of StunCodec.                                             *)
(***************************************************************************)
EXTENDS Integers, Sequences, FiniteSets

CONSTANTS
  MaxPublic,        \* bound: public addresses the NAT gives this socket, 1 first
  Routes,           \* sets of destinations the host may have routes to
  Wild,             \* datagrams others may send to this socket
  Capacity,         \* UDP_QUEUE_CAPACITY
  Deadline,         \* how long send_request waits, in ticks
  RetryDelay,       \* NETWORK_UNREACHABLE_RETRY_DELAY, in ticks
  MaxLookups,       \* bound: lookups of a run
  MaxOthers,        \* bound: datagrams queued beyond one for each lookup
  MaxArrivals       \* bound: datagrams that arrive between two ticks

VARIABLES
  outq,             \* datagrams for the sender task, numbered as accepted
  sender,           \* [pc, held, left]: the sender task and its retry timer
  reach,            \* destinations the host has a route to
  asked,            \* ids of the requests on their way to the server
  responses,        \* answers of the server that may still arrive
  public,           \* the public address of the socket now
  receiver,         \* the receiver task runs
  router,           \* the router task runs
  sockq,            \* received and not yet routed
  stunq,            \* the router's queue for the lookup
  others,           \* its other two, for probes and for data
  lookup,           \* [pc, id, elapsed, result]: the lookup, its last outcome
  arrivals,         \* datagrams that arrived since the last tick
  accepted,         \* history: how many datagrams outq accepted
  left,             \* history: the numbers of those that left, in order
  since             \* history: public addresses since the lookup began

outVars == <<outq, sender, asked, accepted, left>>
inVars == <<receiver, router, sockq, stunq, others, arrivals>>
netVars == <<reach, responses, public>>
vars == <<outVars, inVars, netVars, lookup, since>>

Destination == {"server", "ipv6 peer"}
Server == [host |-> "server", mapped |-> FALSE]
HEADER_LEN == 20
FRAME_LEN == 20

\* A received datagram: its first bytes, its length, and what a STUN decoder
\* would find in it.
Packet == [magic : BOOLEAN, len : Nat, cookie : BOOLEAN, id : Nat, body : Seq(Nat),
           source : [host : {"server", "other"}, mapped : BOOLEAN]]

\* The id of a request is drawn at random from 2^64: nobody but the server, who
\* is sent it, has it.
ASSUME SocketAssumption ==
  /\ \A n \in {Capacity, Deadline, RetryDelay, MaxLookups, MaxOthers, MaxArrivals, MaxPublic} :
       n \in Nat
  /\ \A packet \in Wild : packet \in Packet /\ packet.id \notin 1..MaxLookups

\* A response of the server, without an address if it is mangled; the dual-stack
\* socket reports its source as an IPv4-mapped IPv6 address.
Response(id, body) ==
  [magic |-> FALSE, len |-> 32, cookie |-> TRUE, id |-> id, body |-> body,
   source |-> [Server EXCEPT !.mapped = TRUE]]

Init ==
  /\ outq = <<>> /\ accepted = 0 /\ left = <<>>
  /\ sender = [pc |-> "idle", held |-> <<>>, left |-> 0]
  /\ reach \in Routes
  /\ asked = {} /\ responses = {}
  /\ public = 1
  /\ receiver = TRUE /\ router = TRUE
  /\ sockq = <<>> /\ stunq = <<>> /\ others = [Probe |-> <<>>, Data |-> <<>>]
  /\ lookup = [pc |-> "idle", id |-> 0, elapsed |-> 0, result |-> <<>>]
  /\ arrivals = 0
  /\ since = {}

\* try_send on an open queue: a full one drops the message.
TrySend(queue, message) ==
  IF Len(queue) < Capacity THEN Append(queue, message) ELSE queue

-----------------------------------------------------------------------------
(* Outbound.                                                               *)

\* try_send of a datagram to the sender task.
Offer(dst, id) ==
  /\ outq' = TrySend(outq, [number |-> accepted + 1, dst |-> dst, id |-> id])
  /\ accepted' = accepted + Len(outq') - Len(outq)
  /\ UNCHANGED <<sender, asked, left>>

\* A probe, an echo or a WireGuard datagram of another task.
OtherSends ==
  /\ sender.pc # "stopped"
  /\ accepted < MaxLookups + MaxOthers
  /\ \E dst \in Destination : Offer(dst, 0)
  /\ UNCHANGED <<inVars, netVars, lookup, since>>

SenderTakes ==
  /\ sender.pc = "idle" /\ outq # <<>>
  /\ sender' = [pc |-> "sending", held |-> <<Head(outq)>>, left |-> 0]
  /\ outq' = Tail(outq)
  /\ UNCHANGED <<asked, accepted, left, inVars, netVars, lookup, since>>

\* Mutant: the datagram goes back to the end of the queue.
RetryLater ==
  /\ sender' = [pc |-> "sleeping", held |-> <<>>, left |-> RetryDelay]
  /\ outq' = outq \o sender.held

\* The network is unreachable: the task keeps the datagram and sleeps.
Retry ==
  /\ sender' = [sender EXCEPT !.pc = "sleeping", !.left = RetryDelay]
  /\ UNCHANGED outq

\* send_to: the datagram leaves, or the network is unreachable, or another
\* error ends the task, which closes its queue.
SenderSends ==
  /\ sender.pc = "sending"
  /\ LET d == sender.held[1]
     IN  \/ /\ d.dst \in reach
            /\ left' = Append(left, d.number)
            /\ asked' = IF d.id = 0 THEN asked ELSE asked \cup {d.id}
            /\ sender' = [pc |-> "idle", held |-> <<>>, left |-> 0]
            /\ UNCHANGED outq
         \/ /\ d.dst \notin reach
            /\ Retry
            /\ UNCHANGED <<left, asked>>
         \/ /\ sender' = [pc |-> "stopped", held |-> <<>>, left |-> 0]
            /\ outq' = <<>>
            /\ UNCHANGED <<left, asked>>
  /\ UNCHANGED <<accepted, inVars, netVars, lookup, since>>

\* Mutant: after the sleep the task waits for the next datagram.
WakeIdle == sender' = [pc |-> "idle", held |-> <<>>, left |-> 0]

\* The inner loop goes round with the same datagram.
Wake == sender' = [sender EXCEPT !.pc = "sending"]

SenderWakes ==
  /\ sender.pc = "sleeping" /\ sender.left = 0
  /\ Wake
  /\ UNCHANGED <<outq, asked, accepted, left, inVars, netVars, lookup, since>>

-----------------------------------------------------------------------------
(* The network, not part of the program.                                   *)

ServerAnswers ==
  /\ \E id \in asked, body \in {<<public>>, <<>>} :
       /\ responses' = responses \cup {Response(id, body)}
       /\ asked' = asked \ {id}
  /\ UNCHANGED <<outq, sender, accepted, left, inVars, reach, public, lookup, since>>

PublicChanges ==
  /\ public < MaxPublic
  /\ public' = public + 1
  /\ since' = since \cup {public'}
  /\ UNCHANGED <<outVars, inVars, reach, responses, lookup>>

RouteChanges ==
  /\ reach' \in Routes \ {reach}
  /\ UNCHANGED <<outVars, inVars, responses, public, lookup, since>>

-----------------------------------------------------------------------------
(* Inbound.                                                                *)

\* recv_from and try_send; a datagram that arrived may arrive again.
ReceiverReceives ==
  /\ receiver
  /\ arrivals < MaxArrivals
  /\ \E packet \in responses \cup Wild :
       /\ sockq' = TrySend(sockq, packet)
       /\ responses' \in {responses, responses \ {packet}}
  /\ arrivals' = arrivals + 1
  /\ UNCHANGED <<outVars, receiver, router, stunq, others, reach, public,
                 lookup, since>>

\* recv_from fails: the task ends and sockq has no sender any more.
ReceiverFails ==
  /\ receiver
  /\ receiver' = FALSE
  /\ UNCHANGED <<outVars, router, sockq, stunq, others, arrivals, netVars,
                 lookup, since>>

\* Mutant: a datagram with the cookie is taken for STUN whatever its length.
ClassifyShort(packet) ==
  IF packet.magic THEN IF packet.len = FRAME_LEN THEN "Probe" ELSE "Drop"
  ELSE IF packet.cookie THEN "Stun" ELSE "Data"

\* The closure setup_connection hands to split_internet_receiver.
Classify(packet) ==
  IF packet.magic THEN IF packet.len = FRAME_LEN THEN "Probe" ELSE "Drop"
  ELSE IF packet.len > HEADER_LEN /\ packet.cookie THEN "Stun" ELSE "Data"

\* normalize_ipv4_mapped_source, in transport.rs and again in stun/mod.rs.
Normalize(source) == [source EXCEPT !.mapped = FALSE]

RouterRoutes ==
  /\ router /\ sockq # <<>>
  /\ LET packet == [Head(sockq) EXCEPT !.source = Normalize(@)]
         Routed(queue, kind) == IF Classify(packet) = kind THEN TrySend(queue, packet)
                                ELSE queue
     IN  /\ stunq' = Routed(stunq, "Stun")
         /\ others' = [kind \in DOMAIN others |-> Routed(others[kind], kind)]
  /\ sockq' = Tail(sockq)
  /\ UNCHANGED <<outVars, receiver, router, arrivals, netVars, lookup, since>>

\* The receiver is gone and what it had queued is routed: the router ends too.
RouterEnds ==
  /\ router /\ ~receiver /\ sockq = <<>>
  /\ router' = FALSE
  /\ UNCHANGED <<outVars, receiver, sockq, stunq, others, arrivals, netVars,
                 lookup, since>>

\* The consumers of the other two queues, which may be slow: see Session.
OthersConsume ==
  /\ \E kind \in DOMAIN others :
       others[kind] # <<>> /\ others' = [others EXCEPT ![kind] = Tail(@)]
  /\ UNCHANGED <<outVars, receiver, router, sockq, stunq, arrivals, netVars, lookup,
                 since>>

-----------------------------------------------------------------------------
(* send_request.                                                           *)

Returns(result) == [lookup EXCEPT !.pc = "idle", !.elapsed = 0, !.result = result]

\* The request is encoded with a new id and offered to the sender; a full or a
\* closed queue ends the lookup at once.
LookupStarts ==
  /\ lookup.pc = "idle" /\ lookup.id < MaxLookups
  /\ LET id == lookup.id + 1
     IN  IF sender.pc = "stopped" \/ Len(outq) >= Capacity
           THEN /\ lookup' = [Returns(<<"not sent">>) EXCEPT !.id = id]
                /\ UNCHANGED outVars
           ELSE /\ lookup' = [pc |-> "waiting", id |-> id, elapsed |-> 0, result |-> <<>>]
                /\ Offer("server", id)
  /\ since' = {public}
  /\ UNCHANGED <<inVars, netVars>>

IsExpectedSource(packet) == Normalize(packet.source) = Server

\* Mutant: any well-formed response is an answer.
DecodeAnyId(id, packet) ==
  IF packet.len < HEADER_LEN THEN "error"
  ELSE IF ~packet.cookie \/ packet.body = <<>> THEN "error" ELSE "answer"

\* decode_const, as far as the lookup tells outcomes apart: see StunCodec.
Decode(id, packet) ==
  IF packet.len < HEADER_LEN THEN "error"
  ELSE IF packet.id # id THEN "foreign"
  ELSE IF ~packet.cookie \/ packet.body = <<>> THEN "error" ELSE "answer"

\* Mutant: the three seconds start again with each datagram.
WaitsAgainAnew == [lookup EXCEPT !.elapsed = 0]

\* Another round of the loop, with what is left of the three seconds.
WaitsAgain == lookup

\* recv has a datagram: an unexpected source or a foreign id is skipped, an
\* undecodable answer ends the lookup.
LookupReceives ==
  /\ lookup.pc = "waiting" /\ stunq # <<>>
  /\ LET packet == Head(stunq)
         decoded == Decode(lookup.id, packet)
     IN  lookup' = IF ~IsExpectedSource(packet) \/ decoded = "foreign" THEN WaitsAgain
                   ELSE IF decoded = "error" THEN Returns(<<"undecodable", packet.id>>)
                   ELSE Returns(<<"address", packet.body[1]>>)
  /\ stunq' = Tail(stunq)
  /\ UNCHANGED <<outVars, receiver, router, sockq, others, arrivals, netVars, since>>

\* Nothing to receive, and the time is up or the router is gone.
LookupGivesUp ==
  /\ lookup.pc = "waiting" /\ stunq = <<>>
  /\ lookup.elapsed >= Deadline \/ ~router
  /\ lookup' = Returns(<<"no response">>)
  /\ UNCHANGED <<outVars, inVars, netVars, since>>

-----------------------------------------------------------------------------
\* Some task can run.
Busy ==
  \/ sender.pc = "idle" /\ outq # <<>>
  \/ sender.pc = "sending"
  \/ sender.pc = "sleeping" /\ sender.left = 0
  \/ router /\ (sockq # <<>> \/ ~receiver)
  \/ lookup.pc = "waiting" /\ (stunq # <<>> \/ lookup.elapsed >= Deadline \/ ~router)

Tick ==
  /\ ~Busy
  /\ sender' = [sender EXCEPT !.left = IF @ > 0 THEN @ - 1 ELSE 0]
  /\ lookup' = [lookup EXCEPT !.elapsed = IF lookup.pc = "waiting" THEN @ + 1 ELSE @]
  /\ arrivals' = 0
  /\ UNCHANGED <<outq, asked, accepted, left, receiver, router, sockq, stunq, others,
                 netVars, since>>

Next ==
  \/ SenderTakes \/ SenderSends \/ SenderWakes
  \/ RouterRoutes \/ RouterEnds
  \/ LookupReceives \/ LookupGivesUp
  \/ Tick
  \/ LookupStarts \/ OtherSends \/ OthersConsume
  \/ ReceiverReceives \/ ReceiverFails
  \/ ServerAnswers \/ PublicChanges \/ RouteChanges

Spec == Init /\ [][Next]_vars

\* The runtime runs each task that can run, and time passes.  Nothing makes the
\* network deliver, the server answer, or the other consumers keep up.
FairSpec ==
  /\ Spec
  /\ WF_vars(SenderTakes \/ SenderSends \/ SenderWakes)
  /\ WF_vars(RouterRoutes \/ RouterEnds)
  /\ WF_vars(LookupReceives \/ LookupGivesUp)
  /\ WF_vars(Tick)

-----------------------------------------------------------------------------
\* The address a lookup returns is one the socket had after the lookup began:
\* the answer to an earlier request, which may sit in a queue, come late or
\* have been held back by the sender's retry, is never taken for it
\* (stun/mod.rs, the id of send_request).
AddressIsCurrent ==
  lookup.result # <<>> /\ lookup.result[1] = "address" =>
    lookup.result[2] \in since

\* Only the server's answer to its own request can end a lookup as undecodable:
\* what the router lets into the STUN queue is always long enough to have an id,
\* so no stray datagram ends a lookup (service.rs, the classifier; stun/codec.rs,
\* decode_const, which looks at the id first).
StrayNeverEndsLookup ==
  lookup.result # <<>> /\ lookup.result[1] = "undecodable" =>
    lookup.result[2] = lookup.id

\* While the sender task lives, what its queue accepted leaves in that order,
\* each datagram once, also across any number of retries (utils.rs, the two
\* loops of the sender).
SentInOrder ==
  sender.pc # "stopped" =>
    left \o [i \in 1..Len(sender.held) |-> sender.held[i].number]
         \o [i \in 1..Len(outq) |-> outq[i].number] = [i \in 1..accepted |-> i]

\* Every lookup ends, whatever arrives meanwhile and whichever task fails, and
\* although the readers of the other queues may never read again (stun/mod.rs,
\* one deadline for all rounds; transport.rs, the router never waits).
LookupEnds == lookup.pc = "waiting" ~> lookup.pc = "idle"

\* Once the routes are back for good, every datagram the queue accepted leaves,
\* or the sender task has ended with an error (utils.rs, the retry loop).
HeldDatagramsLeave ==
  <>[](reach = Destination) =>
    <>[](sender.pc = "stopped" \/ Len(left) = accepted)
=============================================================================
