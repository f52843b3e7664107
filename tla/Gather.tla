------------------------------- MODULE Gather -------------------------------
(***************************************************************************)
(* How one peer's own addresses reach the DHT (src/src/candidates.rs): the *)
(* task that gathers them (lookup_public_address), the task that publishes *)
(* them (publish_candidates), the one-place overflowing broadcast channel  *)
(* between them, and the watch on which the router mapping's worker tells  *)
(* the first that the mapping is gone.                                     *)
(*                                                                         *)
(* Time is counted down in timers.  Both tasks run as soon as they can; a  *)
(* lookup and a put take any time up to MaxLookup and MaxPut.  run_once is *)
(* false, as in service.rs.                                                *)
(***************************************************************************)
EXTENDS Integers, Sequences

CONSTANTS
  Ipv6,             \* the local IPv6 candidates get_local_ipv6_addr may find
  StunAddr,         \* the addresses the STUN server may report
  MapAddr,          \* Mapping.external_addr
  SameIp,           \* the members of StunAddr with the IP of MapAddr
  RetryDelay,       \* the wait after a failed lookup (15 s)
  RefreshDelay,     \* the wait after a successful one (60 s)
  PublishInterval,  \* the publisher's wait for a new list (60 s)
  MaxLookup,        \* longest resolution and STUN exchange
  MaxPut            \* longest dht.put

VARIABLES
  watch,            \* the mapping: [mapped, active, changed, closed]
  lookup,           \* [pc, list, delay, timer] of lookup_public_address
  channel,          \* [queue, missed, closed]
  publisher,        \* [pc, list, timer] of publish_candidates
  published,        \* the addresses of the last record put
  latest,           \* history: the last list broadcast, and how long ago
  inactive_age      \* history: time since the mapping became inactive

vars == <<watch, lookup, channel, publisher, published, latest, inactive_age>>

Address == Ipv6 \cup StunAddr \cup {MapAddr}

\* Three puts: the one in progress, one more of the old list if the channel has
\* overflowed, and the one of the new list.
CatchUp == 3 * MaxPut

\* The lookup that the change overtakes or starts, and the publication of its list.
WithdrawLimit == MaxLookup + CatchUp

\* Two puts fit into the shortest wait between two lookups.  Nothing in the code
\* makes them: when they do not, each recv may find that the channel has
\* overflowed again, and the old list is put for ever.
ShortPuts == 2 * MaxPut < RetryDelay

\* The mapping's address has no other source: one that the STUN server reports as
\* well is published on the server's word, whatever becomes of the mapping.
ASSUME GatherAssumption ==
  /\ SameIp \subseteq StunAddr
  /\ \A d \in {RetryDelay, RefreshDelay, PublishInterval, MaxLookup, MaxPut} : d \in Nat \ {0}
  /\ RetryDelay <= RefreshDelay
  /\ MapAddr \notin Ipv6 \cup StunAddr

Older(age, cap) == IF age = cap THEN age ELSE age + 1

-----------------------------------------------------------------------------
(* The channel: broadcast(1) with set_overflow(true). *)

EmptyChannel == [queue |-> <<>>, missed |-> FALSE, closed |-> FALSE]

Broadcast(c, list) == [c EXCEPT !.queue = <<list>>, !.missed = @ \/ c.queue # <<>>]

Ready(c) == c.missed \/ c.queue # <<>> \/ c.closed

Init ==
  /\ watch \in [mapped : BOOLEAN, active : {TRUE}, changed : {FALSE}, closed : {FALSE}]
  /\ lookup = [pc |-> "resolve", list |-> {}, delay |-> 0, timer |-> MaxLookup]
  /\ channel = EmptyChannel
  /\ publisher = [pc |-> "put", list |-> {}, timer |-> MaxPut]
  /\ published = {}
  /\ latest = [list |-> {}, age |-> 0]
  /\ inactive_age = 0

-----------------------------------------------------------------------------
(* The mapping's worker thread, as seen through the watch. *)

RenewalFails ==
  /\ watch.mapped /\ watch.active
  /\ watch' = [watch EXCEPT !.active = FALSE, !.changed = TRUE]
  /\ UNCHANGED <<lookup, channel, publisher, published, latest, inactive_age>>

\* The worker returns after its only send, which drops the sender.
WorkerEnds ==
  /\ watch.mapped /\ ~watch.active /\ ~watch.closed
  /\ watch' = [watch EXCEPT !.closed = TRUE]
  /\ UNCHANGED <<lookup, channel, publisher, published, latest, inactive_age>>

-----------------------------------------------------------------------------
(* lookup_public_address *)

\* Mutant: the Sender outlives the task.
StopLookupQuietly ==
  /\ lookup' = [lookup EXCEPT !.pc = "stopped"]
  /\ UNCHANGED <<watch, channel, publisher, published, latest, inactive_age>>

\* The task returns: its Sender goes with it.
StopLookup ==
  /\ lookup' = [lookup EXCEPT !.pc = "stopped"]
  /\ channel' = [channel EXCEPT !.closed = TRUE]
  /\ UNCHANGED <<watch, publisher, published, latest, inactive_age>>

\* What get_local_ipv6_addr may find; nothing when gather_ipv6 is off.
LocalIpv6 == {{}} \cup {{a} : a \in Ipv6}

\* lookup_host, the choice of an IPv4 server and the local IPv6 candidate.
Resolve ==
  /\ lookup.pc = "resolve"
  /\ \E found \in LocalIpv6 :
       lookup' = [lookup EXCEPT !.pc = "stun", !.list = found]
  /\ UNCHANGED <<watch, channel, publisher, published, latest, inactive_age>>

ResolveFails == lookup.pc = "resolve" /\ StopLookup

\* broadcast_direct fails once the publisher has dropped its Receiver.
Announce(list, delay) ==
  IF channel.closed
  THEN StopLookup
  ELSE /\ channel' = Broadcast(channel, list)
       /\ latest' = [list |-> list, age |-> 0]
       /\ lookup' = [pc |-> "wait", list |-> list, delay |-> delay, timer |-> delay]
       /\ UNCHANGED <<watch, publisher, published, inactive_age>>

\* Mutant: is_active is not asked.
MappingMatches(address) == watch.mapped /\ address \in SameIp

MappingUsable(address) == watch.mapped /\ watch.active /\ address \in SameIp

StunAnswers ==
  /\ lookup.pc = "stun"
  /\ \E address \in StunAddr :
       Announce(lookup.list \cup {address} \cup (IF MappingUsable(address) THEN {MapAddr} ELSE {}),
                RefreshDelay)

\* A timeout, a full queue or a response that does not decode.  The list that is
\* announced has no IPv4 address, the mapping's included.
StunFails == lookup.pc = "stun" /\ Announce(lookup.list, RetryDelay)

NextLookup == [lookup EXCEPT !.pc = "resolve", !.timer = MaxLookup]

\* changed() returns Ok for a change not seen yet, even after the sender is gone.
WaitChanged ==
  /\ lookup.pc = "wait" /\ watch.mapped /\ watch.changed
  /\ watch' = [watch EXCEPT !.changed = FALSE]
  /\ lookup' = NextLookup
  /\ UNCHANGED <<channel, publisher, published, latest, inactive_age>>

\* Mutant: the failed changed() ends the wait.
WaitClosedAtOnce ==
  /\ lookup.pc = "wait" /\ watch.mapped /\ ~watch.changed /\ watch.closed
  /\ lookup' = NextLookup
  /\ UNCHANGED <<watch, channel, publisher, published, latest, inactive_age>>

\* changed() returns Err: the wait starts over as a sleep.
WaitClosed ==
  /\ lookup.pc = "wait" /\ watch.mapped /\ ~watch.changed /\ watch.closed
  /\ lookup' = [lookup EXCEPT !.pc = "sleep", !.timer = lookup.delay]
  /\ UNCHANGED <<watch, channel, publisher, published, latest, inactive_age>>

WaitTimeout ==
  /\ \/ lookup.pc = "wait" /\ ~(watch.mapped /\ (watch.changed \/ watch.closed))
     \/ lookup.pc = "sleep"
  /\ lookup.timer = 0
  /\ lookup' = NextLookup
  /\ UNCHANGED <<watch, channel, publisher, published, latest, inactive_age>>

-----------------------------------------------------------------------------
(* publish_candidates *)

\* The task returns: its Receiver, the only one, goes with it.
StopPublisher ==
  /\ publisher' = [publisher EXCEPT !.pc = "stopped"]
  /\ channel' = [channel EXCEPT !.closed = TRUE]
  /\ UNCHANGED <<watch, lookup, published, latest, inactive_age>>

PutDone ==
  /\ publisher.pc = "put"
  /\ published' = publisher.list
  /\ publisher' = [publisher EXCEPT !.pc = "recv", !.timer = PublishInterval]
  /\ UNCHANGED <<watch, lookup, channel, latest, inactive_age>>

PutFails == publisher.pc = "put" /\ StopPublisher

PutAgain(list) == publisher' = [pc |-> "put", list |-> list, timer |-> MaxPut]

\* Mutant: the list behind the overflow is skipped too.
RecvOverflowedSkips ==
  /\ publisher.pc = "recv" /\ channel.missed
  /\ channel' = [channel EXCEPT !.missed = FALSE, !.queue = <<>>]
  /\ PutAgain(publisher.list)
  /\ UNCHANGED <<watch, lookup, published, latest, inactive_age>>

\* Overflowed: the list in the channel is left for the next recv, and the old
\* one is put once more.
RecvOverflowed ==
  /\ publisher.pc = "recv" /\ channel.missed
  /\ channel' = [channel EXCEPT !.missed = FALSE]
  /\ PutAgain(publisher.list)
  /\ UNCHANGED <<watch, lookup, published, latest, inactive_age>>

RecvList ==
  /\ publisher.pc = "recv" /\ ~channel.missed /\ channel.queue # <<>>
  /\ channel' = [channel EXCEPT !.queue = <<>>]
  /\ PutAgain(Head(channel.queue))
  /\ UNCHANGED <<watch, lookup, published, latest, inactive_age>>

RecvClosed ==
  /\ publisher.pc = "recv" /\ ~channel.missed /\ channel.queue = <<>> /\ channel.closed
  /\ StopPublisher

RecvTimeout ==
  /\ publisher.pc = "recv" /\ ~Ready(channel) /\ publisher.timer = 0
  /\ PutAgain(publisher.list)
  /\ UNCHANGED <<watch, lookup, channel, published, latest, inactive_age>>

-----------------------------------------------------------------------------
\* A task that can run runs before time passes.
LookupIdle ==
  \/ lookup.pc = "stopped"
  \/ lookup.pc \in {"resolve", "stun", "sleep"} /\ lookup.timer > 0
  \/ /\ lookup.pc = "wait" /\ lookup.timer > 0
     /\ ~(watch.mapped /\ (watch.changed \/ watch.closed))

PublisherIdle ==
  \/ publisher.pc = "stopped"
  \/ publisher.pc = "put" /\ publisher.timer > 0
  \/ publisher.pc = "recv" /\ publisher.timer > 0 /\ ~Ready(channel)

CountDown(task) == [task EXCEPT !.timer = IF @ > 0 THEN @ - 1 ELSE 0]

Tick ==
  /\ LookupIdle /\ PublisherIdle
  /\ lookup' = CountDown(lookup)
  /\ publisher' = CountDown(publisher)
  /\ latest' = [latest EXCEPT !.age = Older(@, CatchUp + 1)]
  /\ inactive_age' = IF watch.active THEN 0 ELSE Older(inactive_age, WithdrawLimit + 1)
  /\ UNCHANGED <<watch, channel, published>>

LookupStep ==
  \/ Resolve \/ ResolveFails \/ StunAnswers \/ StunFails
  \/ WaitChanged \/ WaitClosed \/ WaitTimeout

PublisherStep ==
  \/ PutDone \/ PutFails
  \/ RecvOverflowed \/ RecvList \/ RecvClosed \/ RecvTimeout

Next ==
  \/ RenewalFails \/ WorkerEnds
  \/ LookupStep
  \/ PublisherStep
  \/ Tick

Spec == Init /\ [][Next]_vars

\* The runtime runs a task that is ready, and time passes.
FairSpec == Spec /\ WF_vars(LookupStep) /\ WF_vars(PublisherStep) /\ WF_vars(Tick)
-----------------------------------------------------------------------------
\* "Publishes again after candidate updates": a list that has been the newest
\* for CatchUp is the published one, however long a put takes.  The Overflowed
\* branch, which puts the old list again, delays the new one and never loses it.
PublicationCatchesUp ==
  latest.age > CatchUp /\ publisher.pc # "stopped" => published = latest.list

\* "If renewal fails, the mapping is removed from subsequent candidate
\* publications": whichever step the failure overtakes (a lookup that has read
\* is_active, a list in the channel, a put in progress), the record stops naming
\* the mapping within WithdrawLimit, as long as there are ShortPuts.
DeadMappingWithdrawn ==
  inactive_age > WithdrawLimit /\ publisher.pc # "stopped" => MapAddr \notin published

\* A lookup follows the last one early only for a change it had not seen: after
\* the worker has gone, changed() fails at once and must not become a busy loop
\* of STUN requests.
NoBusyLookup ==
  [][lookup.pc \in {"wait", "sleep"} /\ lookup'.pc = "resolve"
       => lookup.timer = 0 \/ (watch.changed /\ ~watch'.changed)]_vars

\* Neither task outlives the other: a gatherer that returns closes the channel
\* under the publisher, and a publisher that returns fails the next broadcast.
StopTogether ==
  /\ (lookup.pc = "stopped") ~> (publisher.pc = "stopped")
  /\ (publisher.pc = "stopped") ~> (lookup.pc = "stopped")
=============================================================================
