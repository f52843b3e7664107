---------------------------- MODULE Gather_proofs ----------------------------
(***************************************************************************)
(* A router mapping and the gathering that holds it.                       *)
(*                                                                         *)
(* The mapping: one that is reported active has a lease, for every set of  *)
(* lifetimes that are all longer than MAPPING_RENEWAL_MINIMUM.  While the  *)
(* worker waits, its timer fires before the lease runs out, and once it no *)
(* longer waits or renews the handle is gone or the watch says inactive.   *)
(* MappingAsGathered is what the gathering relies on.                      *)
(*                                                                         *)
(* The publication of a peer's addresses.  For all intervals, and puts and *)
(* lookups of any length: the newest list is published unless another one  *)
(* takes its place, a dead mapping leaves the lists, and the closed watch  *)
(* does not make the lookups run early.  That no later list takes the      *)
(* place of one without the mapping too early, so that the record stops    *)
(* naming it in bounded time, needs ShortPuts.                             *)
(***************************************************************************)
EXTENDS Gather, NatMapping, TLAPS

(* The router mapping. *)

\* No router grants less than the minimum delay of a renewal.
LongLeases == \A lifetime \in Granted : lifetime > RenewalMinimum

\* The inductive invariant.
LeaseInv ==
  /\ TypeOK
  /\ worker.pc = "wait" => worker.timer < lease
  /\ worker.pc = "renew" => lease > 0
  /\ handle = "held" /\ active => worker.pc \in {"wait", "renew"}
  /\ shutdown.sent \/ shutdown.disconnected => handle = "dropped"

\* The renewal of a long enough lease is due before it ends.
LEMMA RenewalInTime ==
  ASSUME LongLeases, NEW method \in {"pcp", "upnp"}, NEW lifetime \in Lifetimes(method)
  PROVE  /\ lifetime \in Nat /\ lifetime > 0
         /\ RenewalDelay(method, lifetime) \in Nat
         /\ RenewalDelay(method, lifetime) < lifetime
<1>1. lifetime \in Nat /\ lifetime >= 2 /\ (method # "upnp" => lifetime > RenewalMinimum)
  BY LifetimeAssumption DEF Lifetimes, LongLeases
<1>2. lifetime \div 2 \in Nat /\ lifetime \div 2 < lifetime
  BY <1>1
<1> QED
  BY <1>1, <1>2, LifetimeAssumption DEF RenewalDelay

\* A worker that has just obtained or renewed a lease.
LEMMA WaitingType ==
  ASSUME LongLeases, NEW method \in {"pcp", "upnp"}, NEW lifetime \in Lifetimes(method)
  PROVE  /\ Waiting(method, lifetime) \in [pc : {"request", "wait", "renew", "remove", "ended"},
                                           method : {"pcp", "upnp"}, lifetime : Nat, timer : Nat]
         /\ Waiting(method, lifetime).pc = "wait"
         /\ Waiting(method, lifetime).timer < lifetime
BY RenewalInTime DEF Waiting

\* Every step of the worker, of the handle's owner and of time keeps LeaseInv.
LEMMA LeaseStep ==
  ASSUME LongLeases, LeaseInv, [MappingNext]_mapping_vars
  PROVE  LeaseInv'
<1> USE DEF LeaseInv, TypeOK
<1>1. CASE Create
  <2>3. PICK method \in {"pcp", "upnp"} : \E lifetime \in Lifetimes(method) :
          worker' = Waiting(method, lifetime) /\ lease' = lifetime
    BY <1>1 DEF Create
  <2>1. PICK lifetime \in Lifetimes(method) :
          worker' = Waiting(method, lifetime) /\ lease' = lifetime
    BY <2>3
  <2>2. lifetime \in Nat
    BY RenewalInTime
  <2> QED
    BY <1>1, <2>1, <2>2, WaitingType DEF Create
<1>2. CASE CreateUnwanted
  <2>3. PICK method \in {"pcp", "upnp"} : \E lifetime \in Lifetimes(method) :
          /\ worker' = [worker EXCEPT !.pc = "remove", !.method = method, !.lifetime = lifetime]
          /\ lease' = lifetime
    BY <1>2, Zenon DEF CreateUnwanted
  <2>1. PICK lifetime \in Lifetimes(method) :
          /\ worker' = [worker EXCEPT !.pc = "remove", !.method = method, !.lifetime = lifetime]
          /\ lease' = lifetime
    BY <2>3, Zenon
  <2>2. lifetime \in Nat
    BY RenewalInTime
  <2> QED
    BY <1>2, <2>1, <2>2, ZenonT(60) DEF CreateUnwanted
<1>3. CASE CreateFails
  <2>1. lease' \in Nat
    BY <1>3, LifetimeAssumption DEF CreateFails
  <2> QED
    BY <1>3, <2>1 DEF CreateFails, Ended
<1>4. CASE DropHandle
  BY <1>4 DEF DropHandle
<1>5. CASE ShutdownReceived
  BY <1>5, ZenonT(60) DEF ShutdownReceived
<1>6. CASE RenewalDue
  BY <1>6 DEF RenewalDue
<1>7. CASE Renew
  <2>1. PICK lifetime \in Lifetimes(worker.method) :
          worker' = Waiting(worker.method, lifetime) /\ lease' = lifetime
    BY <1>7 DEF Renew
  <2>2. worker.method \in {"pcp", "upnp"}
    OBVIOUS
  <2>3. lifetime \in Nat
    BY <2>2, RenewalInTime
  <2>4. /\ worker' \in [pc : {"request", "wait", "renew", "remove", "ended"},
                        method : {"pcp", "upnp"}, lifetime : Nat, timer : Nat]
        /\ worker'.pc = "wait" /\ worker'.timer < lease'
    BY <2>1, <2>2, WaitingType
  <2> QED
    BY <1>7, <2>1, <2>3, <2>4 DEF Renew
<1>8. CASE RenewFails
  BY <1>8, ZenonT(60) DEF RenewFails, Ended
<1>9. CASE Remove
  BY <1>9 DEF Remove, Ended
<1>10. CASE MappingTick
  <2>1. worker'.pc = worker.pc /\ worker'.timer = IF worker.timer > 0 THEN worker.timer - 1 ELSE 0
    BY <1>10 DEF MappingTick
  <2>2. worker' \in [pc : {"request", "wait", "renew", "remove", "ended"},
                     method : {"pcp", "upnp"}, lifetime : Nat, timer : Nat]
    <3>1. (IF worker.timer > 0 THEN worker.timer - 1 ELSE 0) \in Nat
      OBVIOUS
    <3>2. ASSUME NEW t \in Nat
          PROVE  [worker EXCEPT !.timer = t] \in
                   [pc : {"request", "wait", "renew", "remove", "ended"},
                    method : {"pcp", "upnp"}, lifetime : Nat, timer : Nat]
      OBVIOUS
    <3> QED
      BY <1>10, <3>1, <3>2 DEF MappingTick
  <2> QED
    BY <1>10, <2>1, <2>2 DEF MappingTick
<1>11. CASE UNCHANGED mapping_vars
  BY <1>11 DEF mapping_vars
<1> QED
  BY <1>1, <1>2, <1>3, <1>4, <1>5, <1>6, <1>7, <1>8, <1>9, <1>10, <1>11
  DEF MappingNext, WorkerStep

\* nat.rs keeps "renewed before its lease expires" for every router that grants
\* lifetimes longer than MAPPING_RENEWAL_MINIMUM, however often the lifetime
\* changes from one renewal to the next.
THEOREM LeaseOutlastsRenewal == LongLeases => (MappingSpec => []ActiveMeansLeased)
<1> SUFFICES ASSUME LongLeases PROVE MappingSpec => []ActiveMeansLeased
  OBVIOUS
<1>1. MappingInit => LeaseInv
  BY DEF MappingInit, LeaseInv, TypeOK
<1>2. LeaseInv /\ [MappingNext]_mapping_vars => LeaseInv'
  BY LeaseStep
<1>3. LeaseInv => ActiveMeansLeased
  BY DEF LeaseInv, TypeOK, ActiveMeansLeased
<1> QED
  BY <1>1, <1>2, <1>3, PTL DEF MappingSpec

\* The worker's state keeps its shape for every lifetime a router may grant, the
\* short ones included: no timer of nat.rs is ever negative.
THEOREM TypeCorrect == MappingSpec => []TypeOK
<1> DEFINE Worker == [pc : {"request", "wait", "renew", "remove", "ended"},
                      method : {"pcp", "upnp"}, lifetime : Nat, timer : Nat]
<1>1. MappingInit => TypeOK
  BY DEF MappingInit, TypeOK
<1>2. ASSUME NEW method \in {"pcp", "upnp"}, NEW lifetime \in Lifetimes(method)
      PROVE  lifetime \in Nat /\ Waiting(method, lifetime) \in Worker
  <2>1. lifetime \in Nat /\ lifetime \div 2 \in Nat
    BY LifetimeAssumption DEF Lifetimes
  <2>2. RenewalDelay(method, lifetime) \in Nat
    BY <2>1, LifetimeAssumption DEF RenewalDelay
  <2> QED
    BY <2>1, <2>2 DEF Waiting
<1>3. TypeOK /\ [MappingNext]_mapping_vars => TypeOK'
  <2> SUFFICES ASSUME TypeOK, [MappingNext]_mapping_vars PROVE TypeOK'
    OBVIOUS
  <2> USE DEF TypeOK
  <2>1. worker' \in Worker
    <3>1. CASE Create
      <4>1. PICK method \in {"pcp", "upnp"} : \E lifetime \in Lifetimes(method) :
              worker' = Waiting(method, lifetime)
        BY <3>1 DEF Create
      <4> QED
        BY <4>1, <1>2
    <3>2. CASE CreateUnwanted
      <4>1. PICK method \in {"pcp", "upnp"} : \E lifetime \in Lifetimes(method) :
              worker' = [worker EXCEPT !.pc = "remove", !.method = method, !.lifetime = lifetime]
        BY <3>2, Zenon DEF CreateUnwanted
      <4>2. \A lifetime \in Lifetimes(method) : lifetime \in Nat
        BY <1>2
      <4> QED
        BY <4>1, <4>2, ZenonT(60)
    <3>3. CASE Renew
      BY <3>3, <1>2 DEF Renew
    <3>4. CASE MappingTick
      <4>1. ASSUME NEW t \in Nat PROVE [worker EXCEPT !.timer = t] \in Worker
        OBVIOUS
      <4>2. (IF worker.timer > 0 THEN worker.timer - 1 ELSE 0) \in Nat
        OBVIOUS
      <4> QED
        BY <3>4, <4>1, <4>2 DEF MappingTick
    <3>5. CASE CreateFails \/ DropHandle \/ ShutdownReceived \/ RenewalDue \/ RenewFails \/ Remove
               \/ UNCHANGED mapping_vars
      BY <3>5 DEF CreateFails, DropHandle, ShutdownReceived, RenewalDue, RenewFails, Remove,
         Ended, mapping_vars
    <3> QED
      BY <3>1, <3>2, <3>3, <3>4, <3>5 DEF MappingNext, WorkerStep
  <2>2. lease' \in Nat
    <3>1. CASE Create \/ CreateUnwanted
      BY <3>1, <1>2, ZenonT(60) DEF Create, CreateUnwanted
    <3>2. CASE Renew
      BY <3>2, <1>2 DEF Renew
    <3>3. CASE CreateFails
      BY <3>3, LifetimeAssumption DEF CreateFails
    <3>4. CASE MappingTick \/ DropHandle \/ ShutdownReceived \/ RenewalDue \/ RenewFails \/ Remove
               \/ UNCHANGED mapping_vars
      BY <3>4 DEF MappingTick, DropHandle, ShutdownReceived, RenewalDue, RenewFails, Remove, mapping_vars
    <3> QED
      BY <3>1, <3>2, <3>3, <3>4 DEF MappingNext, WorkerStep
  <2>3. active' \in BOOLEAN /\ handle' \in {"pending", "held", "dropped", "none"}
        /\ shutdown' \in [sent : BOOLEAN, disconnected : BOOLEAN]
    <3>1. CASE Create \/ CreateFails
      BY <3>1 DEF Create, CreateFails
    <3>2. CASE CreateUnwanted
      BY <3>2 DEF CreateUnwanted
    <3>3. CASE DropHandle
      BY <3>3 DEF DropHandle
    <3>4. CASE ShutdownReceived
      BY <3>4, ZenonT(60) DEF ShutdownReceived
    <3>5. CASE RenewalDue \/ Renew \/ Remove
      BY <3>5 DEF RenewalDue, Renew, Remove
    <3>6. CASE RenewFails
      BY <3>6, ZenonT(60) DEF RenewFails
    <3>7. CASE MappingTick \/ UNCHANGED mapping_vars
      BY <3>7 DEF MappingTick, mapping_vars
    <3> QED
      BY <3>1, <3>2, <3>3, <3>4, <3>5, <3>6, <3>7 DEF MappingNext, WorkerStep
  <2> QED
    BY <2>1, <2>2, <2>3
<1> QED
  BY <1>1, <1>3, PTL DEF MappingSpec

\* The worker, the handle and the watch, whatever lifetimes the router grants.
HeldInv ==
  /\ handle = "pending" => active /\ worker.pc = "request"
  /\ handle = "held" => worker.pc \in {"wait", "renew"} \/ (worker.pc = "ended" /\ ~active)
  /\ shutdown.sent \/ shutdown.disconnected => handle = "dropped"

\* What Gather takes for granted of the mapping it holds: it starts out active,
\* its worker ends only after it has reported it inactive (Gather's WorkerEnds
\* comes after its RenewalFails), and an inactive mapping never comes back.
THEOREM MappingAsGathered ==
  MappingSpec => /\ [](handle = "pending" => active)
                 /\ [](handle = "held" /\ worker.pc = "ended" => ~active)
                 /\ [][active' => active]_mapping_vars
<1>1. MappingInit => HeldInv
  BY DEF MappingInit, HeldInv
<1>2. TypeOK /\ HeldInv /\ [MappingNext]_mapping_vars => HeldInv' /\ (active' => active)
  <2> SUFFICES ASSUME TypeOK, HeldInv, [MappingNext]_mapping_vars
               PROVE  HeldInv' /\ (active' => active)
    OBVIOUS
  <2> USE DEF HeldInv, TypeOK
  <2>1. CASE Create \/ Renew
    <3>1. worker'.pc = "wait"
      BY <2>1 DEF Create, Renew, Waiting
    <3> QED
      BY <2>1, <3>1 DEF Create, Renew
  <2>2. CASE CreateUnwanted
    BY <2>2 DEF CreateUnwanted
  <2>3. CASE CreateFails
    BY <2>3 DEF CreateFails, Ended
  <2>4. CASE DropHandle
    BY <2>4 DEF DropHandle
  <2>5. CASE ShutdownReceived
    BY <2>5 DEF ShutdownReceived
  <2>6. CASE RenewalDue
    BY <2>6 DEF RenewalDue
  <2>7. CASE RenewFails
    BY <2>7 DEF RenewFails, Ended
  <2>8. CASE Remove
    BY <2>8 DEF Remove, Ended
  <2>9. CASE MappingTick
    <3>1. worker'.pc = worker.pc
      BY <2>9 DEF MappingTick
    <3> QED
      BY <2>9, <3>1 DEF MappingTick
  <2>10. CASE UNCHANGED mapping_vars
    BY <2>10 DEF mapping_vars
  <2> QED
    BY <2>1, <2>2, <2>3, <2>4, <2>5, <2>6, <2>7, <2>8, <2>9, <2>10 DEF MappingNext, WorkerStep
<1>3. HeldInv => (handle = "pending" => active) /\ (handle = "held" /\ worker.pc = "ended" => ~active)
  BY DEF HeldInv
<1> QED
  BY <1>1, <1>2, <1>3, TypeCorrect, PTL DEF MappingSpec

-----------------------------------------------------------------------------
(* Gathering and publishing. *)

Types ==
  /\ watch \in [mapped : BOOLEAN, active : BOOLEAN, changed : BOOLEAN, closed : BOOLEAN]
  /\ lookup \in [pc : {"resolve", "stun", "wait", "sleep", "stopped"}, list : SUBSET Address,
                 delay : Nat, timer : Nat]
  /\ channel \in [queue : {<<>>} \cup {<<list>> : list \in SUBSET Address},
                  missed : BOOLEAN, closed : BOOLEAN]
  /\ publisher \in [pc : {"put", "recv", "stopped"}, list : SUBSET Address, timer : Nat]
  /\ published \in SUBSET Address
  /\ latest \in [list : SUBSET Address, age : Nat]
  /\ inactive_age \in Nat

\* Time left of the put in progress.
Rest == IF publisher.pc = "put" THEN publisher.timer ELSE 0

Queued == channel.queue # <<>>

\* Where the newest list is on its way, and how much of its time is spent.
Progress ==
  publisher.pc # "stopped" =>
    /\ Rest <= MaxPut
    /\ channel.missed => Queued /\ latest.age + Rest <= MaxPut
    /\ Queued => channel.queue = <<latest.list>> /\ latest.age + Rest <= 2 * MaxPut
    /\ ~Queued => publisher.list = latest.list
    /\ ~Queued /\ publisher.pc = "put" =>
         published = latest.list \/ latest.age + Rest <= 3 * MaxPut
    /\ publisher.pc = "recv" => published = publisher.list

Looking == lookup.pc \in {"resolve", "stun"}

\* A change of the mapping that is not seen yet, or a lookup in its wake.
Pending == watch.changed \/ Looking

\* The mapping's life, and the lookup between two announcements.
Watching ==
  /\ watch.active => inactive_age = 0 /\ ~watch.changed /\ ~watch.closed
  /\ ~watch.active => watch.mapped
  /\ lookup.pc = "sleep" => ~watch.active /\ ~watch.changed
  /\ lookup.pc = "stun" => MapAddr \notin lookup.list
  /\ lookup.pc = "stopped" => channel.closed
  /\ Looking => lookup.timer <= MaxLookup

\* With ShortPuts: what is left of a wait, and how long it has lasted.
Waits ==
  lookup.pc \in {"wait", "sleep"} =>
    lookup.delay > 2 * MaxPut /\ latest.age + lookup.timer > 2 * MaxPut

\* What the waits between announcements are good for: the channel overflows only
\* through the one lookup that a change of the mapping starts early.
Spacing ==
  publisher.pc # "stopped" =>
    /\ Looking /\ (watch.active \/ watch.changed) => ~Queued
    /\ channel.missed => ~watch.active /\ ~watch.changed /\ ~Looking
    /\ ~watch.active /\ Queued /\ Pending => inactive_age + Rest <= MaxLookup + MaxPut

\* While the newest list still names the dead mapping, a lookup is under way.
Renewed ==
  ~watch.active =>
    /\ watch.changed /\ Looking => inactive_age + lookup.timer <= MaxLookup
    /\ watch.changed /\ lookup.pc = "wait" => inactive_age <= MaxLookup
    /\ MapAddr \in latest.list /\ Looking => inactive_age + lookup.timer <= MaxLookup
    /\ MapAddr \in latest.list /\ lookup.pc \in {"wait", "sleep"} =>
         watch.changed /\ inactive_age = 0

\* After it, the puts of lists that name the mapping are counted.
Owing ==
  /\ ~watch.active /\ publisher.pc # "stopped"
  /\ lookup.pc = "stopped" \/ MapAddr \notin latest.list

InRecord ==
  MapAddr \in published /\ publisher.pc = "put" =>
    inactive_age + Rest <= MaxLookup + 3 * MaxPut

InLists ==
  MapAddr \in publisher.list \cup latest.list =>
    /\ channel.missed => inactive_age + Rest <= MaxLookup + MaxPut
    /\ Queued => inactive_age + Rest <= MaxLookup + 2 * MaxPut
    /\ inactive_age + Rest <= MaxLookup + 3 * MaxPut
    /\ ~Queued /\ publisher.pc = "recv" => channel.closed

Debt == Owing => InRecord /\ InLists

\* The part of the invariant that holds for puts of any length, and the whole.
Base == Types /\ Progress /\ Watching /\ Renewed

Inv == Base /\ Waits /\ Spacing /\ Debt

-----------------------------------------------------------------------------
\* What the assumption says of the constants, one fact at a time.
LEMMA Constants ==
  /\ RetryDelay \in Nat /\ RefreshDelay \in Nat /\ PublishInterval \in Nat
  /\ MaxLookup \in Nat /\ MaxPut \in Nat
  /\ RetryDelay <= RefreshDelay
  /\ MapAddr \notin Ipv6 /\ MapAddr \notin StunAddr
  BY GatherAssumption

\* The initial state satisfies the invariant.
LEMMA InitInv == Init => Inv
<1> SUFFICES ASSUME Init PROVE Inv
  OBVIOUS
<1> USE Constants DEF Init, EmptyChannel
<1>1. Types
  BY ZenonT(60) DEF Types
<1>2. Progress
  BY DEF Progress, Rest, Queued
<1>3. Watching
  <2>1. watch.active /\ ~watch.changed /\ ~watch.closed
    BY ZenonT(60)
  <2>2. lookup.pc = "resolve" /\ lookup.timer = MaxLookup
    OBVIOUS
  <2> QED
    BY <2>1, <2>2 DEF Watching, Looking
<1>4. Waits /\ Spacing
  BY DEF Waits, Spacing, Looking, Queued
<1>5. Renewed /\ Debt
  BY ZenonT(60) DEF Renewed, Debt, Owing
<1> QED
  BY <1>1, <1>2, <1>3, <1>4, <1>5 DEF Inv, Base

-----------------------------------------------------------------------------
\* A list is broadcast: the first branch of broadcast_direct that does not fail.
Announced(list, delay) ==
  /\ lookup.pc = "stun" /\ ~channel.closed
  /\ channel' = Broadcast(channel, list)
  /\ latest' = [list |-> list, age |-> 0]
  /\ lookup' = [pc |-> "wait", list |-> list, delay |-> delay, timer |-> delay]
  /\ UNCHANGED <<watch, publisher, published, inactive_age>>

AnyAnnounced ==
  \E list \in SUBSET Address, delay \in {RetryDelay, RefreshDelay} :
    Announced(list, delay) /\ (MapAddr \in list => watch.active)

\* A lookup that ends with or without an address broadcasts a list, which names
\* the mapping only while it is active, or finds the channel closed.
LEMMA Announcements ==
  ASSUME Types, Watching, StunAnswers \/ StunFails
  PROVE  AnyAnnounced \/ (Looking /\ StopLookup)
<1>1. CASE channel.closed
  BY <1>1 DEF StunAnswers, StunFails, Announce, Looking
<1>2. CASE ~channel.closed /\ StunFails
  <2>1. MapAddr \notin lookup.list /\ lookup.list \in SUBSET Address
    BY <1>2 DEF StunFails, Watching, Types
  <2>2. Announced(lookup.list, RetryDelay)
    BY <1>2 DEF StunFails, Announce, Announced
  <2> QED
    BY <2>1, <2>2 DEF AnyAnnounced
<1>3. CASE ~channel.closed /\ StunAnswers
  <2>1. PICK address \in StunAddr :
          Announce(lookup.list \cup {address} \cup (IF MappingUsable(address) THEN {MapAddr} ELSE {}),
                   RefreshDelay)
    BY <1>3, ZenonT(60) DEF StunAnswers
  <2> DEFINE list == lookup.list \cup {address} \cup (IF MappingUsable(address) THEN {MapAddr} ELSE {})
  <2>2. list \in SUBSET Address
    BY DEF Types, Address
  <2>3. MapAddr \in list => watch.active
    BY <1>3, Constants DEF StunAnswers, Watching, MappingUsable
  <2>4. Announced(list, RefreshDelay)
    <3> HIDE DEF list
    <3> QED
      BY <1>3, <2>1 DEF StunAnswers, Announce, Announced, list
  <2> HIDE DEF list
  <2> QED
    BY <2>2, <2>3, <2>4 DEF AnyAnnounced
<1> QED
  BY <1>1, <1>2, <1>3

-----------------------------------------------------------------------------
\* A tick, field by field.  It is only taken when neither task can run.
LEMMA Ticks ==
  ASSUME Types, Tick
  PROVE  /\ lookup'.pc = lookup.pc /\ lookup'.list = lookup.list
         /\ lookup'.delay = lookup.delay /\ lookup'.timer \in Nat
         /\ lookup.pc # "stopped" => lookup'.timer = lookup.timer - 1
         /\ publisher'.pc = publisher.pc /\ publisher'.list = publisher.list
         /\ publisher'.timer \in Nat
         /\ publisher.pc # "stopped" => publisher'.timer = publisher.timer - 1
         /\ latest'.list = latest.list /\ latest'.age \in Nat
         /\ latest'.age = latest.age + 1 \/ (latest'.age = latest.age /\ latest.age = CatchUp + 1)
         /\ inactive_age' \in Nat /\ inactive_age' <= inactive_age + 1
         /\ watch.active => inactive_age' = 0
         /\ watch' = watch /\ channel' = channel /\ published' = published
         /\ lookup.pc = "wait" => ~(watch.mapped /\ watch.changed)
         /\ publisher.pc = "recv" => ~channel.missed /\ channel.queue = <<>> /\ ~channel.closed
<1> USE DEF Types, Tick, CountDown
<1>1. /\ lookup'.pc = lookup.pc /\ lookup'.list = lookup.list
      /\ lookup'.delay = lookup.delay /\ lookup'.timer \in Nat
      /\ lookup.pc # "stopped" => lookup'.timer = lookup.timer - 1
  BY DEF LookupIdle
<1>2. /\ publisher'.pc = publisher.pc /\ publisher'.list = publisher.list
      /\ publisher'.timer \in Nat
      /\ publisher.pc # "stopped" => publisher'.timer = publisher.timer - 1
  BY DEF PublisherIdle
<1>3. /\ latest'.list = latest.list /\ latest'.age \in Nat
      /\ latest'.age = latest.age + 1 \/ (latest'.age = latest.age /\ latest.age = CatchUp + 1)
  BY DEF Older
<1>4. /\ inactive_age' \in Nat /\ inactive_age' <= inactive_age + 1
      /\ watch.active => inactive_age' = 0
  BY DEF Older
<1>5. /\ lookup.pc = "wait" => ~(watch.mapped /\ watch.changed)
      /\ publisher.pc = "recv" => ~channel.missed /\ channel.queue = <<>> /\ ~channel.closed
  BY DEF LookupIdle, PublisherIdle, Ready
<1> QED
  BY <1>1, <1>2, <1>3, <1>4, <1>5

-----------------------------------------------------------------------------
\* The steps of the specification, with the two outcomes of a lookup as one.
Step ==
  \/ RenewalFails
  \/ WorkerEnds
  \/ Resolve
  \/ Looking /\ StopLookup
  \/ AnyAnnounced
  \/ WaitChanged
  \/ WaitClosed
  \/ WaitTimeout
  \/ PutDone
  \/ publisher.pc # "stopped" /\ StopPublisher
  \/ RecvOverflowed
  \/ RecvList
  \/ RecvTimeout
  \/ Tick
  \/ UNCHANGED vars

\* Every step is one of these.
LEMMA Steps ==
  ASSUME Types, Watching, [Next]_vars
  PROVE  Step
<1>1. ASSUME LookupStep PROVE Step
  <2>1. CASE StunAnswers \/ StunFails
    BY <2>1, Announcements DEF Step
  <2>2. CASE ResolveFails
    BY <2>2 DEF ResolveFails, Looking, Step
  <2> QED
    BY <1>1, <2>1, <2>2 DEF LookupStep, Step
<1>2. ASSUME PublisherStep PROVE Step
  BY <1>2 DEF PublisherStep, PutFails, RecvClosed, Step
<1> QED
  BY <1>1, <1>2 DEF Next, Step

\* Every step keeps the types.
LEMMA TypesStep ==
  ASSUME Base, [Next]_vars
  PROVE  Types'
<1> USE Constants DEF Base
<1>1. CASE RenewalFails
  BY <1>1, ZenonT(60) DEF RenewalFails, Types
<1>2. CASE WorkerEnds
  BY <1>2, ZenonT(60) DEF WorkerEnds, Types
<1>3. CASE Resolve
  <2>1. PICK found \in LocalIpv6 : lookup' = [lookup EXCEPT !.pc = "stun", !.list = found]
    BY <1>3, Zenon DEF Resolve
  <2>2. found \in SUBSET Address
    BY DEF LocalIpv6, Address
  <2> QED
    BY <1>3, <2>1, <2>2, ZenonT(60) DEF Resolve, Types
<1>4. CASE Looking /\ StopLookup
  BY <1>4, ZenonT(60) DEF StopLookup, Types
<1>5. CASE AnyAnnounced
  <2>1. PICK list \in SUBSET Address, delay \in {RetryDelay, RefreshDelay} :
          Announced(list, delay) /\ (MapAddr \in list => watch.active)
    BY <1>5 DEF AnyAnnounced
  <2> QED
    BY <2>1, ZenonT(60) DEF Announced, Broadcast, Types
<1>6. CASE WaitChanged
  BY <1>6, ZenonT(60) DEF WaitChanged, NextLookup, Types
<1>7. CASE WaitClosed
  BY <1>7, ZenonT(60) DEF WaitClosed, Types
<1>8. CASE WaitTimeout
  BY <1>8, ZenonT(60) DEF WaitTimeout, NextLookup, Types
<1>9. CASE PutDone
  BY <1>9, ZenonT(60) DEF PutDone, Types
<1>10. CASE publisher.pc # "stopped" /\ StopPublisher
  BY <1>10, ZenonT(60) DEF StopPublisher, Types
<1>11. CASE RecvOverflowed
  BY <1>11, ZenonT(60) DEF RecvOverflowed, PutAgain, Types
<1>12. CASE RecvList
  BY <1>12, SMTT(60) DEF RecvList, PutAgain, Types
<1>13. CASE RecvTimeout
  BY <1>13 DEF RecvTimeout, PutAgain, Ready, Types
<1>14. CASE Tick
  <2>1. lookup' \in [pc : {"resolve", "stun", "wait", "sleep", "stopped"},
                     list : SUBSET Address, delay : Nat, timer : Nat]
    BY <1>14, Ticks, ZenonT(60) DEF Types, Tick, CountDown
  <2>2. publisher' \in [pc : {"put", "recv", "stopped"}, list : SUBSET Address, timer : Nat]
    BY <1>14, Ticks, ZenonT(60) DEF Types, Tick, CountDown
  <2>3. latest' \in [list : SUBSET Address, age : Nat]
    BY <1>14, Ticks, ZenonT(60) DEF Types, Tick
  <2> QED
    BY <1>14, Ticks, <2>1, <2>2, <2>3 DEF Types
<1>15. CASE UNCHANGED vars
  BY <1>15 DEF vars, Types
<1> QED
  BY Steps, <1>1, <1>2, <1>3, <1>4, <1>5, <1>6, <1>7, <1>8,
     <1>9, <1>10, <1>11, <1>12, <1>13, <1>14, <1>15 DEF Step

\* Every step keeps Progress: the sum of a list's age and the rest of the put never
\* grows, and each of the three puts adds MaxPut.
LEMMA ProgressStep ==
  ASSUME Base, [Next]_vars
  PROVE  Progress'
<1> USE Constants DEF Base
<1>1. CASE RenewalFails
  BY <1>1 DEF RenewalFails, Types, Progress, Rest, Queued
<1>2. CASE WorkerEnds
  BY <1>2 DEF WorkerEnds, Types, Progress, Rest, Queued
<1>3. CASE Resolve
  BY <1>3 DEF Resolve, LocalIpv6, Types, Progress, Rest, Queued
<1>4. CASE Looking /\ StopLookup
  BY <1>4 DEF StopLookup, Types, Progress, Rest, Queued
<1>5. CASE AnyAnnounced
  <2>1. PICK list \in SUBSET Address, delay \in {RetryDelay, RefreshDelay} :
          Announced(list, delay) /\ (MapAddr \in list => watch.active)
    BY <1>5 DEF AnyAnnounced
  <2> QED
    BY <2>1 DEF Announced, Broadcast, Types, Progress, Rest, Queued
<1>6. CASE WaitChanged
  BY <1>6 DEF WaitChanged, NextLookup, Types, Progress, Rest, Queued
<1>7. CASE WaitClosed
  BY <1>7 DEF WaitClosed, Types, Progress, Rest, Queued
<1>8. CASE WaitTimeout
  BY <1>8 DEF WaitTimeout, NextLookup, Types, Progress, Rest, Queued
<1>9. CASE PutDone
  BY <1>9 DEF PutDone, Types, Progress, Rest, Queued
<1>10. CASE publisher.pc # "stopped" /\ StopPublisher
  BY <1>10 DEF StopPublisher, Types, Progress, Rest, Queued
<1>11. CASE RecvOverflowed
  BY <1>11 DEF RecvOverflowed, PutAgain, Types, Progress, Rest, Queued
<1>12. CASE RecvList
  BY <1>12, SMTT(60) DEF RecvList, PutAgain, Types, Progress, Rest, Queued
<1>13. CASE RecvTimeout
  BY <1>13 DEF RecvTimeout, PutAgain, Ready, Types, Progress, Rest, Queued
<1>14. CASE Tick
  <2> SUFFICES ASSUME publisher.pc # "stopped" PROVE Progress'
    BY <1>14, Ticks DEF Progress
  <2>1. Rest' <= Rest /\ (publisher.pc = "put" => Rest' = Rest - 1)
    BY <1>14, Ticks DEF Types, Rest
  <2>2. Queued' = Queued /\ (Queued \/ channel.missed => publisher.pc = "put")
    BY <1>14, Ticks DEF Types, Queued
  <2>3. latest'.age <= latest.age + 1
    BY <1>14, Ticks DEF Types
  <2>4. Rest \in Nat /\ Rest' \in Nat
    BY <1>14, Ticks DEF Types, Rest
  <2>5. latest.age \in Nat /\ latest'.age \in Nat /\ publisher.pc \in {"put", "recv"}
    BY <1>14, Ticks DEF Types
  <2>6. Queued => latest'.age + Rest' <= latest.age + Rest
    BY <2>1, <2>2, <2>3, <2>4, <2>5
  <2>7. publisher.pc = "put" => latest'.age + Rest' <= latest.age + Rest
    BY <2>1, <2>3, <2>4, <2>5
  <2>8. /\ publisher'.pc = publisher.pc /\ publisher'.list = publisher.list
        /\ latest'.list = latest.list /\ channel' = channel /\ published' = published
    BY <1>14, Ticks
  <2> QED
    BY <2>1, <2>2, <2>4, <2>5, <2>6, <2>7, <2>8 DEF Progress
<1>15. CASE UNCHANGED vars
  BY <1>15 DEF vars, Types, Progress, Rest, Queued
<1> QED
  BY Steps, <1>1, <1>2, <1>3, <1>4, <1>5, <1>6, <1>7, <1>8,
     <1>9, <1>10, <1>11, <1>12, <1>13, <1>14, <1>15 DEF Step

\* Every step keeps Watching.
LEMMA WatchingStep ==
  ASSUME Base, [Next]_vars
  PROVE  Watching'
<1> USE Constants DEF Base
<1>1. CASE RenewalFails
  BY <1>1 DEF RenewalFails, Types, Progress, Watching, Looking, Queued, Rest
<1>2. CASE WorkerEnds
  BY <1>2 DEF WorkerEnds, Types, Progress, Watching, Looking, Queued, Rest
<1>3. CASE Resolve
  BY <1>3 DEF Resolve, LocalIpv6, Types, Progress, Watching, Looking, Queued, Rest
<1>4. CASE Looking /\ StopLookup
  BY <1>4 DEF StopLookup, Types, Progress, Watching, Looking, Queued, Rest
<1>5. CASE AnyAnnounced
  <2>1. PICK list \in SUBSET Address, delay \in {RetryDelay, RefreshDelay} :
          Announced(list, delay) /\ (MapAddr \in list => watch.active)
    BY <1>5 DEF AnyAnnounced
  <2> QED
    BY <2>1 DEF Announced, Broadcast, Types, Progress, Watching, Looking, Queued, Rest
<1>6. CASE WaitChanged
  BY <1>6 DEF WaitChanged, NextLookup, Types, Progress, Watching, Looking, Queued, Rest
<1>7. CASE WaitClosed
  BY <1>7 DEF WaitClosed, Types, Progress, Watching, Looking, Queued, Rest
<1>8. CASE WaitTimeout
  BY <1>8 DEF WaitTimeout, NextLookup, Types, Progress, Watching, Looking, Queued, Rest
<1>9. CASE PutDone
  BY <1>9 DEF PutDone, Types, Progress, Watching, Looking, Queued, Rest
<1>10. CASE publisher.pc # "stopped" /\ StopPublisher
  BY <1>10 DEF StopPublisher, Types, Progress, Watching, Looking, Queued, Rest
<1>11. CASE RecvOverflowed
  BY <1>11 DEF RecvOverflowed, PutAgain, Types, Progress, Watching, Looking, Queued, Rest
<1>12. CASE RecvList
  BY <1>12 DEF RecvList, PutAgain, Types, Progress, Watching, Looking, Queued, Rest
<1>13. CASE RecvTimeout
  BY <1>13, SMTT(30) DEF RecvTimeout, PutAgain, Ready, Types, Progress, Watching, Looking, Queued, Rest
<1>14. CASE Tick
  <2>1. Looking' = Looking /\ (Looking => lookup'.timer <= MaxLookup)
    BY <1>14, Ticks DEF Types, Watching, Looking
  <2> QED
    BY <1>14, Ticks, <2>1, SMTT(30) DEF Watching
<1>15. CASE UNCHANGED vars
  BY <1>15 DEF vars, Watching, Looking
<1> QED
  BY Steps, <1>1, <1>2, <1>3, <1>4, <1>5, <1>6, <1>7, <1>8,
     <1>9, <1>10, <1>11, <1>12, <1>13, <1>14, <1>15 DEF Step

\* Every step keeps Waits.
LEMMA WaitsStep ==
  ASSUME ShortPuts, Inv, [Next]_vars
  PROVE  Waits'
<1> USE Constants DEF Inv, Base
<1>1. CASE AnyAnnounced
  <2>1. PICK list \in SUBSET Address, delay \in {RetryDelay, RefreshDelay} :
          Announced(list, delay) /\ (MapAddr \in list => watch.active)
    BY <1>1 DEF AnyAnnounced
  <2> QED
    BY <2>1 DEF Announced, Types, Waits, ShortPuts
<1>2. CASE WaitClosed
  BY <1>2 DEF WaitClosed, Types, Waits
<1>3. CASE Tick
  <2>1. latest.age \in Nat /\ lookup.timer \in Nat /\ latest'.age \in Nat /\ lookup'.timer \in Nat
    BY <1>3, Ticks DEF Types
  <2>2. latest'.age = latest.age + 1 \/ latest'.age > 2 * MaxPut
    BY <1>3, Ticks, <2>1 DEF CatchUp
  <2>3. lookup.pc \in {"wait", "sleep"} =>
          lookup'.timer = lookup.timer - 1 /\ lookup'.delay = lookup.delay
    BY <1>3, Ticks
  <2>4. lookup'.pc = lookup.pc
    BY <1>3, Ticks
  <2> QED
    BY <2>1, <2>2, <2>3, <2>4, SMTT(30) DEF Waits
<1>4. CASE lookup'.pc \notin {"wait", "sleep"}
  BY <1>4 DEF Waits
<1>5. CASE UNCHANGED <<lookup, latest>>
  BY <1>5 DEF Waits
<1>6. \/ AnyAnnounced \/ WaitClosed \/ Tick
      \/ Resolve \/ (Looking /\ StopLookup) \/ WaitChanged \/ WaitTimeout
      \/ UNCHANGED <<lookup, latest>>
  BY Steps DEF Step, RenewalFails, WorkerEnds, PutDone, StopPublisher, RecvOverflowed,
     RecvList, RecvTimeout, vars
<1>7. Resolve \/ (Looking /\ StopLookup) \/ WaitChanged \/ WaitTimeout
        => lookup'.pc \notin {"wait", "sleep"}
  BY DEF Resolve, StopLookup, WaitChanged, WaitTimeout, NextLookup, Types
<1> QED
  BY <1>1, <1>2, <1>3, <1>4, <1>5, <1>6, <1>7

\* Every step keeps Spacing: after a wait the newest list is older than two puts,
\* so Progress says that the channel is empty.
LEMMA SpacingStep ==
  ASSUME Inv, [Next]_vars
  PROVE  Spacing'
<1> USE Constants DEF Inv, Base
<1>1. CASE RenewalFails
  BY <1>1 DEF RenewalFails, Types, Progress, Watching, Waits, Spacing, Looking, Queued, Rest
<1>2. CASE WorkerEnds
  BY <1>2 DEF WorkerEnds, Spacing, Looking, Queued, Rest, Pending
<1>3. CASE Resolve
  BY <1>3 DEF Resolve, Spacing, Looking, Queued, Rest, Pending
<1>4. CASE Looking /\ StopLookup
  BY <1>4 DEF StopLookup, Spacing, Looking, Queued, Pending
<1>5. CASE AnyAnnounced
  <2>1. PICK list \in SUBSET Address, delay \in {RetryDelay, RefreshDelay} :
          Announced(list, delay) /\ (MapAddr \in list => watch.active)
    BY <1>5 DEF AnyAnnounced
  <2> QED
    BY <2>1, SMTT(60) DEF Announced, Broadcast, Types, Progress, Spacing, Renewed, Looking, Queued,
       Rest, Pending
<1>6. CASE WaitChanged
  BY <1>6 DEF WaitChanged, Types, Progress, Watching, Waits, Spacing, Renewed, Rest
<1>7. CASE WaitClosed
  BY <1>7 DEF WaitClosed, Spacing, Looking, Pending
<1>8. CASE WaitTimeout
  BY <1>8 DEF WaitTimeout, Types, Progress, Watching, Waits, Spacing, Queued, Rest
<1>9. CASE PutDone
  BY <1>9 DEF PutDone, Types, Spacing, Looking, Queued, Rest, Pending
<1>10. CASE publisher.pc # "stopped" /\ StopPublisher
  BY <1>10 DEF StopPublisher, Spacing
<1>11. CASE RecvOverflowed
  BY <1>11 DEF RecvOverflowed, Spacing, Looking, Pending
<1>12. CASE RecvList
  BY <1>12 DEF RecvList, Spacing, Queued
<1>13. CASE RecvTimeout
  BY <1>13 DEF RecvTimeout, Ready, Spacing, Queued
<1>14. CASE Tick
  BY <1>14, Ticks, SMTT(60) DEF Types, Spacing, Pending, Looking, Rest, Queued
<1>15. CASE UNCHANGED vars
  BY <1>15 DEF vars, Spacing, Looking, Queued, Rest, Pending
<1> QED
  BY Steps, <1>1, <1>2, <1>3, <1>4, <1>5, <1>6, <1>7, <1>8,
     <1>9, <1>10, <1>11, <1>12, <1>13, <1>14, <1>15 DEF Step

\* Every step keeps Renewed.
LEMMA RenewedStep ==
  ASSUME Base, [Next]_vars
  PROVE  Renewed'
<1> USE Constants DEF Base
<1>1. CASE RenewalFails
  BY <1>1 DEF RenewalFails, Types, Watching, Renewed, Looking
<1>2. CASE WorkerEnds
  BY <1>2 DEF WorkerEnds, Types, Watching, Renewed, Looking
<1>3. CASE Resolve
  BY <1>3 DEF Resolve, LocalIpv6, Types, Watching, Renewed, Looking
<1>4. CASE Looking /\ StopLookup
  BY <1>4 DEF StopLookup, Types, Watching, Renewed, Looking
<1>5. CASE AnyAnnounced
  <2>1. PICK list \in SUBSET Address, delay \in {RetryDelay, RefreshDelay} :
          Announced(list, delay) /\ (MapAddr \in list => watch.active)
    BY <1>5 DEF AnyAnnounced
  <2> QED
    BY <2>1 DEF Announced, Broadcast, Types, Watching, Renewed, Looking
<1>6. CASE WaitChanged
  BY <1>6 DEF WaitChanged, NextLookup, Types, Watching, Renewed, Looking
<1>7. CASE WaitClosed
  BY <1>7 DEF WaitClosed, Types, Watching, Renewed, Looking
<1>8. CASE WaitTimeout
  BY <1>8 DEF WaitTimeout, NextLookup, Types, Watching, Renewed, Looking
<1>9. CASE PutDone
  BY <1>9 DEF PutDone, Types, Watching, Renewed, Looking
<1>10. CASE publisher.pc # "stopped" /\ StopPublisher
  BY <1>10 DEF StopPublisher, Types, Watching, Renewed, Looking
<1>11. CASE RecvOverflowed
  BY <1>11 DEF RecvOverflowed, PutAgain, Types, Watching, Renewed, Looking
<1>12. CASE RecvList
  BY <1>12 DEF RecvList, PutAgain, Types, Watching, Renewed, Looking
<1>13. CASE RecvTimeout
  BY <1>13 DEF RecvTimeout, Renewed, Looking
<1>14. CASE Tick
  BY <1>14, Ticks, SMTT(60) DEF Types, Watching, Renewed, Looking
<1>15. CASE UNCHANGED vars
  BY <1>15 DEF vars, Types, Watching, Renewed, Looking
<1> QED
  BY Steps, <1>1, <1>2, <1>3, <1>4, <1>5, <1>6, <1>7, <1>8,
     <1>9, <1>10, <1>11, <1>12, <1>13, <1>14, <1>15 DEF Step

\* Every step keeps Debt.
LEMMA DebtStep ==
  ASSUME Inv, [Next]_vars
  PROVE  Debt'
<1> USE Constants DEF Inv, Base
<1>1. CASE RenewalFails
  BY <1>1, SMTT(60) DEF RenewalFails, Types, Progress, Watching, Waits, Spacing, Debt, Owing, InRecord,
     InLists, Queued, Rest
<1>2. CASE WorkerEnds
  BY <1>2 DEF WorkerEnds, Debt, Owing, InRecord, InLists, Queued, Rest
<1>3. CASE Resolve
  BY <1>3 DEF Resolve, Debt, Owing, InRecord, InLists, Queued, Rest
<1>4. CASE Looking /\ StopLookup
  <2> SUFFICES ASSUME Owing' PROVE InRecord' /\ InLists'
    BY DEF Debt
  <2>1. Rest' = Rest /\ Queued' = Queued /\ channel'.closed /\ channel'.missed = channel.missed
    BY <1>4 DEF StopLookup, Types, Rest, Queued
  <2>2. CASE MapAddr \notin latest.list
    BY <1>4, <2>1, <2>2 DEF StopLookup, Types, Debt, Owing, InRecord, InLists
  <2>3. CASE MapAddr \in latest.list
    <3>1. inactive_age <= MaxLookup /\ Rest <= MaxPut /\ Rest \in Nat /\ inactive_age \in Nat
      BY <1>4, <2>3 DEF StopLookup, Types, Owing, Renewed, Progress, Rest
    <3> QED
      BY <1>4, <2>1, <3>1 DEF StopLookup, InRecord, InLists
  <2> QED
    BY <2>2, <2>3
<1>5. CASE AnyAnnounced
  <2> SUFFICES ASSUME Owing' PROVE InRecord' /\ InLists'
    BY DEF Debt
  <2>1. PICK list \in SUBSET Address, delay \in {RetryDelay, RefreshDelay} :
          Announced(list, delay) /\ (MapAddr \in list => watch.active)
    BY <1>5 DEF AnyAnnounced
  <2>2. /\ ~watch.active /\ publisher.pc # "stopped" /\ lookup.pc = "stun"
        /\ Rest' = Rest /\ MapAddr \notin latest'.list /\ Queued'
        /\ channel'.missed => Queued \/ channel.missed
    BY <2>1 DEF Announced, Broadcast, Types, Owing, Rest, Queued
  <2>3. Rest <= MaxPut /\ Rest \in Nat /\ inactive_age \in Nat
    BY <2>2 DEF Progress, Types, Rest
  <2>4. ~channel.missed
    BY <2>2 DEF Spacing, Looking
  <2>5. CASE MapAddr \in latest.list
    <3>1. inactive_age <= MaxLookup
      BY <2>2, <2>5 DEF Renewed, Looking, Types
    <3> QED
      BY <2>1, <2>2, <2>3, <3>1 DEF Announced, InRecord, InLists
  <2>6. CASE MapAddr \notin latest.list
    <3>1. InRecord /\ InLists
      BY <2>2, <2>6 DEF Debt, Owing
    <3>2. ~Queued => MapAddr \notin publisher.list
      BY <2>2, <2>6 DEF Progress
    <3>3. Queued => inactive_age + Rest <= MaxLookup + MaxPut
      BY <2>2 DEF Spacing, Pending, Looking
    <3> QED
      BY <2>1, <2>2, <2>3, <2>4, <3>1, <3>2, <3>3 DEF Announced, InRecord, InLists
  <2> QED
    BY <2>5, <2>6
<1>6. CASE WaitChanged
  BY <1>6 DEF WaitChanged, NextLookup, Debt, Owing, InRecord, InLists, Queued, Rest
<1>7. CASE WaitClosed
  BY <1>7 DEF WaitClosed, Debt, Owing, InRecord, InLists, Queued, Rest
<1>8. CASE WaitTimeout
  BY <1>8 DEF WaitTimeout, NextLookup, Types, Progress, Watching, Waits, Debt, Owing, InRecord,
     InLists, Rest
<1>9. CASE PutDone
  <2> SUFFICES ASSUME Owing PROVE InRecord' /\ InLists'
    BY <1>9 DEF Debt, Owing, PutDone, Types
  <2>1. publisher'.pc = "recv" /\ publisher'.list = publisher.list
    BY <1>9 DEF PutDone, Types
  <2>2. Rest' = 0 /\ Rest \in Nat
    BY <1>9, <2>1 DEF Rest, Types
  <2>3. ~Queued => publisher.list = latest.list
    BY <1>9 DEF PutDone, Progress
  <2>4. MapAddr \in latest.list => channel.closed
    BY DEF Owing, Watching
  <2>5. InLists /\ Queued' = Queued /\ inactive_age \in Nat
    BY <1>9 DEF PutDone, Types, Debt, Queued
  <2>6. UNCHANGED <<channel, latest, inactive_age>>
    BY <1>9 DEF PutDone
  <2> QED
    BY <2>1, <2>2, <2>3, <2>4, <2>5, <2>6 DEF InRecord, InLists
<1>10. CASE publisher.pc # "stopped" /\ StopPublisher
  BY <1>10 DEF StopPublisher, Debt, Owing
<1>11. CASE RecvOverflowed
  BY <1>11, SMTT(60) DEF RecvOverflowed, PutAgain, Types, Progress, Debt, Owing, InRecord, InLists,
     Queued, Rest
<1>12. CASE RecvList
  BY <1>12, SMTT(60) DEF RecvList, PutAgain, Types, Progress, Debt, Owing, InRecord, InLists,
     Queued, Rest
<1>13. CASE RecvTimeout
  BY <1>13 DEF RecvTimeout, PutAgain, Ready, Progress, Debt, Owing, InRecord, InLists, Queued
<1>14. CASE Tick
  <2> SUFFICES ASSUME Owing PROVE InRecord' /\ InLists'
    BY <1>14, Ticks DEF Debt, Owing
  <2>1. /\ publisher.timer \in Nat /\ publisher'.timer \in Nat /\ publisher'.pc = publisher.pc
        /\ publisher.pc = "put" => publisher'.timer = publisher.timer - 1
    BY <1>14, Ticks DEF Types
  <2>2. inactive_age \in Nat /\ inactive_age' \in Nat /\ inactive_age' <= inactive_age + 1
    BY <1>14, Ticks DEF Types
  <2>3. publisher.pc = "put" => inactive_age' + Rest' <= inactive_age + Rest
    BY <2>1, <2>2 DEF Rest
  <2>4. publisher.pc = "recv" => ~Queued /\ ~channel.closed
    BY <1>14, Ticks DEF Queued
  <2>5. publisher.pc \in {"put", "recv"} /\ Queued' = Queued
    BY <1>14, Ticks DEF Types, Owing, Queued
  <2>6. Rest \in Nat /\ Rest' \in Nat
    BY <2>1, <2>2 DEF Rest
  <2>7. /\ publisher'.list = publisher.list /\ latest'.list = latest.list
        /\ channel' = channel /\ published' = published
    BY <1>14, Ticks DEF Types
  <2>8. Owing /\ InRecord /\ InLists
    BY <1>14, Ticks DEF Debt, Owing
  <2>9. CASE publisher.pc = "put"
    <3>1. inactive_age' + Rest' <= inactive_age + Rest
      BY <2>9, <2>3
    <3>2. \A n \in Nat : inactive_age + Rest <= n => inactive_age' + Rest' <= n
      <4>1. inactive_age + Rest \in Nat /\ inactive_age' + Rest' \in Nat
        <5>1. \A x, y \in Nat : x + y \in Nat
          OBVIOUS
        <5> QED
          BY <2>6, <2>2, <5>1, Zenon
      <4>2. \A x, y, n \in Nat : y <= x /\ x <= n => y <= n
        OBVIOUS
      <4> QED
        BY <3>1, <4>1, <4>2, Zenon
    <3>3. InRecord'
      BY <2>9, <2>1, <2>7, <2>8, <3>2, Constants DEF InRecord
    <3>4. InLists'
      BY <2>9, <2>5, <2>1, <2>7, <2>8, <3>2, Constants DEF InLists
    <3> QED
      BY <3>3, <3>4
  <2>10. CASE publisher.pc = "recv"
    <3>1. MapAddr \notin publisher.list \cup latest.list
      BY <2>10, <2>4, <2>8 DEF InLists
    <3> QED
      BY <3>1, <2>10, <2>1, <2>7 DEF InRecord, InLists
  <2> QED
    BY <2>5, <2>9, <2>10
<1>15. CASE UNCHANGED vars
  BY <1>15 DEF vars, Debt, Owing, InRecord, InLists, Queued, Rest
<1> QED
  BY Steps, <1>1, <1>2, <1>3, <1>4, <1>5, <1>6, <1>7, <1>8,
     <1>9, <1>10, <1>11, <1>12, <1>13, <1>14, <1>15 DEF Step

\* The first part of the invariant holds throughout.
LEMMA BaseInvariant == Spec => []Base
<1>1. Base /\ [Next]_vars => Base'
  BY TypesStep, ProgressStep, WatchingStep, RenewedStep DEF Base
<1>2. Init => Base
  BY InitInv DEF Inv
<1> QED
  BY <1>1, <1>2, PTL DEF Spec

\* The whole of it, with ShortPuts.
LEMMA Invariant == ShortPuts => (Spec => []Inv)
<1> SUFFICES ASSUME ShortPuts PROVE Spec => []Inv
  OBVIOUS
<1>1. Inv /\ [Next]_vars => Inv'
  <2> SUFFICES ASSUME Inv, [Next]_vars PROVE Inv'
    OBVIOUS
  <2>1. Base'
    BY TypesStep, ProgressStep, WatchingStep, RenewedStep DEF Inv, Base
  <2> QED
    BY <2>1, WaitsStep, SpacingStep, DebtStep DEF Inv
<1> QED
  BY <1>1, InitInv, PTL DEF Spec

\* A list that has been the newest for three puts is the published one, through
\* any number of overflows and however long the puts are (candidates.rs,
\* publish_candidates).
THEOREM PublicationAlwaysCatchesUp == Spec => []PublicationCatchesUp
<1>1. Base => PublicationCatchesUp
  BY Constants DEF Base, Types, Progress, Rest, PublicationCatchesUp, CatchUp
<1> QED
  BY <1>1, BaseInvariant, PTL

\* From one lookup after the renewal has failed no newest list names the mapping,
\* however long the puts are, unless the gathering has ended (candidates.rs,
\* is_active and changed).
THEOREM DeadMappingLeavesLists ==
  Spec => [](inactive_age > MaxLookup /\ lookup.pc # "stopped" => MapAddr \notin latest.list)
<1>1. Base => (inactive_age > MaxLookup /\ lookup.pc # "stopped" => MapAddr \notin latest.list)
  <2> SUFFICES ASSUME Base, lookup.pc # "stopped", MapAddr \in latest.list
               PROVE  inactive_age <= MaxLookup
    BY Constants DEF Base, Types
  <2>1. inactive_age \in Nat /\ lookup.timer \in Nat
    BY DEF Base, Types
  <2>2. CASE watch.active
    BY <2>2, Constants DEF Base, Watching
  <2>3. CASE ~watch.active /\ Looking
    BY <2>1, <2>3, Constants DEF Base, Renewed
  <2>4. CASE ~watch.active /\ lookup.pc \in {"wait", "sleep"}
    BY <2>4, Constants DEF Base, Renewed
  <2> QED
    BY <2>2, <2>3, <2>4 DEF Base, Types, Looking
<1> QED
  BY <1>1, BaseInvariant, PTL

\* With ShortPuts the record stops naming a mapping that has died within one lookup
\* and three puts, whatever the failure overtakes (candidates.rs, is_active and
\* changed).
THEOREM DeadMappingAlwaysWithdrawn == ShortPuts => (Spec => []DeadMappingWithdrawn)
<1> SUFFICES ASSUME ShortPuts PROVE Spec => []DeadMappingWithdrawn
  OBVIOUS
<1>1. Inv => DeadMappingWithdrawn
  <2> SUFFICES ASSUME Inv, publisher.pc # "stopped", MapAddr \in published
               PROVE  inactive_age <= WithdrawLimit
    BY Constants DEF DeadMappingWithdrawn, Inv, Base, Types, WithdrawLimit, CatchUp
  <2>1. Rest \in Nat /\ inactive_age \in Nat
    BY DEF Inv, Base, Types, Rest
  <2>2. CASE watch.active
    BY <2>1, <2>2, Constants DEF Inv, Base, Watching, WithdrawLimit, CatchUp
  <2>3. CASE ~watch.active /\ ~Owing
    BY <2>1, <2>3, Constants DEF Inv, Base, Types, Owing, Renewed, Looking, WithdrawLimit, CatchUp
  <2>4. CASE Owing
    <3>1. publisher.pc = "recv" => published = publisher.list
      BY DEF Inv, Base, Progress
    <3>2. inactive_age + Rest <= MaxLookup + 3 * MaxPut
      BY <2>4, <3>1 DEF Inv, Base, Types, Debt, InRecord, InLists
    <3> QED
      BY <2>1, <3>2, Constants DEF WithdrawLimit, CatchUp
  <2> QED
    BY <2>2, <2>3, <2>4 DEF Owing
<1> QED
  BY <1>1, Invariant, PTL

\* No lookup starts before its wait is over except for a change that was not
\* seen before (candidates.rs, the wait of lookup_public_address).
THEOREM LookupsAreNeverBusy == Spec => NoBusyLookup
<1>1. Base /\ [Next]_vars =>
        [lookup.pc \in {"wait", "sleep"} /\ lookup'.pc = "resolve"
           => lookup.timer = 0 \/ (watch.changed /\ ~watch'.changed)]_vars
  <2> SUFFICES ASSUME Base, [Next]_vars, lookup.pc \in {"wait", "sleep"}, lookup'.pc = "resolve"
               PROVE  lookup.timer = 0 \/ (watch.changed /\ ~watch'.changed)
    OBVIOUS
  <2>1. Step
    BY Steps DEF Base
  <2>2. CASE WaitChanged
    BY <2>2 DEF WaitChanged, Base, Types
  <2>3. CASE WaitTimeout
    BY <2>3 DEF WaitTimeout
  <2>4. CASE WaitClosed \/ (Looking /\ StopLookup) \/ Resolve
    BY <2>4, ZenonT(60) DEF WaitClosed, StopLookup, Resolve, Looking, Base, Types
  <2>5. CASE AnyAnnounced
    BY <2>5 DEF AnyAnnounced, Announced
  <2>6. CASE Tick
    BY <2>6, Ticks DEF Base
  <2>7. CASE lookup' = lookup
    BY <2>7
  <2>8. \/ WaitChanged \/ WaitTimeout \/ WaitClosed \/ (Looking /\ StopLookup) \/ Resolve
        \/ AnyAnnounced \/ Tick \/ lookup' = lookup
    BY <2>1 DEF Step, RenewalFails, WorkerEnds, PutDone, StopPublisher, RecvOverflowed,
       RecvList, RecvTimeout, vars
  <2> QED
    BY <2>2, <2>3, <2>4, <2>5, <2>6, <2>7, <2>8
<1> QED
  BY <1>1, BaseInvariant, PTL DEF Spec, NoBusyLookup
=============================================================================
