----------------------------- MODULE NatMapping -----------------------------
(***************************************************************************)
(* A router mapping (src/src/nat.rs): the worker thread that creates it,   *)
(* renews it and removes it, the Mapping handle that candidate gathering   *)
(* owns, and the lease the router keeps.  The router and the mapping       *)
(* libraries are external: a request succeeds or fails, and PCP and        *)
(* NAT-PMP grant any lifetime of Granted.  Time is counted down; requests  *)
(* take none of it, and the worker runs as soon as it can.                 *)
(***************************************************************************)
EXTENDS Integers

CONSTANTS
  Granted,          \* lifetimes a PCP or NAT-PMP router may grant
  RenewalMinimum,   \* MAPPING_RENEWAL_MINIMUM
  Lifetime          \* MAPPING_LIFETIME_SECONDS, what UPnP IGD is asked for

VARIABLES
  worker,           \* [pc, method, lifetime, timer] of the worker thread
  lease,            \* time left of the router's lease, 0 without one
  active,           \* the watch<bool> that is_active reads
  handle,           \* the Mapping: "pending", "held", "dropped" or "none"
  shutdown          \* the shutdown channel: [sent, disconnected]

mapping_vars == <<worker, lease, active, handle, shutdown>>

\* What a lease may be granted for, method by method.
Lifetimes(method) == IF method = "upnp" THEN {Lifetime} ELSE Granted

\* Mutant: the renewal waits for the whole lifetime.
RenewalAtExpiry(method, lifetime) == lifetime

\* PCP and NAT-PMP are renewed at half of their lifetime but never before
\* RenewalMinimum, UPnP IGD at half of the lifetime it is asked for.
RenewalDelay(method, lifetime) ==
  IF method = "upnp" \/ lifetime \div 2 > RenewalMinimum
  THEN lifetime \div 2 ELSE RenewalMinimum

ASSUME LifetimeAssumption ==
  /\ Granted \subseteq Nat \ {0}
  /\ RenewalMinimum \in Nat \ {0}
  /\ Lifetime \in Nat /\ Lifetime >= 2

MappingInit ==
  /\ worker = [pc |-> "request", method |-> "pcp", lifetime |-> 0, timer |-> 0]
  /\ lease = 0
  /\ active = TRUE
  /\ handle = "pending"
  /\ shutdown = [sent |-> FALSE, disconnected |-> FALSE]

Ended(w) == [w EXCEPT !.pc = "ended"]

Waiting(method, lifetime) ==
  [pc |-> "wait", method |-> method, lifetime |-> lifetime,
   timer |-> RenewalDelay(method, lifetime)]

\* try_pcp_natpmp, then try_upnp_igd; the Mapping goes to map_udp_port's caller.
Create ==
  /\ worker.pc = "request" /\ handle = "pending"
  /\ \E method \in {"pcp", "upnp"} : \E lifetime \in Lifetimes(method) :
       /\ worker' = Waiting(method, lifetime)
       /\ lease' = lifetime
  /\ handle' = "held"
  /\ UNCHANGED <<active, shutdown>>

\* The caller of map_udp_port is gone.  The Mapping is dropped by the blocking task
\* that receives it, which tells the worker, or by a send that fails; either way the
\* worker goes on to remove what it has just created.
CreateUnwanted ==
  /\ worker.pc = "request" /\ handle = "dropped"
  /\ \E method \in {"pcp", "upnp"} : \E lifetime \in Lifetimes(method) :
       /\ worker' = [worker EXCEPT !.pc = "remove", !.method = method, !.lifetime = lifetime]
       /\ lease' = lifetime
  /\ shutdown' = [sent |-> TRUE, disconnected |-> TRUE]
  /\ UNCHANGED <<active, handle>>

\* No protocol worked.  A NAT-PMP mapping whose external address could not be
\* read is given up without being removed.
CreateFails ==
  /\ worker.pc = "request"
  /\ worker' = Ended(worker)
  /\ lease' \in {0} \cup Granted
  /\ handle' = IF handle = "pending" THEN "none" ELSE handle
  /\ UNCHANGED <<active, shutdown>>

\* Mutant: the worker keeps a sender of its own and is not told.
DropSilently ==
  /\ handle \in {"pending", "held"}
  /\ handle' = "dropped"
  /\ UNCHANGED <<worker, lease, active, shutdown>>

\* Mapping::drop sends once and drops the sender.  Before the Mapping exists,
\* the caller of map_udp_port goes away.
DropHandle ==
  /\ handle \in {"pending", "held"}
  /\ handle' = "dropped"
  /\ shutdown' = IF handle = "held" THEN [sent |-> TRUE, disconnected |-> TRUE] ELSE shutdown
  /\ UNCHANGED <<worker, lease, active>>

\* recv_timeout returns Ok or Disconnected.
ShutdownReceived ==
  /\ worker.pc = "wait" /\ (shutdown.sent \/ shutdown.disconnected)
  /\ worker' = [worker EXCEPT !.pc = "remove"]
  /\ shutdown' = [shutdown EXCEPT !.sent = FALSE]
  /\ UNCHANGED <<lease, active, handle>>

\* recv_timeout returns Timeout; the handle may be dropped before the renewal.
RenewalDue ==
  /\ worker.pc = "wait" /\ worker.timer = 0 /\ ~(shutdown.sent \/ shutdown.disconnected)
  /\ worker' = [worker EXCEPT !.pc = "renew"]
  /\ UNCHANGED <<lease, active, handle, shutdown>>

Renew ==
  /\ worker.pc = "renew"
  /\ \E lifetime \in Lifetimes(worker.method) :
       /\ worker' = Waiting(worker.method, lifetime)
       /\ lease' = lifetime
  /\ UNCHANGED <<active, handle, shutdown>>

\* The mapping is reported inactive and left to expire.
RenewFails ==
  /\ worker.pc = "renew"
  /\ active' = FALSE
  /\ worker' = Ended(worker)
  /\ UNCHANGED <<lease, handle, shutdown>>

\* A removal that fails is logged and not tried again.
Remove ==
  /\ worker.pc = "remove"
  /\ worker' = Ended(worker)
  /\ lease' \in {0, lease}
  /\ UNCHANGED <<active, handle, shutdown>>

MappingTick ==
  /\ worker.pc = "ended" \/ (worker.pc = "wait" /\ worker.timer > 0 /\ ~shutdown.disconnected)
  /\ worker' = [worker EXCEPT !.timer = IF @ > 0 THEN @ - 1 ELSE 0]
  /\ lease' = IF lease > 0 THEN lease - 1 ELSE 0
  /\ UNCHANGED <<active, handle, shutdown>>

WorkerStep ==
  \/ Create \/ CreateUnwanted \/ CreateFails
  \/ ShutdownReceived \/ RenewalDue \/ Renew \/ RenewFails \/ Remove

MappingNext == WorkerStep \/ DropHandle \/ MappingTick

MappingSpec == MappingInit /\ [][MappingNext]_mapping_vars

\* The worker has a thread of its own, and time passes.
MappingFairSpec == MappingSpec /\ WF_mapping_vars(WorkerStep) /\ WF_mapping_vars(MappingTick)
-----------------------------------------------------------------------------
TypeOK ==
  /\ worker \in [pc : {"request", "wait", "renew", "remove", "ended"},
                 method : {"pcp", "upnp"}, lifetime : Nat, timer : Nat]
  /\ lease \in Nat
  /\ active \in BOOLEAN
  /\ handle \in {"pending", "held", "dropped", "none"}
  /\ shutdown \in [sent : BOOLEAN, disconnected : BOOLEAN]

\* A mapping that gathering may publish has a lease at the router: the worker's
\* "renewed before its lease expires" holds at every moment the watch says
\* active, the moments around a renewal included.
ActiveMeansLeased == handle = "held" /\ active => lease > 0

\* Once gathering has dropped its Mapping the lease does not outlive the worker:
\* whether the drop meets the worker waiting, about to renew or removing, and
\* even if the removal fails, the router's entry is gone for good in the end.
DroppedMappingExpires == (handle = "dropped") ~> [](lease = 0)
=============================================================================
