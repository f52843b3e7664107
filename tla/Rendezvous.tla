----------------------------- MODULE Rendezvous -----------------------------
(***************************************************************************)
(* One peer's records on their way to the other: publish_candidates on one *)
(* side, the DHT, listen_for_peer_candidates on the other (candidates.rs), *)
(* with restarts of both, a public address that moves, lookups that fail   *)
(* and a publisher's clock that is wrong and stepped.  Session has what    *)
(* one process makes of any records; this is what becomes of one peer's    *)
(* state in the other, in time.                                            *)
(*                                                                         *)
(* Timestamps are relative to the listener's clock: a Tick makes each one  *)
(* older.  A put takes a tick, so that two records of one run differ.      *)
(***************************************************************************)
EXTENDS Integers, FiniteSets

CONSTANTS
  Addr,             \* public addresses of the publisher
  Home,             \* the first of them
  None,             \* Option::None
  MaxAge,           \* MAX_DHT_MESSAGE_AGE
  MaxSkew,          \* MAX_DHT_FUTURE_SKEW
  Refresh,          \* the publisher's period of 60 seconds
  ClockErrors,      \* how far the publisher's clock may be off
  MaxRuns,          \* bound: runs of the publisher
  MaxListens,       \* bound: runs of the listener
  MaxTroubles       \* bound: moves, failed lookups and clock steps

ASSUME RefreshAssumption ==
  /\ MaxAge \in Nat /\ MaxSkew \in Nat /\ Refresh \in Nat \ {0}
  /\ Refresh < MaxAge /\ Home \in Addr
  /\ ClockErrors \subseteq Int /\ None \notin Int

VARIABLES
  run,              \* the publisher's run, which stands for its token
  home,             \* the publisher's public address
  addresses,        \* the addresses it publishes
  arrived,          \* a new list has come since its last put
  error,            \* how far its clock is ahead
  waited,           \* ticks since its last put
  dht,              \* the records the DHT may deliver: [run, list, stamp]
  owed,             \* <<>> or one of them, which it has not delivered yet
  listens,          \* runs of the listener
  last_timestamp,   \* of the listener
  taken,            \* <<>> or the record the listener has in force
  troubles,         \* moves, failed lookups and clock steps so far
  setBack           \* history: the publisher's clock was set back

publisher == <<run, home, addresses, arrived, error, waited>>
listener == <<listens, last_timestamp, taken>>
vars == <<publisher, dht, owed, listener, troubles, setBack>>

Init ==
  /\ run = 1 /\ home = Home /\ addresses = {} /\ arrived = FALSE
  /\ waited = Refresh
  /\ error \in ClockErrors
  /\ dht = {} /\ owed = <<>>
  /\ listens = 1 /\ last_timestamp = None /\ taken = <<>>
  /\ troubles = 0 /\ setBack = FALSE

-----------------------------------------------------------------------------
(* The publisher.                                                          *)

\* Mutant: after the first put, only a new list makes another.
MustPutFirst == waited >= Refresh /\ addresses = {}

\* The timeout around candidates.recv.
MustPut == waited >= Refresh

\* SystemTime::now, the addresses and the token of this run; after a refresh
\* period, or earlier when new candidates have come.
Put ==
  /\ \/ MustPut
     \/ arrived /\ waited >= 1
  /\ LET r == [run |-> run, list |-> addresses, stamp |-> error]
     IN  dht' = dht \cup {r} /\ owed' = IF owed = <<>> THEN <<r>> ELSE owed
  /\ waited' = 0 /\ arrived' = FALSE
  /\ UNCHANGED <<run, home, addresses, error, listener, troubles, setBack>>

\* A lookup finds the public address.
LookupSucceeds ==
  /\ addresses # {home}
  /\ addresses' = {home} /\ arrived' = TRUE
  /\ UNCHANGED <<run, home, error, waited, dht, owed, listener, troubles, setBack>>

Trouble == troubles < MaxTroubles /\ troubles' = troubles + 1

\* One failed lookup withdraws the address.
LookupFails ==
  /\ Trouble
  /\ addresses' = {} /\ arrived' = TRUE
  /\ UNCHANGED <<run, home, error, waited, dht, owed, listener, setBack>>

AddressMoves ==
  /\ Trouble
  /\ home' \in Addr \ {home}
  /\ UNCHANGED <<run, addresses, arrived, error, waited, dht, owed, listener, setBack>>

ClockSteps ==
  /\ Trouble
  /\ error' \in ClockErrors
  /\ setBack' = (setBack \/ error' < error)
  /\ UNCHANGED <<run, home, addresses, arrived, waited, dht, owed, listener>>

\* A new process: a new token, and an empty list to begin with.
PublisherRestarts ==
  /\ run < MaxRuns
  /\ run' = run + 1
  /\ addresses' = {} /\ arrived' = FALSE
  /\ waited' = Refresh
  /\ UNCHANGED <<home, error, dht, owed, listener, troubles, setBack>>

-----------------------------------------------------------------------------
(* The listener.                                                           *)

IsFresh(stamp) == -MaxAge <= stamp /\ stamp <= MaxSkew

\* Mutant: only the very same record is a replay.
IsOther(stamp) == stamp # last_timestamp

IsNew(stamp) == last_timestamp # None => stamp > last_timestamp

\* A record is delivered at any time and any number of times; the listener takes
\* it or drops it.
Deliver(r) ==
  /\ r \in dht
  /\ owed' = IF owed = <<r>> THEN <<>> ELSE owed
  /\ IF IsFresh(r.stamp) /\ IsNew(r.stamp)
     THEN last_timestamp' = r.stamp /\ taken' = <<r.run, r.list>>
     ELSE UNCHANGED <<last_timestamp, taken>>
  /\ UNCHANGED <<publisher, dht, listens, troubles, setBack>>

\* A new process remembers no timestamp.
ListenerRestarts ==
  /\ listens < MaxListens
  /\ listens' = listens + 1
  /\ last_timestamp' = None
  /\ taken' = <<>>
  /\ UNCHANGED <<publisher, dht, owed, troubles, setBack>>

Aged(r) == [r EXCEPT !.stamp = @ - 1]

\* A record too old to be taken is forgotten, and a last_timestamp that old
\* ignores nothing.  A put is not late by a whole tick.
Tick ==
  /\ ~MustPut
  /\ waited' = IF waited < Refresh THEN waited + 1 ELSE waited
  /\ dht' = {Aged(r) : r \in {r \in dht : r.stamp > -MaxAge}}
  /\ owed' = IF owed = <<>> \/ owed[1].stamp <= -MaxAge THEN <<>> ELSE <<Aged(owed[1])>>
  /\ last_timestamp' = IF last_timestamp = None \/ last_timestamp <= -MaxAge
                         THEN None ELSE last_timestamp - 1
  /\ UNCHANGED <<run, home, addresses, arrived, error, listens, taken, troubles, setBack>>

Next ==
  \/ Put \/ LookupSucceeds \/ LookupFails \/ AddressMoves \/ ClockSteps
  \/ PublisherRestarts
  \/ \E r \in dht : Deliver(r)
  \/ ListenerRestarts
  \/ Tick

Spec == Init /\ [][Next]_vars

Current(r) == r.run = run /\ r.list = addresses

\* Both programs run, lookups succeed in the end and time passes.  Of what the
\* publisher keeps putting the DHT delivers some before it is too old, whether the
\* listener then takes it or not, and it owes nothing else.
FairSpec ==
  /\ Spec
  /\ WF_vars(Put) /\ WF_vars(LookupSucceeds) /\ WF_vars(Tick)
  /\ SF_vars(\E r \in dht : owed = <<r>> /\ Current(r) /\ Deliver(r))

-----------------------------------------------------------------------------
\* When the restarts, moves, failures and clock steps are over, and they have left
\* the publisher with a clock the listener believes, the listener comes to hold the
\* publisher's current token and address and keeps them.  So it does after it has
\* taken a record stamped in the future, which shuts out the later ones, after some
\* were dropped because they were, or after its restart, when older records are
\* taken again (candidates.rs, last_timestamp and the refresh of publish_candidates).
EventuallyCurrent ==
  <>[]IsFresh(error) => <>[](taken = <<run, {home}>>)

\* As long as the publisher's clock is never set back, a record of an earlier
\* run never replaces that of a later one, however late it is delivered; only a
\* restart of the listener, which forgets the timestamp, lets one in again
\* (candidates.rs, the replay check).
RunsNeverGoBack ==
  [][taken # <<>> /\ taken' # <<>> /\ ~setBack => taken'[1] >= taken[1]]_vars
=============================================================================
