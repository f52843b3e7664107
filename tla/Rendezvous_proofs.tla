-------------------------- MODULE Rendezvous_proofs --------------------------
(***************************************************************************)
(* A record of an earlier run never replaces that of a later one, for any  *)
(* number of runs, clock errors, ages and restarts.                        *)
(***************************************************************************)
EXTENDS Rendezvous, TLAPS

Record == [run : Nat, list : SUBSET Addr, stamp : Int]

Types ==
  /\ run \in Nat /\ home \in Addr /\ addresses \in SUBSET Addr
  /\ error \in Int /\ waited \in Nat
  /\ dht \in SUBSET Record
  /\ last_timestamp \in Int \cup {None}
  /\ taken \in {<<>>} \cup (Nat \X SUBSET Addr)
  /\ setBack \in BOOLEAN

\* No record is of a run to come.
PastRuns ==
  /\ \A r \in dht : r.run <= run
  /\ taken # <<>> => taken[1] <= run

\* The stamps are in the order of the runs: those of the records with each other,
\* and all of them with the clock that the next record will be stamped with.
StampsInOrder ==
  ~setBack =>
    /\ \A r \in dht : r.stamp <= error
    /\ \A r, s \in dht : r.run < s.run => r.stamp <= s.stamp

\* What is left of the runs before the one in force is not newer than
\* last_timestamp.  A last_timestamp that Tick forgets has outlived all of it.
EarlierShutOut ==
  ~setBack /\ taken # <<>> =>
    \A r \in dht : r.run < taken[1] => last_timestamp # None /\ r.stamp <= last_timestamp

Inv == Types /\ PastRuns /\ StampsInOrder /\ EarlierShutOut

-----------------------------------------------------------------------------
\* The initial state satisfies the invariant.
LEMMA InitInv == Init => Inv
<1> SUFFICES ASSUME Init PROVE Inv
  OBVIOUS
<1>1. Types
  BY RefreshAssumption, Zenon DEF Init, Types
<1>2. dht = {} /\ taken = <<>>
  BY DEF Init
<1> QED
  BY <1>1, <1>2 DEF Inv, PastRuns, StampsInOrder, EarlierShutOut

\* What is in the DHT after a Tick is what was there, one tick older, without
\* what was too old already.
LEMMA AgedRecords ==
  ASSUME Types, Tick, NEW q \in dht'
  PROVE  \E r \in dht : /\ q.run = r.run /\ q.stamp = r.stamp - 1
                        /\ q \in Record /\ r.stamp > -MaxAge
<1>1. PICK r \in {r \in dht : r.stamp > -MaxAge} : q = Aged(r)
  BY DEF Tick
<1>2. r \in Record
  BY <1>1 DEF Types
<1> QED
  BY <1>1, <1>2 DEF Aged, Record

\* The step of time.
LEMMA TickStep ==
  ASSUME Inv, Tick
  PROVE  Inv'
<1> USE DEF Inv
<1>1. /\ UNCHANGED <<run, home, addresses, error, taken, setBack>>
      /\ waited' = IF waited < Refresh THEN waited + 1 ELSE waited
      /\ last_timestamp' = IF last_timestamp = None \/ last_timestamp <= -MaxAge
                             THEN None ELSE last_timestamp - 1
  BY DEF Tick
<1>2. \A r \in dht : r.run \in Nat /\ r.stamp \in Int
  BY DEF Types, Record
<1>3. MaxAge \in Nat /\ None \notin Int
  BY RefreshAssumption
<1>4. Types'
  <2>1. dht' \in SUBSET Record
    BY AgedRecords
  <2>2. last_timestamp' \in Int \cup {None}
    BY <1>1, <1>3 DEF Types
  <2> QED
    BY <1>1, <2>1, <2>2 DEF Types
<1>5. PastRuns'
  BY <1>1, AgedRecords DEF PastRuns
<1>6. StampsInOrder'
  <2> SUFFICES ASSUME ~setBack, NEW q \in dht'
               PROVE  /\ q.stamp <= error
                      /\ \A s \in dht' : q.run < s.run => q.stamp <= s.stamp
    BY <1>1 DEF StampsInOrder
  <2>1. PICK r \in dht : q.run = r.run /\ q.stamp = r.stamp - 1
    BY AgedRecords
  <2>2. q.stamp <= error
    BY <2>1, <1>2 DEF StampsInOrder, Types
  <2>3. ASSUME NEW s \in dht', q.run < s.run
        PROVE  q.stamp <= s.stamp
    <3>1. PICK t \in dht : s.run = t.run /\ s.stamp = t.stamp - 1
      BY AgedRecords
    <3> QED
      BY <2>1, <2>3, <3>1, <1>2 DEF StampsInOrder
  <2> QED
    BY <2>2, <2>3
<1>7. EarlierShutOut'
  <2> SUFFICES ASSUME ~setBack, taken # <<>>, NEW q \in dht', q.run < taken[1]
               PROVE  last_timestamp' # None /\ q.stamp <= last_timestamp'
    BY <1>1 DEF EarlierShutOut
  <2>1. PICK r \in dht : q.run = r.run /\ q.stamp = r.stamp - 1 /\ r.stamp > -MaxAge
    BY AgedRecords
  <2>2. last_timestamp \in Int /\ r.stamp <= last_timestamp
    BY <2>1 DEF EarlierShutOut, Types
  <2> QED
    BY <2>1, <2>2, <1>1, <1>2, <1>3
<1> QED
  BY <1>4, <1>5, <1>6, <1>7

\* The steps of the publisher: a put, and those that leave the DHT alone.
LEMMA PublisherSteps ==
  ASSUME Inv, \/ Put \/ LookupSucceeds \/ LookupFails \/ AddressMoves \/ ClockSteps
              \/ PublisherRestarts
  PROVE  Inv'
<1> USE DEF Inv
<1>1. UNCHANGED <<last_timestamp, taken>>
  BY DEF Put, LookupSucceeds, LookupFails, AddressMoves, ClockSteps, PublisherRestarts, listener
<1>2. \A r \in dht : r.run \in Nat /\ r.stamp \in Int
  BY DEF Types, Record
<1>3. CASE Put
  <2>1. /\ UNCHANGED <<run, home, addresses, error, setBack>> /\ waited' = 0
        /\ dht' = dht \cup {[run |-> run, list |-> addresses, stamp |-> error]}
    BY <1>3 DEF Put
  <2>2. Types'
    BY <1>1, <2>1 DEF Types, Record
  <2>3. PastRuns'
    BY <1>1, <2>1, <1>2 DEF PastRuns, Types
  <2>4. StampsInOrder'
    BY <1>1, <2>1, <1>2 DEF StampsInOrder, PastRuns, Types
  <2>5. EarlierShutOut'
    <3> SUFFICES ASSUME ~setBack, taken # <<>>, NEW q \in dht', q.run < taken[1]
                 PROVE  last_timestamp # None /\ q.stamp <= last_timestamp
      BY <1>1, <2>1 DEF EarlierShutOut
    <3>1. taken[1] \in Nat /\ taken[1] <= run /\ run \in Nat
      BY DEF Types, PastRuns
    <3>2. q \in dht
      BY <2>1, <3>1
    <3> QED
      BY <3>2 DEF EarlierShutOut
  <2> QED
    BY <2>2, <2>3, <2>4, <2>5
<1>4. CASE dht' = dht /\ run' \in Nat /\ run <= run' /\ waited' \in Nat
  <2>1. /\ home' \in Addr /\ addresses' \in SUBSET Addr /\ error' \in Int
        /\ setBack' \in BOOLEAN
    BY RefreshAssumption, Zenon DEF Put, LookupSucceeds, LookupFails, AddressMoves, ClockSteps,
       PublisherRestarts, Types
  <2>2. ~setBack' => ~setBack /\ error <= error'
    BY <2>1 DEF Put, LookupSucceeds, LookupFails, AddressMoves, ClockSteps,
       PublisherRestarts, Types
  <2>3. Types'
    BY <1>1, <1>4, <2>1 DEF Types
  <2>4. PastRuns'
    <3>1. taken # <<>> => taken[1] \in Nat
      BY DEF Types
    <3> QED
      BY <1>1, <1>2, <1>4, <3>1 DEF PastRuns, Types
  <2>5. StampsInOrder'
    BY <1>2, <1>4, <2>1, <2>2 DEF StampsInOrder, Types
  <2>6. EarlierShutOut'
    BY <1>1, <1>4, <2>2 DEF EarlierShutOut
  <2> QED
    BY <2>3, <2>4, <2>5, <2>6
<1>5. ~Put => dht' = dht /\ run' \in Nat /\ run <= run' /\ waited' \in Nat
  BY RefreshAssumption DEF LookupSucceeds, LookupFails, AddressMoves, ClockSteps,
     PublisherRestarts, Types
<1> QED
  BY <1>3, <1>4, <1>5

\* The steps of the listener.
LEMMA ListenerSteps ==
  ASSUME Inv, ListenerRestarts \/ \E r \in dht : Deliver(r)
  PROVE  Inv'
<1> USE DEF Inv
<1>1. UNCHANGED <<run, home, addresses, error, waited, dht, setBack>>
  BY DEF ListenerRestarts, Deliver, publisher
<1>2. CASE ListenerRestarts
  BY <1>1, <1>2 DEF ListenerRestarts, Types, PastRuns, StampsInOrder, EarlierShutOut
<1>3. ASSUME NEW r \in dht, Deliver(r)
      PROVE  Inv'
  <2>1. r.run \in Nat /\ r.stamp \in Int /\ r.list \in SUBSET Addr
    BY DEF Types, Record
  <2>2. \/ last_timestamp' = r.stamp /\ taken' = <<r.run, r.list>> /\ r.stamp # None
        \/ UNCHANGED <<last_timestamp, taken>>
    BY <1>3, <2>1, RefreshAssumption DEF Deliver
  <2>3. Types'
    BY <1>1, <2>1, <2>2 DEF Types
  <2>4. PastRuns'
    BY <1>1, <2>2 DEF PastRuns
  <2>5. StampsInOrder'
    BY <1>1 DEF StampsInOrder
  <2>6. EarlierShutOut'
    BY <1>1, <2>2 DEF EarlierShutOut, StampsInOrder
  <2> QED
    BY <2>3, <2>4, <2>5, <2>6
<1> QED
  BY <1>2, <1>3

\* The invariant holds throughout.
LEMMA Invariant == Spec => []Inv
<1>1. Inv /\ [Next]_vars => Inv'
  <2> SUFFICES ASSUME Inv, [Next]_vars PROVE Inv'
    OBVIOUS
  <2>1. CASE UNCHANGED vars
    BY <2>1 DEF vars, publisher, listener, Inv, Types, PastRuns, StampsInOrder, EarlierShutOut
  <2> QED
    BY <2>1, TickStep, PublisherSteps, ListenerSteps DEF Next
<1> QED
  BY <1>1, InitInv, PTL DEF Spec

\* While the publisher's clock is not set back, the run in force never gives way
\* to an earlier one (candidates.rs, the replay check of listen_for_peer_candidates).
THEOREM RunsAlwaysAdvance == Spec => RunsNeverGoBack
<1>1. Inv /\ [Next]_vars =>
        [taken # <<>> /\ taken' # <<>> /\ ~setBack => taken'[1] >= taken[1]]_vars
  <2> SUFFICES ASSUME Inv, Next, taken # <<>>, taken' # <<>>, ~setBack
               PROVE  taken'[1] >= taken[1]
    OBVIOUS
  <2>1. taken[1] \in Nat
    BY DEF Inv, Types
  <2>2. ASSUME NEW r \in dht, Deliver(r)
        PROVE  taken'[1] >= taken[1]
    <3> SUFFICES ASSUME taken' # taken PROVE taken'[1] >= taken[1]
      BY <2>1
    <3>1. r.run \in Nat /\ r.stamp \in Int /\ taken'[1] = r.run
      BY <2>2 DEF Deliver, Inv, Types, Record
    <3>2. last_timestamp # None => last_timestamp \in Int /\ r.stamp > last_timestamp
      BY <2>2 DEF Deliver, IsNew, Inv, Types
    <3> QED
      BY <2>1, <3>1, <3>2 DEF Inv, EarlierShutOut
  <2>3. CASE taken' = taken
    BY <2>1, <2>3
  <2>4. CASE ListenerRestarts
    BY <2>4 DEF ListenerRestarts
  <2> QED
    BY <2>2, <2>3, <2>4 DEF Next, Put, LookupSucceeds, LookupFails, AddressMoves, ClockSteps,
       PublisherRestarts, Tick, listener
<1> QED
  BY <1>1, Invariant, PTL DEF Spec, RunsNeverGoBack
=============================================================================
