------------------------ MODULE ProbeController_proofs ------------------------
(***************************************************************************)
(* Proofs about ProbeController, for every set of addresses and tokens and *)
(* every choice of bounds and intervals its assumptions allow.             *)
(***************************************************************************)
EXTENDS ProbeController, FiniteSetTheorems, TLAPS

\* What one path record satisfies when the scheduler ran l time units ago.
\* The timer of a path that has been probed is overdue only since that run.  A
\* verified path with nothing in flight was acknowledged at most the longest
\* verified delay before its timer fires.  One under check was acknowledged at
\* most that, and a late scheduler, before the check was sent; the check is not
\* older than AckTimeout plus what the scheduler is late, and the timer does not
\* fire before AckTimeout has passed.
Scheduled(p, l) ==
  /\ p.next_probe >= -l
  /\ p.verified \/ p.outstanding # None => p.next_probe >= 1 - l
  /\ p.verified => p.last_control_response # None
  /\ p.verified /\ p.outstanding = None =>
       p.last_control_response + p.next_probe <= Longest(VerifiedInterval)
  /\ p.verified /\ p.outstanding # None =>
       /\ p.last_control_response <= p.outstanding + Longest(VerifiedInterval) + MaxLag - 1
       /\ p.outstanding <= AckTimeout - 1 + l
       /\ p.outstanding + p.next_probe >= AckTimeout
  /\ ~p.verified /\ p.outstanding # None =>
       p.outstanding + p.next_probe <= LongestDelay

\* The schedule of every path, and the reply table as a record of the echoes:
\* a source echoed within ReplyInterval has an entry at least as recent.
Inv ==
  /\ TypeOK
  /\ \A a \in KnownPaths : remote_token # None /\ Scheduled(paths[a], lag)
  /\ \A a \in Addr : echo_age[a] < ReplyInterval =>
       reply_sources[a] # None /\ reply_sources[a] <= echo_age[a]

-----------------------------------------------------------------------------
(* Delays. *)

\* A jittered delay is a natural number no longer than 110 percent.
LEMMA JitterRange ==
  ASSUME NEW i \in Nat, NEW d \in Jitter(i)
  PROVE  d \in Nat /\ d <= Longest(i) /\ Longest(i) \in Nat
<1>1. PICK percent \in 90..110 : d = (i * percent) \div 100
  BY DEF Jitter
<1>2. i * percent \in Nat /\ i * 110 \in Nat /\ i * percent <= i * 110
  <2>1. percent \in Nat /\ percent <= 110
    BY <1>1
  <2>2. i * percent + i * (110 - percent) = i * 110 /\ i * (110 - percent) >= 0
    BY <2>1
  <2> QED
    BY <2>1, <2>2
<1>3. ASSUME NEW x \in Nat, NEW y \in Nat, x <= y
      PROVE  x \div 100 \in Nat /\ y \div 100 \in Nat /\ x \div 100 <= y \div 100
  BY <1>3
<1> QED
  BY <1>1, <1>2, <1>3 DEF Longest

\* LongestDelay is a delay of the fast schedule, and none of the others is longer.
LEMMA LongestDelayBounds ==
  /\ LongestDelay \in Nat
  /\ FirstDelay <= LongestDelay /\ SecondDelay <= LongestDelay
  /\ \A d \in Jitter(SlowInterval) : d <= LongestDelay
<1> DEFINE S == {FirstDelay, SecondDelay, Longest(SlowInterval)}
<1>1. FirstDelay \in Nat /\ SecondDelay \in Nat /\ SlowInterval \in Nat
  BY TimingAssumption
<1>2. Longest(SlowInterval) \in Nat
  BY <1>1 DEF Longest
<1>3. \E d \in S : \A e \in S : e <= d
  BY <1>1, <1>2
<1>4. LongestDelay \in S /\ \A e \in S : e <= LongestDelay
  BY <1>3 DEF LongestDelay
<1>5. \A d \in Jitter(SlowInterval) : d \in Nat /\ d <= Longest(SlowInterval)
  BY <1>1, JitterRange
<1> QED
  BY <1>1, <1>2, <1>4, <1>5

-----------------------------------------------------------------------------
(* One path record under the operations of the controller. *)

\* A path update_remote has just inserted.
LEMMA NewPathScheduled ==
  ASSUME NEW l \in 0..MaxLag
  PROVE  NewPath \in PathRecord /\ Scheduled(NewPath, l)
BY NoneAssumption, BoundAssumption, TimingAssumption DEF NewPath, PathRecord, Scheduled

\* A path packet_action has just marked verified.
LEMMA VerifiedPathScheduled ==
  ASSUME NEW l \in 0..MaxLag, NEW delay \in Jitter(VerifiedInterval)
  PROVE  VerifiedPath(delay) \in PathRecord /\ Scheduled(VerifiedPath(delay), l)
<1>1. VerifiedInterval \in Nat /\ AckTimeout \in Nat \ {0} /\ MaxLag \in Nat
  BY TimingAssumption
<1>2. delay \in Nat /\ delay <= Longest(VerifiedInterval) /\ delay >= AckTimeout
  BY <1>1, JitterRange, TimingAssumption
<1> QED
  BY <1>1, <1>2, NoneAssumption, BoundAssumption DEF VerifiedPath, PathRecord, Scheduled

\* due_frames leaves a path alone only if its timer has not fired and no check
\* of it has run out.
LEMMA KeptPathScheduled ==
  ASSUME NEW l \in 0..MaxLag, NEW p \in PathRecord, Scheduled(p, l), ~IsDue(p)
  PROVE  Scheduled(p, 0)
<1>1. AckTimeout \in Nat /\ MaxLag \in Nat
  BY TimingAssumption
<1>2. ~CheckFailed(p) /\ p.next_probe >= 1
  <2>1. CASE CheckFailed(p)
    BY <2>1 DEF IsDue, Demoted, PathRecord
  <2>2. CASE ~CheckFailed(p)
    BY <2>2 DEF IsDue, Demoted, PathRecord
  <2> QED
    BY <2>1, <2>2
<1> QED
  BY <1>1, <1>2, NoneAssumption DEF Scheduled, CheckFailed, PathRecord

\* The delay due_frames gives a path, by the schedule the path is on.
LEMMA DelayRange ==
  ASSUME NEW p \in PathRecord, NEW delay \in Delays(p)
  PROVE  /\ delay \in Nat /\ delay >= 1
         /\ p.verified => delay >= AckTimeout
         /\ ~p.verified => delay <= LongestDelay
<1>1. /\ SlowInterval \in Nat /\ VerifiedInterval \in Nat /\ AckTimeout \in Nat \ {0}
      /\ FirstDelay \in Nat \ {0} /\ SecondDelay \in Nat \ {0}
  BY TimingAssumption
<1>2. CASE p.verified
  <2>1. delay \in Jitter(VerifiedInterval)
    BY <1>2 DEF Delays
  <2> QED
    BY <1>1, <1>2, <2>1, JitterRange, TimingAssumption
<1>3. CASE ~p.verified /\ p.fast_stage = 0
  BY <1>1, <1>3, LongestDelayBounds DEF Delays
<1>4. CASE ~p.verified /\ p.fast_stage = 1
  BY <1>1, <1>4, LongestDelayBounds DEF Delays
<1>5. CASE ~p.verified /\ p.fast_stage # 0 /\ p.fast_stage # 1
  <2>1. delay \in Jitter(SlowInterval)
    BY <1>5 DEF Delays
  <2> QED
    BY <1>1, <1>5, <2>1, JitterRange, LongestDelayBounds, TimingAssumption
<1> QED
  BY <1>2, <1>3, <1>4, <1>5

\* due_frames' demotion yields a path again.
LEMMA DemotedType ==
  ASSUME NEW p \in PathRecord
  PROVE  Demoted(p) \in PathRecord
<1>1. 0 \in 0..MaxStage /\ 0 \in Int
  BY BoundAssumption
<1>2. CASE CheckFailed(p)
  BY <1>1, <1>2, ZenonT(60) DEF Demoted, PathRecord
<1>3. CASE ~CheckFailed(p)
  BY <1>3 DEF Demoted
<1> QED
  BY <1>2, <1>3

\* due_frames' sending yields a path again; fast_stage saturates.
LEMMA SentType ==
  ASSUME NEW q \in PathRecord, NEW delay \in Nat
  PROVE  Sent(q, delay) \in PathRecord
<1> DEFINE stage == IF q.verified \/ q.fast_stage = MaxStage THEN q.fast_stage
                    ELSE q.fast_stage + 1
<1>1. stage \in 0..MaxStage
  BY BoundAssumption DEF PathRecord
<1>2. delay \in Int /\ 0 \in Nat \cup {None}
  OBVIOUS
<1>3. ASSUME NEW x \in 0..MaxStage, NEW y \in Int
      PROVE  [q EXCEPT !.outstanding = 0, !.next_probe = y, !.fast_stage = x] \in PathRecord
  BY <1>2, ZenonT(60) DEF PathRecord
<1>4. Sent(q, delay) =
        [q EXCEPT !.outstanding = 0, !.next_probe = delay, !.fast_stage = stage]
  BY DEF Sent, PathRecord
<1> HIDE DEF stage
<1> QED
  BY <1>1, <1>2, <1>3, <1>4, ZenonT(60)

\* A path due_frames sends a probe to.
LEMMA SentPathScheduled ==
  ASSUME NEW l \in 0..MaxLag, NEW p \in PathRecord, Scheduled(p, l), IsDue(p),
         NEW delay \in Delays(Demoted(p))
  PROVE  Sent(Demoted(p), delay) \in PathRecord /\ Scheduled(Sent(Demoted(p), delay), 0)
<1> DEFINE q == Demoted(p)
<1>1. q \in PathRecord
  BY DemotedType
<1>2. /\ delay \in Nat /\ delay >= 1
      /\ q.verified => delay >= AckTimeout
      /\ ~q.verified => delay <= LongestDelay
  BY <1>1, DelayRange
<1>3. Sent(q, delay) \in PathRecord
  BY <1>1, <1>2, SentType
<1>4. /\ AckTimeout \in Nat \ {0} /\ MaxLag \in Nat \ {0} /\ LongestDelay \in Nat
      /\ Longest(VerifiedInterval) \in Nat
  BY TimingAssumption, LongestDelayBounds DEF Longest
\* A verified path that is still verified when its timer fires had no probe in
\* flight: one in flight that long has failed.
<1>5. q.verified => /\ q = p
                    /\ p.last_control_response \in Nat
                    /\ p.last_control_response <= Longest(VerifiedInterval) + MaxLag - 1
  <2>1. SUFFICES ASSUME q.verified
                 PROVE  /\ q = p
                        /\ p.last_control_response \in Nat
                        /\ p.last_control_response <= Longest(VerifiedInterval) + MaxLag - 1
    OBVIOUS
  <2>2. ~CheckFailed(p)
    BY <2>1 DEF Demoted, PathRecord
  <2>3. q = p /\ p.verified /\ p.next_probe <= 0
    BY <2>1, <2>2 DEF Demoted, IsDue
  <2>4. p.outstanding = None
    BY <1>4, <2>2, <2>3 DEF CheckFailed, Scheduled, PathRecord
  <2> QED
    BY <1>4, <2>3, <2>4 DEF Scheduled, PathRecord
<1>6. Scheduled(Sent(q, delay), 0)
  <2>1. /\ Sent(q, delay).next_probe = delay /\ Sent(q, delay).outstanding = 0
        /\ Sent(q, delay).verified = q.verified
        /\ Sent(q, delay).last_control_response = q.last_control_response
    BY <1>1 DEF Sent, PathRecord
  <2>2. CASE q.verified
    BY <1>2, <1>4, <1>5, <2>1, <2>2, NoneAssumption DEF Scheduled
  <2>3. CASE ~q.verified
    BY <1>2, <1>4, <2>1, <2>3, NoneAssumption DEF Scheduled
  <2> QED
    BY <2>2, <2>3
<1> QED
  BY <1>3, <1>6

\* A path one time unit later.
LEMMA AgedPathScheduled ==
  ASSUME NEW l \in 0..MaxLag, l < MaxLag, NEW p \in PathRecord, Scheduled(p, l)
  PROVE  AgedPath(p) \in PathRecord /\ Scheduled(AgedPath(p), l + 1)
<1>1. /\ AckTimeout \in Nat \ {0} /\ MaxLag \in Nat \ {0} /\ LongestDelay \in Nat
      /\ Longest(VerifiedInterval) \in Nat
  BY TimingAssumption, LongestDelayBounds DEF Longest
<1>2. FreshLimit \in Nat /\ FreshLimit = Longest(VerifiedInterval) + AckTimeout + 2 * (MaxLag - 1)
  BY <1>1 DEF FreshLimit
<1>3. /\ AgedPath(p).next_probe = p.next_probe - 1
      /\ AgedPath(p).verified = p.verified
      /\ AgedPath(p).fast_stage = p.fast_stage
      /\ AgedPath(p).outstanding = IF p.outstanding = None THEN None ELSE p.outstanding + 1
      /\ AgedPath(p).last_control_response =
           IF p.last_control_response = None \/ p.last_control_response = FreshLimit + 1
           THEN p.last_control_response ELSE p.last_control_response + 1
  BY DEF AgedPath, Older, PathRecord
<1>4. AgedPath(p) \in PathRecord
  <2>1. Older(p.outstanding, None) \in Nat \cup {None}
    BY DEF Older, PathRecord
  <2>2. Older(p.last_control_response, FreshLimit + 1) \in Nat \cup {None}
    BY DEF Older, PathRecord
  <2>3. p.next_probe - 1 \in Int
    BY DEF PathRecord
  <2> QED
    BY <2>1, <2>2, <2>3, ZenonT(60) DEF AgedPath, PathRecord
<1>5. p.verified => /\ p.last_control_response \in Nat
                    /\ p.last_control_response < FreshLimit + 1
  BY <1>1, <1>2, NoneAssumption DEF Scheduled, PathRecord
<1>6. Scheduled(AgedPath(p), l + 1)
  BY <1>1, <1>3, <1>5, NoneAssumption DEF Scheduled, PathRecord
<1> QED
  BY <1>4, <1>6

-----------------------------------------------------------------------------
(* The invariant. *)

\* ProbeController::new, with both tables empty.
LEMMA InitInv == Init => Inv
BY TimingAssumption, NoneAssumption
DEF Init, Inv, TypeOK, NoPaths, KnownPaths, Silent

\* What the retain at the head of packet_action leaves of reply_sources.
LEMMA RecentType ==
  ASSUME TypeOK
  PROVE  /\ Recent \in [Addr -> 0..ReplyInterval \cup {None}]
         /\ RecentSources \subseteq Addr
         /\ \A a \in Addr : Recent[a] # None <=>
              reply_sources[a] # None /\ reply_sources[a] < ReplyInterval
         /\ \A a \in Addr : Recent[a] # None => Recent[a] = reply_sources[a]
BY DEF TypeOK, Recent, RecentSources

\* The frames that only touch the reply table: whatever a request does to its
\* own entry, the entries of recently echoed sources stay.
LEMMA ReplyTableInv ==
  ASSUME Inv, NEW source \in Addr,
         reply_sources' \in {Recent, [Recent EXCEPT ![source] = 0]},
         UNCHANGED <<remote_token, lag>>,
         \/ UNCHANGED echo_age
         \/ /\ echo_age' = [echo_age EXCEPT ![source] = 0]
            /\ reply_sources' = [Recent EXCEPT ![source] = 0]
  PROVE  /\ reply_sources' \in [Addr -> 0..ReplyInterval \cup {None}]
         /\ echo_age' \in [Addr -> 0..ReplyInterval]
         /\ \A a \in Addr : echo_age'[a] < ReplyInterval =>
              reply_sources'[a] # None /\ reply_sources'[a] <= echo_age'[a]
<1>1. ReplyInterval \in Nat \ {0}
  BY TimingAssumption
<1>2. TypeOK /\ \A a \in Addr : echo_age[a] < ReplyInterval =>
        reply_sources[a] # None /\ reply_sources[a] <= echo_age[a]
  BY DEF Inv
<1>3. \A a \in Addr : echo_age[a] < ReplyInterval =>
        Recent[a] # None /\ Recent[a] <= echo_age[a]
  BY <1>1, <1>2, RecentType, NoneAssumption DEF TypeOK
<1>4. /\ reply_sources' \in [Addr -> 0..ReplyInterval \cup {None}]
      /\ echo_age' \in [Addr -> 0..ReplyInterval]
  BY <1>1, <1>2, RecentType DEF TypeOK
<1>5. ASSUME NEW a \in Addr, echo_age'[a] < ReplyInterval
      PROVE  reply_sources'[a] # None /\ reply_sources'[a] <= echo_age'[a]
  <2>1. CASE a = source /\ reply_sources' = [Recent EXCEPT ![source] = 0]
    <3>1. echo_age'[a] \in 0..ReplyInterval
      BY <1>4
    <3>2. reply_sources'[a] = 0
      BY <1>2, <2>1, RecentType
    <3> QED
      BY <1>1, <3>1, <3>2, NoneAssumption
  <2>2. CASE a # source \/ reply_sources' # [Recent EXCEPT ![source] = 0]
    <3>1. reply_sources'[a] = Recent[a] /\ echo_age'[a] = echo_age[a]
      BY <1>2, <2>2, RecentType DEF TypeOK
    <3> QED
      BY <1>3, <1>5, <3>1
  <2> QED
    BY <2>1, <2>2
<1> QED
  BY <1>4, <1>5

\* update_remote: kept paths stay scheduled, inserted ones are due at once.
LEMMA UpdateRemoteInv ==
  ASSUME Inv, NEW token \in RemoteToken \cup {None}, NEW candidates \in SUBSET Addr,
         UpdateRemote(token, candidates)
  PROVE  Inv'
<1> DEFINE kept == IF remote_token = token THEN paths ELSE NoPaths
<1>1. PICK selected \in Selections(candidates) :
        paths' = [a \in Addr |-> IF token = None \/ a \notin selected THEN None
                                 ELSE IF kept[a] = None THEN NewPath
                                 ELSE kept[a]]
  BY DEF UpdateRemote
<1>2. TypeOK /\ lag \in 0..MaxLag
  BY DEF Inv, TypeOK
<1>3. kept \in [Addr -> PathRecord \cup {None}]
  BY <1>2 DEF TypeOK, NoPaths
<1>4. \A a \in Addr : kept[a] # None => Scheduled(kept[a], lag)
  BY DEF Inv, KnownPaths, NoPaths
<1>5. NewPath \in PathRecord /\ Scheduled(NewPath, lag)
  BY <1>2, NewPathScheduled
<1> HIDE DEF kept
<1>6. paths' \in [Addr -> PathRecord \cup {None}]
  BY <1>1, <1>3, <1>5
<1>7. \A a \in Addr : paths'[a] # None => token # None /\ Scheduled(paths'[a], lag)
  BY <1>1, <1>4, <1>5
<1>8. TypeOK'
  BY <1>2, <1>6 DEF UpdateRemote, TypeOK, Silent
<1> QED
  BY <1>7, <1>8 DEF UpdateRemote, Inv, KnownPaths

\* packet_action: a request touches one table only, an acknowledgement re-arms
\* the path it is for.
LEMMA PacketActionInv ==
  ASSUME Inv, NEW token \in RemoteToken \cup {LocalToken}, NEW source \in Addr,
         PacketAction(token, source)
  PROVE  Inv'
<1>1. TypeOK /\ lag \in 0..MaxLag
  BY DEF Inv, TypeOK
<1>2. /\ UNCHANGED <<remote_token, lag>>
      /\ reply_sources' \in {Recent, [Recent EXCEPT ![source] = 0]}
      /\ \/ UNCHANGED echo_age
         \/ /\ echo_age' = [echo_age EXCEPT ![source] = 0]
            /\ reply_sources' = [Recent EXCEPT ![source] = 0]
      /\ out' \in {Silent, [Silent EXCEPT !.echo = {source}]}
  BY DEF PacketAction, RequestRefused, RequestLimited, RequestEchoed, Acknowledge, DropFrame
<1>3. /\ reply_sources' \in [Addr -> 0..ReplyInterval \cup {None}]
      /\ echo_age' \in [Addr -> 0..ReplyInterval]
      /\ \A a \in Addr : echo_age'[a] < ReplyInterval =>
           reply_sources'[a] # None /\ reply_sources'[a] <= echo_age'[a]
  BY <1>2, ReplyTableInv
<1>4. out' \in [echo : SUBSET Addr, probe : SUBSET Addr]
  BY <1>2 DEF Silent
<1>5. CASE Acknowledge(token, source)
  <2>1. PICK delay \in Jitter(VerifiedInterval) :
          paths' = [paths EXCEPT ![source] = VerifiedPath(delay)]
    BY <1>5, ZenonT(60) DEF Acknowledge
  <2>2. remote_token # None
    BY <1>5 DEF Acknowledge, AwaitsAcknowledgement, Inv, KnownPaths
  <2>3. VerifiedPath(delay) \in PathRecord /\ Scheduled(VerifiedPath(delay), lag)
    BY <1>1, VerifiedPathScheduled
  <2>4. paths' \in [Addr -> PathRecord \cup {None}]
    BY <1>1, <2>1, <2>3 DEF TypeOK
  <2>5. \A a \in Addr : paths'[a] # None => Scheduled(paths'[a], lag)
    BY <1>1, <2>1, <2>3 DEF TypeOK, Inv, KnownPaths
  <2> QED
    BY <1>1, <1>2, <1>3, <1>4, <2>2, <2>4, <2>5 DEF Inv, TypeOK, KnownPaths
<1>6. CASE UNCHANGED paths
  BY <1>1, <1>2, <1>3, <1>4, <1>6 DEF Inv, TypeOK, KnownPaths
<1> QED
  BY <1>5, <1>6 DEF PacketAction, RequestRefused, RequestLimited, RequestEchoed, DropFrame

\* due_frames: the paths that are due are re-armed, the others are not late.
LEMMA DueFramesInv ==
  ASSUME Inv, DueFrames
  PROVE  Inv'
<1>1. TypeOK /\ lag \in 0..MaxLag
  BY DEF Inv, TypeOK
<1>2. PICK delay \in [DuePaths -> AllDelays] :
        /\ \A a \in DuePaths : delay[a] \in Delays(Demoted(paths[a]))
        /\ paths' = [a \in Addr |-> IF a \in DuePaths
                                    THEN Sent(Demoted(paths[a]), delay[a])
                                    ELSE paths[a]]
  BY DEF DueFrames
<1>3. ASSUME NEW a \in Addr, paths'[a] # None
      PROVE  /\ remote_token # None
             /\ paths'[a] \in PathRecord
             /\ Scheduled(paths'[a], 0)
  <2>1. paths[a] # None
    BY <1>2, <1>3 DEF DuePaths, KnownPaths
  <2>2. remote_token # None /\ paths[a] \in PathRecord /\ Scheduled(paths[a], lag)
    BY <1>1, <2>1 DEF Inv, TypeOK, KnownPaths
  <2>3. CASE a \in DuePaths
    <3>1. IsDue(paths[a]) /\ delay[a] \in Delays(Demoted(paths[a]))
      BY <1>2, <2>3 DEF DuePaths
    <3>2. paths'[a] = Sent(Demoted(paths[a]), delay[a])
      BY <1>2, <2>3
    <3> QED
      BY <1>1, <2>2, <3>1, <3>2, SentPathScheduled
  <2>4. CASE a \notin DuePaths
    <3>1. ~IsDue(paths[a]) /\ paths'[a] = paths[a]
      BY <1>2, <2>1, <2>2, <2>4 DEF DuePaths, KnownPaths
    <3> QED
      BY <1>1, <2>2, <3>1, KeptPathScheduled
  <2> QED
    BY <2>3, <2>4
<1>4. paths' \in [Addr -> PathRecord \cup {None}]
  BY <1>2, <1>3
<1>5. out' \in [echo : SUBSET Addr, probe : SUBSET Addr] /\ lag' \in 0..MaxLag /\ lag' = 0
  BY TimingAssumption DEF DueFrames, Silent, DuePaths, KnownPaths
<1>6. TypeOK'
  BY <1>1, <1>4, <1>5 DEF TypeOK, DueFrames
<1> QED
  BY <1>3, <1>5, <1>6 DEF Inv, KnownPaths, DueFrames

\* The passing of time, as long as the scheduler is not later than MaxLag.
LEMMA TickInv ==
  ASSUME Inv, Tick
  PROVE  Inv'
<1>1. TypeOK /\ lag \in 0..MaxLag /\ lag < MaxLag /\ lag' = lag + 1
  BY DEF Inv, TypeOK, Tick
<1>2. ReplyInterval \in Nat \ {0} /\ MaxLag \in Nat
  BY TimingAssumption
<1>3. ASSUME NEW a \in Addr, paths'[a] # None
      PROVE  /\ remote_token # None
             /\ paths'[a] \in PathRecord
             /\ Scheduled(paths'[a], lag')
  <2>1. paths[a] # None /\ paths'[a] = AgedPath(paths[a])
    BY <1>3 DEF Tick
  <2>2. remote_token # None /\ paths[a] \in PathRecord /\ Scheduled(paths[a], lag)
    BY <1>1, <2>1 DEF Inv, TypeOK, KnownPaths
  <2> QED
    BY <1>1, <2>1, <2>2, AgedPathScheduled
<1>4. paths' \in [Addr -> PathRecord \cup {None}]
  BY <1>3 DEF Tick
<1>5. reply_sources' \in [Addr -> 0..ReplyInterval \cup {None}]
  BY <1>1, <1>2, NoneAssumption DEF Tick, TypeOK, Older
<1>6. echo_age' \in [Addr -> 0..ReplyInterval]
  BY <1>1, <1>2, NoneAssumption DEF Tick, TypeOK, Older
<1>7. \A a \in Addr : echo_age'[a] < ReplyInterval =>
        reply_sources'[a] # None /\ reply_sources'[a] <= echo_age'[a]
  <2>1. SUFFICES ASSUME NEW a \in Addr, echo_age'[a] < ReplyInterval
                 PROVE  reply_sources'[a] # None /\ reply_sources'[a] <= echo_age'[a]
    OBVIOUS
  <2>2. /\ echo_age'[a] = Older(echo_age[a], ReplyInterval)
        /\ reply_sources'[a] = Older(reply_sources[a], ReplyInterval)
        /\ echo_age[a] \in 0..ReplyInterval
        /\ reply_sources[a] \in 0..ReplyInterval \cup {None}
    BY <1>1 DEF Tick, TypeOK
  <2>3. echo_age[a] < ReplyInterval /\ echo_age'[a] = echo_age[a] + 1
    BY <1>2, <2>1, <2>2, NoneAssumption DEF Older
  <2>4. reply_sources[a] # None /\ reply_sources[a] <= echo_age[a]
    BY <2>3 DEF Inv
  <2> QED
    BY <1>2, <2>2, <2>3, <2>4, NoneAssumption DEF Older
<1>8. out' \in [echo : SUBSET Addr, probe : SUBSET Addr] /\ lag' \in 0..MaxLag
  BY <1>1, <1>2 DEF Tick, Silent
<1>9. TypeOK'
  BY <1>1, <1>4, <1>5, <1>6, <1>8 DEF TypeOK, Tick
<1> QED
  BY <1>3, <1>7, <1>9 DEF Inv, KnownPaths, Tick

\* Every method, and the passing of time, keeps the invariant.
LEMMA NextInv == Inv /\ [Next]_vars => Inv'
<1> SUFFICES ASSUME Inv, [Next]_vars PROVE Inv'
  OBVIOUS
<1>1. CASE UNCHANGED vars
  BY <1>1 DEF vars, Inv, TypeOK, KnownPaths
<1> QED
  BY <1>1, UpdateRemoteInv, PacketActionInv, DueFramesInv, TickInv DEF Next

\* The invariant holds in every state the controller reaches.
LEMMA Invariance == Spec => []Inv
<1> QED
  BY InitInv, NextInv, PTL DEF Spec

-----------------------------------------------------------------------------
(* What follows from the invariant. *)

\* The state of the controller keeps its shape: due_frames, packet_action and
\* update_remote produce well-formed paths, and ages stay in their ranges.
THEOREM TypeCorrect == Spec => []TypeOK
BY Invariance, PTL DEF Inv

\* For every schedule, jitter and scheduler delay, due_frames takes the verified
\* flag away before the last acknowledgement is older than FreshLimit.
THEOREM VerifiedPathsAreRecent == Spec => []VerifiedIsRecent
<1>1. /\ AckTimeout \in Nat \ {0} /\ MaxLag \in Nat \ {0}
      /\ Longest(VerifiedInterval) \in Nat
  BY TimingAssumption DEF Longest
<1>2. Inv => VerifiedIsRecent
  <2>1. SUFFICES ASSUME Inv, NEW a \in KnownPaths, paths[a].verified
                 PROVE  /\ paths[a].last_control_response # None
                        /\ paths[a].last_control_response <= FreshLimit
    BY DEF VerifiedIsRecent
  <2>2. paths[a] \in PathRecord /\ Scheduled(paths[a], lag) /\ lag \in 0..MaxLag
    BY <2>1 DEF Inv, TypeOK, KnownPaths
  <2> QED
    BY <1>1, <2>1, <2>2, NoneAssumption DEF Scheduled, FreshLimit, PathRecord
<1> QED
  BY <1>2, Invariance, PTL

\* Every path of State.paths has a timer, and one with an unanswered probe is
\* probed again within LongestSilence.
THEOREM ProbingContinues == Spec => []ProbingNeverStops
<1>1. MaxLag \in Nat \ {0} /\ LongestDelay \in Nat
  BY TimingAssumption, LongestDelayBounds
<1>2. Inv => ProbingNeverStops
  <2>1. SUFFICES ASSUME Inv, NEW a \in KnownPaths
                 PROVE  /\ paths[a].next_probe >= -lag
                        /\ paths[a].outstanding # None /\ ~paths[a].verified
                             => paths[a].outstanding <= LongestSilence
    BY DEF ProbingNeverStops
  <2>2. paths[a] \in PathRecord /\ Scheduled(paths[a], lag) /\ lag \in 0..MaxLag
    BY <2>1 DEF Inv, TypeOK, KnownPaths
  <2> QED
    BY <1>1, <2>2 DEF Scheduled, LongestSilence, PathRecord
<1> QED
  BY <1>2, Invariance, PTL

\* packet_action tells its caller to echo a source only when the last echo to
\* that source is at least ReplyInterval old.
THEOREM EchoesAreSpaced == Spec => EchoSpacing
<1>1. Inv /\ [Next]_vars =>
        [\A a \in Addr : a \in out'.echo => echo_age[a] >= ReplyInterval]_vars
  <2> SUFFICES ASSUME Inv, Next, NEW a \in Addr, a \in out'.echo
               PROVE  echo_age[a] >= ReplyInterval
    OBVIOUS
  <2>1. TypeOK
    BY DEF Inv
  <2>2. RequestEchoed(a)
    <3>1. \E source \in Addr : RequestEchoed(source)
      BY DEF Next, UpdateRemote, PacketAction, RequestRefused, RequestLimited,
             Acknowledge, DropFrame, DueFrames, Tick, Silent
    <3> QED
      BY <3>1 DEF RequestEchoed, Silent
  <2>3. reply_sources[a] = None \/ ~(reply_sources[a] < ReplyInterval)
    BY <2>1, <2>2, RecentType DEF RequestEchoed, RecentSources
  <2> QED
    BY <2>1, <2>3, TimingAssumption, NoneAssumption DEF Inv, TypeOK
<1> QED
  BY <1>1, Invariance, PTL DEF Spec, EchoSpacing

-----------------------------------------------------------------------------
(* The bounds of the two tables. *)

\* The sources State.reply_sources has an entry for, expired ones included.
Entries == {a \in Addr : reply_sources[a] # None}

\* The limits the code puts on the two HashMaps.
TablesBounded ==
  /\ Cardinality(Entries) <= MaxReplySources
  /\ Cardinality(KnownPaths) <= MaxProbePaths

\* A part of a set of addresses is finite and no larger.
LEMMA SmallerSet ==
  ASSUME NEW S \in SUBSET Addr, NEW T \in SUBSET S
  PROVE  /\ IsFiniteSet(S) /\ IsFiniteSet(T)
         /\ Cardinality(S) \in Nat /\ Cardinality(T) \in Nat
         /\ Cardinality(T) <= Cardinality(S)
<1>1. IsFiniteSet(S)
  BY AddrAssumption, FS_Subset
<1> QED
  BY <1>1, FS_Subset, FS_CardinalityType

\* packet_action adds a source only below MAX_REPLY_SOURCES, and update_remote
\* keeps no path outside the MAX_PROBE_PATHS it selects.
LEMMA TablesStayBounded ==
  ASSUME Inv, TablesBounded, [Next]_vars
  PROVE  TablesBounded'
<1>1. TypeOK
  BY DEF Inv
<1>2. MaxReplySources \in Nat /\ MaxProbePaths \in Nat
  BY BoundAssumption
<1>3. Entries \subseteq Addr /\ KnownPaths \subseteq Addr
  BY DEF Entries, KnownPaths
<1>4. RecentSources \subseteq Entries
  BY <1>1, RecentType DEF Entries, RecentSources
\* Tables that have not grown.
<1>5. Entries' \subseteq Entries => Cardinality(Entries') <= MaxReplySources
  BY <1>2, <1>3, SmallerSet DEF TablesBounded
<1>6. KnownPaths' \subseteq KnownPaths => Cardinality(KnownPaths') <= MaxProbePaths
  BY <1>2, <1>3, SmallerSet DEF TablesBounded
<1>7. ASSUME NEW token \in RemoteToken \cup {None}, NEW candidates \in SUBSET Addr,
             UpdateRemote(token, candidates)
      PROVE  TablesBounded'
  <2>1. PICK selected \in Selections(candidates) : KnownPaths' \subseteq selected
    BY <1>7 DEF UpdateRemote, KnownPaths
  <2>2. selected \in SUBSET Addr /\ Cardinality(selected) <= MaxProbePaths
    BY DEF Selections
  <2>3. Cardinality(KnownPaths') <= MaxProbePaths
    BY <1>2, <2>1, <2>2, SmallerSet
  <2>4. Entries' = Entries
    BY <1>7 DEF UpdateRemote, Entries
  <2> QED
    BY <1>5, <2>3, <2>4 DEF TablesBounded
<1>8. ASSUME NEW token \in RemoteToken \cup {LocalToken}, NEW source \in Addr,
             PacketAction(token, source)
      PROVE  TablesBounded'
  <2>1. KnownPaths' = KnownPaths
    <3>1. CASE Acknowledge(token, source)
      <4>1. PICK delay \in Jitter(VerifiedInterval) :
              paths' = [paths EXCEPT ![source] = VerifiedPath(delay)]
        BY <3>1, ZenonT(60) DEF Acknowledge
      <4>2. VerifiedPath(delay) # None
        BY <1>1, VerifiedPathScheduled, PathAssumption DEF TypeOK
      <4>3. paths[source] # None
        BY <3>1 DEF Acknowledge, AwaitsAcknowledgement
      <4> QED
        BY <1>1, <4>1, <4>2, <4>3 DEF KnownPaths, TypeOK
    <3>2. CASE UNCHANGED paths
      BY <3>2 DEF KnownPaths
    <3> QED
      BY <1>8, <3>1, <3>2
      DEF PacketAction, RequestRefused, RequestLimited, RequestEchoed, DropFrame
  <2>2. CASE RequestEchoed(source)
    <3>1. Entries' \subseteq RecentSources \cup {source}
      BY <1>1, <2>2, RecentType DEF RequestEchoed, Entries, RecentSources
    <3>2. IsFiniteSet(RecentSources) /\ Cardinality(RecentSources) \in Nat
      BY <1>3, <1>4, SmallerSet
    <3>3. Cardinality(RecentSources \cup {source}) = Cardinality(RecentSources) + 1
      <4>1. source \notin RecentSources
        BY <2>2 DEF RequestEchoed
      <4> HIDE DEF RecentSources
      <4> QED
        BY <3>2, <4>1, FS_AddElement, ZenonT(60)
    <3>4. Cardinality(Entries') <= Cardinality(RecentSources \cup {source})
      BY <1>3, <1>4, <3>1, SmallerSet
    <3>5. Cardinality(Entries') \in Nat /\ Cardinality(RecentSources \cup {source}) \in Nat
      BY <1>3, <1>4, <3>1, SmallerSet
    <3>6. Cardinality(Entries') <= MaxReplySources
      BY <1>2, <2>2, <3>2, <3>3, <3>4, <3>5 DEF RequestEchoed
    <3> QED
      BY <1>6, <2>1, <3>6 DEF TablesBounded
  <2>3. CASE ~RequestEchoed(source)
    <3>1. Entries' \subseteq RecentSources
      BY <1>1, <1>8, <2>3, RecentType
      DEF PacketAction, RequestRefused, RequestLimited, Acknowledge, DropFrame,
          Entries, RecentSources
    <3> QED
      BY <1>4, <1>5, <1>6, <2>1, <3>1 DEF TablesBounded
  <2> QED
    BY <2>2, <2>3
<1>9. CASE DueFrames
  <2>1. KnownPaths' \subseteq KnownPaths
    BY <1>9 DEF DueFrames, KnownPaths, DuePaths
  <2>2. Entries' = Entries
    BY <1>9 DEF DueFrames, Entries
  <2> QED
    BY <1>5, <1>6, <2>1, <2>2 DEF TablesBounded
<1>10. CASE Tick
  <2>1. KnownPaths' \subseteq KnownPaths
    BY <1>10 DEF Tick, KnownPaths
  <2>2. Entries' \subseteq Entries
    BY <1>10 DEF Tick, Entries, Older
  <2> QED
    BY <1>5, <1>6, <2>1, <2>2 DEF TablesBounded
<1>11. CASE UNCHANGED vars
  BY <1>11 DEF vars, TablesBounded, Entries, KnownPaths
<1> QED
  BY <1>7, <1>8, <1>9, <1>10, <1>11 DEF Next

\* However many sources present the local token and however long the records
\* are, at most MAX_REPLY_SOURCES sources are echoed in a REPLY_INTERVAL and at
\* most MAX_PROBE_PATHS paths are probed.
THEOREM TrafficIsBounded == Spec => []TrafficBounded
<1>1. Init => TablesBounded
  <2>1. Init => Entries = {} /\ KnownPaths = {}
    BY DEF Init, Entries, KnownPaths, NoPaths
  <2> QED
    BY <2>1, FS_EmptySet, BoundAssumption DEF TablesBounded
<1>2. Inv /\ TablesBounded => TrafficBounded
  <2> SUFFICES ASSUME Inv, TablesBounded PROVE TrafficBounded
    OBVIOUS
  <2>1. Entries \subseteq Addr /\ {a \in Addr : echo_age[a] < ReplyInterval} \subseteq Entries
    BY DEF Inv, Entries
  <2>2. Cardinality({a \in Addr : echo_age[a] < ReplyInterval}) <= Cardinality(Entries)
    BY <2>1, SmallerSet
  <2>3. /\ Cardinality({a \in Addr : echo_age[a] < ReplyInterval}) \in Nat
        /\ Cardinality(Entries) \in Nat
    BY <2>1, SmallerSet
  <2> QED
    BY <2>2, <2>3, BoundAssumption DEF TablesBounded, TrafficBounded
<1>3. Inv /\ TablesBounded /\ [Next]_vars => TablesBounded'
  BY TablesStayBounded
<1> QED
  BY <1>1, <1>2, <1>3, Invariance, PTL DEF Spec

-----------------------------------------------------------------------------
(* The timed controller implements PathControl: initial states map to the  *)
(* initial state, and each step maps to a step of the abstract controller. *)
(* The inductive invariant is needed for one case: a path whose probe is   *)
(* due again while its check is unanswered has been out for AckTimeout, so *)
(* due_frames demotes it before it probes it.                              *)

\* The refinement mapping.
Status == [a \in Addr |-> StatusOf(paths[a])]

Control == [token |-> remote_token, status |-> Status]

\* The status of a record is decided by its verified flag and its probe.
LEMMA StatusOfRecord ==
  ASSUME NEW p \in PathRecord
  PROVE  StatusOf(p) = IF p.verified
                       THEN IF p.outstanding = None THEN "verified" ELSE "checking"
                       ELSE IF p.outstanding = None THEN "new" ELSE "waiting"
<1>1. p # None
  BY PathAssumption
<1>2. p.verified \in BOOLEAN
  BY DEF PathRecord
<1> QED
  BY <1>1, <1>2 DEF StatusOf

\* A missing path, and only a missing path, is absent.
LEMMA StatusAbsent ==
  ASSUME NEW p \in PathRecord \cup {None}
  PROVE  StatusOf(p) = "absent" <=> p = None
<1>1. CASE p = None
  BY <1>1 DEF StatusOf
<1>2. CASE p \in PathRecord
  BY <1>2, StatusOfRecord, PathAssumption
<1> QED
  BY <1>1, <1>2

\* update_remote.
LEMMA UpdateRemoteSimulates ==
  ASSUME Inv, NEW token \in RemoteToken \cup {None}, NEW candidates \in SUBSET Addr,
         UpdateRemote(token, candidates)
  PROVE  Abstract!UpdateRemote(token, candidates)
<1> DEFINE kept == IF remote_token = token THEN paths ELSE NoPaths
<1>1. TypeOK
  BY DEF Inv
<1>2. PICK selected \in Selections(candidates) :
        paths' = [a \in Addr |-> IF token = None \/ a \notin selected THEN None
                                 ELSE IF kept[a] = None THEN NewPath ELSE kept[a]]
  BY DEF UpdateRemote
<1>3. selected \in Abstract!Selections(candidates)
  BY Zenon DEF Selections, Abstract!Selections, Cardinality, Abstract!Cardinality
<1> DEFINE akept == IF remote_token = token THEN Status ELSE Abstract!NoStatus
           astatus == [a \in Addr |->
                         CASE token = None \/ a \notin selected -> "absent"
                           [] token # None /\ a \in selected /\ akept[a] = "absent" -> "new"
                           [] OTHER -> akept[a]]
<1>4. \A a \in Addr : kept[a] \in PathRecord \cup {None} /\ akept[a] = StatusOf(kept[a])
  BY <1>1 DEF TypeOK, NoPaths, Status, StatusOf, Abstract!NoStatus
<1>5. NewPath \in PathRecord /\ StatusOf(NewPath) = "new"
  <2>1. NewPath \in PathRecord
    BY <1>1, NewPathScheduled DEF TypeOK
  <2> QED
    BY <2>1, StatusOfRecord DEF NewPath
<1>6. \A a \in Addr : StatusOf(paths'[a]) = astatus[a]
  <2> SUFFICES ASSUME NEW a \in Addr PROVE StatusOf(paths'[a]) = astatus[a]
    OBVIOUS
  <2> HIDE DEF kept, akept
  <2>1. CASE token = None \/ a \notin selected
    <3>1. paths'[a] = None
      BY <1>2, <2>1
    <3>2. astatus[a] = "absent"
      BY <2>1
    <3> QED
      BY <3>1, <3>2 DEF StatusOf
  <2>2. CASE token # None /\ a \in selected /\ kept[a] = None
    <3>1. akept[a] = "absent"
      BY <1>4, <2>2, StatusAbsent
    <3>2. astatus[a] = "new"
      BY <2>2, <3>1
    <3>3. paths'[a] = NewPath
      BY <1>2, <2>2
    <3> QED
      BY <1>5, <3>2, <3>3
  <2>3. CASE token # None /\ a \in selected /\ kept[a] # None
    <3>1. akept[a] # "absent"
      BY <1>4, <2>3, StatusAbsent
    <3>2. astatus[a] = akept[a]
      BY <2>3, <3>1
    <3>3. paths'[a] = kept[a]
      BY <1>2, <2>3
    <3> QED
      BY <1>4, <3>2, <3>3
  <2> QED
    BY <2>1, <2>2, <2>3
<1>7. Status' = astatus
  BY <1>6 DEF Status
<1>8. Control' = [token |-> token, status |-> astatus]
  BY <1>7 DEF Control, UpdateRemote
<1>9. Control' = Abstract!Updated(Control, token, selected)
  BY <1>8 DEF Control, Abstract!Updated
<1> QED
  BY <1>3, <1>9
  DEF UpdateRemote, Abstract!UpdateRemote, Silent, Abstract!Silent, Control, Status

\* packet_action with a remote token, accepted.
LEMMA AcknowledgeSimulates ==
  ASSUME Inv, NEW token, NEW source \in Addr, Acknowledge(token, source)
  PROVE  Abstract!Acknowledge(source)
<1>1. TypeOK
  BY DEF Inv
<1>2. PICK delay \in Jitter(VerifiedInterval) :
        paths' = [paths EXCEPT ![source] = VerifiedPath(delay)]
  BY ZenonT(60) DEF Acknowledge
<1>3. StatusOf(VerifiedPath(delay)) = "verified"
  <2>1. VerifiedPath(delay) \in PathRecord
    BY <1>1, VerifiedPathScheduled DEF TypeOK
  <2> QED
    BY <2>1, StatusOfRecord DEF VerifiedPath
<1>4. Status[source] \in {"waiting", "checking"}
  <2>1. paths[source] \in PathRecord /\ paths[source].outstanding # None
    BY <1>1 DEF TypeOK, Acknowledge, AwaitsAcknowledgement
  <2> QED
    BY <2>1, StatusOfRecord DEF Status
<1>5. Status' = [Status EXCEPT ![source] = "verified"]
  BY <1>1, <1>2, <1>3, ZenonT(60) DEF Status, TypeOK
<1>6. Control' = Abstract!Acknowledged(Control, source)
  BY <1>5 DEF Control, Abstract!Acknowledged, Acknowledge
<1> QED
  BY <1>4, <1>6
  DEF Acknowledge, Abstract!Acknowledge, Abstract!CanAcknowledge, Silent,
      Abstract!Silent, Control, Status

\* due_frames: what one due path becomes.
LEMMA SentStatus ==
  ASSUME NEW p \in PathRecord, Scheduled(p, lag), lag \in 0..MaxLag, IsDue(p),
         NEW delay \in Nat
  PROVE  StatusOf(Sent(Demoted(p), delay)) =
           IF StatusOf(p) = "verified" THEN "checking" ELSE "waiting"
<1> DEFINE q == Demoted(p)
           s == Sent(q, delay)
<1>1. q \in PathRecord /\ s \in PathRecord
  BY DemotedType, SentType
<1>2. s.verified = q.verified /\ s.outstanding = 0 /\ 0 # None
  BY <1>1, NoneAssumption DEF Sent, PathRecord
<1>3. AckTimeout \in Nat \ {0} /\ MaxLag \in Nat \ {0}
  BY TimingAssumption
<1>4. q.verified <=> p.verified /\ p.outstanding = None
  <2>1. CASE CheckFailed(p)
    <3>1. q.verified = FALSE
      BY <2>1 DEF Demoted, PathRecord
    <3> QED
      BY <2>1, <3>1 DEF CheckFailed
  <2>2. CASE ~CheckFailed(p)
    <3>1. q = p
      BY <2>2 DEF Demoted
    <3>2. p.next_probe <= 0
      BY <3>1 DEF IsDue
    <3>3. p.verified => p.outstanding = None
      BY <1>3, <2>2, <3>2, NoneAssumption DEF Scheduled, CheckFailed, PathRecord
    <3> QED
      BY <3>1, <3>3 DEF PathRecord
  <2> QED
    BY <2>1, <2>2
<1>5. StatusOf(s) = IF s.verified THEN "checking" ELSE "waiting"
  <2> HIDE DEF s
  <2> QED
    BY <1>1, <1>2, StatusOfRecord
<1>6. StatusOf(p) = "verified" <=> p.verified /\ p.outstanding = None
  BY StatusOfRecord
<1> HIDE DEF s, q
<1>7. StatusOf(s) = IF StatusOf(p) = "verified" THEN "checking" ELSE "waiting"
  BY <1>2, <1>4, <1>5, <1>6
<1> QED
  BY <1>7 DEF s, q

\* due_frames, all its paths together.
LEMMA DueFramesSimulates ==
  ASSUME Inv, DueFrames
  PROVE  Abstract!DueFrames
<1>1. TypeOK
  BY DEF Inv
<1>2. PICK delay \in [DuePaths -> AllDelays] :
        /\ \A a \in DuePaths : delay[a] \in Delays(Demoted(paths[a]))
        /\ paths' = [a \in Addr |-> IF a \in DuePaths
                                    THEN Sent(Demoted(paths[a]), delay[a])
                                    ELSE paths[a]]
  BY DEF DueFrames
<1>3. \A a \in DuePaths : /\ a \in Addr /\ paths[a] \in PathRecord
                          /\ Scheduled(paths[a], lag) /\ IsDue(paths[a])
  BY <1>1 DEF Inv, TypeOK, DuePaths, KnownPaths
<1>4. \A a \in DuePaths : delay[a] \in Nat
  BY <1>2, <1>3, DemotedType, DelayRange
<1>5. \A a \in DuePaths :
        StatusOf(paths'[a]) = IF Status[a] = "verified" THEN "checking" ELSE "waiting"
  <2> SUFFICES ASSUME NEW a \in DuePaths
               PROVE  StatusOf(paths'[a]) =
                        IF Status[a] = "verified" THEN "checking" ELSE "waiting"
    OBVIOUS
  <2>1. paths'[a] = Sent(Demoted(paths[a]), delay[a])
    BY <1>2, <1>3
  <2>2. Status[a] = StatusOf(paths[a])
    BY <1>3 DEF Status
  <2>3. lag \in 0..MaxLag
    BY <1>1 DEF TypeOK
  <2> QED
    BY <1>3, <1>4, <2>1, <2>2, <2>3, SentStatus
<1>6. \A a \in Addr \ DuePaths : StatusOf(paths'[a]) = Status[a]
  BY <1>2 DEF Status
<1>7. Status' = [a \in Addr |-> IF a \notin DuePaths THEN Status[a]
                                ELSE IF Status[a] = "verified" THEN "checking" ELSE "waiting"]
  BY <1>5, <1>6, ZenonT(60) DEF Status
<1>8. Control' = Abstract!Probed(Control, DuePaths)
  BY <1>7 DEF Control, Abstract!Probed, DueFrames
<1>9. DuePaths \subseteq Abstract!Known(Control)
  BY <1>1, StatusAbsent
  DEF DuePaths, KnownPaths, Abstract!Known, Control, Status, TypeOK
<1> QED
  BY <1>8, <1>9, ZenonT(60) DEF DueFrames, Abstract!DueFrames, Silent, Abstract!Silent, Control, Status

\* The passing of time does not change a status.
LEMMA TickSimulates ==
  ASSUME Inv, Tick
  PROVE  Abstract!Quiet
<1>1. TypeOK
  BY DEF Inv
<1>2. \A a \in Addr : StatusOf(paths'[a]) = StatusOf(paths[a])
  <2> SUFFICES ASSUME NEW a \in Addr PROVE StatusOf(paths'[a]) = StatusOf(paths[a])
    OBVIOUS
  <2>1. CASE paths[a] = None
    BY <2>1 DEF Tick
  <2>2. CASE paths[a] # None
    <3> DEFINE p == paths[a]
    <3>1. p \in PathRecord /\ Scheduled(p, lag) /\ lag \in 0..MaxLag /\ lag < MaxLag
      BY <1>1, <2>2 DEF Inv, TypeOK, KnownPaths, Tick
    <3>2. paths'[a] = AgedPath(p)
      BY <2>2 DEF Tick
    <3>3. AgedPath(p) \in PathRecord
      BY <3>1, AgedPathScheduled
    <3>4. /\ AgedPath(p).verified = p.verified
          /\ AgedPath(p).outstanding = None <=> p.outstanding = None
      <4> HIDE DEF p
      <4> QED
        BY <3>1, NoneAssumption DEF AgedPath, PathRecord, Older
    <3> HIDE DEF p
    <3>5. StatusOf(AgedPath(p)) = StatusOf(p)
      BY <3>1, <3>3, <3>4, StatusOfRecord
    <3> QED
      BY <3>2, <3>5 DEF p
  <2> QED
    BY <2>1, <2>2
<1> QED
  BY <1>2 DEF Tick, Abstract!Quiet, Silent, Abstract!Silent

\* For every set of addresses, every bound and every timing that satisfies the
\* assumptions, probe.rs with its clock behaves like PathControl.
THEOREM Refinement == Spec => ImplementsPathControl
<1>1. Init => Abstract!Init
  BY DEF Init, Abstract!Init, Abstract!New, Abstract!NoStatus, NoPaths, StatusOf,
         Silent, Abstract!Silent
<1>2. Inv /\ [Next]_vars => [Abstract!Next]_(Abstract!vars)
  <2> SUFFICES ASSUME Inv, [Next]_vars PROVE [Abstract!Next]_(Abstract!vars)
    OBVIOUS
  <2>1. ASSUME NEW token \in RemoteToken \cup {None}, NEW candidates \in SUBSET Addr,
               UpdateRemote(token, candidates)
        PROVE  Abstract!Next
    BY <2>1, UpdateRemoteSimulates DEF Abstract!Next
  <2>2. ASSUME NEW token \in RemoteToken \cup {LocalToken}, NEW source \in Addr,
               PacketAction(token, source)
        PROVE  Abstract!Next
    <3>1. CASE Acknowledge(token, source)
      BY <3>1, AcknowledgeSimulates DEF Abstract!Next
    <3>2. CASE \/ RequestRefused(source) \/ RequestLimited(source)
               \/ RequestEchoed(source) \/ DropFrame(token, source)
      <4>1. Abstract!Request(source)
        BY <3>2 DEF RequestRefused, RequestLimited, RequestEchoed, DropFrame,
                    Abstract!Request, Silent, Abstract!Silent
      <4> QED
        BY <4>1 DEF Abstract!Next
    <3> QED
      BY <2>2, <3>1, <3>2 DEF PacketAction
  <2>3. CASE DueFrames
    BY <2>3, DueFramesSimulates DEF Abstract!Next
  <2>4. CASE Tick
    BY <2>4, TickSimulates DEF Abstract!Next
  <2>5. CASE UNCHANGED vars
    BY <2>5 DEF vars, Abstract!vars
  <2> QED
    BY <2>1, <2>2, <2>3, <2>4, <2>5 DEF Next
<1> QED
  BY <1>1, <1>2, Invariance, PTL DEF Spec, ImplementsPathControl, Abstract!Spec
=============================================================================
