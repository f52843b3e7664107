--------------------------- MODULE ProbeController ---------------------------
(***************************************************************************)
(* The probe controller of one connection (src/src/probe.rs) with its      *)
(* timers, driven by the three tasks that share it: the DHT listener calls *)
(* update_remote, the control packet handler calls packet_action and the   *)
(* 100 ms scheduler calls due_frames.  Every method holds the controller's *)
(* mutex from its first read to its last write, so each is one action.     *)
(*                                                                         *)
(* The code compares an Instant with now and in no other way, so an        *)
(* Instant is kept relative to now: next_probe is the time left (negative  *)
(* when overdue), outstanding, last_control_response and the entries of    *)
(* reply_sources are ages.  Tick moves all of them by one unit.            *)
(***************************************************************************)
EXTENDS Integers, FiniteSets

CONSTANTS
  Addr,             \* SocketAddr values: candidates, and sources of frames
  RemoteToken,      \* run tokens a remote record may carry
  LocalToken,       \* this run's own token
  None,             \* Option::None, and a key missing from a HashMap
  MaxProbePaths,    \* MAX_PROBE_PATHS
  MaxReplySources,  \* MAX_REPLY_SOURCES
  ReplyInterval,    \* REPLY_INTERVAL
  AckTimeout,       \* ACK_TIMEOUT
  FirstDelay,       \* the delay after the first fast probe (1 s)
  SecondDelay,      \* the delay after the second fast probe (2 s)
  SlowInterval,     \* the unacknowledged schedule before jitter (5 s)
  VerifiedInterval, \* the verified schedule before jitter (15 s)
  MaxStage,         \* largest value of the u8 fast_stage
  MaxLag            \* most time units between two runs of the scheduler

VARIABLES
  remote_token,     \* State.remote_token
  paths,            \* State.paths
  reply_sources,    \* State.reply_sources
  out,              \* what the last call returned for its task to send
  lag,              \* time since the scheduler last ran
  echo_age          \* history: time since each source was last echoed

vars == <<remote_token, paths, reply_sources, out, lag, echo_age>>

\* Any delay of 90 to 110 percent of the interval.
Jitter(interval) == {(interval * percent) \div 100 : percent \in 90..110}

Longest(interval) == (interval * 110) \div 100

\* The oldest acknowledgement a verified path can rest on: the longest wait for
\* its next check, the time that check is given, and twice a late scheduler.
FreshLimit == Longest(VerifiedInterval) + AckTimeout + 2 * (MaxLag - 1)

\* The longest an unverified path waits for its next probe, and the longest it
\* goes without one when the scheduler is late.
LongestDelay ==
  CHOOSE d \in {FirstDelay, SecondDelay, Longest(SlowInterval)} :
    \A e \in {FirstDelay, SecondDelay, Longest(SlowInterval)} : e <= d

LongestSilence == LongestDelay + MaxLag - 1

ASSUME AddrAssumption == IsFiniteSet(Addr)

ASSUME NoneAssumption == None \notin Int /\ None \notin RemoteToken

\* Run tokens are 128 random bits.
ASSUME TokenAssumption == LocalToken \notin RemoteToken \cup {None}

ASSUME BoundAssumption ==
  /\ MaxProbePaths \in Nat /\ MaxReplySources \in Nat
  /\ MaxStage \in Nat /\ MaxStage >= 2

\* A check is over before the next one is due, however short its jitter.
ASSUME TimingAssumption ==
  /\ \A d \in {ReplyInterval, AckTimeout, FirstDelay, SecondDelay,
               SlowInterval, VerifiedInterval, MaxLag} : d \in Nat \ {0}
  /\ \A d \in Jitter(SlowInterval) : d > 0
  /\ \A d \in Jitter(VerifiedInterval) : d >= AckTimeout

PathRecord ==
  [next_probe : Int, outstanding : Nat \cup {None}, verified : BOOLEAN,
   fast_stage : 0..MaxStage, last_control_response : Nat \cup {None}]

ASSUME PathAssumption == None \notin PathRecord

NoPaths == [a \in Addr |-> None]

KnownPaths == {a \in Addr : paths[a] # None}

Silent == [echo |-> {}, probe |-> {}]

-----------------------------------------------------------------------------
Init ==
  /\ remote_token = None
  /\ paths = NoPaths
  /\ reply_sources = [a \in Addr |-> None]
  /\ out = Silent
  /\ lag = 0
  /\ echo_age = [a \in Addr |-> ReplyInterval]

NewPath ==
  [next_probe |-> 0, outstanding |-> None, verified |-> FALSE,
   fast_stage |-> 0, last_control_response |-> None]

\* Mutant: the paths are not capped.
SelectionsUncapped(candidates) == {candidates}

\* The first MaxProbePaths candidates of a list that comes out of a HashSet.
Selections(candidates) ==
  {s \in SUBSET candidates :
     /\ Cardinality(s) <= MaxProbePaths
     /\ s = candidates \/ Cardinality(s) = MaxProbePaths}

UpdateRemote(token, candidates) ==
  /\ remote_token' = token
  /\ LET kept == IF remote_token = token THEN paths ELSE NoPaths
     IN  \E selected \in Selections(candidates) :
           paths' = [a \in Addr |-> IF token = None \/ a \notin selected THEN None
                                    ELSE IF kept[a] = None THEN NewPath
                                    ELSE kept[a]]
  /\ out' = Silent
  /\ UNCHANGED <<reply_sources, lag, echo_age>>

\* Mutant: the retain forgets a source one unit early.
RecentEarly ==
  [a \in Addr |-> IF reply_sources[a] # None /\ reply_sources[a] < ReplyInterval - 1
                  THEN reply_sources[a] ELSE None]

\* reply_sources after the retain at the head of packet_action.
Recent ==
  [a \in Addr |-> IF reply_sources[a] # None /\ reply_sources[a] < ReplyInterval
                  THEN reply_sources[a] ELSE None]

RecentSources == {a \in Addr : Recent[a] # None}

\* A request from a source the table has no room for.
RequestRefused(source) ==
  /\ source \notin RecentSources
  /\ Cardinality(RecentSources) >= MaxReplySources
  /\ reply_sources' = Recent
  /\ out' = Silent
  /\ UNCHANGED <<remote_token, paths, lag, echo_age>>

\* A request too soon after the last one: it is not echoed, yet it moves the
\* source's entry to now, so the limit is extended by every such request.
RequestLimited(source) ==
  /\ source \in RecentSources
  /\ reply_sources' = [Recent EXCEPT ![source] = 0]
  /\ out' = Silent
  /\ UNCHANGED <<remote_token, paths, lag, echo_age>>

RequestEchoed(source) ==
  /\ source \notin RecentSources
  /\ Cardinality(RecentSources) < MaxReplySources
  /\ reply_sources' = [Recent EXCEPT ![source] = 0]
  /\ out' = [Silent EXCEPT !.echo = {source}]
  /\ echo_age' = [echo_age EXCEPT ![source] = 0]
  /\ UNCHANGED <<remote_token, paths, lag>>

\* Mutant: an acknowledgement needs no outstanding probe.
AwaitsNothing(token, source) ==
  /\ remote_token = token
  /\ paths[source] # None

AwaitsAcknowledgement(token, source) ==
  /\ remote_token = token
  /\ paths[source] # None
  /\ paths[source].outstanding # None

VerifiedPath(delay) ==
  [next_probe |-> delay, outstanding |-> None, verified |-> TRUE,
   fast_stage |-> 0, last_control_response |-> 0]

Acknowledge(token, source) ==
  /\ AwaitsAcknowledgement(token, source)
  /\ \E delay \in Jitter(VerifiedInterval) :
       paths' = [paths EXCEPT ![source] = VerifiedPath(delay)]
  /\ reply_sources' = Recent
  /\ out' = Silent
  /\ UNCHANGED <<remote_token, lag, echo_age>>

DropFrame(token, source) ==
  /\ ~AwaitsAcknowledgement(token, source)
  /\ reply_sources' = Recent
  /\ out' = Silent
  /\ UNCHANGED <<remote_token, paths, lag, echo_age>>

PacketAction(token, source) ==
  \/ /\ token = LocalToken
     /\ \/ RequestRefused(source)
        \/ RequestLimited(source)
        \/ RequestEchoed(source)
  \/ /\ token # LocalToken
     /\ \/ Acknowledge(token, source)
        \/ DropFrame(token, source)

\* Mutant: the ACK_TIMEOUT branch is missing.
CheckNeverFails(p) == FALSE

\* A verified path whose check went unanswered goes back to the fast schedule.
CheckFailed(p) ==
  p.verified /\ p.outstanding # None /\ p.outstanding >= AckTimeout

\* Mutant: the demotion restarts the path but forgets the flag.
DemotedStillVerified(p) ==
  IF CheckFailed(p)
  THEN [p EXCEPT !.fast_stage = 0, !.outstanding = None, !.next_probe = 0]
  ELSE p

Demoted(p) ==
  IF CheckFailed(p)
  THEN [p EXCEPT !.verified = FALSE, !.fast_stage = 0,
                 !.outstanding = None, !.next_probe = 0]
  ELSE p

IsDue(p) == Demoted(p).next_probe <= 0

Delays(p) ==
  CASE p.verified -> Jitter(VerifiedInterval)
    [] ~p.verified /\ p.fast_stage = 0 -> {FirstDelay}
    [] ~p.verified /\ p.fast_stage = 1 -> {SecondDelay}
    [] OTHER -> Jitter(SlowInterval)

\* Mutants: fast_stage is not saturated; next_probe is not set.
SentUnsaturated(p, delay) ==
  [p EXCEPT !.outstanding = 0, !.next_probe = delay,
            !.fast_stage = IF p.verified THEN @ ELSE @ + 1]

SentUnarmed(p, delay) ==
  [p EXCEPT !.outstanding = 0,
            !.fast_stage = IF p.verified \/ @ = MaxStage THEN @ ELSE @ + 1]

Sent(p, delay) ==
  [p EXCEPT !.outstanding = 0, !.next_probe = delay,
            !.fast_stage = IF p.verified \/ @ = MaxStage THEN @ ELSE @ + 1]

\* Without a remote token the scheduler returns before it looks at a path.
DuePaths == {a \in KnownPaths : remote_token # None /\ IsDue(paths[a])}

AllDelays ==
  {FirstDelay, SecondDelay} \cup Jitter(SlowInterval) \cup Jitter(VerifiedInterval)

DueFrames ==
  /\ \E delay \in [DuePaths -> AllDelays] :
       /\ \A a \in DuePaths : delay[a] \in Delays(Demoted(paths[a]))
       /\ paths' = [a \in Addr |-> IF a \in DuePaths
                                   THEN Sent(Demoted(paths[a]), delay[a])
                                   ELSE paths[a]]
  /\ out' = [Silent EXCEPT !.probe = DuePaths]
  /\ lag' = 0
  /\ UNCHANGED <<remote_token, reply_sources, echo_age>>

Older(age, cap) == IF age = None \/ age = cap THEN age ELSE age + 1

AgedPath(p) ==
  [p EXCEPT !.next_probe = @ - 1, !.outstanding = Older(@, None),
            !.last_control_response = Older(@, FreshLimit + 1)]

\* One unit of time.  The code only asks whether a reply entry is younger than
\* ReplyInterval, and nothing reads last_control_response: ages stop there.
Tick ==
  /\ lag < MaxLag
  /\ lag' = lag + 1
  /\ paths' = [a \in Addr |-> IF paths[a] = None THEN None ELSE AgedPath(paths[a])]
  /\ reply_sources' = [a \in Addr |-> Older(reply_sources[a], ReplyInterval)]
  /\ echo_age' = [a \in Addr |-> Older(echo_age[a], ReplyInterval)]
  /\ out' = Silent
  /\ UNCHANGED remote_token

Next ==
  \/ \E token \in RemoteToken \cup {None}, candidates \in SUBSET Addr :
       UpdateRemote(token, candidates)
  \/ \E token \in RemoteToken \cup {LocalToken}, source \in Addr :
       PacketAction(token, source)
  \/ DueFrames
  \/ Tick

Spec == Init /\ [][Next]_vars

\* Time passes, and the scheduler's interval timer keeps firing.
FairSpec == Spec /\ WF_vars(Tick) /\ WF_vars(DueFrames)
-----------------------------------------------------------------------------
TypeOK ==
  /\ remote_token \in RemoteToken \cup {None}
  /\ paths \in [Addr -> PathRecord \cup {None}]
  /\ reply_sources \in [Addr -> 0..ReplyInterval \cup {None}]
  /\ out \in [echo : SUBSET Addr, probe : SUBSET Addr]
  /\ lag \in 0..MaxLag
  /\ echo_age \in [Addr -> 0..ReplyInterval]

\* A path counts as verified only while its last acknowledgement is recent: the
\* jittered 15 s schedule of due_frames and its ACK_TIMEOUT branch together take
\* the flag away from a peer that has gone silent, whatever packet_action and
\* update_remote do in between.
VerifiedIsRecent ==
  \A a \in KnownPaths : paths[a].verified =>
    /\ paths[a].last_control_response # None
    /\ paths[a].last_control_response <= FreshLimit

\* No path of State.paths is overdue for longer than the scheduler has been away,
\* and one with an unanswered probe is probed again in bounded time: no order of
\* acknowledgements, refreshes and timeouts leaves a path due_frames forgets.
ProbingNeverStops ==
  \A a \in KnownPaths :
    /\ paths[a].next_probe >= -lag
    /\ paths[a].outstanding # None /\ ~paths[a].verified
         => paths[a].outstanding <= LongestSilence

\* The echoes of any REPLY_INTERVAL go to at most MAX_REPLY_SOURCES sources, and
\* the controller never tracks more than MAX_PROBE_PATHS paths: what the two
\* tables bound is the traffic, not only their own size.
TrafficBounded ==
  /\ Cardinality({a \in Addr : echo_age[a] < ReplyInterval}) <= MaxReplySources
  /\ Cardinality(KnownPaths) <= MaxProbePaths

\* packet_action answers a source at most once per REPLY_INTERVAL, though the
\* table it consults holds the time of the last request, not of the last echo.
EchoSpacing ==
  [][\A a \in Addr : a \in out'.echo => echo_age[a] >= ReplyInterval]_vars

\* A check of a verified path ends, by an acknowledgement, by a demotion in
\* due_frames or by the path's removal: it is never left in flight for ever.
Checking(a) ==
  /\ a \in KnownPaths
  /\ paths[a].verified /\ paths[a].outstanding # None

EveryCheckResolves == \A a \in Addr : Checking(a) ~> ~Checking(a)

-----------------------------------------------------------------------------
\* What a path record looks like without its timers.
StatusOf(p) ==
  CASE p = None -> "absent"
    [] p # None /\ ~p.verified /\ p.outstanding = None -> "new"
    [] p # None /\ ~p.verified /\ p.outstanding # None -> "waiting"
    [] p # None /\ p.verified /\ p.outstanding = None -> "verified"
    [] OTHER -> "checking"

Abstract == INSTANCE PathControl WITH
  control <- [token |-> remote_token, status |-> [a \in Addr |-> StatusOf(paths[a])]]

\* The controller implements PathControl: in particular a probe is only sent to
\* a path under check once the check has failed, so the flag is never carried
\* over two unanswered probes, and an acknowledgement only counts for a path
\* with a probe in flight.
ImplementsPathControl == Abstract!Spec
=============================================================================
