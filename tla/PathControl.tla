----------------------------- MODULE PathControl -----------------------------
(***************************************************************************)
(* What the probe controller of one connection promises to the rest of the *)
(* process, without its clock: which remote token the controller holds,    *)
(* and how far each advertised address has got.                            *)
(*                                                                         *)
(*   absent    not a candidate of the record the token came from           *)
(*   new       a candidate no probe has been sent to under this token      *)
(*   waiting   probed, never acknowledged since it was last (re)started    *)
(*   verified  acknowledged, with no probe in flight                       *)
(*   checking  acknowledged before, and being probed again                 *)
(*                                                                         *)
(* The operations are operators on a controller record, so that a          *)
(* specification with several controllers can use them too.  The timed     *)
(* specification, ProbeController, implements this one.                    *)
(***************************************************************************)
EXTENDS Integers, FiniteSets

CONSTANTS
  Addr,             \* SocketAddr values
  RemoteToken,      \* run tokens a remote record may carry
  None,             \* Option::None
  MaxProbePaths     \* MAX_PROBE_PATHS

VARIABLES
  control,          \* [token, status]
  out               \* what the last call handed to its caller to send:
                    \*   echo  sources to echo a request to
                    \*   probe destinations of probes carrying control.token

vars == <<control, out>>

Status == {"absent", "new", "waiting", "verified", "checking"}

Outputs == [echo : SUBSET Addr, probe : SUBSET Addr]

Silent == [echo |-> {}, probe |-> {}]

NoStatus == [a \in Addr |-> "absent"]

\* The paths a controller knows and the ones it holds as verified this run.
Known(c) == {a \in Addr : c.status[a] # "absent"}

VerifiedPaths(c) == {a \in Addr : c.status[a] \in {"verified", "checking"}}

\* All of the candidates when they fit, any MaxProbePaths of them otherwise:
\* the list comes out of a HashSet, in no particular order.
Selections(candidates) ==
  {s \in SUBSET candidates :
     /\ Cardinality(s) <= MaxProbePaths
     /\ s = candidates \/ Cardinality(s) = MaxProbePaths}

New == [token |-> None, status |-> NoStatus]

Updated(c, token, selected) ==
  LET kept == IF c.token = token THEN c.status ELSE NoStatus
  IN  [token  |-> token,
       status |-> [a \in Addr |->
                     CASE token = None \/ a \notin selected -> "absent"
                       [] token # None /\ a \in selected /\ kept[a] = "absent" -> "new"
                       [] OTHER -> kept[a]]]

\* An acknowledgement counts only for a path with a probe in flight.
CanAcknowledge(c, source) == c.status[source] \in {"waiting", "checking"}

Acknowledged(c, source) == [c EXCEPT !.status[source] = "verified"]

\* A verified path keeps its standing while it is checked once; a path that is
\* probed again with a check still unanswered has lost it.
Probed(c, due) ==
  [c EXCEPT !.status = [a \in Addr |->
     IF a \notin due THEN c.status[a]
     ELSE IF c.status[a] = "verified" THEN "checking" ELSE "waiting"]]

-----------------------------------------------------------------------------
Init == control = New /\ out = Silent

UpdateRemote(token, candidates) ==
  /\ \E selected \in Selections(candidates) :
       control' = Updated(control, token, selected)
  /\ out' = Silent

Request(source) ==
  /\ out' \in {Silent, [Silent EXCEPT !.echo = {source}]}
  /\ UNCHANGED control

Acknowledge(source) ==
  /\ CanAcknowledge(control, source)
  /\ control' = Acknowledged(control, source)
  /\ out' = Silent

DueFrames ==
  \E due \in SUBSET Known(control) :
    /\ control' = Probed(control, due)
    /\ out' = [Silent EXCEPT !.probe = due]

\* Time passes, or a frame is dropped.
Quiet == out' = Silent /\ UNCHANGED control

Next ==
  \/ \E token \in RemoteToken \cup {None}, candidates \in SUBSET Addr :
       UpdateRemote(token, candidates)
  \/ \E source \in Addr : Request(source) \/ Acknowledge(source)
  \/ DueFrames
  \/ Quiet

Spec == Init /\ [][Next]_vars
=============================================================================
