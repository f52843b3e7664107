----------------------------- MODULE Supervisor -----------------------------
(***************************************************************************)
(* The run command: validation, the concurrent set-up of all connections   *)
(* (run and setup_connection, service.rs) and the supervision of the tasks *)
(* they spawn (TaskMonitor and spawn, utils.rs).  A set-up step is the     *)
(* code between two points where it may wait or fail.  What the tasks do   *)
(* is left to the other modules: here a task runs, and may end at any      *)
(* time, with an error, cleanly or in a panic.  Its channel ends are       *)
(* dropped when it ends, and it reports after that.                        *)
(***************************************************************************)
EXTENDS Integers, Sequences, FiniteSets, SequencesExt

CONSTANTS
  Commands,         \* RunCommand: [out_port, connections], see MCApp
  Ports,            \* UDP ports of the host
  MaxFailures       \* bound: tasks that end by themselves

VARIABLES
  command,          \* the RunCommand
  pc,               \* where run is
  result,           \* <<>>, or the error run returned
  setups,           \* the futures join_all drives, one for each connection
  bound,            \* ports this process has bound
  alive,            \* the tasks that run
  ended,            \* the tasks that have ended and not reported yet
  failure,          \* the watch channel: <<>> or the failure it holds
  changed,          \* the receiver has not seen the channel's value yet
  reports           \* history: the failures in the order they were reported

vars == <<command, pc, result, setups, bound, alive, ended, failure, changed,
          reports>>
taskVars == <<alive, ended, failure, changed, reports>>

SocketTasks == {"UDP socket receiver", "UDP socket sender",
                "internet UDP receive routing"}
LoopbackTasks == {"loopback receiver", "loopback sender", "loopback UDP forwarding"}
PeerTasks == {"control UDP handler", "control probe scheduler",
              "inbound UDP forwarding", "DHT address publishing",
              "DHT address listening"}
AllTasks == SocketTasks \cup {"STUN candidate gathering"} \cup LoopbackTasks \cup PeerTasks

\* The run command, as far as run looks at it: whether the keys parse, and ports.
PeerConfig == [local_port : Nat, public_key : BOOLEAN]
ConnectionConfig == [secret_key : BOOLEAN, peers : Seq(PeerConfig)]
RunCommand == [out_port : Nat, connections : Seq(ConnectionConfig)]

Of(c, i, names) == {<<c, i, name>> : name \in names}
DhtTask == <<0, 0, "OpenDHT tick loop">>

Connection == DOMAIN command.connections
PeersOf(c) == command.connections[c].peers
PeerCount == FoldLeft(LAMBDA n, c : n + Len(c.peers), 0, command.connections)

Init ==
  /\ command \in Commands
  /\ pc = "validate" /\ result = <<>>
  /\ setups = <<>> /\ bound = {}
  /\ alive = {} /\ ended = {}
  /\ failure = <<>> /\ changed = FALSE /\ reports = <<>>

Return(kind, what) == pc' = "returned" /\ result' = <<kind, what>>

-----------------------------------------------------------------------------
(* run, up to the set-ups.                                                 *)

\* validate_connections: every key parses.
Valid == \A c \in Connection :
           /\ command.connections[c].secret_key
           /\ \A i \in DOMAIN PeersOf(c) : PeersOf(c)[i].public_key

\* A fixed port serves one peer.
FixedPortShared == command.out_port # 0 /\ PeerCount > 1

Validate ==
  /\ pc = "validate"
  /\ IF ~Valid \/ PeerCount = 0 \/ FixedPortShared
       THEN Return("configuration", <<>>)
       ELSE pc' = "dht" /\ UNCHANGED result
  /\ UNCHANGED <<command, setups, bound, taskVars>>

\* start_dht: binding, resolving and bootstrapping may fail.
StartDht ==
  /\ pc = "dht"
  /\ \/ /\ Return("dht", <<>>)
        /\ UNCHANGED <<setups, alive>>
     \/ /\ pc' = "setup"
        /\ setups' = [c \in Connection |-> [peer |-> 1, step |-> "open", error |-> <<>>]]
        /\ alive' = {DhtTask}
        /\ UNCHANGED result
  /\ UNCHANGED <<command, bound, ended, failure, changed, reports>>

-----------------------------------------------------------------------------
(* setup_connection, one step of its loop over the peers at a time.        *)

Finished(c) == setups[c].error # <<>> \/ setups[c].peer > Len(PeersOf(c))

AtStep(c, step) == pc = "setup" /\ ~Finished(c) /\ setups[c].step = step

Fails(c, error) ==
  /\ setups' = [setups EXCEPT ![c].error = <<error>>]
  /\ UNCHANGED <<bound, alive>>

Spawns(c, names) == alive' = alive \cup Of(c, setups[c].peer, names)

\* open_internet_socket with port 0 takes any free port; then split_udp_socket
\* and split_internet_receiver.
OpenSocket(c) ==
  /\ AtStep(c, "open")
  /\ \/ Fails(c, "internet socket")
     \/ /\ \E port \in Ports \ bound :
             /\ command.out_port \in {0, port}
             /\ bound' = bound \cup {port}
        /\ setups' = [setups EXCEPT ![c].step = "gather"]
        /\ Spawns(c, SocketTasks)
  /\ UNCHANGED <<command, pc, result, ended, failure, changed, reports>>

\* request_nat_mapping, whose failure is not one, and start_stun_candidates.
StartGathering(c) ==
  /\ AtStep(c, "gather")
  /\ setups' = [setups EXCEPT ![c].step = "bind"]
  /\ Spawns(c, {"STUN candidate gathering"})
  /\ UNCHANGED <<command, pc, result, bound, ended, failure, changed, reports>>

\* bind_loopback_and_forward, and the five tasks spawned after it.
BindLoopback(c) ==
  /\ AtStep(c, "bind")
  /\ LET port == PeersOf(c)[setups[c].peer].local_port
     IN  \/ Fails(c, "loopback socket")
         \/ /\ port \notin bound
            /\ bound' = bound \cup {port}
            /\ setups' = [setups EXCEPT ![c].step = "open", ![c].peer = @ + 1]
            /\ Spawns(c, LoopbackTasks \cup PeerTasks)
  /\ UNCHANGED <<command, pc, result, ended, failure, changed, reports>>

\* Mutant: one connection that is set up is enough.
SetupErrorsIfAll(c) == \A d \in Connection : setups[d].error # <<>>

\* collect: the first error, in the order of the connections, is the result.
SetupErrors(c) == setups[c].error # <<>> /\ \A d \in 1..(c - 1) : setups[d].error = <<>>

\* Mutant: the receiver marks the value it finds as seen.
SeenAtStart == FALSE

\* The receiver was made before the first task: it sees what was reported
\* while the connections were set up.
SeenAtSupervise == changed

\* join_all waits for every set-up, failed or not.
SetupsDone ==
  /\ pc = "setup"
  /\ \A c \in Connection : Finished(c)
  /\ IF \E c \in Connection : SetupErrors(c)
       THEN /\ Return("setup", <<CHOOSE c \in Connection : SetupErrors(c)>>)
            /\ UNCHANGED changed
       ELSE /\ pc' = "supervise"
            /\ changed' = SeenAtSupervise
            /\ UNCHANGED result
  /\ UNCHANGED <<command, setups, bound, alive, ended, failure, reports>>

\* failures.changed(), borrow_and_update and bail; no failure in the channel would
\* be returned as that of an "unknown task".
NoticeFailure ==
  /\ pc = "supervise" /\ changed
  /\ changed' = FALSE
  /\ Return("task", failure)
  /\ UNCHANGED <<command, setups, bound, alive, ended, failure, reports>>

-----------------------------------------------------------------------------
(* The tasks, while the process lives.                                     *)

TaskEnds ==
  /\ pc # "returned"
  /\ Cardinality(ended) + Len(reports) < MaxFailures
  /\ \E task \in alive : alive' = alive \ {task} /\ ended' = ended \cup {task}
  /\ UNCHANGED <<command, pc, result, setups, bound, failure, changed, reports>>

\* Mutant: the channel always holds the latest failure.
ReportLatest(task) == failure' = <<task>> /\ changed' = TRUE

\* report_failure: only the first failure is kept, and notified.
ReportFailure(task) ==
  IF failure # <<>> THEN UNCHANGED <<failure, changed>>
  ELSE failure' = <<task>> /\ changed' = TRUE

\* The three arms of spawn: an error, a clean end and a panic alike.
TaskReports ==
  /\ pc # "returned"
  /\ \E task \in ended :
       /\ ended' = ended \ {task}
       /\ ReportFailure(task)
       /\ reports' = Append(reports, task)
  /\ UNCHANGED <<command, pc, result, setups, bound, alive>>

Setup(c) == OpenSocket(c) \/ StartGathering(c) \/ BindLoopback(c)

Next ==
  \/ Validate \/ StartDht \/ SetupsDone \/ NoticeFailure
  \/ \E c \in Connection : OpenSocket(c) \/ StartGathering(c) \/ BindLoopback(c)
  \/ TaskEnds \/ TaskReports

Spec == Init /\ [][Next]_vars

\* The runtime polls run, each set-up and each task that can go on.  Every wait
\* in a set-up is bounded: binding does not wait, and the mapping request and
\* the bootstrap have timeouts of their own.  Nothing makes a task end.
Fairness ==
  /\ WF_vars(Validate \/ StartDht \/ SetupsDone \/ NoticeFailure)
  /\ WF_vars(\E c \in Connection : Setup(c))
  /\ WF_vars(TaskReports)

-----------------------------------------------------------------------------
\* A task that ends, in whatever way and at whatever time, also while other
\* connections are still being set up, ends run (service.rs, the receiver made
\* before the tasks; utils.rs, spawn).
FailureEndsRun == ended # {} ~> pc = "returned"

\* run supervises only when every peer of every connection has all of its
\* tasks: it never carries on with the connections that happened to start
\* (service.rs, collect over join_all).
NoHalfStart ==
  pc = "supervise" =>
    \A c \in Connection : \A i \in DOMAIN PeersOf(c) :
      Of(c, i, AllTasks) \subseteq alive \cup ended \cup ToSet(reports)

\* The reason run gives is the first failure that was reported, and always one
\* that a task reported (utils.rs, send_if_modified).
FirstReportIsTheReason ==
  /\ failure # <<>> => failure[1] = reports[1]
  /\ pc = "returned" /\ result[1] = "task" => result[2] = <<reports[1]>>
=============================================================================
