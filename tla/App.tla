--------------------------------- MODULE App ---------------------------------
(***************************************************************************)
(* The program: app::run hands over to generate (Keygen) or to run         *)
(* (Supervisor), according to the command line.  A process executes one    *)
(* of them and returns its result; the part that was not chosen never      *)
(* starts.  The two diagnostic commands are left out.                      *)
(***************************************************************************)
EXTENDS Keygen

CONSTANTS Commands, Ports, MaxFailures

VARIABLES command, run_pc, result, setups, bound, alive, ended, failure, changed,
          reports

Service == INSTANCE Supervisor WITH pc <- run_pc

ASSUME CommandAssumption == Commands \subseteq Service!RunCommand

runVars == <<command, run_pc, result, setups, bound, alive, ended, failure, changed,
             reports>>

\* run writes no key file, so what files there are does not matter to it.
NoGenerate ==
  /\ flags = [g \in Command |-> [path |-> None, pub_path |-> None,
                                 insecure_priv |-> FALSE, override_files |-> FALSE]]
  /\ files = [p \in Path |-> [kind |-> "absent", content |-> <<>>, wide |-> FALSE]]
  /\ pc = [g \in Command |-> "not run"]

NoRun ==
  /\ command = [out_port |-> 0, connections |-> <<>>]
  /\ run_pc = "not run" /\ result = <<>>
  /\ setups = <<>> /\ bound = {}
  /\ alive = {} /\ ended = {}
  /\ failure = <<>> /\ changed = FALSE /\ reports = <<>>

\* match config.command
Dispatch ==
  \/ Init /\ NoRun
  \/ Service!Init /\ NoGenerate

AppNext ==
  \/ Next /\ UNCHANGED runVars
  \/ Service!Next /\ UNCHANGED vars

AppSpec == Dispatch /\ [][AppNext]_<<vars, runVars>> /\ Service!Fairness

-----------------------------------------------------------------------------
\* FailureEndsRun of Supervisor: a task that ends, at whatever time and in
\* whatever way, ends the process (service.rs, the receiver made before the
\* tasks; utils.rs, spawn).
FailureEndsRun == Service!FailureEndsRun

\* NoHalfStart of Supervisor: run supervises only when every peer of every
\* connection has all of its tasks (service.rs, collect over join_all).
NoHalfStart == Service!NoHalfStart

\* FirstReportIsTheReason of Supervisor: the error the process ends with names
\* the task that reported first (utils.rs, send_if_modified).
FirstReportIsTheReason == Service!FirstReportIsTheReason
=============================================================================
