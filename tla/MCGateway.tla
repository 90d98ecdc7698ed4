------------------------------ MODULE MCGateway ------------------------------
(***************************************************************************)
(* The gateway daemon and process-supervisor for TLC.  They have nothing in *)
(* common; a behaviour is one of the program that focus names, the other is *)
(* at rest.                                                                 *)
(***************************************************************************)
EXTENDS Gateway

CONSTANTS MaxRestart, Captures, WorkerMay, PIPE_SIZE   \* of Supervisor

ASSUME MCGatewayAssumption ==
  /\ {MaxRestart, PIPE_SIZE} \subseteq Nat
  /\ Captures \subseteq BOOLEAN /\ WorkerMay \subseteq {"stop", "close"}

VARIABLES
  focus,
  restart_val, kill_group, capture_out, spc, restart_time, is_running, pending, child,
  group, grandchild, orphan, open, data

supervisorVars == <<restart_val, kill_group, capture_out, spc, restart_time, is_running,
                    pending, child, group, grandchild, orphan, open, data>>
allVars == <<focus, vars, supervisorVars>>

Sup == INSTANCE Supervisor

\* The options are fixed while the supervisor is at rest.
MCInit ==
  /\ focus \in {"gateway", "supervisor"}
  /\ Init /\ Sup!Init
  /\ focus = "supervisor" \/ (restart_val = 0 /\ kill_group /\ capture_out)

MCNext ==
  /\ UNCHANGED focus
  /\ \/ focus = "gateway" /\ Next /\ UNCHANGED supervisorVars
     \/ focus = "supervisor" /\ Sup!Next /\ UNCHANGED vars

\* The fairness of Gateway and of Supervisor.
MCSpec ==
  /\ MCInit /\ [][MCNext]_allVars
  /\ \A w \in Worker : WF_vars(focus = "gateway" /\ WorkerThread(w))
  /\ WF_vars(focus = "gateway" /\ HandleResponse)
  /\ WF_vars(focus = "gateway" /\ (DrainEnd \/ \E drop \in BOOLEAN : DrainResponse(drop)))
  /\ WF_vars(/\ focus = "gateway"
             /\ \E idle \in SUBSET {s \in Slot : conn[s] # NoConn} : ReapClient(idle))
  /\ WF_vars(focus = "gateway" /\ (ShutdownQueue \/ SignalStop))
  /\ WF_vars(focus = "gateway" /\ (RunCheck \/ RunCleanup))
  /\ WF_supervisorVars(focus = "supervisor" /\ Sup!Supervise)
  /\ WF_supervisorVars(focus = "supervisor" /\ (Sup!ChildExec \/ Sup!ChildZombie))

\* What kill() may hit is there (stated in module Supervisor for the loop around pselect).
KillFindsItsTarget == Sup!KillFindsItsTarget

\* A worker watched for ever prints for ever (stated in module Supervisor for the timeout of pselect).
TimeoutEnforced == Sup!TimeoutEnforced

\* SIGINT and SIGTERM end the supervisor (stated in module Supervisor for its signal handler).
TermEnds == Sup!TermEnds
=============================================================================
