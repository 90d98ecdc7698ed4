----------------------------- MODULE Supervisor -----------------------------
(***************************************************************************)
(* process-supervisor: the loop that forks a worker, waits for it in        *)
(* pselect with a timeout, its output and signals, kills and reaps it, and  *)
(* starts it again.  All signals are blocked outside pselect, so each stays *)
(* pending until the next pselect that finds nothing to read.               *)
(*                                                                         *)
(* The worker and one process that it may start in its group are the        *)
(* environment.                                                             *)
(***************************************************************************)
EXTENDS Naturals, FiniteSets

CONSTANTS MaxRestart,  \* largest --restart
          Captures,    \* values of -c
          WorkerMay,   \* subset of {"stop", "close"}: get stopped, close its output
          PIPE_SIZE    \* pieces of output that the pipe holds

VARIABLES
  restart_val, kill_group, capture_out,   \* the options
  spc,           \* the supervisor: "loop", "parent", "select", "wait", "exit", "dead"
  restart_time, is_running,
  pending,       \* pending signals of the supervisor
  child,         \* "none", "forked", "running", "exiting" or "zombie"
  group,         \* the child is in a group of its own
  grandchild,    \* a process the child started is there
  orphan,        \* one of an earlier worker is
  open,          \* who of the two holds the write end of the pipe
  data           \* pieces of output in the pipe

options == <<restart_val, kill_group, capture_out>>
vars == <<options, spc, restart_time, is_running, pending, child, group, grandchild, orphan,
          open, data>>

TypeOK ==
  /\ restart_val \in 0..MaxRestart /\ kill_group \in BOOLEAN /\ capture_out \in Captures
  /\ spc \in {"loop", "parent", "select", "wait", "exit", "dead"}
  /\ restart_time \in 0 .. restart_val + 1
  /\ is_running \in BOOLEAN
  /\ pending \subseteq {"TERM", "HUP", "CHLD"}
  /\ child \in {"none", "forked", "running", "exiting", "zombie"}
  /\ group \in BOOLEAN /\ grandchild \in BOOLEAN /\ orphan \in BOOLEAN
  /\ open \subseteq {"child", "grandchild"} /\ data \in 0..PIPE_SIZE

Init ==
  /\ restart_val \in 0..MaxRestart /\ kill_group \in BOOLEAN /\ capture_out \in Captures
  /\ spc = "loop" /\ restart_time = 0 /\ is_running = TRUE /\ pending = {}
  /\ child = "none" /\ group = FALSE /\ grandchild = FALSE /\ orphan = FALSE
  /\ open = {} /\ data = 0
-----------------------------------------------------------------------------
(* The worker *)

ChildUnchanged == UNCHANGED <<options, spc, restart_time, is_running, orphan>>

\* setpgid(0, 0), and execvp(); when it fails the child exits.
ChildExec ==
  /\ child = "forked"
  /\ child' \in {"running", "exiting"}
  /\ open' = IF child' = "running" THEN open ELSE {}
  /\ group' = (group \/ kill_group)
  /\ UNCHANGED <<pending, grandchild, data>> /\ ChildUnchanged

\* The process that the worker starts inherits its standard output.
ChildFork ==
  /\ child = "running" /\ ~grandchild
  /\ grandchild' = TRUE
  /\ open' = IF open = {} THEN {} ELSE {"child", "grandchild"}
  /\ UNCHANGED <<pending, child, group, data>> /\ ChildUnchanged

\* One of the two prints, as often as it likes; a full pipe makes it wait.
ChildOutput ==
  /\ open # {} /\ child # "forked" /\ spc \in {"parent", "select"} /\ data < PIPE_SIZE
  /\ data' = data + 1
  /\ UNCHANGED <<pending, child, group, grandchild, open>> /\ ChildUnchanged

\* The worker closes its standard output and goes on.
ChildClose ==
  /\ "close" \in WorkerMay /\ child = "running" /\ "child" \in open
  /\ open' = open \ {"child"}
  /\ UNCHANGED <<pending, child, group, grandchild, data>> /\ ChildUnchanged

\* The worker is stopped or continued: SIGCHLD for the supervisor.
ChildStop ==
  /\ "stop" \in WorkerMay /\ child = "running"
  /\ pending' = pending \cup {"CHLD"}
  /\ UNCHANGED <<child, group, grandchild, open, data>> /\ ChildUnchanged

\* The worker exits or crashes; its files are closed before SIGCHLD is sent.
ChildExit ==
  /\ child = "running"
  /\ child' = "exiting" /\ open' = open \ {"child"}
  /\ UNCHANGED <<pending, group, grandchild, data>> /\ ChildUnchanged

ChildZombie ==
  /\ child = "exiting"
  /\ child' = "zombie" /\ pending' = pending \cup {"CHLD"}
  /\ UNCHANGED <<group, grandchild, open, data>> /\ ChildUnchanged

GrandchildExit ==
  /\ \/ grandchild /\ grandchild' = FALSE /\ open' = open \ {"grandchild"} /\ UNCHANGED orphan
     \/ orphan /\ orphan' = FALSE /\ UNCHANGED <<grandchild, open>>
  /\ UNCHANGED <<options, spc, restart_time, is_running, pending, child, group, data>>
-----------------------------------------------------------------------------
(* The supervisor *)

Goto(l) == spc' = l

\* fork() at the head of the loop.
Fork ==
  /\ spc = "loop" /\ restart_time <= restart_val /\ is_running
  /\ Goto("parent")
  /\ child' = "forked" /\ group' = FALSE
  /\ grandchild' = FALSE /\ orphan' = (orphan \/ grandchild)
  /\ open' = (IF capture_out THEN {"child"} ELSE {}) /\ data' = 0
  /\ UNCHANGED <<options, restart_time, is_running, pending>>

\* The loop ends, also when pipe() or fork() fails.
Leave ==
  /\ spc = "loop"
  /\ Goto("exit")
  /\ UNCHANGED <<options, restart_time, is_running, pending, child, group, grandchild, orphan,
                 open, data>>

\* Mutant: only the child calls setpgid().
ParentGroupNot ==
  /\ spc = "parent"
  /\ Goto("select")
  /\ UNCHANGED <<options, restart_time, is_running, pending, child, group, grandchild, orphan,
                 open, data>>

\* setpgid(pid, pid) of the parent: without effect after the child's execvp,
\* which comes after the child's own call.
ParentGroup ==
  /\ spc = "parent"
  /\ group' = (group \/ kill_group)
  /\ Goto("select")
  /\ UNCHANGED <<options, restart_time, is_running, pending, child, grandchild, orphan,
                 open, data>>

\* kill(kill_group ? -pid : pid, SIGKILL), which finds no group without setpgid.
KillChild ==
  LET hit == kill_group => group
      dies == hit /\ child \in {"forked", "running"}
      all == kill_group /\ group
  IN  /\ child' = IF dies THEN "exiting" ELSE child
      /\ open' = open \ ((IF dies THEN {"child"} ELSE {}) \cup (IF all THEN {"grandchild"} ELSE {}))
      /\ grandchild' = (grandchild /\ ~all)

\* The pipe has data, or no writer is left.
Readable == capture_out /\ (data > 0 \/ open = {})

\* pselect() finds the pipe readable: signals stay pending.
SelectData ==
  /\ spc = "select" /\ Readable /\ data > 0
  /\ data' = data - 1
  /\ UNCHANGED <<options, spc, restart_time, is_running, pending, child, group, grandchild, orphan,
                 open>>

SelectEnd ==
  /\ spc = "select" /\ Readable /\ data = 0
  /\ Goto("wait")
  /\ UNCHANGED <<options, restart_time, is_running, pending, child, group, grandchild, orphan,
                 open, data>>

\* Mutant: the SIGINT or SIGTERM does not kill the child.
SelectSignalKeep ==
  /\ spc = "select" /\ ~Readable /\ pending # {} /\ "HUP" \notin pending
  /\ pending' = {}
  /\ is_running' = (is_running /\ "TERM" \notin pending)
  /\ Goto("wait")
  /\ UNCHANGED <<options, restart_time, child, group, grandchild, orphan, open, data>>

\* pselect() is interrupted: all pending signals are handled; after SIGINT or
\* SIGTERM the child is killed.
SelectSignal ==
  /\ spc = "select" /\ ~Readable /\ pending # {} /\ "HUP" \notin pending
  /\ pending' = {}
  /\ is_running' = (is_running /\ "TERM" \notin pending)
  /\ IF is_running' THEN UNCHANGED <<child, open, grandchild>> ELSE KillChild
  /\ Goto("wait")
  /\ UNCHANGED <<options, restart_time, group, orphan, data>>

\* SIGHUP is blocked but has no handler: pselect() lets it end the supervisor.
SelectHup ==
  /\ spc = "select" /\ ~Readable /\ "HUP" \in pending
  /\ Goto("dead")
  /\ UNCHANGED <<options, restart_time, is_running, pending, child, group, grandchild, orphan,
                 open, data>>

\* Mutant: the timeout is only reported.
SelectTimeoutReport ==
  /\ spc = "select" /\ ~Readable /\ pending = {}
  /\ UNCHANGED vars

\* pselect() returns 0: the child is killed, and the loop goes on.
SelectTimeout ==
  /\ spc = "select" /\ ~Readable /\ pending = {}
  /\ KillChild
  /\ UNCHANGED <<options, spc, restart_time, is_running, pending, group, orphan, data>>

\* Without -c, FD_SET(fd[0]) sets a bit at an index that was never initialised:
\* it may hit nothing that matters, or end the supervisor.
SelectFault ==
  /\ spc = "select" /\ ~capture_out
  /\ Goto("dead")
  /\ UNCHANGED <<options, restart_time, is_running, pending, child, group, grandchild, orphan,
                 open, data>>

\* waitpid(), restart_time++ and the sleep before the next round.
Wait ==
  /\ spc = "wait" /\ child = "zombie"
  /\ child' = "none"
  /\ restart_time' = restart_time + 1
  /\ Goto("loop")
  /\ UNCHANGED <<options, is_running, pending, group, grandchild, orphan, open, data>>

\* A signal for the supervisor arrives.
Signal(s) ==
  /\ spc \notin {"exit", "dead"} /\ s \notin pending
  /\ pending' = pending \cup {s}
  /\ UNCHANGED <<child, group, grandchild, open, data>> /\ ChildUnchanged

Supervise ==
  \/ Fork \/ Leave \/ ParentGroup \/ SelectData \/ SelectEnd \/ SelectSignal
  \/ SelectHup \/ SelectTimeout \/ Wait

WorkerProcess ==
  \/ ChildExec \/ ChildFork \/ ChildOutput \/ ChildClose \/ ChildStop \/ ChildExit
  \/ ChildZombie \/ GrandchildExit

Ended == spc \in {"exit", "dead"} /\ UNCHANGED vars

Next ==
  \/ Supervise \/ SelectFault \/ WorkerProcess \/ (\E s \in {"TERM", "HUP"} : Signal(s))
  \/ Ended

Spec == Init /\ [][Next]_vars

\* The supervisor is scheduled, and so is a worker that starts or ends; what a
\* running worker does is up to it.
FairSpec == Spec /\ WF_vars(Supervise) /\ WF_vars(ChildExec \/ ChildZombie)
-----------------------------------------------------------------------------
(***************************************************************************)
(* Whenever pselect may lead to a kill, the pid is that of a worker not yet *)
(* reaped, and with -g its group exists: README, "Process Group Management",*)
(* both setpgid calls "guarantee the Process Group is fully established     *)
(* before a `kill(-pid, SIGKILL)` command is ever invoked".                 *)
(***************************************************************************)
KillFindsItsTarget ==
  spc = "select" => child # "none" /\ (kill_group => group)

(***************************************************************************)
(* A worker that the supervisor watches for ever is one that prints for     *)
(* ever (it, or the process it started): each other one ends, is killed by   *)
(* the timeout of pselect, or, stopped or with its output closed, brings the *)
(* supervisor early into waitpid, which has no timeout.                      *)
(***************************************************************************)
TimeoutEnforced ==
  <>[](child = "running" /\ spc = "select") => capture_out /\ []<>(data > 0)

(***************************************************************************)
(* A SIGINT or SIGTERM for the supervisor, at whatever step it arrives,     *)
(* ends it, and once the handler has reset is_running the worker is killed  *)
(* and reaped first, without exception.  Before that the supervisor may     *)
(* stay in waitpid, where the signal is blocked, for a worker that still    *)
(* runs, and at the pipe of a worker that never stops printing: a pselect   *)
(* that finds it readable leaves the signal pending.                        *)
(***************************************************************************)
TermEnds ==
  \/ []<>(data > 0 /\ is_running)
  \/ ("TERM" \in pending \/ ~is_running)
       ~> (spc \in {"exit", "dead"} \/ (spc = "wait" /\ child = "running" /\ is_running))

(***************************************************************************)
(* README, "Timeout Enforcer": the supervisor "immediately terminates the   *)
(* child process if it exceeds the specified execution time, preventing I/O *)
(* deadlocks or infinite hangs".  Each piece of output starts the timeout    *)
(* anew, so with -c a worker that goes on printing is never terminated.      *)
(***************************************************************************)
NoWorkerForEver == (child = "running") ~> (child # "running" \/ spc \in {"dead", "wait"})

(***************************************************************************)
(* README, "Process Group Kill (`-g`)": "Prevents orphan and zombie         *)
(* processes".  With -g nothing of the group outlives the supervisor.       *)
(***************************************************************************)
NoOrphans == spc = "exit" /\ kill_group => ~grandchild /\ ~orphan
=============================================================================
