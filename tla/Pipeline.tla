------------------------------ MODULE Pipeline ------------------------------
(***************************************************************************)
(* ipc-cmd-pipeline: controller, worker and logger, three processes joined  *)
(* by three FIFOs.  The controller numbers its commands, writes each to the *)
(* command FIFO and waits for its number on the ack FIFO; the worker's      *)
(* receiver acknowledges a command and leaves it in one slot for the        *)
(* worker's second thread, which writes a record to the log FIFO.           *)
(*                                                                         *)
(* Every process opens its FIFOs for reading and writing: there is no end   *)
(* of file and no SIGPIPE, and a descriptor is bad only when main did not   *)
(* make the FIFO.  A command is its number.                                 *)
(***************************************************************************)
EXTENDS Naturals, Sequences, FiniteSets

CONSTANTS RESEND_NUM,
          FIFO_CAP,       \* packets a FIFO holds
          MaxPkt,         \* bound: commands
          Leftover,       \* FIFOs that an earlier run may have left
          MkfifoFails,    \* FIFOs for which mkfifo() may fail
          UninitFlag,     \* what ack_received and has_new_data may hold at the start
          UninitNum,      \* what ack_send may hold at the start
          WorkerMayDie

FIFO == <<"cmd", "log", "ack">>
FifoName == {"cmd", "log", "ack"}
Pkt == 1..MaxPkt
Garbage == 0              \* the number in the worker's slot before the first command

\* The code has 3 transmissions.  With one, what ack_send held at the start could confirm the
\* second command; the second wait of the first one ends only with an ack or a stop.
ASSUME PipelineAssumption ==
  /\ RESEND_NUM \in Nat \ {0, 1} /\ FIFO_CAP \in Nat \ {0} /\ MaxPkt \in Nat
  /\ Leftover \subseteq SUBSET FifoName /\ MkfifoFails \subseteq FifoName
  /\ UninitFlag \subseteq BOOLEAN /\ UninitNum \subseteq Nat /\ WorkerMayDie \in BOOLEAN

VARIABLES
  fifo,                             \* the FIFOs there are
  cmdq, ackq, logq, logoff,         \* their contents; bytes read of the first log record
  (* the controller *)
  spc, try_resend,                  \* send_cmd
  apc,                              \* recv_ack_thread
  last_send, ack_send, ack_received, c_running,
  (* the worker *)
  alive,
  rpc, rpkt,                        \* recv_data_thread
  wpc, wpkt,                        \* worker_thread
  data, has_new_data, w_running,
  (* the logger and main *)
  lpc, mpc,
  (* history *)
  attempts, acked, confirmed, executed

pipes == <<cmdq, ackq, logq, logoff>>
controller == <<spc, try_resend, apc, last_send, ack_send, ack_received, c_running>>
worker == <<alive, rpc, rpkt, wpc, wpkt, data, has_new_data, w_running>>
history == <<attempts, acked, confirmed, executed>>
vars == <<fifo, pipes, controller, worker, lpc, mpc, history>>

TypeOK ==
  /\ fifo \subseteq FifoName
  /\ cmdq \in Seq(Pkt) /\ Len(cmdq) <= FIFO_CAP
  /\ ackq \in Seq(Pkt) /\ Len(ackq) <= FIFO_CAP
  /\ logq \in Seq(Pkt \union {Garbage}) /\ Len(logq) <= FIFO_CAP
  /\ logoff \in Nat /\ (logq = <<>> => logoff = 0)
  /\ spc \in {"start", "next", "write", "wait", "settle", "done"}
  /\ try_resend \in 0..RESEND_NUM
  /\ apc \in {"read", "done"}
  /\ last_send \in 0..MaxPkt /\ ack_send \in Nat
  /\ ack_received \in BOOLEAN /\ c_running \in BOOLEAN /\ alive \in BOOLEAN
  /\ rpc \in {"read", "ack", "store", "signal", "done"} /\ rpkt \in Pkt \union {Garbage}
  /\ wpc \in {"start", "check", "asleep", "task", "done"} /\ wpkt \in Pkt \union {Garbage}
  /\ data \in Pkt \union {Garbage} /\ has_new_data \in BOOLEAN /\ w_running \in BOOLEAN
  /\ lpc \in {"read", "done"} /\ mpc \in {"wait", "exit"}
  /\ attempts \in [Pkt -> 0..RESEND_NUM] /\ acked \subseteq Pkt /\ confirmed \subseteq Pkt
  /\ executed \in Seq(Pkt \union {Garbage})

\* The FIFOs after create_fifo: it makes them in order and returns at the first that exists
\* already or cannot be made, and main ignores what it returns.
create_fifo(left, fails) ==
  left \union {FIFO[i] : i \in {j \in 1..3 : \A k \in 1..j : FIFO[k] \notin left \union fails}}

Init ==
  /\ \E left \in Leftover, fails \in SUBSET MkfifoFails : fifo = create_fifo(left, fails)
  /\ cmdq = <<>> /\ ackq = <<>> /\ logq = <<>> /\ logoff = 0
  /\ spc = "start" /\ try_resend = 0 /\ apc = "read"
  /\ last_send = 0 /\ ack_send \in UninitNum /\ ack_received \in UninitFlag
  /\ c_running = TRUE
  /\ alive = TRUE /\ rpc = "read" /\ rpkt = Garbage /\ wpc = "start" /\ wpkt = Garbage
  /\ data = Garbage /\ has_new_data \in UninitFlag /\ w_running = TRUE
  /\ lpc = "read" /\ mpc = "wait"
  /\ attempts = [n \in Pkt |-> 0] /\ acked = {} /\ confirmed = {} /\ executed = <<>>
-----------------------------------------------------------------------------
(* The controller *)

CtlUnchanged == UNCHANGED <<fifo, logq, logoff, worker, lpc, mpc, acked, executed>>

CtlStart ==
  /\ spc = "start"
  /\ spc' = IF c_running THEN "next" ELSE "done"
  /\ CtlUnchanged
  /\ UNCHANGED <<cmdq, ackq, try_resend, apc, last_send, ack_send, ack_received, c_running,
                 attempts, confirmed>>

\* sleep_random(): the next command may be any time away, and MaxPkt bounds their number.
CtlSleep ==
  /\ spc = "next"
  /\ UNCHANGED vars

\* A new command gets the next number.
CtlNext ==
  /\ spc = "next" /\ last_send < MaxPkt
  /\ last_send' = last_send + 1
  /\ try_resend' = 0
  /\ spc' = "write"
  /\ CtlUnchanged
  /\ UNCHANGED <<cmdq, ackq, apc, ack_send, ack_received, c_running, attempts, confirmed>>

\* write() blocks while the FIFO is full; its failure is only reported.
CtlWrite ==
  /\ spc = "write"
  /\ IF "cmd" \in fifo
     THEN Len(cmdq) < FIFO_CAP /\ cmdq' = Append(cmdq, last_send)
     ELSE UNCHANGED cmdq
  /\ try_resend' = try_resend + 1
  /\ attempts' = [attempts EXCEPT ![last_send] = @ + 1]
  /\ spc' = "wait"
  /\ CtlUnchanged
  /\ UNCHANGED <<ackq, apc, last_send, ack_send, ack_received, c_running, confirmed>>

\* pthread_cond_timedwait returns at its deadline, but wait_ret keeps its 0 and the loop
\* waits again.
CtlTimeout ==
  /\ spc = "wait" /\ ~ack_received /\ c_running
  /\ UNCHANGED vars

\* As if any ack would do.
CtlWaitAny ==
  /\ spc = "wait" /\ (ack_received \/ ~c_running)
  /\ ack_received' = FALSE
  /\ confirmed' = confirmed \union {last_send}
  /\ spc' = "settle"
  /\ CtlUnchanged
  /\ UNCHANGED <<cmdq, ackq, try_resend, apc, last_send, ack_send, c_running, attempts>>

\* The flag is seen: the right number ends the command, another one sends it again.
CtlWait ==
  /\ spc = "wait" /\ (ack_received \/ ~c_running)
  /\ ack_received' = FALSE
  /\ IF last_send = ack_send
     THEN confirmed' = confirmed \union {last_send} /\ spc' = "settle"
     ELSE /\ spc' = IF try_resend < RESEND_NUM THEN "write" ELSE "settle"
          /\ UNCHANGED confirmed
  /\ CtlUnchanged
  /\ UNCHANGED <<cmdq, ackq, try_resend, apc, last_send, ack_send, c_running, attempts>>

CtlSettle ==
  /\ spc = "settle"
  /\ spc' = IF c_running THEN "next" ELSE "done"
  /\ CtlUnchanged
  /\ UNCHANGED <<cmdq, ackq, try_resend, apc, last_send, ack_send, ack_received, c_running,
                 attempts, confirmed>>

\* As if a failing read() ended the thread only.
AckReadNoStop ==
  /\ apc = "read"
  /\ IF "ack" \in fifo
     THEN /\ ackq # <<>>
          /\ ackq' = Tail(ackq)
          /\ ack_send' = Head(ackq)
          /\ ack_received' = TRUE
          /\ UNCHANGED apc
     ELSE /\ apc' = "done"
          /\ UNCHANGED <<ackq, ack_send, ack_received>>
  /\ CtlUnchanged
  /\ UNCHANGED <<cmdq, spc, try_resend, last_send, c_running, attempts, confirmed>>

\* recv_ack_thread: an ack is noted; read() fails on a bad descriptor, and that stops the
\* controller.
AckRead ==
  /\ apc = "read"
  /\ IF "ack" \in fifo
     THEN /\ ackq # <<>>
          /\ ackq' = Tail(ackq)
          /\ ack_send' = Head(ackq)
          /\ ack_received' = TRUE
          /\ UNCHANGED <<apc, c_running>>
     ELSE /\ c_running' = FALSE
          /\ apc' = "done"
          /\ UNCHANGED <<ackq, ack_send, ack_received>>
  /\ CtlUnchanged
  /\ UNCHANGED <<cmdq, spc, try_resend, last_send, attempts, confirmed>>
-----------------------------------------------------------------------------
(* The worker *)

WorkUnchanged == UNCHANGED <<fifo, controller, lpc, mpc, attempts, confirmed>>

Wake(pc) == IF pc = "asleep" THEN "check" ELSE pc

\* recv_data_thread reads a command; a bad descriptor stops the worker.
RecvRead ==
  /\ alive /\ rpc = "read"
  /\ IF "cmd" \in fifo
     THEN /\ cmdq # <<>>
          /\ rpkt' = Head(cmdq) /\ cmdq' = Tail(cmdq)
          /\ rpc' = "ack"
          /\ UNCHANGED <<w_running, wpc>>
     ELSE /\ w_running' = FALSE /\ wpc' = Wake(wpc)
          /\ rpc' = "done"
          /\ UNCHANGED <<rpkt, cmdq>>
  /\ WorkUnchanged
  /\ UNCHANGED <<ackq, logq, logoff, alive, wpkt, data, has_new_data, acked, executed>>

\* The ack goes out before the command is stored; when it cannot, the command is dropped.
RecvAck ==
  /\ alive /\ rpc = "ack"
  /\ IF "ack" \in fifo
     THEN /\ Len(ackq) < FIFO_CAP
          /\ ackq' = Append(ackq, rpkt) /\ acked' = acked \union {rpkt}
          /\ rpc' = "store"
     ELSE /\ rpc' = "read"
          /\ UNCHANGED <<ackq, acked>>
  /\ WorkUnchanged
  /\ UNCHANGED <<cmdq, logq, logoff, alive, rpkt, wpc, wpkt, data, has_new_data, w_running,
                 executed>>

\* The slot takes the command, whether or not the last one has been taken from it.
RecvStore ==
  /\ alive /\ rpc = "store"
  /\ data' = rpkt /\ has_new_data' = TRUE
  /\ rpc' = "signal"
  /\ WorkUnchanged
  /\ UNCHANGED <<pipes, alive, rpkt, wpc, wpkt, w_running, acked, executed>>

\* As if pthread_cond_signal were missing.
RecvSignalNot ==
  /\ alive /\ rpc = "signal"
  /\ rpc' = "read"
  /\ WorkUnchanged
  /\ UNCHANGED <<pipes, alive, rpkt, wpc, wpkt, data, has_new_data, w_running, acked, executed>>

RecvSignal ==
  /\ alive /\ rpc = "signal"
  /\ wpc' = Wake(wpc)
  /\ rpc' = "read"
  /\ WorkUnchanged
  /\ UNCHANGED <<pipes, alive, rpkt, wpkt, data, has_new_data, w_running, acked, executed>>

WorkStart ==
  /\ alive /\ wpc = "start"
  /\ wpc' = IF w_running THEN "check" ELSE "done"
  /\ WorkUnchanged
  /\ UNCHANGED <<pipes, alive, rpc, rpkt, wpkt, data, has_new_data, w_running, acked, executed>>

\* As if has_new_data were not reset.
WorkCheckAgain ==
  /\ alive /\ wpc = "check"
  /\ IF has_new_data
     THEN wpkt' = data /\ wpc' = "task"
     ELSE wpc' = (IF w_running THEN "asleep" ELSE "done") /\ UNCHANGED wpkt
  /\ WorkUnchanged
  /\ UNCHANGED <<pipes, alive, rpc, rpkt, data, has_new_data, w_running, acked, executed>>

\* Under the mutex: take what is in the slot, else sleep or end.
WorkCheck ==
  /\ alive /\ wpc = "check"
  /\ IF has_new_data
     THEN wpkt' = data /\ has_new_data' = FALSE /\ wpc' = "task"
     ELSE /\ wpc' = IF w_running THEN "asleep" ELSE "done"
          /\ UNCHANGED <<wpkt, has_new_data>>
  /\ WorkUnchanged
  /\ UNCHANGED <<pipes, alive, rpc, rpkt, data, w_running, acked, executed>>

\* The command's task writes one record to the log; what the slot held before the first
\* command may be no command at all.
WorkTask ==
  /\ alive /\ wpc = "task"
  /\ executed' = Append(executed, wpkt)
  /\ \/ /\ "log" \in fifo /\ Len(logq) < FIFO_CAP
        /\ logq' = Append(logq, wpkt)
     \/ /\ "log" \notin fifo \/ wpkt = Garbage
        /\ UNCHANGED logq
  /\ wpc' = "check"
  /\ WorkUnchanged
  /\ UNCHANGED <<cmdq, ackq, logoff, alive, rpc, rpkt, wpkt, data, has_new_data, w_running, acked>>

\* The worker is killed.
Die ==
  /\ WorkerMayDie /\ alive
  /\ alive' = FALSE
  /\ WorkUnchanged
  /\ UNCHANGED <<pipes, rpc, rpkt, wpc, wpkt, data, has_new_data, w_running, acked, executed>>
-----------------------------------------------------------------------------
(* The logger and main *)

RECORD == 20     \* sizeof(pri_data)
READ == 29       \* sizeof(buf) - 1

\* One read() takes READ bytes or what there is; printing stops at the NUL that ends the
\* first record in the buffer.  A read that starts inside a record prints only its rest.
LogRead ==
  /\ lpc = "read"
  /\ IF "log" \in fifo
     THEN /\ logq # <<>>
          /\ LET there == RECORD * Len(logq)
                 upto  == IF logoff + READ < there THEN logoff + READ ELSE there
             IN /\ logq' = SubSeq(logq, upto \div RECORD + 1, Len(logq))
                /\ logoff' = upto % RECORD
          /\ UNCHANGED lpc
     ELSE /\ lpc' = "done"
          /\ UNCHANGED <<logq, logoff>>
  /\ UNCHANGED <<fifo, cmdq, ackq, controller, worker, mpc, history>>

\* main has waited for all three and removes the FIFOs.
MainExit ==
  /\ mpc = "wait"
  /\ spc = "done" /\ apc = "done"
  /\ ~alive \/ (rpc = "done" /\ wpc = "done")
  /\ lpc = "done"
  /\ mpc' = "exit" /\ fifo' = {}
  /\ UNCHANGED <<pipes, controller, worker, lpc, history>>
-----------------------------------------------------------------------------
Controller == CtlStart \/ CtlNext \/ CtlWrite \/ CtlTimeout \/ CtlWait \/ CtlSettle
Receiver == RecvRead \/ RecvAck \/ RecvStore \/ RecvSignal
Work == WorkStart \/ WorkCheck \/ WorkTask

Next ==
  \/ CtlStart \/ CtlSleep \/ CtlNext \/ CtlWrite \/ CtlTimeout \/ CtlWait \/ CtlSettle
  \/ AckRead
  \/ RecvRead \/ RecvAck \/ RecvStore \/ RecvSignal
  \/ WorkStart \/ WorkCheck \/ WorkTask \/ Die
  \/ LogRead \/ MainExit

Spec == Init /\ [][Next]_vars

\* Every thread that can go on does.
FairSpec ==
  /\ Spec
  /\ WF_vars(Controller) /\ WF_vars(AckRead) /\ WF_vars(Receiver) /\ WF_vars(Work)
  /\ WF_vars(LogRead) /\ WF_vars(MainExit)
-----------------------------------------------------------------------------
(* Properties *)

Settled == {n \in Pkt : n < last_send \/ (n = last_send /\ spc \in {"settle", "next", "done"})}

Count(n) == Cardinality({i \in DOMAIN executed : executed[i] = n})

\* A command is left for the next one only when the worker acknowledged that very command,
\* or after RESEND_NUM transmissions (send_cmd's inner loop).  This holds from the second
\* command on, whatever the fields that are not initialised hold at the first.
AckBeforeNext ==
  \A n \in Settled \ {1} : IF n \in confirmed THEN n \in acked ELSE attempts[n] = RESEND_NUM

\* The worker runs commands in the order in which they were sent, none more often than it
\* was transmitted, and what its slot held at the start at most once and first
\* (has_new_data is reset with each take).
ExecutedAsSent ==
  /\ \A i, j \in DOMAIN executed : i < j => executed[i] <= executed[j]
  /\ \A n \in Pkt : Count(n) <= attempts[n]
  /\ Count(Garbage) <= 1

\* An acknowledged command stays in the slot until the worker thread has taken it
\* (recv_data_thread, worker_thread).
NeverOverwritten ==
  [][has_new_data => data' = data]_vars

\* Every read of the logger starts at the first byte of a record, so that it prints a whole
\* one (logger main).
LogAligned ==
  logoff = 0

\* The controller does not wait for one ack for ever while there is a worker that can get the
\* command: the ack comes, or the controller stops.  (The timeout does not end the wait.)
WaitEnds ==
  (spc = "wait") ~> (spc # "wait" \/ ~alive \/ "cmd" \notin fifo)

\* A command the receiver leaves in the slot wakes the worker thread and is taken: no wakeup is
\* lost between the check under the mutex and the signal after it.
StoredTaken ==
  (has_new_data /\ data # Garbage) ~> (~has_new_data \/ ~alive)
=============================================================================
