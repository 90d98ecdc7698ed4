---------------------------- MODULE PosixGateway ----------------------------
(***************************************************************************)
(* The shutdown of the three programs of gateway-core-posix: controller,    *)
(* monitor and sensor.  Each has a main thread, a sig_thread and a worker   *)
(* thread; they share the POSIX message queue and shared memory.  Commands  *)
(* other than SHUTDOWN are "DATA"; what they do to the ring is module       *)
(* PosixRing.                                                               *)
(***************************************************************************)
EXTENDS Naturals, Sequences

CONSTANTS MAX_MSQ,    \* capacity of the message queue
          MaxMsg,     \* bound: commands the controller sends
          Program     \* the programs that are started

ASSUME PosixGatewayAssumption ==
  /\ MAX_MSQ \in Nat \ {0} /\ MaxMsg \in Nat
  /\ Program \subseteq {"controller", "monitor", "sensor"} /\ "sensor" \in Program

VARIABLES
  mq,             \* the queue, next message first
  shutdown_flag,  \* in shared memory
  pending,        \* programs with a pending SIGINT or SIGTERM
  is_running,     \* cfg->is_running of each program
  sig,            \* sig_thread: "wait", "stop", "flag", "send", "poll", "close", "exit"
  work,           \* the worker thread
  main,           \* "wait" or "exit"
  attached,       \* the program has its queue open and its memory mapped
  faulted,        \* a thread used memory that was unmapped
  nmsg

vars == <<mq, shutdown_flag, pending, is_running, sig, work, main, attached, faulted, nmsg>>

TypeOK ==
  /\ mq \in Seq({"DATA", "SHUTDOWN"}) /\ Len(mq) <= MAX_MSQ
  /\ shutdown_flag \in {0, 1}
  /\ pending \in SUBSET Program
  /\ is_running \in [Program -> BOOLEAN]
  /\ sig \in [Program -> {"wait", "stop", "flag", "send", "poll", "close", "exit"}]
  /\ work \in [Program -> {"test", "call", "blocked", "flag", "drain", "exit"}]
  /\ main \in [Program -> {"wait", "exit"}]
  /\ attached \in SUBSET Program
  /\ faulted \in SUBSET Program
  /\ nmsg \in 0..MaxMsg

Init ==
  /\ mq = <<>> /\ shutdown_flag = 0 /\ pending = {}
  /\ is_running = [p \in Program |-> TRUE]
  /\ sig = [p \in Program |-> "wait"]
  /\ work = [p \in Program |-> "test"]
  /\ main = [p \in Program |-> "wait"]
  /\ attached = Program /\ faulted = {} /\ nmsg = 0

SigGoto(p, l) == sig' = [sig EXCEPT ![p] = l]
WorkGoto(p, l) == work' = [work EXCEPT ![p] = l]

\* mq_send(): a message of HIGH_PRI goes before those of MID_PRI.
Insert(m) ==
  IF m = "DATA" THEN Append(mq, m)
  ELSE LET high == SelectSeq(mq, LAMBDA x : x = "SHUTDOWN")
       IN  high \o <<m>> \o SelectSeq(mq, LAMBDA x : x = "DATA")
-----------------------------------------------------------------------------
(* sig_thread *)

\* sigwaitinfo()
SigTake(p) ==
  /\ sig[p] = "wait" /\ p \in pending
  /\ pending' = pending \ {p}
  /\ SigGoto(p, "stop")
  /\ UNCHANGED <<mq, shutdown_flag, is_running, work, main, attached, faulted, nmsg>>

\* is_running is reset under cfg->mutex and main is signalled.
SigStop(p) ==
  /\ sig[p] = "stop"
  /\ is_running' = [is_running EXCEPT ![p] = FALSE]
  /\ SigGoto(p, "flag")
  /\ UNCHANGED <<mq, shutdown_flag, pending, work, main, attached, faulted, nmsg>>

\* shutdown_flag is set under the mutex of the shared memory.
SigFlag(p) ==
  /\ sig[p] = "flag"
  /\ shutdown_flag' = 1
  /\ SigGoto(p, IF p = "sensor" THEN "exit" ELSE "send")
  /\ UNCHANGED <<mq, pending, is_running, work, main, attached, faulted, nmsg>>

\* send_to_queue(SHUTDOWN): the controller gives up after a timeout of 3 s,
\* the monitor blocks as long as the queue is full.
SigSend(p) ==
  /\ sig[p] = "send"
  /\ \/ Len(mq) < MAX_MSQ /\ mq' = Insert("SHUTDOWN")
     \/ Len(mq) = MAX_MSQ /\ p = "controller" /\ mq' = mq
  /\ SigGoto(p, "poll")
  /\ UNCHANGED <<shutdown_flag, pending, is_running, work, main, attached, faulted, nmsg>>

\* Mutant: the wait for an empty queue has no limit.
SigPollForever(p) ==
  /\ sig[p] = "poll" /\ mq = <<>>
  /\ SigGoto(p, "close")
  /\ UNCHANGED <<mq, shutdown_flag, pending, is_running, work, main, attached, faulted, nmsg>>

\* Ten looks at mq_curmsgs, a second apart: the loop ends at an empty queue or
\* when they are used up.
SigPoll(p) ==
  /\ sig[p] = "poll"
  /\ SigGoto(p, "close")
  /\ UNCHANGED <<mq, shutdown_flag, pending, is_running, work, main, attached, faulted, nmsg>>

\* shutdown_ipc() of controller and monitor, on sig_thread.
SigClose(p) ==
  /\ sig[p] = "close"
  /\ attached' = attached \ {p}
  /\ SigGoto(p, "exit")
  /\ UNCHANGED <<mq, shutdown_flag, pending, is_running, work, main, faulted, nmsg>>

SigStep(p) ==
  SigTake(p) \/ SigStop(p) \/ SigFlag(p) \/ SigSend(p) \/ SigPoll(p) \/ SigClose(p)
-----------------------------------------------------------------------------
(* The worker threads *)

\* Each loop begins with a test of is_running.
WorkTest(p) ==
  /\ work[p] = "test"
  /\ WorkGoto(p, IF is_running[p] THEN "call" ELSE IF p = "sensor" THEN "flag" ELSE "exit")
  /\ UNCHANGED <<mq, shutdown_flag, pending, is_running, sig, main, attached, faulted, nmsg>>

\* message_thread of the controller: mq_send without a timeout, which fails at
\* once on a closed queue, and does not return while an open one is full.
ControllerSend ==
  LET c == "controller" IN
  /\ \/ /\ work[c] = "call" /\ c \notin attached
        /\ WorkGoto(c, "test") /\ UNCHANGED <<mq, nmsg>>
     \/ /\ work[c] = "call" /\ c \in attached /\ Len(mq) = MAX_MSQ /\ nmsg < MaxMsg
        /\ WorkGoto(c, "blocked") /\ UNCHANGED <<mq, nmsg>>
     \/ /\ work[c] = "blocked" \/ (work[c] = "call" /\ c \in attached)
        /\ Len(mq) < MAX_MSQ /\ nmsg < MaxMsg
        /\ mq' = Insert("DATA") /\ nmsg' = nmsg + 1
        /\ WorkGoto(c, "test")
  /\ UNCHANGED <<shutdown_flag, pending, is_running, sig, main, attached, faulted>>

\* The bound: no more commands, the thread only sleeps.
ControllerIdle ==
  /\ work["controller"] = "call" /\ nmsg = MaxMsg
  /\ WorkGoto("controller", "test")
  /\ UNCHANGED <<mq, shutdown_flag, pending, is_running, sig, main, attached, faulted, nmsg>>

\* monitor_thread reads the shared memory under its mutex.
MonitorRead ==
  /\ work["monitor"] = "call" /\ "monitor" \in attached
  /\ WorkGoto("monitor", "test")
  /\ UNCHANGED <<mq, shutdown_flag, pending, is_running, sig, main, attached, faulted, nmsg>>

\* The same read after its sig_thread unmapped the memory kills the process.
MonitorFault ==
  /\ work["monitor"] = "call" /\ "monitor" \notin attached
  /\ faulted' = faulted \cup {"monitor"}
  /\ WorkGoto("monitor", "exit") /\ SigGoto("monitor", "exit")
  /\ main' = [main EXCEPT !["monitor"] = "exit"]
  /\ UNCHANGED <<mq, shutdown_flag, pending, is_running, attached, nmsg>>

\* command_handling(): SHUTDOWN sends SIGTERM to the own process, the others
\* use the shared memory.
Handle(m) ==
  /\ pending' = IF m = "SHUTDOWN" THEN pending \cup {"sensor"} ELSE pending
  /\ faulted' = IF m = "DATA" /\ "sensor" \notin attached
                  THEN faulted \cup {"sensor"} ELSE faulted

\* message_thread of the sensor: a message, or a timeout of 1 s.
SensorReceive ==
  /\ work["sensor"] = "call"
  /\ \/ mq # <<>> /\ Handle(Head(mq)) /\ mq' = Tail(mq)
     \/ mq = <<>> /\ UNCHANGED <<mq, pending, faulted>>
  /\ WorkGoto("sensor", "test")
  /\ UNCHANGED <<shutdown_flag, is_running, sig, main, attached, nmsg>>

\* need_drain
SensorFlag ==
  /\ work["sensor"] = "flag"
  /\ WorkGoto("sensor", IF shutdown_flag = 1 THEN "drain" ELSE "exit")
  /\ UNCHANGED <<mq, shutdown_flag, pending, is_running, sig, main, attached, faulted, nmsg>>

\* Mutant: one message is taken for all.
SensorDrainOne ==
  /\ work["sensor"] = "drain"
  /\ \/ mq # <<>> /\ Handle(Head(mq)) /\ mq' = Tail(mq)
     \/ mq = <<>> /\ UNCHANGED <<mq, pending, faulted>>
  /\ WorkGoto("sensor", "exit")
  /\ UNCHANGED <<shutdown_flag, is_running, sig, main, attached, nmsg>>

\* drain_mq()
SensorDrain ==
  /\ work["sensor"] = "drain"
  /\ \/ mq # <<>> /\ Handle(Head(mq)) /\ mq' = Tail(mq) /\ work' = work
     \/ mq = <<>> /\ WorkGoto("sensor", "exit") /\ UNCHANGED <<mq, pending, faulted>>
  /\ UNCHANGED <<shutdown_flag, is_running, sig, main, attached, nmsg>>

ControllerStep == ControllerSend \/ ControllerIdle
SensorStep == SensorReceive \/ SensorFlag \/ SensorDrain
-----------------------------------------------------------------------------
(* main of each program *)

\* main sleeps on shutdown_cond while is_running, and then joins both threads;
\* the sensor calls shutdown_ipc() here.
MainJoin(p) ==
  /\ main[p] = "wait" /\ ~is_running[p]
  /\ sig[p] = "exit" /\ work[p] = "exit"
  /\ main' = [main EXCEPT ![p] = "exit"]
  /\ attached' = attached \ {p}
  /\ UNCHANGED <<mq, shutdown_flag, pending, is_running, sig, work, faulted, nmsg>>

\* SIGINT or SIGTERM from outside.
Signal(p) ==
  /\ p \notin pending /\ sig[p] = "wait"
  /\ pending' = pending \cup {p}
  /\ UNCHANGED <<mq, shutdown_flag, is_running, sig, work, main, attached, faulted, nmsg>>

WorkStep(p) ==
  \/ WorkTest(p)
  \/ p = "controller" /\ ControllerStep
  \/ p = "monitor" /\ (MonitorRead \/ MonitorFault)
  \/ p = "sensor" /\ SensorStep

Next ==
  \E p \in Program : SigStep(p) \/ WorkStep(p) \/ MainJoin(p) \/ Signal(p)

Spec == Init /\ [][Next]_vars

\* Every thread is scheduled; a signal from outside need not come.
FairSpec ==
  /\ Spec
  /\ \A p \in Program : WF_vars(SigStep(p)) /\ WF_vars(WorkStep(p)) /\ WF_vars(MainJoin(p))
-----------------------------------------------------------------------------
(***************************************************************************)
(* README, "Usage": "Any pending messages in the queue are drained before   *)
(* resources are released".  The sensor's message_thread leaves with an     *)
(* empty queue, unless it reads shutdown_flag when its sig_thread has reset *)
(* is_running and not yet set the flag, under another mutex.  And what it   *)
(* drains is handled while the shared memory is still mapped.               *)
(***************************************************************************)
DrainedUnlessRaced ==
  [][/\ "sensor" \notin faulted'
     /\ work["sensor"] # "exit" /\ work'["sensor"] = "exit"
          => mq = <<>> \/ (work["sensor"] = "flag" /\ sig["sensor"] = "flag")]_vars

(***************************************************************************)
(* README, "Usage": "Press `Ctrl+C` on either program to trigger a graceful *)
(* shutdown".  A signal ends the controller, also when the sensor is gone   *)
(* and commands are left in the queue.  The exception is a full queue that  *)
(* nobody reads any more: message_thread sends without a timeout.  And a    *)
(* SHUTDOWN message that controller or monitor put into the queue stops the *)
(* sensor, through command_handling, the signal and its sig_thread.         *)
(***************************************************************************)
ShutdownEnds ==
  /\ ("controller" \in pending)
       ~> (main["controller"] = "exit" \/ (Len(mq) = MAX_MSQ /\ work["sensor"] = "exit"))
  /\ (\E i \in DOMAIN mq : mq[i] = "SHUTDOWN") ~> (main["sensor"] = "exit")
=============================================================================
