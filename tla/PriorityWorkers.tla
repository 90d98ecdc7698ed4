-------------------------- MODULE PriorityWorkers ---------------------------
(***************************************************************************)
(* The three priority queues of gatewayd (unix-domain-socket-control-plane) *)
(* and the worker threads that share them, one lock (queue_lock) and one    *)
(* condition variable (queue_wakeup).  A message_queue, a ring of CAPACITY  *)
(* tasks, is a sequence here.  Module Gatewayd composes these steps with the  *)
(* rest of the server.                                                      *)
(***************************************************************************)
EXTENDS Naturals, Sequences, FiniteSets

CONSTANTS Task,      \* what is queued
          Worker,    \* the worker threads
          Class,     \* the kind of each worker thread, a Priority
          CAPACITY,  \* capacity of each queue
          NULL       \* no task

Priority == {"HIGH", "MEDIUM", "LOW"}

VARIABLES queue,     \* high_, medium_ and low_priority_queue
          shutdown,  \* sv->shutdown
          sig,       \* sig_thread: "wait", "broadcast" or "exit"
          pc,        \* each worker: "check", "wait", "busy" or "exit"
          job        \* the task each busy worker processes

poolVars == <<queue, shutdown, sig, pc, job>>

TypeOK ==
  /\ queue \in [Priority -> Seq(Task)]
  /\ \A p \in Priority : Len(queue[p]) <= CAPACITY
  /\ shutdown \in BOOLEAN
  /\ sig \in {"wait", "broadcast", "exit"}
  /\ pc \in [Worker -> {"check", "wait", "busy", "exit"}]
  /\ job \in [Worker -> Task \cup {NULL}]

\* init_server()
Init ==
  /\ queue = [p \in Priority |-> <<>>]
  /\ shutdown = FALSE /\ sig = "wait"
  /\ pc = [w \in Worker |-> "check"]
  /\ job = [w \in Worker |-> NULL]

\* The tasks that are queued or processed.
Queued == UNION {{queue[p][i] : i \in DOMAIN queue[p]} : p \in Priority}
InFlight == Queued \cup {job[w] : w \in {v \in Worker : job[v] # NULL}}

\* all_queues_empty_locked()
AllEmpty == \A p \in Priority : queue[p] = <<>>

\* Mutant: try_enqueue_task() without pthread_cond_signal.
WakeNobody == pc' = pc

\* pthread_cond_signal(&sv->queue_wakeup): any one of the waiters.
WakeOne ==
  IF \E w \in Worker : pc[w] = "wait"
    THEN \E w \in Worker : pc[w] = "wait" /\ pc' = [pc EXCEPT ![w] = "check"]
    ELSE pc' = pc

\* try_enqueue_task() that returns true.
Enqueue(t, p) ==
  /\ ~shutdown /\ Len(queue[p]) < CAPACITY
  /\ queue' = [queue EXCEPT ![p] = Append(@, t)]
  /\ WakeOne
  /\ UNCHANGED <<shutdown, sig, job>>

\* try_enqueue_task() returns false.
Full(p) == shutdown \/ Len(queue[p]) >= CAPACITY

\* The queues a worker looks into, in this order.
Serves(w) ==
  CASE Class[w] = "HIGH"   -> <<"HIGH", "MEDIUM", "LOW">>
    [] Class[w] = "MEDIUM" -> <<"MEDIUM", "LOW">>
    [] Class[w] = "LOW"    -> <<"LOW">>

\* The loop on queue_wakeup: all queues are empty.
Sleep(w) ==
  /\ pc[w] = "check" /\ ~shutdown /\ AllEmpty
  /\ pc' = [pc EXCEPT ![w] = "wait"]
  /\ UNCHANGED <<queue, shutdown, sig, job>>

\* Shutdown: the worker leaves, whatever is queued.
Exit(w) ==
  /\ pc[w] = "check" /\ shutdown
  /\ pc' = [pc EXCEPT ![w] = "exit"]
  /\ UNCHANGED <<queue, shutdown, sig, job>>

\* try_dequeue_task_locked() on the queues the worker serves, in order.
Take(w) ==
  /\ pc[w] = "check" /\ ~shutdown
  /\ \E i \in DOMAIN Serves(w) :
       /\ queue[Serves(w)[i]] # <<>>
       /\ \A k \in 1..(i-1) : queue[Serves(w)[k]] = <<>>
       /\ job' = [job EXCEPT ![w] = Head(queue[Serves(w)[i]])]
       /\ queue' = [queue EXCEPT ![Serves(w)[i]] = Tail(@)]
  /\ pc' = [pc EXCEPT ![w] = "busy"]
  /\ UNCHANGED <<shutdown, sig>>

\* Only queues of other workers hold tasks: the worker tests again and again.
Spin(w) ==
  /\ pc[w] = "check" /\ ~shutdown /\ ~AllEmpty
  /\ \A i \in DOMAIN Serves(w) : queue[Serves(w)[i]] = <<>>
  /\ UNCHANGED poolVars

\* process_task() returns.
Finish(w) ==
  /\ pc[w] = "busy"
  /\ pc' = [pc EXCEPT ![w] = "check"]
  /\ job' = [job EXCEPT ![w] = NULL]
  /\ UNCHANGED <<queue, shutdown, sig>>

\* pthread_cond_wait may return with no signal.
SpuriousWakeup(w) ==
  /\ pc[w] = "wait"
  /\ pc' = [pc EXCEPT ![w] = "check"]
  /\ UNCHANGED <<queue, shutdown, sig, job>>

\* sig_thread on SIGINT or SIGTERM: shutdown is set under server_lock only.
SetShutdown ==
  /\ sig = "wait"
  /\ shutdown' = TRUE
  /\ sig' = "broadcast"
  /\ UNCHANGED <<queue, pc, job>>

\* Then the broadcast under queue_lock.
Broadcast ==
  /\ sig = "broadcast"
  /\ sig' = "exit"
  /\ pc' = [w \in Worker |-> IF pc[w] = "wait" THEN "check" ELSE pc[w]]
  /\ UNCHANGED <<queue, shutdown, job>>

-----------------------------------------------------------------------------
(***************************************************************************)
(* The workers never all sleep on queue_wakeup while a task is queued, even *)
(* though shutdown is set outside queue_lock and each task gives one signal.*)
(***************************************************************************)
SomeoneAwake == ~AllEmpty => \E w \in Worker : pc[w] # "wait"

(***************************************************************************)
(* README, section 5: the workers "wait on `pthread_cond_t queue_wakeup`,   *)
(* which wakes them when a new task arrives".  A HIGH task that waits is    *)
(* taken by a worker, unless the server shuts down.                         *)
(***************************************************************************)
HighTasksTaken ==
  \A t \in Task :
    LET Waits == \E i \in DOMAIN queue["HIGH"] : queue["HIGH"][i] = t
    IN  Waits ~> (~Waits \/ shutdown)
=============================================================================
