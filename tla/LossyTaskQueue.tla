--------------------------- MODULE LossyTaskQueue ---------------------------
(***************************************************************************)
(* What the gateway's task queue (gateway/src/queue.c) does, seen from its  *)
(* two users: the main thread that pushes and the workers that pop.         *)
(*                                                                         *)
(* push() links a new task behind queue->tail but never advances           *)
(* queue->tail, so the list reachable from queue->head has at most two      *)
(* tasks: the one that was pushed on the empty queue and the last one       *)
(* pushed after it.  Once that first task is popped, queue->tail points to  *)
(* a task that a worker owns or has freed (stale), and what is pushed then  *)
(* is not linked at all.  queue->size counts every push, so it may stay     *)
(* positive with an empty list; the next pop() dereferences a NULL head.    *)
(* Module TaskQueue has the pointers, and implements this one.              *)
(***************************************************************************)
EXTENDS Naturals, Sequences

CONSTANTS Task,        \* the tasks that may be pushed
          Worker,      \* the worker threads
          max_size,    \* TASK_QUEUE_MAX
          NULL         \* no task

VARIABLES q,        \* the tasks reachable from queue->head, oldest first
          stale,    \* queue->tail points to a task that was popped already
          size,     \* queue->size
          shutdown, \* queue->shutdown
          pc,       \* where each worker is: "pop", "wait", "busy" or "exit"
          job,      \* the task each busy worker holds
          crashed   \* the process died of an invalid memory access

queueVars == <<q, stale, size, shutdown, pc, job, crashed>>

TypeOK ==
  /\ q \in Seq(Task)
  /\ Len(q) <= 2
  /\ stale \in BOOLEAN
  /\ size \in 0..max_size
  /\ shutdown \in BOOLEAN
  /\ pc \in [Worker -> {"pop", "wait", "busy", "exit"}]
  /\ job \in [Worker -> Task \cup {NULL}]
  /\ crashed \in BOOLEAN

Init ==
  /\ q = <<>>
  /\ stale = FALSE
  /\ size = 0
  /\ shutdown = FALSE
  /\ pc = [w \in Worker |-> "pop"]
  /\ job = [w \in Worker |-> NULL]
  /\ crashed = FALSE

(***************************************************************************)
(* pthread_cond_signal(&queue->not_empty): one waiter, if there is one,     *)
(* goes back to the test of pop()'s while loop.                             *)
(***************************************************************************)
SignalNotEmpty ==
  IF \E w \in Worker : pc[w] = "wait"
    THEN \E w \in Worker : pc[w] = "wait" /\ pc' = [pc EXCEPT ![w] = "pop"]
    ELSE pc' = pc

\* The list after push(t): the task that heads it stays, what was behind it is
\* unlinked.
Linked(t) ==
  IF q = <<>> THEN <<t>>
  ELSE IF stale THEN q
  ELSE <<Head(q), t>>

\* push() that returns 0.  The write through a stale tail goes to memory of a
\* task that is held or freed: it has no effect on the list, or it is fatal.
Push(t) ==
  /\ ~crashed /\ ~shutdown /\ size < max_size
  /\ q' = Linked(t)
  /\ size' = size + 1
  /\ crashed' \in IF stale THEN BOOLEAN ELSE {FALSE}
  /\ SignalNotEmpty
  /\ UNCHANGED <<stale, shutdown, job>>

\* pop(): size == 0 and no shutdown, the worker sleeps on not_empty.
PopWait(w) ==
  /\ ~crashed /\ pc[w] = "pop"
  /\ size = 0 /\ ~shutdown
  /\ pc' = [pc EXCEPT ![w] = "wait"]
  /\ UNCHANGED <<q, stale, size, shutdown, job, crashed>>

\* pop() returns NULL, and worker_thread leaves its loop.
PopExit(w) ==
  /\ ~crashed /\ pc[w] = "pop"
  /\ size = 0 /\ shutdown
  /\ pc' = [pc EXCEPT ![w] = "exit"]
  /\ UNCHANGED <<q, stale, size, shutdown, job, crashed>>

\* pop() returns the task at the head.  The tail is left behind when another
\* task follows.
PopTask(w) ==
  /\ ~crashed /\ pc[w] = "pop"
  /\ size > 0 /\ q # <<>>
  /\ job' = [job EXCEPT ![w] = Head(q)]
  /\ q' = Tail(q)
  /\ stale' = (Len(q) = 2)
  /\ size' = size - 1
  /\ pc' = [pc EXCEPT ![w] = "busy"]
  /\ UNCHANGED <<shutdown, crashed>>

\* pop() reads queue->head->next_task with queue->head == NULL.
PopNull(w) ==
  /\ ~crashed /\ pc[w] = "pop"
  /\ size > 0 /\ q = <<>>
  /\ crashed' = TRUE
  /\ UNCHANGED <<q, stale, size, shutdown, pc, job>>

\* free(t) at the end of the worker's iteration.
FreeTask(w) ==
  /\ ~crashed /\ pc[w] = "busy"
  /\ pc' = [pc EXCEPT ![w] = "pop"]
  /\ job' = [job EXCEPT ![w] = NULL]
  /\ UNCHANGED <<q, stale, size, shutdown, crashed>>

\* pthread_cond_wait may return with no signal.
SpuriousWakeup(w) ==
  /\ ~crashed /\ pc[w] = "wait"
  /\ pc' = [pc EXCEPT ![w] = "pop"]
  /\ UNCHANGED <<q, stale, size, shutdown, job, crashed>>

\* task_queue_shutdown(): the flag and the broadcast under the queue's lock.
TaskQueueShutdown ==
  /\ ~crashed /\ ~shutdown
  /\ shutdown' = TRUE
  /\ pc' = [w \in Worker |-> IF pc[w] = "wait" THEN "pop" ELSE pc[w]]
  /\ UNCHANGED <<q, stale, size, job, crashed>>

Next ==
  \/ \E t \in Task : Push(t)
  \/ \E w \in Worker : \/ PopWait(w) \/ PopExit(w) \/ PopTask(w)
                       \/ PopNull(w) \/ FreeTask(w) \/ SpuriousWakeup(w)
  \/ TaskQueueShutdown

Spec == Init /\ [][Next]_queueVars
=============================================================================
