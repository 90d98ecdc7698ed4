----------------------------- MODULE TaskQueue ------------------------------
(***************************************************************************)
(* The linked list of gateway/src/queue.c: queue->head, queue->tail and     *)
(* next_task as pointers to heap cells, push() by the main thread, pop() by *)
(* the workers of gateway/src/worker_thread.c.  A cell is the memory of one *)
(* struct task: malloc (build_task) takes a free one, free() returns it, so *)
(* a dangling pointer may point to a cell that is in use again.             *)
(***************************************************************************)
EXTENDS Naturals, FiniteSets

CONSTANTS Cell,      \* the memory cells malloc can return for a struct task
          Worker,    \* the worker threads
          max_size,  \* TASK_QUEUE_MAX
          NULL       \* the NULL pointer

ASSUME TaskQueueAssumption == max_size \in Nat \ {0} /\ NULL \notin Cell

VARIABLES head,     \* queue->head
          tail,     \* queue->tail
          next,     \* next_task of each cell
          size,     \* queue->size
          shutdown, \* queue->shutdown
          heap,     \* state of each cell: "free", "queued" (accepted by push
                    \* and not popped) or "held" (owned by a worker)
          pc,       \* where each worker is: "pop", "wait", "busy" or "exit"
          job,      \* the task each busy worker holds
          crashed   \* the process died of an invalid memory access

vars == <<head, tail, next, size, shutdown, heap, pc, job, crashed>>

Pointer == Cell \cup {NULL}

TypeOK ==
  /\ head \in Pointer /\ tail \in Pointer
  /\ next \in [Cell -> Pointer]
  /\ size \in 0..max_size
  /\ shutdown \in BOOLEAN
  /\ heap \in [Cell -> {"free", "queued", "held"}]
  /\ pc \in [Worker -> {"pop", "wait", "busy", "exit"}]
  /\ job \in [Worker -> Pointer]
  /\ crashed \in BOOLEAN

Init ==
  /\ head = NULL /\ tail = NULL
  /\ next = [c \in Cell |-> NULL]
  /\ size = 0
  /\ shutdown = FALSE
  /\ heap = [c \in Cell |-> "free"]
  /\ pc = [w \in Worker |-> "pop"]
  /\ job = [w \in Worker |-> NULL]
  /\ crashed = FALSE

\* pthread_cond_signal(&queue->not_empty): one waiter, if any, tests again.
SignalNotEmpty ==
  IF \E w \in Worker : pc[w] = "wait"
    THEN \E w \in Worker : pc[w] = "wait" /\ pc' = [pc EXCEPT ![w] = "pop"]
    ELSE pc' = pc

\* The assignments of push() to the list: the first task becomes head and
\* tail, a later one is linked behind the tail, which does not move.
LinkTask(c) ==
  \/ /\ tail = NULL
     /\ head' = c /\ tail' = c
     /\ next' = [next EXCEPT ![c] = NULL]
  \/ /\ tail # NULL
     /\ next' = [next EXCEPT ![tail] = c, ![c] = NULL]
     /\ UNCHANGED <<head, tail>>

(***************************************************************************)
(* build_task() takes a free cell and push() returns 0.  When push() returns*)
(* -1 or -EAGAIN the caller frees the cell and nothing changes.  A write to *)
(* a freed cell is undefined: harmless, unless the allocator gave the       *)
(* memory to something else.                                                *)
(***************************************************************************)
Push(c) ==
  /\ ~crashed /\ heap[c] = "free"
  /\ ~shutdown /\ size < max_size
  /\ LinkTask(c)
  /\ heap' = [heap EXCEPT ![c] = "queued"]
  /\ size' = size + 1
  /\ crashed' \in IF tail \notin {NULL, c} /\ heap[tail] = "free"
                    THEN BOOLEAN ELSE {FALSE}
  /\ SignalNotEmpty
  /\ UNCHANGED <<shutdown, job>>

\* pop(): nothing to take and no shutdown, the worker sleeps on not_empty.
PopWait(w) ==
  /\ ~crashed /\ pc[w] = "pop"
  /\ size = 0 /\ ~shutdown
  /\ pc' = [pc EXCEPT ![w] = "wait"]
  /\ UNCHANGED <<head, tail, next, size, shutdown, heap, job, crashed>>

\* pop() returns NULL, and worker_thread leaves its loop.
PopExit(w) ==
  /\ ~crashed /\ pc[w] = "pop"
  /\ size = 0 /\ shutdown
  /\ pc' = [pc EXCEPT ![w] = "exit"]
  /\ UNCHANGED <<head, tail, next, size, shutdown, heap, job, crashed>>

\* Mutant: pop() that leaves tail on the last task.
UnlinkKeepTail ==
  /\ head' = next[head]
  /\ next' = [next EXCEPT ![head] = NULL]
  /\ UNCHANGED tail

\* The unlinking in pop(): head moves on, and tail is reset with the last task.
UnlinkHead ==
  /\ head' = next[head]
  /\ tail' = IF next[head] = NULL THEN NULL ELSE tail
  /\ next' = [next EXCEPT ![head] = NULL]

\* pop() returns the head of the list.
PopTask(w) ==
  /\ ~crashed /\ pc[w] = "pop"
  /\ size > 0 /\ head # NULL
  /\ job' = [job EXCEPT ![w] = head]
  /\ heap' = [heap EXCEPT ![head] = "held"]
  /\ UnlinkHead
  /\ size' = size - 1
  /\ pc' = [pc EXCEPT ![w] = "busy"]
  /\ UNCHANGED <<shutdown, crashed>>

\* pop() evaluates queue->head->next_task with queue->head == NULL.
PopNull(w) ==
  /\ ~crashed /\ pc[w] = "pop"
  /\ size > 0 /\ head = NULL
  /\ crashed' = TRUE
  /\ UNCHANGED <<head, tail, next, size, shutdown, heap, pc, job>>

\* free(t) at the end of the worker's iteration.
FreeTask(w) ==
  /\ ~crashed /\ pc[w] = "busy"
  /\ heap' = [heap EXCEPT ![job[w]] = "free"]
  /\ job' = [job EXCEPT ![w] = NULL]
  /\ pc' = [pc EXCEPT ![w] = "pop"]
  /\ UNCHANGED <<head, tail, next, size, shutdown, crashed>>

\* pthread_cond_wait may return with no signal.
SpuriousWakeup(w) ==
  /\ ~crashed /\ pc[w] = "wait"
  /\ pc' = [pc EXCEPT ![w] = "pop"]
  /\ UNCHANGED <<head, tail, next, size, shutdown, heap, job, crashed>>

\* task_queue_shutdown(): the flag and the broadcast under the queue's lock.
TaskQueueShutdown ==
  /\ ~crashed /\ ~shutdown
  /\ shutdown' = TRUE
  /\ pc' = [w \in Worker |-> IF pc[w] = "wait" THEN "pop" ELSE pc[w]]
  /\ UNCHANGED <<head, tail, next, size, heap, job, crashed>>

\* The process has stopped, by itself or not.
Stopped ==
  /\ crashed \/ \A w \in Worker : pc[w] = "exit"
  /\ UNCHANGED vars

WorkerStep(w) == PopWait(w) \/ PopExit(w) \/ PopTask(w) \/ PopNull(w) \/ FreeTask(w)

Next ==
  \/ \E c \in Cell : Push(c)
  \/ \E w \in Worker : WorkerStep(w) \/ SpuriousWakeup(w)
  \/ TaskQueueShutdown
  \/ Stopped

Spec == Init /\ [][Next]_vars
-----------------------------------------------------------------------------
\* The cells reachable from head through next: the least set closed under next.
Reachable ==
  {c \in Cell : \A S \in SUBSET Cell :
      (head \in S /\ \A x \in S : next[x] \in S \cup {NULL}) => c \in S}

\* The abstract queue: the list from head, and whether tail was left behind.
List == IF head = NULL THEN <<>>
        ELSE IF next[head] = NULL THEN <<head>>
        ELSE <<head, next[head]>>

Lossy == INSTANCE LossyTaskQueue WITH
           Task <- Cell, q <- List, stale <- (tail # NULL /\ tail # head)

(***************************************************************************)
(* The pointers of queue.c do what module LossyTaskQueue says: the list     *)
(* never holds more than the oldest and the newest task.                    *)
(***************************************************************************)
ImplementsLossyQueue == Lossy!Spec

(***************************************************************************)
(* queue.h on push(): "add a task to queue", "0 on success".  Every task    *)
(* that push() accepted can be reached by pop() until it is popped.         *)
(***************************************************************************)
AcceptedTasksReachable ==
  \A c \in Cell : heap[c] = "queued" => head # NULL /\ c \in Reachable

(***************************************************************************)
(* queue.h on pop(): "blocking untils getting a task or queue shutdown",    *)
(* "get task if success, NULL if queue empty and shutdown".  pop() never    *)
(* finds size > 0 with an empty list.                                       *)
(***************************************************************************)
PopFindsTask == size > 0 => head # NULL
=============================================================================
