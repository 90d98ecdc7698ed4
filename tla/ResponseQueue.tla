--------------------------- MODULE ResponseQueue ----------------------------
(***************************************************************************)
(* The response queue of gateway/src/queue.c: a linked list that the        *)
(* workers push (response_queue_push) and the main thread pops              *)
(* (response_queue_pop), each under queue->lock.  As in module TaskQueue a  *)
(* cell is the memory of one struct response, taken by make_response and    *)
(* given back by the free(rp) of handle_response_to_client.                 *)
(***************************************************************************)
EXTENDS Naturals

CONSTANTS Cell,      \* the memory cells malloc can return for a response
          max_size,  \* TASK_QUEUE_MAX
          NULL       \* the NULL pointer

VARIABLES head, tail, size,  \* struct response_queue
          next,              \* next_response of each cell
          heap,              \* "free", "made" (owned by a worker), "queued"
                             \* or "popped" (owned by the main thread)
          rp                 \* the response the main thread handles

vars == <<head, tail, size, next, heap, rp>>

Pointer == Cell \cup {NULL}

TypeOK ==
  /\ head \in Pointer /\ tail \in Pointer /\ rp \in Pointer
  /\ size \in 0..max_size
  /\ next \in [Cell -> Pointer]
  /\ heap \in [Cell -> {"free", "made", "queued", "popped"}]

\* response_queue_init(); what malloc returns is not initialised.
Init ==
  /\ head = NULL /\ tail = NULL /\ size = 0
  /\ next \in [Cell -> Pointer]
  /\ heap = [c \in Cell |-> "free"]
  /\ rp = NULL

\* make_response(): rp->next_response = NULL is its last assignment.
MakeResponse(c) ==
  /\ heap[c] = "free"
  /\ heap' = [heap EXCEPT ![c] = "made"]
  /\ next' = [next EXCEPT ![c] = NULL]
  /\ UNCHANGED <<head, tail, size, rp>>

\* Mutant: response_queue_push() that links the response in front.
LinkInFront(c) ==
  /\ head' = c
  /\ next' = [next EXCEPT ![c] = head]
  /\ tail' = IF tail = NULL THEN c ELSE tail

\* The assignments of response_queue_push() to the list.  The second write to
\* next_response goes through the new tail.
LinkResponse(c) ==
  /\ head' = IF tail = NULL THEN c ELSE head
  /\ next' = IF tail = NULL THEN [next EXCEPT ![c] = NULL]
             ELSE [next EXCEPT ![tail] = c, ![c] = NULL]
  /\ tail' = c

\* response_queue_push() that returns 0.
PushOk(c) ==
  /\ heap[c] = "made" /\ size < max_size
  /\ LinkResponse(c)
  /\ size' = size + 1
  /\ heap' = [heap EXCEPT ![c] = "queued"]
  /\ UNCHANGED rp

\* response_queue_push() that returns -EAGAIN: the worker frees the response.
PushFull(c) ==
  /\ heap[c] = "made" /\ size >= max_size
  /\ heap' = [heap EXCEPT ![c] = "free"]
  /\ UNCHANGED <<head, tail, size, next, rp>>

\* The assignments of response_queue_pop() to the list.
Unlink ==
  /\ head' = next[head]
  /\ tail' = IF next[head] = NULL THEN NULL ELSE tail
  /\ next' = [next EXCEPT ![head] = NULL]

\* response_queue_pop() that returns a response.  (NULL changes nothing.)
Pop ==
  /\ rp = NULL /\ size > 0
  /\ rp' = head
  /\ heap' = [heap EXCEPT ![head] = "popped"]
  /\ Unlink
  /\ size' = size - 1

\* free(rp) in handle_response_to_client.
FreeResponse ==
  /\ rp # NULL
  /\ heap' = [heap EXCEPT ![rp] = "free"]
  /\ rp' = NULL
  /\ UNCHANGED <<head, tail, size, next>>

Next ==
  \/ \E c \in Cell : MakeResponse(c) \/ PushOk(c) \/ PushFull(c)
  \/ Pop \/ FreeResponse

Spec == Init /\ [][Next]_vars
-----------------------------------------------------------------------------
\* The i-th response from head, or NULL when the list ends before.
Nth[i \in 1..max_size] ==
  IF i = 1 THEN head
  ELSE IF Nth[i-1] = NULL THEN NULL ELSE next[Nth[i-1]]

\* The list as a sequence, as long as size says.
List == [i \in 1..size |-> Nth[i]]

Fifo == INSTANCE BoundedFifo WITH Elem <- Cell, Capacity <- max_size, fifo <- List

(***************************************************************************)
(* response_queue_push and response_queue_pop are a bounded FIFO queue:     *)
(* every response that a worker's push accepted is popped by the main       *)
(* thread, once and in the order of the pushes.                             *)
(***************************************************************************)
ImplementsFifo == Fifo!Spec
=============================================================================
