----------------------------- MODULE PosixRing ------------------------------
(***************************************************************************)
(* The ring buffer of gateway-core-posix in shared memory: get_data and     *)
(* storage_data with the semaphores items and spaces and the process-shared *)
(* mutex, called by any number of threads of any number of processes.  A    *)
(* process may be killed between any two steps; the mutex is not robust.    *)
(***************************************************************************)
EXTENDS Naturals, Sequences, FiniteSets

CONSTANTS Actor,     \* the threads that handle commands
          Value,     \* sensor records
          capacity,
          MaxDrop,   \* largest value of the counter dropped
          NULL

VARIABLES data, read_index, write_index, dropped,   \* struct shm_data
          items, spaces,                            \* the semaphores
          mutex,   \* who holds the mutex
          pc,      \* where each thread is
          val,     \* the record it stores
          alive    \* it was not killed

vars == <<data, read_index, write_index, dropped, items, spaces, mutex, pc, val, alive>>

Index == 0 .. capacity - 1

TypeOK ==
  /\ data \in [Index -> Value \cup {NULL}]
  /\ read_index \in Index /\ write_index \in Index
  /\ dropped \in 0..MaxDrop
  /\ items \in 0..capacity /\ spaces \in 0..capacity
  /\ mutex \in Actor \cup {NULL}
  /\ pc \in [Actor -> {"idle", "get", "read", "postSpaces",
                       "put", "write", "postItems", "drop", "count"}]
  /\ val \in [Actor -> Value \cup {NULL}]
  /\ alive \in [Actor -> BOOLEAN]

\* init_shm()
Init ==
  /\ data = [i \in Index |-> NULL]
  /\ read_index = 0 /\ write_index = 0 /\ dropped = 0
  /\ items = 0 /\ spaces = capacity /\ mutex = NULL
  /\ pc = [a \in Actor |-> "idle"] /\ val = [a \in Actor |-> NULL]
  /\ alive = [a \in Actor |-> TRUE]

At(a, l) == alive[a] /\ pc[a] = l
Goto(a, l) == pc' = [pc EXCEPT ![a] = l]

\* get_data(): sem_trywait(items); when it fails the call returns.
GetTry(a) ==
  /\ At(a, "idle") /\ items > 0
  /\ items' = items - 1
  /\ Goto(a, "get")
  /\ UNCHANGED <<data, read_index, write_index, dropped, spaces, mutex, val, alive>>

\* storage_data(): sem_trywait(spaces), or the record is to be dropped.
PutTry(a, v) ==
  /\ At(a, "idle")
  /\ \/ spaces > 0 /\ spaces' = spaces - 1 /\ Goto(a, "put")
     \/ spaces = 0 /\ spaces' = spaces /\ Goto(a, "drop")
  /\ val' = [val EXCEPT ![a] = v]
  /\ UNCHANGED <<data, read_index, write_index, dropped, items, mutex, alive>>

\* pthread_mutex_lock()
Lock(a) ==
  /\ mutex = NULL
  /\ \/ At(a, "get") /\ Goto(a, "read")
     \/ At(a, "put") /\ Goto(a, "write")
     \/ At(a, "drop") /\ Goto(a, "count")
  /\ mutex' = a
  /\ UNCHANGED <<data, read_index, write_index, dropped, items, spaces, val, alive>>

\* The record at read_index is read, and the mutex released.
Read(a) ==
  /\ At(a, "read")
  /\ read_index' = (read_index + 1) % capacity
  /\ mutex' = NULL
  /\ Goto(a, "postSpaces")
  /\ UNCHANGED <<data, write_index, dropped, items, spaces, val, alive>>

\* Mutant: the write index is not wrapped at capacity but one earlier.
WriteShortWrap(a) ==
  /\ At(a, "write")
  /\ data' = [data EXCEPT ![write_index] = val[a]]
  /\ write_index' = IF write_index + 2 >= capacity THEN 0 ELSE write_index + 1
  /\ mutex' = NULL
  /\ Goto(a, "postItems")
  /\ UNCHANGED <<read_index, dropped, items, spaces, val, alive>>

\* The record is stored at write_index, and the mutex released.
Write(a) ==
  /\ At(a, "write")
  /\ data' = [data EXCEPT ![write_index] = val[a]]
  /\ write_index' = (write_index + 1) % capacity
  /\ mutex' = NULL
  /\ Goto(a, "postItems")
  /\ UNCHANGED <<read_index, dropped, items, spaces, val, alive>>

\* dropped++, of an unsigned type that wraps
Count(a) ==
  /\ At(a, "count")
  /\ dropped' = (dropped + 1) % (MaxDrop + 1)
  /\ mutex' = NULL
  /\ val' = [val EXCEPT ![a] = NULL]
  /\ Goto(a, "idle")
  /\ UNCHANGED <<data, read_index, write_index, items, spaces, alive>>

\* sem_post(spaces) at the end of get_data(), sem_post(items) of storage_data().
Post(a) ==
  /\ \/ At(a, "postSpaces") /\ spaces' = spaces + 1 /\ items' = items
     \/ At(a, "postItems") /\ items' = items + 1 /\ spaces' = spaces
  /\ val' = [val EXCEPT ![a] = NULL]
  /\ Goto(a, "idle")
  /\ UNCHANGED <<data, read_index, write_index, dropped, mutex, alive>>

\* The process is killed.
Kill(a) ==
  /\ alive[a]
  /\ alive' = [alive EXCEPT ![a] = FALSE]
  /\ UNCHANGED <<data, read_index, write_index, dropped, items, spaces, mutex, pc, val>>

Step(a) ==
  \/ GetTry(a) \/ (\E v \in Value : PutTry(a, v))
  \/ Lock(a) \/ Read(a) \/ Write(a) \/ Count(a) \/ Post(a)

\* Nothing moves any more when every thread is dead or waits for a dead one.
Stuck ==
  /\ \A a \in Actor : ~alive[a] \/ (pc[a] \in {"get", "put", "drop"} /\ mutex # NULL)
  /\ UNCHANGED vars

Next == (\E a \in Actor : Step(a) \/ Kill(a)) \/ Stuck

Spec == Init /\ [][Next]_vars
-----------------------------------------------------------------------------
InState(S) == Cardinality({a \in Actor : pc[a] \in S})

\* The records that were written and not read: the semaphore counts those no
\* reader has claimed and whose writer has posted.
Stored == items + InState({"get", "read"}) + InState({"postItems"})
fifo == [i \in 1..Stored |-> data[(read_index + i - 1) % capacity]]

(***************************************************************************)
(* The ring is a bounded first-in first-out buffer: each write appends a    *)
(* record, each read takes the oldest, none is overwritten or read twice,   *)
(* however the threads interleave and wherever one is killed.               *)
(***************************************************************************)
RingIsFifo == INSTANCE BoundedFifo WITH Elem <- Value, Capacity <- capacity
ImplementsFifo == RingIsFifo!Spec
=============================================================================
