----------------------------- MODULE PosixStart -----------------------------
(***************************************************************************)
(* How the programs of gateway-core-posix find, initialise and leave the    *)
(* shared memory and the message queue.  They may be started in any order,  *)
(* at the same time and again after an end, and be killed anywhere.  Names  *)
(* are in the file system; an unlinked object lives on while it is mapped.  *)
(* A program is one actor here (its threads are module PosixGateway), and   *)
(* its use of the memory is the section under the shared mutex (what it     *)
(* does there is module PosixRing).                                         *)
(***************************************************************************)
EXTENDS Naturals

CONSTANTS Program,    \* "controller" and others; only it unlinks the names
          MaxObject,  \* bound: memory objects, and queues, ever created
          MaxStart    \* bound: starts of programs

VARIABLES
  shmName, mqName,  \* the objects PATH_SHM and PATH_MQ name, 0 for none
  created,          \* how many memory objects and queues were created
  size,             \* of each memory object: "zero" or "full"
  magic,            \* the memory objects with SHM_MAGIC in the header
  sync,             \* mutex and semaphores: "none", "mutex", "ready", "destroyed"
  holder,           \* who holds the mutex of each object
  pc,               \* where each program is
  shm, mq,          \* the objects it has open
  starts,
  spoilt,           \* history: objects whose mutex cannot be relied on
  cut               \* history: running programs that saw a name unlinked

vars == <<shmName, mqName, created, size, magic, sync, holder, pc, shm, mq, starts, spoilt, cut>>
objects == <<shmName, mqName, created, size, magic, sync, holder>>

Object == 1..MaxObject
Nobody == "nobody"

ASSUME PosixStartAssumption == MaxObject \in Nat /\ MaxStart \in Nat /\ Nobody \notin Program

Init ==
  /\ shmName = 0 /\ mqName = 0 /\ created = [shm |-> 0, mq |-> 0]
  /\ size = [o \in Object |-> "zero"] /\ magic = {}
  /\ sync = [o \in Object |-> "none"] /\ holder = [o \in Object |-> Nobody]
  /\ pc = [p \in Program |-> "off"]
  /\ shm = [p \in Program |-> 0] /\ mq = [p \in Program |-> 0]
  /\ starts = 0 /\ spoilt = {} /\ cut = {}

Goto(p, l) == pc' = [pc EXCEPT ![p] = l]

\* The process ends: the kernel closes what it has open.
Off(p) ==
  /\ Goto(p, "off")
  /\ shm' = [shm EXCEPT ![p] = 0] /\ mq' = [mq EXCEPT ![p] = 0]
  /\ cut' = cut \ {p}
-----------------------------------------------------------------------------
(* main of each program, up to its threads *)

\* get_mq() with O_CREAT: the queue of that name, or a new one.
get_mq(p) ==
  /\ pc[p] = "off" /\ starts < MaxStart
  /\ starts' = starts + 1
  /\ \/ /\ mqName # 0
        /\ mq' = [mq EXCEPT ![p] = mqName] /\ UNCHANGED <<mqName, created>>
     \/ /\ mqName = 0 /\ created.mq < MaxObject
        /\ mqName' = created.mq + 1 /\ created' = [created EXCEPT !.mq = @ + 1]
        /\ mq' = [mq EXCEPT ![p] = mqName']
  /\ Goto(p, "open")
  /\ UNCHANGED <<shmName, size, magic, sync, holder, shm, spoilt, cut>>

\* Mutant: an object of that name is unlinked first, as if it were a stale one.
OpenAfresh(p) ==
  /\ pc[p] = "open" /\ created.shm < MaxObject
  /\ shmName' = created.shm + 1 /\ created' = [created EXCEPT !.shm = @ + 1]
  /\ shm' = [shm EXCEPT ![p] = shmName'] /\ Goto(p, "size")
  /\ UNCHANGED <<mqName, size, magic, sync, holder, mq, starts, spoilt, cut>>

\* get_shm(): shm_open with O_CREAT and O_EXCL makes an object of size 0, or
\* fails with EEXIST.
Open(p) ==
  /\ pc[p] = "open"
  /\ \/ /\ shmName # 0
        /\ Goto(p, "reopen") /\ UNCHANGED <<shmName, created, shm>>
     \/ /\ shmName = 0 /\ created.shm < MaxObject
        /\ shmName' = created.shm + 1 /\ created' = [created EXCEPT !.shm = @ + 1]
        /\ shm' = [shm EXCEPT ![p] = shmName'] /\ Goto(p, "size")
  /\ UNCHANGED <<mqName, size, magic, sync, holder, mq, starts, spoilt, cut>>

\* The second shm_open, without these flags; when the name is gone the start
\* has failed.
Reopen(p) ==
  /\ pc[p] = "reopen"
  /\ \/ /\ shmName # 0
        /\ shm' = [shm EXCEPT ![p] = shmName] /\ Goto(p, "size") /\ UNCHANGED <<mq, cut>>
     \/ shmName = 0 /\ Off(p)
  /\ UNCHANGED <<objects, starts, spoilt>>

\* fstat and, at size 0, ftruncate, in both branches of get_shm; mapping_shm().
Truncate(p) ==
  /\ pc[p] = "size"
  /\ size' = [size EXCEPT ![shm[p]] = "full"]
  /\ Goto(p, "test")
  /\ UNCHANGED <<shmName, mqName, created, magic, sync, holder, shm, mq, starts, spoilt, cut>>

\* main: magic != SHM_MAGIC.
MainTest(p) ==
  /\ pc[p] = "test"
  /\ Goto(p, IF shm[p] \in magic THEN "threads" ELSE "init")
  /\ UNCHANGED <<objects, shm, mq, starts, spoilt, cut>>

\* Mutant: init_shm relies on main's test.
InitAlways(p) ==
  /\ pc[p] = "init"
  /\ Goto(p, "magic")
  /\ UNCHANGED <<objects, shm, mq, starts, spoilt, cut>>

\* init_shm(): magic == 0.  Two programs that both find it so will initialise
\* the object twice.
InitTest(p) ==
  /\ pc[p] = "init"
  /\ Goto(p, IF shm[p] \in magic THEN "threads" ELSE "magic")
  /\ spoilt' = IF shm[p] \notin magic /\ \E q \in Program \ {p} : pc[q] = "magic" /\ shm[q] = shm[p]
                 THEN spoilt \cup {shm[p]} ELSE spoilt
  /\ UNCHANGED <<objects, shm, mq, starts, cut>>

\* The header is written,
InitMagic(p) ==
  /\ pc[p] = "magic"
  /\ magic' = magic \cup {shm[p]}
  /\ Goto(p, "mutex")
  /\ UNCHANGED <<shmName, mqName, created, size, sync, holder, shm, mq, starts, spoilt, cut>>

\* then the mutex is initialised,
InitMutex(p) ==
  /\ pc[p] = "mutex"
  /\ sync' = [sync EXCEPT ![shm[p]] = "mutex"]
  /\ holder' = [holder EXCEPT ![shm[p]] = Nobody]
  /\ Goto(p, "sems")
  /\ UNCHANGED <<shmName, mqName, created, size, magic, shm, mq, starts, spoilt, cut>>

\* then the semaphores.
InitSems(p) ==
  /\ pc[p] = "sems"
  /\ sync' = [sync EXCEPT ![shm[p]] = IF @ = "mutex" THEN "ready" ELSE @]
  /\ Goto(p, "threads")
  /\ UNCHANGED <<shmName, mqName, created, size, magic, holder, shm, mq, starts, spoilt, cut>>

\* The threads are created.  From here the program uses the memory, whether or
\* not the program that wrote the magic number is done.
Run(p) ==
  /\ pc[p] = "threads"
  /\ Goto(p, "run")
  /\ spoilt' = IF sync[shm[p]] # "ready" THEN spoilt \cup {shm[p]} ELSE spoilt
  /\ UNCHANGED <<objects, shm, mq, starts, cut>>

Unlinked == cut' = {q \in Program : pc'[q] # "off"}

\* cleanup: pthread_create failed.  Both names go, whoever made them.
ThreadFails(p) ==
  /\ pc[p] = "threads"
  /\ shmName' = 0 /\ mqName' = 0
  /\ Goto(p, "off")
  /\ shm' = [shm EXCEPT ![p] = 0] /\ mq' = [mq EXCEPT ![p] = 0]
  /\ Unlinked
  /\ UNCHANGED <<created, size, magic, sync, holder, starts, spoilt>>
-----------------------------------------------------------------------------
(* The use of the memory *)

\* pthread_mutex_lock, its result ignored.  On a mutex that is not initialised
\* or was destroyed it is undefined: it may wait or return at once.
Enter(p) ==
  LET o == shm[p] IN
  /\ pc[p] = "run"
  /\ holder[o] = Nobody \/ sync[o] \in {"none", "destroyed"}
  /\ holder' = [holder EXCEPT ![o] = IF @ = Nobody /\ sync[o] # "destroyed" THEN p ELSE @]
  /\ Goto(p, "inside")
  /\ UNCHANGED <<shmName, mqName, created, size, magic, sync, shm, mq, starts, spoilt, cut>>

\* The section was the worker's, which comes again, or the one in which
\* sig_thread sets shutdown_flag; the controller has only the latter.
Leave(p) ==
  /\ pc[p] = "inside"
  /\ holder' = [holder EXCEPT ![shm[p]] = IF @ = p THEN Nobody ELSE @]
  /\ \/ p # "controller" /\ Goto(p, "run")
     \/ Goto(p, "close")
  /\ UNCHANGED <<shmName, mqName, created, size, magic, sync, shm, mq, starts, spoilt, cut>>
-----------------------------------------------------------------------------
(* shutdown_ipc(is_creator): the controller passes true *)

\* mq_close and mq_unlink.
CloseQueue(p) ==
  /\ pc[p] = "close"
  /\ mq' = [mq EXCEPT ![p] = 0]
  /\ Goto(p, "destroy")
  /\ IF p = "controller" THEN mqName' = 0 /\ Unlinked ELSE UNCHANGED <<mqName, cut>>
  /\ UNCHANGED <<shmName, created, size, magic, sync, holder, shm, starts, spoilt>>

\* pthread_mutex_destroy and munmap.  A locked mutex may stay as it is.
CloseMemory(p) ==
  LET o == shm[p] IN
  /\ pc[p] = "destroy"
  /\ \/ sync' = [sync EXCEPT ![o] = "destroyed"]
     \/ holder[o] # Nobody /\ UNCHANGED sync
  /\ spoilt' = spoilt \cup {o}
  /\ shm' = [shm EXCEPT ![p] = 0]
  /\ Goto(p, "unlink")
  /\ UNCHANGED <<shmName, mqName, created, size, magic, holder, mq, starts, cut>>

\* close and shm_unlink; the process ends.
Unlink(p) ==
  /\ pc[p] = "unlink"
  /\ Goto(p, "off")
  /\ IF p = "controller" THEN shmName' = 0 /\ Unlinked
                         ELSE shmName' = shmName /\ cut' = cut \ {p}
  /\ UNCHANGED <<mqName, created, size, magic, sync, holder, shm, mq, starts, spoilt>>

\* A call of the start fails and main returns, or the process is killed.  The
\* objects stay as they are, and so does a mutex it holds.
Dies(p) ==
  /\ pc[p] # "off"
  /\ Off(p)
  /\ UNCHANGED <<objects, starts, spoilt>>

Next ==
  \E p \in Program :
    \/ get_mq(p) \/ Open(p) \/ Reopen(p) \/ Truncate(p) \/ MainTest(p)
    \/ InitTest(p) \/ InitMagic(p) \/ InitMutex(p) \/ InitSems(p) \/ Run(p) \/ ThreadFails(p)
    \/ Enter(p) \/ Leave(p)
    \/ CloseQueue(p) \/ CloseMemory(p) \/ Unlink(p) \/ Dies(p)

Spec == Init /\ [][Next]_vars
-----------------------------------------------------------------------------
Running(p) == pc[p] \in {"run", "inside"}

(***************************************************************************)
(* README, "Notes": "Shared-memory access is synchronized with a            *)
(* `PTHREAD_PROCESS_SHARED` mutex".                                         *)
(***************************************************************************)
Exclusive ==
  \A p, q \in Program : p # q /\ pc[p] = "inside" /\ pc[q] = "inside" => shm[p] # shm[q]

(***************************************************************************)
(* What the code keeps of it: two programs are in their sections on one     *)
(* object only when its mutex was spoilt: both saw magic = 0 in init_shm,   *)
(* one ran before the initialisation it did not do was over, or some        *)
(* program went through shutdown_ipc.                                       *)
(***************************************************************************)
ExclusiveUnlessSpoilt ==
  \A p, q \in Program :
    p # q /\ pc[p] = "inside" /\ pc[q] = "inside" /\ shm[p] = shm[q] => shm[p] \in spoilt

(***************************************************************************)
(* Two running programs have the same queue and the same memory, unless a   *)
(* name was unlinked since one of them started: whatever the order in which *)
(* they were started, were killed and were started again.  And the memory   *)
(* has its full size, also for a program that found an object its creator   *)
(* had not sized yet or never did: get_shm sizes it in both branches.       *)
(***************************************************************************)
Together ==
  /\ \A p \in Program : Running(p) => size[shm[p]] = "full"
  /\ \A p, q \in Program :
       Running(p) /\ Running(q) /\ {p, q} \cap cut = {} => shm[p] = shm[q] /\ mq[p] = mq[q]
=============================================================================
