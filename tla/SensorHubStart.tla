--------------------------- MODULE SensorHubStart ---------------------------
(***************************************************************************)
(* system-V-ipc-sensorhub: how its processes find or make the shared        *)
(* segment and the semaphore (get_shmem, get_sem), initialise the segment   *)
(* (init_shmem), use it under the semaphore, and how the hub removes both.  *)
(* Each system call is a step, and a process may end between any two.       *)
(*                                                                         *)
(* The message queue has no test for staleness and no lock; it is left out, *)
(* and so are the contents of the ring.  The first segment of a system may   *)
(* have the identifier 0.                                                    *)
(***************************************************************************)
EXTENDS Naturals, FiniteSets

CONSTANTS Proc,      \* processes, each started once
          Hub,       \* the ones that clean up at their end
          Monitor,   \* the ones that do not initialise the segment
          Resetter,  \* the ones started with --reset
          MaxId,     \* bound: segments and semaphores ever made
          NULL

Id == 0..MaxId

VARIABLES
  shmkey, semkey,      \* the object that the key leads to, or NULL
  shm, sem,            \* the objects
  pc,
  old,                 \* the object a process is examining
  myshm, mysem,
  incident             \* history: "overlap" and "crash", see Overlaps and Crash

vars == <<shmkey, semkey, shm, sem, pc, old, myshm, mysem, incident>>

Starting == {"shmold", "shmstat", "shmrm", "shmcreate", "shmget",
             "semold", "semval", "sempid", "semrm", "semcreate", "semset", "semdummy",
             "semget", "semwait", "attach", "lock", "magic", "fields", "unlock"}
Critical == {"magic", "fields", "unlock", "use"}
PC == Starting \union {"off", "up", "use", "cleanshm", "cleansem", "ended"}

Segment == [made : BOOLEAN, rm : BOOLEAN, cpid : Proc \union {NULL}, lpid : Proc \union {NULL},
            attached : SUBSET Proc, magic : BOOLEAN, capacity : BOOLEAN]
Semaphore == [live : BOOLEAN, made : BOOLEAN, val : Nat, pid : Proc \union {NULL},
              otime : BOOLEAN]

TypeOK ==
  /\ shmkey \in Id \union {NULL} /\ semkey \in Id \union {NULL}
  /\ shm \in [Id -> Segment] /\ sem \in [Id -> Semaphore]
  /\ pc \in [Proc -> PC] /\ old \in [Proc -> Id \union {NULL}]
  /\ myshm \in [Proc -> Id \union {NULL}] /\ mysem \in [Proc -> Id \union {NULL}]
  /\ incident \subseteq {"overlap", "crash"}
  /\ \A i \in Id : sem[i].val <= 1
  /\ shmkey # NULL => shm[shmkey].made /\ ~shm[shmkey].rm
  /\ semkey # NULL => sem[semkey].live

NoSegment == [made |-> FALSE, rm |-> FALSE, cpid |-> NULL, lpid |-> NULL, attached |-> {},
              magic |-> FALSE, capacity |-> FALSE]
NoSemaphore == [live |-> FALSE, made |-> FALSE, val |-> 0, pid |-> NULL, otime |-> FALSE]

Init ==
  /\ shmkey = NULL /\ semkey = NULL
  /\ shm = [i \in Id |-> NoSegment] /\ sem = [i \in Id |-> NoSemaphore]
  /\ pc = [p \in Proc |-> "off"] /\ old = [p \in Proc |-> NULL]
  /\ myshm = [p \in Proc |-> NULL] /\ mysem = [p \in Proc |-> NULL]
  /\ incident = {}
-----------------------------------------------------------------------------
is_pid_alive(p) == p \in Proc /\ pc[p] # "ended"

Go(p, to) == pc' = [pc EXCEPT ![p] = to]
At(p, at) == pc[p] = at

\* A segment is gone when it was removed and nobody is attached to it any more.
Gone(s) == ~s.made \/ (s.rm /\ s.attached = {})

\* The kernel keeps nothing of a segment that is gone.
Reaped(s) == IF Gone(s) THEN [NoSegment EXCEPT !.made = s.made, !.rm = s.rm] ELSE s

\* p starts or ends while another process is on its way up or cleaning up.
Overlaps(p) ==
  IF \E q \in Proc \ {p} : pc[q] \in Starting \union {"cleanshm", "cleansem"}
  THEN {"overlap"} ELSE {}

Fresh(objs) == {i \in 1..MaxId : ~objs[i].made /\ \A j \in 1 .. i - 1 : objs[j].made}

shm_is_stale(s) ==
  \/ Gone(s)
  \/ s.attached = {} /\ ~is_pid_alive(IF s.lpid # NULL THEN s.lpid ELSE s.cpid)
-----------------------------------------------------------------------------
(* get_shmem *)

Start(p) ==
  /\ At(p, "off")
  /\ Go(p, "shmold")
  /\ incident' = incident \union Overlaps(p)
  /\ UNCHANGED <<shmkey, semkey, shm, sem, old, myshm, mysem>>

ShmOld(p) ==
  /\ At(p, "shmold")
  /\ old' = [old EXCEPT ![p] = shmkey]
  /\ Go(p, IF shmkey = NULL THEN "shmcreate" ELSE IF p \in Resetter THEN "shmrm" ELSE "shmstat")
  /\ UNCHANGED <<shmkey, semkey, shm, sem, myshm, mysem, incident>>

ShmStat(p) ==
  /\ At(p, "shmstat")
  /\ Go(p, IF shm_is_stale(shm[old[p]]) THEN "shmrm" ELSE "shmcreate")
  /\ UNCHANGED <<shmkey, semkey, shm, sem, old, myshm, mysem, incident>>

RemoveShm(i) ==
  /\ shm' = [shm EXCEPT ![i] = Reaped([@ EXCEPT !.rm = TRUE])]
  /\ shmkey' = IF shmkey = i THEN NULL ELSE shmkey

ShmRemove(p) ==
  /\ At(p, "shmrm")
  /\ RemoveShm(old[p])
  /\ Go(p, "shmcreate")
  /\ UNCHANGED <<semkey, sem, old, myshm, mysem, incident>>

\* shmget(IPC_CREAT | IPC_EXCL); a new segment is zero.
ShmCreate(p) ==
  /\ At(p, "shmcreate")
  /\ IF shmkey = NULL
     THEN \E i \in Fresh(shm) \union {j \in {0} : \A k \in Id : ~shm[k].made} :
            /\ shm' = [shm EXCEPT ![i].made = TRUE, ![i].cpid = p]
            /\ shmkey' = i
            /\ myshm' = [myshm EXCEPT ![p] = i]
            /\ Go(p, "semold")
     ELSE /\ Go(p, "shmget")
          /\ UNCHANGED <<shmkey, shm, myshm>>
  /\ old' = [old EXCEPT ![p] = NULL]
  /\ UNCHANGED <<semkey, sem, mysem, incident>>

\* The segment was there.  When it is no longer, or has the identifier 0 (old > 0),
\* get_shmem returns -1; get_id_all then fails, or, when exist is set because the message
\* queue was there, goes on without a segment.
ShmGet(p) ==
  /\ At(p, "shmget")
  /\ IF shmkey \in {NULL, 0}
     THEN (Go(p, "ended") \/ Go(p, "semold")) /\ UNCHANGED myshm
     ELSE Go(p, "semold") /\ myshm' = [myshm EXCEPT ![p] = shmkey]
  /\ UNCHANGED <<shmkey, semkey, shm, sem, old, mysem, incident>>
-----------------------------------------------------------------------------
(* get_sem *)

SemOld(p) ==
  /\ At(p, "semold")
  /\ old' = [old EXCEPT ![p] = semkey]
  /\ Go(p, IF semkey = NULL THEN "semcreate" ELSE IF p \in Resetter THEN "semrm" ELSE "semval")
  /\ UNCHANGED <<shmkey, semkey, shm, sem, myshm, mysem, incident>>

\* sem_is_stale: GETVAL,
SemVal(p) ==
  /\ At(p, "semval")
  /\ LET s == sem[old[p]]
     IN Go(p, IF ~s.live THEN "semrm" ELSE IF s.val # 0 THEN "semcreate" ELSE "sempid")
  /\ UNCHANGED <<shmkey, semkey, shm, sem, old, myshm, mysem, incident>>

\* As if the process that used the semaphore last were not asked for.
SemPidAny(p) ==
  /\ At(p, "sempid")
  /\ Go(p, "semrm")
  /\ UNCHANGED <<shmkey, semkey, shm, sem, old, myshm, mysem, incident>>

\* and GETPID: no process yet, or one that is gone, makes the semaphore stale.
SemPid(p) ==
  /\ At(p, "sempid")
  /\ LET s == sem[old[p]]
     IN Go(p, IF s.live /\ is_pid_alive(s.pid) THEN "semcreate" ELSE "semrm")
  /\ UNCHANGED <<shmkey, semkey, shm, sem, old, myshm, mysem, incident>>

RemoveSem(i) ==
  /\ sem' = [sem EXCEPT ![i] = [NoSemaphore EXCEPT !.made = TRUE]]
  /\ semkey' = IF semkey = i THEN NULL ELSE semkey

SemRemove(p) ==
  /\ At(p, "semrm")
  /\ RemoveSem(old[p])
  /\ Go(p, "semcreate")
  /\ UNCHANGED <<shmkey, shm, old, myshm, mysem, incident>>

\* semget(IPC_CREAT | IPC_EXCL); a new semaphore is 0.
SemCreate(p) ==
  /\ At(p, "semcreate")
  /\ IF semkey = NULL
     THEN \E i \in Fresh(sem) :
            /\ sem' = [sem EXCEPT ![i].live = TRUE, ![i].made = TRUE]
            /\ semkey' = i
            /\ mysem' = [mysem EXCEPT ![p] = i]
            /\ Go(p, "semset")
     ELSE /\ Go(p, "semget")
          /\ UNCHANGED <<semkey, sem, mysem>>
  /\ old' = [old EXCEPT ![p] = NULL]
  /\ UNCHANGED <<shmkey, shm, myshm, incident>>

SemSet(p) ==
  /\ At(p, "semset")
  /\ IF sem[mysem[p]].live
     THEN /\ sem' = [sem EXCEPT ![mysem[p]].val = 1, ![mysem[p]].pid = p]
          /\ Go(p, "semdummy")
     ELSE Go(p, "ended") /\ UNCHANGED sem
  /\ UNCHANGED <<shmkey, semkey, shm, old, myshm, mysem, incident>>

\* As if the semop that sets sem_otime were missing.
SemDummyNot(p) ==
  /\ At(p, "semdummy")
  /\ Go(p, IF sem[mysem[p]].live THEN "attach" ELSE "ended")
  /\ UNCHANGED <<shmkey, semkey, shm, sem, old, myshm, mysem, incident>>

\* semop(-1, +1) leaves the value and sets sem_otime, for which the others wait.
SemDummy(p) ==
  /\ At(p, "semdummy")
  /\ IF sem[mysem[p]].live
     THEN /\ sem[mysem[p]].val > 0
          /\ sem' = [sem EXCEPT ![mysem[p]].otime = TRUE, ![mysem[p]].pid = p]
          /\ Go(p, "attach")
     ELSE Go(p, "ended") /\ UNCHANGED sem
  /\ UNCHANGED <<shmkey, semkey, shm, old, myshm, mysem, incident>>

SemGet(p) ==
  /\ At(p, "semget")
  /\ mysem' = [mysem EXCEPT ![p] = semkey]
  /\ Go(p, IF semkey = NULL THEN "ended" ELSE "semwait")
  /\ UNCHANGED <<shmkey, semkey, shm, sem, old, myshm, incident>>

\* IPC_STAT until sem_otime is set.  On a semaphore that was removed IPC_STAT fails and the
\* loop looks at whatever ds holds.
SemWait(p) ==
  /\ At(p, "semwait")
  /\ sem[mysem[p]].otime \/ ~sem[mysem[p]].live
  /\ Go(p, "attach")
  /\ UNCHANGED <<shmkey, semkey, shm, sem, old, myshm, mysem, incident>>

\* After MAX_ENTRIES seconds: "Existing sem not initialized."
SemGiveUp(p) ==
  /\ At(p, "semwait")
  /\ ~sem[mysem[p]].otime \/ ~sem[mysem[p]].live
  /\ Go(p, "ended")
  /\ UNCHANGED <<shmkey, semkey, shm, sem, old, myshm, mysem, incident>>
-----------------------------------------------------------------------------
(* main: attach, init_shmem, use *)

Attach(p) ==
  /\ At(p, "attach")
  /\ LET i == myshm[p]
     IN IF i = NULL \/ Gone(shm[i])
        THEN Go(p, "ended") /\ UNCHANGED shm
        ELSE /\ shm' = [shm EXCEPT ![i].attached = @ \union {p}, ![i].lpid = p]
             /\ Go(p, IF p \in Monitor THEN "up" ELSE "lock")
  /\ UNCHANGED <<shmkey, semkey, sem, old, myshm, mysem, incident>>

Take(p) ==
  /\ sem[mysem[p]].live /\ sem[mysem[p]].val > 0
  /\ sem' = [sem EXCEPT ![mysem[p]].val = @ - 1, ![mysem[p]].pid = p]

\* The segments without p, which detaches or ends.
Detached(p) ==
  [i \in Id |-> IF p \in shm[i].attached
                THEN Reaped([shm[i] EXCEPT !.attached = @ \ {p}, !.lpid = p]) ELSE shm[i]]

\* init_shmem takes the semaphore; when it is gone main returns.
InitLock(p) ==
  /\ At(p, "lock")
  /\ \/ Take(p) /\ Go(p, "magic") /\ UNCHANGED shm
     \/ /\ ~sem[mysem[p]].live
        /\ shm' = Detached(p) /\ Go(p, "ended") /\ UNCHANGED sem
  /\ UNCHANGED <<shmkey, semkey, old, myshm, mysem, incident>>

\* The magic number is looked at and written first, the other fields after it.
InitMagic(p) ==
  /\ At(p, "magic")
  /\ IF shm[myshm[p]].magic
     THEN Go(p, "unlock") /\ UNCHANGED shm
     ELSE Go(p, "fields") /\ shm' = [shm EXCEPT ![myshm[p]].magic = TRUE]
  /\ UNCHANGED <<shmkey, semkey, sem, old, myshm, mysem, incident>>

InitFields(p) ==
  /\ At(p, "fields")
  /\ shm' = [shm EXCEPT ![myshm[p]].capacity = TRUE]
  /\ Go(p, "unlock")
  /\ UNCHANGED <<shmkey, semkey, sem, old, myshm, mysem, incident>>

InitUnlock(p) ==
  /\ At(p, "unlock")
  /\ IF sem[mysem[p]].live
     THEN sem' = [sem EXCEPT ![mysem[p]].val = @ + 1, ![mysem[p]].pid = p] /\ Go(p, "up")
          /\ UNCHANGED shm
     ELSE shm' = Detached(p) /\ Go(p, "ended") /\ UNCHANGED sem
  /\ UNCHANGED <<shmkey, semkey, old, myshm, mysem, incident>>

\* get_data, storage_data and print_status; without the semaphore they do nothing.
Use(p) ==
  /\ At(p, "up") /\ p \notin Hub
  /\ Take(p)
  /\ Go(p, "use")
  /\ UNCHANGED <<shmkey, semkey, shm, old, myshm, mysem, incident>>

Used(p) ==
  /\ At(p, "use")
  /\ IF sem[mysem[p]].live
     THEN sem' = [sem EXCEPT ![mysem[p]].val = @ + 1, ![mysem[p]].pid = p]
     ELSE UNCHANGED sem
  /\ Go(p, "up")
  /\ UNCHANGED <<shmkey, semkey, shm, old, myshm, mysem, incident>>

\* A process ends: the others detach, the hub's cleaning_thread goes on to cleaning().
End(p) ==
  /\ At(p, "up")
  /\ incident' = incident \union Overlaps(p)
  /\ shm' = Detached(p)
  /\ Go(p, IF p \in Hub THEN "cleanshm" ELSE "ended")
  /\ UNCHANGED <<shmkey, semkey, sem, old, myshm, mysem>>

\* cleaning() stops at the first object it cannot remove.
CleanShm(p) ==
  /\ At(p, "cleanshm")
  /\ IF Gone(shm[myshm[p]])
     THEN Go(p, "ended") /\ UNCHANGED <<shm, shmkey>>
     ELSE Go(p, "cleansem") /\ RemoveShm(myshm[p])
  /\ UNCHANGED <<semkey, sem, old, myshm, mysem, incident>>

CleanSem(p) ==
  /\ At(p, "cleansem")
  /\ RemoveSem(mysem[p])
  /\ Go(p, "ended")
  /\ UNCHANGED <<shmkey, shm, old, myshm, mysem, incident>>

Holds(p, i) == pc[p] \in Critical /\ mysem[p] = i

\* A process that is killed on its way up, or cleaning up, leaves its work half done.
Early(p) == IF pc[p] \in Starting \union {"cleanshm", "cleansem"} THEN {"crash"} ELSE {}

\* A process is killed: the kernel detaches it and undoes its semaphore operations.
Crash(p) ==
  /\ pc[p] \notin {"off", "ended"}
  /\ incident' = incident \union Overlaps(p) \union Early(p)
  /\ shm' = Detached(p)
  /\ sem' = [i \in Id |-> IF sem[i].live /\ Holds(p, i)
                          THEN [sem[i] EXCEPT !.val = @ + 1, !.pid = p] ELSE sem[i]]
  /\ Go(p, "ended")
  /\ UNCHANGED <<shmkey, semkey, old, myshm, mysem>>
-----------------------------------------------------------------------------
Next ==
  \E p \in Proc :
    \/ Start(p)
    \/ ShmOld(p) \/ ShmStat(p) \/ ShmRemove(p) \/ ShmCreate(p) \/ ShmGet(p)
    \/ SemOld(p) \/ SemVal(p) \/ SemPid(p) \/ SemRemove(p) \/ SemCreate(p)
    \/ SemSet(p) \/ SemDummy(p) \/ SemGet(p) \/ SemWait(p) \/ SemGiveUp(p)
    \/ Attach(p) \/ InitLock(p) \/ InitMagic(p) \/ InitFields(p) \/ InitUnlock(p)
    \/ Use(p) \/ Used(p) \/ End(p) \/ CleanShm(p) \/ CleanSem(p) \/ Crash(p)

Spec == Init /\ [][Next]_vars
-----------------------------------------------------------------------------
(* Properties *)

\* The semaphore is 1 less the number of its holders, once its maker has set it: no end of
\* a process at any point, with SEM_UNDO, leaves it locked or unlocks it twice.  And of the
\* processes attached to one segment at most one is between semop(-1) and semop(+1)
\* (init_shmem, get_data, storage_data), if no process starts or ends while another is
\* starting or cleaning up, and none is killed on its way up or cleaning up: one started
\* with --reset that dies between the removal of the two leaves a semaphore that a later
\* clean-up takes away from the new segment.  Processes may be killed in use, also with the
\* semaphore.
MutualExclusion ==
  /\ \A i \in Id : sem[i].live /\ sem[i].otime =>
       sem[i].val + Cardinality({p \in Proc : Holds(p, i)}) = 1
  /\ incident = {} =>
       \A p, q \in Proc :
         p # q /\ pc[p] \in Critical /\ pc[q] \in Critical => myshm[p] # myshm[q]

\* A process that starts alone is turned away only by a segment in use whose identifier is 0,
\* whatever others left behind when they ended or were killed in use (get_id_all,
\* attach_share_mem, init_shmem); and a writer or hub comes up with a segment whose capacity
\* is set, by which its indices are reduced: the magic number that says so is written first.
StartSucceeds ==
  [][incident' = {} => \A p \in Proc :
       pc[p] \in Starting =>
         /\ pc'[p] # "ended" \/ shmkey = 0
         /\ p \notin Monitor /\ pc'[p] = "up" => shm'[myshm[p]].capacity]_vars

\* get_shmem finds an existing segment: get_id_all prints "reusign shm" and goes on.  The
\* segment that the first process of a freshly booted system makes may have the identifier 0,
\* which is taken for a failure, and no other process comes up beside that one.
ZeroIsReused ==
  [][incident' = {} => \A p \in Proc : pc[p] \in Starting => pc'[p] # "ended"]_vars
=============================================================================
