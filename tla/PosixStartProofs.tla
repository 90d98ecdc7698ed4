-------------------------- MODULE PosixStartProofs --------------------------
(***************************************************************************)
(* The programs of gateway-core-posix exclude each other on every object    *)
(* whose mutex was not spoilt, and running programs have the same objects:  *)
(* proofs of the properties of module PosixStart for any number of          *)
(* programs, objects and starts.                                            *)
(***************************************************************************)
EXTENDS PosixStart, TLAPS

Initialising == {"magic", "mutex", "sems"}
Sized == {"test", "init", "threads", "run", "inside", "close", "destroy"} \cup Initialising
Mapped == {"size"} \cup Sized
Label == {"off", "open", "reopen", "unlink"} \cup Mapped

TypeOK ==
  /\ shmName \in 0..MaxObject /\ mqName \in 0..MaxObject
  /\ created \in [shm : 0..MaxObject, mq : 0..MaxObject]
  /\ size \in [Object -> {"zero", "full"}]
  /\ magic \in SUBSET Object
  /\ sync \in [Object -> {"none", "mutex", "ready", "destroyed"}]
  /\ holder \in [Object -> Program \cup {Nobody}]
  /\ pc \in [Program -> Label]
  /\ shm \in [Program -> 0..MaxObject] /\ mq \in [Program -> 0..MaxObject]
  /\ spoilt \in SUBSET Object /\ cut \in SUBSET Program

\* What a program has open follows from where it is, and what it has mapped is sized.
OpenOK ==
  \A p \in Program :
    /\ shm[p] # 0 <=> pc[p] \in Mapped
    /\ mq[p] # 0 <=> pc[p] \in {"open", "reopen"} \cup (Mapped \ {"destroy"})
    /\ pc[p] \in Sized => size[shm[p]] = "full"

\* What is open under a name that was not unlinked since is what the name says.
NamesOK ==
  \A p \in Program \ cut :
    /\ shm[p] # 0 => shm[p] = shmName
    /\ mq[p] # 0 => mq[p] = mqName

\* The magic number is written before the mutex.
MagicOK ==
  /\ \A o \in Object : sync[o] = "ready" => o \in magic
  /\ \A p \in Program : pc[p] \in {"mutex", "sems"} => shm[p] \in magic

\* An object that is not spoilt is initialised by one program, and before any runs.
InitOnce ==
  \A p \in Program :
    /\ pc[p] \in Initialising /\ shm[p] \notin spoilt =>
         /\ sync[shm[p]] # "ready"
         /\ \A q \in Program \ {p} : pc[q] \in Initialising => shm[q] # shm[p]
    /\ pc[p] \in {"run", "inside"} /\ shm[p] \notin spoilt => sync[shm[p]] = "ready"

\* Who is inside holds the mutex.
HolderOK ==
  \A p \in Program : pc[p] = "inside" /\ shm[p] \notin spoilt => holder[shm[p]] = p

IndInv == TypeOK /\ OpenOK /\ NamesOK /\ MagicOK /\ InitOnce /\ HolderOK
-----------------------------------------------------------------------------
\* The assumption and small abbreviations are used in every proof.
USE PosixStartAssumption DEF Object, Nobody, Goto, Off, Unlinked, objects,
        Label, Mapped, Sized, Initialising
-----------------------------------------------------------------------------
(* Leaving without a trace; opening the objects *)

\* A program that is killed, or whose start fails, leaves the objects as they are.
LEMMA DiesStep ==
  ASSUME IndInv, NEW p \in Program, Dies(p)
  PROVE  IndInv'
<1>1. TypeOK'  BY DEF IndInv, TypeOK, Dies
<1>2. OpenOK'  BY DEF IndInv, TypeOK, OpenOK, Dies
<1>3. NamesOK'  BY DEF IndInv, TypeOK, OpenOK, NamesOK, Dies
<1>4. MagicOK'  BY DEF IndInv, TypeOK, OpenOK, MagicOK, Dies
<1>5. InitOnce'  BY DEF IndInv, TypeOK, OpenOK, MagicOK, InitOnce, Dies
<1>6. HolderOK'  BY DEF IndInv, TypeOK, OpenOK, InitOnce, HolderOK, Dies
<1> QED BY <1>1, <1>2, <1>3, <1>4, <1>5, <1>6 DEF IndInv

\* A start finds the queue of the name or makes one.
LEMMA get_mqStep ==
  ASSUME IndInv, NEW p \in Program, get_mq(p)
  PROVE  IndInv'
<1>1. PICK n \in Object : mq' = [mq EXCEPT ![p] = n] /\ mqName' = n /\ mqName \in {0, n}
  BY DEF get_mq, IndInv, TypeOK
<1>2. /\ pc[p] = "off" /\ pc' = [pc EXCEPT ![p] = "open"]
      /\ created' \in [shm : 0..MaxObject, mq : 0..MaxObject]
      /\ UNCHANGED <<shmName, size, magic, sync, holder, shm, spoilt, cut>>
  BY DEF get_mq, IndInv, TypeOK
<1>3. TypeOK'  BY <1>1, <1>2 DEF IndInv, TypeOK
<1>4. OpenOK'  BY <1>1, <1>2 DEF IndInv, TypeOK, OpenOK
<1>5. NamesOK'  BY <1>1, <1>2 DEF IndInv, TypeOK, OpenOK, NamesOK
<1>6. MagicOK'  BY <1>1, <1>2 DEF IndInv, TypeOK, OpenOK, MagicOK
<1>7. InitOnce'  BY <1>1, <1>2 DEF IndInv, TypeOK, OpenOK, MagicOK, InitOnce
<1>8. HolderOK'  BY <1>1, <1>2 DEF IndInv, TypeOK, OpenOK, InitOnce, HolderOK
<1> QED BY <1>3, <1>4, <1>5, <1>6, <1>7, <1>8 DEF IndInv

\* shm_open with O_EXCL makes an object, which nobody else has, or fails.
LEMMA OpenStep ==
  ASSUME IndInv, NEW p \in Program, Open(p)
  PROVE  IndInv'
<1>1. CASE shmName = 0
  <2>0. PICK o \in Object : o = created.shm + 1
    BY <1>1 DEF Open, IndInv, TypeOK
  <2>1. /\ pc[p] = "open" /\ shmName = 0 /\ shmName' = o
        /\ shm' = [shm EXCEPT ![p] = o] /\ pc' = [pc EXCEPT ![p] = "size"]
        /\ created' = [created EXCEPT !.shm = o]
        /\ UNCHANGED <<mqName, size, magic, sync, holder, mq, spoilt, cut>>
    BY <1>1, <2>0 DEF Open
  <2>2. TypeOK'
    <3>1. created' \in [shm : 0..MaxObject, mq : 0..MaxObject]
      BY DEF IndInv, TypeOK, Open
    <3>2. shm' \in [Program -> 0..MaxObject] /\ shmName' \in 0..MaxObject
      BY <2>1 DEF IndInv, TypeOK
    <3> QED BY <2>1, <3>1, <3>2, Zenon DEF IndInv, TypeOK
  <2>3. OpenOK'  BY <2>1 DEF IndInv, TypeOK, OpenOK
  <2>4. NamesOK'  BY <2>1 DEF IndInv, TypeOK, OpenOK, NamesOK
  <2>5. MagicOK'  BY <2>1 DEF IndInv, TypeOK, OpenOK, MagicOK
  <2>6. InitOnce'  BY <2>1 DEF IndInv, TypeOK, OpenOK, MagicOK, InitOnce
  <2>7. HolderOK'  BY <2>1 DEF IndInv, TypeOK, OpenOK, InitOnce, HolderOK
  <2> QED BY <2>2, <2>3, <2>4, <2>5, <2>6, <2>7 DEF IndInv
<1>2. CASE shmName # 0
  <2>1. /\ pc[p] = "open" /\ pc' = [pc EXCEPT ![p] = "reopen"]
        /\ UNCHANGED <<objects, shm, mq, spoilt, cut>>
    BY <1>2 DEF Open
  <2>2. TypeOK'  BY <2>1 DEF IndInv, TypeOK
  <2>3. OpenOK'  BY <2>1 DEF IndInv, TypeOK, OpenOK
  <2>4. NamesOK'  BY <2>1 DEF IndInv, TypeOK, OpenOK, NamesOK
  <2>5. MagicOK'  BY <2>1 DEF IndInv, TypeOK, OpenOK, MagicOK
  <2>6. InitOnce'  BY <2>1 DEF IndInv, TypeOK, OpenOK, MagicOK, InitOnce
  <2>7. HolderOK'  BY <2>1 DEF IndInv, TypeOK, OpenOK, InitOnce, HolderOK
  <2> QED BY <2>2, <2>3, <2>4, <2>5, <2>6, <2>7 DEF IndInv
<1> QED BY <1>1, <1>2

\* The second shm_open finds the object of the name, or the start has failed.
LEMMA ReopenStep ==
  ASSUME IndInv, NEW p \in Program, Reopen(p)
  PROVE  IndInv'
<1>1. CASE shmName = 0
  <2>1. Dies(p)
    BY <1>1 DEF Reopen, Dies
  <2> QED BY <2>1, DiesStep
<1>2. CASE shmName # 0
  <2>1. /\ pc[p] = "reopen" /\ shmName # 0
        /\ shm' = [shm EXCEPT ![p] = shmName] /\ pc' = [pc EXCEPT ![p] = "size"]
        /\ UNCHANGED <<objects, mq, spoilt, cut>>
    BY <1>2 DEF Reopen
  <2>2. TypeOK'  BY <2>1 DEF IndInv, TypeOK
  <2>3. OpenOK'  BY <2>1 DEF IndInv, TypeOK, OpenOK
  <2>4. NamesOK'  BY <2>1 DEF IndInv, TypeOK, OpenOK, NamesOK
  <2>5. MagicOK'  BY <2>1 DEF IndInv, TypeOK, OpenOK, MagicOK
  <2>6. InitOnce'  BY <2>1 DEF IndInv, TypeOK, OpenOK, MagicOK, InitOnce
  <2>7. HolderOK'  BY <2>1 DEF IndInv, TypeOK, OpenOK, InitOnce, HolderOK
  <2> QED BY <2>2, <2>3, <2>4, <2>5, <2>6, <2>7 DEF IndInv
<1> QED BY <1>1, <1>2

\* get_shm sizes the object before it is used.
LEMMA TruncateStep ==
  ASSUME IndInv, NEW p \in Program, Truncate(p)
  PROVE  IndInv'
<1>1. TypeOK'  BY Zenon DEF IndInv, TypeOK, Truncate
<1>2. OpenOK'  BY DEF IndInv, TypeOK, OpenOK, Truncate
<1>3. NamesOK'  BY DEF IndInv, TypeOK, OpenOK, NamesOK, Truncate
<1>4. MagicOK'  BY DEF IndInv, TypeOK, OpenOK, MagicOK, Truncate
<1>5. InitOnce'  BY DEF IndInv, TypeOK, OpenOK, MagicOK, InitOnce, Truncate
<1>6. HolderOK'  BY DEF IndInv, TypeOK, OpenOK, InitOnce, HolderOK, Truncate
<1> QED BY <1>1, <1>2, <1>3, <1>4, <1>5, <1>6 DEF IndInv
-----------------------------------------------------------------------------
(* init_shm() and its test *)

\* main looks for the magic number.
LEMMA MainTestStep ==
  ASSUME IndInv, NEW p \in Program, MainTest(p)
  PROVE  IndInv'
<1>1. TypeOK'  BY DEF IndInv, TypeOK, MainTest
<1>2. OpenOK'  BY DEF IndInv, TypeOK, OpenOK, MainTest
<1>3. NamesOK'  BY DEF IndInv, TypeOK, OpenOK, NamesOK, MainTest
<1>4. MagicOK'  BY DEF IndInv, TypeOK, OpenOK, MagicOK, MainTest
<1>5. InitOnce'  BY DEF IndInv, TypeOK, OpenOK, MagicOK, InitOnce, MainTest
<1>6. HolderOK'  BY DEF IndInv, TypeOK, OpenOK, InitOnce, HolderOK, MainTest
<1> QED BY <1>1, <1>2, <1>3, <1>4, <1>5, <1>6 DEF IndInv

\* init_shm: a second initialisation of the same object spoils it.
LEMMA InitTestStep ==
  ASSUME IndInv, NEW p \in Program, InitTest(p)
  PROVE  IndInv'
<1>0. shm[p] \in Object
  BY DEF IndInv, TypeOK, OpenOK, InitTest
<1>1. TypeOK'  BY <1>0, ZenonT(30) DEF IndInv, TypeOK, InitTest
<1>2. OpenOK'  BY DEF IndInv, TypeOK, OpenOK, InitTest
<1>3. NamesOK'  BY DEF IndInv, TypeOK, OpenOK, NamesOK, InitTest
<1>4. MagicOK'  BY DEF IndInv, TypeOK, OpenOK, MagicOK, InitTest
<1>5. InitOnce'  BY DEF IndInv, TypeOK, OpenOK, MagicOK, InitOnce, InitTest
<1>6. HolderOK'  BY DEF IndInv, TypeOK, OpenOK, InitOnce, HolderOK, InitTest
<1> QED BY <1>1, <1>2, <1>3, <1>4, <1>5, <1>6 DEF IndInv

\* The magic number is written.
LEMMA InitMagicStep ==
  ASSUME IndInv, NEW p \in Program, InitMagic(p)
  PROVE  IndInv'
<1>0. shm[p] \in Object
  BY DEF IndInv, TypeOK, OpenOK, InitMagic
<1>1. TypeOK'  BY <1>0, Zenon DEF IndInv, TypeOK, InitMagic
<1>2. OpenOK'  BY DEF IndInv, TypeOK, OpenOK, InitMagic
<1>3. NamesOK'  BY DEF IndInv, TypeOK, OpenOK, NamesOK, InitMagic
<1>4. MagicOK'  BY DEF IndInv, TypeOK, OpenOK, MagicOK, InitMagic
<1>5. InitOnce'  BY DEF IndInv, TypeOK, OpenOK, MagicOK, InitOnce, InitMagic
<1>6. HolderOK'  BY DEF IndInv, TypeOK, OpenOK, InitOnce, HolderOK, InitMagic
<1> QED BY <1>1, <1>2, <1>3, <1>4, <1>5, <1>6 DEF IndInv

\* The mutex is initialised, and nobody is inside unless the object is spoilt.
LEMMA InitMutexStep ==
  ASSUME IndInv, NEW p \in Program, InitMutex(p)
  PROVE  IndInv'
<1>1. TypeOK'  BY Zenon DEF IndInv, TypeOK, InitMutex
<1>2. OpenOK'  BY DEF IndInv, TypeOK, OpenOK, InitMutex
<1>3. NamesOK'  BY DEF IndInv, TypeOK, OpenOK, NamesOK, InitMutex
<1>4. MagicOK'  BY DEF IndInv, TypeOK, OpenOK, MagicOK, InitMutex
<1>5. InitOnce'  BY DEF IndInv, TypeOK, OpenOK, MagicOK, InitOnce, InitMutex
<1>6. HolderOK'  BY DEF IndInv, TypeOK, OpenOK, InitOnce, HolderOK, InitMutex
<1> QED BY <1>1, <1>2, <1>3, <1>4, <1>5, <1>6 DEF IndInv

\* The one program that initialises the object is done.
LEMMA InitSemsStep ==
  ASSUME IndInv, NEW p \in Program, InitSems(p)
  PROVE  IndInv'
<1>1. TypeOK'  BY ZenonT(30) DEF IndInv, TypeOK, InitSems
<1>2. OpenOK'  BY DEF IndInv, TypeOK, OpenOK, InitSems
<1>3. NamesOK'  BY DEF IndInv, TypeOK, OpenOK, NamesOK, InitSems
<1>4. MagicOK'  BY DEF IndInv, TypeOK, OpenOK, MagicOK, InitSems
<1>5. InitOnce'  BY DEF IndInv, TypeOK, OpenOK, MagicOK, InitOnce, InitSems
<1>6. HolderOK'  BY DEF IndInv, TypeOK, OpenOK, InitOnce, HolderOK, InitSems
<1> QED BY <1>1, <1>2, <1>3, <1>4, <1>5, <1>6 DEF IndInv

\* A program that runs on an object which is not ready spoils it.
LEMMA RunStep ==
  ASSUME IndInv, NEW p \in Program, Run(p)
  PROVE  IndInv'
<1>0. shm[p] \in Object
  BY DEF IndInv, TypeOK, OpenOK, Run
<1>1. TypeOK'  BY <1>0, Zenon DEF IndInv, TypeOK, Run
<1>2. OpenOK'  BY DEF IndInv, TypeOK, OpenOK, Run
<1>3. NamesOK'  BY DEF IndInv, TypeOK, OpenOK, NamesOK, Run
<1>4. MagicOK'  BY DEF IndInv, TypeOK, OpenOK, MagicOK, Run
<1>5. InitOnce'  BY DEF IndInv, TypeOK, OpenOK, MagicOK, InitOnce, Run
<1>6. HolderOK'  BY DEF IndInv, TypeOK, OpenOK, InitOnce, HolderOK, Run
<1> QED BY <1>1, <1>2, <1>3, <1>4, <1>5, <1>6 DEF IndInv
-----------------------------------------------------------------------------
(* Using the memory *)

\* pthread_mutex_lock succeeds when nobody holds the mutex.
LEMMA EnterStep ==
  ASSUME IndInv, NEW p \in Program, Enter(p)
  PROVE  IndInv'
<1>1. TypeOK'  BY ZenonT(30) DEF IndInv, TypeOK, Enter
<1>2. OpenOK'  BY DEF IndInv, TypeOK, OpenOK, Enter
<1>3. NamesOK'  BY DEF IndInv, TypeOK, OpenOK, NamesOK, Enter
<1>4. MagicOK'  BY DEF IndInv, TypeOK, OpenOK, MagicOK, Enter
<1>5. InitOnce'  BY DEF IndInv, TypeOK, OpenOK, MagicOK, InitOnce, Enter
<1>6. HolderOK'  BY DEF IndInv, TypeOK, OpenOK, InitOnce, HolderOK, Enter
<1> QED BY <1>1, <1>2, <1>3, <1>4, <1>5, <1>6 DEF IndInv

\* Only the holder frees the mutex.
LEMMA LeaveStep ==
  ASSUME IndInv, NEW p \in Program, Leave(p)
  PROVE  IndInv'
<1>1. TypeOK'  BY ZenonT(30) DEF IndInv, TypeOK, Leave
<1>2. OpenOK'  BY DEF IndInv, TypeOK, OpenOK, Leave
<1>3. NamesOK'  BY DEF IndInv, TypeOK, OpenOK, NamesOK, Leave
<1>4. MagicOK'  BY DEF IndInv, TypeOK, OpenOK, MagicOK, Leave
<1>5. InitOnce'  BY DEF IndInv, TypeOK, OpenOK, MagicOK, InitOnce, Leave
<1>6. HolderOK'  BY DEF IndInv, TypeOK, OpenOK, InitOnce, HolderOK, Leave
<1> QED BY <1>1, <1>2, <1>3, <1>4, <1>5, <1>6 DEF IndInv
-----------------------------------------------------------------------------
(* Leaving *)

\* After a name was unlinked only programs that are off count as started since.
LEMMA UnlinkedNames ==
  ASSUME TypeOK', OpenOK', Unlinked
  PROVE  NamesOK'
<1> SUFFICES ASSUME NEW q \in Program, q \notin cut'
             PROVE  shm'[q] = 0 /\ mq'[q] = 0
  BY DEF NamesOK
<1>1. pc'[q] = "off"
  BY DEF Unlinked
<1> QED BY <1>1 DEF OpenOK, Mapped, Sized, Initialising

\* A start that fails late unlinks both names.
LEMMA ThreadFailsStep ==
  ASSUME IndInv, NEW p \in Program, ThreadFails(p)
  PROVE  IndInv'
<1>1. TypeOK'  BY DEF IndInv, TypeOK, ThreadFails
<1>2. OpenOK'  BY DEF IndInv, TypeOK, OpenOK, ThreadFails
<1>3. NamesOK'  BY <1>1, <1>2, UnlinkedNames DEF ThreadFails
<1>4. MagicOK'  BY DEF IndInv, TypeOK, OpenOK, MagicOK, ThreadFails
<1>5. InitOnce'  BY DEF IndInv, TypeOK, OpenOK, MagicOK, InitOnce, ThreadFails
<1>6. HolderOK'  BY DEF IndInv, TypeOK, OpenOK, InitOnce, HolderOK, ThreadFails
<1> QED BY <1>1, <1>2, <1>3, <1>4, <1>5, <1>6 DEF IndInv

\* The controller unlinks the queue's name.
LEMMA CloseQueueStep ==
  ASSUME IndInv, NEW p \in Program, CloseQueue(p)
  PROVE  IndInv'
<1>1. TypeOK'  BY DEF IndInv, TypeOK, CloseQueue
<1>2. OpenOK'  BY DEF IndInv, TypeOK, OpenOK, CloseQueue
<1>3. NamesOK'
  <2>1. CASE p = "controller"
    BY <2>1, <1>1, <1>2, UnlinkedNames DEF CloseQueue
  <2>2. CASE p # "controller"
    BY <2>2, <1>1, <1>2 DEF IndInv, TypeOK, OpenOK, NamesOK, CloseQueue
  <2> QED BY <2>1, <2>2
<1>4. MagicOK'  BY DEF IndInv, TypeOK, OpenOK, MagicOK, CloseQueue
<1>5. InitOnce'  BY DEF IndInv, TypeOK, OpenOK, MagicOK, InitOnce, CloseQueue
<1>6. HolderOK'  BY DEF IndInv, TypeOK, OpenOK, InitOnce, HolderOK, CloseQueue
<1> QED BY <1>1, <1>2, <1>3, <1>4, <1>5, <1>6 DEF IndInv

\* shutdown_ipc destroys the mutex, which spoils the object.
LEMMA CloseMemoryStep ==
  ASSUME IndInv, NEW p \in Program, CloseMemory(p)
  PROVE  IndInv'
<1>0. shm[p] \in Object
  BY DEF IndInv, TypeOK, OpenOK, CloseMemory
<1>1. TypeOK'
  <2>1. sync' \in [Object -> {"none", "mutex", "ready", "destroyed"}]
    BY <1>0, ZenonT(30) DEF IndInv, TypeOK, CloseMemory
  <2>2. spoilt' \in SUBSET Object
    BY <1>0, ZenonT(30) DEF IndInv, TypeOK, CloseMemory
  <2> QED BY <2>1, <2>2 DEF IndInv, TypeOK, CloseMemory
<1>2. OpenOK'  BY DEF IndInv, TypeOK, OpenOK, CloseMemory
<1>3. NamesOK'  BY DEF IndInv, TypeOK, OpenOK, NamesOK, CloseMemory
<1>4. MagicOK'  BY DEF IndInv, TypeOK, OpenOK, MagicOK, CloseMemory
<1>5. InitOnce'  BY DEF IndInv, TypeOK, OpenOK, MagicOK, InitOnce, CloseMemory
<1>6. HolderOK'  BY DEF IndInv, TypeOK, OpenOK, InitOnce, HolderOK, CloseMemory
<1> QED BY <1>1, <1>2, <1>3, <1>4, <1>5, <1>6 DEF IndInv

\* The controller unlinks the memory's name.
LEMMA UnlinkStep ==
  ASSUME IndInv, NEW p \in Program, Unlink(p)
  PROVE  IndInv'
<1>1. TypeOK'  BY DEF IndInv, TypeOK, Unlink
<1>2. OpenOK'  BY DEF IndInv, TypeOK, OpenOK, Unlink
<1>3. NamesOK'
  <2>1. CASE p = "controller"
    BY <2>1, <1>1, <1>2, UnlinkedNames DEF Unlink
  <2>2. CASE p # "controller"
    BY <2>2, <1>1, <1>2 DEF IndInv, TypeOK, OpenOK, NamesOK, Unlink
  <2> QED BY <2>1, <2>2
<1>4. MagicOK'  BY DEF IndInv, TypeOK, OpenOK, MagicOK, Unlink
<1>5. InitOnce'  BY DEF IndInv, TypeOK, OpenOK, MagicOK, InitOnce, Unlink
<1>6. HolderOK'  BY DEF IndInv, TypeOK, OpenOK, InitOnce, HolderOK, Unlink
<1> QED BY <1>1, <1>2, <1>3, <1>4, <1>5, <1>6 DEF IndInv
-----------------------------------------------------------------------------
\* The inductive invariant: Init and every step of the programs keep it.
THEOREM Invariance == Spec => []IndInv
<1>1. Init => IndInv
  BY DEF Init, IndInv, TypeOK, OpenOK, NamesOK, MagicOK, InitOnce, HolderOK,
         Object, Nobody, Label, Mapped, Sized, Initialising
<1>2. IndInv /\ [Next]_vars => IndInv'
  <2> SUFFICES ASSUME IndInv, [Next]_vars
               PROVE  IndInv'
    OBVIOUS
  <2>1. ASSUME NEW p \in Program,
               \/ get_mq(p) \/ Open(p) \/ Reopen(p) \/ Truncate(p) \/ MainTest(p) \/ InitTest(p)
               \/ InitMagic(p) \/ InitMutex(p) \/ InitSems(p)
        PROVE  IndInv'
    BY <2>1, get_mqStep, OpenStep, ReopenStep, TruncateStep, MainTestStep, InitTestStep,
       InitMagicStep, InitMutexStep, InitSemsStep
  <2>2. ASSUME NEW p \in Program,
               \/ Run(p) \/ ThreadFails(p) \/ Enter(p) \/ Leave(p) \/ CloseQueue(p)
               \/ CloseMemory(p) \/ Unlink(p) \/ Dies(p)
        PROVE  IndInv'
    BY <2>2, RunStep, ThreadFailsStep, EnterStep, LeaveStep, CloseQueueStep, CloseMemoryStep,
       UnlinkStep, DiesStep
  <2>3. CASE UNCHANGED vars
    BY <2>3 DEF vars, IndInv, TypeOK, OpenOK, NamesOK, MagicOK, InitOnce, HolderOK
  <2> QED BY <2>1, <2>2, <2>3 DEF Next
<1> QED BY <1>1, <1>2, PTL DEF Spec

\* Programs that lock the mutex of an object in get_data, storage_data or sig_thread exclude
\* each other, if the object is not spoilt: no kill, restart, unlinked name or failing start
\* takes the mutex from its holder.
THEOREM MutexExcludes == Spec => []ExclusiveUnlessSpoilt
<1>1. IndInv => ExclusiveUnlessSpoilt
  BY Zenon DEF IndInv, HolderOK, ExclusiveUnlessSpoilt
<1> QED BY <1>1, Invariance, PTL

\* Running programs share their memory, which has its size, and their queue, if get_mq and
\* get_shm of neither were followed by an unlink of a name.
THEOREM ProgramsMeet == Spec => []Together
<1>1. IndInv => Together
  <2> SUFFICES ASSUME IndInv
               PROVE  Together
    OBVIOUS
  <2>1. \A p \in Program : Running(p) => shm[p] # 0 /\ mq[p] # 0 /\ size[shm[p]] = "full"
    BY DEF IndInv, OpenOK, Running, Mapped, Sized
  <2> QED BY <2>1 DEF IndInv, NamesOK, Together
<1> QED BY <1>1, Invariance, PTL
=============================================================================
