------------------------- MODULE GatewaydPoolProofs -------------------------
(***************************************************************************)
(* Lemmas about the tasks of gatewayd: every task in flight is in one place *)
(* only, and what the steps of module PriorityWorkers do to the tasks in    *)
(* flight; the invariant of the server, and the steps that leave the client *)
(* slots alone.                                                             *)
(***************************************************************************)
EXTENDS Gatewayd, TLAPS

\* Tasks and replies without the bounds on connections and frames.
AnyTask == [fd : Fd, client_generation : Nat, connection_id : Nat, packet : Nat]
AnyReply == [connection_id : Nat, packet : Nat]

\* Every task is in one place: in a queue or with a worker, which is busy with it.
PoolInv ==
  /\ queue \in [PW!Priority -> Seq(AnyTask)]
  /\ job \in [Worker -> AnyTask \cup {NULL}]
  /\ pc \in [Worker -> {"check", "wait", "busy", "exit"}]
  /\ \A w \in Worker : pc[w] = "busy" <=> job[w] # NULL
  /\ \A p, q \in PW!Priority : \A i \in DOMAIN queue[p], j \in DOMAIN queue[q] :
       queue[p][i] = queue[q][j] => p = q /\ i = j
  /\ \A w \in Worker : job[w] # NULL => job[w] \notin PW!Queued
  /\ \A v, w \in Worker : job[v] = job[w] /\ job[w] # NULL => v = w
-----------------------------------------------------------------------------
(* The pool of workers: what its steps do to the tasks in flight *)

\* Enqueue makes a new task one that is in flight.
LEMMA EnqueueEffect ==
  ASSUME PoolInv, NEW t \in AnyTask, t \notin PW!InFlight, NEW p \in PW!Priority, PW!Enqueue(t, p)
  PROVE  PoolInv' /\ PW!InFlight' = PW!InFlight \cup {t}
<1> USE DEF PoolInv
<1>1. /\ queue' = [queue EXCEPT ![p] = Append(queue[p], t)] /\ job' = job
      /\ pc' \in [Worker -> {"check", "wait", "busy", "exit"}]
      /\ \A w \in Worker : pc'[w] = "busy" <=> pc[w] = "busy"
  BY DEF PW!Enqueue, PW!WakeOne
<1>2. queue' \in [PW!Priority -> Seq(AnyTask)]
  BY <1>1
<1>3. \A q \in PW!Priority : q # p => queue'[q] = queue[q]
  BY <1>1
<1>4. /\ DOMAIN queue'[p] = DOMAIN queue[p] \cup {Len(queue[p]) + 1}
      /\ \A i \in DOMAIN queue[p] : queue'[p][i] = queue[p][i]
      /\ queue'[p][Len(queue[p]) + 1] = t
      /\ Len(queue[p]) + 1 \notin DOMAIN queue[p]
  BY <1>1
<1>5. PW!Queued' = PW!Queued \cup {t}
  <2>1. ASSUME NEW q \in PW!Priority, NEW i \in DOMAIN queue'[q]
        PROVE  queue'[q][i] \in PW!Queued \cup {t}
    <3>1. CASE q = p
      BY <3>1, <1>4 DEF PW!Queued
    <3>2. CASE q # p
      BY <3>2, <1>3 DEF PW!Queued
    <3> QED BY <3>1, <3>2
  <2>2. \A x : x \in PW!Queued => x \in PW!Queued'
    BY <1>3, <1>4 DEF PW!Queued
  <2>3. t \in PW!Queued'
    BY <1>4 DEF PW!Queued
  <2>4. \A x \in PW!Queued' : x \in PW!Queued \cup {t}
    BY <2>1 DEF PW!Queued
  <2> QED BY <2>2, <2>3, <2>4
<1>6. PW!InFlight' = PW!InFlight \cup {t}
  BY <1>1, <1>5 DEF PW!InFlight
<1>7. \A q \in PW!Priority : \A i \in DOMAIN queue[q] : queue[q][i] # t
  BY DEF PW!InFlight, PW!Queued
<1>8. \A q, r \in PW!Priority : \A i \in DOMAIN queue'[q], j \in DOMAIN queue'[r] :
        queue'[q][i] = queue'[r][j] => q = r /\ i = j
  <2> SUFFICES ASSUME NEW q \in PW!Priority, NEW r \in PW!Priority,
                      NEW i \in DOMAIN queue'[q], NEW j \in DOMAIN queue'[r],
                      queue'[q][i] = queue'[r][j]
               PROVE  q = r /\ i = j
    OBVIOUS
  <2>1. CASE q = p /\ r = p
    BY <2>1, <1>4, <1>7
  <2>2. CASE q = p /\ r # p
    BY <2>2, <1>3, <1>4, <1>7
  <2>3. CASE q # p /\ r = p
    BY <2>3, <1>3, <1>4, <1>7
  <2>4. CASE q # p /\ r # p
    BY <2>4, <1>3
  <2> QED BY <2>1, <2>2, <2>3, <2>4
<1>9. \A w \in Worker : job'[w] # NULL => job'[w] \notin PW!Queued'
  BY <1>1, <1>5 DEF PW!InFlight
<1> QED BY <1>1, <1>2, <1>6, <1>8, <1>9

\* Take moves the oldest task of a queue to the worker.
LEMMA TakeEffect ==
  ASSUME PoolInv, NEW w \in Worker, PW!Take(w), NULL \notin AnyTask
  PROVE  PoolInv' /\ PW!InFlight' = PW!InFlight
<1> USE DEF PoolInv
<1>1. PICK i \in DOMAIN PW!Serves(w) :
        /\ queue[PW!Serves(w)[i]] # <<>>
        /\ job' = [job EXCEPT ![w] = Head(queue[PW!Serves(w)[i]])]
        /\ queue' = [queue EXCEPT ![PW!Serves(w)[i]] = Tail(queue[PW!Serves(w)[i]])]
  BY Zenon DEF PW!Take
<1> DEFINE p == PW!Serves(w)[i]
<1>2. p \in PW!Priority
  BY GatewaydAssumption DEF PW!Serves, PW!Priority
<1>3. /\ queue[p] # <<>> /\ job' = [job EXCEPT ![w] = Head(queue[p])]
      /\ queue' = [queue EXCEPT ![p] = Tail(queue[p])]
      /\ pc[w] = "check" /\ pc' = [pc EXCEPT ![w] = "busy"]
  BY <1>1, Zenon DEF PW!Take
<1> HIDE DEF p
<1> DEFINE t == queue[p][1]
<1>4. /\ 1 \in DOMAIN queue[p] /\ t \in AnyTask /\ Head(queue[p]) = t
      /\ DOMAIN queue'[p] = {k \in Nat : k + 1 \in DOMAIN queue[p] /\ k > 0}
      /\ \A k \in DOMAIN queue'[p] : queue'[p][k] = queue[p][k + 1]
  BY <1>2, <1>3
<1>5. \A q \in PW!Priority : q # p => queue'[q] = queue[q]
  BY <1>3
<1>6. queue' \in [PW!Priority -> Seq(AnyTask)] /\ job' \in [Worker -> AnyTask \cup {NULL}]
  BY <1>2, <1>3, <1>4
<1>7. \A k \in DOMAIN queue[p] :
        k = 1 \/ (k - 1 \in DOMAIN queue'[p] /\ queue'[p][k - 1] = queue[p][k])
  BY <1>2, <1>4
<1> HIDE DEF t
<1>8. PW!Queued = PW!Queued' \cup {t}
  <2>1. ASSUME NEW x \in PW!Queued
        PROVE  x \in PW!Queued' \cup {t}
    <3>1. PICK q \in PW!Priority : \E k \in DOMAIN queue[q] : x = queue[q][k]
      BY DEF PW!Queued
    <3>2. PICK k \in DOMAIN queue[q] : x = queue[q][k]
      BY <3>1
    <3>3. CASE q = p
      BY <1>7, <3>2, <3>3 DEF PW!Queued, t
    <3>4. CASE q # p
      BY <1>5, <3>2, <3>4 DEF PW!Queued
    <3> QED BY <3>3, <3>4
  <2>2. \A x : x \in PW!Queued' => x \in PW!Queued
    BY <1>4, <1>5, <1>2 DEF PW!Queued
  <2>3. t \in PW!Queued
    BY <1>4, <1>2 DEF PW!Queued, t
  <2> QED BY <2>1, <2>2, <2>3
<1>9. t \notin PW!Queued'
  <2> SUFFICES ASSUME NEW q \in PW!Priority, NEW k \in DOMAIN queue'[q], queue'[q][k] = t
               PROVE  FALSE
    BY DEF PW!Queued
  <2>1. CASE q = p
    BY <2>1, <1>2, <1>4 DEF t
  <2>2. CASE q # p
    BY <2>2, <1>2, <1>4, <1>5 DEF t
  <2> QED BY <2>1, <2>2
<1>10. job[w] = NULL /\ job'[w] = t /\ t # NULL
  BY <1>3, <1>4
<1>11. \A v \in Worker : v # w => job'[v] = job[v]
  BY <1>3
<1>12. PW!InFlight' = PW!InFlight
  BY <1>8, <1>10, <1>11 DEF PW!InFlight
<1>13. \A q, r \in PW!Priority : \A k \in DOMAIN queue'[q], j \in DOMAIN queue'[r] :
         queue'[q][k] = queue'[r][j] => q = r /\ k = j
  <2> SUFFICES ASSUME NEW q \in PW!Priority, NEW r \in PW!Priority,
                      NEW k \in DOMAIN queue'[q], NEW j \in DOMAIN queue'[r],
                      queue'[q][k] = queue'[r][j]
               PROVE  q = r /\ k = j
    OBVIOUS
  <2>1. CASE q = p /\ r = p
    BY <2>1, <1>2, <1>4
  <2>2. CASE q = p /\ r # p
    BY <2>2, <1>2, <1>4, <1>5
  <2>3. CASE q # p /\ r = p
    BY <2>3, <1>2, <1>4, <1>5
  <2>4. CASE q # p /\ r # p
    BY <2>4, <1>5
  <2> QED BY <2>1, <2>2, <2>3, <2>4
<1>14. /\ \A v \in Worker : job'[v] # NULL => job'[v] \notin PW!Queued'
       /\ \A v, u \in Worker : job'[v] = job'[u] /\ job'[u] # NULL => v = u
  BY <1>8, <1>9, <1>10, <1>11
<1>15. /\ pc' \in [Worker -> {"check", "wait", "busy", "exit"}]
       /\ \A v \in Worker : pc'[v] = "busy" <=> job'[v] # NULL
  BY <1>3, <1>10, <1>11
<1> QED BY <1>6, <1>12, <1>13, <1>14, <1>15

\* Finish takes the task out of flight, since it is nowhere else.
LEMMA FinishEffect ==
  ASSUME PoolInv, NEW w \in Worker, PW!Finish(w)
  PROVE  /\ PoolInv' /\ PW!InFlight' = PW!InFlight \ {job[w]}
         /\ job[w] \in PW!InFlight /\ job[w] \in AnyTask
<1> USE DEF PoolInv
<1>1. /\ pc[w] = "busy" /\ pc' = [pc EXCEPT ![w] = "check"]
      /\ job' = [job EXCEPT ![w] = NULL] /\ queue' = queue
  BY DEF PW!Finish
<1>2. job[w] # NULL /\ job'[w] = NULL /\ \A v \in Worker : v # w => job'[v] = job[v]
  BY <1>1
<1>3. PW!Queued' = PW!Queued
  BY <1>1 DEF PW!Queued
<1>4. PW!InFlight' = PW!InFlight \ {job[w]}
  BY <1>2, <1>3 DEF PW!InFlight
<1>5. job[w] \in PW!InFlight /\ job[w] \in AnyTask
  BY <1>2 DEF PW!InFlight
<1> QED BY <1>1, <1>2, <1>3, <1>4, <1>5

\* The other steps of a worker, and the signals, leave the tasks where they are.
LEMMA IdleEffect ==
  ASSUME PoolInv, UNCHANGED <<queue, job>>,
         pc' \in [Worker -> {"check", "wait", "busy", "exit"}],
         \A w \in Worker : pc'[w] = "busy" <=> pc[w] = "busy"
  PROVE  PoolInv' /\ PW!InFlight' = PW!InFlight
<1>1. PW!Queued' = PW!Queued
  BY DEF PW!Queued
<1> QED BY <1>1 DEF PoolInv, PW!InFlight

\* Tasks in flight are tasks.
LEMMA FlightType == PoolInv => PW!InFlight \subseteq AnyTask
  BY DEF PoolInv, PW!InFlight, PW!Queued
-----------------------------------------------------------------------------
(* The invariant of the server *)

SlotType ==
  /\ connected \in [Fd -> BOOLEAN] /\ pending_close \in [Fd -> BOOLEAN]
  /\ connection_id \in [Fd -> Nat] /\ generation \in [Fd -> Nat]
  /\ pending_task \in [Fd -> Nat]
  /\ send_queue \in [Fd -> Seq(AnyReply)]
  /\ open \in SUBSET Fd /\ todo \in SUBSET Fd
  /\ events \in [Fd -> SUBSET {"IN", "OUT", "HUP"}]
  /\ nconn \in Nat /\ nread \in Nat

\* What a task in flight finds: its connection in the epoll set, and its number used.
TaskInv ==
  \A t \in PW!InFlight :
    /\ t.fd \in open /\ connected[t.fd]
    /\ generation[t.fd] = t.client_generation
    /\ connection_id[t.fd] = t.connection_id
    /\ t.packet <= nread

CountInv ==
  \A fd \in Fd :
    IsFiniteSet(InFlight(fd)) /\ pending_task[fd] = Cardinality(InFlight(fd))

ReplyInv ==
  \A fd \in Fd : \A i \in DOMAIN send_queue[fd] :
    send_queue[fd][i].connection_id = connection_id[fd]

\* The descriptors that IO_thread still handles in a round are in the epoll set.
RoundInv ==
  io \in {"write", "read"} => todo \subseteq open /\ \A fd \in Fd : events[fd] # {} => fd \in open

IndInv ==
  PoolInv /\ SlotType /\ TaskInv /\ CountInv /\ ReplyInv /\ RoundInv /\ SomeoneAwake
-----------------------------------------------------------------------------
(* Steps that leave the slots alone *)

\* A step that moves no task in or out of flight and leaves the connections alone.
LEMMA SameTasks ==
  ASSUME TaskInv, CountInv, SlotType, PW!InFlight' = PW!InFlight, open' = open,
         nread' \in Nat, nread <= nread',
         PW!InFlight \subseteq AnyTask,
         UNCHANGED <<connected, generation, connection_id, pending_task>>
  PROVE  TaskInv' /\ CountInv'
<1>1. TaskInv'
  BY DEF TaskInv, SlotType, AnyTask
<1>2. \A fd \in Fd : InFlight(fd)' = InFlight(fd)
  BY DEF InFlight
<1>3. CountInv'
  BY <1>2 DEF CountInv
<1> QED BY <1>1, <1>3

\* A step that leaves the pool alone.
LEMMA QuietPool ==
  ASSUME IndInv, UNCHANGED poolVars
  PROVE  PoolInv' /\ PW!InFlight' = PW!InFlight /\ SomeoneAwake'
<1>1. PoolInv' /\ PW!InFlight' = PW!InFlight
  BY IdleEffect DEF IndInv, PoolInv, poolVars
<1>2. SomeoneAwake'
  BY DEF IndInv, SomeoneAwake, PW!SomeoneAwake, PW!AllEmpty, poolVars
<1> QED BY <1>1, <1>2

\* A step that leaves the pool, the slots and the epoll set alone; IO_thread may go on.
LEMMA IoStepInv ==
  ASSUME IndInv, UNCHANGED <<poolVars, slotVars, open, nconn, nread>>,
         todo' \in SUBSET Fd, events' \in [Fd -> SUBSET {"IN", "OUT", "HUP"}], RoundInv'
  PROVE  IndInv'
<1>1. PoolInv' /\ PW!InFlight' = PW!InFlight /\ SomeoneAwake'
  BY QuietPool
<1>2. TaskInv' /\ CountInv'
  BY <1>1, SameTasks, FlightType DEF IndInv, slotVars, SlotType
<1>3. SlotType' /\ ReplyInv'
  BY DEF IndInv, SlotType, ReplyInv, slotVars
<1> QED BY <1>1, <1>2, <1>3 DEF IndInv

\* IO_thread goes from one loop to the next, and the clients do something.
LEMMA RoundStep ==
  ASSUME IndInv,
         \/ IoExit \/ EpollWait \/ WriteDone \/ ReadDone
         \/ \E fd \in Fd : PeerSend(fd) \/ PeerRead(fd) \/ PeerClose(fd)
  PROVE  IndInv'
<1>1. CASE IoExit \/ ReadDone
  <2>1. RoundInv'
    BY <1>1 DEF IoExit, ReadDone, RoundInv
  <2> QED BY <1>1, <2>1, IoStepInv, Zenon
          DEF IoExit, ReadDone, IndInv, SlotType, sockVars, countVars
<1>2. CASE EpollWait
  <2>1. /\ events' \in [Fd -> SUBSET {"IN", "OUT", "HUP"}] /\ todo' \in SUBSET Fd
        /\ \A fd \in Fd : events'[fd] # {} => fd \in open
    BY <1>2 DEF EpollWait, IndInv, SlotType
  <2>2. RoundInv'
    BY <1>2, <2>1 DEF EpollWait, RoundInv
  <2> QED BY <1>2, <2>1, <2>2, IoStepInv DEF EpollWait, countVars
<1>3. CASE WriteDone
  <2>1. todo' \in SUBSET Fd /\ RoundInv'
    BY <1>3, Zenon DEF WriteDone, RoundInv, IndInv, sockVars
  <2> QED BY <1>3, <2>1, IoStepInv, Zenon DEF WriteDone, IndInv, SlotType, sockVars, countVars
<1>4. ASSUME NEW fd \in Fd, PeerSend(fd) \/ PeerRead(fd) \/ PeerClose(fd)
      PROVE  IndInv'
  <2>1. UNCHANGED <<poolVars, slotVars, open, ioVars, nconn, nread>>
    BY <1>4 DEF PeerSend, PeerRead, PeerClose, countVars
  <2> QED BY <2>1, IoStepInv, Zenon DEF IndInv, SlotType, RoundInv, ioVars
<1> QED BY <1>1, <1>2, <1>3, <1>4

\* The steps of the workers and of sig_thread that leave the slots alone.
LEMMA PoolStep ==
  ASSUME IndInv,
         \/ SetShutdown \/ Broadcast
         \/ \E w \in Worker : WorkerLoop(w) \/ CheckTask(w) \/ SpuriousWakeup(w)
  PROVE  IndInv'
<1>1. UNCHANGED <<slotVars, open, ioVars, nconn, nread>>
  BY DEF SetShutdown, Broadcast, WorkerLoop, CheckTask, SpuriousWakeup, sockVars, countVars
<1>2. PoolInv' /\ PW!InFlight' = PW!InFlight /\ SomeoneAwake'
  <2>1. ASSUME NEW w \in Worker, PW!Take(w)
        PROVE  PoolInv' /\ PW!InFlight' = PW!InFlight /\ SomeoneAwake'
    <3>1. pc'[w] # "wait"
      BY <2>1 DEF PW!Take, IndInv, PoolInv
    <3> QED BY <2>1, <3>1, TakeEffect, GatewaydAssumption
        DEF IndInv, AnyTask, SomeoneAwake, PW!SomeoneAwake
  <2>2. ASSUME NEW w \in Worker,
               PW!Sleep(w) \/ PW!Exit(w) \/ PW!Spin(w) \/ CheckTask(w) \/ PW!SpuriousWakeup(w)
        PROVE  PoolInv' /\ PW!InFlight' = PW!InFlight /\ SomeoneAwake'
    <3>1. /\ UNCHANGED <<queue, job>> /\ pc' \in [Worker -> {"check", "wait", "busy", "exit"}]
          /\ \A v \in Worker : pc'[v] = "busy" <=> pc[v] = "busy"
      <4>1. CASE PW!Spin(w) \/ CheckTask(w)
        BY <4>1, Zenon DEF PW!Spin, CheckTask, PW!poolVars, poolVars, IndInv, PoolInv
      <4>2. CASE PW!Sleep(w) \/ PW!Exit(w) \/ PW!SpuriousWakeup(w)
        BY <4>2 DEF PW!Sleep, PW!Exit, PW!SpuriousWakeup, IndInv, PoolInv
      <4> QED BY <2>2, <4>1, <4>2
    <3>2. SomeoneAwake'
      BY <2>2, Zenon DEF PW!Sleep, PW!Exit, PW!Spin, CheckTask, PW!SpuriousWakeup, PW!poolVars,
                  poolVars, IndInv, PoolInv, SomeoneAwake, PW!SomeoneAwake, PW!AllEmpty
    <3> QED BY <3>1, <3>2, IdleEffect DEF IndInv
  <2>3. ASSUME PW!SetShutdown \/ PW!Broadcast
        PROVE  PoolInv' /\ PW!InFlight' = PW!InFlight /\ SomeoneAwake'
    <3>1. /\ UNCHANGED <<queue, job>> /\ pc' \in [Worker -> {"check", "wait", "busy", "exit"}]
          /\ \A v \in Worker : pc'[v] = "busy" <=> pc[v] = "busy"
          /\ \A v \in Worker : pc'[v] = pc[v] \/ pc'[v] # "wait"
      BY <2>3 DEF PW!SetShutdown, PW!Broadcast, IndInv, PoolInv
    <3>2. SomeoneAwake'
      BY <3>1 DEF IndInv, SomeoneAwake, PW!SomeoneAwake, PW!AllEmpty
    <3> QED BY <3>1, <3>2, IdleEffect DEF IndInv
  <2> QED BY <2>1, <2>2, <2>3, Zenon DEF SetShutdown, Broadcast, WorkerLoop, SpuriousWakeup
<1>3. TaskInv' /\ CountInv'
  BY <1>1, <1>2, SameTasks, FlightType DEF IndInv, slotVars, SlotType
<1>4. SlotType' /\ ReplyInv' /\ RoundInv'
  BY <1>1 DEF IndInv, SlotType, ReplyInv, RoundInv, slotVars, ioVars
<1> QED BY <1>2, <1>3, <1>4 DEF IndInv
=============================================================================
