--------------------------- MODULE GatewaydProofs ---------------------------
(***************************************************************************)
(* Tasks of gatewayd do not outlive their connection, pending_task counts   *)
(* them, and the workers do not all sleep on work: proofs of the safety     *)
(* properties of module Gatewayd for any number of descriptors, workers,    *)
(* connections and frames and any capacity of the queues.                   *)
(***************************************************************************)
EXTENDS GatewaydPoolProofs

\* How tasks are counted (CountingHolds below).
Counting ==
  /\ IsFiniteSet({}) /\ Cardinality({}) = 0
  /\ \A S, x : IsFiniteSet(S) /\ x \notin S =>
       IsFiniteSet(S \cup {x}) /\ Cardinality(S \cup {x}) = Cardinality(S) + 1
-----------------------------------------------------------------------------
(* Steps on the slots *)

\* The rest of a sequence.
LEMMA TailElements ==
  ASSUME NEW S, NEW q \in Seq(S), q # <<>>
  PROVE  /\ Tail(q) \in Seq(S)
         /\ \A i \in DOMAIN Tail(q) : i + 1 \in DOMAIN q /\ Tail(q)[i] = q[i + 1]
  OBVIOUS

\* Replies of a connection in a sequence, also when the oldest one is dropped.
LEMMA QueueEffect ==
  ASSUME SlotType, ReplyInv, NEW fd \in Fd, NEW r \in AnyReply,
         r.connection_id = connection_id[fd], QueueClient(fd, r), UNCHANGED connection_id
  PROVE  send_queue' \in [Fd -> Seq(AnyReply)] /\ ReplyInv'
<1> DEFINE s == IF Len(send_queue[fd]) = NUM_PACKET_TO_SEND
                  THEN Tail(send_queue[fd]) ELSE send_queue[fd]
<1>0. send_queue[fd] \in Seq(AnyReply) /\ Len(send_queue[fd]) \in Nat
  BY DEF SlotType
<1>1. s \in Seq(AnyReply) /\ \A i \in DOMAIN s : s[i].connection_id = connection_id[fd]
  <2>1. CASE Len(send_queue[fd]) = NUM_PACKET_TO_SEND
    <3>1. send_queue[fd] # <<>> /\ s = Tail(send_queue[fd])
      BY <1>0, <2>1, GatewaydAssumption
    <3>2. /\ Tail(send_queue[fd]) \in Seq(AnyReply)
          /\ \A i \in DOMAIN Tail(send_queue[fd]) :
               /\ i + 1 \in DOMAIN send_queue[fd]
               /\ Tail(send_queue[fd])[i] = send_queue[fd][i + 1]
      BY <1>0, <3>1, TailElements
    <3> HIDE DEF s
    <3> QED BY <3>1, <3>2 DEF ReplyInv
  <2>2. CASE Len(send_queue[fd]) # NUM_PACKET_TO_SEND
    BY <1>0, <2>2 DEF ReplyInv
  <2> QED BY <2>1, <2>2
<1>2. send_queue' = [send_queue EXCEPT ![fd] = Append(s, r)]
  BY DEF QueueClient
<1> HIDE DEF s
<1>3. /\ Append(s, r) \in Seq(AnyReply)
      /\ \A i \in DOMAIN Append(s, r) : Append(s, r)[i].connection_id = connection_id[fd]
  BY <1>1
<1> QED BY <1>2, <1>3 DEF SlotType, ReplyInv

\* process_task runs a handler on the slot of its task.
LEMMA RunTaskStep ==
  ASSUME IndInv, NEW w \in Worker, RunTask(w)
  PROVE  IndInv'
<1> DEFINE t == job[w]
<1>1. t \in AnyTask /\ t \in PW!InFlight
  BY DEF RunTask, IndInv, PoolInv, PW!InFlight
<1>2. PoolInv' /\ PW!InFlight' = PW!InFlight /\ SomeoneAwake'
  BY QuietPool DEF RunTask
<1>3. TaskInv' /\ CountInv'
  BY <1>2, SameTasks, FlightType DEF RunTask, IndInv, SlotType, sockVars, countVars
<1>4. send_queue' \in [Fd -> Seq(AnyReply)] /\ ReplyInv'
  <2>1. CASE UNCHANGED send_queue
    BY <2>1 DEF RunTask, IndInv, SlotType, ReplyInv
  <2>2. CASE QueueClient(t.fd, [connection_id |-> t.connection_id, packet |-> t.packet])
    <3>1. /\ t.fd \in Fd /\ t.connection_id = connection_id[t.fd]
          /\ [connection_id |-> t.connection_id, packet |-> t.packet] \in AnyReply
      BY <1>1 DEF AnyTask, AnyReply, IndInv, TaskInv
    <3> QED BY <2>2, <3>1, QueueEffect DEF RunTask, IndInv
  <2> QED BY <2>1, <2>2 DEF RunTask
<1>5. pending_close' \in [Fd -> BOOLEAN]
  BY Zenon DEF RunTask, IndInv, SlotType
<1>6. SlotType' /\ RoundInv'
  BY <1>4, <1>5 DEF RunTask, IndInv, SlotType, RoundInv, ioVars, sockVars, countVars
<1> QED BY <1>2, <1>3, <1>4, <1>6 DEF IndInv

\* A descriptor is given to a new connection only when no task of it is in flight.
LEMMA AcceptStep ==
  ASSUME IndInv, Counting, NEW fd \in Fd, Accept(fd)
  PROVE  IndInv'
<1>1. PoolInv' /\ PW!InFlight' = PW!InFlight /\ SomeoneAwake'
  BY QuietPool DEF Accept
<1>2. \A t \in PW!InFlight : t.fd # fd /\ t.fd \in Fd
  BY FlightType DEF Accept, IndInv, TaskInv, AnyTask
<1>3. SlotType'
  BY DEF Accept, IndInv, SlotType, ioVars
<1>4. /\ \A f \in Fd : f # fd => /\ connected'[f] = connected[f] /\ generation'[f] = generation[f]
                                 /\ connection_id'[f] = connection_id[f]
                                 /\ pending_task'[f] = pending_task[f]
                                 /\ send_queue'[f] = send_queue[f]
      /\ open \subseteq open' /\ nread' = nread
      /\ pending_task'[fd] = 0 /\ send_queue'[fd] = <<>>
  BY DEF Accept, IndInv, SlotType
<1>5. TaskInv'
  BY <1>1, <1>2, <1>4 DEF IndInv, TaskInv
<1>6. InFlight(fd)' = {} /\ \A f \in Fd : f # fd => InFlight(f)' = InFlight(f)
  BY <1>1, <1>2, <1>4 DEF InFlight
<1>7. CountInv'
  <2>1. IsFiniteSet(InFlight(fd)') /\ Cardinality(InFlight(fd)') = 0
    BY <1>6 DEF Counting
  <2> QED BY <1>4, <1>6, <2>1, Zenon DEF IndInv, CountInv
<1>8. ReplyInv'
  BY <1>4 DEF IndInv, ReplyInv
<1>9. RoundInv'
  BY <1>4 DEF Accept, IndInv, RoundInv, ioVars
<1> QED BY <1>1, <1>3, <1>5, <1>7, <1>8, <1>9 DEF IndInv

\* handle_client_writable takes replies away, or marks the slot.
LEMMA IoWriteStep ==
  ASSUME IndInv, NEW fd \in Fd, IoWrite(fd)
  PROVE  IndInv'
<1>1. PoolInv' /\ PW!InFlight' = PW!InFlight /\ SomeoneAwake'
  BY QuietPool DEF IoWrite
<1>2. TaskInv' /\ CountInv'
  BY <1>1, SameTasks, FlightType DEF IoWrite, IndInv, SlotType, countVars
<1>3. \/ UNCHANGED send_queue
      \/ send_queue[fd] # <<>> /\ send_queue' = [send_queue EXCEPT ![fd] = Tail(send_queue[fd])]
  BY DEF IoWrite, Sends
<1>4. send_queue' \in [Fd -> Seq(AnyReply)] /\ ReplyInv'
  <2>1. CASE UNCHANGED send_queue
    BY <2>1 DEF IoWrite, IndInv, SlotType, ReplyInv
  <2>2. CASE send_queue[fd] # <<>> /\ send_queue' = [send_queue EXCEPT ![fd] = Tail(send_queue[fd])]
    <3>1. /\ Tail(send_queue[fd]) \in Seq(AnyReply)
          /\ \A i \in DOMAIN Tail(send_queue[fd]) :
               /\ i + 1 \in DOMAIN send_queue[fd]
               /\ Tail(send_queue[fd])[i] = send_queue[fd][i + 1]
      BY <2>2, TailElements DEF IndInv, SlotType
    <3> QED BY <2>2, <3>1 DEF IoWrite, IndInv, SlotType, ReplyInv
  <2> QED BY <1>3, <2>1, <2>2
<1>5. pending_close' \in [Fd -> BOOLEAN]
  BY Zenon DEF IoWrite, IndInv, SlotType
<1>6. SlotType' /\ RoundInv'
  BY <1>4, <1>5 DEF IoWrite, IndInv, SlotType, RoundInv, countVars
<1> QED BY <1>1, <1>2, <1>4, <1>6 DEF IndInv

\* A new task has a number that no task in flight has, and is counted.
LEMMA ReadFrameStep ==
  ASSUME IndInv, Counting, NEW fd \in Fd, IoRead(fd), connected[fd], nread' = nread + 1,
         NEW p \in PW!Priority, PW!Enqueue(NewTask(fd), p),
         pending_task' = [pending_task EXCEPT ![fd] = pending_task[fd] + 1],
         UNCHANGED <<send_queue, pending_close>>
  PROVE  IndInv'
<1>0. fd \in open
  BY Zenon DEF IoRead, IndInv, RoundInv
<1>a. NewTask(fd) \in AnyTask
  BY DEF NewTask, AnyTask, IndInv, SlotType
<1>1. PICK t \in AnyTask :
        /\ t = NewTask(fd) /\ t.fd = fd /\ t.client_generation = generation[fd]
        /\ t.connection_id = connection_id[fd] /\ t.packet = nread + 1
  BY <1>a, Zenon DEF NewTask
<1>2. t \notin PW!InFlight
  BY <1>1 DEF IndInv, TaskInv, SlotType
<1>3. PoolInv' /\ PW!InFlight' = PW!InFlight \cup {t}
  BY <1>1, <1>2, EnqueueEffect, Zenon DEF IndInv
<1>4. /\ UNCHANGED <<connected, connection_id, generation, open, io, events, nconn>>
      /\ todo' = todo \ {fd}
  BY DEF IoRead
<1>5. TaskInv'
  BY <1>0, <1>1, <1>3, <1>4, FlightType DEF IndInv, TaskInv, SlotType, AnyTask
<1>6. /\ InFlight(fd)' = InFlight(fd) \cup {t} /\ t \notin InFlight(fd)
      /\ \A f \in Fd : f # fd => InFlight(f)' = InFlight(f)
  BY <1>1, <1>2, <1>3, <1>4 DEF InFlight
<1>7. CountInv'
  <2>1. IsFiniteSet(InFlight(fd)') /\ Cardinality(InFlight(fd)') = pending_task[fd] + 1
    BY <1>6 DEF Counting, IndInv, CountInv
  <2> QED BY <1>6, <2>1, Zenon DEF IndInv, CountInv, SlotType
<1>8. SlotType' /\ ReplyInv' /\ RoundInv'
  <2>1. SlotType'
    BY <1>4 DEF IndInv, SlotType
  <2>2. ReplyInv'
    BY <1>4 DEF IndInv, ReplyInv
  <2>3. RoundInv'
    BY <1>4 DEF IndInv, RoundInv
  <2> QED BY <2>1, <2>2, <2>3
<1>9. SomeoneAwake'
  <2>1. \E w \in Worker : pc'[w] # "wait"
    BY GatewaydAssumption DEF PW!Enqueue, PW!WakeOne, IndInv, PoolInv
  <2> QED BY <2>1 DEF SomeoneAwake, PW!SomeoneAwake
<1> QED BY <1>3, <1>5, <1>7, <1>8, <1>9 DEF IndInv

\* handle_client_readable: a task, a reply, or a mark on the slot.
LEMMA IoReadStep ==
  ASSUME IndInv, Counting, NEW fd \in Fd, IoRead(fd)
  PROVE  IndInv'
<1>1. ASSUME UNCHANGED <<poolVars, pending_task>>, nread' \in {nread, nread + 1},
             \/ UNCHANGED send_queue
             \/ QueueClient(fd, [connection_id |-> connection_id[fd], packet |-> nread + 1]),
             pending_close' \in [Fd -> BOOLEAN]
      PROVE  IndInv'
  <2>0. /\ UNCHANGED <<connected, connection_id, generation, open, io, events, nconn>>
        /\ todo' = todo \ {fd}
    BY Zenon DEF IoRead
  <2>1. PoolInv' /\ PW!InFlight' = PW!InFlight /\ SomeoneAwake'
    BY <1>1, QuietPool
  <2>2. TaskInv' /\ CountInv'
    BY <1>1, <2>0, <2>1, SameTasks, FlightType DEF IndInv, SlotType
  <2>3. send_queue' \in [Fd -> Seq(AnyReply)] /\ ReplyInv'
    <3>1. CASE UNCHANGED send_queue
      BY <3>1, <2>0 DEF IndInv, SlotType, ReplyInv
    <3>2. CASE QueueClient(fd, [connection_id |-> connection_id[fd], packet |-> nread + 1])
      <4>1. [connection_id |-> connection_id[fd], packet |-> nread + 1] \in AnyReply
        BY DEF AnyReply, IndInv, SlotType
      <4> QED BY <2>0, <3>2, <4>1, QueueEffect DEF IndInv
    <3> QED BY <1>1, <3>1, <3>2
  <2>4. SlotType' /\ RoundInv'
    BY <1>1, <2>0, <2>3 DEF IndInv, SlotType, RoundInv
  <2> QED BY <2>1, <2>2, <2>3, <2>4 DEF IndInv
<1>2. CASE connected[fd] /\ nread' = nread + 1 /\ ReadFrame(fd)
  <2>1. PICK p \in PW!Priority :
          IF PW!Full(p)
            THEN /\ QueueClient(fd, [connection_id |-> connection_id[fd], packet |-> nread + 1])
                 /\ UNCHANGED <<poolVars, pending_task, pending_close, crashed>>
            ELSE /\ PW!Enqueue(NewTask(fd), p)
                 /\ pending_task' = [pending_task EXCEPT ![fd] = pending_task[fd] + 1]
                 /\ UNCHANGED <<send_queue, pending_close, crashed>>
    BY <1>2 DEF ReadFrame
  <2>2. CASE PW!Full(p)
    BY <1>1, <1>2, <2>1, <2>2, Zenon DEF IndInv, SlotType
  <2>3. CASE ~PW!Full(p)
    BY <1>2, <2>1, <2>3, ReadFrameStep, Zenon
  <2> QED BY <2>2, <2>3
<1>3. CASE nread' = nread + 1 /\ ReadBadFrame(fd)
  BY <1>1, <1>3, Zenon DEF ReadBadFrame, IndInv, SlotType
<1>4. CASE /\ UNCHANGED <<poolVars, pending_task, send_queue, nread>>
           /\ pending_close' = [pending_close EXCEPT ![fd] = ~peer[fd]]
  BY <1>1, <1>4, Zenon DEF IndInv, SlotType
<1>5. CASE UNCHANGED <<poolVars, pending_close, pending_task, send_queue, nread>>
  BY <1>1, <1>5, Zenon DEF IndInv, SlotType
<1> QED BY <1>2, <1>3, <1>4, <1>5, Zenon DEF IoRead
-----------------------------------------------------------------------------
(* The steps that take tasks out of flight or slots away, the initial states *)
(* and the theorems: they rest on the theorems on finite sets.               *)
INSTANCE FiniteSetTheorems

\* The theorems on finite sets say how tasks are counted.
LEMMA CountingHolds == Counting
<1>1. ASSUME NEW S, NEW x, IsFiniteSet(S), x \notin S
      PROVE  IsFiniteSet(S \cup {x}) /\ Cardinality(S \cup {x}) = Cardinality(S) + 1
  BY <1>1, FS_AddElement
<1> QED BY <1>1, FS_EmptySet, Zenon DEF Counting

\* finish_task settles the task it counts.
LEMMA FinishTaskStep ==
  ASSUME IndInv, NEW w \in Worker, FinishTask(w)
  PROVE  IndInv'
<1>0. PICK t \in AnyTask : t = job[w]
  BY FinishEffect DEF FinishTask, IndInv
<1>1. /\ PoolInv' /\ PW!InFlight' = PW!InFlight \ {t} /\ t \in PW!InFlight
  BY <1>0, FinishEffect DEF FinishTask, IndInv
<1>2. /\ t.fd \in Fd /\ connected[t.fd] /\ generation[t.fd] = t.client_generation
  BY <1>1 DEF IndInv, TaskInv, AnyTask
<1>3. UNCHANGED <<connected, connection_id, generation, pending_close, send_queue, open,
                  ioVars, nconn, nread, queue>>
  BY DEF FinishTask, PW!Finish, sockVars, countVars
<1>4. TaskInv'
  BY <1>1, <1>3 DEF IndInv, TaskInv
<1>5. /\ t \in InFlight(t.fd) /\ InFlight(t.fd)' = InFlight(t.fd) \ {t}
      /\ \A fd \in Fd : fd # t.fd => InFlight(fd)' = InFlight(fd)
  BY <1>1, <1>2, <1>3 DEF InFlight
<1>6. /\ IsFiniteSet(InFlight(t.fd)') /\ pending_task[t.fd] > 0
      /\ Cardinality(InFlight(t.fd)') = pending_task[t.fd] - 1
  <2>1. /\ IsFiniteSet(InFlight(t.fd)) /\ pending_task[t.fd] = Cardinality(InFlight(t.fd))
        /\ pending_task[t.fd] \in Nat
    BY <1>2 DEF IndInv, CountInv, SlotType
  <2>2. /\ IsFiniteSet(InFlight(t.fd) \ {t})
        /\ Cardinality(InFlight(t.fd) \ {t}) = Cardinality(InFlight(t.fd)) - 1
    BY <1>5, <2>1, FS_RemoveElement
  <2>3. Cardinality(InFlight(t.fd) \ {t}) \in Nat
    BY <2>2, FS_CardinalityType
  <2> QED BY <1>5, <2>1, <2>2, <2>3
<1>7. pending_task' = [pending_task EXCEPT ![t.fd] = pending_task[t.fd] - 1]
  BY <1>0, <1>2, <1>6, Zenon DEF FinishTask
<1>8. CountInv'
  BY <1>5, <1>6, <1>7, <1>2, Zenon DEF IndInv, CountInv, SlotType
<1>9. SlotType' /\ ReplyInv' /\ RoundInv'
  <2>1. pending_task' \in [Fd -> Nat]
    BY <1>2, <1>6, <1>7 DEF IndInv, SlotType
  <2>2. SlotType'
    BY <1>3, <2>1 DEF IndInv, SlotType, ioVars
  <2> QED BY <1>3, <2>2 DEF IndInv, ReplyInv, RoundInv, ioVars
<1>10. SomeoneAwake'
  <2>1. pc'[w] # "wait"
    BY Zenon DEF FinishTask, PW!Finish, IndInv, PoolInv
  <2> QED BY <2>1 DEF SomeoneAwake, PW!SomeoneAwake
<1> QED BY <1>1, <1>4, <1>8, <1>9, <1>10 DEF IndInv

\* can_reap looks at pending_task, so a slot with tasks in flight is kept.
LEMMA ReapStep ==
  ASSUME IndInv, Reap
  PROVE  IndInv'
<1>1. PoolInv' /\ PW!InFlight' = PW!InFlight /\ SomeoneAwake'
  BY QuietPool, Zenon DEF Reap
<1>2. UNCHANGED <<connection_id, generation, pending_task, send_queue, events, todo, nconn, nread>>
  BY DEF Reap, countVars
<1>3. \A fd \in Fd : InFlight(fd)' = InFlight(fd)
  BY <1>1, <1>2 DEF InFlight
<1>4. ASSUME NEW t \in PW!InFlight
      PROVE  ~Reapable(t.fd)
  <2>1. t.fd \in Fd /\ t \in InFlight(t.fd)
    BY FlightType DEF IndInv, TaskInv, InFlight, AnyTask
  <2>2. Cardinality(InFlight(t.fd)) # 0
    BY <2>1, FS_EmptySet DEF IndInv, CountInv
  <2> QED BY <2>1, <2>2 DEF IndInv, CountInv, Reapable
<1>5. TaskInv'
  BY <1>1, <1>2, <1>4, FlightType, Zenon DEF Reap, IndInv, TaskInv, AnyTask
<1>6. CountInv' /\ ReplyInv'
  BY <1>2, <1>3 DEF IndInv, CountInv, ReplyInv
<1>7. SlotType' /\ RoundInv'
  BY <1>2 DEF Reap, IndInv, SlotType, RoundInv
<1> QED BY <1>1, <1>5, <1>6, <1>7 DEF IndInv
-----------------------------------------------------------------------------
\* init_server() establishes the invariant.
LEMMA InitInv == Init => IndInv
<1> SUFFICES ASSUME Init PROVE IndInv
  OBVIOUS
<1>1. PW!InFlight = {} /\ PW!Queued = {}
  BY DEF Init, PW!Init, PW!InFlight, PW!Queued
<1>2. PoolInv
  BY <1>1 DEF Init, PW!Init, PoolInv
<1>3. SlotType
  BY DEF Init, SlotType
<1>4. CountInv
  <2>1. \A fd \in Fd : InFlight(fd) = {}
    BY <1>1 DEF InFlight
  <2> QED BY <2>1, FS_EmptySet, Zenon DEF Init, CountInv
<1>5. TaskInv /\ ReplyInv /\ RoundInv
  BY <1>1 DEF Init, TaskInv, ReplyInv, RoundInv
<1>6. SomeoneAwake
  BY DEF Init, PW!Init, SomeoneAwake, PW!SomeoneAwake, PW!AllEmpty
<1> QED BY <1>2, <1>3, <1>4, <1>5, <1>6 DEF IndInv

\* Every step of the server and of its clients keeps the invariant.
THEOREM Invariance == Spec => []IndInv
<1>1. IndInv /\ [Next]_vars => IndInv'
  <2> SUFFICES ASSUME IndInv, [Next]_vars
               PROVE  IndInv'
    OBVIOUS
  <2>1. CASE IoStep
    BY <2>1, RoundStep, IoWriteStep, IoReadStep, ReapStep, CountingHolds DEF IoStep
  <2>2. CASE SetShutdown \/ Broadcast
    BY <2>2, PoolStep
  <2>3. ASSUME NEW fd \in Fd, Accept(fd) \/ PeerSend(fd) \/ PeerRead(fd) \/ PeerClose(fd)
        PROVE  IndInv'
    BY <2>3, AcceptStep, RoundStep, CountingHolds
  <2>4. ASSUME NEW w \in Worker, WorkerStep(w) \/ SpuriousWakeup(w)
        PROVE  IndInv'
    BY <2>4, PoolStep, RunTaskStep, FinishTaskStep DEF WorkerStep
  <2>5. CASE UNCHANGED vars
    <3>1. /\ UNCHANGED <<poolVars, slotVars, open, nconn, nread>>
          /\ todo' \in SUBSET Fd /\ events' \in [Fd -> SUBSET {"IN", "OUT", "HUP"}] /\ RoundInv'
      BY <2>5 DEF vars, sockVars, ioVars, countVars, IndInv, SlotType, RoundInv
    <3> QED BY <3>1, IoStepInv
  <2> QED BY <2>1, <2>2, <2>3, <2>4, <2>5 DEF Next, Ended
<1> QED BY <1>1, InitInv, PTL DEF Spec

\* pending_task is the number of tasks between handle_client_readable and finish_task.
THEOREM PendingTaskCounts == Spec => []PendingTaskExact
<1>1. IndInv => PendingTaskExact
  BY DEF IndInv, CountInv, PendingTaskExact
<1> QED BY <1>1, Invariance, PTL

\* Tasks and replies belong to the connection that is in their slot: reap_closed_clients never
\* frees, and handle_accept never reuses, the slot of a task that is queued or processed.
THEOREM SlotsOutliveTasks == Spec => []TasksKeepTheirSlot
<1>1. IndInv => TasksKeepTheirSlot
  BY DEF IndInv, TaskInv, ReplyInv, TasksKeepTheirSlot
<1> QED BY <1>1, Invariance, PTL

\* The workers of gatewayd do not all wait on queue_wakeup while a task is queued.
THEOREM WorkersAwake == Spec => []SomeoneAwake
<1>1. IndInv => SomeoneAwake
  BY DEF IndInv
<1> QED BY <1>1, Invariance, PTL
=============================================================================
