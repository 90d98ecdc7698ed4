------------------------- MODULE GatewayStepProofs --------------------------
(* Lemmas about module Gateway: the initial states, the steps that leave the *)
(* client table alone, and the steps of the main thread that accept, close  *)
(* and serve the clients of the table.                                      *)
EXTENDS Gateway, TLAPS

USE DEF NoConn

\* server_init() establishes the invariant.
LEMMA InitInv == Init => IndInv
<1> SUFFICES ASSUME Init PROVE IndInv
  OBVIOUS
<1> USE GatewayAssumption DEF Init, TQ!Init, RQ!Init
<1>1. TypeOK
  <2>1. /\ stale \in BOOLEAN /\ tqShutdown \in BOOLEAN /\ crashed \in BOOLEAN
        /\ event_fd \in BOOLEAN /\ shutdown \in BOOLEAN
    BY Zenon
  <2>2. TQ!TypeOK
    BY <2>1 DEF TQ!TypeOK
  <2>3. RQ!FifoType
    BY DEF RQ!FifoType
  <2>4. handshake \in [Slot -> BOOLEAN] /\ epollout \in [Slot -> BOOLEAN]
    OBVIOUS
  <2> QED
    BY <2>1, <2>2, <2>3, <2>4 DEF TypeOK
<1>2. /\ \A s \in Slot : generation[s] <= nconn
      /\ \A s \in Slot : conn[s] = NoConn => tx[s] = <<>>
  BY DEF Slot
<1>4. InTransit = {}
  BY DEF InTransit
<1>3. RightRecipient /\ NoStrandedResponse
  BY DEF RightRecipient, NoStrandedResponse
<1> QED
  BY <1>1, <1>2, <1>3, <1>4 DEF IndInv

-----------------------------------------------------------------------------
(* What a step may do to the client table without misleading a task: a slot *)
(* keeps its connection and its generation, or loses the connection, or     *)
(* gets a new generation; and the origin of a request is never rewritten.   *)
SlotSteady(s) ==
  \/ conn'[s] = conn[s] /\ generation'[s] = generation[s]
  \/ conn'[s] = NoConn /\ generation'[s] = generation[s]
  \/ generation'[s] > generation[s]

Steady ==
  /\ \A s \in Slot : SlotSteady(s)
  /\ \A r \in Request : origin[r] # NoConn => origin'[r] = origin[r]

\* A task stays traceable over every step that is steady.
LEMMA StaysTraceable ==
  ASSUME TypeOK, TypeOK', Steady, NEW t \in Task, Traceable(t)
  PROVE  Traceable(t)'
<1>1. /\ t.slot \in Slot /\ t.request \in Request /\ t.generation \in Nat
      /\ generation[t.slot] \in Nat /\ generation'[t.slot] \in Nat
  BY GatewayAssumption DEF Task, TypeOK
<1>2. SlotSteady(t.slot) /\ origin'[t.request] = origin[t.request]
  BY <1>1 DEF Steady, Traceable
<1>3. t.generation <= generation'[t.slot]
  BY <1>1, <1>2 DEF SlotSteady, Traceable
<1>4. ASSUME conn'[t.slot] # NoConn, generation'[t.slot] = t.generation
      PROVE  origin'[t.request] = conn'[t.slot]
  BY <1>1, <1>2, <1>4 DEF SlotSteady, Traceable, IsValid
<1> QED
  BY <1>2, <1>3, <1>4 DEF Traceable, IsValid

\* A step that leaves the task queue alone keeps its type.
LEMMA QueueUnchanged ==
  ASSUME TQ!TypeOK, UNCHANGED <<queueVars, crashed>>
  PROVE  TQ!TypeOK'
BY DEF TQ!TypeOK, queueVars

\* A step that leaves the response queue alone keeps its type.
LEMMA ResponseUnchanged ==
  ASSUME RQ!FifoType, UNCHANGED response
  PROVE  RQ!FifoType'
BY DEF RQ!FifoType

\* What is in transit is in the queues or with the workers.
LEMMA TransitUnchanged ==
  ASSUME UNCHANGED <<queueVars, response>>
  PROVE  InTransit' = InTransit
BY DEF InTransit, queueVars

\* What waits for the client of a slot, or has reached a client, are requests
\* that came from a connection.
LEMMA OwnMessages ==
  ASSUME IndInv
  PROVE  /\ \A i \in Slot : \A k \in DOMAIN tx[i] :
               tx[i][k] \in Request /\ origin[tx[i][k]] = conn[i] /\ conn[i] # NoConn
         /\ \A c \in Conn : c # NoConn
         /\ \A c \in Conn : \A i \in received[c] : i \in Request /\ origin[i] = c
<1>1. /\ tx \in [Slot -> Seq(Request)] /\ received \in [Conn -> SUBSET Request]
      /\ \A i \in Slot : conn[i] = NoConn => tx[i] = <<>>
      /\ RightRecipient
  BY DEF IndInv, TypeOK
<1>2. ASSUME NEW i \in Slot, NEW k \in DOMAIN tx[i]
      PROVE  tx[i][k] \in Request /\ origin[tx[i][k]] = conn[i] /\ conn[i] # NoConn
  <2>1. tx[i] \in Seq(Request)
    BY <1>1
  <2>2. tx[i][k] \in Request /\ tx[i] # <<>>
    BY <2>1
  <2>3. origin[tx[i][k]] = conn[i]
    BY <1>1 DEF RightRecipient
  <2> QED
    BY <1>1, <2>2, <2>3
<1>3. \A c \in Conn : c # NoConn
  BY GatewayAssumption DEF Conn
<1>4. \A c \in Conn : \A i \in received[c] : i \in Request /\ origin[i] = c
  BY <1>1 DEF RightRecipient
<1> QED
  BY <1>2, <1>3, <1>4

-----------------------------------------------------------------------------
(* The steps of the workers, of the signal thread and of server_run leave   *)
(* the client table alone.                                                  *)

\* A step that leaves the client table and the record of the past alone, and
\* puts nothing new in transit, keeps every part of the invariant but the type
\* and the wakeup.
LEMMA TableUnchanged ==
  ASSUME IndInv, TypeOK', UNCHANGED <<clientVars, logVars>>,
         InTransit' \subseteq InTransit, NoStrandedResponse'
  PROVE  IndInv'
<1>1. Steady
  BY DEF Steady, SlotSteady, clientVars, logVars
<1>2. \A t \in InTransit' : t \in Task /\ Traceable(t)'
  BY <1>1, StaysTraceable DEF IndInv
<1>3. RightRecipient'
  BY DEF IndInv, RightRecipient, clientVars, logVars
<1> QED
  BY <1>2, <1>3 DEF IndInv, clientVars, logVars

\* pop(), free(t) and the wakeups only move tasks.
LEMMA QueueStep ==
  ASSUME IndInv, UNCHANGED response, NEW w \in Worker,
         \/ TQ!PopWait(w) \/ TQ!PopExit(w) \/ TQ!PopTask(w) \/ TQ!PopNull(w)
         \/ TQ!FreeTask(w) \/ TQ!SpuriousWakeup(w)
  PROVE  TQ!TypeOK' /\ InTransit' \subseteq InTransit
<1>0. TQ!TypeOK
  BY DEF IndInv, TypeOK
<1>1. CASE TQ!PopWait(w)
  BY <1>0, <1>1 DEF TQ!PopWait, TQ!TypeOK, InTransit
<1>2. CASE TQ!PopExit(w)
  BY <1>0, <1>2 DEF TQ!PopExit, TQ!TypeOK, InTransit
<1>3. CASE TQ!PopTask(w)
  <2>1. q \in Seq(Task) /\ q # <<>> /\ Head(q) = q[1] /\ 1 \in DOMAIN q
    BY <1>0, <1>3 DEF TQ!PopTask, TQ!TypeOK
  <2>2. Tail(q) \in Seq(Task) /\ Len(Tail(q)) <= 2
        /\ \A i \in DOMAIN Tail(q) : i + 1 \in DOMAIN q /\ Tail(q)[i] = q[i + 1]
    BY <1>0, <2>1 DEF TQ!TypeOK
  <2>3. TQ!TypeOK'
    BY <1>0, <1>3, <2>1, <2>2, GatewayAssumption DEF TQ!PopTask, TQ!TypeOK
  <2>4. InTransit' \subseteq InTransit
    BY <1>0, <1>3, <2>1, <2>2 DEF TQ!PopTask, TQ!TypeOK, InTransit
  <2> QED
    BY <2>3, <2>4
<1>4. CASE TQ!PopNull(w)
  BY <1>0, <1>4 DEF TQ!PopNull, TQ!TypeOK, InTransit
<1>5. CASE TQ!FreeTask(w)
  BY <1>0, <1>5 DEF TQ!FreeTask, TQ!TypeOK, InTransit
<1>6. CASE TQ!SpuriousWakeup(w)
  BY <1>0, <1>6 DEF TQ!SpuriousWakeup, TQ!TypeOK, InTransit
<1> QED
  BY <1>1, <1>2, <1>3, <1>4, <1>5, <1>6

\* The steps of a worker.
LEMMA WorkerStep ==
  ASSUME IndInv, NEW w \in Worker, WorkerThread(w) \/ SpuriousWakeup(w)
  PROVE  IndInv'
<1> USE DEF workerVars, clientVars, threadVars, logVars, WorkerUnchanged
<1>0. TypeOK /\ NoStrandedResponse
  BY DEF IndInv
<1>1. CASE PopStep(w) \/ SpuriousWakeup(w) \/ NoResponse(w)
  <2>1. /\ WorkerUnchanged
        /\ \/ TQ!PopWait(w) \/ TQ!PopExit(w) \/ TQ!PopTask(w) \/ TQ!PopNull(w)
           \/ TQ!FreeTask(w) \/ TQ!SpuriousWakeup(w)
    BY <1>1 DEF PopStep, SpuriousWakeup, NoResponse
  <2>2. TQ!TypeOK' /\ InTransit' \subseteq InTransit
    BY <2>1, QueueStep
  <2>3. \A v \in notifying : pc[v] = "busy" => pc'[v] = "busy"
    BY <1>0, <1>1, Zenon DEF PopStep, SpuriousWakeup, NoResponse, TypeOK, TQ!TypeOK,
       TQ!PopWait, TQ!PopExit, TQ!PopTask, TQ!PopNull, TQ!FreeTask, TQ!SpuriousWakeup
  <2>4. TypeOK'
    BY <1>0, <2>1, <2>2, <2>3, Zenon DEF TypeOK, RQ!FifoType
  <2>5. NoStrandedResponse'
    BY <1>0, <2>1, Zenon DEF NoStrandedResponse
  <2> QED
    BY <2>1, <2>2, <2>4, <2>5, TableUnchanged
<1>2. CASE PushResponse(w)
  <2>1. job[w] \in InTransit /\ job[w] \in Task
    BY <1>2, Zenon DEF PushResponse, InTransit, IndInv
  <2>2. /\ response \in Seq(Task) /\ response' = Append(response, job[w])
        /\ Len(response) < TASK_QUEUE_MAX
    BY <1>0, <1>2 DEF PushResponse, RQ!Put, TypeOK, RQ!FifoType
  <2>3. RQ!FifoType'
    BY <2>1, <2>2, GatewayAssumption DEF RQ!FifoType
  <2>4. TypeOK'
    BY <1>0, <1>2, <2>3 DEF PushResponse, TypeOK, TQ!TypeOK, queueVars
  <2>5. \A i \in DOMAIN response' : response'[i] \in InTransit
    <3>1. \A i \in DOMAIN response' :
             response'[i] = job[w] \/ (i \in DOMAIN response /\ response'[i] = response[i])
      BY <2>1, <2>2
    <3> QED
      BY <2>1, <3>1, Zenon DEF InTransit
  <2>6. InTransit' \subseteq InTransit
    BY <1>2, <2>5, Zenon DEF PushResponse, InTransit, queueVars
  <2>7. NoStrandedResponse'
    BY <1>2, Zenon DEF PushResponse, NoStrandedResponse
  <2> QED
    BY <1>2, <2>4, <2>6, <2>7, TableUnchanged, Zenon DEF PushResponse
<1>3. CASE NotifyMainThread(w)
  <2>1. TQ!TypeOK' /\ InTransit' \subseteq InTransit
    BY <1>3, QueueStep DEF NotifyMainThread
  <2>2. \A v \in notifying' : pc'[v] = "busy"
    BY <1>0, <1>3 DEF NotifyMainThread, TypeOK, TQ!TypeOK, TQ!FreeTask
  <2>3. TypeOK'
    BY <1>0, <1>3, <2>1, <2>2, Zenon DEF NotifyMainThread, TypeOK, RQ!FifoType
  <2>4. NoStrandedResponse'
    BY <1>3 DEF NotifyMainThread, NoStrandedResponse
  <2> QED
    BY <1>3, <2>1, <2>3, <2>4, TableUnchanged DEF NotifyMainThread
<1> QED
  BY <1>1, <1>2, <1>3 DEF WorkerThread

\* The steps of signal_thread and of the waiting server_run.
LEMMA SignalStep ==
  ASSUME IndInv, SetShutdown \/ ShutdownQueue \/ SignalStop \/ RunCheck
  PROVE  IndInv'
<1> USE DEF queueVars, workerVars, clientVars, threadVars, logVars, SigUnchanged
<1>0. TypeOK /\ NoStrandedResponse
  BY DEF IndInv
<1>1. CASE SetShutdown \/ SignalStop \/ RunCheck
  <2>0. shutdown' \in BOOLEAN
    BY <1>0, <1>1, Zenon DEF SetShutdown, SignalStop, RunCheck, TypeOK
  <2>4. /\ UNCHANGED <<queueVars, crashed, workerVars, clientVars, main, logVars>>
        /\ sig' \in {"wait", "queue", "signal", "exit"}
        /\ run' \in {"check", "wait", "join", "exit"}
    BY <1>0, <1>1, Zenon DEF SetShutdown, SignalStop, RunCheck, TypeOK
  <2>1. TypeOK'
    BY <1>0, <2>0, <2>4, Zenon DEF TypeOK, TQ!TypeOK, RQ!FifoType
  <2>2. InTransit' \subseteq InTransit
    BY <2>4, Zenon DEF InTransit
  <2>3. NoStrandedResponse'
    BY <1>0, <2>4, Zenon DEF NoStrandedResponse
  <2> QED
    BY <2>1, <2>2, <2>3, <2>4, TableUnchanged, Zenon
<1>2. CASE ShutdownQueue
  <2>5. TQ!TypeOK /\ TQ!TaskQueueShutdown /\ response' = response
    BY <1>0, <1>2, Zenon DEF ShutdownQueue, TypeOK
  <2>6. TQ!TypeOK'
    BY <2>5 DEF TQ!TaskQueueShutdown, TQ!TypeOK
  <2>7. InTransit' \subseteq InTransit
    BY <2>5, Zenon DEF TQ!TaskQueueShutdown, TQ!TypeOK, InTransit
  <2>1. TQ!TypeOK' /\ InTransit' \subseteq InTransit
    BY <2>6, <2>7
  <2>4. \A v \in notifying : pc'[v] = "busy"
    BY <1>0, <1>2, Zenon DEF ShutdownQueue, TQ!TaskQueueShutdown, TypeOK, TQ!TypeOK
  <2>2. TypeOK'
    BY <1>0, <1>2, <2>1, <2>4, Zenon DEF ShutdownQueue, TypeOK, RQ!FifoType
  <2>3. NoStrandedResponse'
    BY <1>0, <1>2 DEF ShutdownQueue, NoStrandedResponse
  <2> QED
    BY <1>2, <2>1, <2>2, <2>3, TableUnchanged DEF ShutdownQueue
<1> QED
  BY <1>1, <1>2

-----------------------------------------------------------------------------
\* The steps of the main thread on the client table keep what is in transit
\* traceable, if they keep the table steady.
LEMMA TableStep ==
  ASSUME IndInv, TypeOK', Steady, InTransit' \subseteq InTransit,
         RightRecipient', NoStrandedResponse',
         \A s \in Slot : generation'[s] <= nconn',
         \A s \in Slot : conn'[s] = NoConn => tx'[s] = <<>>
  PROVE  IndInv'
<1>1. \A t \in InTransit' : t \in Task /\ Traceable(t)'
  BY StaysTraceable DEF IndInv
<1> QED
  BY <1>1 DEF IndInv

\* Accepting a client.
LEMMA AcceptStep ==
  ASSUME IndInv, NEW s \in Slot, NEW done \in BOOLEAN, NEW want_write \in BOOLEAN,
         HandleAcceptClient(s, done, want_write) \/ AcceptFailed(s) \/ AcceptRefused
  PROVE  IndInv'
<1> USE DEF queueVars, workerVars, clientVars, threadVars
<1>0. TypeOK /\ NoStrandedResponse /\ RightRecipient
  BY DEF IndInv
<1>g. UNCHANGED <<queueVars, crashed, workerVars, threadVars, origin, received>>
  BY DEF HandleAcceptClient, AcceptFailed, AcceptRefused
<1>1. TQ!TypeOK' /\ RQ!FifoType' /\ InTransit' = InTransit
  <2>1. TQ!TypeOK /\ RQ!FifoType
    BY <1>0 DEF TypeOK
  <2> QED
    BY <1>g, <2>1, QueueUnchanged, ResponseUnchanged, TransitUnchanged
<1>2. nconn \in 0..MaxConn /\ nconn < MaxConn /\ nconn' = nconn + 1 /\ nconn' \in Conn
  BY <1>0, GatewayAssumption
  DEF HandleAcceptClient, AcceptFailed, AcceptRefused, TypeOK, Conn
<1>a. /\ \A i \in Slot : generation[i] \in 0..MaxConn /\ generation[i] <= nconn
      /\ \A i \in Slot : conn[i] = NoConn => tx[i] = <<>>
  BY <1>0 DEF IndInv, TypeOK
<1>b. \/ generation' = [generation EXCEPT ![s] = @ + 1]
      \/ generation' = generation /\ conn' = conn
  BY DEF HandleAcceptClient, AcceptFailed, AcceptRefused, ClientAlloc
<1>c. \/ conn' = [conn EXCEPT ![s] = nconn'] /\ tx' = [tx EXCEPT ![s] = <<>>]
      \/ conn' = conn /\ tx' = tx
  BY <1>2 DEF HandleAcceptClient, AcceptFailed, AcceptRefused
<1>e. /\ generation \in [Slot -> 0..MaxConn]
      /\ conn \in [Slot -> Conn \cup {NoConn}]
      /\ tx \in [Slot -> Seq(Request)]
  BY <1>0 DEF TypeOK
<1>f. generation[s] + 1 \in 0..MaxConn
  BY <1>2, <1>a, GatewayAssumption
<1>d. generation' \in [Slot -> 0..MaxConn]
  BY <1>b, <1>e, <1>f, Zenon
<1>3. \A i \in Slot : /\ generation'[i] <= nconn'
                      /\ generation'[i] >= generation[i]
                      /\ generation'[i] = generation[i] => conn'[i] = conn[i]
  <2> SUFFICES ASSUME NEW i \in Slot
               PROVE  /\ generation'[i] <= nconn'
                      /\ generation'[i] >= generation[i]
                      /\ generation'[i] = generation[i] => conn'[i] = conn[i]
    OBVIOUS
  <2>1. /\ generation[i] \in Nat /\ generation[i] <= nconn
        /\ nconn \in Nat /\ nconn' = nconn + 1
    BY <1>2, <1>a, GatewayAssumption
  <2>2. \/ generation'[i] = generation[i] + 1
        \/ generation'[i] = generation[i] /\ conn'[i] = conn[i]
    BY <1>b, <1>c, <1>e, Zenon
  <2> QED
    BY <2>1, <2>2
<1>4. handshake' \in [Slot -> BOOLEAN] /\ epollout' \in [Slot -> BOOLEAN]
  BY <1>0, Zenon DEF HandleAcceptClient, AcceptFailed, AcceptRefused, TypeOK
<1>5. /\ conn' \in [Slot -> Conn \cup {NoConn}]
      /\ tx' \in [Slot -> Seq(Request)]
      /\ \A i \in Slot : conn'[i] = NoConn => tx'[i] = <<>>
  <2>1. nconn' # NoConn
    BY <1>2
  <2>2. CASE conn' = [conn EXCEPT ![s] = nconn'] /\ tx' = [tx EXCEPT ![s] = <<>>]
    BY <2>1, <2>2, <1>2, <1>a, <1>e
  <2>3. CASE conn' = conn /\ tx' = tx
    BY <2>3, <1>a, <1>e
  <2> QED
    BY <1>c, <2>2, <2>3
<1>6. TypeOK'
  <2>1. nconn' \in 0..MaxConn
    BY <1>2 DEF Conn
  <2> QED
    BY <1>0, <1>1, <1>d, <1>g, <1>4, <1>5, <2>1 DEF TypeOK
<1>7. Steady
  <2>1. ASSUME NEW i \in Slot PROVE SlotSteady(i)
    <3>1. generation[i] \in Int /\ generation'[i] \in Int
      BY <1>d, <1>e
    <3>2. /\ generation'[i] >= generation[i]
          /\ generation'[i] = generation[i] => conn'[i] = conn[i]
      BY <1>3
    <3>3. generation'[i] > generation[i] \/ generation'[i] = generation[i]
      BY <3>1, <3>2
    <3> QED
      BY <3>2, <3>3 DEF SlotSteady
  <2> QED
    BY <1>g, <2>1 DEF Steady
<1>8. RightRecipient'
  <2>1. \A i \in Slot : tx'[i] = <<>> \/ (conn'[i] = conn[i] /\ tx'[i] = tx[i])
    BY <1>c, <1>e
  <2>2. \A i \in Slot : \A k \in DOMAIN tx'[i] : origin[tx'[i][k]] = conn'[i]
    <3> SUFFICES ASSUME NEW i \in Slot, NEW k \in DOMAIN tx'[i]
                 PROVE  origin[tx'[i][k]] = conn'[i]
      OBVIOUS
    <3>1. tx'[i] # <<>>
      OBVIOUS
    <3>2. conn'[i] = conn[i] /\ tx'[i] = tx[i]
      BY <2>1, <3>1
    <3> QED
      BY <1>0, <3>2 DEF RightRecipient
  <2> QED
    BY <1>0, <1>g, <2>2, Zenon DEF RightRecipient
<1>9. NoStrandedResponse'
  BY <1>0 DEF HandleAcceptClient, AcceptFailed, AcceptRefused, NoStrandedResponse
<1> QED
  BY <1>1, <1>3, <1>5, <1>6, <1>7, <1>8, <1>9, TableStep

\* Closing clients: close_client(), reap_client() and server_cleanup().
LEMMA CloseStep ==
  ASSUME IndInv,
         \/ \E s \in Slot : ClientClosed(s)
         \/ \E idle \in SUBSET {s \in Slot : conn[s] # NoConn} : ReapClient(idle)
         \/ RunCleanup
  PROVE  IndInv'
<1> USE DEF queueVars, workerVars, threadVars, logVars
<1>0. TypeOK /\ NoStrandedResponse /\ RightRecipient
  BY DEF IndInv
<1>1. PICK S \in SUBSET Slot : CloseClients(S)
  BY Zenon DEF ClientClosed, ReapClient, RunCleanup
<1>2. UNCHANGED <<queueVars, crashed, workerVars, sig, shutdown, logVars>>
  BY Zenon DEF ClientClosed, ReapClient, RunCleanup
<1>3. /\ main' \in {"loop", "drain", "exit"} /\ (main' = "loop" => main = "loop")
      /\ run' \in {"check", "wait", "join", "exit"}
  BY <1>0, Zenon DEF ClientClosed, ClientEvent, MainEvent, ReapClient, RunCleanup, TypeOK
<1>4. /\ conn \in [Slot -> Conn \cup {NoConn}] /\ tx \in [Slot -> Seq(Request)]
      /\ \A i \in Slot : conn[i] = NoConn => tx[i] = <<>>
      /\ \A i \in Slot : generation[i] <= nconn
  BY <1>0 DEF TypeOK, IndInv
<1>5. /\ conn' \in [Slot -> Conn \cup {NoConn}] /\ tx' \in [Slot -> Seq(Request)]
      /\ generation' = generation /\ handshake' = handshake
      /\ \A i \in Slot : \/ conn'[i] = NoConn /\ tx'[i] = <<>>
                         \/ conn'[i] = conn[i] /\ tx'[i] = tx[i]
  BY <1>1, <1>4 DEF CloseClients
<1>6. epollout' \in [Slot -> BOOLEAN]
  BY <1>0, <1>1, Zenon DEF CloseClients, TypeOK
<1>7. TypeOK'
  BY <1>0, <1>2, <1>3, <1>5, <1>6, Zenon DEF TypeOK, TQ!TypeOK, RQ!FifoType
<1>8. Steady
  BY <1>2, <1>5 DEF Steady, SlotSteady
<1>9. InTransit' = InTransit
  BY <1>2 DEF InTransit
<1>10. RightRecipient'
  <2>1. ASSUME NEW i \in Slot, NEW k \in DOMAIN tx'[i] PROVE origin[tx'[i][k]] = conn'[i]
    <3>1. tx'[i] # <<>>
      OBVIOUS
    <3> QED
      BY <1>0, <1>5, <3>1, Zenon DEF RightRecipient
  <2> QED
    BY <1>0, <1>2, <2>1 DEF RightRecipient
<1>11. NoStrandedResponse'
  BY <1>0, <1>2, <1>3 DEF NoStrandedResponse
<1> QED
  BY <1>2, <1>4, <1>5, <1>7, <1>8, <1>9, <1>10, <1>11, TableStep

\* The handshake, and sending what a client's queue holds.
LEMMA SendStep ==
  ASSUME IndInv, NEW s \in Slot, NEW done \in BOOLEAN, NEW want_write \in BOOLEAN,
         NEW armed \in BOOLEAN,
         \/ TlsTryHandshake(s, done, want_write)
         \/ FlushEmpty(s) \/ FlushSent(s) \/ FlushAgain(s, armed) \/ Sigpipe(s)
  PROVE  IndInv'
<1> USE DEF queueVars, workerVars, clientVars, threadVars, logVars
<1>0. TypeOK /\ NoStrandedResponse /\ RightRecipient
  BY DEF IndInv
<1>1. /\ UNCHANGED <<queueVars, workerVars, threadVars, conn, generation, nconn, origin>>
      /\ conn[s] # NoConn
  BY Zenon DEF TlsTryHandshake, FlushEmpty, FlushSent, FlushAgain, Sigpipe, Sendable, ClientEvent
<1>2. handshake' \in [Slot -> BOOLEAN] /\ epollout' \in [Slot -> BOOLEAN]
  BY <1>0, Zenon DEF TlsTryHandshake, FlushEmpty, FlushSent, FlushAgain, Sigpipe, TypeOK
<1>3. crashed' \in BOOLEAN
  BY <1>0, Zenon
  DEF TlsTryHandshake, FlushEmpty, FlushSent, FlushAgain, Sigpipe, TypeOK, TQ!TypeOK
<1>4. /\ tx \in [Slot -> Seq(Request)] /\ received \in [Conn -> SUBSET Request]
      /\ conn \in [Slot -> Conn \cup {NoConn}] /\ conn[s] \in Conn
      /\ \A i \in Slot : conn[i] = NoConn => tx[i] = <<>>
      /\ \A i \in Slot : generation[i] <= nconn
  BY <1>0, <1>1, Zenon DEF TypeOK, IndInv
<1>5. \/ tx' = tx
      \/ tx' = [tx EXCEPT ![s] = <<>>]
      \/ tx[s] # <<>> /\ tx' = [tx EXCEPT ![s] = Tail(tx[s])]
  BY Zenon DEF TlsTryHandshake, FlushEmpty, FlushSent, FlushAgain, Sigpipe
<1>a. PICK m \in Seq(Request) :
         /\ tx' = [tx EXCEPT ![s] = m]
         /\ \A k \in DOMAIN m : origin[m[k]] = conn[s]
  <2>1. tx[s] \in Seq(Request) /\ \A k \in DOMAIN tx[s] : origin[tx[s][k]] = conn[s]
    BY <1>0, <1>4 DEF RightRecipient
  <2>2. CASE tx' = tx
    <3>1. tx' = [tx EXCEPT ![s] = tx[s]]
      BY <2>2, <1>4
    <3> QED
      BY <2>1, <3>1, Zenon
  <2>3. CASE tx' = [tx EXCEPT ![s] = <<>>]
    <3>1. <<>> \in Seq(Request) /\ \A k \in DOMAIN <<>> : origin[<<>>[k]] = conn[s]
      OBVIOUS
    <3> QED
      BY <2>3, <3>1, Zenon
  <2>4. CASE tx[s] # <<>> /\ tx' = [tx EXCEPT ![s] = Tail(tx[s])]
    <3>1. /\ Tail(tx[s]) \in Seq(Request)
          /\ \A k \in DOMAIN Tail(tx[s]) :
                k + 1 \in DOMAIN tx[s] /\ Tail(tx[s])[k] = tx[s][k + 1]
      BY <2>1, <2>4
    <3>2. \A k \in DOMAIN Tail(tx[s]) : origin[Tail(tx[s])[k]] = conn[s]
      BY <2>1, <3>1, Zenon
    <3> QED
      BY <2>4, <3>1, <3>2, Zenon
  <2> QED
    BY <1>5, <2>2, <2>3, <2>4, Zenon
<1>6. /\ tx' \in [Slot -> Seq(Request)]
      /\ \A i \in Slot : conn[i] = NoConn => tx'[i] = <<>>
  BY <1>1, <1>4, <1>a
<1>7. \A i \in Slot : \A k \in DOMAIN tx'[i] : origin[tx'[i][k]] = conn[i]
  BY <1>0, <1>4, <1>a DEF RightRecipient
<1>8. /\ received' \in [Conn -> SUBSET Request]
      /\ \A c \in Conn : \A r \in received'[c] : origin[r] = c
  <2>1. CASE FlushSent(s)
    <3>1. tx[s] # <<>> /\ Head(tx[s]) = tx[s][1] /\ 1 \in DOMAIN tx[s] /\ tx[s][1] \in Request
      BY <2>1, <1>4 DEF FlushSent
    <3>2. origin[Head(tx[s])] = conn[s]
      BY <1>0, <3>1 DEF RightRecipient
    <3>3. received' = [received EXCEPT ![conn[s]] = @ \cup {Head(tx[s])}]
      BY <2>1 DEF FlushSent
    <3>4. \A c \in Conn : \A r \in received[c] : origin[r] = c
      BY <1>0, Zenon DEF RightRecipient
    <3> QED
      BY <1>4, <3>1, <3>2, <3>3, <3>4
  <2>2. CASE received' = received
    BY <1>0, <1>4, <2>2 DEF RightRecipient
  <2> QED
    BY <2>1, <2>2, Zenon DEF TlsTryHandshake, FlushEmpty, FlushAgain, Sigpipe
<1>9. TypeOK'
  <2>1. TQ!TypeOK /\ RQ!FifoType
    BY <1>0 DEF TypeOK
  <2>2. TQ!TypeOK' /\ RQ!FifoType'
    BY <1>1, <1>3, <2>1 DEF TQ!TypeOK, RQ!FifoType
  <2> QED
    BY <1>0, <1>1, <1>2, <1>6, <1>8, <2>2, Zenon DEF TypeOK
<1>10. Steady /\ InTransit' = InTransit
  BY <1>1, Zenon DEF Steady, SlotSteady, InTransit
<1>11. RightRecipient'
  BY <1>1, <1>7, <1>8, Zenon DEF RightRecipient
<1>12. NoStrandedResponse'
  BY <1>0, <1>1 DEF NoStrandedResponse
<1> QED
  BY <1>1, <1>4, <1>6, <1>9, <1>10, <1>11, <1>12, TableStep
=============================================================================
