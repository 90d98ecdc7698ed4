--------------------------- MODULE GatewayProofs ----------------------------
(* Proofs about module Gateway, for every number of slots, workers, connec- *)
(* tions and requests and every capacity of the queues: the steps of the    *)
(* main thread that move requests and responses, and the theorems.          *)
EXTENDS GatewayStepProofs

USE DEF NoConn

\* The elements of a queue of messages with one more at its end.
LEMMA AppendElements ==
  ASSUME NEW m \in Seq(Request), NEW e \in Request, NEW k \in DOMAIN Append(m, e)
  PROVE  \/ Append(m, e)[k] = e
         \/ k \in DOMAIN m /\ Append(m, e)[k] = m[k]
OBVIOUS

\* A message for the client of slot s: the answer to a request it sent.
LEMMA EnqueueStep ==
  ASSUME IndInv, NEW s \in Slot, NEW r \in Request, conn[s] # NoConn,
         EnqueueMessage(s, r), origin' \in [Request -> Conn \cup {NoConn}],
         origin'[r] = conn[s],
         \A i \in Request : origin[i] # NoConn => origin'[i] = origin[i],
         UNCHANGED <<queueVars, crashed, event_fd, notifying, threadVars, nconn, received>>,
         RQ!FifoType', InTransit' \subseteq InTransit, NoStrandedResponse'
  PROVE  IndInv'
<1> USE DEF queueVars, threadVars
<1>0. TypeOK /\ RightRecipient
  BY DEF IndInv
<1>1. UNCHANGED <<conn, generation, handshake>>
  BY DEF EnqueueMessage
<1>2. /\ conn \in [Slot -> Conn \cup {NoConn}] /\ tx \in [Slot -> Seq(Request)]
      /\ tx[s] \in Seq(Request)
      /\ \A i \in Slot : conn[i] = NoConn => tx[i] = <<>>
      /\ \A i \in Slot : generation[i] <= nconn
  BY <1>0 DEF TypeOK, IndInv
<1>3. /\ tx' = [tx EXCEPT ![s] = Append(tx[s], r)]
      /\ Append(tx[s], r) \in Seq(Request)
  BY <1>2 DEF EnqueueMessage
<1>4. /\ tx' \in [Slot -> Seq(Request)]
      /\ \A i \in Slot : conn[i] = NoConn => tx'[i] = <<>>
  BY <1>2, <1>3
<1>5. epollout' \in [Slot -> BOOLEAN]
  BY <1>0 DEF EnqueueMessage, TypeOK
<1>6. TypeOK'
  <2>1. TQ!TypeOK
    BY <1>0 DEF TypeOK
  <2>2. TQ!TypeOK'
    BY <2>1, QueueUnchanged
  <2> QED
    BY <1>0, <1>1, <1>4, <1>5, <2>2 DEF TypeOK
<1>7. Steady
  BY <1>1 DEF Steady, SlotSteady
<1>8. \A i \in Slot : \A k \in DOMAIN tx[i] :
         tx[i][k] \in Request /\ origin[tx[i][k]] = conn[i] /\ conn[i] # NoConn
  BY OwnMessages
<1>9. \A i \in Slot : \A k \in DOMAIN tx'[i] : origin'[tx'[i][k]] = conn[i]
  <2> SUFFICES ASSUME NEW i \in Slot, NEW k \in DOMAIN tx'[i]
               PROVE  origin'[tx'[i][k]] = conn[i]
    OBVIOUS
  <2>1. CASE i # s
    BY <1>2, <1>3, <1>8, <2>1, Zenon
  <2>2. CASE i = s
    <3>1. k \in DOMAIN Append(tx[s], r) /\ tx'[i][k] = Append(tx[s], r)[k]
      BY <1>2, <1>3, <2>2
    <3>2. Append(tx[s], r)[k] = r \/ (k \in DOMAIN tx[s] /\ Append(tx[s], r)[k] = tx[s][k])
      <4>1. tx[s] \in Seq(Request)
        BY <1>2
      <4> QED
        BY <3>1, <4>1, AppendElements, Zenon
    <3>3. CASE Append(tx[s], r)[k] = r
      BY <2>2, <3>1, <3>3
    <3>4. CASE k \in DOMAIN tx[s] /\ Append(tx[s], r)[k] = tx[s][k]
      <4>1. tx[s][k] \in Request /\ origin[tx[s][k]] = conn[s]
        BY <1>8, <3>4
      <4> QED
        BY <2>2, <3>1, <3>4, <4>1
    <3> QED
      BY <3>2, <3>3, <3>4, Zenon
  <2> QED
    BY <2>1, <2>2
<1>10. ASSUME NEW c \in Conn, NEW i \in received[c] PROVE origin'[i] = c
  <2>1. i \in Request /\ origin[i] = c /\ c # NoConn
    BY OwnMessages
  <2> QED
    BY <2>1
<1>11. RightRecipient'
  BY <1>1, <1>9, <1>10 DEF RightRecipient
<1> QED
  BY <1>1, <1>2, <1>4, <1>6, <1>7, <1>11, TableStep

\* Reading a request.
LEMMA ReadStep ==
  ASSUME IndInv, NEW s \in Slot, NEW r \in Request,
         ReadBadRequest(s, r) \/ ReadRequest(s, r) \/ ReadDropped(s, r)
  PROVE  IndInv'
<1> USE DEF queueVars, workerVars, clientVars, threadVars
<1>0. TypeOK /\ RightRecipient /\ NoStrandedResponse
  BY DEF IndInv
<1>1. /\ conn[s] # NoConn /\ main = "loop" /\ origin[r] = NoConn
      /\ origin' = [origin EXCEPT ![r] = conn[s]] /\ UNCHANGED <<nconn, received>>
  BY DEF ReadBadRequest, ReadRequest, ReadDropped, ReadFrom, ClientEvent, MainEvent
<1>2. /\ origin' \in [Request -> Conn \cup {NoConn}] /\ origin'[r] = conn[s]
      /\ \A i \in Request : origin[i] # NoConn => origin'[i] = origin[i]
  BY <1>0, <1>1 DEF TypeOK
<1>3. NoStrandedResponse'
  BY <1>0 DEF ReadBadRequest, ReadRequest, ReadDropped, NoStrandedResponse
<1>4. CASE ReadBadRequest(s, r)
  <2>1. RQ!FifoType' /\ InTransit' \subseteq InTransit
    BY <1>0, <1>4 DEF ReadBadRequest, TypeOK, RQ!FifoType, InTransit
  <2> QED
    BY <1>1, <1>2, <1>3, <1>4, <2>1, EnqueueStep DEF ReadBadRequest
<1>5. CASE ReadRequest(s, r) \/ ReadDropped(s, r)
  <2>1. UNCHANGED <<workerVars, clientVars, threadVars>>
    BY <1>5 DEF ReadRequest, ReadDropped
  <2>2. BuildTask(s, r) \in Task /\ \A t : t = BuildTask(s, r) => Traceable(t)'
    <3>1. BuildTask(s, r) \in Task
      BY <1>0 DEF BuildTask, Task, TypeOK
    <3>2. conn'[s] = conn[s] /\ generation'[s] = generation[s] /\ generation[s] <= generation[s]
      <4>1. generation[s] \in 0..MaxConn
        BY <1>0 DEF TypeOK
      <4>2. generation[s] <= generation[s]
        BY <4>1, GatewayAssumption
      <4> QED
        BY <2>1, <4>2, Zenon
    <3>3. ASSUME NEW t, t = BuildTask(s, r) PROVE Traceable(t)'
      <4>1. t.slot = s /\ t.request = r /\ t.generation = generation[s]
        BY <3>3 DEF BuildTask
      <4>2. t.generation <= generation'[t.slot]
        BY <3>2, <4>1, Zenon
      <4>3. origin'[t.request] = conn'[t.slot] /\ origin'[t.request] # NoConn
        BY <1>1, <1>2, <3>2, <4>1
      <4> QED
        BY <4>2, <4>3 DEF Traceable
    <3> QED
      BY <3>1, <3>3
  <2>3. TQ!TypeOK' /\ InTransit' \subseteq InTransit \cup {BuildTask(s, r)}
    <3>1. CASE ReadRequest(s, r)
      <4> DEFINE t == BuildTask(s, r)
      <4>1. q \in Seq(Task) /\ Len(q) <= 2 /\ t \in Task /\ TQ!TypeOK /\ TQ!Push(t)
        BY <1>0, <2>2, <3>1 DEF TypeOK, TQ!TypeOK, ReadRequest
      <4> HIDE DEF t
      <4>2. TQ!Linked(t) \in Seq(Task) /\ Len(TQ!Linked(t)) <= 2
        BY <4>1 DEF TQ!Linked
      <4>3. \A i \in DOMAIN TQ!Linked(t) : TQ!Linked(t)[i] \in {q[k] : k \in DOMAIN q} \cup {t}
        <5>1. CASE q = <<>>
          BY <4>1, <5>1 DEF TQ!Linked
        <5>2. CASE q # <<>> /\ stale
          BY <4>1, <5>2 DEF TQ!Linked
        <5>3. CASE q # <<>> /\ ~stale
          <6>1. Head(q) = q[1] /\ 1 \in DOMAIN q
            BY <4>1, <5>3
          <6> QED
            BY <4>1, <5>3, <6>1 DEF TQ!Linked
        <5> QED
          BY <5>1, <5>2, <5>3
      <4>4. pc' \in [Worker -> {"pop", "wait", "busy", "exit"}]
            /\ \A w \in Worker : pc'[w] = "busy" <=> pc[w] = "busy"
        BY <4>1 DEF TQ!Push, TQ!SignalNotEmpty, TQ!TypeOK
      <4>5. crashed' \in BOOLEAN
        BY <4>1, Zenon DEF TQ!Push
      <4>6. size' \in 0..TASK_QUEUE_MAX
        BY <4>1, GatewayAssumption DEF TQ!Push, TQ!TypeOK
      <4>7. TQ!TypeOK'
        BY <4>1, <4>2, <4>4, <4>5, <4>6 DEF TQ!Push, TQ!TypeOK
      <4>8. InTransit' \subseteq InTransit \cup {t}
        <5>1. q' = TQ!Linked(t) /\ job' = job /\ response' = response
          BY <2>1, <4>1 DEF TQ!Push
        <5>2. {q'[i] : i \in DOMAIN q'} \subseteq {q[k] : k \in DOMAIN q} \cup {t}
          BY <4>3, <5>1
        <5>3. {w \in Worker : pc'[w] = "busy"} = {w \in Worker : pc[w] = "busy"}
          BY <4>4
        <5> QED
          BY <5>1, <5>2, <5>3, Zenon DEF InTransit
      <4> QED
        BY <4>7, <4>8 DEF t
    <3>2. CASE ReadDropped(s, r)
      <4>1. TQ!TypeOK
        BY <1>0 DEF TypeOK
      <4>2. UNCHANGED <<queueVars, crashed, response>>
        BY <3>2 DEF ReadDropped
      <4> QED
        BY <4>1, <4>2, QueueUnchanged, TransitUnchanged
    <3> QED
      BY <1>5, <3>1, <3>2
  <2>4. \A w \in notifying : pc'[w] = "busy"
    BY <1>0, <1>5, Zenon
    DEF ReadRequest, ReadDropped, TQ!Push, TQ!SignalNotEmpty, TypeOK, TQ!TypeOK
  <2>5. TypeOK'
    BY <1>0, <1>1, <1>2, <2>1, <2>3, <2>4, Zenon DEF TypeOK, RQ!FifoType
  <2>6. Steady
    BY <1>2, <2>1, Zenon DEF Steady, SlotSteady
  <2>7. \A t \in InTransit' : t \in Task /\ Traceable(t)'
    <3>1. \A t \in InTransit : t \in Task /\ Traceable(t)'
      BY <1>0, <2>5, <2>6, StaysTraceable, SMTT(20) DEF IndInv
    <3> QED
      BY <2>2, <2>3, <3>1
  <2>8. RightRecipient'
    <3>1. ASSUME NEW i \in Slot, NEW k \in DOMAIN tx[i] PROVE origin'[tx[i][k]] = conn[i]
      <4>1. tx[i][k] \in Request /\ origin[tx[i][k]] = conn[i] /\ conn[i] # NoConn
        BY OwnMessages, Zenon
      <4> QED
        BY <1>2, <4>1
    <3>2. ASSUME NEW c \in Conn, NEW i \in received[c] PROVE origin'[i] = c
      <4>1. i \in Request /\ origin[i] = c /\ c # NoConn
        BY OwnMessages
      <4> QED
        BY <1>2, <4>1, Zenon
    <3>3. tx' = tx /\ conn' = conn /\ received' = received
      BY <1>1, <2>1
    <3> QED
      BY <3>1, <3>2, <3>3, Zenon DEF RightRecipient
  <2> QED
    BY <1>1, <1>3, <2>1, <2>5, <2>7, <2>8 DEF IndInv
<1> QED
  BY <1>4, <1>5

\* handle_response_to_client().
LEMMA DrainStep ==
  ASSUME IndInv, NEW drop \in BOOLEAN, HandleResponse \/ DrainResponse(drop) \/ DrainEnd
  PROVE  IndInv'
<1> USE DEF queueVars, workerVars, clientVars, threadVars, logVars
<1>0. TypeOK /\ RightRecipient /\ NoStrandedResponse
  BY DEF IndInv
<1>1. CASE HandleResponse \/ DrainEnd
  <2>0. event_fd' \in BOOLEAN
    BY <1>0, <1>1, Zenon DEF HandleResponse, DrainEnd, TypeOK
  <2>1. TypeOK'
    <3>1. TQ!TypeOK /\ RQ!FifoType
      BY <1>0 DEF TypeOK
    <3>2. /\ UNCHANGED <<queueVars, crashed, response, notifying, clientVars>>
          /\ UNCHANGED <<sig, run, shutdown, logVars>>
          /\ main' \in {"loop", "drain", "exit"}
      BY <1>1 DEF HandleResponse, DrainEnd
    <3>3. TQ!TypeOK' /\ RQ!FifoType'
      BY <3>1, <3>2, QueueUnchanged, ResponseUnchanged
    <3> QED
      BY <1>0, <2>0, <3>2, <3>3, Zenon DEF TypeOK
  <2>2. InTransit' \subseteq InTransit /\ NoStrandedResponse'
    <3>1. InTransit' = InTransit
      BY <1>1, TransitUnchanged DEF HandleResponse, DrainEnd
    <3>2. NoStrandedResponse'
      BY <1>1 DEF HandleResponse, DrainEnd, NoStrandedResponse
    <3> QED
      BY <3>1, <3>2
  <2> QED
    BY <1>1, <2>1, <2>2, TableUnchanged, Zenon DEF HandleResponse, DrainEnd
<1>2. CASE DrainResponse(drop)
  <2> DEFINE t == Head(response)
  <2>1. /\ response \in Seq(Task) /\ response # <<>> /\ Len(response) <= TASK_QUEUE_MAX
        /\ response' = Tail(response) /\ main = "drain" /\ main' = "drain"
    BY <1>0, <1>2, Zenon DEF DrainResponse, RQ!Get, TypeOK, RQ!FifoType
  <2>2. /\ t = response[1] /\ 1 \in DOMAIN response
        /\ response' \in Seq(Task) /\ Len(response') <= TASK_QUEUE_MAX
        /\ \A i \in DOMAIN response' : i + 1 \in DOMAIN response /\ response'[i] = response[i + 1]
    BY <2>1, GatewayAssumption
  <2>3. t \in Task /\ Traceable(t)
    BY <2>2 DEF InTransit, IndInv
  <2>4. RQ!FifoType'
    BY <2>2 DEF RQ!FifoType
  <2>5. InTransit' \subseteq InTransit
    <3>1. UNCHANGED queueVars
      BY <1>2 DEF DrainResponse
    <3>2. \A i \in DOMAIN response' : response'[i] \in {response[k] : k \in DOMAIN response}
      BY <2>2
    <3> QED
      BY <3>1, <3>2 DEF InTransit
  <2>6. NoStrandedResponse'
    BY <2>1 DEF NoStrandedResponse
  <2>7. CASE drop \/ ~IsValid(t)
    <3>1. UNCHANGED clientVars
      BY <1>2, <2>7, Zenon DEF DrainResponse
    <3>2. TypeOK'
      BY <1>0, <1>2, <2>4, <3>1, Zenon DEF DrainResponse, TypeOK, TQ!TypeOK
    <3> QED
      BY <1>2, <2>5, <2>6, <3>1, <3>2, TableUnchanged, Zenon DEF DrainResponse
  <2>8. CASE ~drop /\ IsValid(t)
    <3>1. EnqueueMessage(t.slot, t.request)
      BY <1>2, <2>8, Zenon DEF DrainResponse
    <3>2. /\ t.slot \in Slot /\ t.request \in Request /\ conn[t.slot] # NoConn
          /\ origin[t.request] = conn[t.slot]
      BY <2>3, <2>8, SMTT(20) DEF Task, Traceable, IsValid
    <3>3. /\ origin' = origin /\ origin' \in [Request -> Conn \cup {NoConn}]
          /\ UNCHANGED <<queueVars, crashed, event_fd, notifying, threadVars, nconn, received>>
      BY <1>0, <1>2, Zenon DEF DrainResponse, TypeOK
    <3> HIDE DEF t
    <3> QED
      BY <2>4, <2>5, <2>6, <3>1, <3>2, <3>3, EnqueueStep, Zenon
  <2> QED
    BY <2>7, <2>8
<1> QED
  BY <1>1, <1>2

-----------------------------------------------------------------------------
\* Every step keeps the invariant.
LEMMA NextInv == IndInv /\ [Next]_vars => IndInv'
<1> SUFFICES ASSUME IndInv, [Next]_vars PROVE IndInv'
  OBVIOUS
<1>1. CASE MainThread
  <2>1. ASSUME NEW s \in Slot, NEW done \in BOOLEAN, NEW want_write \in BOOLEAN,
               HandleAcceptClient(s, done, want_write) \/ TlsTryHandshake(s, done, want_write)
        PROVE  IndInv'
    BY <2>1, AcceptStep, SendStep
  <2>2. ASSUME NEW s \in Slot, AcceptFailed(s)
        PROVE  IndInv'
    BY <2>2, AcceptStep, Zenon
  <2>3. ASSUME NEW s \in Slot, ClientClosed(s)
        PROVE  IndInv'
    BY <2>3, CloseStep
  <2>4. ASSUME NEW s \in Slot, NEW armed \in BOOLEAN,
               FlushEmpty(s) \/ FlushSent(s) \/ Sigpipe(s) \/ FlushAgain(s, armed)
        PROVE  IndInv'
    BY <2>4, SendStep
  <2>5. ASSUME NEW s \in Slot, NEW r \in Request,
               ReadBadRequest(s, r) \/ ReadRequest(s, r) \/ ReadDropped(s, r)
        PROVE  IndInv'
    BY <2>5, ReadStep
  <2>6. CASE AcceptRefused
    <3>1. 0 \in Slot
      BY GatewayAssumption DEF Slot
    <3> QED
      BY <2>6, <3>1, AcceptStep, Zenon
  <2>7. ASSUME NEW drop \in BOOLEAN, HandleResponse \/ DrainEnd \/ DrainResponse(drop)
        PROVE  IndInv'
    BY <2>7, DrainStep
  <2>8. CASE \E idle \in SUBSET {s \in Slot : conn[s] # NoConn} : ReapClient(idle)
    BY <2>8, CloseStep
  <2> QED
    BY <1>1, <2>1, <2>2, <2>3, <2>4, <2>5, <2>6, <2>7, <2>8, Zenon DEF MainThread
<1>2. ASSUME NEW w \in Worker, WorkerThread(w) \/ SpuriousWakeup(w) PROVE IndInv'
  BY <1>2, WorkerStep
<1>3. CASE SetShutdown \/ ShutdownQueue \/ SignalStop \/ RunCheck
  BY <1>3, SignalStep
<1>4. CASE RunCleanup
  BY <1>4, CloseStep
<1>5. CASE UNCHANGED vars
  <2>1. TypeOK' /\ NoStrandedResponse' /\ InTransit' = InTransit
    <3>1. TypeOK /\ TQ!TypeOK /\ RQ!FifoType /\ NoStrandedResponse
      BY DEF IndInv, TypeOK
    <3>2. TQ!TypeOK' /\ RQ!FifoType' /\ InTransit' = InTransit
      BY <1>5, <3>1, QueueUnchanged, ResponseUnchanged, TransitUnchanged
      DEF vars, workerVars
    <3>3. TypeOK'
      BY <1>5, <3>1, <3>2, Zenon
      DEF TypeOK, vars, queueVars, workerVars, clientVars, threadVars, logVars
    <3>4. NoStrandedResponse'
      BY <1>5, <3>1 DEF NoStrandedResponse, vars, workerVars, threadVars
    <3> QED
      BY <3>2, <3>3, <3>4
  <2> QED
    BY <1>5, <2>1, TableUnchanged DEF vars
<1> QED
  BY <1>1, <1>2, <1>3, <1>4, <1>5 DEF Next, Ended

(***************************************************************************)
(* The inductive invariant holds in every state the gateway can reach.      *)
(***************************************************************************)
THEOREM Invariance == Spec => []IndInv
BY InitInv, NextInv, PTL DEF Spec

\* The state of the gateway keeps its type: the queues stay within
\* TASK_QUEUE_MAX, the table within its slots.
THEOREM TypeCorrect == Spec => []TypeOK
<1>1. IndInv => TypeOK
  BY DEF IndInv
<1> QED
  BY <1>1, Invariance, PTL

(***************************************************************************)
(* A client only ever gets answers to requests that were read from its own  *)
(* connection, for any number of clients, workers and requests.             *)
(***************************************************************************)
THEOREM AnswersReachTheirClient == Spec => []RightRecipient
<1>1. IndInv => RightRecipient
  BY DEF IndInv
<1> QED
  BY <1>1, Invariance, PTL

(***************************************************************************)
(* No response waits in the queue with nobody to wake the epoll loop.       *)
(***************************************************************************)
THEOREM NoLostNotification == Spec => []NoStrandedResponse
<1>1. IndInv => NoStrandedResponse
  BY DEF IndInv
<1> QED
  BY <1>1, Invariance, PTL
=============================================================================
