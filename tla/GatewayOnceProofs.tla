------------------------- MODULE GatewayOnceProofs --------------------------
(***************************************************************************)
(* Proof that module Gateway never answers a request twice: on its way over *)
(* both queues to the client a request is in one place at a time.           *)
(*                                                                         *)
(* The invariant gives each request a stage.  What is in a place has the    *)
(* stage of that place, so no request is in two of them, and no place holds *)
(* a request twice.  A step moves at most one request; one that was not     *)
(* read yet is nowhere, by the invariant of module GatewayProofs.           *)
(***************************************************************************)
EXTENDS GatewayProofs

USE DEF NoConn

Stage == {"none", "task", "job", "response", "tx", "received"}

\* The workers that have a task and did not answer it yet.
Holder == {w \in Worker \ notifying : pc[w] = "busy"}

\* One function tells of each request where it is; what is in one place has that stage, and no
\* place has two of the same request.
QAt(st) == /\ \A i \in DOMAIN q : st[q[i].request] = "task"
           /\ \A i, j \in DOMAIN q : q[i].request = q[j].request => i = j
JAt(st) == /\ \A w \in Holder : st[job[w].request] = "job"
           /\ \A v, w \in Holder : job[v].request = job[w].request => v = w
RAt(st) == /\ \A i \in DOMAIN response : st[response[i].request] = "response"
           /\ \A i, j \in DOMAIN response : response[i].request = response[j].request => i = j
TAt(st) == /\ \A s \in Slot : \A i \in DOMAIN tx[s] : st[tx[s][i]] = "tx"
           /\ \A s, u \in Slot : \A i \in DOMAIN tx[s], j \in DOMAIN tx[u] :
                tx[s][i] = tx[u][j] => s = u /\ i = j
VAt(st) == \A c \in Conn : \A r \in received[c] : st[r] = "received"

Staged(st) == st \in [Request -> Stage] /\ QAt(st) /\ JAt(st) /\ RAt(st) /\ TAt(st) /\ VAt(st)

OnceInv == \E st \in [Request -> Stage] : Staged(st)

\* What is somewhere was read from a connection.
LEMMA PlacesType ==
  ASSUME IndInv
  PROVE  /\ \A i \in DOMAIN q : q[i].request \in Request /\ origin[q[i].request] # NoConn
         /\ \A w \in Holder : job[w].request \in Request /\ origin[job[w].request] # NoConn
         /\ \A i \in DOMAIN response :
               response[i].request \in Request /\ origin[response[i].request] # NoConn
         /\ \A s \in Slot : \A i \in DOMAIN tx[s] : tx[s][i] \in Request /\ origin[tx[s][i]] # NoConn
         /\ \A c \in Conn : \A r \in received[c] : r \in Request /\ origin[r] # NoConn
<1>1. \A t \in InTransit : t.request \in Request /\ origin[t.request] # NoConn
  BY DEF IndInv, Traceable, Task
<1>2. /\ \A i \in DOMAIN q : q[i] \in InTransit
      /\ \A w \in Holder : job[w] \in InTransit
      /\ \A i \in DOMAIN response : response[i] \in InTransit
  BY Zenon DEF InTransit, Holder
<1>3. /\ \A s \in Slot : \A i \in DOMAIN tx[s] : tx[s][i] \in Request /\ origin[tx[s][i]] # NoConn
      /\ \A c \in Conn : \A r \in received[c] : r \in Request /\ origin[r] # NoConn
  BY OwnMessages
<1> QED BY <1>1, <1>2, <1>3, Zenon

-----------------------------------------------------------------------------
(* A step that moves no request keeps the stages.                           *)
LEMMA KeepStep ==
  ASSUME OnceInv, UNCHANGED <<q, response, received>>,
         \A w \in Holder' : w \in Holder /\ job'[w] = job[w],
         \A s \in Slot : tx'[s] = tx[s] \/ tx'[s] = <<>>
  PROVE  OnceInv'
<1>1. PICK st \in [Request -> Stage] : Staged(st)
  BY DEF OnceInv
<1>2. QAt(st)' /\ RAt(st)' /\ VAt(st)'
  BY <1>1, Zenon DEF Staged, QAt, RAt, VAt
<1>3. JAt(st)'
  BY <1>1 DEF Staged, JAt
<1>4. TAt(st)'
  <2>1. \A s \in Slot : \A i \in DOMAIN tx'[s] : i \in DOMAIN tx[s] /\ tx'[s][i] = tx[s][i]
    OBVIOUS
  <2> QED
    BY <1>1, <2>1 DEF Staged, TAt
<1> QED
  BY <1>2, <1>3, <1>4 DEF OnceInv, Staged

-----------------------------------------------------------------------------
(* Request r moves: every other one that is somewhere keeps its stage.      *)
Moved(st, new, r) ==
  /\ \A i \in DOMAIN q : q[i].request # r => new[q[i].request] = st[q[i].request]
  /\ \A w \in Holder : job[w].request # r => new[job[w].request] = st[job[w].request]
  /\ \A i \in DOMAIN response :
       response[i].request # r => new[response[i].request] = st[response[i].request]
  /\ \A s \in Slot : \A i \in DOMAIN tx[s] : tx[s][i] # r => new[tx[s][i]] = st[tx[s][i]]
  /\ \A c \in Conn : \A x \in received[c] : x # r => new[x] = st[x]

\* A request may be given any stage.
LEMMA MoveTo ==
  ASSUME IndInv, NEW st \in [Request -> Stage], NEW r \in Request, NEW to \in Stage
  PROVE  \E new \in [Request -> Stage] : new[r] = to /\ Moved(st, new, r)
<1>1. PICK new \in [Request -> Stage] : new = [st EXCEPT ![r] = to]
  BY Zenon
<1>2. new[r] = to /\ \A x \in Request : x # r => new[x] = st[x]
  BY <1>1
<1> QED
  BY <1>2, PlacesType, Zenon DEF Moved

\* A request that was not read yet is nowhere.
LEMMA Fresh ==
  ASSUME IndInv, OnceInv, NEW r \in Request, origin[r] = NoConn
  PROVE  \E st \in [Request -> Stage] : Staged(st) /\ st[r] = "none"
<1>1. PICK old \in [Request -> Stage] : Staged(old)
  BY DEF OnceInv
<1>2. PICK st \in [Request -> Stage] : st[r] = "none" /\ Moved(old, st, r)
  BY MoveTo DEF Stage
<1>3. QAt(st)
  BY <1>1, <1>2, PlacesType DEF Moved, Staged, QAt
<1>4. JAt(st)
  BY <1>1, <1>2, PlacesType DEF Moved, Staged, JAt
<1>5. RAt(st)
  BY <1>1, <1>2, PlacesType DEF Moved, Staged, RAt
<1>6. TAt(st)
  BY <1>1, <1>2, PlacesType DEF Moved, Staged, TAt
<1>7. VAt(st)
  BY <1>1, <1>2, PlacesType DEF Moved, Staged, VAt
<1> QED
  BY <1>2, <1>3, <1>4, <1>5, <1>6, <1>7 DEF Staged

\* The places that r neither leaves nor enters.
LEMMA MovedElsewhere ==
  ASSUME NEW st, Staged(st), NEW r, NEW new, Moved(st, new, r)
  PROVE  /\ q' = q /\ st[r] # "task" => QAt(new)'
         /\ /\ \A w \in Holder' : w \in Holder /\ job'[w] = job[w]
            /\ st[r] # "job"
            => JAt(new)'
         /\ response' = response /\ st[r] # "response" => RAt(new)'
         /\ tx' = tx /\ st[r] # "tx" => TAt(new)'
         /\ received' = received /\ st[r] # "received" => VAt(new)'
<1>1. q' = q /\ st[r] # "task" => QAt(new)'
  BY Zenon DEF Moved, Staged, QAt
<1>2. ASSUME \A w \in Holder' : w \in Holder /\ job'[w] = job[w], st[r] # "job"
      PROVE  JAt(new)'
  BY <1>2 DEF Moved, Staged, JAt
<1>3. response' = response /\ st[r] # "response" => RAt(new)'
  BY Zenon DEF Moved, Staged, RAt
<1>4. tx' = tx /\ st[r] # "tx" => TAt(new)'
  BY DEF Moved, Staged, TAt
<1>5. received' = received /\ st[r] # "received" => VAt(new)'
  BY Zenon DEF Moved, Staged, VAt
<1> QED
  BY <1>1, <1>2, <1>3, <1>4, <1>5

\* r leaves the head of the task queue.
LEMMA LeavesQueue ==
  ASSUME NEW st, Staged(st), NEW new, q \in Seq(Task), q # <<>>, q' = Tail(q),
         Moved(st, new, q[1].request)
  PROVE  QAt(new)'
<1>1. 1 \in DOMAIN q
      /\ \A i \in DOMAIN q' : i \in Nat /\ i + 1 \in DOMAIN q /\ i + 1 # 1 /\ q'[i] = q[i + 1]
  OBVIOUS
<1>2. \A i \in DOMAIN q : i # 1 => new[q[i].request] = "task"
  BY <1>1, Zenon DEF Moved, Staged, QAt
<1>3. \A i, j \in DOMAIN q' : q'[i].request = q'[j].request => i = j
  BY <1>1 DEF Staged, QAt
<1> QED
  BY <1>1, <1>2, <1>3 DEF QAt

\* r leaves the head of the response queue.
LEMMA LeavesResponses ==
  ASSUME NEW st, Staged(st), NEW new, response \in Seq(Task), response # <<>>,
         response' = Tail(response), Moved(st, new, response[1].request)
  PROVE  RAt(new)'
<1>1. /\ 1 \in DOMAIN response
      /\ \A i \in DOMAIN response' :
            i \in Nat /\ i + 1 \in DOMAIN response /\ i + 1 # 1 /\ response'[i] = response[i + 1]
  OBVIOUS
<1>2. \A i \in DOMAIN response : i # 1 => new[response[i].request] = "response"
  BY <1>1, Zenon DEF Moved, Staged, RAt
<1>3. \A i, j \in DOMAIN response' : response'[i].request = response'[j].request => i = j
  BY <1>1 DEF Staged, RAt
<1> QED
  BY <1>1, <1>2, <1>3 DEF RAt

\* r leaves the head of a client's messages, alone or with all that follow.
LEMMA LeavesMessages ==
  ASSUME NEW st, Staged(st), NEW new, NEW s \in Slot, 1 \in DOMAIN tx[s],
         Moved(st, new, tx[s][1]),
         \A u \in Slot : u # s => tx'[u] = tx[u],
         \A i \in DOMAIN tx'[s] : i \in Nat \ {0} /\ i + 1 \in DOMAIN tx[s] /\ tx'[s][i] = tx[s][i + 1]
  PROVE  TAt(new)'
<1>1. \A i \in DOMAIN tx[s] : i # 1 => new[tx[s][i]] = "tx"
  BY DEF Moved, Staged, TAt
<1>2. \A u \in Slot : u # s => \A i \in DOMAIN tx[u] : new[tx[u][i]] = "tx"
  BY DEF Moved, Staged, TAt
<1>3. \A u \in Slot : \A i \in DOMAIN tx'[u] : new[tx'[u][i]] = "tx"
  BY <1>1, <1>2
<1>4. ASSUME NEW u \in Slot, NEW v \in Slot, NEW i \in DOMAIN tx'[u], NEW j \in DOMAIN tx'[v],
             tx'[u][i] = tx'[v][j]
      PROVE  u = v /\ i = j
  BY <1>4 DEF Staged, TAt
<1> QED
  BY <1>3, <1>4 DEF TAt

\* r joins the messages of a client.
LEMMA JoinsMessages ==
  ASSUME IndInv, NEW st, Staged(st), NEW new, NEW s \in Slot, NEW r \in Request, Moved(st, new, r),
         st[r] # "tx", new[r] = "tx", tx' = [tx EXCEPT ![s] = Append(@, r)]
  PROVE  TAt(new)'
<1>1. tx \in [Slot -> Seq(Request)]
  BY DEF IndInv, TypeOK
<1>2. \A u \in Slot : \A i \in DOMAIN tx'[u] :
         \/ i \in DOMAIN tx[u] /\ tx'[u][i] = tx[u][i]
         \/ u = s /\ i = Len(tx[s]) + 1 /\ tx'[u][i] = r
  BY <1>1
<1>3. \A u \in Slot : \A i \in DOMAIN tx[u] : tx[u][i] # r /\ new[tx[u][i]] = "tx"
  BY DEF Moved, Staged, TAt
<1>4. \A u \in Slot : \A i \in DOMAIN tx'[u] : new[tx'[u][i]] = "tx"
  BY <1>2, <1>3
<1>5. ASSUME NEW u \in Slot, NEW v \in Slot, NEW i \in DOMAIN tx'[u], NEW j \in DOMAIN tx'[v],
             tx'[u][i] = tx'[v][j]
      PROVE  u = v /\ i = j
  BY <1>2, <1>3, <1>5 DEF Staged, TAt
<1> QED
  BY <1>4, <1>5 DEF TAt

-----------------------------------------------------------------------------
(* The steps that move a request from one place to the next, or drop it.    *)

\* pop() hands the task at the head to a worker.
LEMMA OncePop ==
  ASSUME IndInv, OnceInv, NEW w \in Worker, TQ!PopTask(w),
         UNCHANGED <<response, notifying, tx, received>>
  PROVE  OnceInv'
<1>1. PICK st \in [Request -> Stage] : Staged(st)
  BY DEF OnceInv
<1>2. /\ q \in Seq(Task) /\ q # <<>> /\ q' = Tail(q) /\ Head(q) = q[1] /\ 1 \in DOMAIN q
      /\ pc[w] = "pop" /\ pc \in [Worker -> {"pop", "wait", "busy", "exit"}]
      /\ job \in [Worker -> Task \cup {NULL}]
      /\ pc' = [pc EXCEPT ![w] = "busy"] /\ job' = [job EXCEPT ![w] = q[1]]
  BY DEF TQ!PopTask, IndInv, TypeOK, TQ!TypeOK
<1>3. PICK r \in Request : r = q[1].request
  BY <1>2, PlacesType, Zenon
<1>4. st[r] = "task"
  BY <1>1, <1>2, <1>3, Zenon DEF Staged, QAt
<1>5. PICK new \in [Request -> Stage] : new[r] = "job" /\ Moved(st, new, r)
  BY MoveTo DEF Stage
<1>6. RAt(new)' /\ TAt(new)' /\ VAt(new)' /\ QAt(new)'
  BY <1>1, <1>2, <1>3, <1>4, <1>5, MovedElsewhere, LeavesQueue
<1>7. \A v \in Holder' : v = w \/ (v \in Holder /\ job'[v] = job[v])
  BY <1>2 DEF Holder
<1>8. job'[w].request = r
  BY <1>2, <1>3
<1>9. \A v \in Holder : job[v].request # r /\ new[job[v].request] = "job"
  BY <1>1, <1>4, <1>5, Zenon DEF Moved, Staged, JAt
<1>10. \A v \in Holder' : new[job'[v].request] = "job"
  BY <1>5, <1>7, <1>8, <1>9
<1>11. \A u, v \in Holder' : job'[u].request = job'[v].request => u = v
  BY <1>1, <1>7, <1>8, <1>9 DEF Staged, JAt
<1> QED
  BY <1>6, <1>10, <1>11 DEF OnceInv, Staged, JAt

\* response_queue_push(): the worker's task becomes a response.
LEMMA OncePush ==
  ASSUME IndInv, OnceInv, NEW w \in Worker, PushResponse(w)
  PROVE  OnceInv'
<1>1. PICK st \in [Request -> Stage] : Staged(st)
  BY DEF OnceInv
<1>2. /\ response \in Seq(Task) /\ response' = Append(response, job[w])
      /\ w \in Holder /\ notifying' = notifying \cup {w}
      /\ UNCHANGED <<q, pc, job, tx, received>>
  BY DEF PushResponse, RQ!Put, IndInv, TypeOK, RQ!FifoType, Holder, queueVars, clientVars, logVars
<1>3. PICK r \in Request : r = job[w].request
  BY <1>2, PlacesType, Zenon
<1>4. st[r] = "job"
  BY <1>1, <1>2, <1>3, Zenon DEF Staged, JAt
<1>5. PICK new \in [Request -> Stage] : new[r] = "response" /\ Moved(st, new, r)
  BY MoveTo DEF Stage
<1>6. QAt(new)' /\ TAt(new)' /\ VAt(new)'
  BY <1>1, <1>2, <1>4, <1>5, MovedElsewhere
<1>7. JAt(new)'
  <2>1. \A v \in Holder' : v \in Holder /\ v # w /\ job'[v] = job[v]
    BY <1>2 DEF Holder
  <2>2. \A v \in Holder : v # w => new[job[v].request] = "job"
    BY <1>1, <1>2, <1>3, <1>5, Zenon DEF Moved, Staged, JAt
  <2> QED
    BY <1>1, <2>1, <2>2 DEF Staged, JAt
<1>8. \A i \in DOMAIN response : response[i].request # r /\ new[response[i].request] = "response"
  BY <1>1, <1>4, <1>5, Zenon DEF Moved, Staged, RAt
<1>9. \A i \in DOMAIN response' :
         \/ i \in DOMAIN response /\ response'[i] = response[i]
         \/ i = Len(response) + 1 /\ response'[i] = job[w]
  BY <1>2
<1>10. RAt(new)'
  <2>1. \A i \in DOMAIN response' : new[response'[i].request] = "response"
    BY <1>3, <1>5, <1>8, <1>9
  <2>2. ASSUME NEW i \in DOMAIN response', NEW j \in DOMAIN response',
               response'[i].request = response'[j].request
        PROVE  i = j
    BY <1>1, <1>3, <1>8, <1>9, <2>2 DEF Staged, RAt
  <2> QED
    BY <2>1, <2>2 DEF RAt
<1> QED
  BY <1>6, <1>7, <1>10 DEF OnceInv, Staged

\* response_queue_pop(): the response becomes a message of the client, or is
\* dropped.
LEMMA OnceDrain ==
  ASSUME IndInv, OnceInv, NEW drop \in BOOLEAN, DrainResponse(drop)
  PROVE  OnceInv'
<1>1. PICK st \in [Request -> Stage] : Staged(st)
  BY DEF OnceInv
<1>2. /\ response \in Seq(Task) /\ response # <<>> /\ response' = Tail(response)
      /\ 1 \in DOMAIN response /\ Head(response) = response[1] /\ response[1] \in Task
      /\ UNCHANGED <<q, pc, job, notifying, received>>
  BY DEF DrainResponse, RQ!Get, IndInv, TypeOK, RQ!FifoType, queueVars, logVars
<1>3. PICK r \in Request : r = response[1].request
  BY <1>2, PlacesType, Zenon
<1>4. st[r] = "response"
  BY <1>1, <1>2, <1>3, Zenon DEF Staged, RAt
<1>5. Holder' = Holder
  BY <1>2, Zenon DEF Holder
<1>6. ASSUME NEW new \in [Request -> Stage], Moved(st, new, r), TAt(new)'
      PROVE  OnceInv'
  <2>1. QAt(new)' /\ VAt(new)' /\ JAt(new)'
    BY <1>1, <1>2, <1>4, <1>5, <1>6, MovedElsewhere
  <2>2. RAt(new)'
    BY <1>1, <1>2, <1>3, <1>6, LeavesResponses
  <2> QED
    BY <1>6, <2>1, <2>2 DEF OnceInv, Staged
<1>7. CASE UNCHANGED clientVars
  <2>1. tx' = tx
    BY <1>7 DEF clientVars
  <2>2. PICK new \in [Request -> Stage] : new[r] = "none" /\ Moved(st, new, r)
    BY MoveTo DEF Stage
  <2>3. TAt(new)'
    BY <1>1, <1>4, <2>1, <2>2, MovedElsewhere
  <2> QED
    BY <1>6, <2>2, <2>3
<1>8. CASE EnqueueMessage(response[1].slot, response[1].request)
  <2>1. PICK s \in Slot : s = response[1].slot
    BY <1>2, Zenon DEF Task
  <2>2. tx' = [tx EXCEPT ![s] = Append(@, r)]
    BY <1>3, <1>8, <2>1 DEF EnqueueMessage
  <2>3. PICK new \in [Request -> Stage] : new[r] = "tx" /\ Moved(st, new, r)
    BY MoveTo DEF Stage
  <2>4. TAt(new)'
    BY <1>1, <1>4, <2>2, <2>3, JoinsMessages, Zenon
  <2> QED
    BY <1>6, <2>3, <2>4
<1> QED
  BY <1>2, <1>7, <1>8 DEF DrainResponse

\* A bad request is answered at once.
LEMMA OnceReadBad ==
  ASSUME IndInv, OnceInv, NEW s \in Slot, NEW r \in Request, ReadBadRequest(s, r)
  PROVE  OnceInv'
<1>1. /\ origin[r] = NoConn /\ tx' = [tx EXCEPT ![s] = Append(@, r)]
      /\ UNCHANGED <<q, pc, job, response, notifying, received>>
  BY Zenon DEF ReadBadRequest, ReadFrom, EnqueueMessage, queueVars, workerVars
<1>2. PICK st \in [Request -> Stage] : Staged(st) /\ st[r] = "none"
  BY <1>1, Fresh
<1>3. PICK new \in [Request -> Stage] : new[r] = "tx" /\ Moved(st, new, r)
  BY MoveTo DEF Stage
<1>4. Holder' = Holder
  BY <1>1, Zenon DEF Holder
<1>5. QAt(new)' /\ RAt(new)' /\ JAt(new)' /\ VAt(new)'
  BY <1>1, <1>2, <1>3, <1>4, MovedElsewhere
<1>6. TAt(new)'
  BY <1>1, <1>2, <1>3, JoinsMessages, Zenon
<1> QED
  BY <1>5, <1>6 DEF OnceInv, Staged

\* push() links the task of a good request, or loses it, or loses the one
\* behind the head.
LEMMA OnceRead ==
  ASSUME IndInv, OnceInv, NEW s \in Slot, NEW r \in Request, ReadRequest(s, r)
  PROVE  OnceInv'
<1>1. PICK t : t = BuildTask(s, r)
  OBVIOUS
<1>2. t.request = r
  BY <1>1 DEF BuildTask
<1>3. /\ origin[r] = NoConn /\ q \in Seq(Task) /\ q' = TQ!Linked(t)
      /\ UNCHANGED <<job, response, notifying, tx, received>>
  BY <1>1, Zenon DEF ReadRequest, ReadFrom, TQ!Push, IndInv, TypeOK, TQ!TypeOK, workerVars, clientVars
<1>4. PICK st \in [Request -> Stage] : Staged(st) /\ st[r] = "none"
  BY <1>3, Fresh
<1>5. PICK new \in [Request -> Stage] : new[r] = "task" /\ Moved(st, new, r)
  BY MoveTo DEF Stage
<1>6. \A w \in Worker : pc'[w] = "busy" => pc[w] = "busy"
  BY Zenon DEF ReadRequest, TQ!Push, TQ!SignalNotEmpty, IndInv, TypeOK, TQ!TypeOK
<1>7. \A w \in Holder' : w \in Holder /\ job'[w] = job[w]
  BY <1>3, <1>6, Zenon DEF Holder
<1>8. RAt(new)' /\ TAt(new)' /\ JAt(new)' /\ VAt(new)'
  BY <1>3, <1>4, <1>5, <1>7, MovedElsewhere
<1>9. \A i \in DOMAIN q : q[i].request # r /\ new[q[i].request] = "task"
  BY <1>4, <1>5, Zenon DEF Moved, Staged, QAt
<1>10. QAt(new)'
  <2>1. CASE q' = <<t>>
    BY <1>2, <1>5, <2>1 DEF QAt
  <2>2. CASE q' = q
    BY <1>4, <1>9, <2>2 DEF Staged, QAt
  <2>3. CASE q # <<>> /\ q' = <<Head(q), t>>
    <3>1. 1 \in DOMAIN q /\ DOMAIN q' = 1..2 /\ q'[1] = q[1] /\ q'[2] = t
      BY <1>3, <2>3
    <3> QED
      BY <1>2, <1>5, <1>9, <3>1 DEF QAt
  <2> QED
    BY <1>3, <2>1, <2>2, <2>3 DEF TQ!Linked
<1> QED
  BY <1>8, <1>10 DEF OnceInv, Staged

\* The message at the head is sent, and the ones behind it are dropped; or it is
\* dropped alone.
LEMMA OnceFlush ==
  ASSUME IndInv, OnceInv, NEW s \in Slot, NEW armed, FlushSent(s) \/ FlushAgain(s, armed)
  PROVE  OnceInv'
<1>1. PICK st \in [Request -> Stage] : Staged(st)
  BY DEF OnceInv
<1>2. /\ tx \in [Slot -> Seq(Request)] /\ received \in [Conn -> SUBSET Request] /\ tx[s] # <<>>
      /\ UNCHANGED <<q, pc, job, response, notifying>>
      /\ \/ /\ tx' = [tx EXCEPT ![s] = <<>>]
            /\ received' = [received EXCEPT ![conn[s]] = @ \cup {Head(tx[s])}]
         \/ tx' = [tx EXCEPT ![s] = Tail(@)] /\ received' = received
  BY Zenon DEF FlushSent, FlushAgain, IndInv, TypeOK, queueVars, workerVars, logVars
<1>3. tx[s] \in Seq(Request)
  BY <1>2
<1>4. 1 \in DOMAIN tx[s] /\ Head(tx[s]) = tx[s][1]
  BY <1>2, <1>3
<1>5. PICK r \in Request : r = tx[s][1]
  BY <1>4, PlacesType, Zenon
<1>6. st[r] = "tx"
  BY <1>1, <1>4, <1>5, Zenon DEF Staged, TAt
<1>7. PICK new \in [Request -> Stage] : new[r] = "received" /\ Moved(st, new, r)
  BY MoveTo DEF Stage
<1>8. Holder' = Holder
  BY <1>2, Zenon DEF Holder
<1>9. QAt(new)' /\ RAt(new)' /\ JAt(new)'
  BY <1>1, <1>2, <1>6, <1>7, <1>8, MovedElsewhere
<1>10. VAt(new)'
  <2>1. \A c \in Conn : \A x \in received'[c] : x \in received[c] \/ x = r
    BY <1>2, <1>4, <1>5
  <2>2. \A c \in Conn : \A x \in received[c] : new[x] = "received"
    BY <1>1, <1>6, <1>7, Zenon DEF Moved, Staged, VAt
  <2> QED
    BY <1>7, <2>1, <2>2 DEF VAt
<1>11. TAt(new)'
  <2>1. \A i \in DOMAIN tx'[s] :
           i \in Nat \ {0} /\ i + 1 \in DOMAIN tx[s] /\ tx'[s][i] = tx[s][i + 1]
    <3>1. tx'[s] = <<>> \/ tx'[s] = Tail(tx[s])
      BY <1>2, Zenon
    <3>2. \A i \in DOMAIN Tail(tx[s]) :
             i \in Nat \ {0} /\ i + 1 \in DOMAIN tx[s] /\ Tail(tx[s])[i] = tx[s][i + 1]
      BY <1>2, <1>3
    <3>3. CASE tx'[s] = <<>>
      BY <3>3
    <3> QED
      BY <3>1, <3>2, <3>3, Zenon
  <2>2. \A u \in Slot : u # s => tx'[u] = tx[u]
    BY <1>2
  <2> QED
    BY <1>1, <1>4, <1>5, <1>7, <2>1, <2>2, LeavesMessages, Zenon
<1> QED
  BY <1>9, <1>10, <1>11 DEF OnceInv, Staged

-----------------------------------------------------------------------------
(* The steps that move nothing.                                             *)

\* The steps of the other threads: pop() with no task, free(t), the wakeups.
LEMMA OncePc ==
  ASSUME IndInv, OnceInv, UNCHANGED <<q, response, tx, received>>,
         NEW w \in Worker,
         notifying' = notifying \/ (notifying' = notifying \ {w} /\ pc'[w] = "pop"),
         \/ TQ!PopWait(w) \/ TQ!PopExit(w) \/ TQ!PopNull(w) \/ TQ!FreeTask(w)
         \/ TQ!SpuriousWakeup(w)
  PROVE  OnceInv'
<1>1. pc \in [Worker -> {"pop", "wait", "busy", "exit"}] /\ job \in [Worker -> Task \cup {NULL}]
  BY Zenon DEF IndInv, TypeOK, TQ!TypeOK
<1>2. \/ pc' = pc /\ job' = job
      \/ \E p \in {"pop", "wait", "exit"} :
            pc' = [pc EXCEPT ![w] = p] /\ (job' = job \/ job' = [job EXCEPT ![w] = NULL])
  BY Zenon DEF TQ!PopWait, TQ!PopExit, TQ!PopNull, TQ!FreeTask, TQ!SpuriousWakeup
<1>3. \A v \in Holder' : v \in Holder /\ job'[v] = job[v]
  BY <1>1, <1>2 DEF Holder
<1> QED
  BY <1>3, KeepStep

\* task_queue_shutdown() wakes the waiting workers.
LEMMA OnceShutdown ==
  ASSUME IndInv, OnceInv, ShutdownQueue
  PROVE  OnceInv'
<1>1. /\ UNCHANGED <<q, job, response, notifying, tx, received>>
      /\ pc' = [w \in Worker |-> IF pc[w] = "wait" THEN "pop" ELSE pc[w]]
  BY Zenon DEF ShutdownQueue, TQ!TaskQueueShutdown, SigUnchanged, workerVars, clientVars, logVars
<1>2. \A w \in Holder' : w \in Holder /\ job'[w] = job[w]
  BY <1>1 DEF Holder
<1> QED
  BY <1>1, <1>2, KeepStep

\* A step of a worker.
LEMMA OnceWorker ==
  ASSUME IndInv, OnceInv, NEW w \in Worker, WorkerThread(w) \/ SpuriousWakeup(w)
  PROVE  OnceInv'
<1> USE DEF WorkerUnchanged, workerVars, clientVars, logVars
<1>1. CASE TQ!PopTask(w) /\ WorkerUnchanged
  BY <1>1, OncePop, Zenon
<1>2. CASE /\ \/ TQ!PopWait(w) \/ TQ!PopExit(w) \/ TQ!PopNull(w) \/ TQ!FreeTask(w)
              \/ TQ!SpuriousWakeup(w)
           /\ WorkerUnchanged
  <2>1. UNCHANGED <<q, response, tx, received, notifying>>
    BY <1>2, Zenon DEF TQ!PopWait, TQ!PopExit, TQ!PopNull, TQ!FreeTask, TQ!SpuriousWakeup
  <2> QED
    BY <1>2, <2>1, OncePc, Zenon
<1>3. CASE PushResponse(w)
  BY <1>3, OncePush
<1>4. CASE NotifyMainThread(w)
  <2>1. UNCHANGED <<q, response, tx, received>> /\ TQ!FreeTask(w) /\ notifying' = notifying \ {w}
    BY <1>4, Zenon DEF NotifyMainThread, TQ!FreeTask
  <2>2. pc'[w] = "pop"
    BY <2>1, Zenon DEF TQ!FreeTask, IndInv, TypeOK, TQ!TypeOK
  <2> QED
    BY <2>1, <2>2, OncePc, Zenon
<1> QED
  BY <1>1, <1>2, <1>3, <1>4, Zenon DEF WorkerThread, PopStep, SpuriousWakeup, NoResponse

\* A step that leaves the queues and the workers alone, and at most drops all
\* messages of some clients.
LEMMA OnceQuiet ==
  ASSUME OnceInv, UNCHANGED <<queueVars, response, notifying, received>>,
         \A s \in Slot : tx'[s] = tx[s] \/ tx'[s] = <<>>
  PROVE  OnceInv'
<1>1. \A w \in Holder' : w \in Holder /\ job'[w] = job[w]
  BY Zenon DEF Holder, queueVars
<1> QED
  BY <1>1, KeepStep, Zenon DEF queueVars

\* A step of the main thread.
LEMMA OnceMain ==
  ASSUME IndInv, OnceInv, MainThread \/ RunCleanup
  PROVE  OnceInv'
<1> USE DEF workerVars, logVars
<1>0. tx \in [Slot -> Seq(Request)]
  BY DEF IndInv, TypeOK
<1>1. ASSUME NEW s \in Slot, NEW done \in BOOLEAN, NEW want_write \in BOOLEAN,
             HandleAcceptClient(s, done, want_write)
      PROVE  OnceInv'
  <2>1. \A i \in Slot : tx'[i] = tx[i] \/ tx'[i] = <<>>
    BY <1>0, <1>1, Zenon DEF HandleAcceptClient
  <2> QED
    BY <1>1, <2>1, OnceQuiet, Zenon DEF HandleAcceptClient
<1>2. ASSUME UNCHANGED <<queueVars, response, notifying, received, tx>> PROVE OnceInv'
  BY <1>2, OnceQuiet, Zenon
<1>3. ASSUME NEW S, CloseClients(S), UNCHANGED <<queueVars, response, notifying, received>>
      PROVE  OnceInv'
  <2>1. \A i \in Slot : tx'[i] = tx[i] \/ tx'[i] = <<>>
    BY <1>3 DEF CloseClients
  <2> QED
    BY <1>3, <2>1, OnceQuiet, Zenon
<1>4. ASSUME NEW s \in Slot,
             \/ AcceptFailed(s) \/ FlushEmpty(s) \/ Sigpipe(s)
             \/ \E done, want_write \in BOOLEAN : TlsTryHandshake(s, done, want_write)
             \/ \E r \in Request : ReadDropped(s, r)
      PROVE  OnceInv'
  BY <1>2, <1>4, Zenon
  DEF AcceptFailed, FlushEmpty, Sigpipe, TlsTryHandshake, ReadDropped, ReadFrom, clientVars
<1>5. CASE AcceptRefused \/ HandleResponse \/ DrainEnd
  BY <1>2, <1>5, Zenon DEF AcceptRefused, HandleResponse, DrainEnd, clientVars
<1>6. CASE \/ \E s \in Slot : ClientClosed(s)
           \/ \E idle \in SUBSET {s \in Slot : conn[s] # NoConn} : ReapClient(idle)
           \/ RunCleanup
  BY <1>3, <1>6, Zenon DEF ClientClosed, ReapClient, RunCleanup
<1>7. ASSUME NEW s \in Slot,
             \/ FlushSent(s) \/ \E armed \in BOOLEAN : FlushAgain(s, armed)
             \/ \E r \in Request : ReadBadRequest(s, r) \/ ReadRequest(s, r)
      PROVE  OnceInv'
  BY <1>7, OnceFlush, OnceReadBad, OnceRead, Zenon
<1>8. ASSUME NEW drop \in BOOLEAN, DrainResponse(drop) PROVE OnceInv'
  BY <1>8, OnceDrain
<1> QED
  BY <1>1, <1>4, <1>5, <1>6, <1>7, <1>8, Zenon DEF MainThread

\* Every step keeps the invariant.
LEMMA OnceNext == IndInv /\ OnceInv /\ [Next]_vars => OnceInv'
<1> SUFFICES ASSUME IndInv, OnceInv, [Next]_vars PROVE OnceInv'
  OBVIOUS
<1>1. ASSUME UNCHANGED <<queueVars, workerVars, clientVars, logVars>> PROVE OnceInv'
  BY <1>1, OnceQuiet, Zenon DEF workerVars, clientVars, logVars
<1>2. CASE SetShutdown \/ SignalStop \/ RunCheck \/ Ended \/ UNCHANGED vars
  BY <1>1, <1>2, Zenon DEF SetShutdown, SignalStop, RunCheck, Ended, SigUnchanged, vars
<1> QED
  BY <1>2, OnceMain, OnceWorker, OnceShutdown, Zenon DEF Next

\* At the start nothing is anywhere.
LEMMA OnceInit == Init => OnceInv
<1> SUFFICES ASSUME Init PROVE OnceInv
  OBVIOUS
<1>1. PICK st \in [Request -> Stage] : st = [r \in Request |-> "none"]
  BY Zenon DEF Stage
<1>2. /\ q = <<>> /\ response = <<>> /\ Holder = {}
      /\ \A s \in Slot : tx[s] = <<>>
      /\ \A c \in Conn : received[c] = {}
  BY DEF Init, TQ!Init, RQ!Init, Holder
<1>3. Staged(st)
  BY <1>2 DEF Staged, QAt, JAt, RAt, TAt, VAt
<1> QED
  BY <1>3 DEF OnceInv

\* A request that has a stage is in one place at most.
LEMMA OnePlace ==
  ASSUME IndInv, OnceInv, NEW r \in Request, NEW x \in Places(r), NEW y \in Places(r)
  PROVE  x = y
<1>1. PICK st \in [Request -> Stage] : Staged(st)
  BY DEF OnceInv
<1>2. ASSUME NEW p \in Places(r)
      PROVE  \/ st[r] = "task" /\ \E i \in DOMAIN q : q[i].request = r /\ p = <<"task", i>>
             \/ st[r] = "job" /\ \E w \in Holder : job[w].request = r /\ p = <<"job", w>>
             \/ /\ st[r] = "response"
                /\ \E i \in DOMAIN response : response[i].request = r /\ p = <<"response", i>>
             \/ /\ st[r] = "tx"
                /\ \E s \in Slot : \E i \in DOMAIN tx[s] : tx[s][i] = r /\ p = <<"tx", s, i>>
             \/ st[r] = "received" /\ \E c \in Conn : r \in received[c] /\ p = <<"received", c>>
  <2>1. \/ \E i \in DOMAIN q : q[i].request = r /\ p = <<"task", i>>
        \/ \E w \in Holder : job[w].request = r /\ p = <<"job", w>>
        \/ \E i \in DOMAIN response : response[i].request = r /\ p = <<"response", i>>
        \/ \E s \in Slot : \E i \in DOMAIN tx[s] : tx[s][i] = r /\ p = <<"tx", s, i>>
        \/ \E c \in Conn : r \in received[c] /\ p = <<"received", c>>
    <3>1. CASE p \in AsTask(r)
      BY <3>1, Zenon DEF AsTask
    <3>2. CASE p \in AsJob(r)
      BY <3>2, Zenon DEF AsJob, Holder
    <3>3. CASE p \in AsResponse(r)
      BY <3>3, Zenon DEF AsResponse
    <3>4. CASE p \in AsMessage(r)
      BY <3>4, Zenon DEF AsMessage
    <3>5. CASE p \in AsReceived(r)
      BY <3>5, Zenon DEF AsReceived
    <3> QED
      BY <1>2, <3>1, <3>2, <3>3, <3>4, <3>5, Zenon DEF Places
  <2>2. /\ \A i \in DOMAIN q : st[q[i].request] = "task"
        /\ \A w \in Holder : st[job[w].request] = "job"
        /\ \A i \in DOMAIN response : st[response[i].request] = "response"
        /\ \A s \in Slot : \A i \in DOMAIN tx[s] : st[tx[s][i]] = "tx"
        /\ \A c \in Conn : \A k \in received[c] : st[k] = "received"
    BY <1>1, Zenon DEF Staged, QAt, JAt, RAt, TAt, VAt
  <2> QED
    BY <2>1, <2>2
<1>3. CASE st[r] = "task"
  BY <1>1, <1>2, <1>3, Zenon DEF Staged, QAt
<1>4. CASE st[r] = "job"
  BY <1>1, <1>2, <1>4, Zenon DEF Staged, JAt
<1>5. CASE st[r] = "response"
  BY <1>1, <1>2, <1>5, Zenon DEF Staged, RAt
<1>6. CASE st[r] = "tx"
  <2>1. PICK s \in Slot : \E i \in DOMAIN tx[s] : tx[s][i] = r /\ x = <<"tx", s, i>>
    BY <1>2, <1>6, Zenon
  <2>2. PICK u \in Slot : \E j \in DOMAIN tx[u] : tx[u][j] = r /\ y = <<"tx", u, j>>
    BY <1>2, <1>6, Zenon
  <2> QED
    BY <1>1, <2>1, <2>2 DEF Staged, TAt
<1>7. CASE st[r] = "received"
  <2>1. PICK c \in Conn : r \in received[c] /\ x = <<"received", c>>
    BY <1>2, <1>7, Zenon
  <2>2. PICK d \in Conn : r \in received[d] /\ y = <<"received", d>>
    BY <1>2, <1>7, Zenon
  <2> QED
    BY <2>1, <2>2, OwnMessages, Zenon
<1> QED
  BY <1>2, <1>3, <1>4, <1>5, <1>6, <1>7, Zenon

INSTANCE FiniteSetTheorems

(***************************************************************************)
(* A request is never answered twice, for any number of clients, workers    *)
(* and requests: on its way from the reader over both queues to the client  *)
(* it is in one place at a time.                                            *)
(***************************************************************************)
THEOREM AnsweredAtMostOnce == Spec => []AtMostOneAnswer
<1>1. Spec => []OnceInv
  BY OnceInit, OnceNext, Invariance, PTL DEF Spec
<1>2. IndInv /\ OnceInv => AtMostOneAnswer
  <2> SUFFICES ASSUME IndInv, OnceInv, NEW r \in Request PROVE Cardinality(Places(r)) <= 1
    BY DEF AtMostOneAnswer
  <2>1. CASE Places(r) = {}
    BY <2>1, FS_EmptySet
  <2>2. ASSUME NEW x \in Places(r) PROVE Cardinality(Places(r)) <= 1
    <3>3. \A y \in Places(r) : y = x
      BY <2>2, OnePlace
    <3>1. Places(r) = {x}
      BY <2>2, <3>3, Zenon
    <3>2. Cardinality({x}) = 1
      BY FS_Singleton, Zenon
    <3> QED
      BY <3>1, <3>2
  <2> QED
    BY <2>1, <2>2, Zenon
<1> QED
  BY <1>1, <1>2, Invariance, PTL
=============================================================================
