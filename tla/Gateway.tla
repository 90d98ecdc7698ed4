------------------------------ MODULE Gateway -------------------------------
(***************************************************************************)
(* The gateway daemon (gateway/src, TLS build): the epoll loop of           *)
(* main_thread with its client table, the pool of worker_threads, the task  *)
(* queue and the response queue between them, the eventfd, signal_thread    *)
(* and the shutdown sequence of server_run.                                 *)
(*                                                                         *)
(* Only the main thread touches the client table, so each of its handlers   *)
(* is one action, up to its next operation on a queue.  The task queue is   *)
(* module LossyTaskQueue, which module TaskQueue implements; the response   *)
(* queue is module BoundedFifo, which module ResponseQueue implements.      *)
(*                                                                         *)
(* A connection is named by the order of its accept, a request by the order *)
(* in which it was read.  Time is abstracted: a timeout may expire whenever *)
(* the code tests it.                                                       *)
(***************************************************************************)
EXTENDS Integers, Sequences, FiniteSets

CONSTANTS MAX_CLIENTS,     \* slots of the client table
          Worker,          \* the worker threads
          TASK_QUEUE_MAX,  \* capacity of both queues
          MaxConn,         \* bound: connections that are ever accepted
          MaxRequest,      \* bound: requests that are ever read
          NULL             \* no task

Slot == 0 .. MAX_CLIENTS - 1
Conn == 1 .. MaxConn
Request == 1 .. MaxRequest
NoConn == 0

\* struct task and struct response: both carry the slot and the generation of
\* the client, and the request.
Task == [slot : Slot, generation : 0..MaxConn, request : Request]

ASSUME GatewayAssumption ==
  /\ MAX_CLIENTS \in Nat \ {0} /\ TASK_QUEUE_MAX \in Nat \ {0}
  /\ MaxConn \in Nat /\ MaxRequest \in Nat
  /\ NULL \notin Task

VARIABLES
  \* the task queue and the workers' loop (module LossyTaskQueue)
  q, stale, size, tqShutdown, pc, job, crashed,
  \* the response queue, the event counter and the workers between the two
  response,   \* sv->response, a sequence of Task
  event_fd,   \* the eventfd is readable
  notifying,  \* the workers that pushed a response and did not notify yet
  \* the client table
  conn,       \* the connection of each slot (fd >= 0 and alive), or NoConn
  generation, \* client.generation
  handshake,  \* client.tls_handshake_done
  epollout,   \* EPOLLOUT is in the client's interest set
  tx,         \* the client's queue of messages, head first, as requests
  \* the threads main_thread, signal_thread and server_run
  main, sig, run,
  shutdown,   \* sv->shutdown
  \* what happened so far
  nconn,      \* connections accepted
  origin,     \* the connection each request was read from
  received    \* the requests that each connection got a whole answer to

queueVars == <<q, stale, size, tqShutdown, pc, job>>
workerVars == <<response, event_fd, notifying>>
clientVars == <<conn, generation, handshake, epollout, tx>>
threadVars == <<main, sig, run, shutdown>>
logVars == <<nconn, origin, received>>
vars == <<queueVars, crashed, workerVars, clientVars, threadVars, logVars>>

TQ == INSTANCE LossyTaskQueue WITH max_size <- TASK_QUEUE_MAX, shutdown <- tqShutdown
RQ == INSTANCE BoundedFifo WITH Elem <- Task, Capacity <- TASK_QUEUE_MAX, fifo <- response

TypeOK ==
  /\ TQ!TypeOK
  /\ RQ!FifoType
  /\ event_fd \in BOOLEAN
  /\ notifying \subseteq {w \in Worker : pc[w] = "busy"}
  /\ conn \in [Slot -> Conn \cup {NoConn}]
  /\ generation \in [Slot -> 0..MaxConn]
  /\ handshake \in [Slot -> BOOLEAN]
  /\ epollout \in [Slot -> BOOLEAN]
  /\ tx \in [Slot -> Seq(Request)]
  /\ main \in {"loop", "drain", "exit"}
  /\ sig \in {"wait", "queue", "signal", "exit"}
  /\ run \in {"check", "wait", "join", "exit"}
  /\ shutdown \in BOOLEAN
  /\ nconn \in 0..MaxConn
  /\ origin \in [Request -> Conn \cup {NoConn}]
  /\ received \in [Conn -> SUBSET Request]

\* server_init()
Init ==
  /\ TQ!Init /\ RQ!Init
  /\ event_fd = FALSE /\ notifying = {}
  /\ conn = [s \in Slot |-> NoConn]
  /\ generation = [s \in Slot |-> 0]
  /\ handshake = [s \in Slot |-> FALSE]
  /\ epollout = [s \in Slot |-> FALSE]
  /\ tx = [s \in Slot |-> <<>>]
  /\ main = "loop" /\ sig = "wait" /\ run = "check"
  /\ shutdown = FALSE
  /\ nconn = 0
  /\ origin = [r \in Request |-> NoConn]
  /\ received = [c \in Conn |-> {}]

-----------------------------------------------------------------------------
(* The client table *)

\* close_client() on every slot of S.  client.generation keeps its value.
CloseClients(S) ==
  /\ conn' = [s \in Slot |-> IF s \in S THEN NoConn ELSE conn[s]]
  /\ tx' = [s \in Slot |-> IF s \in S THEN <<>> ELSE tx[s]]
  /\ epollout' = [s \in Slot |-> IF s \in S THEN FALSE ELSE epollout[s]]
  /\ UNCHANGED <<generation, handshake>>

\* enqueue_message() and epoll_mod(EPOLLIN | EPOLLOUT)
EnqueueMessage(s, r) ==
  /\ tx' = [tx EXCEPT ![s] = Append(@, r)]
  /\ epollout' = [epollout EXCEPT ![s] = TRUE]
  /\ UNCHANGED <<conn, generation, handshake>>

\* The main thread is in its loop and takes an event of epoll_wait.
MainEvent == ~crashed /\ main = "loop"

\* An event of a client's socket: fd_to_slot() finds a live slot.
ClientEvent(s) == MainEvent /\ conn[s] # NoConn

\* The slots client_alloc() may take: only the first free one.
FreeSlot(s) == conn[s] = NoConn /\ \A i \in Slot : i < s => conn[i] # NoConn

\* client_alloc(): the slot gets a new generation.
ClientAlloc(s) ==
  /\ FreeSlot(s)
  /\ generation' = [generation EXCEPT ![s] = @ + 1]

\* handle_accept_client() with a free slot, up to the first tls_try_handshake().
HandleAcceptClient(s, done, want_write) ==
  /\ MainEvent /\ nconn < MaxConn
  /\ nconn' = nconn + 1
  /\ ClientAlloc(s)
  /\ conn' = [conn EXCEPT ![s] = nconn + 1]
  /\ tx' = [tx EXCEPT ![s] = <<>>]
  /\ handshake' = [handshake EXCEPT ![s] = done]
  /\ epollout' = [epollout EXCEPT ![s] = want_write /\ ~done]
  /\ UNCHANGED <<queueVars, crashed, workerVars, threadVars, origin, received>>

\* handle_accept_client() that closes the new connection: epoll_add, SSL_new,
\* SSL_set_fd or the handshake failed.
AcceptFailed(s) ==
  /\ MainEvent /\ nconn < MaxConn
  /\ nconn' = nconn + 1
  /\ ClientAlloc(s)
  /\ handshake' = [handshake EXCEPT ![s] = FALSE]
  /\ UNCHANGED <<conn, tx, epollout>>
  /\ UNCHANGED <<queueVars, crashed, workerVars, threadVars, origin, received>>

\* handle_accept_client() with a full table: the connection is closed.
AcceptRefused ==
  /\ MainEvent /\ nconn < MaxConn
  /\ \A s \in Slot : conn[s] # NoConn
  /\ nconn' = nconn + 1
  /\ UNCHANGED <<queueVars, crashed, workerVars, clientVars, threadVars, origin, received>>

\* tls_try_handshake() from handle_request_client or handle_client_sendable.
\* Its failure closes the client: ClientClosed.
TlsTryHandshake(s, done, want_write) ==
  /\ ClientEvent(s) /\ ~handshake[s]
  /\ handshake' = [handshake EXCEPT ![s] = done]
  /\ epollout' = [epollout EXCEPT ![s] = want_write /\ ~done]
  /\ UNCHANGED <<conn, generation, tx>>
  /\ UNCHANGED <<queueVars, crashed, workerVars, threadVars, logVars>>

\* EPOLLHUP or EPOLLERR, a failed handshake, a read or a write that fails or
\* finds the peer gone: close_client().
ClientClosed(s) ==
  /\ ClientEvent(s)
  /\ CloseClients({s})
  /\ UNCHANGED <<queueVars, crashed, workerVars, threadVars, logVars>>

-----------------------------------------------------------------------------
(* Requests: handle_request_client() and client_read_message().  A frame    *)
(* that is not complete, or that request_allow() makes the server discard,  *)
(* changes nothing here.                                                    *)

\* The next request, read from slot s.
ReadFrom(s, r) ==
  /\ ClientEvent(s) /\ handshake[s]
  /\ origin[r] = NoConn /\ \A i \in Request : i < r => origin[i] # NoConn
  /\ origin' = [origin EXCEPT ![r] = conn[s]]
  /\ UNCHANGED <<nconn, received>>

\* A bad header or checksum: build_error_packet() and enqueue_message().
ReadBadRequest(s, r) ==
  /\ ReadFrom(s, r)
  /\ EnqueueMessage(s, r)
  /\ UNCHANGED <<queueVars, crashed, workerVars, threadVars>>

\* build_task(): the task remembers slot and generation of its client.
BuildTask(s, r) == [slot |-> s, generation |-> generation[s], request |-> r]

\* A good request that push() accepts.
ReadRequest(s, r) ==
  /\ ReadFrom(s, r)
  /\ TQ!Push(BuildTask(s, r))
  /\ UNCHANGED <<workerVars, clientVars, threadVars>>

\* A good request that is dropped: push() returns -1 or -EAGAIN, or build_task()
\* finds no memory.  The client gets no answer.
ReadDropped(s, r) ==
  /\ ReadFrom(s, r)
  /\ UNCHANGED <<queueVars, crashed, workerVars, clientVars, threadVars>>

-----------------------------------------------------------------------------
(* Responses: handle_response_to_client()                                   *)

\* read(event_fd) resets the counter, then the loop on response_queue_pop().
HandleResponse ==
  /\ MainEvent /\ event_fd
  /\ event_fd' = FALSE
  /\ main' = "drain"
  /\ UNCHANGED <<queueVars, crashed, response, notifying, clientVars, sig, run, shutdown, logVars>>

\* Mutant: check_response_message() that only looks at the slot.
SlotInUse(t) == conn[t.slot] # NoConn

\* alive && check_response_message()
IsValid(t) == conn[t.slot] # NoConn /\ generation[t.slot] = t.generation

\* One iteration of the loop.  The message is dropped when the client is not the
\* one that asked, or when packet_response_message or enqueue_message fails.
DrainResponse(drop) ==
  /\ ~crashed /\ main = "drain"
  /\ RQ!Get
  /\ LET t == Head(response)
     IN IF drop \/ ~IsValid(t) THEN UNCHANGED clientVars
        ELSE EnqueueMessage(t.slot, t.request)
  /\ UNCHANGED <<queueVars, crashed, event_fd, notifying, threadVars, logVars>>

\* response_queue_pop() returns NULL.
DrainEnd ==
  /\ ~crashed /\ main = "drain" /\ response = <<>>
  /\ main' = "loop"
  /\ UNCHANGED <<queueVars, crashed, workerVars, clientVars, sig, run, shutdown, logVars>>

-----------------------------------------------------------------------------
(* Sending: handle_client_sendable() and client_flush_tx_tls().  The message*)
(* at the head is dequeued before it is sent, and never put back.           *)

Sendable(s) == ClientEvent(s) /\ handshake[s] /\ epollout[s]

\* Nothing to send: EPOLLOUT is switched off.
FlushEmpty(s) ==
  /\ Sendable(s) /\ tx[s] = <<>>
  /\ epollout' = [epollout EXCEPT ![s] = FALSE]
  /\ UNCHANGED <<conn, generation, handshake, tx>>
  /\ UNCHANGED <<queueVars, crashed, workerVars, threadVars, logVars>>

\* The whole message is sent.  client->head is then set from next_data, which
\* dequeue_message() cleared: the messages behind it are dropped.
FlushSent(s) ==
  /\ Sendable(s) /\ tx[s] # <<>>
  /\ received' = [received EXCEPT ![conn[s]] = @ \cup {Head(tx[s])}]
  /\ tx' = [tx EXCEPT ![s] = <<>>]
  /\ epollout' = [epollout EXCEPT ![s] = FALSE]
  /\ UNCHANGED <<conn, generation, handshake>>
  /\ UNCHANGED <<queueVars, crashed, workerVars, threadVars, nconn, origin>>

\* SSL_write sends a part, or wants to write (armed) or to read (not armed)
\* first: the rest of the message is dropped.
FlushAgain(s, armed) ==
  /\ Sendable(s) /\ tx[s] # <<>>
  /\ tx' = [tx EXCEPT ![s] = Tail(@)]
  /\ epollout' = [epollout EXCEPT ![s] = armed]
  /\ UNCHANGED <<conn, generation, handshake>>
  /\ UNCHANGED <<queueVars, crashed, workerVars, threadVars, logVars>>

\* A write of TLS, in the handshake or in SSL_write, to a connection that the
\* peer has reset raises SIGPIPE, which the daemon neither ignores nor blocks.
Sigpipe(s) ==
  /\ ClientEvent(s)
  /\ handshake[s] => Sendable(s) /\ tx[s] # <<>>
  /\ crashed' = TRUE
  /\ UNCHANGED <<queueVars, workerVars, clientVars, threadVars, logVars>>

\* reap_client() at the end of each round of the loop, with idle the clients
\* whose IDLE_TIMEOUT_SEC is over, then the test of sv->shutdown.
ReapClient(idle) ==
  /\ MainEvent
  /\ CloseClients(idle)
  /\ main' = IF shutdown THEN "exit" ELSE "loop"
  /\ UNCHANGED <<queueVars, crashed, workerVars, sig, run, shutdown, logVars>>

-----------------------------------------------------------------------------
(* The workers: worker_thread()                                             *)

WorkerUnchanged == UNCHANGED <<workerVars, clientVars, threadVars, logVars>>

\* pop(), in its four outcomes, and the wakeup it sleeps for.
PopStep(w) ==
  /\ \/ TQ!PopWait(w) \/ TQ!PopExit(w) \/ TQ!PopTask(w) \/ TQ!PopNull(w)
  /\ WorkerUnchanged

SpuriousWakeup(w) == TQ!SpuriousWakeup(w) /\ WorkerUnchanged

\* The task ends with no response: it timed out in the queue, or no response
\* could be made, or the response queue is full.
NoResponse(w) ==
  /\ w \notin notifying
  /\ TQ!FreeTask(w)
  /\ WorkerUnchanged

\* process_hardware_task() made a response, or ERR_TIMEOUT replaces it, and
\* response_queue_push() accepts it.
PushResponse(w) ==
  /\ ~crashed /\ pc[w] = "busy" /\ w \notin notifying
  /\ RQ!Put(job[w])
  /\ notifying' = notifying \cup {w}
  /\ UNCHANGED <<queueVars, crashed, event_fd, clientVars, threadVars, logVars>>

\* Mutant: notify_main_thread() is left out.
NotifyNobody(w) ==
  /\ w \in notifying
  /\ notifying' = notifying \ {w}
  /\ TQ!FreeTask(w)
  /\ UNCHANGED <<response, event_fd, clientVars, threadVars, logVars>>

\* Mutant: the worker handles its task again after notify_main_thread().
NotifyKeepsTask(w) ==
  /\ ~crashed /\ w \in notifying
  /\ event_fd' = TRUE
  /\ notifying' = notifying \ {w}
  /\ UNCHANGED <<queueVars, crashed, response, clientVars, threadVars, logVars>>

\* notify_main_thread(), then free(t).
NotifyMainThread(w) ==
  /\ w \in notifying
  /\ event_fd' = TRUE
  /\ notifying' = notifying \ {w}
  /\ TQ!FreeTask(w)
  /\ UNCHANGED <<response, clientVars, threadVars, logVars>>

WorkerThread(w) ==
  PopStep(w) \/ NoResponse(w) \/ PushResponse(w) \/ NotifyMainThread(w)

-----------------------------------------------------------------------------
(* Shutdown: signal_thread(), server_shutdown(), server_run()               *)

SigUnchanged == UNCHANGED <<workerVars, clientVars, main, logVars>>

\* SIGTERM or SIGINT arrives; atomic_store(&sv->shutdown, true).
SetShutdown ==
  /\ ~crashed /\ sig = "wait"
  /\ shutdown' = TRUE
  /\ sig' = "queue"
  /\ UNCHANGED <<queueVars, crashed, run>> /\ SigUnchanged

\* task_queue_shutdown()
ShutdownQueue ==
  /\ sig = "queue"
  /\ TQ!TaskQueueShutdown
  /\ sig' = "signal"
  /\ UNCHANGED <<run, shutdown>> /\ SigUnchanged

\* Mutant: server_shutdown() without pthread_cond_signal(&sv->stop).
StopUnsignalled ==
  /\ ~crashed /\ sig = "signal"
  /\ sig' = "exit"
  /\ UNCHANGED <<queueVars, crashed, run, shutdown>> /\ SigUnchanged

\* pthread_cond_signal(&sv->stop) under sv->lock.
SignalStop ==
  /\ ~crashed /\ sig = "signal"
  /\ sig' = "exit"
  /\ run' = IF run = "wait" THEN "check" ELSE run
  /\ UNCHANGED <<queueVars, crashed, shutdown>> /\ SigUnchanged

\* server_run(): the wait on sv->stop, under sv->lock.
RunCheck ==
  /\ ~crashed /\ run = "check"
  /\ run' = IF shutdown THEN "join" ELSE "wait"
  /\ UNCHANGED <<queueVars, crashed, workerVars, clientVars, main, sig, shutdown, logVars>>

\* All threads are joined, then server_cleanup().
RunCleanup ==
  /\ ~crashed /\ run = "join"
  /\ \A w \in Worker : pc[w] = "exit"
  /\ main = "exit" /\ sig = "exit"
  /\ CloseClients(Slot)
  /\ run' = "exit"
  /\ UNCHANGED <<queueVars, crashed, workerVars, main, sig, shutdown, logVars>>

\* The process has ended.
Ended ==
  /\ crashed \/ run = "exit"
  /\ UNCHANGED vars

-----------------------------------------------------------------------------
MainThread ==
  \/ \E s \in Slot, done, want_write \in BOOLEAN :
        \/ HandleAcceptClient(s, done, want_write)
        \/ TlsTryHandshake(s, done, want_write)
  \/ \E s \in Slot :
        AcceptFailed(s) \/ ClientClosed(s)
        \/ FlushEmpty(s) \/ FlushSent(s) \/ Sigpipe(s)
        \/ \E armed \in BOOLEAN : FlushAgain(s, armed)
        \/ \E r \in Request : ReadBadRequest(s, r) \/ ReadRequest(s, r) \/ ReadDropped(s, r)
  \/ AcceptRefused
  \/ HandleResponse \/ DrainEnd
  \/ \E drop \in BOOLEAN : DrainResponse(drop)
  \/ \E idle \in SUBSET {s \in Slot : conn[s] # NoConn} : ReapClient(idle)

Next ==
  \/ MainThread
  \/ \E w \in Worker : WorkerThread(w) \/ SpuriousWakeup(w)
  \/ SetShutdown \/ ShutdownQueue \/ SignalStop
  \/ RunCheck \/ RunCleanup
  \/ Ended

Spec == Init /\ [][Next]_vars

(***************************************************************************)
(* Threads are scheduled and the locks are free between steps.  epoll_wait  *)
(* is level triggered and returns at least every EPOLL_TIMEOUT_MS, so a     *)
(* readable eventfd is served and every round of the loop ends in           *)
(* reap_client().  Nothing is assumed of the peers, of signals or of        *)
(* spurious wakeups.                                                        *)
(***************************************************************************)
Fairness ==
  /\ \A w \in Worker : WF_vars(WorkerThread(w))
  /\ WF_vars(HandleResponse)
  /\ WF_vars(DrainEnd \/ \E drop \in BOOLEAN : DrainResponse(drop))
  /\ WF_vars(\E idle \in SUBSET {s \in Slot : conn[s] # NoConn} : ReapClient(idle))
  /\ WF_vars(ShutdownQueue \/ SignalStop)
  /\ WF_vars(RunCheck \/ RunCleanup)

FairSpec == Spec /\ Fairness
-----------------------------------------------------------------------------
(***************************************************************************)
(* A client only gets answers to its own requests, although slots are       *)
(* reused while tasks and responses of their former client are on their way *)
(* (client.generation and check_response_message).                          *)
(***************************************************************************)
RightRecipient ==
  /\ \A s \in Slot : \A i \in DOMAIN tx[s] : origin[tx[s][i]] = conn[s]
  /\ \A c \in Conn : \A r \in received[c] : origin[r] = c

\* The places where request r, or the answer to it, is: the task queue, the
\* workers, the response queue, the messages of a client, and the clients.
AsTask(r) == {<<"task", i>> : i \in {i \in DOMAIN q : q[i].request = r}}
AsJob(r) ==
  {<<"job", w>> : w \in {w \in Worker \ notifying : pc[w] = "busy" /\ job[w].request = r}}
AsResponse(r) == {<<"response", i>> : i \in {i \in DOMAIN response : response[i].request = r}}
AsMessage(r) == UNION {{<<"tx", s, i>> : i \in {i \in DOMAIN tx[s] : tx[s][i] = r}} : s \in Slot}
AsReceived(r) == {<<"received", c>> : c \in {c \in Conn : r \in received[c]}}

Places(r) == AsTask(r) \cup AsJob(r) \cup AsResponse(r) \cup AsMessage(r) \cup AsReceived(r)

(***************************************************************************)
(* A request is never answered twice: it is in one place at a time on its   *)
(* way from the reader over both queues to the client.                      *)
(***************************************************************************)
AtMostOneAnswer == \A r \in Request : Cardinality(Places(r)) <= 1

(***************************************************************************)
(* No lost wakeup between the workers and the epoll loop: while a response  *)
(* waits and the main thread is not in handle_response_to_client, the       *)
(* eventfd is readable or a worker is about to write it.                    *)
(***************************************************************************)
NoStrandedResponse ==
  response # <<>> /\ main = "loop" => event_fd \/ notifying # {}

(***************************************************************************)
(* After SIGTERM or SIGINT the daemon ends: the workers drain the task      *)
(* queue and stop, the main thread leaves its loop, server_run is woken,    *)
(* joins them and cleans up, unless the process is killed on the way.       *)
(***************************************************************************)
ShutdownCompletes == shutdown ~> (run = "exit" \/ crashed)

-----------------------------------------------------------------------------
(* The inductive invariant behind RightRecipient and NoStrandedResponse.    *)

\* Task or response t was built for a connection of its slot, which is the
\* present one if the generation still matches.
Traceable(t) ==
  /\ t.generation <= generation[t.slot]
  /\ origin[t.request] # NoConn
  /\ IsValid(t) => origin[t.request] = conn[t.slot]

\* The tasks in the queue, those the workers hold, and the responses.
InTransit ==
  {q[i] : i \in DOMAIN q}
  \cup {job[w] : w \in {w \in Worker : pc[w] = "busy"}}
  \cup {response[i] : i \in DOMAIN response}

(***************************************************************************)
(* Whatever is on its way to a client can be traced to the connection that  *)
(* asked, a closed slot has nothing to send, and a slot's generation never  *)
(* outruns the accepted connections.                                        *)
(***************************************************************************)
IndInv ==
  /\ TypeOK
  /\ \A t \in InTransit : t \in Task /\ Traceable(t)
  /\ \A s \in Slot : generation[s] <= nconn
  /\ \A s \in Slot : conn[s] = NoConn => tx[s] = <<>>
  /\ RightRecipient
  /\ NoStrandedResponse
=============================================================================
