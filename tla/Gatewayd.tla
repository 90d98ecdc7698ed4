------------------------------ MODULE Gatewayd ------------------------------
(***************************************************************************)
(* The control-plane server gatewayd, built with epoll (USING_EPOLL is 1):  *)
(* the client slots, which are indexed by file descriptor, the loop of      *)
(* IO_thread over edge-triggered events, the worker threads (module         *)
(* PriorityWorkers) that run process_task, and sig_thread.                  *)
(*                                                                         *)
(* A frame is a whole packet of the protocol; a packet that is still        *)
(* incomplete changes nothing but client->bytes_read and is left out.  The  *)
(* socket buffer towards a client holds SndBuf replies.                     *)
(***************************************************************************)
EXTENDS Naturals, Sequences, FiniteSets

CONSTANTS Fd,                  \* the descriptors accept4 may return
          Worker, Class, CAPACITY, NULL,    \* see PriorityWorkers
          NUM_PACKET_TO_SEND,  \* capacity of a client's send_queue
          SndBuf,              \* replies a socket buffer holds
          MaxConn,             \* bound: connections that are ever accepted
          MaxFrame             \* bound: frames that are ever sent

\* struct task; the packet is named by the order in which it was read.
Task == [fd : Fd, client_generation : 0..MaxConn, connection_id : 0..MaxConn,
         packet : 1..MaxFrame]
\* What send_queue holds: the answer to a packet of a connection.
Reply == [connection_id : 0..MaxConn, packet : 1..MaxFrame]

ASSUME GatewaydAssumption ==
  /\ Worker # {} /\ Class \in [Worker -> {"HIGH", "MEDIUM", "LOW"}]
  /\ CAPACITY \in Nat \ {0} /\ NUM_PACKET_TO_SEND \in Nat \ {0}
  /\ SndBuf \in Nat \ {0} /\ MaxConn \in Nat /\ MaxFrame \in Nat
  /\ NULL \notin [fd : Fd, client_generation : Nat, connection_id : Nat, packet : Nat]

VARIABLES
  queue, shutdown, sig, pc, job,  \* module PriorityWorkers
  step,            \* where a busy worker is in process_task
  crashed,         \* the process was killed by SIGPIPE or SIGSEGV
  \* struct client, for each descriptor
  connected, connection_id, generation, pending_close, pending_task,
  send_queue,      \* oldest first
  \* the sockets: descriptors in the epoll set, and the two directions
  open, peer,      \* peer[fd]: the other end is still open
  inbox,           \* frames that were sent and not read
  unread,          \* replies in the socket buffer of the client
  edge,            \* an edge-triggered event is pending
  \* IO_thread
  io,              \* "wait", "write", "read", "reap" or "exit"
  events,          \* events of the round, a set for each descriptor
  todo,            \* descriptors the current loop did not come to yet
  nconn, nsent, nread   \* connections accepted, frames sent and read

poolVars == <<queue, shutdown, sig, pc, job>>
slotVars == <<connected, connection_id, generation, pending_close,
              pending_task, send_queue>>
sockVars == <<open, peer, inbox, unread, edge>>
ioVars == <<io, events, todo>>
countVars == <<nconn, nsent, nread>>
vars == <<poolVars, step, crashed, slotVars, sockVars, ioVars, countVars>>

PW == INSTANCE PriorityWorkers

TypeOK ==
  /\ PW!TypeOK
  /\ step \in [Worker -> {"check", "run", "finish"}]
  /\ crashed \in BOOLEAN
  /\ connected \in [Fd -> BOOLEAN]
  /\ connection_id \in [Fd -> 0..MaxConn]
  /\ generation \in [Fd -> 0..MaxConn]
  /\ pending_close \in [Fd -> BOOLEAN]
  /\ pending_task \in [Fd -> Nat]
  /\ send_queue \in [Fd -> Seq(Reply)]
  /\ \A fd \in Fd : Len(send_queue[fd]) <= NUM_PACKET_TO_SEND
  /\ open \in SUBSET Fd
  /\ peer \in [Fd -> BOOLEAN]
  /\ inbox \in [Fd -> 0..MaxFrame]
  /\ unread \in [Fd -> 0..SndBuf]
  /\ edge \in [Fd -> BOOLEAN]
  /\ io \in {"wait", "write", "read", "reap", "exit"}
  /\ events \in [Fd -> SUBSET {"IN", "OUT", "HUP"}]
  /\ todo \in SUBSET Fd
  /\ nconn \in 0..MaxConn /\ nsent \in 0..MaxFrame /\ nread \in 0..nsent

\* init_server()
Init ==
  /\ PW!Init
  /\ step = [w \in Worker |-> "check"] /\ crashed = FALSE
  /\ connected = [fd \in Fd |-> FALSE]
  /\ connection_id = [fd \in Fd |-> 0] /\ generation = [fd \in Fd |-> 0]
  /\ pending_close = [fd \in Fd |-> FALSE]
  /\ pending_task = [fd \in Fd |-> 0]
  /\ send_queue = [fd \in Fd |-> <<>>]
  /\ open = {} /\ peer = [fd \in Fd |-> FALSE]
  /\ inbox = [fd \in Fd |-> 0] /\ unread = [fd \in Fd |-> 0]
  /\ edge = [fd \in Fd |-> FALSE]
  /\ io = "wait" /\ events = [fd \in Fd |-> {}] /\ todo = {}
  /\ nconn = 0 /\ nsent = 0 /\ nread = 0

\* queue_client(): a full send_queue drops its oldest message.
QueueClient(fd, r) ==
  send_queue' = [send_queue EXCEPT ![fd] =
                   Append(IF Len(@) = NUM_PACKET_TO_SEND THEN Tail(@) ELSE @, r)]
-----------------------------------------------------------------------------
(* IO_thread *)

\* The while condition, tested under server_lock.
IoExit ==
  /\ ~crashed /\ io = "wait" /\ shutdown
  /\ io' = "exit"
  /\ UNCHANGED <<poolVars, step, crashed, slotVars, sockVars, events, todo, countVars>>

\* epoll_wait(): every descriptor with an edge, with its state of the moment.
EpollWait ==
  /\ ~crashed /\ io = "wait" /\ ~shutdown
  /\ io' = "write"
  /\ todo' = {fd \in open : edge[fd]}
  /\ events' = [fd \in Fd |->
       IF fd \notin open \/ ~edge[fd] THEN {} ELSE
         {e \in {"IN", "OUT", "HUP"} :
            \/ e = "IN" /\ (inbox[fd] > 0 \/ ~peer[fd])
            \/ e = "OUT" /\ (unread[fd] < SndBuf \/ ~peer[fd])
            \/ e = "HUP" /\ ~peer[fd]}]
  /\ edge' = [fd \in Fd |-> FALSE]
  /\ UNCHANGED <<poolVars, step, crashed, slotVars, open, peer, inbox, unread, countVars>>

\* handle_accept(), init_client(); epoll_ctl may fail, which closes new_fd and
\* leaves the slot connected.
Accept(fd) ==
  /\ ~crashed /\ io = "write" /\ fd \notin open /\ nconn < MaxConn
  /\ nconn' = nconn + 1
  /\ connection_id' = [connection_id EXCEPT ![fd] = nconn + 1]
  /\ generation' = [generation EXCEPT ![fd] = @ + 1]
  /\ connected' = [connected EXCEPT ![fd] = TRUE]
  /\ pending_close' = [pending_close EXCEPT ![fd] = FALSE]
  /\ pending_task' = [pending_task EXCEPT ![fd] = 0]
  /\ send_queue' = [send_queue EXCEPT ![fd] = <<>>]
  /\ inbox' = [inbox EXCEPT ![fd] = 0]
  /\ unread' = [unread EXCEPT ![fd] = 0]
  /\ \E ok \in BOOLEAN :
       /\ open' = IF ok THEN open \cup {fd} ELSE open
       /\ peer' = [peer EXCEPT ![fd] = ok]
       /\ edge' = [edge EXCEPT ![fd] = ok]
  /\ UNCHANGED <<poolVars, step, crashed, ioVars, nsent, nread>>

\* send_message_chunk() sends the oldest message, whole, or what fits of it.
Sends(fd) ==
  IF unread[fd] < SndBuf
    THEN /\ send_queue' = [send_queue EXCEPT ![fd] = Tail(@)]
         /\ unread' = [unread EXCEPT ![fd] = @ + 1]
    ELSE UNCHANGED <<send_queue, unread>>

\* One event of the first loop: a hang-up, then handle_client_writable().
IoWrite(fd) ==
  /\ ~crashed /\ io = "write" /\ fd \in todo
  /\ todo' = todo \ {fd}
  /\ LET hup == "HUP" \in events[fd]
         writes == "OUT" \in events[fd] /\ send_queue[fd] # <<>>
         PendingClose(b) == pending_close' = [pending_close EXCEPT ![fd] = b]
     IN  \/ /\ ~writes
            /\ PendingClose(hup \/ pending_close[fd])
            /\ UNCHANGED <<send_queue, unread, crashed>>
         \/ /\ writes /\ peer[fd] /\ Sends(fd)
            /\ PendingClose(hup \/ pending_close[fd])
            /\ UNCHANGED crashed
         \/ /\ writes                       \* an error other than EPIPE
            /\ send_queue' = [send_queue EXCEPT ![fd] = Tail(@)]
            /\ PendingClose(TRUE)
            /\ UNCHANGED <<unread, crashed>>
         \/ /\ writes /\ ~peer[fd]          \* SIGPIPE
            /\ crashed' = TRUE
            /\ PendingClose(hup \/ pending_close[fd])
            /\ UNCHANGED <<send_queue, unread>>
  /\ UNCHANGED <<poolVars, step, connected, connection_id, generation,
                 pending_task, open, peer, inbox, edge, io, events, countVars>>

WriteDone ==
  /\ ~crashed /\ io = "write" /\ todo = {}
  /\ io' = "read"
  /\ todo' = {fd \in Fd : "IN" \in events[fd]}
  /\ UNCHANGED <<poolVars, step, crashed, slotVars, sockVars, events, countVars>>

\* The task handle_client_readable() builds of the next frame.
NewTask(fd) ==
  [fd |-> fd, client_generation |-> generation[fd],
   connection_id |-> connection_id[fd], packet |-> nread + 1]

\* Mutant: a rejected packet stays counted in pending_task.
ReadFrameRejectedCounted(fd) ==
  \E p \in PW!Priority :
    IF PW!Full(p)
      THEN /\ QueueClient(fd, [connection_id |-> connection_id[fd], packet |-> nread + 1])
           /\ pending_task' = [pending_task EXCEPT ![fd] = @ + 1]
           /\ UNCHANGED <<poolVars, pending_close, crashed>>
      ELSE /\ PW!Enqueue(NewTask(fd), p)
           /\ pending_task' = [pending_task EXCEPT ![fd] = @ + 1]
           /\ UNCHANGED <<send_queue, pending_close, crashed>>

\* A frame with a good checksum: a task, or the NACK "SERVER BUSY".
ReadFrame(fd) ==
  \E p \in PW!Priority :
    IF PW!Full(p)
      THEN /\ QueueClient(fd, [connection_id |-> connection_id[fd], packet |-> nread + 1])
           /\ UNCHANGED <<poolVars, pending_task, pending_close, crashed>>
      ELSE /\ PW!Enqueue(NewTask(fd), p)
           /\ pending_task' = [pending_task EXCEPT ![fd] = @ + 1]
           /\ UNCHANGED <<send_queue, pending_close, crashed>>

\* The other frames: a NACK for a bad checksum, the end of the connection for
\* a bad length, a null queue for a priority that is none of the three.
ReadBadFrame(fd) ==
  \/ /\ QueueClient(fd, [connection_id |-> connection_id[fd], packet |-> nread + 1])
     /\ UNCHANGED <<poolVars, pending_task, pending_close, crashed>>
  \/ /\ pending_close' = [pending_close EXCEPT ![fd] = TRUE]
     /\ UNCHANGED <<poolVars, pending_task, send_queue, crashed>>
  \/ /\ crashed' = TRUE
     /\ UNCHANGED <<poolVars, pending_task, send_queue, pending_close>>

\* handle_client_readable() for one event: read_stage() returns after one
\* frame, or at the end of the stream, or when nothing is left to read.
IoRead(fd) ==
  /\ ~crashed /\ io = "read" /\ fd \in todo
  /\ todo' = todo \ {fd}
  /\ \/ /\ connected[fd] /\ ~pending_close[fd] /\ inbox[fd] > 0
        /\ inbox' = [inbox EXCEPT ![fd] = @ - 1]
        /\ nread' = nread + 1
        /\ ReadFrame(fd) \/ ReadBadFrame(fd)
     \/ /\ connected[fd] /\ ~pending_close[fd] /\ inbox[fd] = 0
        /\ pending_close' = [pending_close EXCEPT ![fd] = ~peer[fd]]
        /\ UNCHANGED <<poolVars, crashed, pending_task, send_queue, inbox, nread>>
     \/ /\ ~connected[fd] \/ pending_close[fd]
        /\ UNCHANGED <<poolVars, crashed, pending_close, pending_task,
                       send_queue, inbox, nread>>
  /\ UNCHANGED <<step, connected, connection_id, generation, open, peer,
                 unread, edge, io, events, nconn, nsent>>

ReadDone ==
  /\ ~crashed /\ io = "read" /\ todo = {}
  /\ io' = "reap"
  /\ UNCHANGED <<poolVars, step, crashed, slotVars, sockVars, events, todo, countVars>>

\* Mutant: a slot is reaped although tasks of it are in flight.
ReapableBusy(fd) == pending_close[fd] /\ send_queue[fd] = <<>>

\* can_reap
Reapable(fd) ==
  pending_close[fd] /\ pending_task[fd] = 0 /\ send_queue[fd] = <<>>

\* reap_closed_clients()
Reap ==
  /\ ~crashed /\ io = "reap"
  /\ io' = "wait"
  /\ connected' = [fd \in Fd |-> connected[fd] /\ ~Reapable(fd)]
  /\ pending_close' = [fd \in Fd |-> pending_close[fd] /\ ~Reapable(fd)]
  /\ open' = {fd \in open : ~Reapable(fd)}
  /\ UNCHANGED <<poolVars, step, crashed, connection_id, generation, pending_task,
                 send_queue, peer, inbox, unread, edge, events, todo, countVars>>

IoStep ==
  \/ IoExit \/ EpollWait \/ WriteDone \/ ReadDone \/ Reap
  \/ \E fd \in Fd : IoWrite(fd) \/ IoRead(fd)
-----------------------------------------------------------------------------
(* The worker threads *)

\* A worker's loop up to process_task().
WorkerLoop(w) ==
  /\ ~crashed
  /\ PW!Sleep(w) \/ PW!Exit(w) \/ PW!Take(w) \/ PW!Spin(w)
  /\ step' = [step EXCEPT ![w] = "check"]
  /\ UNCHANGED <<crashed, slotVars, sockVars, ioVars, countVars>>

\* process_task(): valid, read under client_lock.
CheckTask(w) ==
  /\ ~crashed /\ pc[w] = "busy" /\ step[w] = "check"
  /\ LET t == job[w]
         valid == connected[t.fd] /\ generation[t.fd] = t.client_generation
     IN  step' = [step EXCEPT ![w] = IF valid THEN "run" ELSE "finish"]
  /\ UNCHANGED <<poolVars, crashed, slotVars, sockVars, ioVars, countVars>>

\* The handler: a reply to the slot's client, nothing (ACK, NACK, unknown
\* commands), or the end of the connection (SHUTDOWN_PEER).
RunTask(w) ==
  /\ ~crashed /\ pc[w] = "busy" /\ step[w] = "run"
  /\ LET t == job[w] IN
       \/ /\ QueueClient(t.fd, [connection_id |-> t.connection_id, packet |-> t.packet])
          /\ UNCHANGED pending_close
       \/ UNCHANGED <<send_queue, pending_close>>
       \/ /\ pending_close' = [pending_close EXCEPT ![t.fd] = TRUE]
          /\ UNCHANGED send_queue
  /\ step' = [step EXCEPT ![w] = "finish"]
  /\ UNCHANGED <<poolVars, crashed, connected, connection_id, generation,
                 pending_task, sockVars, ioVars, countVars>>

\* finish_task() and the return to the worker's loop.
FinishTask(w) ==
  /\ ~crashed /\ step[w] = "finish" /\ PW!Finish(w)
  /\ LET t == job[w]
         mine == connected[t.fd] /\ generation[t.fd] = t.client_generation
     IN  pending_task' = [pending_task EXCEPT ![t.fd] =
                            IF mine /\ @ > 0 THEN @ - 1 ELSE @]
  /\ step' = [step EXCEPT ![w] = "check"]
  /\ UNCHANGED <<crashed, connected, connection_id, generation, pending_close,
                 send_queue, sockVars, ioVars, countVars>>

WorkerStep(w) == WorkerLoop(w) \/ CheckTask(w) \/ RunTask(w) \/ FinishTask(w)

SpuriousWakeup(w) ==
  /\ ~crashed /\ PW!SpuriousWakeup(w)
  /\ UNCHANGED <<step, crashed, slotVars, sockVars, ioVars, countVars>>
-----------------------------------------------------------------------------
(* sig_thread *)

\* SIGINT or SIGTERM: SHUTDOWN_PEER to every client whose socket takes it.
SetShutdown ==
  /\ ~crashed /\ PW!SetShutdown
  /\ unread' = [fd \in Fd |->
       IF fd \in open /\ connected[fd] /\ peer[fd] /\ unread[fd] < SndBuf
         THEN unread[fd] + 1 ELSE unread[fd]]
  /\ UNCHANGED <<step, crashed, slotVars, open, peer, inbox, edge, ioVars, countVars>>

\* Mutant: sig_thread without pthread_cond_broadcast.
BroadcastNobody ==
  /\ ~crashed /\ sig = "broadcast" /\ sig' = "exit"
  /\ UNCHANGED <<queue, shutdown, pc, job, step, crashed, slotVars, sockVars, ioVars, countVars>>

\* pthread_cond_broadcast under queue_lock.
Broadcast ==
  /\ ~crashed /\ PW!Broadcast
  /\ UNCHANGED <<step, crashed, slotVars, sockVars, ioVars, countVars>>
-----------------------------------------------------------------------------
(* The clients *)

\* A frame arrives: an edge.
PeerSend(fd) ==
  /\ ~crashed /\ fd \in open /\ peer[fd] /\ nsent < MaxFrame
  /\ inbox' = [inbox EXCEPT ![fd] = @ + 1]
  /\ nsent' = nsent + 1
  /\ edge' = [edge EXCEPT ![fd] = TRUE]
  /\ UNCHANGED <<poolVars, step, crashed, slotVars, open, peer, unread, ioVars, nconn, nread>>

\* The client reads a reply: the socket has room again, an edge.
PeerRead(fd) ==
  /\ ~crashed /\ fd \in open /\ peer[fd] /\ unread[fd] > 0
  /\ unread' = [unread EXCEPT ![fd] = @ - 1]
  /\ edge' = [edge EXCEPT ![fd] = TRUE]
  /\ UNCHANGED <<poolVars, step, crashed, slotVars, open, peer, inbox, ioVars, countVars>>

\* The client closes its socket: an edge.
PeerClose(fd) ==
  /\ ~crashed /\ fd \in open /\ peer[fd]
  /\ peer' = [peer EXCEPT ![fd] = FALSE]
  /\ edge' = [edge EXCEPT ![fd] = TRUE]
  /\ UNCHANGED <<poolVars, step, crashed, slotVars, open, inbox, unread, ioVars, countVars>>
-----------------------------------------------------------------------------
\* All threads ended, or the process was killed.
Ended ==
  /\ crashed \/ (io = "exit" /\ \A w \in Worker : pc[w] = "exit")
  /\ UNCHANGED vars

Next ==
  \/ IoStep \/ SetShutdown \/ Broadcast \/ Ended
  \/ \E fd \in Fd : Accept(fd) \/ PeerSend(fd) \/ PeerRead(fd) \/ PeerClose(fd)
  \/ \E w \in Worker : WorkerStep(w) \/ SpuriousWakeup(w)

Spec == Init /\ [][Next]_vars

\* Threads are scheduled and get their locks; clients read what they are sent.
FairSpec ==
  /\ Spec
  /\ WF_vars(IoStep)
  /\ WF_vars(Broadcast)
  /\ \A w \in Worker : WF_vars(WorkerStep(w))
  /\ \A fd \in Fd : WF_vars(PeerRead(fd))
-----------------------------------------------------------------------------
\* The tasks of a slot's connection that are queued or processed.
InFlight(fd) == {t \in PW!InFlight : t.fd = fd /\ t.client_generation = generation[fd]}

(***************************************************************************)
(* pending_task counts exactly the tasks of the connection that read_stage  *)
(* counted and finish_task did not settle: neither a rejected packet nor a  *)
(* worker of an earlier connection on the descriptor disturbs it.           *)
(***************************************************************************)
PendingTaskExact == \A fd \in Fd : pending_task[fd] = Cardinality(InFlight(fd))

(***************************************************************************)
(* The workers never all sleep on queue_wakeup while a task is queued       *)
(* (stated in module PriorityWorkers), in the server that feeds and stops   *)
(* them.                                                                    *)
(***************************************************************************)
SomeoneAwake == PW!SomeoneAwake

(***************************************************************************)
(* No task outlives its connection: as long as a task is queued or          *)
(* processed its descriptor is not reaped and not given to another client,  *)
(* so that the handlers, which do not test it again, may use the slot; and  *)
(* a reply waits only in the send_queue of the connection that asked.       *)
(***************************************************************************)
TasksKeepTheirSlot ==
  /\ \A t \in PW!InFlight :
       /\ connected[t.fd]
       /\ generation[t.fd] = t.client_generation
       /\ connection_id[t.fd] = t.connection_id
  /\ \A fd \in Fd : \A i \in DOMAIN send_queue[fd] :
       send_queue[fd][i].connection_id = connection_id[fd]

(***************************************************************************)
(* After SIGINT or SIGTERM IO_thread and all workers end, so that main      *)
(* joins them, unless a signal kills the process first.                     *)
(***************************************************************************)
ShutdownCompletes ==
  shutdown ~> (crashed \/ (io = "exit" /\ \A w \in Worker : pc[w] = "exit"))

\* What excuses the server from serving a descriptor.
Excused(fd) == crashed \/ shutdown \/ ~peer[fd] \/ pending_close[fd]

(***************************************************************************)
(* README, section 1: the server "Sends the result (ACK/NACK) back to the   *)
(* client through a non-blocking send queue".  A client that stays and      *)
(* reads gets what is in its send_queue.                                    *)
(***************************************************************************)
RepliesSent ==
  \A fd \in Fd : send_queue[fd] # <<>> ~> (send_queue[fd] = <<>> \/ Excused(fd))

(***************************************************************************)
(* README, section 2.1: IO_thread "pushes valid packets into the priority   *)
(* queues".  A packet that waits in the socket of a client is read.         *)
(***************************************************************************)
FramesRead ==
  \A fd \in Fd : inbox[fd] > 0 ~> (inbox[fd] = 0 \/ Excused(fd))

(***************************************************************************)
(* README, section 2.1: IO_thread "reaps clients that have disconnected".   *)
(***************************************************************************)
DisconnectedReaped ==
  \A fd \in Fd : (fd \in open /\ ~peer[fd]) ~> (fd \notin open \/ crashed \/ shutdown)
=============================================================================
