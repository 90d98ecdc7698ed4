------------------------------ MODULE GatewayCli ------------------------------
(***************************************************************************)
(* gatewaycli, the client of the Unix-socket control plane: main, which      *)
(* waits on a condition for the stop, and its signal, receive, send, worker  *)
(* and task threads, the two message rings and the reader of framed           *)
(* messages.  The server is whatever sends well-formed frames of the         *)
(* protocol, in pieces, and may close the connection; it reads what it is    *)
(* sent, so that send() does not wait for ever.                             *)
(*                                                                         *)
(* A critical section is one step, except that main holds client->lock       *)
(* between its test of the flag and pthread_cond_wait.  recv_thread unlocks   *)
(* client->lock in two places where it has not locked it: a mutex of this     *)
(* kind is then free, whoever had locked it.                                 *)
(***************************************************************************)
EXTENDS Integers, Sequences

CONSTANT CLIENT_QUEUE

ASSUME GatewayCliAssumption == CLIENT_QUEUE \in Nat \ {0}

Message == {"task", "reply"}                            \* a reply is an ACK or a NACK
Frame == {"reply", "shutdown", "command", "corrupt"}

VARIABLES
  mpc, held,               \* main; whether it holds client->lock across steps
  sig,                     \* sig_thread
  shutdown,
  rpc, stage,              \* recv_thread; what read_stage is reading
  spc, tpc, wpc,           \* send_thread, task_create_thread, worker_thread
  sent_queue, send_head, send_tail, send_count,
  recv_count,              \* the other ring holds commands, all alike
  wire, open,              \* what the server has sent, in pieces; it has not closed
  owed,                    \* history: commands read less acknowledgements queued; a command for
                           \*   which one of the rings is full is written off
  stray                    \* history: a stray unlock hit main between this test and its wait

ring == <<sent_queue, send_head, send_tail, send_count>>
threads == <<mpc, held, sig, rpc, stage, spc, tpc, wpc>>
history == <<owed, stray>>
vars == <<threads, shutdown, ring, recv_count, wire, open, history>>

Init ==
  /\ mpc = "test" /\ held = FALSE /\ sig = "wait" /\ shutdown = FALSE
  /\ rpc = "test" /\ stage = "header" /\ spc = "test" /\ tpc = "test" /\ wpc = "test"
  /\ sent_queue = [i \in 0 .. CLIENT_QUEUE - 1 |-> "task"]
  /\ send_head = 0 /\ send_tail = 0 /\ send_count = 0 /\ recv_count = 0
  /\ wire = <<>> /\ open = TRUE
  /\ owed = 0 /\ stray = FALSE

Awake(pc) == IF pc = "wait" THEN "test" ELSE pc

\* shutdown = true and pthread_cond_broadcast under client->lock.
Stop == ~held /\ shutdown' = TRUE /\ mpc' = Awake(mpc)
-----------------------------------------------------------------------------
(* client.h: the ring sent_queue *)

\* As if the ring were not tested for room.
enqueue_unchecked(m) ==
  /\ sent_queue' = [sent_queue EXCEPT ![send_head] = m]
  /\ send_head' = (send_head + 1) % CLIENT_QUEUE
  /\ send_count' = send_count + 1
  /\ UNCHANGED send_tail

enqueue_message(m) ==
  IF send_count = CLIENT_QUEUE THEN UNCHANGED ring
  ELSE /\ sent_queue' = [sent_queue EXCEPT ![send_head] = m]
       /\ send_head' = (send_head + 1) % CLIENT_QUEUE
       /\ send_count' = send_count + 1
       /\ UNCHANGED send_tail

dequeue_message ==
  /\ send_tail' = (send_tail + 1) % CLIENT_QUEUE
  /\ send_count' = send_count - 1
  /\ UNCHANGED <<sent_queue, send_head>>
-----------------------------------------------------------------------------
(* client.c: main and sig_thread *)

\* main locks and tests the flag.
MainTest ==
  /\ mpc = "test"
  /\ IF shutdown THEN mpc' = "join" /\ UNCHANGED held
     ELSE mpc' = "tested" /\ held' = TRUE
  /\ stray' = FALSE
  /\ UNCHANGED <<sig, rpc, stage, spc, tpc, wpc, shutdown, ring, recv_count, wire, open, owed>>

\* pthread_cond_wait unlocks and sleeps.
MainWait ==
  /\ mpc = "tested"
  /\ mpc' = "wait" /\ held' = FALSE
  /\ UNCHANGED <<sig, rpc, stage, spc, tpc, wpc, shutdown, ring, recv_count, wire, open, history>>

\* The five joins, close and free.
MainJoin ==
  /\ mpc = "join" /\ sig = "done" /\ {rpc, spc, tpc, wpc} = {"done"}
  /\ mpc' = "ended"
  /\ UNCHANGED <<held, sig, rpc, stage, spc, tpc, wpc, shutdown, ring, recv_count, wire, open, history>>

\* sigwaitinfo returns SIGINT or SIGTERM; SHUTDOWN_PEER goes straight to the socket.
SigTake ==
  /\ sig = "wait"
  /\ sig' = "flag"
  /\ UNCHANGED <<mpc, held, rpc, stage, spc, tpc, wpc, shutdown, ring, recv_count, wire, open, history>>

\* As if the flag were set without waking main.
SigSilent ==
  /\ sig = "flag" /\ ~held
  /\ shutdown' = TRUE /\ sig' = "done"
  /\ UNCHANGED <<mpc, held, rpc, stage, spc, tpc, wpc, ring, recv_count, wire, open, history>>

SigStop ==
  /\ sig = "flag"
  /\ Stop /\ sig' = "done"
  /\ UNCHANGED <<held, rpc, stage, spc, tpc, wpc, ring, recv_count, wire, open, history>>
-----------------------------------------------------------------------------
(* client.c: recv_thread *)

\* recv_thread ends; nobody reads what is still in the socket.
RecvEnds == rpc' = "done" /\ stage' = "header" /\ wire' = <<>>

RecvTest ==
  /\ rpc = "test" /\ ~held
  /\ IF shutdown THEN RecvEnds ELSE rpc' = "poll" /\ UNCHANGED <<stage, wire>>
  /\ UNCHANGED <<mpc, held, sig, spc, tpc, wpc, shutdown, ring, recv_count, open, history>>

\* pthread_mutex_unlock of a lock that recv_thread does not hold.
Unlock ==
  /\ held' = FALSE /\ stray' = (stray \/ held)
  /\ UNCHANGED <<mpc, sig, stage, spc, tpc, wpc, shutdown, ring, recv_count, wire, open, owed>>

\* An unlock, and epoll_wait with its 5 ms, which only the server can disturb.
RecvPoll ==
  /\ rpc = "poll"
  /\ rpc' = IF wire # <<>> \/ ~open THEN "event" ELSE "test"
  /\ Unlock

\* Another one before the socket is read.
RecvUnlock == rpc = "event" /\ rpc' = "read" /\ Unlock

\* As if an ACK were answered with an ACK.
AfterFrameReply(f) ==
  CASE f = "corrupt" -> "nack" [] f = "shutdown" -> "stop" [] OTHER -> "ack"

AfterFrame(f) ==
  CASE f = "corrupt" -> "nack" [] f = "shutdown" -> "stop" [] f = "command" -> "ack" [] OTHER -> "test"

\* read_stage tests the flag before every recv.
ReadTest ==
  /\ rpc = "read" /\ ~held
  /\ IF shutdown THEN RecvEnds ELSE rpc' = "recv" /\ UNCHANGED <<stage, wire>>
  /\ UNCHANGED <<mpc, held, sig, spc, tpc, wpc, shutdown, ring, recv_count, open, history>>

\* recv waits, in the middle of a frame too.  Which frame the server sent matters when it
\* is whole.  The end of the connection sets the flag and wakes nobody.
read_stage ==
  /\ rpc = "recv" /\ ~held
  /\ \/ /\ wire # <<>>
        /\ wire' = Tail(wire)
        /\ IF stage = "header"
           THEN stage' = "rest" /\ rpc' = "read" /\ UNCHANGED owed
           ELSE \E f \in Frame :
                  /\ stage' = "header" /\ rpc' = AfterFrame(f)
                  /\ owed' = IF f = "command" THEN owed + 1 ELSE owed
        /\ UNCHANGED shutdown
     \/ /\ wire = <<>> /\ ~open
        /\ shutdown' = TRUE /\ RecvEnds /\ UNCHANGED owed
  /\ UNCHANGED <<mpc, held, sig, spc, tpc, wpc, ring, recv_count, open, stray>>

\* recv waits for the rest of a frame, and the flag is not tested any more.
Blocked == rpc = "recv" /\ stage = "rest" /\ wire = <<>> /\ open

\* SHUTDOWN_PEER
RecvStop ==
  /\ rpc = "stop"
  /\ Stop /\ RecvEnds
  /\ UNCHANGED <<held, sig, spc, tpc, wpc, ring, recv_count, open, history>>

\* A corrupt frame: NACK, tried again at once when the ring is full.
RecvNack ==
  /\ rpc = "nack"
  /\ enqueue_message("reply")
  /\ rpc' = "test"
  /\ UNCHANGED <<mpc, held, sig, stage, spc, tpc, wpc, shutdown, recv_count, wire, open, history>>

\* A command: first the ACK, then the command into recv_queue; when that is full the ACK once
\* more and the command is gone.
RecvAck ==
  /\ rpc = "ack"
  /\ enqueue_message("reply")
  /\ rpc' = "store"
  /\ owed' = IF send_count = CLIENT_QUEUE THEN 0 ELSE owed - 1
  /\ UNCHANGED <<mpc, held, sig, stage, spc, tpc, wpc, shutdown, recv_count, wire, open, stray>>

RecvStore ==
  /\ rpc = "store"
  /\ IF recv_count = CLIENT_QUEUE
     THEN rpc' = "again" /\ UNCHANGED recv_count
     ELSE rpc' = "test" /\ recv_count' = recv_count + 1
  /\ UNCHANGED <<mpc, held, sig, stage, spc, tpc, wpc, shutdown, ring, wire, open, history>>

RecvAgain ==
  /\ rpc = "again"
  /\ enqueue_message("reply")
  /\ rpc' = "test"
  /\ UNCHANGED <<mpc, held, sig, stage, spc, tpc, wpc, shutdown, recv_count, wire, open, history>>
-----------------------------------------------------------------------------
(* client.c: the other threads *)

\* The flag, a message, send_framed_message and the count; an error counts as sent.
SendStep ==
  /\ spc = "test" /\ ~held
  /\ IF shutdown THEN spc' = "done" /\ UNCHANGED ring
     ELSE send_count > 0 /\ dequeue_message /\ UNCHANGED spc
  /\ UNCHANGED <<mpc, held, sig, rpc, stage, tpc, wpc, shutdown, recv_count, wire, open, history>>

\* The flag, then the test for room under sent_lock.
TaskTest ==
  /\ tpc = "test" /\ ~held
  /\ tpc' = IF shutdown THEN "done" ELSE IF send_count < CLIENT_QUEUE THEN "put" ELSE "test"
  /\ UNCHANGED <<mpc, held, sig, rpc, stage, spc, wpc, shutdown, ring, recv_count, wire, open, history>>

\* create_mesage_random takes sent_lock again; the ring may be full by now.
create_mesage_random ==
  /\ tpc = "put"
  /\ enqueue_message("task")
  /\ tpc' = "test"
  /\ UNCHANGED <<mpc, held, sig, rpc, stage, spc, wpc, shutdown, recv_count, wire, open, history>>

WorkerStep ==
  /\ wpc = "test" /\ ~held
  /\ IF shutdown THEN wpc' = "done" /\ UNCHANGED recv_count
     ELSE recv_count > 0 /\ recv_count' = recv_count - 1 /\ UNCHANGED wpc
  /\ UNCHANGED <<mpc, held, sig, rpc, stage, spc, tpc, shutdown, ring, wire, open, history>>
-----------------------------------------------------------------------------
(* The server, as long as recv_thread may read *)

\* A frame whose header and rest may arrive apart.
ServerSends ==
  /\ open /\ wire = <<>> /\ stage = "header" /\ rpc # "done"
  /\ wire' \in {<<"header">>, <<"header", "rest">>}
  /\ UNCHANGED <<threads, shutdown, ring, recv_count, open, history>>

ServerSendsRest ==
  /\ open /\ rpc # "done"
  /\ (wire = <<>> /\ stage = "rest") \/ (Len(wire) = 1 /\ stage = "header")
  /\ wire' = Append(wire, "rest")
  /\ UNCHANGED <<threads, shutdown, ring, recv_count, open, history>>

ServerCloses ==
  /\ open /\ rpc # "done"
  /\ open' = FALSE
  /\ UNCHANGED <<threads, shutdown, ring, recv_count, wire, history>>
-----------------------------------------------------------------------------
Main == MainTest \/ MainWait \/ MainJoin
Recv ==
  \/ RecvTest \/ RecvUnlock \/ RecvPoll \/ ReadTest \/ read_stage \/ RecvStop
  \/ RecvNack \/ RecvAck \/ RecvStore \/ RecvAgain
Task == TaskTest \/ create_mesage_random
Server == ServerSends \/ ServerSendsRest \/ ServerCloses

Next == Main \/ SigTake \/ SigStop \/ Recv \/ SendStep \/ Task \/ WorkerStep \/ Server

\* Every thread goes on when it can; nobody has to send a signal, and the server has to do
\* nothing.
Fairness ==
  /\ WF_vars(Main) /\ WF_vars(SigStop) /\ WF_vars(Recv) /\ WF_vars(SendStep) /\ WF_vars(Task)
  /\ WF_vars(WorkerStep)

Spec == Init /\ [][Next]_vars /\ Fairness
-----------------------------------------------------------------------------
(* Properties *)

\* The ring sent_queue, filled by recv_thread and task_create_thread and emptied by
\* send_thread, is a bounded queue: nothing that enqueue_message accepted is lost,
\* duplicated or overtaken, although the room is tested in one critical section and used
\* in another.
Contents == [i \in 1 .. send_count |-> sent_queue[(send_tail + i - 1) % CLIENT_QUEUE]]
SendRing == INSTANCE BoundedFifo WITH Elem <- Message, Capacity <- CLIENT_QUEUE, fifo <- Contents
ImplementsFifo == SendRing!Spec

\* recv_thread queues one acknowledgement for every command it reads and for nothing else,
\* acknowledgements included; only for a command that meets a full ring it queues none, or a
\* second one (RecvAgain).
OneAckPerCommand == rpc # "ack" => owed = 0

\* The wake-up that main has missed: recv_thread released the lock main was holding.
LostWakeup == stray /\ mpc = "wait" /\ shutdown

\* SIGINT or SIGTERM ends the client, whatever its threads are doing, also when the server
\* has gone.  The exceptions are a stray unlock between main's test and its wait, and a
\* server that stays away in the middle of a frame.
StopEnds == (sig = "flag") ~> (mpc = "ended" \/ LostWakeup \/ Blocked)
=============================================================================
