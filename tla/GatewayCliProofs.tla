-------------------------- MODULE GatewayCliProofs --------------------------
(***************************************************************************)
(* gatewaycli: the ring sent_queue, shared by three threads, is a bounded   *)
(* first-in first-out queue, and a command is acknowledged once.  Proofs    *)
(* for every size of the ring.                                              *)
(***************************************************************************)
EXTENDS GatewayCli, TLAPS

Index == 0 .. CLIENT_QUEUE - 1

\* The three counters of the ring agree.
RingInv ==
  /\ sent_queue \in [Index -> Message]
  /\ send_head \in Index /\ send_tail \in Index /\ send_count \in 0 .. CLIENT_QUEUE
  /\ send_head = (send_tail + send_count) % CLIENT_QUEUE

\* One acknowledgement is due while a command that was read has none.
OwedInv == owed = IF rpc = "ack" THEN 1 ELSE 0
-----------------------------------------------------------------------------
(* Positions in the ring *)

\* A sum of an index and a number below the size is reduced by at most one turn.
LEMMA Turn ==
  ASSUME NEW x \in 0 .. 2 * CLIENT_QUEUE - 1
  PROVE  x % CLIENT_QUEUE = IF x < CLIENT_QUEUE THEN x ELSE x - CLIENT_QUEUE
<1> USE GatewayCliAssumption
<1>1. CASE x < CLIENT_QUEUE
  BY <1>1
<1>2. CASE x >= CLIENT_QUEUE
  BY <1>2
<1> QED BY <1>1, <1>2

\* The cells of the ring that are in use, and the next one.
Cell(i) == (send_tail + i - 1) % CLIENT_QUEUE

LEMMA CellIs ==
  ASSUME RingInv, NEW i \in 1 .. CLIENT_QUEUE
  PROVE  /\ Cell(i) \in Index
         /\ Cell(i) = IF send_tail + i - 1 < CLIENT_QUEUE THEN send_tail + i - 1
                      ELSE send_tail + i - 1 - CLIENT_QUEUE
<1>1. PICK x \in 0 .. 2 * CLIENT_QUEUE - 1 : x = send_tail + i - 1
  BY GatewayCliAssumption DEF RingInv, Index
<1>2. Cell(i) = IF x < CLIENT_QUEUE THEN x ELSE x - CLIENT_QUEUE
  BY <1>1, Turn DEF Cell
<1>3. send_tail \in Nat
  BY GatewayCliAssumption DEF RingInv, Index
<1> QED BY <1>1, <1>2, <1>3, GatewayCliAssumption DEF Index

\* The cell that enqueue_message writes is none of those in use.
LEMMA HeadIsFree ==
  ASSUME RingInv, send_count < CLIENT_QUEUE
  PROVE  /\ Cell(send_count + 1) = send_head
         /\ \A i \in 1 .. send_count : Cell(i) # send_head
<1>1. send_count \in Nat /\ send_count + 1 \in 1 .. CLIENT_QUEUE /\ send_tail \in Nat
  BY GatewayCliAssumption DEF RingInv, Index
<1>2. Cell(send_count + 1) = send_head
  <2>1. send_tail + (send_count + 1) - 1 = send_tail + send_count
    BY <1>1
  <2> QED BY <2>1 DEF Cell, RingInv
<1>3. ASSUME NEW i \in 1 .. send_count
      PROVE  Cell(i) # Cell(send_count + 1)
  <2>1. i \in 1 .. CLIENT_QUEUE
    BY <1>1, GatewayCliAssumption
  <2>2. /\ Cell(i) = IF send_tail + i - 1 < CLIENT_QUEUE THEN send_tail + i - 1
                     ELSE send_tail + i - 1 - CLIENT_QUEUE
        /\ Cell(send_count + 1) = IF send_tail + (send_count + 1) - 1 < CLIENT_QUEUE
                                  THEN send_tail + (send_count + 1) - 1
                                  ELSE send_tail + (send_count + 1) - 1 - CLIENT_QUEUE
    BY <1>1, <2>1, CellIs
  <2> QED BY <1>1, <2>1, <2>2, GatewayCliAssumption
<1> QED BY <1>2, <1>3

\* dequeue_message moves every cell one place to the front.
LEMMA CellAfterGet ==
  ASSUME RingInv, send_count > 0, NEW i \in 1 .. send_count - 1,
         send_tail' = (send_tail + 1) % CLIENT_QUEUE
  PROVE  Cell(i)' = Cell(i + 1)
<1> USE GatewayCliAssumption
<1>1. i \in 1 .. CLIENT_QUEUE /\ i + 1 \in 1 .. CLIENT_QUEUE /\ send_tail \in 0 .. CLIENT_QUEUE - 1
  BY DEF RingInv, Index
<1>2. send_tail' = IF send_tail + 1 < CLIENT_QUEUE THEN send_tail + 1 ELSE 0
  <2>1. send_tail + 1 \in 0 .. 2 * CLIENT_QUEUE - 1
    BY <1>1
  <2> QED BY <1>1, <2>1, Turn
<1>3. send_tail' + i - 1 \in 0 .. 2 * CLIENT_QUEUE - 1
  BY <1>1, <1>2
<1>4. Cell(i)' = IF send_tail' + i - 1 < CLIENT_QUEUE THEN send_tail' + i - 1
                 ELSE send_tail' + i - 1 - CLIENT_QUEUE
  BY <1>3, Turn DEF Cell
<1>5. Cell(i + 1) = IF send_tail + i < CLIENT_QUEUE THEN send_tail + i
                    ELSE send_tail + i - CLIENT_QUEUE
  <2>1. send_tail + (i + 1) - 1 = send_tail + i
    BY <1>1
  <2> QED BY <1>1, <2>1, CellIs
<1> QED BY <1>1, <1>2, <1>4, <1>5
-----------------------------------------------------------------------------
(* The ring as a queue *)

LEMMA SeqIsFunction ==
  ASSUME NEW S, NEW s \in Seq(S)
  PROVE  s = [i \in 1 .. Len(s) |-> s[i]]
OBVIOUS

LEMMA AppendIs ==
  ASSUME NEW S, NEW s \in Seq(S), NEW x \in S
  PROVE  Append(s, x) = [i \in 1 .. Len(s) + 1 |-> IF i <= Len(s) THEN s[i] ELSE x]
<1>1. Append(s, x) \in Seq(S) /\ Len(Append(s, x)) = Len(s) + 1
  OBVIOUS
<1>2. Append(s, x) = [i \in 1 .. Len(s) + 1 |-> Append(s, x)[i]]
  BY <1>1, SeqIsFunction, Zenon
<1>3. \A i \in 1 .. Len(s) + 1 : Append(s, x)[i] = IF i <= Len(s) THEN s[i] ELSE x
  OBVIOUS
<1> QED BY <1>2, <1>3, Zenon

LEMMA TailIs ==
  ASSUME NEW S, NEW s \in Seq(S), s # <<>>
  PROVE  Tail(s) = [i \in 1 .. Len(s) - 1 |-> s[i + 1]]
<1>1. Tail(s) \in Seq(S) /\ Len(Tail(s)) = Len(s) - 1
  OBVIOUS
<1>2. Tail(s) = [i \in 1 .. Len(s) - 1 |-> Tail(s)[i]]
  BY <1>1, SeqIsFunction, Zenon
<1>3. \A i \in 1 .. Len(s) - 1 : Tail(s)[i] = s[i + 1]
  OBVIOUS
<1> QED BY <1>2, <1>3, Zenon

LEMMA ContentsSeq ==
  ASSUME RingInv
  PROVE  /\ Contents \in Seq(Message) /\ Len(Contents) = send_count
         /\ \A i \in 1 .. send_count : Contents[i] = sent_queue[Cell(i)]
<1>1. send_count \in Nat /\ \A i \in 1 .. send_count : i \in 1 .. CLIENT_QUEUE
  BY GatewayCliAssumption DEF RingInv
<1>2. Contents = [i \in 1 .. send_count |-> sent_queue[Cell(i)]]
  BY DEF Contents, Cell
<1>3. \A i \in 1 .. send_count : sent_queue[Cell(i)] \in Message
  BY <1>1, CellIs, Zenon DEF RingInv
<1> QED BY <1>1, <1>2, <1>3

\* enqueue_message refuses a message when the ring is full and appends it otherwise.
LEMMA PutStep ==
  ASSUME RingInv, NEW m \in Message, enqueue_message(m)
  PROVE  RingInv' /\ (UNCHANGED ring \/ SendRing!Put(m))
<1>1. CASE send_count = CLIENT_QUEUE
  BY <1>1 DEF enqueue_message, ring, RingInv
<1>2. CASE send_count # CLIENT_QUEUE
  <2>1. /\ sent_queue' = [sent_queue EXCEPT ![send_head] = m]
        /\ send_head' = (send_head + 1) % CLIENT_QUEUE
        /\ send_count' = send_count + 1 /\ send_tail' = send_tail
    BY <1>2 DEF enqueue_message
  <2>2. /\ send_tail \in 0 .. CLIENT_QUEUE - 1 /\ send_head \in 0 .. CLIENT_QUEUE - 1
        /\ send_count \in 0 .. CLIENT_QUEUE - 1
    BY <1>2, GatewayCliAssumption DEF RingInv, Index
  <2>3. RingInv'
    <3>1. send_head' \in Index
      BY <2>1, <2>2, GatewayCliAssumption DEF Index
    <3>2. send_head' = (send_tail' + send_count') % CLIENT_QUEUE
      <4>1. PICK x \in 0 .. 2 * CLIENT_QUEUE - 1 : x = send_tail + send_count
        BY <2>2, GatewayCliAssumption
      <4>2. send_head = IF x < CLIENT_QUEUE THEN x ELSE x - CLIENT_QUEUE
        BY <4>1, Turn DEF RingInv
      <4>3. PICK y \in 0 .. 2 * CLIENT_QUEUE - 1 : y = send_tail + (send_count + 1)
        BY <2>2, GatewayCliAssumption
      <4>4. y % CLIENT_QUEUE = IF y < CLIENT_QUEUE THEN y ELSE y - CLIENT_QUEUE
        BY Turn
      <4>5. PICK z \in 0 .. 2 * CLIENT_QUEUE - 1 : z = send_head + 1
        BY <2>2, GatewayCliAssumption
      <4>6. z % CLIENT_QUEUE = IF z < CLIENT_QUEUE THEN z ELSE z - CLIENT_QUEUE
        BY Turn
      <4>7. z % CLIENT_QUEUE = y % CLIENT_QUEUE
        BY <2>2, <4>1, <4>2, <4>3, <4>4, <4>5, <4>6, GatewayCliAssumption
      <4> QED BY <2>1, <4>3, <4>5, <4>7
    <3>3. sent_queue' \in [Index -> Message] /\ send_tail' \in Index
      BY <2>1 DEF RingInv
    <3>4. send_count' \in 0 .. CLIENT_QUEUE
      BY <2>1, <2>2, GatewayCliAssumption
    <3> QED BY <3>1, <3>2, <3>3, <3>4 DEF RingInv
  <2>4. /\ Contents \in Seq(Message) /\ Len(Contents) = send_count
        /\ \A i \in 1 .. send_count : Contents[i] = sent_queue[Cell(i)]
    BY ContentsSeq
  <2>5. Contents' = [i \in 1 .. send_count + 1 |-> sent_queue'[Cell(i)]]
    BY <2>1 DEF Contents, Cell
  <2>6. ASSUME NEW i \in 1 .. send_count + 1
        PROVE  sent_queue'[Cell(i)] = IF i <= send_count THEN Contents[i] ELSE m
    <3>1. send_count \in Nat /\ i \in 1 .. CLIENT_QUEUE
      BY <2>2, GatewayCliAssumption
    <3>2. Cell(i) \in Index
      BY <3>1, CellIs
    <3>3. Cell(send_count + 1) = send_head /\ \A j \in 1 .. send_count : Cell(j) # send_head
      BY <2>2, HeadIsFree, GatewayCliAssumption
    <3>4. CASE i <= send_count
      <4>1. i \in 1 .. send_count
        BY <3>1, <3>4
      <4> QED BY <2>1, <2>4, <3>2, <3>3, <3>4, <4>1 DEF RingInv
    <3>5. CASE i = send_count + 1
      BY <2>1, <3>1, <3>3, <3>5 DEF RingInv
    <3> QED BY <3>1, <3>4, <3>5
  <2>7. Contents' = Append(Contents, m)
    <3>1. Contents' = [i \in 1 .. send_count + 1 |-> IF i <= send_count THEN Contents[i] ELSE m]
      BY <2>5, <2>6, Zenon
    <3> QED BY <2>4, <3>1, AppendIs
  <2>8. Len(Contents) < CLIENT_QUEUE
    BY <2>2, <2>4, GatewayCliAssumption
  <2> QED BY <2>3, <2>7, <2>8 DEF SendRing!Put
<1> QED BY <1>1, <1>2

\* dequeue_message takes the oldest message.
LEMMA GetStep ==
  ASSUME RingInv, send_count > 0, dequeue_message
  PROVE  RingInv' /\ SendRing!Get
<1>1. /\ send_tail' = (send_tail + 1) % CLIENT_QUEUE /\ send_count' = send_count - 1
      /\ sent_queue' = sent_queue /\ send_head' = send_head
  BY DEF dequeue_message
<1>2. send_tail \in 0 .. CLIENT_QUEUE - 1 /\ send_count \in 1 .. CLIENT_QUEUE
  BY GatewayCliAssumption DEF RingInv, Index
<1>3. RingInv'
  <2>1. PICK x \in 0 .. 2 * CLIENT_QUEUE - 1 : x = send_tail + send_count
    BY <1>2, GatewayCliAssumption
  <2>2. send_head = IF x < CLIENT_QUEUE THEN x ELSE x - CLIENT_QUEUE
    BY <2>1, Turn DEF RingInv
  <2>3. PICK y \in 0 .. 2 * CLIENT_QUEUE - 1 : y = send_tail + 1
    BY <1>2, GatewayCliAssumption
  <2>4. send_tail' = IF y < CLIENT_QUEUE THEN y ELSE y - CLIENT_QUEUE
    BY <1>1, <2>3, Turn
  <2>5. PICK z \in 0 .. 2 * CLIENT_QUEUE - 1 : z = send_tail' + (send_count - 1)
    BY <1>2, <2>3, <2>4, GatewayCliAssumption
  <2>6. z % CLIENT_QUEUE = IF z < CLIENT_QUEUE THEN z ELSE z - CLIENT_QUEUE
    BY Turn
  <2>7. z % CLIENT_QUEUE = send_head
    BY <1>2, <2>1, <2>2, <2>3, <2>4, <2>5, <2>6, GatewayCliAssumption
  <2>8. send_tail' \in Index /\ send_count' \in 0 .. CLIENT_QUEUE
    BY <1>1, <1>2, <2>3, <2>4, GatewayCliAssumption DEF Index
  <2> QED BY <1>1, <2>5, <2>7, <2>8 DEF RingInv
<1>4. /\ Contents \in Seq(Message) /\ Len(Contents) = send_count
      /\ \A i \in 1 .. send_count : Contents[i] = sent_queue[Cell(i)]
  BY ContentsSeq
<1>5. Contents' = [i \in 1 .. send_count - 1 |-> sent_queue[Cell(i)']]
  BY <1>1 DEF Contents, Cell
<1>6. ASSUME NEW i \in 1 .. send_count - 1
      PROVE  sent_queue[Cell(i)'] = Contents[i + 1]
  <2>1. i + 1 \in 1 .. send_count
    BY <1>2
  <2>2. Cell(i)' = Cell(i + 1)
    BY <1>1, CellAfterGet
  <2> QED BY <1>4, <2>1, <2>2
<1>7. Contents # <<>>
  BY <1>4
<1>8. Contents' = Tail(Contents)
  <2>1. Contents' = [i \in 1 .. send_count - 1 |-> Contents[i + 1]]
    BY <1>5, <1>6, Zenon
  <2> QED BY <1>4, <1>7, <2>1, TailIs
<1> QED BY <1>3, <1>7, <1>8 DEF SendRing!Get
-----------------------------------------------------------------------------
(* All steps *)

LEMMA RingStep ==
  ASSUME RingInv, [Next]_vars
  PROVE  RingInv' /\ [SendRing!Next]_Contents
<1>1. CASE UNCHANGED ring
  BY <1>1 DEF ring, RingInv, Contents
<1>2. CASE \E m \in Message : enqueue_message(m)
  <2>1. PICK m \in Message : enqueue_message(m)
    BY <1>2
  <2>2. RingInv' /\ (UNCHANGED ring \/ SendRing!Put(m))
    BY <2>1, PutStep
  <2> QED BY <1>1, <2>2 DEF SendRing!Next
<1>3. CASE send_count > 0 /\ dequeue_message
  BY <1>3, GetStep DEF SendRing!Next
<1>4. \/ UNCHANGED ring
      \/ \E m \in Message : enqueue_message(m)
      \/ send_count > 0 /\ dequeue_message
  <2>1. CASE Main \/ SigTake \/ SigStop \/ TaskTest \/ WorkerStep
    BY <2>1, Zenon DEF Main, MainTest, MainWait, MainJoin, SigTake, SigStop, TaskTest, WorkerStep
  <2>2. CASE RecvTest \/ RecvUnlock \/ RecvPoll \/ ReadTest \/ read_stage \/ RecvStop \/ RecvStore
    BY <2>2, Zenon DEF RecvTest, RecvUnlock, Unlock, RecvPoll, ReadTest, read_stage, RecvStop,
       RecvStore
  <2>3. CASE RecvNack \/ RecvAck \/ RecvAgain \/ create_mesage_random
    BY <2>3 DEF RecvNack, RecvAck, RecvAgain, create_mesage_random, Message
  <2>4. CASE SendStep
    BY <2>4, Zenon DEF SendStep
  <2>5. CASE Server \/ UNCHANGED vars
    BY <2>5, Zenon DEF Server, ServerSends, ServerSendsRest, ServerCloses, vars
  <2> QED BY <2>1, <2>2, <2>3, <2>4, <2>5, Zenon DEF Next, Recv, Task
<1> QED BY <1>1, <1>2, <1>3, <1>4

LEMMA OwedStep ==
  ASSUME OwedInv, [Next]_vars
  PROVE  OwedInv'
<1>1. CASE UNCHANGED <<rpc, owed>>
  BY <1>1 DEF OwedInv
<1>2. CASE RecvTest \/ RecvUnlock \/ RecvPoll \/ ReadTest \/ RecvStop \/ RecvNack \/ RecvAgain
  <2>1. rpc # "ack" /\ rpc' # "ack" /\ UNCHANGED owed
    BY <1>2 DEF RecvTest, RecvUnlock, Unlock, RecvPoll, ReadTest, RecvStop, RecvEnds, RecvNack,
       RecvAgain, history
  <2> QED BY <2>1 DEF OwedInv
<1>3. CASE read_stage
  BY <1>3 DEF read_stage, RecvEnds, AfterFrame, Frame, OwedInv
<1>4. CASE RecvAck
  BY <1>4 DEF RecvAck, OwedInv
<1>5. CASE RecvStore
  BY <1>5, Zenon DEF RecvStore, OwedInv, history
<1>6. CASE Main \/ SigTake \/ SigStop \/ SendStep \/ Task \/ WorkerStep
  <2>1. UNCHANGED <<rpc, owed>>
    BY <1>6, Zenon DEF Main, MainTest, MainWait, MainJoin, SigTake, SigStop, SendStep, Task,
       TaskTest, create_mesage_random, WorkerStep, history
  <2> QED BY <1>1, <2>1
<1>7. CASE Server \/ UNCHANGED vars
  <2>1. UNCHANGED <<rpc, owed>>
    BY <1>7, Zenon DEF Server, ServerSends, ServerSendsRest, ServerCloses, vars, threads, history
  <2> QED BY <1>1, <2>1
<1> QED BY <1>2, <1>3, <1>4, <1>5, <1>6, <1>7, Zenon DEF Next, Recv
-----------------------------------------------------------------------------
(* The theorems *)

\* recv_thread queues one acknowledgement for every command it reads and for nothing else,
\* except for a command that meets a full ring: for every size of the rings.
THEOREM AcknowledgedOnce == Spec => []OneAckPerCommand
<1>1. Init => OwedInv
  BY Zenon DEF Init, OwedInv
<1>2. OwedInv /\ [Next]_vars => OwedInv'
  BY OwedStep
<1>3. OwedInv => OneAckPerCommand
  BY DEF OwedInv, OneAckPerCommand
<1> QED BY <1>1, <1>2, <1>3, PTL DEF Spec

\* The ring sent_queue implements a bounded queue, for every size: what enqueue_message accepts
\* from recv_thread and task_create_thread leaves through send_thread in the same order,
\* nothing twice and nothing lost.
THEOREM RingImplementsFifo == Spec => ImplementsFifo
<1>1. Init => RingInv /\ SendRing!Init
  <2> SUFFICES ASSUME Init
               PROVE  RingInv /\ SendRing!Init
    OBVIOUS
  <2>1. RingInv
    BY GatewayCliAssumption DEF Init, RingInv, Index, Message
  <2>2. Contents = <<>>
    BY DEF Init, Contents
  <2> QED BY <2>1, <2>2 DEF SendRing!Init
<1>2. RingInv /\ [Next]_vars => RingInv' /\ [SendRing!Next]_Contents
  BY RingStep
<1> QED BY <1>1, <1>2, PTL DEF Spec, ImplementsFifo, SendRing!Spec
=============================================================================
