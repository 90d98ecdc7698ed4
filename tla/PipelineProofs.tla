--------------------------- MODULE PipelineProofs ---------------------------
(***************************************************************************)
(* The controller of ipc-cmd-pipeline leaves a command only when it was     *)
(* acknowledged or sent RESEND_NUM times, and the worker runs the commands  *)
(* as they were sent: proofs for any number of commands, any capacity of    *)
(* the FIFOs, whatever FIFOs there are and whatever the fields hold that    *)
(* are not initialised.                                                     *)
(***************************************************************************)
EXTENDS Pipeline, TLAPS

Slot == Pkt \union {Garbage}

\* The part of the state that the commands go through.
PktType ==
  /\ cmdq \in Seq(Pkt) /\ ackq \in Seq(Pkt)
  /\ spc \in {"start", "next", "write", "wait", "settle", "done"}
  /\ try_resend \in 0..RESEND_NUM /\ last_send \in 0..MaxPkt
  /\ rpkt \in Slot /\ wpkt \in Slot /\ data \in Slot
  /\ rpc \in {"ack", "store"} => rpkt \in Pkt
  /\ attempts \in [Pkt -> 0..RESEND_NUM]
  /\ executed \in Seq(Slot) /\ mpc \in {"wait", "exit"}

\* main removes the FIFOs only when every thread has ended.
ExitInv ==
  mpc = "exit" => /\ spc = "done" /\ apc = "done"
                  /\ ~alive \/ (rpc = "done" /\ wpc = "done")

\* Where send_cmd is with the command it sent last.
SendInv ==
  /\ spc = "start" => last_send = 0
  /\ spc \in {"write", "wait", "settle"} => last_send > 0
  /\ last_send > 0 => attempts[last_send] = try_resend
  /\ \A n \in Pkt : n > last_send => attempts[n] = 0
  /\ spc = "write" => try_resend < RESEND_NUM
  /\ spc = "wait" => try_resend > 0
  /\ \A n \in confirmed : n \in Pkt /\ n <= last_send
  /\ spc \in {"write", "wait"} => last_send \notin confirmed

\* The first wait may still see what ack_received held before it was first reset.
FirstWait ==
  \/ last_send = 0
  \/ last_send = 1 /\ spc = "write" /\ try_resend = 0
  \/ last_send = 1 /\ spc = "wait" /\ try_resend = 1

\* The number that recv_ack_thread notes is that of an acknowledged command.
AckInv ==
  /\ \A i \in DOMAIN ackq : ackq[i] \in acked
  /\ ack_received => ack_send \in acked \/ FirstWait
  /\ ~c_running => "ack" \notin fifo

\* Without an ack FIFO there is a second command only if ack_send happened to hold 1 at the
\* start.
NoAckInv ==
  "ack" \notin fifo /\ mpc = "wait" =>
    /\ acked = {} /\ ackq = <<>>
    /\ last_send >= 2 \/ (last_send = 1 /\ spc = "next") => ack_send = 1
    /\ last_send = 1 /\ spc = "settle" => ack_send = 1 \/ ~c_running

\* The commands between the controller and the task are in the order of their numbers.
OrderInv ==
  /\ \A i, j \in DOMAIN executed : i < j => executed[i] <= executed[j]
  /\ \A i \in DOMAIN executed : executed[i] <= wpkt
  /\ wpkt <= data /\ data <= rpkt /\ rpkt <= last_send
  /\ \A i \in DOMAIN cmdq : rpkt <= cmdq[i] /\ cmdq[i] <= last_send
  /\ \A i, j \in DOMAIN cmdq : i < j => cmdq[i] <= cmdq[j]

AckIndInv == PktType /\ ExitInv /\ SendInv /\ AckInv /\ NoAckInv /\ AckBeforeNext

CountIn(s, n) == Cardinality({i \in DOMAIN s : s[i] = n})
One(b) == IF b THEN 1 ELSE 0

Begun(n) == CountIn(executed, n) + One(wpc = "task" /\ wpkt = n) + One(has_new_data /\ data = n)
Arriving(n) == One(rpc \in {"ack", "store"} /\ rpkt = n) + CountIn(cmdq, n)

\* What is run, at the task, in the slot, with the receiver or in the command FIFO was
\* transmitted that often.
CountInv ==
  /\ \A n \in Pkt : Begun(n) + Arriving(n) <= attempts[n]
  /\ Begun(Garbage) <= 1

IndInv == AckIndInv /\ OrderInv /\ CountInv
-----------------------------------------------------------------------------
(* Sequences with one element more or less *)

LEMMA AppendSeq ==
  ASSUME NEW S, NEW s \in Seq(S), NEW x \in S
  PROVE  /\ Append(s, x) \in Seq(S) /\ Len(s) \in Nat
         /\ DOMAIN Append(s, x) = DOMAIN s \cup {Len(s) + 1} /\ Append(s, x)[Len(s) + 1] = x
         /\ \A i \in DOMAIN Append(s, x) : \/ i \in DOMAIN s /\ Append(s, x)[i] = s[i]
                                           \/ /\ Append(s, x)[i] = x
                                              /\ \A j \in DOMAIN Append(s, x) : j <= i
OBVIOUS

LEMMA TailSeq ==
  ASSUME NEW S, NEW s \in Seq(S), s # <<>>
  PROVE  /\ Tail(s) \in Seq(S) /\ Head(s) \in S /\ Head(s) = s[1] /\ 1 \in DOMAIN s
         /\ \A i \in DOMAIN Tail(s) :
              i \in Nat /\ i > 0 /\ i + 1 \in DOMAIN s /\ Tail(s)[i] = s[i + 1]
OBVIOUS
-----------------------------------------------------------------------------
(* The controller *)

\* A step that moves no command and no ack.
LEMMA QuietStep ==
  ASSUME AckIndInv, OrderInv, ExitInv', rpc' \in {rpc, "read"},
         UNCHANGED <<fifo, cmdq, ackq, controller, rpkt, wpkt, data, mpc, history>>
  PROVE  AckIndInv' /\ OrderInv'
<1> USE DEF AckIndInv, controller, history
<1>1. PktType' /\ SendInv' /\ OrderInv'
  BY DEF PktType, SendInv, OrderInv
<1>2. AckInv' /\ NoAckInv' /\ AckBeforeNext'
  BY DEF AckInv, FirstWait, NoAckInv, AckBeforeNext, Settled
<1> QED BY <1>1, <1>2

\* send_cmd begins, or looks at is_running after a command.
LEMMA CtlTestStep ==
  ASSUME AckIndInv, OrderInv, CtlStart \/ CtlSettle
  PROVE  AckIndInv' /\ OrderInv'
<1> USE PipelineAssumption DEF AckIndInv, CtlStart, CtlSettle, CtlUnchanged, worker
<1>1. PktType' /\ SendInv' /\ ExitInv' /\ OrderInv'
  BY DEF PktType, SendInv, ExitInv, OrderInv
<1>2. AckInv' /\ NoAckInv'
  BY DEF AckInv, FirstWait, NoAckInv, SendInv
<1>3. AckBeforeNext'
  BY DEF AckBeforeNext, Settled, SendInv, PktType, Pkt
<1> QED BY <1>1, <1>2, <1>3

\* send_cmd numbers the next command.
LEMMA CtlNextStep ==
  ASSUME AckIndInv, OrderInv, CtlNext
  PROVE  AckIndInv' /\ OrderInv'
<1> USE PipelineAssumption DEF AckIndInv, CtlNext, CtlUnchanged, worker
<1>1. PktType' /\ ExitInv'
  BY DEF PktType, ExitInv
<1>2. SendInv'
  BY DEF SendInv, PktType, Pkt
<1>3. AckInv' /\ NoAckInv'
  BY DEF AckInv, FirstWait, NoAckInv, PktType
<1>4. AckBeforeNext'
  BY DEF AckBeforeNext, Settled, PktType, Pkt
<1>5. OrderInv'
  BY DEF OrderInv, PktType, Slot, Pkt, Garbage
<1> QED BY <1>1, <1>2, <1>3, <1>4, <1>5

\* send_cmd transmits the command once more.
LEMMA CtlWriteStep ==
  ASSUME AckIndInv, OrderInv, CtlWrite
  PROVE  AckIndInv' /\ OrderInv'
<1> USE PipelineAssumption DEF AckIndInv, CtlWrite, CtlUnchanged, worker
<1>1. last_send \in Pkt /\ cmdq' \in {cmdq, Append(cmdq, last_send)}
  BY DEF PktType, SendInv, Pkt
<1>2. /\ cmdq \in Seq(Pkt) /\ cmdq' \in Seq(Pkt)
      /\ \A i \in DOMAIN cmdq' : \/ i \in DOMAIN cmdq /\ cmdq'[i] = cmdq[i]
                                 \/ cmdq'[i] = last_send /\ \A j \in DOMAIN cmdq' : j <= i
  <2>1. cmdq \in Seq(Pkt)
    BY DEF PktType
  <2>2. CASE cmdq' = cmdq
    BY <2>1, <2>2
  <2>3. CASE cmdq' = Append(cmdq, last_send)
    <3> HIDE DEF AckIndInv, CtlWrite, CtlUnchanged, worker
    <3> QED BY <1>1, <2>1, <2>3, AppendSeq
  <2> QED BY <1>1, <2>2, <2>3
<1>3. PktType' /\ ExitInv'
  <2>1. attempts[last_send] + 1 \in 0..RESEND_NUM /\ try_resend' \in 0..RESEND_NUM
    BY <1>1 DEF PktType, SendInv, Pkt
  <2> QED BY <1>1, <1>2, <2>1 DEF PktType, ExitInv
<1>4. SendInv'
  BY DEF SendInv, PktType, Pkt
<1>5. AckInv' /\ NoAckInv'
  BY DEF AckInv, FirstWait, NoAckInv, PktType
<1>6. AckBeforeNext'
  BY Zenon DEF AckBeforeNext, Settled, PktType, SendInv, Pkt
<1>7. OrderInv'
  <2>1. /\ UNCHANGED <<executed, wpkt, data, rpkt, last_send>> /\ last_send \in Nat
        /\ \A i \in DOMAIN cmdq' : i \in Nat
    BY <1>1, <1>2 DEF Pkt
  <2> HIDE DEF AckIndInv, CtlWrite, CtlUnchanged, worker
  <2>4. /\ rpkt <= last_send
        /\ \A i \in DOMAIN cmdq : rpkt <= cmdq[i] /\ cmdq[i] <= last_send
        /\ \A i, j \in DOMAIN cmdq : i < j => cmdq[i] <= cmdq[j]
    BY Zenon DEF OrderInv
  <2>5. last_send <= last_send
    BY <2>1
  <2>2. ASSUME NEW i \in DOMAIN cmdq'
        PROVE  rpkt <= cmdq'[i] /\ cmdq'[i] <= last_send
    BY <1>2, <2>4, <2>5, Zenon
  <2>3. ASSUME NEW i \in DOMAIN cmdq', NEW j \in DOMAIN cmdq', i < j
        PROVE  cmdq'[i] <= cmdq'[j]
    <3>1. ~(j <= i)
      BY <2>1, <2>3
    <3> QED
      BY <1>2, <2>2, <2>3, <2>4, <3>1, Zenon
  <2> QED BY <2>1, <2>2, <2>3 DEF OrderInv
<1> QED BY <1>3, <1>4, <1>5, <1>6, <1>7

\* send_cmd sees the flag: with the number of the command it sent, that command was
\* acknowledged.
LEMMA CtlWaitStep ==
  ASSUME AckIndInv, OrderInv, CtlWait
  PROVE  AckIndInv' /\ OrderInv'
<1> USE PipelineAssumption DEF AckIndInv, CtlWait, CtlUnchanged, worker
<1>1. PktType' /\ ExitInv' /\ OrderInv'
  BY DEF PktType, ExitInv, OrderInv
<1>2. SendInv'
  BY DEF SendInv, PktType, Pkt
<1>3. AckInv'
  BY DEF AckInv
<1>4. NoAckInv'
  BY DEF NoAckInv, ExitInv, PktType, SendInv, AckInv, FirstWait
<1>5. AckBeforeNext'
  <2>1. last_send = ack_send /\ last_send # 1 => last_send \in acked
    BY DEF SendInv, PktType, AckInv, NoAckInv, FirstWait, ExitInv
  <2>2. last_send \in Pkt /\ attempts[last_send] = try_resend /\ last_send \notin confirmed
    BY DEF SendInv, PktType, Pkt
  <2>3. CASE last_send = ack_send
    BY <2>1, <2>2, <2>3 DEF AckBeforeNext, Settled, PktType, Pkt
  <2>4. CASE last_send # ack_send
    BY <2>2, <2>4 DEF AckBeforeNext, Settled, PktType, Pkt
  <2> QED BY <2>3, <2>4
<1> QED BY <1>1, <1>2, <1>3, <1>4, <1>5

\* recv_ack_thread notes an ack, or stops the controller.
LEMMA AckReadStep ==
  ASSUME AckIndInv, OrderInv, AckRead
  PROVE  AckIndInv' /\ OrderInv'
<1> USE DEF AckIndInv, AckRead, CtlUnchanged, worker
<1>1. SendInv' /\ ExitInv' /\ OrderInv' /\ AckBeforeNext'
  BY DEF SendInv, ExitInv, OrderInv, AckBeforeNext, Settled
<1>2. ackq' \in Seq(Pkt) /\ AckInv'
  <2>1. CASE "ack" \in fifo
    <3>1. /\ ackq' = Tail(ackq) /\ ack_send' = Head(ackq) /\ c_running' = c_running
          /\ fifo' = fifo /\ acked' = acked
      BY <2>1
    <3>2. /\ ackq' \in Seq(Pkt) /\ ack_send' \in acked
          /\ \A i \in DOMAIN ackq' : ackq'[i] \in acked
      BY <2>1, <3>1, TailSeq DEF PktType, AckInv
    <3> QED BY <3>1, <3>2 DEF AckInv
  <2>2. CASE "ack" \notin fifo
    BY <2>2 DEF AckInv, FirstWait, PktType
  <2> QED BY <2>1, <2>2
<1>3. PktType'
  BY <1>2 DEF PktType
<1>4. NoAckInv'
  BY DEF NoAckInv
<1> QED BY <1>1, <1>2, <1>3, <1>4
-----------------------------------------------------------------------------
(* The worker *)

\* recv_data_thread reads a command.
LEMMA RecvReadStep ==
  ASSUME AckIndInv, OrderInv, RecvRead
  PROVE  AckIndInv' /\ OrderInv'
<1> USE DEF AckIndInv, RecvRead, WorkUnchanged, controller
<1>1. SendInv' /\ ExitInv' /\ AckInv' /\ NoAckInv' /\ AckBeforeNext'
  BY DEF SendInv, ExitInv, AckInv, FirstWait, NoAckInv, AckBeforeNext, Settled
<1>2. CASE "cmd" \in fifo
  <2>1. cmdq # <<>> /\ rpkt' = Head(cmdq) /\ cmdq' = Tail(cmdq) /\ rpc' = "ack"
    BY <1>2
  <2>2. /\ cmdq \in Seq(Pkt) /\ cmdq' \in Seq(Pkt) /\ rpkt' \in Pkt /\ rpkt' = cmdq[1]
        /\ 1 \in DOMAIN cmdq
        /\ \A i \in DOMAIN cmdq' :
             i \in Nat /\ i > 0 /\ i + 1 \in DOMAIN cmdq /\ cmdq'[i] = cmdq[i + 1]
    BY <2>1, TailSeq DEF PktType
  <2>3. PktType'
    BY <2>1, <2>2 DEF PktType, Slot
  <2>4. OrderInv'
    <3>1. UNCHANGED <<executed, wpkt, data, last_send>>
      OBVIOUS
    <3>2. /\ data <= rpkt' /\ rpkt' <= last_send
          /\ \A i \in DOMAIN cmdq' : rpkt' <= cmdq'[i] /\ cmdq'[i] <= last_send
      <4> HIDE DEF RecvRead, WorkUnchanged, controller
      <4> QED BY <2>2 DEF OrderInv, PktType, Slot, Pkt, Garbage
    <3>3. ASSUME NEW i \in DOMAIN cmdq', NEW j \in DOMAIN cmdq', i < j
          PROVE  cmdq'[i] <= cmdq'[j]
      <4>1. /\ i + 1 \in DOMAIN cmdq /\ j + 1 \in DOMAIN cmdq /\ i + 1 < j + 1
            /\ cmdq'[i] = cmdq[i + 1] /\ cmdq'[j] = cmdq[j + 1]
        BY <2>2, <3>3
      <4> QED BY <4>1, Zenon DEF OrderInv
    <3> QED BY <3>1, <3>2, <3>3 DEF OrderInv
  <2> QED BY <1>1, <2>3, <2>4
<1>3. CASE "cmd" \notin fifo
  <2>1. PktType' /\ OrderInv'
    BY <1>3 DEF PktType, OrderInv
  <2> QED BY <1>1, <2>1
<1> QED BY <1>2, <1>3

\* recv_data_thread acknowledges it, or drops it.
LEMMA RecvAckStep ==
  ASSUME AckIndInv, OrderInv, RecvAck
  PROVE  AckIndInv' /\ OrderInv'
<1> USE DEF AckIndInv, RecvAck, WorkUnchanged, controller
<1>1. SendInv' /\ ExitInv' /\ OrderInv' /\ AckBeforeNext'
  BY DEF SendInv, ExitInv, OrderInv, AckBeforeNext, Settled
<1>2. ackq' \in Seq(Pkt) /\ \A i \in DOMAIN ackq' : ackq'[i] \in acked'
  <2>1. CASE "ack" \in fifo
    <3>1. rpkt \in Pkt /\ ackq' = Append(ackq, rpkt) /\ acked' = acked \union {rpkt}
      BY <2>1 DEF PktType
    <3> QED BY <3>1, AppendSeq DEF PktType, AckInv
  <2>2. CASE "ack" \notin fifo
    BY <2>2 DEF PktType, AckInv
  <2> QED BY <2>1, <2>2
<1>3. PktType'
  BY <1>2 DEF PktType
<1>4. AckInv' /\ NoAckInv'
  BY <1>2 DEF AckInv, FirstWait, NoAckInv
<1> QED BY <1>1, <1>3, <1>4

\* recv_data_thread stores it in the slot.
LEMMA RecvStoreStep ==
  ASSUME AckIndInv, OrderInv, RecvStore
  PROVE  AckIndInv' /\ OrderInv'
<1> USE DEF AckIndInv, RecvStore, WorkUnchanged, controller, pipes
<1>1. SendInv' /\ ExitInv' /\ AckInv' /\ NoAckInv' /\ AckBeforeNext'
  BY DEF SendInv, ExitInv, AckInv, FirstWait, NoAckInv, AckBeforeNext, Settled
<1>2. PktType' /\ OrderInv'
  BY DEF PktType, OrderInv, Slot, Pkt, Garbage
<1> QED BY <1>1, <1>2

\* worker_thread takes it from the slot.
LEMMA WorkCheckStep ==
  ASSUME AckIndInv, OrderInv, WorkCheck
  PROVE  AckIndInv' /\ OrderInv'
<1> USE DEF AckIndInv, WorkCheck, WorkUnchanged, controller, pipes
<1>1. SendInv' /\ ExitInv' /\ AckInv' /\ NoAckInv' /\ AckBeforeNext'
  BY DEF SendInv, ExitInv, AckInv, FirstWait, NoAckInv, AckBeforeNext, Settled
<1>2. wpkt' \in {wpkt, data} /\ UNCHANGED <<executed, data, rpkt, last_send, cmdq>>
  OBVIOUS
<1>3. PktType'
  BY <1>2 DEF PktType
<1>4. OrderInv'
  <2> HIDE DEF WorkCheck, WorkUnchanged, controller, pipes
  <2>0. Slot \subseteq Nat
    BY PipelineAssumption DEF Slot, Pkt, Garbage
  <2>1. /\ wpkt \in Nat /\ data \in Nat
        /\ \A i \in DOMAIN executed : executed[i] \in Slot
    BY <2>0 DEF PktType
  <2>2. wpkt <= wpkt' /\ wpkt' <= data /\ wpkt' \in Nat
    BY <1>2, <2>1 DEF OrderInv
  <2>3. ASSUME NEW i \in DOMAIN executed
        PROVE  executed[i] <= wpkt'
    <3>1. executed[i] \in Nat /\ executed[i] <= wpkt
      BY <2>0, <2>1, Zenon DEF OrderInv
    <3> QED BY <2>1, <2>2, <3>1
  <2> QED BY <1>2, <2>2, <2>3 DEF OrderInv
<1> QED BY <1>1, <1>3, <1>4

\* The task is run.
LEMMA WorkTaskStep ==
  ASSUME AckIndInv, OrderInv, WorkTask
  PROVE  AckIndInv' /\ OrderInv'
<1> USE DEF AckIndInv, WorkTask, WorkUnchanged, controller
<1>1. SendInv' /\ ExitInv' /\ AckInv' /\ NoAckInv' /\ AckBeforeNext'
  BY DEF SendInv, ExitInv, AckInv, FirstWait, NoAckInv, AckBeforeNext, Settled
<1>2. executed' = Append(executed, wpkt) /\ UNCHANGED <<wpkt, data, rpkt, last_send, cmdq>>
  OBVIOUS
<1>3. /\ executed' \in Seq(Slot)
      /\ \A i \in DOMAIN executed' : \/ i \in DOMAIN executed /\ executed'[i] = executed[i]
                                     \/ executed'[i] = wpkt /\ \A j \in DOMAIN executed' : j <= i
  BY <1>2, AppendSeq DEF PktType
<1>4. PktType'
  BY <1>3 DEF PktType
<1>5. OrderInv'
  <2>1. wpkt \in Nat /\ \A i \in DOMAIN executed' : i \in Nat
    BY <1>3, PipelineAssumption DEF PktType, Slot, Pkt, Garbage
  <2>2. \A i \in DOMAIN executed' : executed'[i] <= wpkt
    BY <1>3, <2>1 DEF OrderInv
  <2>3. \A i, j \in DOMAIN executed' : i < j => executed'[i] <= executed'[j]
    BY <1>3, <2>1, <2>2 DEF OrderInv
  <2> QED BY <1>2, <2>2, <2>3 DEF OrderInv
<1> QED BY <1>1, <1>4, <1>5
-----------------------------------------------------------------------------
(* The other steps, and all of them *)

\* main removes the FIFOs.
LEMMA MainExitStep ==
  ASSUME AckIndInv, OrderInv, MainExit
  PROVE  AckIndInv' /\ OrderInv'
<1> USE DEF AckIndInv, MainExit, pipes, controller, worker, history
<1>1. PktType' /\ ExitInv' /\ SendInv' /\ OrderInv'
  BY DEF PktType, ExitInv, SendInv, OrderInv
<1>2. AckInv' /\ NoAckInv' /\ AckBeforeNext'
  BY DEF AckInv, FirstWait, NoAckInv, AckBeforeNext, Settled
<1> QED BY <1>1, <1>2

LEMMA AckIndStep ==
  ASSUME AckIndInv, OrderInv, [Next]_vars
  PROVE  AckIndInv' /\ OrderInv'
<1>1. CASE CtlSleep \/ CtlTimeout \/ UNCHANGED vars
  <2>1. UNCHANGED vars
    BY <1>1 DEF CtlSleep, CtlTimeout
  <2>2. ExitInv'
    BY <2>1 DEF vars, pipes, controller, worker, history, AckIndInv, ExitInv
  <2> QED BY <2>1, <2>2, QuietStep DEF vars, pipes, worker
<1>2. CASE RecvSignal \/ WorkStart \/ Die
  <2>1. ExitInv'
    BY <1>2 DEF RecvSignal, WorkStart, Die, WorkUnchanged, controller, AckIndInv, ExitInv
  <2>2. rpc' \in {rpc, "read"}
    BY <1>2 DEF RecvSignal, WorkStart, Die
  <2>3. UNCHANGED <<fifo, cmdq, ackq, controller, rpkt, wpkt, data, mpc, history>>
    BY <1>2 DEF RecvSignal, WorkStart, Die, WorkUnchanged, pipes, history
  <2> QED BY <2>1, <2>2, <2>3, QuietStep
<1>3. CASE LogRead
  <2>1. UNCHANGED <<fifo, cmdq, ackq, controller, worker, mpc, history>>
    BY <1>3 DEF LogRead
  <2>2. ExitInv'
    BY <2>1 DEF controller, worker, AckIndInv, ExitInv
  <2> QED BY <2>1, <2>2, QuietStep DEF worker
<1> QED
  BY <1>1, <1>2, <1>3, CtlTestStep, CtlNextStep, CtlWriteStep, CtlWaitStep, AckReadStep,
     RecvReadStep, RecvAckStep, RecvStoreStep, WorkCheckStep, WorkTaskStep, MainExitStep
  DEF Next

LEMMA InitAckInd ==
  ASSUME Init
  PROVE  AckIndInv /\ OrderInv
<1> USE PipelineAssumption DEF Init
<1>1. PktType /\ ExitInv /\ SendInv
  BY DEF PktType, ExitInv, SendInv, Slot, Pkt, Garbage
<1>2. AckInv /\ NoAckInv /\ AckBeforeNext
  BY DEF AckInv, FirstWait, NoAckInv, AckBeforeNext, Settled, Pkt
<1>3. OrderInv
  BY DEF OrderInv, Garbage
<1> QED BY <1>1, <1>2, <1>3 DEF AckIndInv
-----------------------------------------------------------------------------
(* Counting *)

INSTANCE FiniteSetTheorems

LEMMA CountType ==
  ASSUME NEW S, NEW s \in Seq(S), NEW n
  PROVE  IsFiniteSet({i \in DOMAIN s : s[i] = n}) /\ CountIn(s, n) \in Nat
<1>1. DOMAIN s = 1..Len(s) /\ Len(s) \in Int
  OBVIOUS
<1>2. IsFiniteSet(DOMAIN s)
  BY <1>1, FS_Interval
<1>3. IsFiniteSet({i \in DOMAIN s : s[i] = n})
  BY <1>2, FS_Subset
<1> QED BY <1>3, FS_CardinalityType DEF CountIn

LEMMA CountAppend ==
  ASSUME NEW S, NEW s \in Seq(S), NEW x \in S, NEW n
  PROVE  CountIn(Append(s, x), n) = IF x = n THEN CountIn(s, n) + 1 ELSE CountIn(s, n)
<1> DEFINE A == {i \in DOMAIN s : s[i] = n}
           B == {i \in DOMAIN Append(s, x) : Append(s, x)[i] = n}
<1>1. IsFiniteSet(A) /\ Cardinality(A) \in Nat
  BY CountType, Zenon DEF CountIn
<1>2. B = IF x = n THEN A \cup {Len(s) + 1} ELSE A
  OBVIOUS
<1>3. Len(s) + 1 \notin A
  OBVIOUS
<1>4. Cardinality(A \cup {Len(s) + 1}) = Cardinality(A) + 1
  <2> HIDE DEF A
  <2> QED BY <1>1, <1>3, FS_AddElement, Zenon
<1>5. Cardinality(B) = IF x = n THEN Cardinality(A) + 1 ELSE Cardinality(A)
  <2> HIDE DEF A, B
  <2> QED BY <1>1, <1>2, <1>4
<1> QED BY <1>5, Zenon DEF CountIn

LEMMA CountTail ==
  ASSUME NEW S, NEW s \in Seq(S), s # <<>>, NEW n
  PROVE  CountIn(s, n) = IF Head(s) = n THEN CountIn(Tail(s), n) + 1 ELSE CountIn(Tail(s), n)
<1> DEFINE A == {i \in DOMAIN s : s[i] = n}
           B == {i \in DOMAIN Tail(s) : Tail(s)[i] = n}
           f == [i \in B |-> i + 1]
<1>0. Tail(s) \in Seq(S)
  BY TailSeq
<1>1. IsFiniteSet(A) /\ Cardinality(A) \in Nat
  BY CountType, Zenon DEF CountIn
<1>2. IsFiniteSet(B) /\ Cardinality(B) \in Nat
  BY <1>0, CountType, Zenon DEF CountIn
<1>3. f \in [B -> A \ {1}] /\ \A i, j \in B : f[i] = f[j] => i = j
  BY TailSeq
<1>4. ASSUME NEW j \in A \ {1}
      PROVE  \E i \in B : f[i] = j
  <2>1. j - 1 \in B /\ f[j - 1] = j
    OBVIOUS
  <2> QED BY <2>1
<1>5. Cardinality(A \ {1}) = Cardinality(B)
  <2> HIDE DEF A, B, f
  <2>1. f \in Bijection(B, A \ {1})
    BY <1>3, <1>4 DEF Bijection, Injection, Surjection, IsInjective
  <2> QED BY <1>2, <2>1, FS_Bijection DEF ExistsBijection
<1>6. 1 \in A <=> Head(s) = n
  BY TailSeq
<1>7. Cardinality(A) = IF Head(s) = n THEN Cardinality(B) + 1 ELSE Cardinality(B)
  <2> HIDE DEF A, B, f
  <2>1. Cardinality(A \ {1}) = IF 1 \in A THEN Cardinality(A) - 1 ELSE Cardinality(A)
    BY <1>1, FS_RemoveElement, Zenon
  <2> QED BY <1>1, <1>2, <1>5, <1>6, <2>1
<1> QED BY <1>7, Zenon DEF CountIn

\* A step that moves no command between the FIFO and the task.
LEMMA SameCounts ==
  ASSUME PktType, CountInv, UNCHANGED <<executed, wpkt, data, has_new_data, rpkt, cmdq, attempts>>,
         wpc' = "task" => wpc = "task",
         rpc' \in {"ack", "store"} => rpc \in {"ack", "store"}
  PROVE  CountInv'
<1>1. ASSUME NEW n
      PROVE  CountIn(executed, n) \in Nat /\ CountIn(cmdq, n) \in Nat
  BY CountType, Zenon DEF PktType
<1>2. \A n \in Pkt : attempts[n] \in Nat
  BY PipelineAssumption DEF PktType
<1> QED BY <1>1, <1>2 DEF CountInv, Begun, Arriving, One

\* A transmission is counted, whether or not there is a FIFO to take it.
LEMMA CtlWriteCounts ==
  ASSUME PktType, SendInv, CountInv, CtlWrite
  PROVE  CountInv'
<1>1. /\ last_send \in Pkt /\ cmdq \in Seq(Pkt) /\ cmdq' \in {cmdq, Append(cmdq, last_send)}
      /\ attempts' = [attempts EXCEPT ![last_send] = @ + 1]
      /\ UNCHANGED <<executed, wpc, wpkt, data, has_new_data, rpc, rpkt>>
  BY DEF CtlWrite, CtlUnchanged, worker, PktType, SendInv, Pkt
<1>2. ASSUME NEW n \in Pkt
      PROVE  /\ CountIn(cmdq', n) - CountIn(cmdq, n) <= attempts'[n] - attempts[n]
             /\ CountIn(executed, n) \in Nat /\ CountIn(cmdq, n) \in Nat
             /\ CountIn(cmdq', n) \in Nat /\ attempts[n] \in Nat /\ attempts'[n] \in Nat
  <2>1. /\ attempts[n] \in Nat
        /\ attempts'[n] = IF last_send = n THEN attempts[n] + 1 ELSE attempts[n]
    BY <1>1, PipelineAssumption DEF PktType
  <2>2. CountIn(executed, n) \in Nat /\ CountIn(cmdq, n) \in Nat
    BY CountType, Zenon DEF PktType
  <2>3. CASE cmdq' = cmdq
    BY <2>1, <2>2, <2>3
  <2>4. CASE cmdq' = Append(cmdq, last_send)
    <3>1. CountIn(cmdq', n) = IF last_send = n THEN CountIn(cmdq, n) + 1 ELSE CountIn(cmdq, n)
      BY <1>1, <2>4, CountAppend
    <3> QED BY <2>1, <2>2, <3>1
  <2> QED BY <1>1, <2>3, <2>4
<1>3. ASSUME NEW n
      PROVE  Begun(n)' = Begun(n) /\ (CountIn(executed, n) \in Nat => Begun(n) \in Nat)
  BY <1>1 DEF Begun, One
<1>4. ASSUME NEW n \in Pkt
      PROVE  Begun(n)' + Arriving(n)' <= attempts'[n]
  <2>1. Begun(n) + Arriving(n) <= attempts[n]
    BY DEF CountInv
  <2>2. Begun(n) \in Nat /\ Begun(n)' = Begun(n)
    BY <1>2, <1>3
  <2>3. /\ Arriving(n) \in Nat /\ Arriving(n)' \in Nat
        /\ Arriving(n)' - Arriving(n) <= attempts'[n] - attempts[n]
    <3>1. UNCHANGED <<rpc, rpkt>>
      BY <1>1
    <3> QED BY <1>2, <3>1 DEF Arriving, One
  <2>4. attempts[n] \in Nat /\ attempts'[n] \in Nat
    BY <1>2
  <2> QED BY <2>1, <2>2, <2>3, <2>4
<1> QED BY <1>3, <1>4 DEF CountInv

\* recv_data_thread takes a command out of the FIFO.
LEMMA RecvReadCounts ==
  ASSUME PktType, CountInv, RecvRead
  PROVE  CountInv'
<1>1. UNCHANGED <<executed, wpkt, data, has_new_data, attempts>>
  BY DEF RecvRead, WorkUnchanged
<1>2. wpc' = "task" <=> wpc = "task"
  BY DEF RecvRead, Wake
<1>3. CASE "cmd" \in fifo
  <2>1. /\ rpc = "read" /\ rpc' = "ack" /\ cmdq \in Seq(Pkt) /\ cmdq # <<>>
        /\ rpkt' = Head(cmdq) /\ cmdq' = Tail(cmdq)
    BY <1>3 DEF RecvRead, PktType
  <2>2. ASSUME NEW n \in Pkt
        PROVE  /\ CountIn(cmdq, n) = IF rpkt' = n THEN CountIn(cmdq', n) + 1 ELSE CountIn(cmdq', n)
               /\ CountIn(executed, n) \in Nat /\ CountIn(cmdq', n) \in Nat
               /\ attempts[n] \in Nat
    <3>1. cmdq' \in Seq(Pkt)
      BY <2>1, TailSeq
    <3>2. CountIn(executed, n) \in Nat /\ CountIn(cmdq', n) \in Nat
      BY <3>1, CountType, Zenon DEF PktType
    <3>3. attempts[n] \in Nat
      BY PipelineAssumption DEF PktType
    <3>4. CountIn(cmdq, n) = IF rpkt' = n THEN CountIn(cmdq', n) + 1 ELSE CountIn(cmdq', n)
      BY <2>1, CountTail
    <3> QED BY <3>2, <3>3, <3>4
  <2>3. ASSUME NEW n
        PROVE  Begun(n)' = Begun(n) /\ (CountIn(executed, n) \in Nat => Begun(n) \in Nat)
    BY <1>1, <1>2 DEF Begun, One
  <2>4. ASSUME NEW n \in Pkt
        PROVE  Arriving(n)' = Arriving(n)
    BY <2>1, <2>2 DEF Arriving, One
  <2> QED BY <1>1, <2>3, <2>4 DEF CountInv
<1>4. CASE "cmd" \notin fifo
  <2>1. UNCHANGED <<rpkt, cmdq>> /\ rpc' = "done"
    BY <1>4 DEF RecvRead
  <2> QED BY <1>1, <1>2, <2>1, SameCounts
<1> QED BY <1>3, <1>4

\* It goes into the slot, and what was there is gone; it leaves the slot for the task.
LEMMA SlotCounts ==
  ASSUME PktType, CountInv, RecvStore \/ WorkCheck
  PROVE  CountInv'
<1>1. UNCHANGED <<executed, cmdq, attempts>>
  BY DEF RecvStore, WorkCheck, WorkUnchanged, pipes
<1>2. ASSUME NEW n
      PROVE  CountIn(executed, n) \in Nat /\ CountIn(cmdq, n) \in Nat
  BY CountType, Zenon DEF PktType
<1>3. \A n \in Pkt : attempts[n] \in Nat
  BY PipelineAssumption DEF PktType
<1>4. CASE RecvStore
  <2>1. /\ rpc = "store" /\ rpkt \in Pkt /\ rpkt # Garbage
        /\ data' = rpkt /\ has_new_data' = TRUE /\ rpc' = "signal"
        /\ UNCHANGED <<wpc, wpkt, rpkt>>
    BY <1>4 DEF RecvStore, PktType, Pkt, Garbage
  <2> QED BY <1>1, <1>2, <1>3, <2>1 DEF CountInv, Begun, Arriving, One
<1>5. CASE WorkCheck /\ has_new_data
  <2>1. /\ wpc = "check" /\ wpkt' = data /\ has_new_data' = FALSE /\ wpc' = "task"
        /\ UNCHANGED <<rpc, rpkt, data>>
    BY <1>5 DEF WorkCheck
  <2> QED BY <1>1, <1>2, <1>3, <1>5, <2>1 DEF CountInv, Begun, Arriving, One
<1>6. CASE WorkCheck /\ ~has_new_data
  <2>1. /\ wpc' # "task" /\ UNCHANGED <<rpc, rpkt, wpkt, data, has_new_data>>
    BY <1>6 DEF WorkCheck
  <2> QED BY <1>1, <2>1, SameCounts
<1> QED BY <1>4, <1>5, <1>6

\* The task is run once.
LEMMA WorkTaskCounts ==
  ASSUME PktType, CountInv, WorkTask
  PROVE  CountInv'
<1>1. /\ wpc = "task" /\ wpc' = "check" /\ executed' = Append(executed, wpkt)
      /\ UNCHANGED <<cmdq, attempts, wpkt, data, has_new_data, rpc, rpkt>>
  BY DEF WorkTask, WorkUnchanged
<1>2. ASSUME NEW n
      PROVE  /\ CountIn(executed', n) = IF wpkt = n THEN CountIn(executed, n) + 1
                                                    ELSE CountIn(executed, n)
             /\ CountIn(executed, n) \in Nat /\ CountIn(cmdq, n) \in Nat
  <2>1. executed \in Seq(Slot) /\ wpkt \in Slot /\ cmdq \in Seq(Pkt)
    BY DEF PktType
  <2>2. CountIn(executed, n) \in Nat /\ CountIn(cmdq, n) \in Nat
    BY <2>1, CountType, Zenon
  <2>3. CountIn(executed', n) = IF wpkt = n THEN CountIn(executed, n) + 1 ELSE CountIn(executed, n)
    BY <1>1, <2>1, CountAppend
  <2> QED BY <2>2, <2>3
<1>3. ASSUME NEW n
      PROVE  Begun(n)' = Begun(n) /\ Arriving(n)' = Arriving(n)
  BY <1>1, <1>2 DEF Begun, Arriving, One
<1> QED BY <1>1, <1>3 DEF CountInv

LEMMA CountStep ==
  ASSUME PktType, SendInv, CountInv, [Next]_vars
  PROVE  CountInv'
<1>1. CASE CtlStart \/ CtlSleep \/ CtlNext \/ CtlTimeout \/ CtlWait \/ CtlSettle \/ AckRead
           \/ LogRead \/ MainExit \/ UNCHANGED vars
  <2>1. UNCHANGED <<executed, wpc, wpkt, data, has_new_data, rpc, rpkt, cmdq, attempts>>
    BY <1>1, Zenon DEF CtlStart, CtlSleep, CtlNext, CtlTimeout, CtlWait, CtlSettle, AckRead,
       LogRead, MainExit, CtlUnchanged, vars, pipes, worker, history
  <2> QED BY <2>1, SameCounts
<1>2. CASE RecvAck \/ RecvSignal \/ WorkStart \/ Die
  <2>1. UNCHANGED <<executed, wpkt, data, has_new_data, rpkt, cmdq, attempts>>
    BY <1>2, Zenon DEF RecvAck, RecvSignal, WorkStart, Die, WorkUnchanged, pipes
  <2>2. (wpc' = "task" => wpc = "task") /\ (rpc' \in {"ack", "store"} => rpc \in {"ack", "store"})
    BY <1>2 DEF RecvAck, RecvSignal, WorkStart, Die, Wake
  <2> QED BY <2>1, <2>2, SameCounts
<1> QED
  BY <1>1, <1>2, CtlWriteCounts, RecvReadCounts, SlotCounts, WorkTaskCounts DEF Next

LEMMA InitCounts ==
  ASSUME Init
  PROVE  CountInv
<1>1. ASSUME NEW n
      PROVE  CountIn(<<>>, n) = 0
  <2>1. {i \in DOMAIN << >> : << >>[i] = n} = {}
    OBVIOUS
  <2> QED BY <2>1, FS_EmptySet DEF CountIn
<1>2. \A n \in Pkt : n # Garbage
  BY PipelineAssumption DEF Pkt, Garbage
<1> QED BY <1>1, <1>2 DEF Init, CountInv, Begun, Arriving, One
-----------------------------------------------------------------------------
(* The theorems *)

\* What the two threads of the controller, the two of the worker, the logger and main keep:
\* the inductive invariant.
THEOREM Invariance == Spec => []IndInv
<1>1. Init => IndInv
  BY InitAckInd, InitCounts DEF IndInv
<1>2. IndInv /\ [Next]_vars => IndInv'
  BY AckIndStep, CountStep DEF IndInv, AckIndInv
<1> QED BY <1>1, <1>2, PTL DEF Spec

\* send_cmd leaves a command, from the second on, only when recv_data_thread acknowledged it or
\* after RESEND_NUM transmissions: for every capacity of the FIFOs and any number of commands.
THEOREM LeftOnlyWhenAcked == Spec => []AckBeforeNext
<1>1. IndInv => AckBeforeNext
  BY DEF IndInv, AckIndInv
<1> QED BY <1>1, Invariance, PTL

\* worker_thread runs the commands in the order in which send_cmd numbered them, none more
\* often than it was transmitted, and what the slot held at the start at most once and first.
THEOREM RunAsSent == Spec => []ExecutedAsSent
<1>1. IndInv => ExecutedAsSent
  <2> SUFFICES ASSUME IndInv
               PROVE  ExecutedAsSent
    OBVIOUS
  <2>1. ASSUME NEW n
        PROVE  /\ Count(n) = CountIn(executed, n)
               /\ CountIn(executed, n) \in Nat /\ CountIn(cmdq, n) \in Nat
    BY CountType, Zenon DEF IndInv, AckIndInv, PktType, Count, CountIn
  <2>2. \A n \in Pkt : attempts[n] \in Nat
    BY PipelineAssumption DEF IndInv, AckIndInv, PktType
  <2>3. \A n \in Pkt : Count(n) <= attempts[n]
    BY <2>1, <2>2 DEF IndInv, CountInv, Begun, Arriving, One
  <2>4. Count(Garbage) <= 1
    BY <2>1 DEF IndInv, CountInv, Begun, Arriving, One
  <2> QED BY <2>3, <2>4 DEF IndInv, OrderInv, ExecutedAsSent
<1> QED BY <1>1, Invariance, PTL
=============================================================================
