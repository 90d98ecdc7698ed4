--------------------------- MODULE RequestReader ----------------------------
(***************************************************************************)
(* How the gateway reads the frames of one TLS connection: an event of the  *)
(* level-triggered epoll, the token bucket of the rate limiter, and the     *)
(* state machine READ_HEADER / READ_PAYLOAD of client_read_message, which   *)
(* survives between events.  The client cuts its stream of frames into TLS  *)
(* records as it likes.  A byte is its position in the stream.  What becomes*)
(* of a task is module Gateway.                                             *)
(***************************************************************************)
EXTENDS Naturals, Sequences

CONSTANTS HEADER_SIZE,
          BodySize,       \* sizes of payload with CRC
          NFrame,         \* bound: frames of the client
          MaxRecord,      \* bound: bytes of a TLS record
          MaxWire,        \* bound: records in the socket's buffer
          RATE_LIMIT_CAP

Frame == 1..NFrame

VARIABLES
  kind,    \* of each frame: "good", "header" (its header is bad), "crc"
  body,    \* size of each frame's body
  sent,    \* bytes the client has sent
  closed,  \* it has closed the connection
  wire,    \* the socket: the records received and not read
  ssl,     \* bytes of the current record that SSL_read has not handed out
  alive,
  stage,   \* "READ_HEADER" or "READ_PAYLOAD"
  rx,      \* data_receive up to rx_len
  tokens,  \* number_request_available
  pc,      \* the main thread: "epoll", or "read" in client_read_message
  task,    \* history: what build_task got, as [header, payload]
  error,   \* history: an error packet was queued
  torn,    \* history: bytes were discarded inside a frame that was being read
  lost,    \* history: bytes were discarded
  packed   \* history: two frames ended in one record

client == <<kind, body, sent, closed, packed>>
vars == <<client, wire, ssl, alive, stage, rx, tokens, pc, task, error, torn, lost>>

\* The bytes of the stream that belong to a frame.
first[f \in Frame] == IF f = 1 THEN 1 ELSE first[f - 1] + HEADER_SIZE + body[f - 1]
last(f) == first[f] + HEADER_SIZE + body[f] - 1
Bytes(from, n) == [i \in 1..n |-> from + i - 1]

Init ==
  /\ kind \in [Frame -> {"good", "header", "crc"}] /\ body \in [Frame -> BodySize]
  /\ sent = 0 /\ closed = FALSE /\ packed = FALSE
  /\ wire = <<>> /\ ssl = <<>> /\ alive = TRUE
  /\ stage = "READ_HEADER" /\ rx = <<>> /\ tokens = RATE_LIMIT_CAP
  /\ pc = "epoll" /\ task = <<>> /\ error = FALSE /\ torn = FALSE /\ lost = FALSE
-----------------------------------------------------------------------------
(* The client, and time *)

Send(n) ==
  /\ ~closed /\ sent + n <= last(NFrame) /\ Len(wire) < MaxWire
  /\ sent' = sent + n
  /\ wire' = Append(wire, Bytes(sent + 1, n))
  /\ packed' = (packed \/ \E f, g \in Frame : f < g /\ {last(f), last(g)} \subseteq sent + 1 .. sent + n)
  /\ UNCHANGED <<kind, body, closed, ssl, alive, stage, rx, tokens, pc, task, error, torn, lost>>

Close ==
  /\ ~closed
  /\ closed' = TRUE
  /\ UNCHANGED <<kind, body, sent, packed, wire, ssl, alive, stage, rx, tokens, pc, task, error, torn, lost>>

\* request_allow() adds what the time since the last call is worth, up to the
\* capacity.
Refill ==
  /\ tokens < RATE_LIMIT_CAP
  /\ tokens' = tokens + 1
  /\ UNCHANGED <<client, wire, ssl, alive, stage, rx, pc, task, error, torn, lost>>
-----------------------------------------------------------------------------
(* handle_request_client *)

Available == ssl # <<>> \/ wire # <<>>
Readable == alive /\ pc = "epoll" /\ (wire # <<>> \/ closed)

\* request_allow() takes a token.
Allow ==
  /\ Readable /\ tokens > 0
  /\ tokens' = tokens - 1
  /\ pc' = "read"
  /\ UNCHANGED <<client, wire, ssl, alive, stage, rx, task, error, torn, lost>>

\* Mutant: recv() on the socket instead of SSL_read.
RefuseSocket ==
  /\ Readable /\ tokens = 0
  /\ wire' = <<>>
  /\ lost' = (lost \/ Available)
  /\ torn' = (torn \/ (rx # <<>> /\ Available))
  /\ UNCHANGED <<client, ssl, alive, stage, rx, tokens, pc, task, error>>

\* It has none: all that can be read is thrown away; stage and rx_len stay.
Refuse ==
  /\ Readable /\ tokens = 0
  /\ wire' = <<>> /\ ssl' = <<>>
  /\ lost' = (lost \/ Available)
  /\ torn' = (torn \/ (rx # <<>> /\ Available))
  /\ UNCHANGED <<client, alive, stage, rx, tokens, pc, task, error>>
-----------------------------------------------------------------------------
(* client_read_message *)

\* check_header(): the bytes are the header of this frame, and it is good.
HeaderOf(r, f) == kind[f] # "header" /\ SubSeq(r, 1, HEADER_SIZE) = Bytes(first[f], HEADER_SIZE)

\* The CRC, which covers the payload only, matches.
PayloadOf(r, f) ==
  kind[f] # "crc" /\ SubSeq(r, HEADER_SIZE + 1, Len(r)) = Bytes(first[f] + HEADER_SIZE, body[f])

Needed ==
  IF stage = "READ_HEADER" THEN HEADER_SIZE
  ELSE HEADER_SIZE + body[CHOOSE f \in Frame : HeaderOf(rx, f)]

\* SSL_read: what is left of the current record, else the next one, but no more
\* than the stage needs.  r is data_receive afterwards.
SSL_read(r) ==
  LET avail == IF ssl # <<>> THEN ssl ELSE Head(wire)
      want == Needed - Len(rx)
      n == IF want < Len(avail) THEN want ELSE Len(avail)
  IN  /\ Available
      /\ ssl' = SubSeq(avail, n + 1, Len(avail))
      /\ wire' = IF ssl # <<>> THEN wire ELSE Tail(wire)
      /\ r = rx \o SubSeq(avail, 1, n)

\* The reader goes back to READ_HEADER and returns to the loop of main_thread.
Reset == stage' = "READ_HEADER" /\ rx' = <<>> /\ pc' = "epoll"

\* One round of the loop, when SSL_read gave r.
Read(r) ==
  /\ pc = "read" /\ SSL_read(r)
  /\ \/ /\ Len(r) < Needed                                    \* continue
        /\ rx' = r /\ UNCHANGED <<stage, pc, task, error>>
     \/ /\ Len(r) >= Needed /\ stage = "READ_HEADER"          \* check_header
        /\ \/ /\ \E f \in Frame : HeaderOf(r, f)
              /\ stage' = "READ_PAYLOAD" /\ rx' = r /\ UNCHANGED <<pc, task, error>>
           \/ /\ ~ \E f \in Frame : HeaderOf(r, f)
              /\ error' = TRUE /\ Reset /\ task' = task
     \/ /\ Len(r) >= Needed /\ stage = "READ_PAYLOAD"         \* the CRC
        /\ \/ \E f, g \in Frame :
                /\ HeaderOf(r, f) /\ PayloadOf(r, g)
                /\ task' = Append(task, [header |-> f, payload |-> g]) /\ error' = error
           \/ /\ ~ \E g \in Frame : PayloadOf(r, g)
              /\ error' = TRUE /\ task' = task
        /\ Reset
  /\ UNCHANGED <<client, alive, tokens, torn, lost>>

\* Mutant: a frame that has come in part is begun again.
AgainReset ==
  /\ pc = "read" /\ ~Available /\ ~closed
  /\ Reset
  /\ UNCHANGED <<client, wire, ssl, alive, tokens, task, error, torn, lost>>

\* EAGAIN: the function returns 3.
Again ==
  /\ pc = "read" /\ ~Available /\ ~closed
  /\ pc' = "epoll"
  /\ UNCHANGED <<client, wire, ssl, alive, stage, rx, tokens, task, error, torn, lost>>

\* SSL_read returns 0: the client is closed.
Eof ==
  /\ pc = "read" /\ ~Available /\ closed
  /\ alive' = FALSE /\ pc' = "epoll"
  /\ UNCHANGED <<client, wire, ssl, stage, rx, tokens, task, error, torn, lost>>

\* EPOLLHUP, EPOLLERR, or reap_client() after IDLE_TIMEOUT_SEC without a frame.
CloseClient ==
  /\ alive /\ pc = "epoll"
  /\ alive' = FALSE
  /\ UNCHANGED <<client, wire, ssl, stage, rx, tokens, pc, task, error, torn, lost>>

\* What data_receive may hold after SSL_read.
Rx == IF ~Available THEN {}
      ELSE LET avail == IF ssl # <<>> THEN ssl ELSE Head(wire)
           IN  {rx \o SubSeq(avail, 1, n) : n \in 1..Len(avail)}
Loop == Allow \/ Refuse \/ (\E r \in Rx : Read(r)) \/ Again \/ Eof

\* The connection has ended.
Ended == ~alive /\ UNCHANGED vars

Next == (\E n \in 1..MaxRecord : Send(n)) \/ Close \/ Refill \/ Loop \/ CloseClient \/ Ended

Spec == Init /\ [][Next]_vars

\* The main thread comes back to epoll_wait and finds the socket readable; the
\* client need not send anything more.
FairSpec == Spec /\ WF_vars(Loop)
-----------------------------------------------------------------------------
\* Nothing bad was sent and nothing thrown away.
Clean == ~lost /\ \A f \in Frame : first[f] <= sent => kind[f] = "good"

\* The bytes that have arrived and were not read.
Unread == {b \in 1..sent : \E s \in {ssl} \cup {wire[i] : i \in DOMAIN wire} :
                             \E i \in DOMAIN s : s[i] = b}

Handled(f) == \E i \in DOMAIN task : task[i].header = f

(***************************************************************************)
(* However the stream is cut into records: while nothing bad was sent and   *)
(* nothing was refused the tasks are the frames that were read to the end,  *)
(* in order, and no error packet is sent.  In any case a task never has the *)
(* header of one frame and the payload of another, also after bad frames,   *)
(* whose rest is read as if it were headers; unless request_allow refused   *)
(* an event in the middle of a frame: the CRC covers the payload only.      *)
(***************************************************************************)
TasksAreFrames ==
  /\ Clean => /\ ~error
              /\ \A i \in DOMAIN task : task[i] = [header |-> i, payload |-> i]
              /\ \A f \in Frame : f <= Len(task) <=> last(f) \in 1..sent \ Unread
  /\ torn \/ \A i \in DOMAIN task : task[i].header = task[i].payload

(***************************************************************************)
(* A frame that has arrived whole is handled, or the connection ends;       *)
(* unless a frame was bad, an event was refused, or two frames ended in one *)
(* record: client_read_message returns after one frame, and epoll does not  *)
(* see what OpenSSL holds.                                                  *)
(***************************************************************************)
FrameTaken ==
  \A f \in Frame : (last(f) <= sent) ~> (Handled(f) \/ ~alive \/ ~Clean \/ packed)
=============================================================================
