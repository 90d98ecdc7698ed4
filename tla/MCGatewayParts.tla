--------------------------- MODULE MCGatewayParts ---------------------------
(***************************************************************************)
(* Three parts of the gateway daemon that module Gateway uses in abstract   *)
(* form, for TLC: the task queue, the response queue and the reader of      *)
(* requests.  They have no variable in common; a behaviour is one of the    *)
(* part that focus names, the others are at rest.                           *)
(***************************************************************************)
EXTENDS TaskQueue

CONSTANTS HEADER_SIZE, BodySize, NFrame, MaxRecord, MaxWire, RATE_LIMIT_CAP   \* of RequestReader

ASSUME MCGatewayPartsAssumption ==
  /\ HEADER_SIZE \in Nat \ {0} /\ BodySize \subseteq Nat \ {0} /\ NFrame \in Nat \ {0}
  /\ MaxRecord \in Nat \ {0} /\ MaxWire \in Nat \ {0} /\ RATE_LIMIT_CAP \in Nat \ {0}

VARIABLES
  focus,
  rhead, rtail, rsize, rnext, rheap, rp,
  kind, body, sent, closed, wire, ssl, alive, stage, rx, tokens, readPc,
  task, error, torn, lost, packed

responseVars == <<rhead, rtail, rsize, rnext, rheap, rp>>
readerVars == <<kind, body, sent, closed, wire, ssl, alive, stage, rx, tokens, readPc,
                task, error, torn, lost, packed>>
allVars == <<focus, vars, responseVars, readerVars>>

Response == INSTANCE ResponseQueue WITH
              head <- rhead, tail <- rtail, size <- rsize, next <- rnext, heap <- rheap
Reader == INSTANCE RequestReader WITH pc <- readPc

\* What a part chooses at the start is fixed while it is at rest.
MCInit ==
  /\ focus \in {"tasks", "responses", "reader"}
  /\ Init /\ Response!Init /\ Reader!Init
  /\ focus = "responses" \/ \A c \in Cell : rnext[c] = NULL
  /\ focus = "reader" \/ \A f \in DOMAIN kind : kind[f] = "good" /\ \A n \in BodySize : body[f] <= n

MCNext ==
  /\ UNCHANGED focus
  /\ \/ focus = "tasks" /\ Next /\ UNCHANGED <<responseVars, readerVars>>
     \/ focus = "responses" /\ Response!Next /\ UNCHANGED <<vars, readerVars>>
     \/ focus = "reader" /\ Reader!Next /\ UNCHANGED <<vars, responseVars>>

\* The fairness of RequestReader; the queues claim none.
MCSpec ==
  /\ MCInit /\ [][MCNext]_allVars
  /\ WF_readerVars(focus = "reader" /\ Reader!Loop)

\* The response queue is a bounded FIFO queue (stated in module ResponseQueue for
\* response_queue_push and response_queue_pop).
ResponsesAreFifo == Response!ImplementsFifo

\* The tasks are the frames of the client (stated in module RequestReader for
\* handle_request_client and client_read_message).
TasksAreFrames == Reader!TasksAreFrames

\* A whole frame is handled (stated in module RequestReader for client_read_message).
FrameTaken == Reader!FrameTaken
=============================================================================
