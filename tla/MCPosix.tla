------------------------------- MODULE MCPosix ------------------------------
(***************************************************************************)
(* gateway-core-posix at work, for TLC: the threads and their shutdown      *)
(* (PosixGateway) and the ring buffer (PosixRing).  They have no variable   *)
(* in common; a behaviour is one of the module that focus names, the other  *)
(* is at rest.                                                              *)
(***************************************************************************)
EXTENDS PosixGateway

CONSTANTS Actor, Value, capacity, MaxDrop, NULL   \* of PosixRing

ASSUME MCPosixAssumption == capacity \in Nat \ {0} /\ MaxDrop \in Nat

VARIABLES
  focus,
  data, read_index, write_index, dropped, items, spaces, mutex, pc, val, alive

Ring == INSTANCE PosixRing

ringVars == <<data, read_index, write_index, dropped, items, spaces, mutex, pc, val, alive>>
allVars == <<focus, vars, ringVars>>

MCInit == focus \in {"gateway", "ring"} /\ Init /\ Ring!Init

MCNext ==
  /\ UNCHANGED focus
  /\ \/ focus = "gateway" /\ Next /\ UNCHANGED ringVars
     \/ focus = "ring" /\ Ring!Next /\ UNCHANGED vars

\* The fairness of PosixGateway; PosixRing claims none.
MCSpec ==
  /\ MCInit /\ [][MCNext]_allVars
  /\ \A p \in Program :
       /\ WF_vars(focus = "gateway" /\ SigStep(p))
       /\ WF_vars(focus = "gateway" /\ WorkStep(p))
       /\ WF_vars(focus = "gateway" /\ MainJoin(p))

\* The ring buffer is a bounded FIFO queue (stated in module PosixRing for get_data and
\* storage_data).
RingIsFifo == Ring!ImplementsFifo
=============================================================================
