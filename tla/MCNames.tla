------------------------------- MODULE MCNames -------------------------------
(***************************************************************************)
(* Three programs whose processes meet through objects that have names and  *)
(* outlive them, for TLC: the file of safe-config-tool (SafeConfig), the    *)
(* System V objects of the sensor hub (SensorHubStart) and the POSIX        *)
(* objects of gateway-core-posix (PosixStart).  They have no variable in    *)
(* common; a behaviour is one of the module that focus names, the others    *)
(* are at rest.                                                             *)
(*                                                                         *)
(* safe-config-tool has a file with two parameters; w1 changes the second,  *)
(* w2 adds a third.                                                         *)
(***************************************************************************)
EXTENDS PosixStart

CONSTANTS Writer, Reader, BUFFER_LINES, Inode, MaxCrash, MaxFail, NULL,  \* of SafeConfig
          w1, w2,
          Proc, Hub, Monitor, Resetter, MaxId                           \* of SensorHubStart

ASSUME MCNamesAssumption ==
  /\ Writer = {w1, w2} /\ Writer \cap Reader = {}
  /\ NULL \notin Inode /\ BUFFER_LINES \in Nat \ {0}
  /\ MaxId \in Nat \ {0}
  /\ NULL \notin Proc /\ Hub \subseteq Proc /\ Monitor \subseteq Proc /\ Resetter \subseteq Proc
  /\ "controller" \in Program

L(p, v) == [param |-> p, value |-> v]
TwoLines == <<L("a", 0), L("b", 0)>>
Changes == [w \in Writer |-> IF w = w1 THEN L("b", 1) ELSE L("c", 1)]

VARIABLES
  focus,
  name, disk, content, dirty, lock, toolPc, fd, tmp_fd, buf, pos, success, versions, mishap,
  crashes, fails,
  shmkey, semkey, segment, sem, hubPc, old, myshm, mysem, incident

toolVars == <<name, disk, content, dirty, lock, toolPc, fd, tmp_fd, buf, pos, success, versions,
              mishap, crashes, fails>>
hubVars == <<shmkey, semkey, segment, sem, hubPc, old, myshm, mysem, incident>>
allVars == <<focus, toolVars, hubVars, vars>>

Tool == INSTANCE SafeConfig WITH pc <- toolPc, UpdateOf <- Changes, InitLines <- TwoLines
Keys == INSTANCE SensorHubStart WITH pc <- hubPc, shm <- segment

MCInit ==
  /\ focus \in {"config", "hub", "posix"}
  /\ Tool!Init /\ Keys!Init /\ Init

MCNext ==
  /\ UNCHANGED focus
  /\ \/ focus = "config" /\ Tool!Next /\ UNCHANGED <<hubVars, vars>>
     \/ focus = "hub" /\ Keys!Next /\ UNCHANGED <<toolVars, vars>>
     \/ focus = "posix" /\ Next /\ UNCHANGED <<toolVars, hubVars>>

MCSpec == MCInit /\ [][MCNext]_allVars

\* The semaphore excludes, also after crashes (stated in module SensorHubStart for get_sem,
\* init_shmem, get_data and storage_data).
MutualExclusion == Keys!MutualExclusion

\* A process that starts alone comes up (stated in module SensorHubStart for get_id_all,
\* attach_share_mem and init_shmem).
StartSucceeds == Keys!StartSucceeds


\* A write that returned 0 is in the file (stated in module SafeConfig for
\* write_param_config).
WritesApplied == Tool!WritesApplied
=============================================================================
