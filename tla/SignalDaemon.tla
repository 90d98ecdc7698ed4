---------------------------- MODULE SignalDaemon ----------------------------
(***************************************************************************)
(* The daemon of signal-aware-multithreaded-daemon: sig_thread turns        *)
(* signals into jobs of a bounded queue, worker threads process them, and   *)
(* a thread on inotify sends SIGHUP when the configuration file changes.    *)
(*                                                                         *)
(* daemon_data.mutex protects the queue only and is held for one step.      *)
(* state_mutex is held over a reload, which reads the parameters of the     *)
(* file one by one; a parameter is the version of the file it comes from.   *)
(***************************************************************************)
EXTENDS Naturals, Sequences, FiniteSets

CONSTANTS Worker,      \* the MAX_WORKER worker threads
          QUEUE_CAP,   \* capacity of the queue
          Param,       \* the parameters of the file
          MaxSignal,   \* bound: signals sent from outside
          MaxReplace,  \* bound: writers that replace the file, as mv does
          MaxLocked,   \* bound: writers that hold an exclusive flock
          NULL

Default == 0                        \* the value get_file_config() sets first
Version == 1 .. (1 + MaxReplace + MaxLocked)

\* convert_signal_to_string(): the job of a signal.
JobOf == [SIGHUP |-> "RELOAD_CONFIG", SIGINT |-> "SHUTDOWN",
          SIGUSR1 |-> "DO_WORK", SIGTERM |-> "SHUTDOWN"]
Signal == DOMAIN JobOf
\* The kernel delivers the pending signal with the lowest number.
Number == [SIGHUP |-> 1, SIGINT |-> 2, SIGUSR1 |-> 10, SIGTERM |-> 15]

\* struct workqueue: a job is its type.
Job == {"RELOAD_CONFIG", "SHUTDOWN", "DO_WORK"}

VARIABLES
  pending,        \* signals pending for the process
  sig,            \* sig_thread: "wait", "enqueue", "full", "flag", "broadcast", "exit"
  held,           \* the signal it handles
  queue,          \* daemon_data
  pc, job,        \* worker_thread
  owner,          \* the worker that holds state_mutex over a reload
  toread,         \* the parameters get_file_config() did not read yet
  shutting_down,
  watched,        \* the directory is watched
  event,          \* an inotify event of the file is unread
  inot,           \* inotify_handler: "run" or "exit"
  main,           \* "read", "watch", "create", "join", "joinInotify", "exit"
  is_running,     \* notify.is_running
  file, locked,   \* version of the file, and whether a writer locks it
  config,         \* daemon_config
  nsig, nreplace, nlocked

workVars == <<pc, job, owner, toread, config>>
sigVars == <<sig, held>>
inotVars == <<watched, inot, is_running>>
fileVars == <<file, locked, nreplace, nlocked>>
vars == <<pending, sigVars, queue, workVars, shutting_down, event, inotVars,
          main, fileVars, nsig>>

TypeOK ==
  /\ pending \in SUBSET Signal
  /\ sig \in {"wait", "enqueue", "full", "flag", "broadcast", "exit"}
  /\ held \in Signal \cup {NULL}
  /\ queue \in Seq(Job) /\ Len(queue) <= QUEUE_CAP
  /\ pc \in [Worker -> {"dequeue", "wait", "test", "run", "exit"}]
  /\ job \in [Worker -> Job \cup {NULL}]
  /\ owner \in Worker \cup {NULL}
  /\ toread \in SUBSET Param
  /\ shutting_down \in BOOLEAN /\ watched \in BOOLEAN /\ event \in BOOLEAN
  /\ inot \in {"run", "exit"} /\ is_running \in BOOLEAN
  /\ main \in {"read", "watch", "create", "join", "joinInotify", "exit"}
  /\ file \in Version /\ locked \in BOOLEAN
  /\ config \in [Param -> Version \cup {Default}]
  /\ nsig \in 0..MaxSignal /\ nreplace \in 0..MaxReplace /\ nlocked \in 0..MaxLocked

Init ==
  /\ pending = {} /\ sig = "wait" /\ held = NULL
  /\ queue = <<>>
  /\ pc = [w \in Worker |-> "dequeue"] /\ job = [w \in Worker |-> NULL]
  /\ owner = NULL /\ toread = Param
  /\ shutting_down = FALSE /\ watched = FALSE /\ event = FALSE
  /\ inot = "run" /\ is_running = TRUE
  /\ main = "read"
  /\ file = 1 /\ locked = FALSE
  /\ config = [p \in Param |-> Default]
  /\ nsig = 0 /\ nreplace = 0 /\ nlocked = 0

\* The threads run once main has created them.
Started == main \in {"join", "joinInotify", "exit"}
\* state_mutex is free.
Free == owner = NULL
\* read_param_config(): flock(LOCK_SH | LOCK_NB) fails while a writer holds the lock.
ReadParam(p, old) == IF locked THEN old ELSE file
-----------------------------------------------------------------------------
(* sig_thread *)

\* sigwaitinfo()
SigWait ==
  /\ Started /\ sig = "wait"
  /\ \E s \in pending :
       /\ \A t \in pending : Number[s] <= Number[t]
       /\ pending' = pending \ {s}
       /\ held' = s
  /\ sig' = "enqueue"
  /\ UNCHANGED <<queue, workVars, shutting_down, event, inotVars, main, fileVars, nsig>>

\* enqueue_work(): the queue is full.
EnqueueFull ==
  /\ sig = "enqueue" /\ Len(queue) = QUEUE_CAP
  /\ sig' = "full"
  /\ UNCHANGED <<pending, held, queue, workVars, shutting_down, event, inotVars,
                 main, fileVars, nsig>>

\* pthread_cond_signal(not_empty)
SignalNotEmpty ==
  IF \E w \in Worker : pc[w] = "wait"
    THEN \E w \in Worker : pc[w] = "wait" /\ pc' = [pc EXCEPT ![w] = "dequeue"]
    ELSE pc' = pc

\* enqueue_work(): a job is linked and not_empty signalled.
EnqueueWork ==
  /\ sig = "enqueue" /\ Len(queue) < QUEUE_CAP
  /\ queue' = Append(queue, JobOf[held])
  /\ SignalNotEmpty
  /\ sig' = IF JobOf[held] = "SHUTDOWN" THEN "flag" ELSE "wait"
  /\ held' = NULL
  /\ UNCHANGED <<pending, job, owner, toread, config, shutting_down,
                 event, inotVars, main, fileVars, nsig>>

\* shutting_down is set under state_mutex.
SetFlag ==
  /\ sig = "flag" /\ Free
  /\ shutting_down' = TRUE
  /\ sig' = "broadcast"
  /\ UNCHANGED <<pending, held, queue, workVars, event, inotVars, main, fileVars, nsig>>

\* Mutant: sig_thread ends without the broadcast.
BroadcastNot ==
  /\ sig = "broadcast"
  /\ sig' = "exit"
  /\ UNCHANGED <<pending, held, queue, workVars, shutting_down, event, inotVars,
                 main, fileVars, nsig>>

\* pthread_cond_broadcast(not_empty) under the queue's mutex; sig_thread ends.
Broadcast ==
  /\ sig = "broadcast"
  /\ sig' = "exit"
  /\ pc' = [w \in Worker |-> IF pc[w] = "wait" THEN "dequeue" ELSE pc[w]]
  /\ UNCHANGED <<pending, held, queue, job, owner, toread, config,
                 shutting_down, event, inotVars, main, fileVars, nsig>>

SigStep == SigWait \/ EnqueueFull \/ EnqueueWork \/ SetFlag \/ Broadcast
-----------------------------------------------------------------------------
(* worker_thread *)

WorkerUnchanged ==
  UNCHANGED <<pending, held, shutting_down, event, inotVars, main, fileVars, nsig>>

\* dequeueu_work() waits on not_empty.
DequeueWait(w) ==
  /\ Started /\ pc[w] = "dequeue" /\ queue = <<>> /\ ~shutting_down
  /\ pc' = [pc EXCEPT ![w] = "wait"]
  /\ UNCHANGED <<sig, queue, job, owner, toread, config>> /\ WorkerUnchanged

\* dequeueu_work() returns -1, and shutting_down ends the thread.
DequeueNone(w) ==
  /\ Started /\ pc[w] = "dequeue" /\ queue = <<>> /\ shutting_down /\ Free
  /\ pc' = [pc EXCEPT ![w] = "exit"]
  /\ UNCHANGED <<sig, queue, job, owner, toread, config>> /\ WorkerUnchanged

\* dequeueu_work() returns a job and signals not_full.
Dequeue(w) ==
  /\ Started /\ pc[w] = "dequeue" /\ queue # <<>>
  /\ job' = [job EXCEPT ![w] = Head(queue)]
  /\ queue' = Tail(queue)
  /\ pc' = [pc EXCEPT ![w] = "test"]
  /\ sig' = IF sig = "full" THEN "enqueue" ELSE sig
  /\ UNCHANGED <<owner, toread, config>> /\ WorkerUnchanged

\* shutting_down is read under state_mutex; when it is set the thread ends.
TestShutdown(w) ==
  /\ pc[w] = "test" /\ Free
  /\ pc' = [pc EXCEPT ![w] = IF shutting_down THEN "exit" ELSE "run"]
  /\ UNCHANGED <<sig, queue, job, owner, toread, config>> /\ WorkerUnchanged

\* The job of a worker was processed; the worker goes on in its loop.
JobDone(w) ==
  /\ job' = [job EXCEPT ![w] = NULL]

\* JOB_DO_WORK: work_done_count is incremented under state_mutex.
DoWork(w) ==
  /\ pc[w] = "run" /\ job[w] = "DO_WORK" /\ Free
  /\ JobDone(w)
  /\ pc' = [pc EXCEPT ![w] = "dequeue"]
  /\ UNCHANGED <<sig, queue, owner, toread, config>> /\ WorkerUnchanged

\* JOB_SHUTDOWN: the thread ends.
DoShutdown(w) ==
  /\ pc[w] = "run" /\ job[w] = "SHUTDOWN"
  /\ JobDone(w)
  /\ pc' = [pc EXCEPT ![w] = "exit"]
  /\ UNCHANGED <<sig, queue, owner, toread, config>> /\ WorkerUnchanged

\* JOB_RELOAD_CONFIG: get_file_config() under state_mutex sets the defaults ...
BeginReload(w) ==
  /\ pc[w] = "run" /\ job[w] = "RELOAD_CONFIG" /\ Free
  /\ owner' = w
  /\ toread' = Param
  /\ config' = [p \in Param |-> Default]
  /\ UNCHANGED <<sig, queue, pc, job>> /\ WorkerUnchanged

\* ... opens the file for each parameter ...
ReloadParam(w) ==
  /\ owner = w
  /\ \E p \in toread :
       /\ config' = [config EXCEPT ![p] = ReadParam(p, @)]
       /\ toread' = toread \ {p}
  /\ UNCHANGED <<sig, queue, pc, job, owner>> /\ WorkerUnchanged

\* ... and releases state_mutex.
EndReload(w) ==
  /\ owner = w /\ toread = {}
  /\ owner' = NULL
  /\ JobDone(w)
  /\ pc' = [pc EXCEPT ![w] = "dequeue"]
  /\ UNCHANGED <<sig, queue, toread, config>> /\ WorkerUnchanged

WorkerStep(w) ==
  \/ DequeueWait(w) \/ DequeueNone(w) \/ Dequeue(w) \/ TestShutdown(w)
  \/ DoWork(w) \/ DoShutdown(w) \/ BeginReload(w) \/ ReloadParam(w) \/ EndReload(w)
-----------------------------------------------------------------------------
(* inotify_handler *)

InotUnchanged ==
  UNCHANGED <<sigVars, queue, workVars, shutting_down, watched, main, fileVars, nsig>>

\* Mutant: watch_handler() that does not send SIGHUP.
WatchOnly ==
  /\ Started /\ inot = "run" /\ is_running /\ event /\ Free
  /\ event' = FALSE
  /\ UNCHANGED <<pending, inot, is_running>> /\ InotUnchanged

\* read() of the events, watch_handler(): SIGHUP unless shutting_down.
WatchHandler ==
  /\ Started /\ inot = "run" /\ is_running /\ event /\ Free
  /\ event' = FALSE
  /\ pending' = IF shutting_down THEN pending ELSE pending \cup {"SIGHUP"}
  /\ UNCHANGED <<inot, is_running>> /\ InotUnchanged

\* select() times out and shutting_down is set, or is_running was reset.
InotifyEnd ==
  /\ Started /\ inot = "run"
  /\ \/ ~is_running /\ UNCHANGED is_running
     \/ is_running /\ ~event /\ shutting_down /\ Free /\ is_running' = FALSE
  /\ inot' = "exit"
  /\ UNCHANGED <<pending, event>> /\ InotUnchanged

InotStep == WatchHandler \/ InotifyEnd
-----------------------------------------------------------------------------
(* main *)

MainUnchanged ==
  UNCHANGED <<pending, sigVars, queue, pc, job, owner,
              shutting_down, event, inot, fileVars, nsig>>

\* get_file_config(), before the directory is watched.
MainRead ==
  /\ main = "read"
  /\ \E p \in toread :
       /\ config' = [config EXCEPT ![p] = ReadParam(p, @)]
       /\ toread' = toread \ {p}
  /\ main' = IF toread' = {} THEN "watch" ELSE "read"
  /\ UNCHANGED <<watched, is_running>> /\ MainUnchanged

\* watch_config_dir()
MainWatch ==
  /\ main = "watch"
  /\ watched' = TRUE
  /\ main' = "create"
  /\ UNCHANGED <<config, toread, is_running>> /\ MainUnchanged

\* thread_create() and the inotify thread
MainCreate ==
  /\ main = "create"
  /\ main' = "join"
  /\ UNCHANGED <<config, toread, watched, is_running>> /\ MainUnchanged

\* die_thread() joined sig_thread and the workers; is_running is reset, which
\* inotify_handler may overwrite when it starts late.
MainJoined ==
  /\ main = "join" /\ sig = "exit" /\ \A w \in Worker : pc[w] = "exit"
  /\ main' = "joinInotify"
  /\ is_running' \in {FALSE, is_running}
  /\ UNCHANGED <<config, toread, watched>> /\ MainUnchanged

\* pthread_join(inotify_thr), free_resource()
MainExit ==
  /\ main = "joinInotify" /\ inot = "exit"
  /\ main' = "exit"
  /\ UNCHANGED <<config, toread, watched, is_running>> /\ MainUnchanged

MainStep == MainRead \/ MainWatch \/ MainCreate \/ MainJoined \/ MainExit
-----------------------------------------------------------------------------
(* The environment *)

EnvUnchanged == UNCHANGED <<sigVars, queue, workVars, shutting_down, inotVars, main>>

\* kill(1); a signal that is pending already is not queued again.
Kill(s) ==
  /\ nsig < MaxSignal
  /\ pending' = pending \cup {s}
  /\ nsig' = nsig + 1
  /\ UNCHANGED <<event, fileVars>> /\ EnvUnchanged

\* A new file is renamed over the configuration file.
ReplaceFile ==
  /\ ~locked /\ nreplace < MaxReplace
  /\ file' = file + 1
  /\ nreplace' = nreplace + 1
  /\ event' = watched
  /\ UNCHANGED <<pending, nsig, locked, nlocked>> /\ EnvUnchanged

\* A writer that takes flock(LOCK_EX) and writes in place ...
WriteLocked ==
  /\ ~locked /\ nlocked < MaxLocked
  /\ locked' = TRUE
  /\ file' = file + 1
  /\ nlocked' = nlocked + 1
  /\ event' = watched
  /\ UNCHANGED <<pending, nsig, nreplace>> /\ EnvUnchanged

\* ... and closes the file.
Unlock ==
  /\ locked
  /\ locked' = FALSE
  /\ UNCHANGED <<pending, nsig, event, file, nreplace, nlocked>> /\ EnvUnchanged

\* pthread_cond_wait may return with no signal.
SpuriousWakeup(w) ==
  /\ pc[w] = "wait"
  /\ pc' = [pc EXCEPT ![w] = "dequeue"]
  /\ UNCHANGED <<sig, queue, job, owner, toread, config>> /\ WorkerUnchanged

Ended == main = "exit" /\ UNCHANGED vars

Next ==
  \/ SigStep \/ InotStep \/ MainStep \/ Ended
  \/ \E w \in Worker : WorkerStep(w) \/ SpuriousWakeup(w)
  \/ (\E s \in Signal : Kill(s)) \/ ReplaceFile \/ WriteLocked \/ Unlock

Spec == Init /\ [][Next]_vars

\* Every thread is scheduled and gets its locks, and a writer closes its file.
FairSpec ==
  /\ Spec
  /\ WF_vars(SigStep) /\ WF_vars(InotStep) /\ WF_vars(MainStep) /\ WF_vars(Unlock)
  /\ \A w \in Worker : WF_vars(WorkerStep(w))
-----------------------------------------------------------------------------
(***************************************************************************)
(* A SIGTERM ends the process: sig_thread gets it through the queue even    *)
(* when the queue is full, wakes every worker, and main joins all threads.  *)
(***************************************************************************)
SigtermEnds == ("SIGTERM" \in pending) ~> (main = "exit")

(***************************************************************************)
(* A change of the file that inotify reported reaches daemon_config, through*)
(* the inotify thread, the signal, the queue and a worker, unless the       *)
(* daemon shuts down; a reload in progress may have read part of the old    *)
(* file, and several changes may share one SIGHUP.  As long as no writer     *)
(* holds a lock: the reload does not wait for it.                           *)
(***************************************************************************)
ChangeIsLoaded ==
  event ~> (nlocked > 0 \/ (\A p \in Param : config[p] = file)
            \/ sig \notin {"wait", "enqueue", "full"}
            \/ \E w \in Worker : pc[w] = "exit")

(***************************************************************************)
(* README, "General Flow" 4: on SIGTERM the daemon "wakes up all waiting    *)
(* workers, lets them finish any remaining jobs, then exits".  Every job of *)
(* work that was queued is processed when main leaves.                      *)
(***************************************************************************)
RemainingJobsFinished ==
  main = "exit" => /\ \A i \in DOMAIN queue : queue[i] = "SHUTDOWN"
                   /\ \A w \in Worker : job[w] # NULL => job[w] = "SHUTDOWN"

(***************************************************************************)
(* A worker that has run get_file_config() reports "Config reloaded         *)
(* successfully!", and README, "Configuration", says that the file "is      *)
(* locked with `flock()` while being read to avoid conflicts".  At that     *)
(* point every parameter comes from the file, also when a writer held the   *)
(* lock.                                                                    *)
(***************************************************************************)
ReloadReadsTheFile ==
  owner # NULL /\ toread = {} => \A p \in Param : config[p] # Default
=============================================================================
