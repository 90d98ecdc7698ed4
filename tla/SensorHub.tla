------------------------------ MODULE SensorHub ------------------------------
(***************************************************************************)
(* system-V-ipc-sensorhub at run time: the launcher (main.c) that forks the *)
(* hub, the writer and the monitor and passes signals on, the hub's three   *)
(* threads, the message queue, and the writer's receive loop, job ring,     *)
(* workers and signal thread.  How the processes find or make their IPC     *)
(* objects is module SensorHubStart; the shared segment is left out here.   *)
(*                                                                         *)
(* A critical section under a mutex is one step; a thread in                *)
(* pthread_cond_wait is at "wait".  The monitor shares nothing with the      *)
(* others here, so the time before its pid is noted is not modelled.        *)
(***************************************************************************)
EXTENDS Naturals, Sequences, FiniteSets

CONSTANTS Worker,      \* the writer's workers (NUMBER_WORKER)
          QUEUE_SIZE,  \* the writer's job ring
          MsqCap,      \* messages the kernel's queue holds
          NCommand     \* kinds of commands the controller cycles through (4)

ASSUME SensorHubAssumption == {QUEUE_SIZE, MsqCap, NCommand} \subseteq Nat \ {0}

SHUTDOWN == NCommand + 1
Command == 1..NCommand
App == <<"hub", "writer", "monitor">>
Proc == {"hub", "writer", "monitor"}

VARIABLES
  lpc,                       \* main.c: its place
  st,                        \* a process: off, forked, starting, up, ended
  pend,                      \* processes with a SIGTERM or SIGINT pending
  msq, removed,              \* the message queue; whether the hub has removed it
  hsig, hctl, hclean,        \* the hub's threads
  hrun, count,               \* its is_running; the controller's count
  wq,                        \* which queue the writer has: 2 is one made after the removal
  wmain, wsig, work,         \* the writer's threads
  wrun, got,                 \* its is_running; the message main has received
  ctrl, head, tail, jobs_count,
  jobs, late                 \* history: put and not yet taken; a job put after is_running was
                             \* reset, "over" if it was put into a full ring

hub == <<hsig, hctl, hclean, hrun, count>>
ring == <<ctrl, head, tail, jobs_count, jobs, late>>
writer == <<wq, wmain, wsig, work, wrun, got>>
vars == <<lpc, st, pend, msq, removed, hub, writer, ring>>

Init ==
  /\ lpc = <<"fork", 1>>
  /\ st = [p \in Proc |-> "off"] /\ pend = {}
  \* an earlier session may have left its last message behind
  /\ msq \in {<<>>, <<SHUTDOWN>>} /\ removed = FALSE
  /\ hsig = "off" /\ hctl = "off" /\ hclean = "off" /\ hrun = FALSE /\ count = 1
  /\ wq = 1 /\ wmain = "off" /\ wsig = "off" /\ work = [w \in Worker |-> "off"]
  /\ wrun = FALSE /\ got = SHUTDOWN
  /\ ctrl = [i \in 0 .. QUEUE_SIZE - 1 |-> SHUTDOWN] /\ head = 0 /\ tail = 0 /\ jobs_count = 0
  /\ jobs = <<>> /\ late = "no"

Alive(p) == st[p] \in {"forked", "starting", "up"}

\* A signal that comes after its thread has returned stays pending for good.
Hears(p) ==
  /\ Alive(p) /\ p # "monitor"
  /\ p = "hub" => hsig \in {"off", "wait"}
  /\ p = "writer" => wsig \in {"off", "wait"}

\* The pids the launcher has noted.
children == {App[j] : j \in {k \in 1 .. Len(App) : k < lpc[2] \/ lpc[1] = "wait"}}
-----------------------------------------------------------------------------
(* main.c *)

Fork(i) ==
  /\ lpc = <<"fork", i>>
  /\ \/ /\ lpc' = IF App[i] = "monitor" THEN <<"wait", i>> ELSE <<"note", i>>
        /\ st' = [st EXCEPT ![App[i]] = IF App[i] = "monitor" THEN "up" ELSE "forked"]
     \/ lpc' = <<"ended", i>> /\ UNCHANGED st                  \* fork failed
  /\ UNCHANGED <<pend, msq, removed, hub, writer, ring>>

\* children[i] = pid; after the hub comes sleep(1).
Note(i) ==
  /\ lpc = <<"note", i>>
  /\ lpc' = <<"fork", i + 1>>
  /\ UNCHANGED <<st, pend, msq, removed, hub, writer, ring>>

\* wait() until no child is left.
Wait ==
  /\ lpc = <<"wait", Len(App)>>
  /\ \A p \in Proc : ~Alive(p)
  /\ lpc' = <<"ended", Len(App)>>
  /\ UNCHANGED <<st, pend, msq, removed, hub, writer, ring>>

\* handle_sigint: SIGTERM for every child noted so far.
handle_sigint ==
  /\ lpc[1] # "ended"
  /\ pend' = pend \union {p \in children : Hears(p)}
  /\ UNCHANGED <<lpc, st, msq, removed, hub, writer, ring>>

\* Someone sends a process SIGTERM or SIGINT.
Kill(p) ==
  /\ Hears(p)
  /\ pend' = pend \union {p}
  /\ UNCHANGED <<lpc, st, msq, removed, hub, writer, ring>>

\* Between fork and exec a child still has the launcher's handler, which passes the signal
\* to the children it knows and returns.
Inherited(i) ==
  /\ App[i] \in pend /\ st[App[i]] = "forked"
  /\ pend' = (pend \ {App[i]}) \union {App[j] : j \in {k \in 1 .. i - 1 : Hears(App[k])}}
  /\ UNCHANGED <<lpc, st, msq, removed, hub, writer, ring>>

Exec(p) ==
  /\ st[p] = "forked"
  /\ st' = [st EXCEPT ![p] = "starting"]
  /\ UNCHANGED <<lpc, pend, msq, removed, hub, writer, ring>>

Ended(p) ==
  /\ st' = [st EXCEPT ![p] = "ended"]
  /\ pend' = pend \ {p}

\* Before system_configuration a signal ends the process.
DiesStarting(p) ==
  /\ st[p] = "starting" /\ p \in pend
  /\ Ended(p)
  /\ UNCHANGED <<lpc, msq, removed, hub, writer, ring>>

\* exec, get_id_all, attach_share_mem or init_shmem fails.
StartFails(p) ==
  /\ st[p] = "starting"
  /\ Ended(p)
  /\ UNCHANGED <<lpc, msq, removed, hub, writer, ring>>
-----------------------------------------------------------------------------
(* hub_controller.c *)

HubUp ==
  /\ st["hub"] = "starting" /\ "hub" \notin pend
  /\ st' = [st EXCEPT !["hub"] = "up"]
  /\ hsig' = "wait" /\ hctl' = "test" /\ hclean' = "wait" /\ hrun' = TRUE
  /\ UNCHANGED <<lpc, pend, msq, removed, count, writer, ring>>

\* sigwaitinfo
HubSignal ==
  /\ hsig = "wait" /\ "hub" \in pend
  /\ pend' = pend \ {"hub"}
  /\ hsig' = "send"
  /\ UNCHANGED <<lpc, st, msq, removed, hctl, hclean, hrun, count, writer, ring>>

\* msgsnd without IPC_NOWAIT: waits for room, fails once the queue is removed.
send_to_queue(m) ==
  \/ removed /\ UNCHANGED msq
  \/ ~removed /\ Len(msq) < MsqCap /\ msq' = Append(msq, m)

HubSendShutdown ==
  /\ hsig = "send"
  /\ send_to_queue(SHUTDOWN)
  /\ hsig' = "flag"
  /\ UNCHANGED <<lpc, st, pend, removed, hctl, hclean, hrun, count, writer, ring>>

HubFlag ==
  /\ hsig = "flag"
  /\ hrun' = FALSE
  /\ hclean' = IF hclean = "wait" THEN "sleep" ELSE hclean
  /\ hsig' = "done"
  /\ UNCHANGED <<lpc, st, pend, msq, removed, hctl, count, writer, ring>>

ControllerTest ==
  /\ hctl = "test"
  /\ hctl' = IF hrun THEN "send" ELSE "done"
  /\ UNCHANGED <<lpc, st, pend, msq, removed, hsig, hclean, hrun, count, writer, ring>>

\* A command sent, the next one is due after sleep(1); an error is tried again at once.
ControllerSend ==
  /\ hctl = "send"
  /\ send_to_queue(count)
  /\ count' = IF removed THEN count ELSE (count % NCommand) + 1
  /\ hctl' = "test"
  /\ UNCHANGED <<lpc, st, pend, removed, hsig, hclean, hrun, writer, ring>>

\* As if cleaning() left the message queue.
CleanNoQueue ==
  /\ hclean = "sleep"
  /\ hclean' = "done"
  /\ UNCHANGED <<lpc, st, pend, msq, removed, hsig, hctl, hrun, count, writer, ring>>

\* cleaning_thread after its wait: sleep(2), detach, cleaning().
Clean ==
  /\ hclean = "sleep"
  /\ removed' = TRUE /\ msq' = <<>>
  /\ hclean' = "done"
  /\ UNCHANGED <<lpc, st, pend, hsig, hctl, hrun, count, writer, ring>>

\* main joins the three threads.
HubExit ==
  /\ st["hub"] = "up" /\ hsig = "done" /\ hctl = "done" /\ hclean = "done"
  /\ Ended("hub")
  /\ UNCHANGED <<lpc, msq, removed, hub, writer, ring>>
-----------------------------------------------------------------------------
(* sensor_writer.c *)

\* get_msq finds the queue by its key or makes a new one.
WriterUp ==
  /\ st["writer"] = "starting" /\ "writer" \notin pend
  /\ st' = [st EXCEPT !["writer"] = "up"]
  /\ wq' = IF removed THEN 2 ELSE 1
  /\ wmain' = "test" /\ wsig' = "wait" /\ wrun' = TRUE
  /\ work' = [w \in Worker |-> "check"]
  /\ UNCHANGED <<lpc, pend, msq, removed, hub, got, ring>>

WriterSignal ==
  /\ wsig = "wait" /\ "writer" \in pend
  /\ pend' = pend \ {"writer"}
  /\ wrun' = FALSE
  /\ wsig' = "broadcast"
  /\ UNCHANGED <<lpc, st, msq, removed, hub, wq, wmain, work, got, ring>>

AllWoken == [w \in Worker |-> IF work[w] = "wait" THEN "check" ELSE work[w]]

\* Only not_empty: main, if it waits for not_full, is woken by a worker.
WriterBroadcast ==
  /\ wsig = "broadcast"
  /\ work' = AllWoken
  /\ wsig' = "done"
  /\ UNCHANGED <<lpc, st, pend, msq, removed, hub, wq, wmain, wrun, got, ring>>

MainTest ==
  /\ wmain = "test"
  /\ wmain' = IF wrun THEN "recv" ELSE "leave"
  /\ UNCHANGED <<lpc, st, pend, msq, removed, hub, wq, wsig, work, wrun, got, ring>>

\* msgrcv without IPC_NOWAIT: waits for a message, fails once the queue is removed.
MainRecv ==
  /\ wmain = "recv" /\ wq = 1
  /\ \/ /\ removed
        /\ wmain' = "test"
        /\ UNCHANGED <<msq, wrun, got>>
     \/ /\ msq # <<>>
        /\ msq' = Tail(msq) /\ got' = Head(msq)
        /\ IF Head(msq) = SHUTDOWN
           THEN wrun' = FALSE /\ wmain' = "leave"
           ELSE wmain' = "put" /\ UNCHANGED wrun
  /\ UNCHANGED <<lpc, st, pend, removed, hub, wq, wsig, work, ring>>

\* pthread_cond_signal(&not_empty)
OneWoken ==
  IF \E w \in Worker : work[w] = "wait"
  THEN \E w \in Worker : work[w] = "wait" /\ work' = [work EXCEPT ![w] = "check"]
  ELSE UNCHANGED work

PutJob ==
  /\ ctrl' = [ctrl EXCEPT ![tail] = got]
  /\ tail' = (tail + 1) % QUEUE_SIZE
  /\ jobs_count' = jobs_count + 1
  /\ jobs' = Append(jobs, got)
  /\ late' = IF wrun THEN late ELSE IF jobs_count = QUEUE_SIZE THEN "over" ELSE "late"
  /\ got' = SHUTDOWN                     \* a local of main, not used any more
  /\ wmain' = "test"
  /\ OneWoken
  /\ UNCHANGED head

\* The wait for room ends also when is_running is reset, and the job is put all the same.
MainPut ==
  /\ wmain = "put"
  /\ IF jobs_count = QUEUE_SIZE /\ wrun
     THEN wmain' = "notfull" /\ UNCHANGED <<work, got, ring>>
     ELSE PutJob
  /\ UNCHANGED <<lpc, st, pend, msq, removed, hub, wq, wsig, wrun>>

MainLeave ==
  /\ wmain = "leave"
  /\ wrun' = FALSE
  /\ work' = AllWoken
  /\ wmain' = "join"
  /\ UNCHANGED <<lpc, st, pend, msq, removed, hub, wq, wsig, got, ring>>

MainJoinWorkers ==
  /\ wmain = "join" /\ \A w \in Worker : work[w] = "done"
  /\ wmain' = "joinsig"
  /\ UNCHANGED <<lpc, st, pend, msq, removed, hub, wq, wsig, work, wrun, got, ring>>

WriterExit ==
  /\ wmain = "joinsig" /\ wsig = "done"
  /\ wmain' = "done"
  /\ Ended("writer")
  /\ UNCHANGED <<lpc, msq, removed, hub, wq, wsig, work, wrun, got, ring>>

\* worker_thread: take the job, signal not_full, unlock and handle_command, which changes
\* nothing here: a worker at "check" may still be busy with the command it took.
TakeJob ==
  /\ head' = (head + 1) % QUEUE_SIZE
  /\ jobs_count' = jobs_count - 1
  /\ jobs' = IF jobs = <<>> THEN jobs ELSE Tail(jobs)
  /\ wmain' = IF wmain = "notfull" THEN "put" ELSE wmain
  /\ UNCHANGED <<ctrl, tail, late, work>>

\* As if a worker left as soon as is_running is reset.
WorkerCheckEarly(w) ==
  /\ work[w] = "check"
  /\ IF ~wrun
     THEN work' = [work EXCEPT ![w] = "done"] /\ UNCHANGED <<wmain, ring>>
     ELSE IF jobs_count = 0
     THEN work' = [work EXCEPT ![w] = "wait"] /\ UNCHANGED <<wmain, ring>>
     ELSE TakeJob
  /\ UNCHANGED <<lpc, st, pend, msq, removed, hub, wq, wsig, wrun, got>>

\* As if a worker waited for a job whether the writer runs or not.
WorkerCheckDeaf(w) ==
  /\ work[w] = "check"
  /\ IF jobs_count = 0
     THEN work' = [work EXCEPT ![w] = "wait"] /\ UNCHANGED <<wmain, ring>>
     ELSE TakeJob
  /\ UNCHANGED <<lpc, st, pend, msq, removed, hub, wq, wsig, wrun, got>>

WorkerCheck(w) ==
  /\ work[w] = "check"
  /\ IF jobs_count = 0
     THEN work' = [work EXCEPT ![w] = IF wrun THEN "wait" ELSE "done"] /\ UNCHANGED <<wmain, ring>>
     ELSE TakeJob
  /\ UNCHANGED <<lpc, st, pend, msq, removed, hub, wq, wsig, wrun, got>>

-----------------------------------------------------------------------------
(* sensor_monitor.c *)

\* A signal, from the launcher or from someone else, ends it: by default before its handler
\* is set, by keep_running = 0, which ends the loop of get_data and sleep(1), from then on.
\* It is not kept in pend.
MonitorExit ==
  /\ st["monitor"] = "up"
  /\ Ended("monitor")
  /\ UNCHANGED <<lpc, msq, removed, hub, writer, ring>>
-----------------------------------------------------------------------------
Launcher == Wait \/ \E i \in 1 .. Len(App) : Fork(i) \/ Note(i)
Child(p) == Exec(p) \/ DiesStarting(p)
HubLife == Child("hub") \/ HubUp \/ Clean \/ HubExit

Faults ==
  \/ handle_sigint \/ \E p \in Proc : Kill(p) \/ StartFails(p)
  \/ \E i \in 1 .. Len(App) : Inherited(i)

SignalThread == HubSignal \/ HubSendShutdown \/ HubFlag
Controller == ControllerTest \/ ControllerSend
WriterSig == WriterSignal \/ WriterBroadcast
Main ==
  \/ Child("writer") \/ WriterUp
  \/ MainTest \/ MainRecv \/ MainPut \/ MainLeave \/ MainJoinWorkers \/ WriterExit

Next ==
  \/ Launcher \/ HubLife \/ MonitorExit \/ Faults
  \/ SignalThread \/ Controller
  \/ WriterSig \/ Main \/ \E w \in Worker : WorkerCheck(w)

\* Every thread that can go on does so; nobody has to send a signal.  The kernel lets the
\* senders that wait for room in the queue go on in their order, so none waits for ever
\* while there is room again and again.
Fairness ==
  /\ WF_vars(Launcher) /\ WF_vars(HubLife)
  /\ WF_vars(SignalThread) /\ SF_vars(HubSendShutdown) /\ WF_vars(Controller)
  /\ WF_vars(WriterSig) /\ WF_vars(Main) /\ \A w \in Worker : WF_vars(WorkerCheck(w))

Spec == Init /\ [][Next]_vars /\ Fairness
-----------------------------------------------------------------------------
(* Properties *)

\* The job ring (main of the writer and worker_thread) is the queue of the commands put
\* into it, in order, none lost and none doubled, as long as the writer runs: only a signal
\* that arrives while main waits for room lets main put one command over another.  And the
\* writer does not detach before every command in its ring is handled: its main joins
\* workers, which leave only when the ring is empty; the one command that main had received
\* but not yet put when the signal came may find no worker left.
JobsDrained ==
  /\ wrun => late = "no"
  /\ late # "over" => /\ jobs_count = Len(jobs) /\ Len(jobs) <= QUEUE_SIZE
                      /\ \A i \in 1 .. Len(jobs) : ctrl[(head + i - 1) % QUEUE_SIZE] = jobs[i]
  /\ wmain \in {"joinsig", "done"} => /\ \A w \in Worker : work[w] = "done"
                                      /\ jobs_count <= IF late = "no" THEN 0 ELSE 1

\* Nobody will ever put a message into the queue on which the writer's main is blocked.
NobodySends == wmain = "recv" /\ st["hub"] # "up" /\ ~(wq = 1 /\ removed) /\ (wq = 2 \/ msq = <<>>)

\* A writer that takes a SIGTERM ends, wherever its main is: msgrcv returns at the next
\* command, at the hub's SHUTDOWN or when the hub removes the queue.  The exception is a
\* writer without a hub.  (A writer told to stop by SHUTDOWN alone waits for a signal.)
WriterEnds == (wsig = "broadcast") ~> (st["writer"] = "ended" \/ NobodySends)

\* Nobody will ever take a message from the queue into which the hub sends SHUTDOWN.
NobodyReceives ==
  hsig = "send" /\ Len(msq) = MsqCap
    /\ \/ wq = 2 \/ wmain \in {"leave", "join", "joinsig", "done"} \/ st["writer"] = "ended"
       \/ st["writer"] = "off" /\ lpc[1] = "ended"

\* A hub that takes a SIGTERM ends: its controller, blocked in msgsnd, is let go by the
\* removal of the queue.  The exception is SHUTDOWN itself blocked on a full queue that the
\* writer no longer reads.
HubEnds == (hsig = "send") ~> (st["hub"] = "ended" \/ NobodyReceives)
=============================================================================
