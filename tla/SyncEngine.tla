----------------------------- MODULE SyncEngine -----------------------------
(***************************************************************************)
(* The job bookkeeping of engine.py: SyncEngine.run_async, the bounded     *)
(* worker thread it starts, cancel, and the incremental transfers and      *)
(* provider scans of the change monitors, all of them behind one transfer  *)
(* gate (TransferSlots, which BandwidthGate implements).                   *)
(*                                                                         *)
(* One action is one critical section of SyncEngine._lock, or one step     *)
(* outside it that another thread can observe.  What a run transfers, and  *)
(* why it is repeated or fails, is FullRun's subject.  The monitors are    *)
(* threads that scan and apply whenever they like; a mapping has several   *)
(* while one that was stopped (stop_callbacks waits two seconds) has yet   *)
(* to return from a transfer.                                              *)
(***************************************************************************)
EXTENDS Naturals, FiniteSets

CONSTANTS Jobs,
          Workers,      \* threads of full runs
          Monitors,     \* ChangeMonitor threads
          JobOf,        \* the job each thread works for
          MaxActive,    \* slots of the transfer gate
          MaxRepeats    \* how often _run_worker may call itself in one run

ASSUME EngineAssumption ==
  /\ MaxActive \in Nat \ {0}
  /\ MaxRepeats \in Nat
  /\ Workers \intersect Monitors = {}
  /\ JobOf \in [Workers \union Monitors -> Jobs]

VARIABLES
  active,       \* _active_jobs
  waiting,      \* _waiting_jobs
  cancelled,    \* _cancelled_queued_jobs
  incremental,  \* _incremental_jobs
  processes,    \* _processes: "none", or the state of the job's last process
  worker,       \* where each worker thread stands
  monitor,      \* where each monitor thread stands
  repeats,      \* how often each run has repeated itself
  holding,      \* threads inside the transfer gate
  reported,     \* runs that have called their callback
  dropped       \* queued runs that cancel() has promised to drop

tables == <<active, waiting, cancelled, incremental>>
history == <<reported, dropped>>
vars == <<tables, processes, worker, monitor, repeats, holding, history>>

Threads == Workers \union Monitors

Slots == INSTANCE TransferSlots WITH Users <- Threads, alone <- {}

\* A full run has its thread from run_async until the thread's last finally.
Running(w) == worker[w] # "idle"
\* A monitor works for its job while _apply_incremental runs.
Applying(m) == monitor[m] \in {"reserved", "admitted", "spawned", "running",
                               "exited", "closed", "released"}

\* The process table shows a job's process once the thread that started it
\* has taken the lock again; until then cancel cannot see it.
LiveThreads ==
  {w \in Workers : worker[w] \in {"previewing", "spawned", "running"}}
    \union {m \in Monitors : monitor[m] \in {"scanning", "spawned", "running"}}

GoWorker(w, from, to) ==
  worker[w] = from /\ worker' = [worker EXCEPT ![w] = to]
GoMonitor(m, from, to) ==
  monitor[m] = from /\ monitor' = [monitor EXCEPT ![m] = to]

-----------------------------------------------------------------------------
Init ==
  /\ active = {} /\ waiting = {} /\ cancelled = {} /\ incremental = {}
  /\ processes = [j \in Jobs |-> "none"]
  /\ worker = [w \in Workers |-> "idle"]
  /\ monitor = [m \in Monitors |-> "idle"]
  /\ repeats = [w \in Workers |-> 0]
  /\ holding = {}
  /\ reported = {} /\ dropped = {}

\* run_async accepts the job: nobody works for it.
RunAsync(w) ==
  LET j == JobOf[w] IN
  /\ j \notin active /\ j \notin incremental /\ processes[j] = "none"
  /\ GoWorker(w, "idle", "queued")
  /\ active' = active \union {j}
  /\ waiting' = waiting \union {j}
  /\ cancelled' = cancelled \ {j}
  /\ repeats' = [repeats EXCEPT ![w] = 0]
  /\ reported' = reported \ {w}
  /\ dropped' = dropped \ {w}
  /\ UNCHANGED <<incremental, processes, monitor, holding>>

\* The worker comes out of the gate's queue with a slot ...
WorkerAdmitted(w) ==
  /\ GoWorker(w, "queued", "admitted")
  /\ Slots!Take(w)
  /\ UNCHANGED <<tables, processes, monitor, repeats, history>>

\* (Mutant) The run goes on when the queue's deadline has passed.
QueueTimeoutIgnored(w) ==
  /\ GoWorker(w, "queued", "preparing")
  /\ waiting' = waiting \ {JobOf[w]}
  /\ UNCHANGED <<active, cancelled, incremental, processes, monitor, holding,
                 repeats, history>>

\* ... or without one, after ten minutes (TimeoutError).
QueueTimeout(w) ==
  /\ GoWorker(w, "queued", "timedout")
  /\ UNCHANGED <<tables, processes, monitor, holding, repeats, history>>

\* (Mutant) The mark is discarded before anybody has looked at it.
LeaveQueueUnasked(w) ==
  /\ waiting' = waiting \ {JobOf[w]}
  /\ cancelled' = cancelled \ {JobOf[w]}
  /\ GoWorker(w, "admitted", "preparing")
  /\ UNCHANGED <<active, incremental, processes, monitor, holding, repeats,
                 history>>

\* Admitted: stop being cancellable as a queued job, and see whether it was.
LeaveQueue(w) ==
  /\ waiting' = waiting \ {JobOf[w]}
  /\ cancelled' = cancelled \ {JobOf[w]}
  /\ IF JobOf[w] \in cancelled
     THEN GoWorker(w, "admitted", "finished")
     ELSE GoWorker(w, "admitted", "preparing")
  /\ UNCHANGED <<active, incremental, processes, monitor, holding, repeats,
                 history>>

\* The safety preview is a child process that no table shows.
StartPreview(w) ==
  /\ GoWorker(w, "preparing", "previewing")
  /\ UNCHANGED <<tables, processes, monitor, holding, repeats, history>>

EndPreview(w) ==
  /\ GoWorker(w, "previewing", "launching")
  /\ UNCHANGED <<tables, processes, monitor, holding, repeats, history>>

\* subprocess.run kills the preview after an hour and raises TimeoutExpired,
\* which is neither an OSError nor a RuntimeError: it unwinds the thread past
\* the callback.
PreviewTimeout(w) ==
  /\ GoWorker(w, "previewing", "unwinding")
  /\ processes' = [processes EXCEPT ![JobOf[w]] = "none"]
  /\ UNCHANGED <<tables, monitor, holding, repeats, history>>

SkipPreview(w) ==
  /\ GoWorker(w, "preparing", "launching")
  /\ UNCHANGED <<tables, processes, monitor, holding, repeats, history>>

\* Popen returns; the process runs before the table shows it.
Spawn(w) ==
  /\ GoWorker(w, "launching", "spawned")
  /\ UNCHANGED <<tables, processes, monitor, holding, repeats, history>>

Track(w) ==
  /\ GoWorker(w, "spawned", "running")
  /\ processes' = [processes EXCEPT ![JobOf[w]] = "live"]
  /\ UNCHANGED <<tables, monitor, holding, repeats, history>>

\* The process ends by itself or by a signal; its entry stays.
ProcessExits(w) ==
  /\ GoWorker(w, "running", "exited")
  /\ processes' = [processes EXCEPT ![JobOf[w]] = "dead"]
  /\ UNCHANGED <<tables, monitor, holding, repeats, history>>

\* (Mutant) A repeat is not counted.
RunAgainUncounted(w) ==
  /\ repeats[w] < MaxRepeats
  /\ GoWorker(w, "exited", "preparing")
  /\ UNCHANGED <<tables, processes, monitor, holding, repeats, history>>

\* _run_worker calls itself: renamed duplicate (five times at most) or
\* provider refresh (once).
RunAgain(w) ==
  /\ repeats[w] < MaxRepeats
  /\ GoWorker(w, "exited", "preparing")
  /\ repeats' = [repeats EXCEPT ![w] = @ + 1]
  /\ UNCHANGED <<tables, processes, monitor, holding, history>>

\* _run_worker's finally: every way it ends with a result, after a process or
\* without one (lease, a preview that blocks or fails, failure to start).
\* A lease and a mass change call back just before this instead of after it;
\* what looks at the table in between finds the id in active anyway.
FinishRun(w) ==
  /\ \/ GoWorker(w, "exited", "finished")
     \/ GoWorker(w, "preparing", "finished")
     \/ GoWorker(w, "previewing", "finished")
     \/ GoWorker(w, "launching", "finished")
  /\ processes' = [processes EXCEPT ![JobOf[w]] = "none"]
  /\ UNCHANGED <<tables, monitor, holding, repeats, history>>

\* callback(result), inside the gate or, after a queue timeout, outside.
Report(w) ==
  /\ \/ GoWorker(w, "finished", "unwinding")
     \/ GoWorker(w, "timedout", "released")
  /\ reported' = reported \union {w}
  /\ UNCHANGED <<tables, processes, monitor, holding, repeats, dropped>>

WorkerReleases(w) ==
  /\ GoWorker(w, "unwinding", "released")
  /\ Slots!Give(w)
  /\ UNCHANGED <<tables, processes, monitor, repeats, history>>

\* (Mutant) A run that never left the queue stays in the queue's tables.
WorkerLeavesQueued(w) ==
  /\ GoWorker(w, "released", "idle")
  /\ active' = active \ {JobOf[w]}
  /\ UNCHANGED <<waiting, cancelled, incremental, processes, monitor, holding,
                 repeats, history>>

\* The finally of _run_bounded_worker.
WorkerLeaves(w) ==
  /\ GoWorker(w, "released", "idle")
  /\ active' = active \ {JobOf[w]}
  /\ waiting' = waiting \ {JobOf[w]}
  /\ cancelled' = cancelled \ {JobOf[w]}
  /\ UNCHANGED <<incremental, processes, monitor, holding, repeats, history>>

WorkerStep(w) ==
  \/ QueueTimeout(w) \/ LeaveQueue(w)
  \/ StartPreview(w) \/ EndPreview(w) \/ PreviewTimeout(w) \/ SkipPreview(w)
  \/ Spawn(w) \/ Track(w) \/ ProcessExits(w) \/ RunAgain(w)
  \/ FinishRun(w) \/ Report(w) \/ WorkerReleases(w) \/ WorkerLeaves(w)

-----------------------------------------------------------------------------
\* cancel marks a queued run, and signals a process that is in the table.
\* The signal needs no state: a process may end at any time anyway.
Cancel(j) ==
  /\ j \in waiting
  /\ cancelled' = cancelled \union {j}
  /\ dropped' = dropped \union {w \in Workers : JobOf[w] = j /\ Running(w)}
  /\ UNCHANGED <<active, waiting, incremental, processes, worker, monitor,
                 holding, repeats, reported>>

-----------------------------------------------------------------------------
\* A monitor lists its provider: a child process and a slot, no reservation.
ScanAdmitted(m) ==
  /\ GoMonitor(m, "idle", "scanning")
  /\ Slots!Take(m)
  /\ UNCHANGED <<tables, processes, worker, repeats, history>>

ScanEnds(m) ==
  /\ GoMonitor(m, "scanning", "idle")
  /\ Slots!Give(m)
  /\ UNCHANGED <<tables, processes, worker, repeats, history>>

\* (Mutant) A full run is seen only by its process.
ApplyReservesAnyway(m) ==
  LET j == JobOf[m] IN
  /\ processes[j] = "none" /\ j \notin incremental
  /\ GoMonitor(m, "idle", "reserved")
  /\ incremental' = incremental \union {j}
  /\ UNCHANGED <<active, waiting, cancelled, processes, worker, holding,
                 repeats, history>>

\* _apply_incremental reserves the job before it waits for the gate.
ApplyReserves(m) ==
  LET j == JobOf[m] IN
  /\ processes[j] = "none" /\ j \notin active /\ j \notin incremental
  /\ GoMonitor(m, "idle", "reserved")
  /\ incremental' = incremental \union {j}
  /\ UNCHANGED <<active, waiting, cancelled, processes, worker, holding,
                 repeats, history>>

ApplyAdmitted(m) ==
  /\ GoMonitor(m, "reserved", "admitted")
  /\ Slots!Take(m)
  /\ UNCHANGED <<tables, processes, worker, repeats, history>>

\* One rclone process for each path, or for each direction of a batch.
ApplySpawns(m) ==
  /\ GoMonitor(m, "admitted", "spawned") \/ GoMonitor(m, "exited", "spawned")
  /\ UNCHANGED <<tables, processes, worker, holding, repeats, history>>

ApplyTracks(m) ==
  /\ GoMonitor(m, "spawned", "running")
  /\ processes' = [processes EXCEPT ![JobOf[m]] = "live"]
  /\ UNCHANGED <<tables, worker, holding, repeats, history>>

ApplyProcessExits(m) ==
  /\ GoMonitor(m, "running", "exited")
  /\ processes' = [processes EXCEPT ![JobOf[m]] = "dead"]
  /\ UNCHANGED <<tables, worker, holding, repeats, history>>

\* The finally of _apply_incremental_unlocked.
ApplyFinishes(m) ==
  /\ GoMonitor(m, "admitted", "closed") \/ GoMonitor(m, "exited", "closed")
  /\ processes' = [processes EXCEPT ![JobOf[m]] = "none"]
  /\ UNCHANGED <<tables, worker, holding, repeats, history>>

ApplyReleases(m) ==
  /\ GoMonitor(m, "closed", "released")
  /\ Slots!Give(m)
  /\ UNCHANGED <<tables, processes, worker, repeats, history>>

\* The finally of _apply_incremental.
ApplyLeaves(m) ==
  /\ GoMonitor(m, "released", "idle")
  /\ incremental' = incremental \ {JobOf[m]}
  /\ UNCHANGED <<active, waiting, cancelled, processes, worker, holding,
                 repeats, history>>

\* What a monitor that holds something goes on to do.
MonitorStep(m) ==
  \/ ScanEnds(m) \/ ApplySpawns(m) \/ ApplyTracks(m) \/ ApplyProcessExits(m)
  \/ ApplyFinishes(m) \/ ApplyReleases(m) \/ ApplyLeaves(m)

-----------------------------------------------------------------------------
Next ==
  \/ \E w \in Workers : RunAsync(w) \/ WorkerAdmitted(w) \/ WorkerStep(w)
  \/ \E j \in Jobs : Cancel(j)
  \/ \E m \in Monitors :
        \/ ScanAdmitted(m)
        \/ ApplyReserves(m) \/ ApplyAdmitted(m) \/ MonitorStep(m)

\* A started worker goes on, its wait in the queue is bounded by ten minutes,
\* and the rclone process it waits for ends (its output is watched, and it is
\* terminated after 30 minutes without progress).  Nothing is assumed of the
\* gate, of the monitors or of the user.
Fairness == \A w \in Workers : WF_vars(WorkerStep(w))

Spec == Init /\ [][Next]_vars /\ Fairness

-----------------------------------------------------------------------------
TypeOK ==
  /\ active \subseteq Jobs /\ waiting \subseteq Jobs
  /\ cancelled \subseteq Jobs /\ incremental \subseteq Jobs
  /\ processes \in [Jobs -> {"none", "live", "dead"}]
  /\ worker \in [Workers -> {"idle", "queued", "admitted", "timedout",
                          "preparing", "previewing", "launching", "spawned",
                          "running", "exited", "finished", "unwinding",
                          "released"}]
  /\ monitor \in [Monitors -> {"idle", "scanning", "reserved", "admitted",
                               "spawned", "running", "exited", "closed",
                               "released"}]
  /\ repeats \in [Workers -> 0..MaxRepeats]
  /\ holding \subseteq Threads
  /\ reported \subseteq Workers /\ dropped \subseteq Workers

\* "This prevents a full job and a callback job for the same mapping from
\* starting concurrently" (docs/ARCHITECTURE.md): however runs and monitors
\* interleave, and even while a stopped monitor is still transferring, the
\* threads that work for one mapping take turns.
Mutex == INSTANCE JobMutex WITH
  Users <- Threads,
  inside <- {w \in Workers : Running(w)} \union {m \in Monitors : Applying(m)}
ImplementsMutex == Mutex!MutexSpec

\* Every rclone process, the previews and the scans included, runs under a
\* slot of the gate, so no more of them run than the gate has slots.
ProcessesHoldSlots ==
  /\ LiveThreads \subseteq holding
  /\ Cardinality(holding) <= MaxActive

\* A run that cancel promised to drop from the queue starts nothing, neither
\* a preview nor a transfer.
QueuedCancelHonoured ==
  \A w \in dropped :
    worker[w] \notin {"preparing", "previewing", "launching", "spawned",
                     "running", "exited"}

\* When nobody works for a job, nothing of the last run is left in the tables
\* that could refuse or cancel the next; and who does not work holds no slot.
NothingLeaks ==
  /\ \A j \in Jobs :
       (\A w \in Workers : JobOf[w] = j => ~Running(w)) =>
         /\ j \notin active \union waiting \union cancelled
         /\ (\A m \in Monitors : JobOf[m] = j => ~Applying(m)) =>
              j \notin incremental /\ processes[j] = "none"
  /\ \A w \in Workers : ~Running(w) => w \notin holding
  /\ \A m \in Monitors : monitor[m] = "idle" => m \notin holding

\* Whatever happens, an accepted run comes to its end and the job can be run
\* again: a queue that never moves, a preview or a process that fails.
AcceptedRunEnds == \A w \in Workers : Running(w) ~> ~Running(w)

\* "Completion is returned to GTK through idle callbacks"
\* (docs/ARCHITECTURE.md): a run that has ended has called its callback.
EveryRunReports ==
  \A w \in Workers : worker[w] = "released" => w \in reported
=============================================================================
