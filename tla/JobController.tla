---------------------------- MODULE JobController ----------------------------
(***************************************************************************)
(* The desktop's control of one mapping: the GTK main loop of app.py       *)
(* (scheduler, user, queued idle callbacks) above the engine's threads (a  *)
(* full run, change monitors), which SyncEngine and FullRun model.         *)
(*                                                                         *)
(* Handlers of the main loop are atomic with respect to each other, except *)
(* that run_job may wait up to two seconds for a monitor before it asks    *)
(* the engine to start; threads go on meanwhile.  Threads report through   *)
(* GLib.idle_add: a queue that the main loop serves when no timer and no   *)
(* user event keeps it.                                                    *)
(*                                                                         *)
(* Editing a mapping replaces the job object and keeps its id, so a thread *)
(* or a queued callback may still hold an older version.  What the older   *)
(* object's fields say is not kept: a monitor that holds it was told to    *)
(* stop, and run_job(item, quiet=True) does not ask whether it is enabled. *)
(***************************************************************************)
EXTENDS Naturals, Sequences, FiniteSets

CONSTANTS MaxVersion,   \* endpoints a mapping has had, at most
          Instances,    \* change monitors that can exist at a time
          FailLimit,    \* identical failures that pause a job
          MaxIdle       \* idle callbacks of each kind in the queue, at most

ASSUME ControllerAssumption ==
  /\ MaxVersion \in Nat \ {0}
  /\ FailLimit \in Nat \ {0} /\ MaxIdle \in Nat \ {0}

None == 0
Versions == 1..MaxVersion

VARIABLES
  current,    \* the version in config.jobs; None when it was removed
  job,        \* its persistent fields enabled and initialized
  failures,   \* consecutive identical failures
  loop,       \* the version that run_job is about to start, or None
  idle,       \* queued idle callbacks
  full,       \* the engine's full run of this id
  monitor,    \* the monitor threads
  review      \* a pausing verdict was given, and no user has acted since

config == <<current, job, failures>>
vars == <<config, loop, idle, full, monitor, review>>

NoJob == [enabled |-> FALSE, initialized |-> FALSE]
NoRun == [at |-> "none", version |-> None]
Leaving == [at |-> "leaving", version |-> None]
NoMonitor == [at |-> "none", version |-> None, stopped |-> TRUE]

\* Verdicts that pause the job: its baseline must be rebuilt, or somebody has
\* to look (a mass change, a cloud duplicate, a corrupt download).
Pauses == {"resync", "look"}

\* The version is that of the job the thread worked with: the callback carries
\* only the id, and _apply_job_result does not see it.
ResultOf(v, kind, pause, incremental) ==
  [call |-> "result", version |-> v, kind |-> kind, pause |-> pause,
   incremental |-> incremental]
Reconcile(v) == [call |-> "run_job", version |-> v]

\* engine.running_jobs contains the id.
Running == full.at # "none" \/ \E m \in Instances : monitor[m].at = "applying"

\* stop_callbacks: the waits of the monitor's loop are interrupted and it ends
\* while it is joined; in a scan or a transfer it outlives the join.
Stopped(mon) ==
  [m \in Instances |-> IF mon[m].at = "waiting" THEN NoMonitor
                       ELSE [mon[m] EXCEPT !.stopped = TRUE]]

\* engine.start_callbacks: replace the monitor, if the job was synchronized.
Free(mon) == {m \in Instances : mon[m].at \in {"none", "waiting"}}
\* (Mutant) A monitor is started beside the one there is.
RestartBeside(v, configured) ==
  IF configured.initialized
  THEN /\ Free(monitor) # {}
       /\ monitor' = [monitor EXCEPT
            ![CHOOSE m \in Free(monitor) : TRUE] =
              [at |-> "waiting", version |-> v, stopped |-> FALSE]]
  ELSE UNCHANGED monitor

Restart(v, configured) ==
  IF configured.initialized
  THEN /\ Free(monitor) # {}
       /\ monitor' = [Stopped(monitor) EXCEPT
            ![CHOOSE m \in Free(monitor) : TRUE] =
              [at |-> "waiting", version |-> v, stopped |-> FALSE]]
  ELSE UNCHANGED monitor

IdleAdd(callback) ==
  /\ Cardinality({i \in DOMAIN idle : idle[i].call = callback.call}) < MaxIdle
  /\ idle' = Append(idle, callback)

-----------------------------------------------------------------------------
Init ==
  /\ current = 1
  /\ job = [enabled |-> TRUE, initialized |-> FALSE]
  /\ failures = 0
  /\ loop = None
  /\ idle = <<>>
  /\ full = NoRun
  /\ monitor = [m \in Instances |-> NoMonitor]
  /\ review = FALSE

\* run_job up to stop_callbacks: nothing happens while the id is running or
\* when the transfer policy defers it.
RunJob(v, quiet) ==
  /\ IF quiet \/ job.enabled THEN UNCHANGED <<job, failures>>
     ELSE job' = [job EXCEPT !.enabled = TRUE] /\ failures' = 0
  /\ \/ Running /\ UNCHANGED <<loop, monitor>>
     \/ ~Running /\ UNCHANGED <<loop, monitor>>     \* deferred by policy
     \/ ~Running /\ loop' = v /\ monitor' = Stopped(monitor)

\* ... and from there: run_async accepts, or refuses because a monitor has
\* started to apply changes in the meantime.
StartRun ==
  /\ loop # None
  /\ full' = IF Running THEN full
             ELSE [at |-> "running", version |-> loop]
  /\ loop' = None
  /\ UNCHANGED <<config, idle, monitor, review>>

\* (Mutant) Only mappings that were synchronized are scheduled.
SchedulerTickLater ==
  /\ loop = None
  /\ current # None
  /\ job.enabled /\ job.initialized /\ ~Running
  /\ RunJob(current, TRUE)
  /\ UNCHANGED <<current, idle, full, review>>

\* A timer: enabled, not manual-only, not running, and the interval is over.
SchedulerTick ==
  /\ loop = None
  /\ current # None
  /\ job.enabled /\ ~Running
  /\ RunJob(current, TRUE)
  /\ UNCHANGED <<current, idle, full, review>>

\* "Sync now".
SyncNow ==
  /\ loop = None
  /\ current # None
  /\ RunJob(current, FALSE)
  /\ review' = FALSE
  /\ UNCHANGED <<current, idle, full>>

\* stop_job: stop the monitor, and signal or mark the run, which then may end
\* as cancelled (as it may anyway, see FullRun) but need not.
Stop == monitor' = Stopped(monitor)

StopJob ==
  /\ loop = None /\ current # None
  /\ Stop
  /\ UNCHANGED <<config, loop, idle, full, review>>

\* The switch of the job's row.
ToggleOff ==
  /\ loop = None /\ current # None
  /\ job' = [job EXCEPT !.enabled = FALSE]
  /\ Stop
  /\ UNCHANGED <<current, failures, loop, idle, full, review>>

ToggleOn ==
  /\ loop = None /\ current # None
  /\ ~job.enabled
  /\ job' = [job EXCEPT !.enabled = TRUE]
  /\ Restart(current, job')
  /\ review' = FALSE
  /\ UNCHANGED <<current, failures, loop, idle, full>>

\* _edit_job with another endpoint: a new object, paused, to be synchronized
\* from the start.
EditEndpoint ==
  /\ loop = None /\ current # None
  /\ current + 1 \in Versions
  /\ job' = NoJob
  /\ current' = current + 1
  /\ Stop
  /\ UNCHANGED <<failures, loop, idle, full, review>>

\* _edit_job with other settings: reconfigure_callbacks starts the monitor
\* again.  (This too replaces the object; versions tell endpoints apart.)
EditSettings ==
  /\ loop = None /\ current # None
  /\ IF job.enabled /\ job.initialized THEN Restart(current, job) ELSE Stop
  /\ UNCHANGED <<config, loop, idle, full, review>>

RemoveJob ==
  /\ loop = None /\ current # None
  /\ current' = None
  /\ job' = NoJob /\ failures' = 0
  /\ Stop
  /\ UNCHANGED <<loop, idle, full, review>>

-----------------------------------------------------------------------------
\* _apply_job_result, for the job that has the result's id now.
Counted(r) ==
  CASE r.kind = "success"   -> {0}
    [] r.kind = "cancelled" -> {failures}
    [] r.kind = "failed"    -> {1, failures + 1}  \* another message or the same

\* (Mutant) A success switches the job on.
ApplyJobResultOn(r) ==
  /\ \E n \in Counted(r) :
       /\ failures' = IF n > FailLimit THEN FailLimit ELSE n
       /\ job' = [enabled |-> \/ r.kind = "success"
                              \/ /\ job.enabled /\ r.pause = "no"
                                 /\ r.kind = "failed" => n < FailLimit,
                  initialized |-> \/ r.kind = "success"
                                  \/ job.initialized /\ r.pause # "resync"]
  /\ IF r.kind = "success" /\ ~r.incremental
     THEN Restart(current, job')
     ELSE UNCHANGED monitor

ApplyJobResult(r) ==
  /\ \E n \in Counted(r) :
       /\ failures' = IF n > FailLimit THEN FailLimit ELSE n
       /\ job' = [enabled |-> /\ job.enabled /\ r.pause = "no"
                              /\ r.kind = "failed" => n < FailLimit,
                  initialized |-> \/ r.kind = "success"
                                  \/ job.initialized /\ r.pause # "resync"]
  /\ IF r.kind = "success" /\ ~r.incremental
     THEN Restart(current, job')
     ELSE UNCHANGED monitor

\* The main loop takes the next idle callback: a result, or a full run that a
\* monitor has asked for (run_job(item, True), for the monitor's own item).
DispatchResult ==
  /\ loop = None
  /\ idle # <<>> /\ Head(idle).call = "result"
  /\ idle' = Tail(idle)
  /\ IF current = None THEN UNCHANGED <<job, failures, monitor>>
     ELSE ApplyJobResult(Head(idle))
  /\ UNCHANGED <<current, loop, full, review>>

DispatchReconcile ==
  /\ loop = None
  /\ idle # <<>> /\ Head(idle).call = "run_job"
  /\ RunJob(Head(idle).version, TRUE)
  /\ idle' = Tail(idle)
  /\ UNCHANGED <<current, full, review>>

-----------------------------------------------------------------------------
\* What the engine's worker reports before it gives up its reservation.
FullReports(kind, pause) ==
  /\ full.at = "running"
  /\ full' = Leaving
  /\ IdleAdd(ResultOf(full.version, kind, pause, FALSE))
  /\ review' = (review \/ pause # "no")
  /\ UNCHANGED <<config, loop, monitor>>

FullOutcome ==
  \/ FullReports("success", "no")
  \/ FullReports("cancelled", "no")
  \/ \E pause \in Pauses \union {"no"} : FullReports("failed", pause)

\* The safety preview ran into its timeout: the thread ends, no callback.
FullVanishes ==
  /\ full.at = "running"
  /\ full' = Leaving
  /\ UNCHANGED <<config, loop, idle, monitor, review>>

\* The reservation ends after the callback.
FullLeaves ==
  /\ full.at = "leaving"
  /\ full' = NoRun
  /\ UNCHANGED <<config, loop, idle, monitor, review>>

FullStep == FullOutcome \/ FullVanishes \/ FullLeaves

-----------------------------------------------------------------------------
Move(m, from, to) ==
  monitor[m].at = from /\ monitor' = [monitor EXCEPT ![m].at = to]

\* (Mutant) The loop does not ask whether it should go on.
MonitorWakesAnyway(m) ==
  /\ Move(m, "waiting", "scanning")
  /\ UNCHANGED <<config, loop, idle, full, review>>

\* The top of ChangeMonitor's loop: not stopped, and the job it holds is
\* enabled.  What follows takes as long as a wait for events, a scan of a
\* large tree or a slot of the transfer gate.
MonitorWakes(m) ==
  /\ ~monitor[m].stopped /\ job.enabled
  /\ Move(m, "waiting", "scanning")
  /\ UNCHANGED <<config, loop, idle, full, review>>

\* Nothing changed, or the provider did not answer.
MonitorWaits(m) ==
  /\ Move(m, "scanning", "waiting")
  /\ UNCHANGED <<config, loop, idle, full, review>>

\* The same path on both sides, a moved directory, an unknown baseline.
MonitorAsksForRun(m) ==
  /\ Move(m, "scanning", "waiting")
  /\ IdleAdd(Reconcile(monitor[m].version))
  /\ UNCHANGED <<config, loop, full, review>>

\* _apply_incremental reserves the id, unless it is running.
MonitorApplies(m) ==
  /\ ~Running
  /\ Move(m, "scanning", "applying")
  /\ UNCHANGED <<config, loop, idle, full, review>>

MonitorReports(m, kind, pause) ==
  /\ Move(m, "applying", "waiting")
  /\ IdleAdd(ResultOf(monitor[m].version, kind, pause, TRUE))
  /\ review' = (review \/ pause # "no")
  /\ UNCHANGED <<config, loop, full>>

MonitorEnds(m) ==
  /\ monitor[m].at = "waiting" /\ monitor[m].stopped
  /\ monitor' = [monitor EXCEPT ![m] = NoMonitor]
  /\ UNCHANGED <<config, loop, idle, full, review>>

MonitorOutcome(m) ==
  \/ MonitorReports(m, "success", "no")
  \/ MonitorReports(m, "failed", "no")
  \/ MonitorReports(m, "failed", "look")

-----------------------------------------------------------------------------
Dispatch == DispatchResult \/ DispatchReconcile

Next ==
  \/ Dispatch \/ StartRun \/ SchedulerTick
  \/ SyncNow \/ StopJob \/ ToggleOff \/ ToggleOn
  \/ EditEndpoint \/ EditSettings \/ RemoveJob
  \/ FullStep
  \/ \E m \in Instances :
        \/ MonitorWakes(m) \/ MonitorWaits(m) \/ MonitorAsksForRun(m)
        \/ MonitorApplies(m) \/ MonitorOutcome(m) \/ MonitorEnds(m)

\* The interval is over and the policy allows the run.
DueRunStarts == SchedulerTick /\ loop' # None

\* At each place of its loop a monitor has one of these steps to take.
MonitorProceeds(m) == MonitorOutcome(m) \/ MonitorWaits(m) \/ MonitorEnds(m)

\* run_job returns; the main loop gets to its idle callbacks between timers
\* that are many seconds apart; a run that was accepted ends, and so does what
\* a monitor scans or transfers; a mapping that stays due and idle is not held
\* back by the transfer policy for ever.
Fairness ==
  /\ WF_vars(StartRun) /\ SF_vars(Dispatch)
  /\ WF_vars(DueRunStarts) /\ WF_vars(FullStep)
  /\ \A m \in Instances : WF_vars(MonitorProceeds(m))

Spec == Init /\ [][Next]_vars /\ Fairness

-----------------------------------------------------------------------------
Callbacks ==
  [call : {"result"}, version : Versions,
   kind : {"success", "failed", "cancelled"},
   pause : Pauses \union {"no"}, incremental : BOOLEAN]
    \union [call : {"run_job"}, version : Versions]

TypeOK ==
  /\ current \in Versions \union {None}
  /\ job \in [enabled : BOOLEAN, initialized : BOOLEAN]
  /\ failures \in 0..FailLimit
  /\ loop \in Versions \union {None}
  /\ idle \in Seq(Callbacks)
  /\ full \in [at : {"none", "running", "leaving"},
               version : Versions \union {None}]
  /\ monitor \in [Instances ->
                   [at : {"none", "waiting", "scanning", "applying"},
                    version : Versions \union {None}, stopped : BOOLEAN]]
  /\ review \in BOOLEAN

Paused == current = None \/ ~job.enabled

\* However edits, removals, restarts and late results interleave, there is at
\* most one monitor that was not told to stop, and it works on the job as it
\* is configured now, not on an endpoint the user has left.
MonitorWatchesCurrent ==
  \A m \in Instances : ~monitor[m].stopped =>
    /\ monitor[m].version = current
    /\ \A i \in Instances \ {m} : monitor[i].stopped

\* A verdict that pauses (a mass change, a corrupt download, a lost baseline)
\* reaches the job's switch, whatever else is queued and whatever succeeds
\* meanwhile: until a user has answered it, the mapping is paused or gone, or
\* the result that will pause it is still in the queue.
VerdictPauses ==
  review => \/ Paused
            \/ \E i \in DOMAIN idle :
                 idle[i].call = "result" /\ idle[i].pause # "no"

\* An enabled mapping is served: it does not stay without a run and without a
\* monitor, although run_job stops the monitor first and run_async may refuse,
\* although a run may end without a result and a failed one restarts nothing.
EnabledIsServed ==
  ~Paused ~> \/ Paused \/ full.at # "none"
             \/ \E m \in Instances : ~monitor[m].stopped

\* A mapping that is paused or removed for good goes quiet: queued
\* reconciliations and monitors that were past their check may still start
\* something, but they run out.
PausedGoesQuiet == <>[]Paused => <>[]~Running
=============================================================================
