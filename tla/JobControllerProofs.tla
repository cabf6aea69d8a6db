------------------------- MODULE JobControllerProofs -------------------------
(***************************************************************************)
(* For any number of endpoints, monitors, failures and callbacks: there is *)
(* one change monitor at most that goes on, and it watches the mapping as  *)
(* it is; and a verdict that pauses is not lost.                           *)
(***************************************************************************)
EXTENDS JobController, TLAPS

Monitors == [at : {"none", "waiting", "scanning", "applying"},
             version : Versions \union {None}, stopped : BOOLEAN]

\* Whoever works knows what on.
Versioned ==
  /\ full.at = "running" => full.version \in Versions
  /\ \A m \in Instances : monitor[m].at # "none" => monitor[m].version \in Versions

IInv == TypeOK /\ Versioned /\ MonitorWatchesCurrent /\ VerdictPauses

-----------------------------------------------------------------------------
\* What stop_callbacks leaves of the monitors.
LEMMA AfterStop ==
  ASSUME TypeOK, Versioned
  PROVE  /\ Stopped(monitor) \in [Instances -> Monitors]
         /\ \A m \in Instances :
              /\ Stopped(monitor)[m].stopped
              /\ Stopped(monitor)[m].at # "none" =>
                   Stopped(monitor)[m].version \in Versions
<1> DEFINE stopped == Stopped(monitor)
<1> SUFFICES ASSUME NEW m \in Instances
             PROVE  /\ stopped[m] \in Monitors
                    /\ stopped[m].stopped
                    /\ stopped[m].at # "none" => stopped[m].version \in Versions
  BY DEF Stopped
<1>1. monitor[m] \in Monitors
  BY DEF TypeOK, Monitors
<1>2. CASE monitor[m].at = "waiting"
  BY <1>2 DEF Stopped, NoMonitor, Monitors
<1>3. CASE monitor[m].at # "waiting"
  BY <1>1, <1>3 DEF Stopped, Versioned, Monitors
<1> QED
  BY <1>2, <1>3

\* What start_callbacks leaves of them.
LEMMA AfterRestart ==
  ASSUME TypeOK, Versioned, NEW v \in Versions, NEW configured, Restart(v, configured)
  PROVE  \/ monitor' = monitor
         \/ /\ monitor' \in [Instances -> Monitors]
            /\ \A m \in Instances :
                 monitor'[m].at # "none" => monitor'[m].version \in Versions
            /\ \A m \in Instances : ~monitor'[m].stopped =>
                 /\ monitor'[m].version = v
                 /\ \A i \in Instances \ {m} : monitor'[i].stopped
<1>1. CASE ~configured.initialized
  BY <1>1 DEF Restart
<1>2. CASE configured.initialized
  <2> DEFINE new == CHOOSE m \in Free(monitor) : TRUE
             started == [at |-> "waiting", version |-> v, stopped |-> FALSE]
  <2>1. new \in Instances
    BY <1>2 DEF Restart, Free
  <2>2. monitor' = [Stopped(monitor) EXCEPT ![new] = started]
    BY <1>2 DEF Restart
  <2>3. started \in Monitors
    BY DEF Monitors
  <2> HIDE DEF new
  <2>4. monitor'[new] = started /\ \A m \in Instances \ {new} : monitor'[m] = Stopped(monitor)[m]
    BY <2>1, <2>2, AfterStop
  <2>5. monitor' \in [Instances -> Monitors]
    BY <2>1, <2>2, <2>3, AfterStop
  <2> QED
    BY <2>1, <2>4, <2>5, AfterStop
<1> QED
  BY <1>1, <1>2

-----------------------------------------------------------------------------
LEMMA InitIInv == Init => IInv
<1> SUFFICES ASSUME Init PROVE IInv
  OBVIOUS
<1>1. TypeOK
  <2>1. 1 \in Versions /\ failures \in 0..FailLimit
    BY ControllerAssumption DEF Init, Versions
  <2>2. idle \in Seq(Callbacks)
    BY DEF Init
  <2>3. monitor \in [Instances -> Monitors]
    BY DEF Init, NoMonitor, Monitors
  <2>4. full \in [at : {"none", "running", "leaving"}, version : Versions \union {None}]
    BY DEF Init, NoRun
  <2> QED
    BY <2>1, <2>2, <2>3, <2>4 DEF Init, TypeOK, Monitors
<1>2. Versioned /\ MonitorWatchesCurrent /\ VerdictPauses
  BY DEF Init, Versioned, MonitorWatchesCurrent, VerdictPauses, NoRun, NoMonitor
<1> QED
  BY <1>1, <1>2 DEF IInv

\* The monitors alone: what a step may do to them.
MonitorsFit ==
  /\ monitor \in [Instances -> Monitors]
  /\ \A m \in Instances : monitor[m].at # "none" => monitor[m].version \in Versions
  /\ MonitorWatchesCurrent

LEMMA FitNow == ASSUME IInv PROVE MonitorsFit
BY DEF IInv, MonitorsFit, TypeOK, Monitors, Versioned

LEMMA StopFits == ASSUME IInv, monitor' = Stopped(monitor) PROVE MonitorsFit'
BY AfterStop DEF IInv, MonitorsFit, MonitorWatchesCurrent

LEMMA RestartFits ==
  ASSUME IInv, current # None, NEW configured, Restart(current, configured),
         UNCHANGED current
  PROVE  MonitorsFit'
<1>1. current \in Versions
  BY DEF IInv, TypeOK
<1>2. CASE monitor' = monitor
  BY <1>2, FitNow DEF MonitorsFit, MonitorWatchesCurrent
<1>3. CASE monitor' # monitor
  BY <1>1, <1>3, AfterRestart DEF IInv, MonitorsFit, MonitorWatchesCurrent
<1> QED
  BY <1>2, <1>3

LEMMA MoveFits ==
  ASSUME IInv, NEW m \in Instances, NEW from \in {"waiting", "scanning", "applying"},
         NEW to \in {"waiting", "scanning", "applying"}, Move(m, from, to),
         UNCHANGED current
  PROVE  MonitorsFit'
<1>1. MonitorsFit
  BY FitNow
<1>2. /\ monitor' = [monitor EXCEPT ![m].at = to]
      /\ monitor[m].at = from
  BY DEF Move
<1>3. \A i \in Instances : /\ monitor'[i].version = monitor[i].version
                           /\ monitor'[i].stopped = monitor[i].stopped
                           /\ i # m => monitor'[i] = monitor[i]
  BY <1>1, <1>2 DEF MonitorsFit, Monitors
<1>4. monitor' \in [Instances -> Monitors]
  BY <1>1, <1>2 DEF MonitorsFit, Monitors
<1> QED
  BY <1>1, <1>2, <1>3, <1>4 DEF MonitorsFit, MonitorWatchesCurrent

LEMMA SameFits ==
  ASSUME IInv, UNCHANGED <<monitor, current>> PROVE MonitorsFit'
BY FitNow DEF MonitorsFit, MonitorWatchesCurrent

LEMMA NextMonitors == IInv /\ [Next]_vars => MonitorsFit'
<1> SUFFICES ASSUME IInv, [Next]_vars PROVE MonitorsFit'
  OBVIOUS
<1> USE DEF config
<1>1. ASSUME NEW v, NEW quiet, RunJob(v, quiet), UNCHANGED current
      PROVE  MonitorsFit'
  BY <1>1, SameFits, StopFits DEF RunJob
<1>2. CASE DispatchResult
  <2>1. CASE monitor' = monitor
    BY <1>2, <2>1, SameFits DEF DispatchResult
  <2>2. CASE monitor' # monitor
    BY <1>2, <2>2, RestartFits DEF DispatchResult, ApplyJobResult
  <2> QED
    BY <2>1, <2>2
<1>3. CASE DispatchReconcile
  BY <1>1, <1>3 DEF DispatchReconcile
<1>4. CASE StartRun
  BY <1>4, SameFits DEF StartRun
<1>5. CASE SchedulerTick
  BY <1>1, <1>5 DEF SchedulerTick
<1>6. CASE SyncNow
  BY <1>1, <1>6 DEF SyncNow
<1>7. CASE StopJob
  BY <1>7, StopFits DEF StopJob, Stop
<1>8. CASE ToggleOff
  BY <1>8, StopFits DEF ToggleOff, Stop
<1>9. CASE ToggleOn
  BY <1>9, RestartFits DEF ToggleOn
<1>10. CASE EditEndpoint
  BY <1>10, StopFits DEF EditEndpoint, Stop
<1>11. CASE EditSettings
  <2>1. CASE Stop
    BY <2>1, StopFits DEF Stop
  <2>2. CASE ~Stop
    BY <1>11, <2>2, RestartFits DEF EditSettings
  <2> QED
    BY <2>1, <2>2
<1>12. CASE RemoveJob
  BY <1>12, StopFits DEF RemoveJob, Stop
<1>13. CASE FullStep
  BY <1>13, SameFits DEF FullStep, FullOutcome, FullReports, FullVanishes, FullLeaves
<1>14. ASSUME NEW m \in Instances,
              \/ MonitorWakes(m) \/ MonitorWaits(m) \/ MonitorAsksForRun(m)
              \/ MonitorApplies(m) \/ MonitorOutcome(m)
       PROVE  MonitorsFit'
  BY <1>14, MoveFits
     DEF MonitorWakes, MonitorWaits, MonitorAsksForRun, MonitorApplies,
         MonitorOutcome, MonitorReports
<1>15. ASSUME NEW m \in Instances, MonitorEnds(m)
       PROVE  MonitorsFit'
  BY <1>15, FitNow DEF MonitorEnds, MonitorsFit, MonitorWatchesCurrent, NoMonitor, Monitors
<1>16. CASE UNCHANGED vars
  BY <1>16, SameFits DEF vars
<1> QED
  BY <1>2, <1>3, <1>4, <1>5, <1>6, <1>7, <1>8, <1>9, <1>10, <1>11, <1>12, <1>13,
     <1>14, <1>15, <1>16 DEF Next, Dispatch

-----------------------------------------------------------------------------
Job == [enabled : BOOLEAN, initialized : BOOLEAN]
Runs == [at : {"none", "running", "leaving"}, version : Versions \union {None}]

\* The rest of the types: all but the monitors.
Fields ==
  /\ current \in Versions \union {None} /\ job \in Job
  /\ failures \in 0..FailLimit /\ loop \in Versions \union {None}
  /\ idle \in Seq(Callbacks)
  /\ full \in Runs /\ (full.at = "running" => full.version \in Versions)
  /\ review \in BOOLEAN

LEMMA FieldsNow == ASSUME IInv PROVE Fields
BY DEF IInv, TypeOK, Versioned, Fields, Job, Runs

LEMMA IdleAddType ==
  ASSUME idle \in Seq(Callbacks), NEW c \in Callbacks, IdleAdd(c)
  PROVE  /\ idle' \in Seq(Callbacks)
         /\ \A i \in DOMAIN idle : i \in DOMAIN idle' /\ idle'[i] = idle[i]
         /\ Len(idle') \in DOMAIN idle' /\ idle'[Len(idle')] = c
BY DEF IdleAdd

LEMMA RunJobType ==
  ASSUME IInv, NEW v \in Versions, NEW quiet \in BOOLEAN, RunJob(v, quiet)
  PROVE  /\ job' \in Job /\ failures' \in 0..FailLimit
         /\ loop' \in Versions \union {None}
         /\ quiet => job' = job
<1>1. job \in Job /\ failures \in 0..FailLimit /\ loop \in Versions \union {None}
  BY FieldsNow DEF Fields
<1>2. 0 \in 0..FailLimit
  BY ControllerAssumption
<1>3. [job EXCEPT !.enabled = TRUE] \in Job
  BY <1>1 DEF Job
<1> QED
  BY <1>1, <1>2, <1>3 DEF RunJob

LEMMA ApplyType ==
  ASSUME IInv, NEW r \in Callbacks, r.call = "result", ApplyJobResult(r)
  PROVE  /\ job' \in Job /\ failures' \in 0..FailLimit
         /\ job'.enabled => job.enabled /\ r.pause = "no"
<1>1. job \in Job /\ failures \in 0..FailLimit
  BY FieldsNow DEF Fields
<1>2. r.kind \in {"success", "failed", "cancelled"} /\ r.pause \in Pauses \union {"no"}
  BY DEF Callbacks
<1>3. PICK n \in Counted(r) :
        /\ failures' = IF n > FailLimit THEN FailLimit ELSE n
        /\ job' = [enabled |-> /\ job.enabled /\ r.pause = "no"
                               /\ r.kind = "failed" => n < FailLimit,
                   initialized |-> \/ r.kind = "success"
                                   \/ job.initialized /\ r.pause # "resync"]
  BY DEF ApplyJobResult
<1>4. n \in Nat
  BY <1>1, <1>2, ControllerAssumption DEF Counted
<1>5. failures' \in 0..FailLimit
  BY <1>3, <1>4, ControllerAssumption
<1>6. job' \in Job /\ (job'.enabled => job.enabled /\ r.pause = "no")
  BY <1>1, <1>3 DEF Job
<1> QED
  BY <1>5, <1>6

LEMMA NextFields == IInv /\ [Next]_vars => Fields'
<1> SUFFICES ASSUME IInv, [Next]_vars PROVE Fields'
  OBVIOUS
<1>0. Fields
  BY FieldsNow
<1> USE DEF config
<1>1. CASE DispatchResult
  <2>1. Head(idle) \in Callbacks /\ Tail(idle) \in Seq(Callbacks)
    BY <1>0, <1>1 DEF DispatchResult, Fields
  <2> QED
    BY <1>0, <1>1, <2>1, ApplyType DEF DispatchResult, Fields
<1>2. CASE DispatchReconcile
  <2>1. Head(idle) \in Callbacks /\ Tail(idle) \in Seq(Callbacks)
    BY <1>0, <1>2 DEF DispatchReconcile, Fields
  <2>2. Head(idle).version \in Versions
    BY <2>1 DEF Callbacks
  <2> QED
    BY <1>0, <1>2, <2>1, <2>2, RunJobType DEF DispatchReconcile, Fields
<1>3. CASE StartRun
  BY <1>0, <1>3 DEF StartRun, Fields, Runs
<1>4. CASE SchedulerTick
  BY <1>0, <1>4, RunJobType DEF SchedulerTick, Fields
<1>5. CASE SyncNow
  BY <1>0, <1>5, RunJobType DEF SyncNow, Fields
<1>6. CASE StopJob \/ EditSettings
  BY <1>0, <1>6 DEF StopJob, EditSettings, Fields
<1>7. CASE ToggleOff
  BY <1>0, <1>7 DEF ToggleOff, Fields, Job
<1>8. CASE ToggleOn
  BY <1>0, <1>8 DEF ToggleOn, Fields, Job
<1>9. CASE EditEndpoint
  BY <1>0, <1>9 DEF EditEndpoint, Fields, Job, NoJob
<1>10. CASE RemoveJob
  BY <1>0, <1>10, ControllerAssumption DEF RemoveJob, Fields, Job, NoJob
<1>11. ASSUME NEW kind \in {"success", "failed", "cancelled"},
              NEW pause \in Pauses \union {"no"}, FullReports(kind, pause)
       PROVE  Fields'
  <2>1. ResultOf(full.version, kind, pause, FALSE) \in Callbacks
    BY <1>0, <1>11 DEF FullReports, Fields, ResultOf, Callbacks
  <2>2. idle' \in Seq(Callbacks)
    BY <1>0, <1>11, <2>1, IdleAddType DEF FullReports, Fields
  <2> QED
    BY <1>0, <1>11, <2>2 DEF FullReports, Fields, Leaving, Runs
<1>12. CASE FullVanishes \/ FullLeaves
  BY <1>0, <1>12 DEF FullVanishes, FullLeaves, Fields, Leaving, NoRun, Runs
<1>13. ASSUME NEW m \in Instances,
              \/ MonitorWakes(m) \/ MonitorWaits(m) \/ MonitorApplies(m) \/ MonitorEnds(m)
       PROVE  Fields'
  BY <1>0, <1>13 DEF MonitorWakes, MonitorWaits, MonitorApplies, MonitorEnds, Fields
<1>14. ASSUME NEW m \in Instances, MonitorAsksForRun(m)
       PROVE  Fields'
  <2>1. monitor[m].version \in Versions
    BY <1>14 DEF MonitorAsksForRun, Move, IInv, Versioned
  <2>2. Reconcile(monitor[m].version) \in Callbacks
    BY <2>1 DEF Reconcile, Callbacks
  <2> QED
    BY <1>0, <1>14, <2>2, IdleAddType DEF MonitorAsksForRun, Fields
<1>15. ASSUME NEW m \in Instances, NEW kind \in {"success", "failed"},
              NEW pause \in {"look", "no"}, MonitorReports(m, kind, pause)
       PROVE  Fields'
  <2>1. monitor[m].version \in Versions
    BY <1>15 DEF MonitorReports, Move, IInv, Versioned
  <2>2. ResultOf(monitor[m].version, kind, pause, TRUE) \in Callbacks
    BY <2>1 DEF ResultOf, Callbacks, Pauses
  <2>3. idle' \in Seq(Callbacks)
    BY <1>0, <1>15, <2>2, IdleAddType DEF MonitorReports, Fields
  <2> QED
    BY <1>0, <1>15, <2>3 DEF MonitorReports, Fields
<1>16. CASE UNCHANGED vars
  BY <1>0, <1>16 DEF vars, Fields
<1> QED
  BY <1>1, <1>2, <1>3, <1>4, <1>5, <1>6, <1>7, <1>8, <1>9, <1>10, <1>11, <1>12,
     <1>13, <1>14, <1>15, <1>16
     DEF Next, Dispatch, FullStep, FullOutcome, MonitorOutcome, Pauses

-----------------------------------------------------------------------------
\* A result in the queue that will pause the mapping.
Coming == \E i \in DOMAIN idle : idle[i].call = "result" /\ idle[i].pause # "no"

LEMMA QueueGrows ==
  ASSUME IInv, NEW c \in Callbacks, IdleAdd(c)
  PROVE  /\ Coming => Coming'
         /\ c.call = "result" /\ c.pause # "no" => Coming'
BY FieldsNow, IdleAddType DEF Fields, Coming

\* What leaves the queue is all that is missing then.
LEMMA QueueShrinks ==
  ASSUME IInv, idle # <<>>, idle' = Tail(idle), Coming
  PROVE  Coming' \/ (Head(idle).call = "result" /\ Head(idle).pause # "no")
<1>1. PICK i \in 1..Len(idle) : idle[i].call = "result" /\ idle[i].pause # "no"
  BY FieldsNow DEF Coming, Fields
<1>2. CASE i = 1
  BY <1>1, <1>2, FieldsNow DEF Fields
<1>3. CASE i # 1
  <2>1. i - 1 \in DOMAIN idle' /\ idle'[i - 1] = idle[i]
    BY <1>1, <1>3, FieldsNow DEF Fields
  <2> QED
    BY <1>1, <2>1 DEF Coming
<1> QED
  BY <1>2, <1>3

LEMMA NextVerdict == IInv /\ [Next]_vars => VerdictPauses'
<1> SUFFICES ASSUME IInv, [Next]_vars PROVE VerdictPauses'
  OBVIOUS
<1>0. Fields /\ (review => Paused \/ Coming)
  BY FieldsNow DEF IInv, VerdictPauses, Coming
<1>q. SUFFICES ASSUME review' PROVE Paused' \/ Coming'
  BY DEF VerdictPauses, Coming
<1> USE DEF config
<1>1. CASE DispatchResult
  <2>1. Head(idle) \in Callbacks
    BY <1>0, <1>1 DEF DispatchResult, Fields
  <2>2. CASE current = None
    BY <1>1, <2>2 DEF DispatchResult, Paused
  <2>3. CASE current # None
    <3>1. job'.enabled => job.enabled /\ Head(idle).pause = "no"
      BY <1>1, <2>1, <2>3, ApplyType DEF DispatchResult
    <3>2. Coming => Coming' \/ Head(idle).pause # "no"
      BY <1>1, QueueShrinks DEF DispatchResult
    <3> QED
      BY <1>0, <1>1, <1>q, <3>1, <3>2 DEF DispatchResult, Paused
  <2> QED
    BY <2>2, <2>3
<1>2. CASE DispatchReconcile
  <2>1. Head(idle) \in Callbacks
    BY <1>0, <1>2 DEF DispatchReconcile, Fields
  <2>2. Head(idle).version \in Versions
    BY <1>2, <2>1 DEF DispatchReconcile, Callbacks
  <2>3. job' = job
    BY <1>2, <2>2, RunJobType DEF DispatchReconcile
  <2>4. Coming => Coming'
    BY <1>2, QueueShrinks DEF DispatchReconcile
  <2> QED
    BY <1>0, <1>2, <1>q, <2>3, <2>4 DEF DispatchReconcile, Paused
<1>3. CASE StartRun
  BY <1>0, <1>q, <1>3 DEF StartRun, Paused, Coming
<1>4. CASE SchedulerTick
  <2>1. job' = job
    BY <1>0, <1>4, RunJobType DEF SchedulerTick, Fields
  <2> QED
    BY <1>0, <1>q, <1>4, <2>1 DEF SchedulerTick, Paused, Coming
<1>5. CASE SyncNow \/ ToggleOn
  BY <1>q, <1>5 DEF SyncNow, ToggleOn
<1>6. CASE StopJob \/ EditSettings
  BY <1>0, <1>q, <1>6 DEF StopJob, EditSettings, Paused, Coming
<1>7. CASE ToggleOff
  BY <1>0, <1>7 DEF ToggleOff, Fields, Job, Paused
<1>8. CASE EditEndpoint
  BY <1>8 DEF EditEndpoint, NoJob, Paused
<1>9. CASE RemoveJob
  BY <1>9 DEF RemoveJob, Paused
<1>10. ASSUME NEW kind \in {"success", "failed", "cancelled"},
              NEW pause \in Pauses \union {"no"}, FullReports(kind, pause)
       PROVE  Paused' \/ Coming'
  <2> DEFINE result == ResultOf(full.version, kind, pause, FALSE)
  <2>1. result \in Callbacks /\ result.call = "result" /\ result.pause = pause
    BY <1>0, <1>10 DEF FullReports, Fields, ResultOf, Callbacks
  <2>2. IdleAdd(result)
    BY <1>10 DEF FullReports
  <2> HIDE DEF result
  <2>3. (Coming => Coming') /\ (pause # "no" => Coming')
    BY <2>1, <2>2, QueueGrows
  <2> QED
    BY <1>0, <1>q, <1>10, <2>3 DEF FullReports, Paused
<1>11. CASE FullVanishes \/ FullLeaves
  BY <1>0, <1>q, <1>11 DEF FullVanishes, FullLeaves, Paused, Coming
<1>12. ASSUME NEW m \in Instances,
              \/ MonitorWakes(m) \/ MonitorWaits(m) \/ MonitorApplies(m) \/ MonitorEnds(m)
       PROVE  Paused' \/ Coming'
  BY <1>0, <1>q, <1>12
     DEF MonitorWakes, MonitorWaits, MonitorApplies, MonitorEnds, Paused, Coming
<1>13. ASSUME NEW m \in Instances, MonitorAsksForRun(m)
       PROVE  Paused' \/ Coming'
  <2>1. Reconcile(monitor[m].version) \in Callbacks
    BY <1>13 DEF MonitorAsksForRun, Move, IInv, Versioned, Reconcile, Callbacks
  <2>2. Coming => Coming'
    BY <1>13, <2>1, QueueGrows DEF MonitorAsksForRun
  <2> QED
    BY <1>0, <1>q, <1>13, <2>2 DEF MonitorAsksForRun, Paused
<1>14. ASSUME NEW m \in Instances, NEW kind \in {"success", "failed"},
              NEW pause \in {"look", "no"}, MonitorReports(m, kind, pause)
       PROVE  Paused' \/ Coming'
  <2> DEFINE result == ResultOf(monitor[m].version, kind, pause, TRUE)
  <2>1. monitor[m].version \in Versions
    BY <1>14 DEF MonitorReports, Move, IInv, Versioned
  <2>2. result \in Callbacks /\ result.call = "result" /\ result.pause = pause
    BY <2>1 DEF ResultOf, Callbacks, Pauses
  <2>3. IdleAdd(result)
    BY <1>14 DEF MonitorReports
  <2> HIDE DEF result
  <2>4. (Coming => Coming') /\ (pause # "no" => Coming')
    BY <2>2, <2>3, QueueGrows
  <2> QED
    BY <1>0, <1>q, <1>14, <2>4 DEF MonitorReports, Paused
<1>15. CASE UNCHANGED vars
  BY <1>0, <1>q, <1>15 DEF vars, Paused, Coming
<1> QED
  BY <1>1, <1>2, <1>3, <1>4, <1>5, <1>6, <1>7, <1>8, <1>9, <1>10, <1>11, <1>12,
     <1>13, <1>14, <1>15
     DEF Next, Dispatch, FullStep, FullOutcome, MonitorOutcome, Pauses

-----------------------------------------------------------------------------
LEMMA Invariant == Spec => []IInv
<1>1. IInv /\ [Next]_vars => IInv'
  <2> SUFFICES ASSUME IInv, [Next]_vars PROVE IInv'
    OBVIOUS
  <2>1. MonitorsFit' /\ Fields' /\ VerdictPauses'
    BY NextMonitors, NextFields, NextVerdict
  <2>2. TypeOK' /\ Versioned'
    BY <2>1 DEF MonitorsFit, Fields, TypeOK, Versioned, Monitors, Job, Runs
  <2> QED
    BY <2>1, <2>2 DEF IInv, MonitorsFit
<1> QED
  BY <1>1, InitIInv, PTL DEF Spec

\* The types of JobController.
THEOREM TypeCorrect == Spec => []TypeOK
<1>1. IInv => TypeOK
  BY DEF IInv
<1> QED
  BY <1>1, Invariant, PTL

\* However the main loop's handlers, runs and monitors interleave, one change monitor
\* at most goes on, and it holds the mapping as it is configured (engine.py,
\* start_callbacks and stop_callbacks).
THEOREM OneMonitorGoesOn == Spec => []MonitorWatchesCurrent
<1>1. IInv => MonitorWatchesCurrent
  BY DEF IInv
<1> QED
  BY <1>1, Invariant, PTL

\* A verdict that pauses reaches the mapping's switch or is still in the main loop's
\* queue (app.py, _apply_job_result).
THEOREM VerdictsArrive == Spec => []VerdictPauses
<1>1. IInv => VerdictPauses
  BY DEF IInv
<1> QED
  BY <1>1, Invariant, PTL
=============================================================================
