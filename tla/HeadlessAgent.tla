---------------------------- MODULE HeadlessAgent ----------------------------
(***************************************************************************)
(* The headless agent of the self-hosted server (server.py): a scheduler   *)
(* that starts the synchronization jobs that are due, the results that     *)
(* their threads report, and the pauses it writes to the client's          *)
(* configuration.  What a job does is SyncEngine's.                        *)
(***************************************************************************)
EXTENDS Naturals, FiniteSets

CONSTANTS Jobs   \* the jobs of the configuration that are not mounts

ASSUME AgentAssumption == Jobs \intersect {"waiting", "visiting", "dead"} = {}

VARIABLES
  enabled,    \* job.enabled
  savedOn,    \* the same in the configuration on the disk
  due,        \* the interval has passed since _last_started
  running,    \* "yes", "reported" (the callback has returned) or "no"
  results,    \* _results
  scheduler,  \* "waiting", "visiting", "dead", or the job it decided to run
  visit,      \* jobs it has yet to look at
  late        \* ghost: how often it started the job since it was paused

agentVars == <<enabled, savedOn, due, running, results, scheduler, visit, late>>

NotStarted(j) == running[j] = "no"
PolicyVerdicts == {"allowed", "refused"}

AgentInit ==
  /\ enabled = [j \in Jobs |-> TRUE] /\ savedOn = enabled
  /\ due = [j \in Jobs |-> FALSE]
  /\ running = [j \in Jobs |-> "no"]
  /\ results = [j \in Jobs |-> "none"]
  /\ scheduler = "waiting" /\ visit = {}
  /\ late = [j \in Jobs |-> 0]

-----------------------------------------------------------------------------
\* run, under the agent's lock, once the policy allows it: the engine may be
\* at work on the job already.
Run(j) ==
  IF NotStarted(j)
  THEN running' = [running EXCEPT ![j] = "yes"] /\ due' = [due EXCEPT ![j] = FALSE]
  ELSE UNCHANGED <<running, due>>

IntervalPasses(j) ==
  /\ ~due[j]
  /\ due' = [due EXCEPT ![j] = TRUE]
  /\ UNCHANGED <<enabled, savedOn, running, results, scheduler, visit, late>>

SchedulerWakes ==
  /\ scheduler = "waiting"
  /\ scheduler' = "visiting" /\ visit' = Jobs
  /\ UNCHANGED <<enabled, savedOn, due, running, results, late>>

\* (Mutant) The scheduler does not look whether the job is enabled.
SchedulerLooksAtClock(j) ==
  /\ scheduler = "visiting" /\ j \in visit
  /\ visit' = visit \ {j}
  /\ scheduler' = IF due[j] THEN j ELSE "visiting"
  /\ UNCHANGED <<enabled, savedOn, due, running, results, late>>

\* What it reads here may have changed when it runs the job.
SchedulerLooks(j) ==
  /\ scheduler = "visiting" /\ j \in visit
  /\ visit' = visit \ {j}
  /\ scheduler' = IF enabled[j] /\ due[j] THEN j ELSE "visiting"
  /\ UNCHANGED <<enabled, savedOn, due, running, results, late>>

\* The policy's refusal is an exception that nothing catches.
SchedulerRuns(j, policy) ==
  /\ scheduler = j
  /\ IF policy = "refused"
     THEN scheduler' = "dead" /\ UNCHANGED <<running, due, late>>
     ELSE /\ scheduler' = "visiting"
          /\ Run(j)
          /\ late' = IF NotStarted(j) /\ ~enabled[j]
                     THEN [late EXCEPT ![j] = @ + 1] ELSE late
  /\ UNCHANGED <<enabled, savedOn, results, visit>>

SchedulerSleeps ==
  /\ scheduler = "visiting" /\ visit = {}
  /\ scheduler' = "waiting"
  /\ UNCHANGED <<enabled, savedOn, due, running, results, visit, late>>

\* The owner starts a job through the API, also one that is paused; a refusal
\* is the request's answer.
ApiRun(j) ==
  /\ Run(j)
  /\ UNCHANGED <<enabled, savedOn, results, scheduler, visit, late>>

\* _finished: a job whose contents cannot be trusted is paused, and that is on
\* the disk before the result is shown.  If it cannot be written the callback
\* fails, with the pause in memory only.
Finished(j, verdict) ==
  /\ running[j] = "yes"
  /\ enabled' = [enabled EXCEPT ![j] = @ /\ verdict # "blocked"]
  /\ running' = [running EXCEPT ![j] = "reported"]
  /\ \/ savedOn' = enabled' /\ results' = [results EXCEPT ![j] = verdict]
     \/ UNCHANGED <<savedOn, results>>
  /\ UNCHANGED <<due, scheduler, visit, late>>

\* The engine's thread leaves its tables after the callback.
Leaves(j) ==
  /\ running[j] = "reported"
  /\ running' = [running EXCEPT ![j] = "no"]
  /\ UNCHANGED <<enabled, savedOn, due, results, scheduler, visit, late>>

\* The process ends and starts again.  A job that is due at once by its
\* last_run is one whose interval passes before the scheduler first wakes.
AgentRestarts ==
  /\ enabled' = savedOn
  /\ due' = [j \in Jobs |-> FALSE]
  /\ running' = [j \in Jobs |-> "no"] /\ results' = [j \in Jobs |-> "none"]
  /\ scheduler' = "waiting" /\ visit' = {}
  /\ late' = [j \in Jobs |-> 0]
  /\ UNCHANGED savedOn

\* A failure that blocks nothing is recorded and tried again, like a success.
Verdicts == {"done", "blocked"}

AgentNext ==
  \/ SchedulerWakes \/ SchedulerSleeps
  \/ \E j \in Jobs :
       \/ IntervalPasses(j) \/ SchedulerLooks(j) \/ Leaves(j)
       \/ \E policy \in PolicyVerdicts : SchedulerRuns(j, policy)
       \/ \E verdict \in Verdicts : Finished(j, verdict)

-----------------------------------------------------------------------------
AgentTypeOK ==
  /\ enabled \in [Jobs -> BOOLEAN] /\ savedOn \in [Jobs -> BOOLEAN]
  /\ due \in [Jobs -> BOOLEAN]
  /\ running \in [Jobs -> {"yes", "reported", "no"}]
  /\ results \in [Jobs -> {"none"} \union Verdicts]
  /\ scheduler \in {"waiting", "visiting", "dead"} \union Jobs
  /\ visit \subseteq Jobs /\ late \in [Jobs -> Nat]

\* A job that is paused because its contents cannot be trusted stays so: the
\* verdict that is shown is on the disk, so that it outlives the process, and
\* the scheduler starts the job at most once more, when it had decided to
\* before the verdict.
PausesAreKept ==
  \A j \in Jobs :
    /\ results[j] = "blocked" => ~savedOn[j]
    /\ late[j] <= 1
=============================================================================
