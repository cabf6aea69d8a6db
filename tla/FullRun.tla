------------------------------- MODULE FullRun -------------------------------
(***************************************************************************)
(* One full synchronization of a mapping: SyncEngine._run_worker for the   *)
(* rclone engines (engine.py), from the moment the gate admits it to its   *)
(* callback.  It decides whether the real transfer may start, starts it,   *)
(* watches its output, judges how it ended, and calls itself again after   *)
(* renaming a duplicated cloud object or for a fresh provider listing.     *)
(*                                                                         *)
(* rclone, the provider and the user are the environment: what rclone      *)
(* prints, how it exits and what its listings say is nondeterministic.     *)
(* Log text is reduced to the markers the code looks for in the part of    *)
(* the day's log that this attempt wrote, and to the one it looks for in   *)
(* what earlier attempts and runs of the day wrote.  No search reads       *)
(* everything: duplicates are looked for in the first 4 MiB of the         *)
(* attempt, stale directories and corrupt files in its last 8 MiB, the     *)
(* need of a resync in the last 64 KiB of the day.                         *)
(***************************************************************************)
EXTENDS Naturals, FiniteSets

CONSTANTS Kinds,          \* the mappings and calls considered (see KindType)
          MaxDuplicates,  \* _MAX_DUPLICATE_RECOVERY_ATTEMPTS
          StaleLimit      \* _STALE_GOOGLE_ERROR_LIMIT

Modes == {"two_way", "upload_only", "download_only"}

\* What _run_worker asks of the job and of its dry_run argument; "ai" is an
\* AI backup with version history.
KindType == [mode : Modes, initialized : BOOLEAN, protected : BOOLEAN,
             ai : BOOLEAN, leases : BOOLEAN, dry : BOOLEAN]

ASSUME RunAssumption ==
  /\ Kinds \subseteq KindType
  /\ MaxDuplicates \in Nat \ {0} /\ StaleLimit \in Nat \ {0}

\* Lines of rclone that the code recognises, and a duplicate that it does not
\* find, because rclone named it after the attempt's first 4 MiB of output.
Markers == {"stale", "duplicate", "lateDuplicate", "mustResync", "corrupt"}

VARIABLES
  run,          \* the job's settings and the dry_run argument
  pc,
  duplicates,   \* duplicate_recovery_attempts
  refreshes,    \* provider_refresh_attempts
  force,        \* force_resync
  reinit,       \* auto_reinitialize
  previewed,    \* this attempt's safety preview passed
  baselines,    \* a complete pair of bisync listings is on disk
  log,          \* markers after run_log_offset, as far as they are read
  today,        \* the tail of the day's log before it asks for a resync
  staleLines,   \* stale_google_errors
  stopped,      \* why the process was sent SIGTERM
  rc,           \* return_code
  sides,        \* what the final listings say of the two sides
  resync,       \* the last command had --resync
  effects,      \* what was changed besides the transfer itself
  result        \* the JobResult

attempt == <<duplicates, refreshes, force>>
command == <<reinit, previewed, resync>>
outside == <<baselines, sides, log, today, effects>>
process == <<staleLines, stopped, rc>>
vars == <<run, pc, attempt, command, outside, process, result>>

TwoWay == run.mode = "two_way"

Go(from, to) == pc = from /\ pc' = to

Outcome(kind, flags) == [kind |-> kind, flags |-> flags]
Result(kind, flags) == result' = Outcome(kind, flags)
Unreported == Outcome("none", {})

-----------------------------------------------------------------------------
Init ==
  /\ run \in Kinds
  /\ pc = "state"
  /\ duplicates = 0 /\ refreshes = 0 /\ force = FALSE
  /\ reinit = FALSE /\ previewed = FALSE /\ resync = FALSE
  /\ baselines \in IF TwoWay /\ run.initialized THEN BOOLEAN ELSE {FALSE}
  /\ log = {} /\ today \in BOOLEAN
  /\ staleLines = 0 /\ stopped = {} /\ rc = "none"
  /\ sides = "unknown"
  /\ effects = {}
  /\ result = Unreported

\* Two-way only: look for the listings; staging files of a half-finished pair
\* are removed when there are none.
InspectState ==
  LET missing == TwoWay /\ run.initialized /\ ~run.dry /\ ~baselines IN
  /\ Go("state", "leases")
  /\ reinit' = missing
  /\ effects' = IF missing THEN effects \union {"cleared"} ELSE effects
  /\ UNCHANGED <<run, attempt, previewed, resync, baselines, sides, log, today,
                 process, result>>

\* rclone cannot be found or installed, or not be started.
CannotStart ==
  /\ Go("state", "finished") \/ Go("launching", "finished")
  /\ Result("failed", {})
  /\ UNCHANGED <<run, attempt, command, outside, process>>

LeasesForbid ==
  /\ run.leases /\ ~run.dry
  /\ Go("leases", "finished")
  /\ Result("failed", {"lease"})
  /\ UNCHANGED <<run, attempt, command, outside, process>>

\* Nobody else holds a lease, or nobody asks.
LeasesAllow ==
  /\ Go("leases", "guard")
  /\ UNCHANGED <<run, attempt, command, outside, process, result>>

\* (Mutant) The repeat after a provider refresh is not previewed again.
NeedsPreviewOnce ==
  run.protected /\ run.initialized /\ ~run.dry /\ ~reinit /\ refreshes = 0

NeedsPreview == run.protected /\ run.initialized /\ ~run.dry /\ ~reinit

SkipPreview ==
  /\ ~NeedsPreview
  /\ Go("guard", "launching")
  /\ UNCHANGED <<run, attempt, command, outside, process, result>>

StartPreview ==
  /\ NeedsPreview
  /\ Go("guard", "previewing")
  /\ UNCHANGED <<run, attempt, command, outside, process, result>>

PreviewPasses ==
  /\ Go("previewing", "launching")
  /\ previewed' = TRUE
  /\ UNCHANGED <<run, attempt, reinit, resync, outside, process, result>>

\* bisync says that the listings are missing.
PreviewFindsNoState ==
  /\ TwoWay
  /\ Go("previewing", "launching")
  /\ reinit' = TRUE
  /\ UNCHANGED <<run, attempt, previewed, resync, outside, process, result>>

\* A suspicious mass change, or a preview that ended with an error.
PreviewForbids ==
  /\ Go("previewing", "finished")
  /\ \E flags \in {{"massChange"}, {}} : Result("failed", flags)
  /\ UNCHANGED <<run, attempt, command, outside, process>>

\* subprocess.TimeoutExpired passes every except clause: no result.
PreviewTimesOut ==
  /\ Go("previewing", "unwinding")
  /\ UNCHANGED <<run, attempt, command, outside, process, result>>

\* (Mutant) The day's log decides about --resync.
LaunchByLog ==
  /\ Go("launching", "spawned")
  /\ resync' = (TwoWay /\ (~run.initialized \/ reinit \/ force \/ today))
  /\ today' = (today \/ "mustResync" \in log) /\ log' = {}
  /\ staleLines' = 0 /\ stopped' = {} /\ rc' = "none"
  /\ UNCHANGED <<run, attempt, reinit, previewed, baselines, sides, effects,
                 result>>

\* command_for_job and Popen; the attempt's part of the log starts here.
Launch ==
  /\ Go("launching", "spawned")
  /\ resync' = (TwoWay /\ (~run.initialized \/ reinit \/ force))
  /\ today' = (today \/ "mustResync" \in log) /\ log' = {}
  /\ staleLines' = 0 /\ stopped' = {} /\ rc' = "none"
  /\ UNCHANGED <<run, attempt, reinit, previewed, baselines, sides, effects,
                 result>>

\* The process enters the table, where cancel finds it.
Track ==
  /\ Go("spawned", "running")
  /\ UNCHANGED <<run, attempt, command, outside, process, result>>

PrintMarker(marker) ==
  /\ Go("running", "running")
  /\ marker # "stale"
  /\ log' = log \union {marker}
  /\ UNCHANGED <<run, attempt, command, baselines, sides, today, effects,
                 process, result>>

\* A missing-directory response of Google Drive; at the limit the process is
\* terminated and its output is read no further.
PrintStale ==
  /\ pc = "running"
  /\ staleLines' = staleLines + 1
  /\ log' = log \union {"stale"}
  /\ IF staleLines' >= StaleLimit
     THEN pc' = "stopping" /\ stopped' = stopped \union {"stale"}
     ELSE pc' = pc /\ stopped' = stopped
  /\ UNCHANGED <<run, attempt, command, baselines, sides, today, effects, rc,
                 result>>

\* So much is printed that what was there leaves the part that is searched at
\* the end: first that of the day's log, then that of the attempt.  A demand
\* for a resync is what rclone says last.
LogGrows ==
  /\ Go("running", "running")
  /\ today' = FALSE
  /\ log' \in {log, log \ {"stale", "corrupt"}}
  /\ UNCHANGED <<run, attempt, command, baselines, sides, effects, process,
                 result>>

\* Thirty minutes without payload, noticed when a line is read.
NoProgress ==
  /\ Go("running", "stopping")
  /\ stopped' = stopped \union {"noProgress"}
  /\ UNCHANGED <<run, attempt, command, outside, staleLines, rc, result>>

\* SyncEngine.cancel terminates the process that the table shows.
UserStops ==
  /\ pc \in {"running", "stopping"}
  /\ stopped' = stopped \union {"user"}
  /\ UNCHANGED <<run, pc, attempt, command, outside, staleLines, rc, result>>

\* A process that was sent SIGTERM may have been past caring.  A successful
\* bisync leaves a pair of listings, and one that says a resync is needed
\* has put its listings aside; a dry run touches neither.
ProcessExits(code) ==
  /\ Go("running", "exited") \/ Go("stopping", "exited")
  /\ code = "sigterm" => stopped # {}
  /\ rc' = code
  /\ LET real == TwoWay /\ ~run.dry IN
     /\ baselines' =
          ((baselines /\ ~(real /\ code = "error" /\ "mustResync" \in log))
             \/ (real /\ code = "ok"))
     /\ sides' \in IF real /\ code = "ok" THEN {"agree", "differ", "unknown"}
                                         ELSE {"unknown"}
  /\ UNCHANGED <<run, attempt, command, log, today, effects, staleLines,
                 stopped, result>>

-----------------------------------------------------------------------------
\* Exit code 0.  _prune_remote_history runs first, whatever is decided next.
Pruned == IF run.ai THEN effects \union {"pruned"} ELSE effects

Judge == pc = "exited" /\ rc = "ok"
\* (Mutant) The first run's listings are not verified.
MustVerifyLater == TwoWay /\ ~run.dry /\ run.initialized

MustVerify == TwoWay /\ ~run.dry
Duplicated == MustVerify /\ "duplicate" \in log

\* Finished, or the final listings agree, or they cannot be read or compared:
\* then nothing is held against the run.
Complete ==
  /\ Judge /\ ~Duplicated
  /\ MustVerify => sides # "differ"
  /\ Result("success", {})
  /\ effects' = Pruned
  /\ pc' = "finished"
  /\ UNCHANGED <<run, attempt, command, baselines, sides, log, today, process>>

\* Exit code 0, but the final listings differ: pause for a recovery sync.
ListingsDiffer ==
  /\ Judge /\ ~Duplicated
  /\ MustVerify /\ sides = "differ"
  /\ Result("failed", {"resync"})
  /\ effects' = Pruned
  /\ pc' = "finished"
  /\ UNCHANGED <<run, attempt, command, baselines, sides, log, today, process>>

\* rclone ignored a duplicated cloud object, and renaming it failed, or too
\* many were renamed already.
DuplicateRemains ==
  /\ Judge /\ Duplicated
  /\ Result("failed", {"verification"})
  /\ effects' = Pruned
  /\ pc' = "finished"
  /\ UNCHANGED <<run, attempt, command, baselines, sides, log, today, process>>

\* (Mutants) A rename is not counted; one more than the limit is allowed.
RenameUncounted ==
  /\ Judge /\ Duplicated
  /\ duplicates < MaxDuplicates
  /\ refreshes' = 0
  /\ force' = TRUE
  /\ effects' = Pruned \union {"renamed"}
  /\ reinit' = FALSE /\ previewed' = FALSE
  /\ pc' = "state"
  /\ UNCHANGED <<run, duplicates, resync, baselines, sides, log, today,
                 process, result>>
RenameOnceMore ==
  /\ Judge /\ Duplicated
  /\ duplicates <= MaxDuplicates
  /\ duplicates' = duplicates + 1
  /\ refreshes' = 0
  /\ force' = TRUE
  /\ effects' = Pruned \union {"renamed"}
  /\ reinit' = FALSE /\ previewed' = FALSE
  /\ pc' = "state"
  /\ UNCHANGED <<run, resync, baselines, sides, log, today, process, result>>

\* The duplicate is renamed in the cloud and everything starts again.
RenameAndRepeat ==
  /\ Judge /\ Duplicated
  /\ duplicates < MaxDuplicates
  /\ duplicates' = duplicates + 1
  /\ refreshes' = 0
  /\ force' = TRUE
  /\ effects' = Pruned \union {"renamed"}
  /\ reinit' = FALSE /\ previewed' = FALSE
  /\ pc' = "state"
  /\ UNCHANGED <<run, resync, baselines, sides, log, today, process, result>>

-----------------------------------------------------------------------------
\* Ended by SIGTERM, and not for lack of progress.
Cancelled ==
  /\ pc = "exited" /\ rc = "sigterm" /\ "noProgress" \notin stopped
  /\ Result("cancelled", {})
  /\ pc' = "finished"
  /\ UNCHANGED <<run, attempt, command, outside, process>>

Failing ==
  /\ pc = "exited"
  /\ rc = "error" \/ (rc = "sigterm" /\ "noProgress" \in stopped)

MayRefresh ==
  /\ refreshes < 1
  /\ run.ai /\ run.mode = "upload_only"
  /\ "stale" \in log

\* A new rclone process has a fresh directory cache.
RefreshAndRepeat ==
  /\ Failing /\ MayRefresh
  /\ refreshes' = refreshes + 1
  /\ reinit' = FALSE /\ previewed' = FALSE
  /\ pc' = "state"
  /\ UNCHANGED <<run, duplicates, force, resync, outside, process, result>>

\* Whether a resync is needed is read from the day's log, whether a
\* download was corrupt from this attempt's part.
Fail ==
  /\ Failing /\ ~MayRefresh
  /\ Result("failed",
       (IF reinit \/ today \/ "mustResync" \in log
        THEN {"resync"} ELSE {})
       \union (IF "corrupt" \in log THEN {"integrity"} ELSE {}))
  /\ pc' = "finished"
  /\ UNCHANGED <<run, attempt, command, outside, process>>

\* The callback.
Report ==
  /\ Go("finished", "unwinding")
  /\ UNCHANGED <<run, attempt, command, outside, process, result>>

-----------------------------------------------------------------------------
\* What the thread does by itself, output and signals aside.
Step ==
  \/ InspectState \/ CannotStart \/ LeasesForbid \/ LeasesAllow
  \/ SkipPreview \/ StartPreview
  \/ PreviewPasses \/ PreviewFindsNoState \/ PreviewForbids \/ PreviewTimesOut
  \/ Launch \/ Track
  \/ \E code \in {"ok", "error", "sigterm"} : ProcessExits(code)
  \/ Complete \/ ListingsDiffer \/ DuplicateRemains \/ RenameAndRepeat
  \/ Cancelled \/ RefreshAndRepeat \/ Fail
  \/ Report

Next ==
  \/ Step
  \/ \E marker \in Markers : PrintMarker(marker)
  \/ PrintStale \/ LogGrows \/ NoProgress \/ UserStops

\* The thread goes on, and the processes it waits for end.
Spec == Init /\ [][Next]_vars /\ WF_vars(Step)

-----------------------------------------------------------------------------
TypeOK ==
  /\ run \in Kinds
  /\ pc \in {"state", "leases", "guard", "previewing", "launching", "spawned",
             "running", "stopping", "exited", "finished", "unwinding"}
  /\ duplicates \in 0..MaxDuplicates /\ refreshes \in 0..1
  /\ force \in BOOLEAN /\ reinit \in BOOLEAN /\ previewed \in BOOLEAN
  /\ baselines \in BOOLEAN /\ resync \in BOOLEAN
  /\ log \subseteq Markers /\ today \in BOOLEAN
  /\ staleLines \in 0..StaleLimit
  /\ stopped \subseteq {"user", "stale", "noProgress"}
  /\ rc \in {"none", "ok", "error", "sigterm"}
  /\ sides \in {"agree", "differ", "unknown"}
  /\ effects \subseteq {"cleared", "renamed", "pruned"}
  /\ result \in [kind : {"none", "success", "failed", "cancelled"},
                 flags : SUBSET {"lease", "massChange", "resync",
                                 "verification", "integrity"}]

Ended == pc \in {"finished", "unwinding"}

\* "A green status must therefore be backed by the final durable listings"
\* (_post_sync_listing_issue): a two-way run reports success only after an
\* attempt of its own that ended well, named no ignored duplicate in the part
\* of its output that is searched, and left a pair of listings, the baseline
\* of the next run, that does not show the sides to differ - however often it
\* repeated itself before.  It is less than the quoted words say: a duplicate
\* named after the first 4 MiB ("lateDuplicate") and listings that cannot be
\* read or compared ("unknown") do not stand in the way of green.
GreenIsVerified ==
  Ended /\ result.kind = "success" /\ TwoWay /\ ~run.dry =>
    /\ rc = "ok"
    /\ "duplicate" \notin log
    /\ sides # "differ"
    /\ baselines

\* An established and protected mapping is never synchronized unlooked-at:
\* each attempt either was previewed or is a --resync, which merges the two
\* sides and deletes on neither.  The first run, the rebuilt baseline and
\* the repeats after a rename all take different ways to the launch.
NoUnguardedDeletes ==
  pc = "spawned" /\ run.protected /\ run.initialized /\ ~run.dry =>
    previewed \/ resync

\* A rebuilt baseline never comes without its reason: a mapping that has been
\* synchronized is run with --resync (which brings deleted files back) only
\* when its listings were missing, or after this run renamed a duplicate.
ResyncHasReason ==
  pc = "spawned" /\ resync /\ run.initialized =>
    ~run.dry /\ (reinit \/ "renamed" \in effects)

\* Whatever rclone prints and however it ends, the run comes to its end:
\* neither the duplicates nor the refreshes go on for ever.
RunEnds == <>(pc = "unwinding")

\* Seen from the engine's bookkeeping this is a worker between its admission
\* and its release: it takes the steps that SyncEngine allows a worker, and
\* repeats itself as often at most.
Repeats == duplicates + refreshes
Phase ==
  CASE pc \in {"state", "leases", "guard"} -> "preparing"
    [] pc \in {"running", "stopping"} -> "running"
    [] OTHER -> pc
Entry ==
  CASE pc \in {"running", "stopping"} -> "live"
    [] pc \in {"finished", "unwinding"} -> "none"
    [] OTHER -> IF pc = "exited" \/ Repeats > 0 THEN "dead" ELSE "none"

Engine == INSTANCE SyncEngine WITH
  Jobs <- {"job"}, Workers <- {"run"}, Monitors <- {},
  JobOf <- [t \in {"run"} |-> "job"],
  MaxActive <- 1, MaxRepeats <- MaxDuplicates,
  active <- {"job"}, waiting <- {}, cancelled <- {}, incremental <- {},
  processes <- [j \in {"job"} |-> Entry],
  worker <- [w \in {"run"} |-> Phase],
  monitor <- [m \in {} |-> "idle"],
  repeats <- [w \in {"run"} |-> Repeats],
  holding <- {"run"},
  reported <- IF pc = "unwinding" /\ result # Unreported THEN {"run"} ELSE {},
  dropped <- {}

FollowsEngine == [][Engine!WorkerStep("run")]_Engine!vars

\* "Stop a run after repeated missing-directory responses, refresh provider
\* state once, and fail clearly if the destination remains invalid"
\* (docs/ROADMAP.md): a run that nobody but the limit stopped is not
\* reported as a cancellation.
StaleStopIsNoCancellation ==
  Ended /\ stopped = {"stale"} => result.kind # "cancelled"
=============================================================================
