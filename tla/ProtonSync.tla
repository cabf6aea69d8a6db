----------------------------- MODULE ProtonSync -----------------------------
(***************************************************************************)
(* A mapping synchronized by Proton's own command-line client: both trees  *)
(* are read one after the other, compared with what the state file says of *)
(* the last run, and single files are then transferred by calls of the     *)
(* client.  The engine runs one of these at a time for a mapping.  What a  *)
(* file holds is a number, a new one for each save; 0 is no file.  Not     *)
(* modelled: folders, the filters, and the client's cached tree (a folder  *)
(* is taken to change with what is in it).                                 *)
(***************************************************************************)
EXTENDS Naturals, FiniteSets

CONSTANTS
  ProtonFiles,    \* relative paths
  MaxSaves,       \* bound: versions made by users
  ChangeLimit,    \* job.mass_change_limit
  ChangePercent   \* job.mass_change_percent

VARIABLES
  direction,  \* job.mode
  policy,     \* job.conflict_policy
  guarded,    \* job.ransomware_protection of an initialized mapping
  here,       \* the local files
  there,      \* the files on Proton Drive
  copies,     \* versions downloaded under a name of their own
  known,      \* the state file
  stopping,   \* _cancelled_jobs has the mapping
  run,        \* the run: what it does, the snapshots it took, its plan
  saves,      \* versions so far
  wanted      \* ghost: what users saved while no run was going on, and did not
              \* replace themselves

choiceVars == <<direction, policy, guarded>>
protonVars == <<choiceVars, here, there, copies, known, stopping, run, saves, wanted>>

Absent == [f \in ProtonFiles |-> 0]
\* {}: there is no file, or it is not readable.
NoState == [saved |-> FALSE, local |-> Absent, remote |-> Absent]
NoPlan == [both |-> {}, replace |-> {}, merge |-> {}]
NotRunning == [at |-> "idle", local |-> Absent, remote |-> Absent,
               plan |-> NoPlan, transfers |-> FALSE]

ProtonInit ==
  /\ direction \in {"two_way", "download_only", "upload_only"}
  /\ policy \in {"keep_both", "local_wins", "cloud_wins"}
  /\ guarded \in BOOLEAN /\ (direction # "two_way" => policy = "keep_both")
  /\ here = Absent /\ there = Absent /\ copies = {} /\ known = NoState
  /\ stopping = FALSE /\ run = NotRunning /\ saves = 0 /\ wanted = {}

-----------------------------------------------------------------------------
(* _guard_mass_change and _transfer_plan *)

ChangedPaths(current, earlier) == {f \in ProtonFiles : current[f] # earlier[f]}
ManyChanged(current, earlier) ==
  LET changed == Cardinality(ChangedPaths(current, earlier))
      before == Cardinality({f \in ProtonFiles : earlier[f] # 0})
  IN  /\ changed >= ChangeLimit
      /\ (changed * 100) \div (IF before = 0 THEN 1 ELSE before) >= ChangePercent

MassChange(local, remote) ==
  /\ guarded /\ known.saved
  /\ \/ direction # "download_only" /\ ManyChanged(local, known.local)
     \/ direction # "upload_only" /\ ManyChanged(remote, known.remote)

\* What is on one side only goes to the other, also after a deletion; what both
\* sides changed is decided by the policy, and kept twice when that decides nothing.
TransferPlan(local, remote) ==
  LET newHere(f) == known.local[f] # local[f]
      newThere(f) == known.remote[f] # remote[f]
      onBoth == {f \in ProtonFiles : local[f] # 0 /\ remote[f] # 0}
      onlyHere == {f \in ProtonFiles : local[f] # 0 /\ remote[f] = 0}
      onlyThere == {f \in ProtonFiles : local[f] = 0 /\ remote[f] # 0}
      conflicts == {f \in onBoth : newHere(f) /\ newThere(f)}
      edited == {f \in onBoth : newHere(f) /\ ~newThere(f)}
      arrived == {f \in onBoth : newThere(f) /\ ~newHere(f)}
  IN  CASE direction = "upload_only" ->
             [NoPlan EXCEPT !.merge = onlyHere \union {f \in onBoth : newHere(f)}]
        [] direction = "download_only" ->
             [NoPlan EXCEPT !.replace = onlyThere \union {f \in onBoth : newThere(f)}]
        [] OTHER ->
             [both    |-> IF policy = "keep_both" THEN conflicts ELSE {},
              replace |-> onlyThere \union arrived \union
                            (IF policy = "cloud_wins" THEN conflicts ELSE {}),
              merge   |-> onlyHere \union edited \union
                            (IF policy = "cloud_wins" THEN {} ELSE conflicts)]

-----------------------------------------------------------------------------
(* Users of either side *)

UserSets(side, f, value) ==
  wanted' = (wanted \ {side[f]}) \union
              (IF run.at = "idle" /\ value # 0 THEN {value} ELSE {})

SaveHere(f) ==
  /\ saves < MaxSaves /\ saves' = saves + 1
  /\ here' = [here EXCEPT ![f] = saves'] /\ UserSets(here, f, saves')
  /\ UNCHANGED <<choiceVars, there, copies, known, stopping, run>>

SaveThere(f) ==
  /\ saves < MaxSaves /\ saves' = saves + 1
  /\ there' = [there EXCEPT ![f] = saves'] /\ UserSets(there, f, saves')
  /\ UNCHANGED <<choiceVars, here, copies, known, stopping, run>>

DeleteHere(f) ==
  /\ here[f] # 0 /\ here' = [here EXCEPT ![f] = 0] /\ UserSets(here, f, 0)
  /\ UNCHANGED <<choiceVars, there, copies, known, stopping, run, saves>>

DeleteThere(f) ==
  /\ there[f] # 0 /\ there' = [there EXCEPT ![f] = 0] /\ UserSets(there, f, 0)
  /\ UNCHANGED <<choiceVars, here, copies, known, stopping, run, saves>>

\* SyncEngine.cancel, also of a mapping that is not running: the process ends
\* (CallFails) and the flag stays for the next call of the client.
CancelRequested ==
  /\ ~stopping /\ stopping' = TRUE
  /\ UNCHANGED <<choiceVars, here, there, copies, known, run, saves, wanted>>

-----------------------------------------------------------------------------
(* The run *)

Call == ~stopping    \* _run starts the client
Proceeds(at) == run' = [run EXCEPT !.at = at]

RunStarts ==
  /\ run.at = "idle" /\ run' = [NotRunning EXCEPT !.at = "list"]
  /\ UNCHANGED <<choiceVars, here, there, copies, known, stopping, saves, wanted>>

ListCloud ==
  /\ run.at = "list" /\ Call
  /\ run' = [run EXCEPT !.at = "scan", !.remote = there]
  /\ UNCHANGED <<choiceVars, here, there, copies, known, stopping, saves, wanted>>

ScanAndPlan ==
  /\ run.at = "scan"
  /\ IF MassChange(here, run.remote) THEN run' = NotRunning
     ELSE LET plan == TransferPlan(here, run.remote) IN
          run' = [run EXCEPT !.at = "transfer", !.local = here, !.plan = plan,
                             !.transfers = plan # NoPlan]
  /\ UNCHANGED <<choiceVars, here, there, copies, known, stopping, saves, wanted>>

\* (Mutant) The user's version goes up before the cloud's is downloaded.
UploadsFirst(kind) ==
  /\ kind = "both" => run.plan.merge = {}
  /\ kind = "replace" => run.plan.both = {} /\ run.plan.merge = {}

\* Downloads of conflict copies first, then other downloads, then uploads.
InOrder(kind) ==
  /\ kind # "both" => run.plan.both = {}
  /\ kind = "merge" => run.plan.replace = {}

Transfer(kind, f) ==
  /\ run.at = "transfer" /\ f \in run.plan[kind] /\ InOrder(kind)
  /\ run' = [run EXCEPT !.plan[kind] = @ \ {f}]
  /\ UNCHANGED <<choiceVars, known, stopping, saves, wanted>>

\* keep-both: what the cloud holds by now, under a free name.
DownloadCopy(f) ==
  /\ Call /\ there[f] # 0 /\ Transfer("both", f)
  /\ copies' = copies \union {there[f]} /\ UNCHANGED <<here, there>>

DownloadReplace(f) ==
  /\ Call /\ there[f] # 0 /\ Transfer("replace", f)
  /\ here' = [here EXCEPT ![f] = there[f]] /\ UNCHANGED <<there, copies>>

\* A new revision of what the file holds by now; one that is gone is left out.
UploadMerge(f) ==
  /\ Transfer("merge", f)
  /\ IF here[f] = 0 THEN UNCHANGED there
     ELSE Call /\ there' = [there EXCEPT ![f] = here[f]]
  /\ UNCHANGED <<here, copies>>

\* The local tree is read again; a run that planned nothing takes the listing
\* it began with for the cloud's.
MeasureHere ==
  /\ run.at = "transfer" /\ run.plan = NoPlan
  /\ IF run.transfers
     THEN run' = [run EXCEPT !.at = "compare", !.local = here] /\ UNCHANGED known
     ELSE /\ run' = NotRunning
          /\ known' = [saved |-> TRUE, local |-> here, remote |-> run.remote]
  /\ UNCHANGED <<choiceVars, here, there, copies, stopping, saves, wanted>>

ListAgainAndSave ==
  /\ run.at = "compare" /\ Call
  /\ known' = [saved |-> TRUE, local |-> run.local, remote |-> there]
  /\ run' = NotRunning
  /\ UNCHANGED <<choiceVars, here, there, copies, stopping, saves, wanted>>

Calling == run.at \in {"list", "transfer", "compare"}

\* The next call of the client meets the flag, whoever set it and when.
CallRefused ==
  /\ Calling /\ stopping /\ stopping' = FALSE /\ run' = NotRunning
  /\ UNCHANGED <<choiceVars, here, there, copies, known, saves, wanted>>

\* The client fails, runs into its timeout, or is terminated.
CallFails ==
  /\ Calling /\ run' = NotRunning
  /\ UNCHANGED <<choiceVars, here, there, copies, known, stopping, saves, wanted>>

\* The program is started anew.
ProtonRestart ==
  /\ run' = NotRunning /\ stopping' = FALSE
  /\ UNCHANGED <<choiceVars, here, there, copies, known, saves, wanted>>

\* The state file is gone or not readable.
StateLost ==
  /\ run.at = "idle" /\ known' = NoState
  /\ UNCHANGED <<choiceVars, here, there, copies, stopping, run, saves, wanted>>

ProtonNext ==
  \/ \E f \in ProtonFiles :
       \/ SaveHere(f) \/ SaveThere(f) \/ DeleteHere(f) \/ DeleteThere(f)
       \/ DownloadCopy(f) \/ DownloadReplace(f) \/ UploadMerge(f)
  \/ RunStarts \/ ListCloud \/ ScanAndPlan \/ MeasureHere \/ ListAgainAndSave
  \/ CancelRequested \/ CallRefused \/ CallFails \/ ProtonRestart \/ StateLost

ProtonSpec == ProtonInit /\ [][ProtonNext]_protonVars

-----------------------------------------------------------------------------
Trees == [ProtonFiles -> 0..MaxSaves]

ProtonTypeOK ==
  /\ direction \in {"two_way", "download_only", "upload_only"}
  /\ policy \in {"keep_both", "local_wins", "cloud_wins"}
  /\ guarded \in BOOLEAN /\ stopping \in BOOLEAN
  /\ here \in Trees /\ there \in Trees
  /\ copies \subseteq 1..MaxSaves /\ wanted \subseteq 1..MaxSaves
  /\ known \in [saved : BOOLEAN, local : Trees, remote : Trees]
  /\ saves \in 0..MaxSaves
  /\ run \in [at : {"idle", "list", "scan", "transfer", "compare"},
              local : Trees, remote : Trees,
              plan : [both : SUBSET ProtonFiles, replace : SUBSET ProtonFiles,
                      merge : SUBSET ProtonFiles],
              transfers : BOOLEAN]

\* With two-way synchronization that keeps both, no version that a user saved
\* between two runs is lost before a user replaces it, whatever fails or is cut
\* off in whatever run: it is on one side or in a copy.  Users save during runs,
\* too; of those versions nothing is claimed, as the state may count them as known.
ConflictsKeepBoth ==
  (direction = "two_way" /\ policy = "keep_both") =>
    \A v \in wanted : \/ \E f \in ProtonFiles : v \in {here[f], there[f]}
                      \/ v \in copies
=============================================================================
