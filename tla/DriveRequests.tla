---------------------------- MODULE DriveRequests ----------------------------
(***************************************************************************)
(* What the file manager asks of the program: to keep a path of a drive    *)
(* offline or to let it go, to synchronize a copied folder, and to open    *)
(* the page of the provider; from the command line or an action, before    *)
(* the program is ready, before the drive is mounted, or later.  And what  *)
(* the file manager is shown, the state file.  Here a change of the rules is one step, of one path: see   *)
(* OfflineCache for what it does.                                          *)
(***************************************************************************)
EXTENDS Naturals

CONSTANTS
  Paths,         \* on the drive
  MaxRequests    \* bound: asked about them

VARIABLES
  loaded,      \* _runtime_ready_once
  drives,      \* the drive's job, and what has reached the window of it
  driveEnabled,
  waiting,       \* _pending_offline_requests: all of them to keep a path
  working,     \* _offline_pending_paths, and what each thread is to do
  kept,        \* job.offline_paths
  proven,      \* _offline_verified_paths
  shown,       \* the paths the state file says are available offline
  folderRuns,  \* the copied folder's job runs
  folderAsked, \* _pending_nautilus_paths
  online,      \* what a request to open the provider's page has come to: it waits in
               \* _pending_nautilus_online, or a thread finds the page or opens it
  asked,
  wish,        \* ghost: the last request about each path that has not failed
  unheard,     \* ghost: paths with a request that met the one before it
  halfReleased \* ghost: paths the release of which failed in the middle

requestVars == <<loaded, drives, driveEnabled, waiting, working, kept, proven, shown,
                 folderRuns, folderAsked, online, asked, wish, unheard,
                 halfReleased>>

RequestsInit ==
  /\ loaded = FALSE /\ drives = "no" /\ driveEnabled = TRUE
  /\ waiting = {} /\ working = [p \in Paths |-> "no"]
  /\ kept \in SUBSET Paths /\ proven = {} /\ shown = {}
  /\ folderRuns = FALSE /\ folderAsked = FALSE /\ online = "no" /\ asked = 0
  /\ wish = [p \in Paths |-> IF p \in kept THEN "keep" ELSE "none"]
  /\ unheard = {} /\ halfReleased = {}

Mounted == drives \in {"up", "yes"}
Folder == <<folderRuns, folderAsked, online>>

\* run_job: only what does not run is started, and only if the policy lets it.
MayStartDrive == IF drives = "no" THEN {"no", "starts"} ELSE {drives}

\* _set_offline_path, of several paths: one that a thread is at work on is left to it,
\* whatever that is to do.
Dispatches(paths, what) ==
  /\ working' = [p \in Paths |-> IF p \in paths /\ working[p] = "no" THEN what
                                 ELSE working[p]]
  /\ unheard' = unheard \union {p \in paths : working[p] \notin {"no", what}}

\* _publish_nautilus_state
Publishes == shown' = proven'

-----------------------------------------------------------------------------
(* Requests *)

Asks(p, what) ==
  /\ asked < MaxRequests /\ asked' = asked + 1
  /\ wish' = [wish EXCEPT ![p] = what]

\* _request_offline_path with availability_route
KeepAsked(p) ==
  /\ Asks(p, "keep")
  /\ IF Mounted
     THEN Dispatches({p}, "keep") /\ UNCHANGED <<waiting, drives>>
     ELSE /\ waiting' = waiting \union {p}
          /\ drives' \in IF loaded /\ driveEnabled THEN MayStartDrive ELSE {drives}
          /\ UNCHANGED <<working, unheard>>
  /\ UNCHANGED <<loaded, driveEnabled, kept, proven, shown, Folder,
                 halfReleased>>

\* Letting go needs no drive.  A request to keep the path waits on.
ReleaseAsked(p) ==
  /\ Asks(p, "release")
  /\ working' = [working EXCEPT ![p] = IF @ = "no" THEN "release" ELSE @]
  /\ unheard' = unheard \union {q \in {p} : q \in waiting \/ working[q] = "keep"}
  /\ UNCHANGED <<loaded, drives, driveEnabled, waiting, kept, proven, shown, Folder,
                 halfReleased>>

\* set_offline and _offline_state_ready
Keeps(p) ==
  /\ kept' = kept \union {p} /\ proven' = proven \union {p}
  /\ halfReleased' = halfReleased \ {p}
\* (Mutant) What was found on the disk is remembered.
LetsGoOfRule(p) == kept' = kept \ {p} /\ halfReleased' = {} /\ UNCHANGED proven
LetsGo(p) ==
  kept' = kept \ {p} /\ halfReleased' = {} /\ proven' = proven \intersect kept'

RequestDone(p) ==
  /\ working[p] # "no" /\ working' = [working EXCEPT ![p] = "no"]
  /\ working[p] = "keep" => Mounted
  /\ IF working[p] = "keep" THEN Keeps(p) ELSE LetsGo(p)
  /\ Publishes
  /\ UNCHANGED <<loaded, drives, driveEnabled, waiting, Folder, asked, wish, unheard>>

\* The rules are put back; who has asked is told.
RequestFails(p) ==
  /\ working[p] = "keep" /\ working' = [working EXCEPT ![p] = "no"]
  /\ wish' = [wish EXCEPT ![p] = IF @ = "keep" THEN "none" ELSE @]
  /\ unheard' = unheard \union {q \in {p} : wish[q] = "keep" /\ q \in kept}
  /\ UNCHANGED proven /\ Publishes
  /\ UNCHANGED <<loaded, drives, driveEnabled, waiting, kept, Folder, asked,
                 halfReleased>>

\* The rule is gone when a cached file cannot be deleted; the green check stays.
ReleaseFails(p) ==
  /\ working[p] = "release" /\ working' = [working EXCEPT ![p] = "no"]
  /\ kept' = kept \ {p} /\ halfReleased' = halfReleased \union {p}
  /\ wish' = [wish EXCEPT ![p] = IF @ = "release" THEN "none" ELSE @]
  /\ UNCHANGED proven /\ Publishes
  /\ UNCHANGED <<loaded, drives, driveEnabled, waiting, Folder, asked, unheard>>

\* _nautilus_sync_path
SyncAsked ==
  /\ IF loaded THEN folderRuns' = TRUE /\ UNCHANGED folderAsked
     ELSE folderAsked' = TRUE /\ UNCHANGED folderRuns
  /\ UNCHANGED <<loaded, drives, driveEnabled, waiting, working, kept, proven, shown,
                 online, asked, wish, unheard, halfReleased>>
FolderDone ==
  /\ folderRuns /\ folderRuns' = FALSE
  /\ UNCHANGED <<loaded, drives, driveEnabled, waiting, working, kept, proven, shown,
                 folderAsked, online, asked, wish, unheard, halfReleased>>

\* _open_online_path: nothing to show of a peer's share or a vault; for most providers
\* rclone is asked for the page, for the others it is known.
OpensOnline == {"no", "locates", "launches"}
OnlyOnline == UNCHANGED <<loaded, drives, driveEnabled, waiting, working, kept, proven, shown,
                          folderRuns, folderAsked, wish, unheard, halfReleased>>
OnlineAsked ==
  /\ online = "no" /\ asked < MaxRequests /\ asked' = asked + 1
  /\ online' \in IF loaded THEN OpensOnline ELSE {"waits"}
  /\ OnlyOnline
\* _online_url_ready
PageFound ==
  online = "locates" /\ online' \in {"no", "launches"} /\ UNCHANGED asked /\ OnlyOnline
\* _online_launch_ready
PageOpened == online = "launches" /\ online' = "no" /\ UNCHANGED asked /\ OnlyOnline

-----------------------------------------------------------------------------
(* The drive *)

OnlyDrive == UNCHANGED <<loaded, driveEnabled, kept, Folder, asked>>

DriveMounts ==
  /\ drives = "starts" /\ drives' = "up"
  /\ UNCHANGED <<waiting, working, proven, shown, wish, unheard, halfReleased>> /\ OnlyDrive

\* _apply_job_result: markers are compared with the cache, then what has waited is dispatched.
MountApplied ==
  /\ drives = "up" /\ drives' = "yes"
  /\ proven' \in SUBSET kept /\ halfReleased' = {}
  /\ Dispatches(waiting, "keep") /\ waiting' = {} /\ Publishes
  /\ UNCHANGED wish /\ OnlyDrive

\* Of a failure only the badges hear that remain.
DriveFails ==
  /\ drives = "starts" /\ drives' = "no" /\ UNCHANGED proven /\ Publishes
  /\ UNCHANGED <<waiting, working, wish, unheard, halfReleased>> /\ OnlyDrive

DriveLost ==
  /\ Mounted /\ drives' = IF drives = "up" THEN "no" ELSE "lost"
  /\ UNCHANGED <<waiting, working, proven, shown, wish, unheard, halfReleased>> /\ OnlyDrive

\* mount_lost: the retry is a call of run_job.
LossApplied ==
  /\ drives = "lost" /\ drives' \in {"no", "starts"} /\ proven' = {} /\ Publishes
  /\ halfReleased' = {}
  /\ UNCHANGED <<waiting, working, wish, unheard>> /\ OnlyDrive

ToggleDriveJob ==
  /\ drives = "no" /\ driveEnabled' = ~driveEnabled
  /\ UNCHANGED <<loaded, drives, waiting, working, kept, proven, shown, Folder, asked,
                 wish, unheard, halfReleased>>

-----------------------------------------------------------------------------
(* Start and end *)

\* _runtime_loaded, the first time; what has waited is asked for again.
ProgramLoaded ==
  /\ ~loaded /\ loaded' = TRUE
  /\ drives' \in IF driveEnabled THEN MayStartDrive ELSE {drives}
  /\ folderRuns' = (folderRuns \/ folderAsked) /\ folderAsked' = FALSE
  /\ online' \in IF online = "waits" THEN OpensOnline ELSE {online}
  /\ IF Mounted THEN Dispatches(waiting, "keep") /\ waiting' = {}
     ELSE UNCHANGED <<waiting, working, unheard>>
  /\ UNCHANGED proven /\ Publishes
  /\ UNCHANGED <<driveEnabled, kept, asked, wish, halfReleased>>

\* do_shutdown, or a crash, and do_startup: what waited or was at work is forgotten, as
\* is a rule's going that was not saved.
RequestsRestart ==
  /\ loaded' = FALSE /\ drives' = "no" /\ waiting' = {}
  /\ working' = [p \in Paths |-> "no"] /\ proven' = {} /\ Publishes
  /\ folderRuns' = FALSE /\ folderAsked' = FALSE /\ online' = "no"
  /\ wish' = [p \in Paths |-> IF p \in waiting \/ working[p] # "no"
                              THEN IF p \in kept THEN "keep" ELSE "none"
                              ELSE wish[p]]
  /\ halfReleased' = {}
  /\ kept' \in {kept \union back : back \in SUBSET halfReleased}
  /\ UNCHANGED <<driveEnabled, asked, unheard>>

RequestsNext ==
  \/ \E p \in Paths : KeepAsked(p) \/ ReleaseAsked(p) \/ RequestDone(p) \/ RequestFails(p)
                      \/ ReleaseFails(p)
  \/ SyncAsked \/ FolderDone \/ OnlineAsked \/ PageFound \/ PageOpened \/ DriveMounts \/ MountApplied \/ DriveFails \/ DriveLost
  \/ LossApplied \/ ToggleDriveJob \/ ProgramLoaded \/ RequestsRestart

RequestsSpec == RequestsInit /\ [][RequestsNext]_requestVars

-----------------------------------------------------------------------------
RequestsTypeOK ==
  /\ loaded \in BOOLEAN /\ drives \in {"no", "starts", "up", "yes", "lost"}
  /\ driveEnabled \in BOOLEAN /\ folderRuns \in BOOLEAN /\ folderAsked \in BOOLEAN
  /\ waiting \subseteq Paths /\ kept \subseteq Paths /\ proven \subseteq Paths
  /\ shown \subseteq Paths /\ unheard \subseteq Paths
  /\ halfReleased \subseteq Paths /\ online \in {"no", "waits", "locates", "launches"}
  /\ working \in [Paths -> {"no", "keep", "release"}]
  /\ wish \in [Paths -> {"none", "keep", "release"}]
  /\ asked \in 0..MaxRequests

\* What was asked for last of a path is done, under way or waiting for the drive,
\* unless something was asked of that path while its opposite was waiting or under
\* way: the code drops or undoes such a request, and nothing is claimed any more.
LastRequestCounts ==
  \A p \in Paths \ unheard :
    /\ wish[p] = "keep" => p \in kept \union waiting \/ working[p] = "keep"
    /\ wish[p] = "release" => p \notin waiting /\ (p \notin kept \/ working[p] = "release")

\* A green check is shown of no other path than one that is kept, but for one whose
\* release failed when its rule was gone.
ShownIsKept == shown \ halfReleased \subseteq kept

\* What was asked of a folder, or for its page, before the program was ready waits no
\* longer when it is.
FolderIsHeard == folderAsked \/ online = "waits" => ~loaded

RequestsAreHeard == LastRequestCounts /\ ShownIsKept /\ FolderIsHeard
=============================================================================
