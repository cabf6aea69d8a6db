---------------------------- MODULE ChangeMonitor ----------------------------
(***************************************************************************)
(* The change monitor of one mapping (callbacks.py) with the incremental   *)
(* transfer it calls (SyncEngine._apply_incremental), at the level of the  *)
(* files: what it has seen of the local tree and of the cloud, what it     *)
(* transfers, and what it remembers when a step fails.                     *)
(*                                                                         *)
(* The user, the other devices, the kernel's event queue and the full run  *)
(* (FullRun) are the environment.  A file is its version: 0 for a path     *)
(* that does not exist, a fresh number for each save, so that two equal    *)
(* versions are the same content.  JobController models when a monitor is  *)
(* started and stopped, and several of them at a time.                     *)
(***************************************************************************)
EXTENDS Naturals, FiniteSets

CONSTANTS Paths,      \* the files of the mapping
          Present,    \* those that both sides have at first
          Settings,   \* the modes considered, and whether the tree is polled
          MaxWrites   \* saves and deletions by users, at most

Modes == {"two_way", "upload_only", "download_only"}

ASSUME MonitorAssumption ==
  /\ IsFiniteSet(Paths) /\ Present \subseteq Paths
  /\ Settings \subseteq Modes \X BOOLEAN
  /\ MaxWrites \in Nat

Absent == 0
Versions == 0..(MaxWrites + 1)
Trees == [Paths -> Versions]

VARIABLES
  disk, cloud,      \* the two sides
  base,             \* rclone's own listings, of the last full run
  mode,
  polling,          \* no inotify: the local tree is scanned instead
  at,               \* where the monitor's loop is
  local, remote,    \* its two baselines
  known,            \* remote_known
  events,           \* paths in the kernel's queue
  topology,         \* overflow or a moved directory in the queue
  deferredLocal, deferredRemote,   \* changes kept for another attempt
  cache,            \* the listing that was read in the last five seconds
  locals, remotes,  \* the changes of this iteration
  listing,          \* new_remote
  left,             \* transfers of this iteration still to be made
  handed,           \* _callback_baselines has the listing of a full run
  owed,             \* a full run was asked for
  written,
  dirty,            \* ghost: local changes that were not transferred
  unseen,           \* ghost: cloud versions that never were on this disk
  theirs,           \* ghost: what is on the disk was downloaded
  blind             \* ghost: what the code cannot tell apart, see below

sides == <<disk, cloud, base, written>>
baselines == <<local, remote, known>>
queue == <<events, topology>>
deferred == <<deferredLocal, deferredRemote>>
batch == <<locals, remotes, listing, left>>
engine == <<mode, polling, handed, owed>>
ghosts == <<dirty, unseen, theirs, blind>>
vars == <<sides, at, baselines, queue, deferred, cache, batch, engine, ghosts>>

TwoWay == mode = "two_way"

\* A set of FileChange: for each path nothing, a save or a deletion.
ChangeSets == [Paths -> {"none", "saved", "gone"}]
NoChanges == [p \in Paths |-> "none"]
Touched(changes) == {p \in Paths : changes[p] # "none"}
Of(changes, kind) == {p \in Paths : changes[p] = kind}

\* changes_between
Changes(before, after) ==
  [p \in Paths |-> IF before[p] = after[p] THEN "none"
                   ELSE IF after[p] = Absent THEN "gone" ELSE "saved"]

\* A dict of changes updated by newer ones.
Updated(old, new) ==
  [p \in Paths |-> IF new[p] = "none" THEN old[p] ELSE new[p]]

Overlay(tree, paths, with) ==
  [p \in Paths |-> IF p \in paths THEN with[p] ELSE tree[p]]

NoListing == [p \in {} |-> Absent]
Empty == [p \in Paths |-> Absent]

NoBatch ==
  /\ locals' = NoChanges /\ remotes' = NoChanges
  /\ listing' = Empty /\ left' = {}

Idle == at' = "waiting" /\ NoBatch

-----------------------------------------------------------------------------
Init ==
  /\ \E setting \in Settings : mode = setting[1] /\ polling = setting[2]
  /\ disk = [p \in Paths |-> IF p \in Present THEN 1 ELSE Absent]
  /\ cloud = disk /\ base = disk
  /\ at = "stopped" /\ local = Empty /\ remote = Empty /\ known = FALSE
  /\ events = {} /\ topology = FALSE
  /\ deferredLocal = NoChanges /\ deferredRemote = NoChanges
  /\ cache = NoListing
  /\ locals = NoChanges /\ remotes = NoChanges /\ listing = Empty /\ left = {}
  /\ handed \in {FALSE, TwoWay} /\ owed = FALSE
  /\ written = 0
  /\ dirty = {} /\ unseen = {} /\ theirs = {} /\ blind = {}

-----------------------------------------------------------------------------
(* The environment *)

\* A path that a download or a local deletion of this iteration is about to
\* overwrite, or whose new baseline has not been taken: the change is not told
\* apart from the monitor's own, nor is the deletion of a file that a batch
\* had installed before it failed.  When nobody watches, the next monitor finds
\* the change only if it starts from rclone's listing of the local side.
Unwatched(p, version) ==
  \/ at \in {"applying", "refreshing"} /\ remotes[p] # "none"
  \/ deferredRemote[p] # "none" /\ version = Absent
  \/ at = "stopped" /\ (handed \/ ~TwoWay)

\* A file that came and went between two scans has not been there, unless its
\* absence is still to be transferred.
Unnoticed(p, version) ==
  /\ at # "stopped" /\ version = Absent /\ local[p] = Absent
  /\ \/ locals[p] = "none" /\ deferredLocal[p] = "none"
     \/ at \in {"applying", "refreshing"} /\ <<p, "up">> \notin left

LocalWrite(p, version) ==
  /\ written < MaxWrites
  /\ written' = written + 1
  /\ disk' = [disk EXCEPT ![p] = version]
  /\ events' = IF at = "stopped" \/ polling THEN events ELSE events \union {p}
  /\ dirty' = IF Unnoticed(p, version) THEN dirty \ {p} ELSE dirty \union {p}
  /\ theirs' = theirs \ {p}
  /\ blind' = IF Unwatched(p, version) THEN blind \union {<<p, "local">>} ELSE blind
  /\ UNCHANGED <<cloud, base, at, baselines, topology, deferred, cache, batch,
                 engine, unseen>>

LocalSave(p) == LocalWrite(p, written + 2)
LocalDelete(p) == disk[p] # Absent /\ LocalWrite(p, Absent)

\* Another device changes the cloud.  What changes while a listing is cached,
\* after the listing this iteration decides by, or while there is no baseline
\* to compare with, is outside the same-path check.
CloudWrite(p, version) ==
  /\ written < MaxWrites
  /\ written' = written + 1
  /\ cloud' = [cloud EXCEPT ![p] = version]
  /\ unseen' = unseen \union {p}
  /\ blind' = IF at \in {"applying", "refreshing"} \/ cache # NoListing \/ ~known
              THEN blind \union {<<p, "cloud">>} ELSE blind
  /\ UNCHANGED <<disk, base, at, baselines, queue, deferred, cache, batch,
                 engine, dirty, theirs>>

CloudSave(p) == CloudWrite(p, written + 2)
CloudDelete(p) == cloud[p] # Absent /\ CloudWrite(p, Absent)

\* The kernel's queue overflows, or a directory is moved.
TopologyChanges ==
  /\ at # "stopped" /\ ~polling /\ ~topology
  /\ topology' = TRUE
  /\ UNCHANGED <<sides, at, baselines, events, deferred, cache, batch, engine,
                 ghosts>>

CacheExpires ==
  /\ cache # NoListing
  /\ cache' = NoListing
  /\ UNCHANGED <<sides, at, baselines, queue, deferred, batch, engine, ghosts>>

\* What a successful full run leaves: run_job has stopped the monitor.  Only a
\* two-way run hands a listing over, if it could make one.
Merged(p) ==
  CASE mode = "upload_only"   -> {disk[p]}
    [] mode = "download_only" -> {cloud[p]}
    [] TwoWay /\ disk[p] = base[p]  -> {cloud[p]}
    [] TwoWay /\ cloud[p] = base[p] -> {disk[p]}
    [] OTHER -> {disk[p], cloud[p]} \* the other one is kept as a conflict copy

FullRunSucceeds ==
  /\ at = "stopped"
  /\ \E merged \in Trees :
       /\ \A p \in Paths : merged[p] \in Merged(p)
       /\ disk' = merged /\ cloud' = merged /\ base' = merged
  /\ handed' \in {FALSE, TwoWay} /\ owed' = FALSE
  /\ dirty' = {} /\ unseen' = {} /\ theirs' = {} /\ blind' = {}
  /\ UNCHANGED <<written, at, baselines, queue, deferred, cache, batch, mode,
                 polling>>

-----------------------------------------------------------------------------
(* Start and stop *)

Watching ==
  /\ Idle
  /\ events' = {} /\ topology' = FALSE
  /\ deferredRemote' = NoChanges

\* A two-way run has just handed its listing over: the local baseline is what
\* the disk holds now.
StartAfterRun ==
  /\ at = "stopped" /\ handed
  /\ Watching
  /\ local' = disk /\ remote' = base /\ known' = TRUE
  /\ deferredLocal' = NoChanges
  /\ handed' = FALSE
  /\ UNCHANGED <<sides, cache, mode, polling, owed, ghosts>>

\* What incremental transfers have done since is not in rclone's listings: a
\* path that is dirty and looks unchanged, or looks changed and is not dirty.
Misjudged ==
  {p \in Paths : (p \in dirty) = (disk[p] = base[p])} \X {"listings"}

\* The cloud's baseline is rclone's listing; if that is missing or cannot be
\* read the cloud is listed now, and if that fails, too, there is none.
StartRemote(readable) ==
  \/ readable /\ remote' = base /\ known' = TRUE
  \/ ~readable /\ remote' = cloud /\ known' = TRUE
  \/ ~readable /\ remote' = Empty /\ known' = FALSE

\* What the monitor cannot find that starts without a listing of its side.
Overlooked(localReadable, remoteReadable) ==
  (IF localReadable THEN Misjudged ELSE dirty \X {"local"})
    \union (IF remoteReadable THEN Misjudged ELSE unseen \X {"cloud"})

\* (Mutant) The local listing is there and is not compared with the tree.
StartFromFoundTree ==
  /\ at = "stopped" /\ ~handed /\ TwoWay
  /\ Watching
  /\ local' = disk
  /\ deferredLocal' = NoChanges
  /\ \E localReadable, remoteReadable \in BOOLEAN :
       /\ StartRemote(remoteReadable)
       /\ blind' = blind \union Overlooked(localReadable, remoteReadable)
  /\ UNCHANGED <<sides, cache, engine, dirty, unseen, theirs>>

\* A restart of a two-way mapping asks rclone's listings for both baselines:
\* local differences are changes to transfer.  A failed full run may have put
\* a listing aside, and one that cannot be parsed is as good as none: without
\* path1 the tree as it is found becomes the local baseline.
StartFromListings ==
  /\ at = "stopped" /\ ~handed /\ TwoWay
  /\ Watching
  /\ local' = disk
  /\ \E localReadable, remoteReadable \in BOOLEAN :
       /\ deferredLocal' = IF localReadable THEN Changes(base, disk) ELSE NoChanges
       /\ StartRemote(remoteReadable)
       /\ blind' = blind \union Overlooked(localReadable, remoteReadable)
  /\ UNCHANGED <<sides, cache, engine, dirty, unseen, theirs>>

\* The other modes list the cloud first, and go on without it if that fails.
StartFresh ==
  /\ at = "stopped" /\ ~TwoWay
  /\ Watching
  /\ local' = disk
  /\ StartRemote(FALSE)
  /\ deferredLocal' = NoChanges
  /\ UNCHANGED <<sides, cache, engine, ghosts>>

Start == StartAfterRun \/ StartFromListings \/ StartFresh

\* stop_callbacks between two iterations, or the whole process ends at any
\* point.  What a monitor of the other modes knew of local changes is lost.
Stop ==
  /\ at # "stopped" \/ handed
  /\ at' = "stopped" /\ NoBatch
  /\ local' = Empty /\ remote' = Empty /\ known' = FALSE
  /\ events' = {} /\ topology' = FALSE
  /\ deferredLocal' = NoChanges /\ deferredRemote' = NoChanges
  /\ \/ at = "waiting" /\ UNCHANGED cache
     \/ cache' = NoListing
  /\ handed' = FALSE
  /\ blind' = IF TwoWay THEN blind ELSE blind \union (dirty \X {"local"})
  /\ UNCHANGED <<sides, mode, polling, owed, dirty, unseen, theirs>>

-----------------------------------------------------------------------------
(* One iteration of the loop *)

\* New events, or the tree as a scan finds it; deferred changes join them.
\* Without any the loop goes on when the cloud is due.
ReadEvents ==
  /\ at = "waiting" /\ ~topology
  /\ LET seen == IF polling THEN Paths ELSE events
         now == Overlay(local, seen, disk)
     IN /\ local' = now
        /\ locals' = Updated(deferredLocal, Changes(local, now))
  /\ events' = {}
  /\ \/ at' = "scanning"
     \/ locals' = NoChanges /\ events # {} /\ UNCHANGED at
  /\ UNCHANGED <<sides, remote, known, topology, deferred, cache, remotes,
                 listing, left, engine, ghosts>>

\* Nothing that was captured before a move may be replayed.
ReadTopology ==
  /\ at = "waiting" /\ topology
  /\ local' = disk
  /\ deferredLocal' = NoChanges /\ deferredRemote' = NoChanges
  /\ events' = {} /\ topology' = FALSE
  /\ owed' = TRUE
  /\ UNCHANGED <<sides, at, remote, known, cache, batch, mode, polling, handed,
                 ghosts>>

\* (Mutant) A change that the last listing shows on both sides goes up.
DecideWithoutConflict(new) ==
  LET both == Updated(deferredRemote, IF known THEN Changes(remote, new) ELSE NoChanges)
      up == IF mode = "download_only" THEN {} ELSE Touched(locals)
      down == IF mode = "upload_only" THEN {} ELSE Touched(both)
  IN /\ known' = TRUE
     /\ IF up \union down = {}
        THEN /\ remote' = new
             /\ deferredLocal' = NoChanges /\ deferredRemote' = NoChanges
             /\ Idle /\ UNCHANGED owed
        ELSE /\ remotes' = both /\ listing' = new
             /\ left' = {<<p, "up">> : p \in up} \union {<<p, "down">> : p \in down}
             /\ at' = "applying"
             /\ UNCHANGED <<locals, remote, deferred, owed>>
     /\ blind' = IF known THEN blind ELSE blind \union (unseen \X {"cloud"})

\* What the new listing means: a full run when the cloud's part is uncertain
\* or a path has changed on both sides, else what the mode permits.
Decide(new) ==
  LET both == Updated(deferredRemote, IF known THEN Changes(remote, new) ELSE NoChanges)
      uncertain == ~known /\ Touched(locals) # {}
      conflict == Touched(locals) \intersect Touched(both) # {}
      up == IF mode = "download_only" THEN {} ELSE Touched(locals)
      down == IF mode = "upload_only" THEN {} ELSE Touched(both)
      reconcile == TwoWay /\ (uncertain \/ conflict)
  IN /\ known' = TRUE
     /\ owed' = (owed \/ reconcile)
     /\ IF reconcile \/ up \union down = {}
        THEN /\ remote' = new
             /\ deferredLocal' = NoChanges /\ deferredRemote' = NoChanges
             /\ Idle
        ELSE /\ remotes' = both /\ listing' = new
             /\ left' = {<<p, "up">> : p \in up} \union {<<p, "down">> : p \in down}
             /\ at' = "applying"
             /\ UNCHANGED <<locals, remote, deferred>>
     /\ blind' = IF known THEN blind ELSE blind \union (unseen \X {"cloud"})

\* (Mutant) The targeted check finds the files and does not compare them.
ListTargetedExists ==
  /\ at = "scanning" /\ known
  /\ Touched(locals) # {} /\ Of(locals, "gone") = {}
  /\ \A p \in Touched(locals) : disk[p] # Absent /\ cloud[p] # Absent
  /\ Decide(remote)
  /\ UNCHANGED <<sides, local, queue, cache, mode, polling, handed, dirty, unseen, theirs>>

\* remote_path_state for saves of files that exist on both sides: the rest of
\* the listing is the last one.
ListTargeted ==
  /\ at = "scanning" /\ known
  /\ Touched(locals) # {} /\ Of(locals, "gone") = {}
  /\ \A p \in Touched(locals) : disk[p] # Absent /\ cloud[p] # Absent
  /\ Decide(Overlay(remote, Touched(locals), cloud))
  /\ UNCHANGED <<sides, local, queue, cache, mode, polling, handed, dirty, unseen, theirs>>

\* remote_snapshot, from the provider or from the cache.  What no local change
\* asks for comes ten seconds or more after the last listing.
ListAll ==
  /\ at = "scanning"
  /\ IF cache = NoListing
     THEN Decide(cloud) /\ cache' = cloud
     ELSE locals # NoChanges /\ Decide(cache) /\ UNCHANGED cache
  /\ UNCHANGED <<sides, local, queue, mode, polling, handed, dirty, unseen, theirs>>

\* (Mutant) Without an answer the deferred changes stay, the new ones do not.
ListFailsForgets ==
  /\ at = "scanning"
  /\ Idle
  /\ UNCHANGED <<sides, baselines, queue, deferred, cache, engine, ghosts>>

\* The provider does not answer: the local changes wait.
ListFails ==
  /\ at = "scanning"
  /\ deferredLocal' = locals
  /\ Idle
  /\ UNCHANGED <<sides, baselines, queue, deferredRemote, cache, engine, ghosts>>

-----------------------------------------------------------------------------
(* _apply_incremental *)

\* Deletions of local files first, then uploads, deletions in the cloud, and
\* downloads, which are installed one by one.
Rank(t) == CASE t[2] = "down" /\ remotes[t[1]] = "gone"  -> 1
             [] t[2] = "up"   /\ locals[t[1]] = "saved"  -> 2
             [] t[2] = "up"   /\ locals[t[1]] = "gone"   -> 3
             [] OTHER                                    -> 4
NextTransfers == {t \in left : \A u \in left : Rank(t) <= Rank(u)}

\* A save that has vanished again is skipped.
Upload(p) ==
  IF locals[p] = "saved" /\ disk[p] = Absent
  THEN UNCHANGED <<cloud, dirty, unseen>>
  ELSE /\ cloud' = [cloud EXCEPT ![p] =
                      IF locals[p] = "gone" THEN Absent ELSE disk[p]]
       /\ dirty' = IF locals[p] = "gone" /\ disk[p] # Absent THEN dirty
                   ELSE dirty \ {p}
       /\ unseen' = unseen \ {p}

ApplyUp(p) ==
  /\ at = "applying"
  /\ <<p, "up">> \in NextTransfers
  /\ Upload(p)
  /\ left' = left \ {<<p, "up">>}
  /\ UNCHANGED <<disk, base, written, at, baselines, queue, deferred, cache,
                 locals, remotes, listing, engine, theirs, blind>>

\* A file that is gone from the cloud cannot be downloaded.
ApplyDown(p) ==
  /\ at = "applying"
  /\ <<p, "down">> \in NextTransfers
  /\ remotes[p] = "gone" \/ cloud[p] # Absent
  /\ disk' = [disk EXCEPT ![p] =
                IF remotes[p] = "gone" THEN Absent ELSE cloud[p]]
  /\ events' = IF polling THEN events ELSE events \union {p}
  /\ unseen' = IF disk'[p] = cloud[p] THEN unseen \ {p} ELSE unseen
  /\ dirty' = dirty \ {p}
  /\ theirs' = theirs \union {p}
  /\ left' = left \ {<<p, "down">>}
  /\ UNCHANGED <<cloud, base, written, at, baselines, topology, deferred, cache,
                 locals, remotes, listing, engine, blind>>

\* The engine is busy, MassChangeGuard stops it, or any step fails: all
\* changes are kept, those that were applied, too.
Refuse ==
  /\ at = "applying"
  /\ deferredLocal' = locals /\ deferredRemote' = remotes
  /\ remote' = listing
  /\ Idle
  /\ UNCHANGED <<sides, local, known, queue, cache, engine, ghosts>>

Applied ==
  /\ at = "applying" /\ left = {}
  /\ at' = "refreshing"
  /\ UNCHANGED <<sides, baselines, queue, deferred, cache, batch, engine, ghosts>>

\* The new baselines of the paths that were applied; an uploaded path that
\* cannot be read back leaves the cloud's baseline unknown.
Refresh ==
  /\ at = "refreshing"
  /\ LET up == IF mode = "download_only" THEN NoChanges ELSE locals
         down == IF mode = "upload_only" THEN {} ELSE Touched(remotes)
         saved == Of(up, "saved")
     IN /\ local' = Overlay(local, down, disk)
        /\ \/ /\ \A p \in saved : cloud[p] # Absent
              /\ remote' = Overlay(Overlay(listing, saved, cloud), Of(up, "gone"), Empty)
              /\ UNCHANGED known
           \/ /\ saved # {}
              /\ remote' = Empty /\ known' = FALSE
  /\ deferredLocal' = NoChanges /\ deferredRemote' = NoChanges
  /\ Idle
  /\ UNCHANGED <<sides, queue, cache, engine, ghosts>>

Step ==
  \/ ReadEvents \/ ReadTopology
  \/ ListTargeted \/ ListAll \/ ListFails
  \/ \E p \in Paths : ApplyUp(p) \/ ApplyDown(p)
  \/ Refuse \/ Applied \/ Refresh

Environment ==
  \/ \E p \in Paths : LocalSave(p) \/ LocalDelete(p) \/ CloudSave(p) \/ CloudDelete(p)
  \/ TopologyChanges \/ CacheExpires \/ FullRunSucceeds

Next == Environment \/ Start \/ Stop \/ Step

\* The loop goes on while the monitor runs; a provider that is asked again and
\* again answers, and a transfer that is tried again and again succeeds.
Fairness ==
  /\ WF_vars(ReadEvents \/ ReadTopology \/ ListFails \/ Refuse \/ Applied \/ Refresh)
  /\ SF_vars(ListAll)
  /\ \A p \in Paths : SF_vars(ApplyUp(p) \/ ApplyDown(p))

Spec == Init /\ [][Next]_vars /\ Fairness
-----------------------------------------------------------------------------
TypeOK ==
  /\ disk \in Trees /\ cloud \in Trees /\ base \in Trees
  /\ mode \in Modes /\ polling \in BOOLEAN
  /\ at \in {"stopped", "waiting", "scanning", "applying", "refreshing"}
  /\ local \in Trees /\ remote \in Trees /\ known \in BOOLEAN
  /\ events \subseteq Paths /\ topology \in BOOLEAN
  /\ deferredLocal \in ChangeSets /\ deferredRemote \in ChangeSets
  /\ cache \in Trees \union {NoListing}
  /\ locals \in ChangeSets /\ remotes \in ChangeSets /\ listing \in Trees
  /\ left \subseteq Paths \X {"up", "down"}
  /\ handed \in BOOLEAN /\ owed \in BOOLEAN
  /\ written \in 0..MaxWrites
  /\ dirty \subseteq Paths /\ unseen \subseteq Paths /\ theirs \subseteq Paths
  /\ blind \subseteq Paths \X {"local", "cloud", "listings"}

\* A local change that has to reach the cloud is not forgotten when scans fail,
\* transfers are refused or stop halfway, or the program restarts: it is in
\* the kernel's queue, in this iteration, in the deferred changes, in what the
\* next start compares, or a full run is owed.  The code does forget it in the
\* places that blind names, and nothing is claimed of it there: a save over a
\* download in progress; one between a full run and the monitor after it; one
\* not transferred when a monitor stops whose mode compares nothing at its
\* start; one not transferred when a two-way monitor starts and rclone's local
\* listing is missing or cannot be read (start_callbacks); and one that equals
\* that listing because increments have been transferred since.
SavesKept ==
  \A p \in dirty :
    \/ mode = "download_only" \/ owed
    \/ p \in events \/ topology
    \/ at # "stopped" /\ polling /\ local[p] # disk[p]
    \/ deferredLocal[p] # "none" \/ locals[p] # "none"
    \/ at = "stopped" /\ TwoWay /\ ~handed
    \/ \E why \in {"local", "listings"} : <<p, why>> \in blind

\* A transfer of a two-way monitor does not silently replace what it has never
\* seen: in the cloud no file of another device, on the disk no change it
\* has read, unless a full run is owed, the other change came after the
\* listing (or the tree) this iteration went by, or the monitor had to start
\* without rclone's listing of that side and took what it found for known.
NoLostUpdate ==
  [][TwoWay /\ Step => \A p \in Paths :
       /\ cloud'[p] # cloud[p] /\ cloud[p] # Absent /\ p \in unseen =>
            owed \/ <<p, "cloud">> \in blind \/ <<p, "listings">> \in blind
       /\ disk'[p] # disk[p] /\ p \in dirty =>
            \/ owed \/ local[p] # disk[p]
            \/ \E why \in {"local", "listings"} : <<p, why>> \in blind]_vars

\* In a two-way mapping only what a user did locally goes up.  The echo of the
\* monitor's own downloads does not, nor does it after a batch that failed
\* halfway, an overflow, or a listing that came too late.
OnlySavesGoUp ==
  [][TwoWay /\ Step => \A p \in Paths :
       cloud'[p] # cloud[p] /\ p \in theirs => <<p, "listings">> \in blind]_vars

\* "identical authoritative metadata reads are shared for at most five seconds"
\* with "no stale result after write/move/disconnect" as acceptance evidence
\* (docs/PERFORMANCE_AUDIT_2026-08-27.md): a local file is removed only when
\* it is gone from the cloud, or another device has changed it there.
OnlyRemovesWhatIsGone ==
  [][TwoWay /\ Step => \A p \in Paths :
       disk[p] # Absent /\ disk'[p] = Absent =>
         cloud[p] = Absent \/ p \in unseen]_vars

\* When users stop and the monitor keeps running, every change it was asked to
\* transfer is transferred, or a full run is owed.
ChangesSettle ==
  <>[](at # "stopped") =>
    []<>(\/ owed
         \/ \A p \in dirty : \/ mode = "download_only"
                             \/ \E why \in {"local", "listings"} : <<p, why>> \in blind)
=============================================================================
