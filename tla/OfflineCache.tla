----------------------------- MODULE OfflineCache -----------------------------
(***************************************************************************)
(* The cache of one files-on-demand drive: what the user keeps offline,    *)
(* the threads that carry out a change of it (one for each rule at a       *)
(* time), the thread that makes room, and rclone, which reads, writes and  *)
(* uploads the objects.  A rule is a file or the whole drive.  Of sizes    *)
(* only the number of objects is kept.  Not modelled: folders, symbolic    *)
(* links, pin markers that cannot be read (nothing is evicted then), and   *)
(* when maintenance finds it need not look.                                *)
(***************************************************************************)
EXTENDS Naturals, FiniteSets

CONSTANTS
  CacheFiles,  \* paths on the drive
  SamePath,    \* pairs: the first path, with a slash before it, ends the second
  CacheQuota,  \* settings.streaming_cache_max_gib: objects
  MaxChanges   \* bound: changes of the rules

VARIABLES
  offline,     \* job.offline_paths
  onlineOnly,  \* job.online_only_paths
  marked,      \* .tuxdrive-pins: the rules with a marker, which lists files
  changing,    \* the thread of each rule (_offline_pending_paths)
  verified,    \* _offline_verified_paths: the rules with a green check
  cached,      \* complete objects under vfs
  unsaved,     \* those rclone is still to upload, which have a record under vfsMeta
  fresh,       \* those used within the hour, as far as their times show it
  connected,   \* the drive is mounted
  evictor,     \* enforce: where it is, whether it saw the drive mounted, the
               \* pins it read, its candidates and the one it looks at
  changes,     \* changes of the rules so far
  crossed,     \* ghost: two changes of the drive's rules met
  taken,       \* ghost: pinned objects lost to an eviction that had read the
               \* pins before, or to the release of a path that ends like theirs
  written      \* ghost: unsaved since the evictor looked

cacheVars == <<offline, onlineOnly, marked, changing, verified, cached, unsaved,
               fresh, connected, evictor, changes, crossed, taken, written>>
ruleVars == <<offline, onlineOnly, marked, verified>>
objectVars == <<cached, unsaved, fresh>>

WholeDrive == "."
Rules == CacheFiles \union {WholeDrive}
FilesOf(rule) == IF rule = WholeDrive THEN CacheFiles ELSE {rule}
NotChanging ==
  [at |-> "no", pin |-> FALSE, offline |-> {}, onlineOnly |-> {}, left |-> {}]
NotEvicting == [at |-> "no", connected |-> FALSE, pins |-> {}, left |-> {}, need |-> 0,
                victim |-> {}]

\* is_available_offline: the more specific rule, and online-only of two equals.
AvailableOffline(f) ==
  /\ f \notin onlineOnly
  /\ f \in offline \/ WholeDrive \in offline \ onlineOnly
Pinned == UNION {FilesOf(rule) : rule \in marked}

CacheInit ==
  /\ offline = {} /\ onlineOnly = {} /\ marked = {} /\ verified = {}
  /\ changing = [rule \in Rules |-> NotChanging]
  /\ cached = {} /\ unsaved = {} /\ fresh = {} /\ connected = TRUE
  /\ evictor = NotEvicting /\ changes = 0
  /\ crossed = FALSE /\ taken = {} /\ written = {}

-----------------------------------------------------------------------------
(* rclone and the users of the drive *)

\* Whether an access shows in the object's times is up to the file system.
Used(f) == cached' = cached \union {f} /\ fresh' \in {fresh, fresh \union {f}}

OpenFile(f) ==
  /\ connected /\ Used(f) /\ taken' = taken \ {f}
  /\ UNCHANGED <<ruleVars, changing, unsaved, connected, evictor, changes,
                 crossed, written>>

WriteFile(f) ==
  /\ connected /\ cached' = cached \union {f} /\ fresh' = fresh \union {f}
  /\ unsaved' = unsaved \union {f}
  /\ taken' = taken \ {f}
  /\ written' = IF evictor.victim = {f} THEN {f} ELSE written
  /\ UNCHANGED <<ruleVars, changing, connected, evictor, changes, crossed>>

UploadFile(f) ==
  /\ connected /\ f \in unsaved /\ unsaved' = unsaved \ {f}
  /\ UNCHANGED <<ruleVars, changing, cached, fresh, connected, evictor, changes,
                 crossed, taken, written>>

HourPasses ==
  /\ fresh # {} /\ fresh' = {}
  /\ UNCHANGED <<ruleVars, changing, cached, unsaved, connected, evictor,
                 changes, crossed, taken, written>>

Disconnect ==
  /\ connected /\ connected' = FALSE
  /\ UNCHANGED <<ruleVars, changing, objectVars, evictor, changes, crossed,
                 taken, written>>

\* verified_offline_rules: a marker counts when every file it lists is complete in the
\* cache, but for those a more specific rule has released.
VerifiedRules ==
  {rule \in offline \intersect marked :
     {f \in FilesOf(rule) : AvailableOffline(f)} \subseteq cached}

\* A mount that succeeded
Connect ==
  /\ ~connected /\ connected' = TRUE /\ verified' = VerifiedRules
  /\ UNCHANGED <<offline, onlineOnly, marked, changing, objectVars, evictor,
                 changes, crossed, taken, written>>

-----------------------------------------------------------------------------
(* set_offline, in a thread of its own *)

StartsChange(rule, pin) ==
  /\ changing[rule] = NotChanging /\ changes < MaxChanges /\ changes' = changes + 1
  /\ changing' = [changing EXCEPT ![rule] =
       [at |-> IF pin THEN "hydrate" ELSE "unmark", pin |-> pin, offline |-> offline,
        onlineOnly |-> onlineOnly, left |-> FilesOf(rule)]]
  /\ crossed' = (crossed \/ \E other \in Rules : changing[other] # NotChanging)
ChangeMoves(rule, at) == changing' = [changing EXCEPT ![rule].at = at]
ChangeAt(rule, at) == changing[rule].at = at

\* A request for a drive that is not there waits until it is.
KeepOffline(rule) ==
  /\ connected /\ StartsChange(rule, TRUE)
  /\ offline' = IF rule = WholeDrive THEN {WholeDrive} ELSE offline \union {rule}
  /\ onlineOnly' = IF rule = WholeDrive THEN {} ELSE onlineOnly \ {rule}
  /\ UNCHANGED <<marked, verified, objectVars, connected, evictor, taken, written>>

Hydrate(rule) ==
  /\ ChangeAt(rule, "hydrate") /\ connected
  /\ \E f \in changing[rule].left :
       /\ Used(f) /\ taken' = taken \ {f}
       /\ changing' = [changing EXCEPT ![rule].left = @ \ {f}]
  /\ UNCHANGED <<ruleVars, unsaved, connected, evictor, changes, crossed, written>>

\* _record_pin_cache: every object is looked for, then the marker is put in place.
FindObjects(rule) ==
  /\ ChangeAt(rule, "hydrate") /\ changing[rule].left = {}
  /\ FilesOf(rule) \subseteq cached
  /\ ChangeMoves(rule, "mark")
  /\ UNCHANGED <<ruleVars, objectVars, connected, evictor, changes, crossed,
                 taken, written>>

\* What was evicted since it was found is marked all the same.
MarkPin(rule) ==
  /\ ChangeAt(rule, "mark") /\ ChangeMoves(rule, "ready")
  /\ marked' = marked \union {rule}
  /\ taken' = taken \union (FilesOf(rule) \ cached)
  /\ UNCHANGED <<offline, onlineOnly, verified, objectVars, connected, evictor,
                 changes, crossed, written>>

\* Not readable, or not found: the rules are put back as the thread found them.
PinFails(rule) ==
  /\ changing[rule].at \in {"hydrate", "mark"} /\ ChangeMoves(rule, "failed")
  /\ offline' = changing[rule].offline /\ onlineOnly' = changing[rule].onlineOnly
  /\ UNCHANGED <<marked, verified, objectVars, connected, evictor, changes,
                 crossed, taken, written>>

\* An online-only rule is needed where the drive's rule would hold.
FreeSpace(rule) ==
  /\ StartsChange(rule, FALSE)
  /\ offline' = IF rule = WholeDrive THEN {} ELSE offline \ {rule}
  /\ onlineOnly' = IF rule = WholeDrive THEN {}
                   ELSE IF WholeDrive \in offline THEN onlineOnly \union {rule}
                   ELSE onlineOnly \ {rule}
  /\ UNCHANGED <<marked, verified, objectVars, connected, evictor, taken, written>>

Unmark(rule) ==
  /\ ChangeAt(rule, "unmark") /\ ChangeMoves(rule, "release")
  /\ marked' = marked \ (changing[rule].offline \ offline)
  /\ UNCHANGED <<offline, onlineOnly, verified, objectVars, connected, evictor,
                 changes, crossed, taken, written>>

Unlinked(S) ==
  /\ cached' = cached \ S /\ unsaved' = unsaved \ S /\ fresh' = fresh \ S

\* The objects whose path ends with the rule's, whatever is before it.
Released(rule) ==
  IF rule = WholeDrive THEN CacheFiles
  ELSE {f \in CacheFiles : f = rule \/ <<rule, f>> \in SamePath}

\* The drive's whole cache goes with its markers.
Release(rule) ==
  /\ ChangeAt(rule, "release") /\ ChangeMoves(rule, "ready") /\ Unlinked(Released(rule))
  /\ marked' = IF rule = WholeDrive THEN {} ELSE marked
  /\ taken' = taken \union {f \in CacheFiles : <<rule, f>> \in SamePath}
  /\ UNCHANGED <<offline, onlineOnly, verified, connected, evictor, changes,
                 crossed, written>>

\* _offline_state_ready, in GTK
ChangeReady(rule) ==
  /\ changing[rule].at \in {"ready", "failed"}
  /\ changing' = [changing EXCEPT ![rule] = NotChanging]
  /\ verified' =
       IF ChangeAt(rule, "failed") THEN verified
       ELSE IF ~changing[rule].pin THEN verified \intersect offline
       ELSE IF rule \notin offline THEN verified
       ELSE {rule} \union (IF rule = WholeDrive THEN {} ELSE verified)
  /\ UNCHANGED <<offline, onlineOnly, marked, objectVars, connected, evictor,
                 changes, crossed, taken, written>>

-----------------------------------------------------------------------------
(* StreamingCacheManager.enforce *)

\* (Mutant) Pinned objects are as good as any.
SpareUnpinned(by, f) == f \notin unsaved /\ ~(by.connected /\ f \in fresh)

Spare(by, f) ==
  f \notin by.pins /\ f \notin unsaved /\ ~(by.connected /\ f \in fresh)

\* The pins are read once, before the objects are listed.
ReadPinsAndScan ==
  /\ evictor.at = "no" /\ Cardinality(cached) > CacheQuota
  /\ LET begun == [NotEvicting EXCEPT !.at = "look", !.connected = connected,
                      !.pins = Pinned, !.need = Cardinality(cached) - CacheQuota]
     IN  evictor' = [begun EXCEPT !.left = {f \in cached : Spare(begun, f)}]
  /\ UNCHANGED <<ruleVars, changing, objectVars, connected, changes, crossed,
                 taken, written>>

\* Immediately before an object is deleted it is looked at again.
LookAgain(f) ==
  /\ evictor.at = "look" /\ f \in evictor.left /\ evictor.need > 0
  /\ evictor' = IF f \in cached /\ Spare(evictor, f)
                THEN [evictor EXCEPT !.at = "unlink", !.left = @ \ {f}, !.victim = {f}]
                ELSE [evictor EXCEPT !.left = @ \ {f}]
  /\ UNCHANGED <<ruleVars, changing, objectVars, connected, changes, crossed,
                 taken, written>>

Unlink ==
  /\ evictor.at = "unlink" /\ Unlinked(evictor.victim)
  /\ evictor' = [evictor EXCEPT !.at = "look", !.victim = {}, !.need = @ - 1]
  /\ taken' = taken \union ((evictor.victim \intersect Pinned) \ evictor.pins)
  /\ written' = {}
  /\ UNCHANGED <<ruleVars, changing, connected, changes, crossed>>

EvictionEnds ==
  /\ evictor.at = "look" /\ (evictor.left = {} \/ evictor.need = 0)
  /\ evictor' = NotEvicting
  /\ UNCHANGED <<ruleVars, changing, objectVars, connected, changes, crossed,
                 taken, written>>

CacheNext ==
  \/ \E f \in CacheFiles : OpenFile(f) \/ WriteFile(f) \/ UploadFile(f) \/ LookAgain(f)
  \/ HourPasses \/ Disconnect \/ Connect \/ ReadPinsAndScan \/ Unlink \/ EvictionEnds
  \/ \E rule \in Rules :
       \/ KeepOffline(rule) \/ Hydrate(rule) \/ FindObjects(rule)
       \/ MarkPin(rule) \/ PinFails(rule)
       \/ FreeSpace(rule) \/ Unmark(rule) \/ Release(rule) \/ ChangeReady(rule)

CacheSpec == CacheInit /\ [][CacheNext]_cacheVars

-----------------------------------------------------------------------------
CacheTypeOK ==
  /\ {offline, onlineOnly, marked, verified} \subseteq SUBSET Rules
  /\ changing \in [Rules ->
       [at : {"no", "hydrate", "mark", "unmark", "release", "ready", "failed"},
        pin : BOOLEAN, offline : SUBSET Rules, onlineOnly : SUBSET Rules,
        left : SUBSET CacheFiles]]
  /\ {cached, unsaved, fresh, taken, written} \subseteq SUBSET CacheFiles
  /\ {connected, crossed} \subseteq BOOLEAN /\ changes \in 0..MaxChanges
  /\ evictor.at \in {"no", "look", "unlink"}
  /\ evictor.victim \subseteq CacheFiles /\ evictor.left \subseteq CacheFiles

\* What the user wrote is deleted to make room only when it was written after
\* the last look at it.
UnsavedIsKept ==
  evictor.at = "unlink" => evictor.victim \intersect unsaved \subseteq written

\* A rule that stands, and that nobody is changing, has its marker.
Settled == \A rule \in Rules : changing[rule] = NotChanging
RulesAreMarked == Settled => offline \subseteq marked

\* What is kept offline, and what has a green check, is in the cache: but for
\* what an eviction took that had read the pins before, and what was released
\* with a path that ends alike.
PinnedIsCached ==
  Settled => \A rule \in offline \union verified, f \in CacheFiles :
    f \in FilesOf(rule) /\ AvailableOffline(f) => f \in cached \union taken

\* All of this as long as the changes of a drive's rules come one after the other:
\* one that fails puts back lists that another has changed since.
OfflineIsKept ==
  ~crossed => UnsavedIsKept /\ RulesAreMarked /\ PinnedIsCached
=============================================================================
