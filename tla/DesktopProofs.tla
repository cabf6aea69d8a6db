---------------------------- MODULE DesktopProofs ----------------------------
(***************************************************************************)
(* The desktop program and the drives, shares, edits, indexes and profiles *)
(* it keeps, for any numbers of them.  What is proved of a part by itself, *)
(* here or in ProgramProofs, holds of the program of which it is a part:   *)
(* each of the program's steps is a step of the part, or leaves it alone.  *)
(***************************************************************************)
EXTENDS Desktop, ProgramProofs, FiniteSetTheorems

-----------------------------------------------------------------------------
(* What the file manager asks for *)

RequestsShaped ==
  /\ waiting \subseteq Paths /\ halfReleased \subseteq Paths
  /\ kept \subseteq Paths /\ proven \subseteq Paths
  /\ working \in [Paths -> {"no", "keep", "release"}]
  /\ wish \in [Paths -> {"none", "keep", "release"}]

\* The last request about p, if it is heard, meets no thread that undoes it: a thread that
\* lets go of what is to be kept is followed by the request that waits, none keeps what is
\* to be let go of, and a release is not over that failed in the middle.
WishOf(p) ==
  p \notin unheard =>
    /\ wish[p] = "keep" => /\ p \in kept \union waiting \/ working[p] = "keep"
                           /\ working[p] = "release" => p \in waiting
    /\ wish[p] = "release" => /\ p \notin waiting /\ working[p] # "keep"
                              /\ p \notin kept \/ working[p] = "release"
                              /\ working[p] = "no" => p \notin halfReleased

RequestsInv ==
  /\ RequestsShaped /\ FolderIsHeard
  /\ \A p \in Paths : WishOf(p)
  /\ proven \ halfReleased \subseteq kept /\ shown \ halfReleased \subseteq kept

LEMMA RequestsInvInit == RequestsInit => RequestsInv
BY DEF RequestsInit, RequestsInv, RequestsShaped, FolderIsHeard, WishOf

LEMMA RequestsInvHolds == RequestsInv => RequestsAreHeard
BY DEF RequestsInv, WishOf, RequestsAreHeard, LastRequestCounts, ShownIsKept

LEMMA RequestsInvNext == RequestsInv /\ [RequestsNext]_requestVars => RequestsInv'
<1> SUFFICES ASSUME RequestsInv, [RequestsNext]_requestVars
             PROVE  RequestsInv'
  OBVIOUS
<1> USE DEF RequestsInv, RequestsShaped
<1>1. FolderIsHeard'
  BY DEF FolderIsHeard, RequestsNext, requestVars, KeepAsked, ReleaseAsked, RequestDone,
     RequestFails, ReleaseFails, SyncAsked, FolderDone, OnlineAsked, OnlyOnline, OpensOnline,
     PageFound, PageOpened, DriveMounts, OnlyDrive, MountApplied, DriveFails, DriveLost,
     LossApplied, ToggleDriveJob, ProgramLoaded, RequestsRestart, Folder
<1>2. ASSUME NEW p \in Paths, KeepAsked(p)
      PROVE  RequestsInv'
  BY <1>1, <1>2 DEF KeepAsked, Asks, Dispatches, WishOf
<1>3. ASSUME NEW p \in Paths, ReleaseAsked(p)
      PROVE  RequestsInv'
  BY <1>1, <1>3 DEF ReleaseAsked, Asks, WishOf
<1>4. ASSUME NEW p \in Paths, RequestDone(p)
      PROVE  RequestsInv'
  BY <1>1, <1>4 DEF RequestDone, Keeps, LetsGo, Publishes, WishOf
<1>5. ASSUME NEW p \in Paths, RequestFails(p)
      PROVE  RequestsInv'
  BY <1>1, <1>5 DEF RequestFails, Publishes, WishOf
<1>6. ASSUME NEW p \in Paths, ReleaseFails(p)
      PROVE  RequestsInv'
  BY <1>1, <1>6 DEF ReleaseFails, Publishes, WishOf
<1>7. CASE SyncAsked \/ FolderDone \/ OnlineAsked \/ PageFound \/ PageOpened \/ ToggleDriveJob
            \/ UNCHANGED requestVars
  BY <1>1, <1>7 DEF SyncAsked, FolderDone, OnlineAsked, PageFound, PageOpened, OnlyOnline,
     ToggleDriveJob, requestVars, WishOf
<1>8. CASE DriveMounts \/ DriveFails \/ DriveLost \/ LossApplied
  BY <1>1, <1>8 DEF DriveMounts, DriveFails, DriveLost, LossApplied, OnlyDrive, Publishes,
     WishOf
<1>9. CASE MountApplied \/ ProgramLoaded
  <2>1. /\ working' \in [Paths -> {"no", "keep", "release"}]
        /\ \/ waiting' = {} /\ Dispatches(waiting, "keep")
           \/ UNCHANGED <<waiting, working, unheard>>
    BY <1>9 DEF MountApplied, ProgramLoaded, Dispatches
  <2>2. /\ kept' = kept /\ wish' = wish /\ shown' = proven'
        /\ proven' \subseteq kept \/ (proven' = proven /\ halfReleased' = halfReleased)
        /\ halfReleased' \subseteq halfReleased
    BY <1>9 DEF MountApplied, ProgramLoaded, OnlyDrive, Publishes
  <2>3. /\ proven' \subseteq Paths
        /\ proven' \ halfReleased' \subseteq kept'
    BY <2>2
  <2>4. (\A p \in Paths : WishOf(p))'
    BY <2>1, <2>2 DEF Dispatches, WishOf
  <2> QED
    BY <1>1, <2>1, <2>2, <2>3, <2>4
<1>10. CASE RequestsRestart
  BY <1>1, <1>10 DEF RequestsRestart, Publishes, WishOf
<1> QED
  BY <1>2, <1>3, <1>4, <1>5, <1>6, <1>7, <1>8, <1>9, <1>10 DEF RequestsNext

-----------------------------------------------------------------------------
(* Moving to another computer *)

OperationShape ==
  [at : {"idle", "stores", "stored", "copies", "unlocks", "writes", "keys", "saves", "saved"},
   config : Nat, keys : AnyKeys]
ProfilesShaped ==
  /\ lastConfig \in Nat /\ memory \in Nat /\ configFile \in Nat /\ rcloneConf \in AnyKeys
  /\ profile \in [config : Nat, keys : AnyKeys]
  /\ operation \in [Operations -> OperationShape]
  /\ meanwhile \in BOOLEAN /\ tornApart \in BOOLEAN /\ abandoned \in BOOLEAN
  /\ atOnce \in BOOLEAN

OneOperation ==
  \A o, p \in Operations : operation[o].at # "idle" /\ operation[p].at # "idle" => o = p

\* While rclone.conf is written the keyring has its password already.
PasswordFits ==
  /\ NoneIs("writes") => keyring = rcloneConf
  /\ \A o \in Operations : operation[o].at = "writes" => keyring = operation[o].keys

\* What a restore has put beside the configuration is the one it is going to replace,
\* but for a backup's destination that was not saved.
KeptFits ==
  /\ \A o \in Operations : Restoring(o) => restoredOver = NoConfig
  /\ ~meanwhile =>
       /\ restoredOver # NoConfig => SameBut(restoredOver, before)
       /\ \A o \in Operations :
            Restoring(o) /\ operation[o].at # "copies" => SameBut(memory, before)

ProfilesInv ==
  /\ ProfilesShaped
  /\ ~atOnce => /\ OneOperation /\ KeptFits
                /\ NoneIs("saved") => SameBut(memory, configFile)
                /\ ~tornApart => PasswordFits
  /\ ~abandoned => transfers \subseteq {engines}

LEMMA ProfilesInvInit == ProfilesInit => ProfilesInv
<1> SUFFICES ASSUME ProfilesInit
             PROVE  ProfilesInv
  OBVIOUS
<1>1. /\ operation = [o \in Operations |-> NoOperation] /\ memory = configFile
      /\ keyring = rcloneConf /\ restoredOver = NoConfig /\ transfers = {}
  BY DEF ProfilesInit
<1>2. ProfilesShaped
  BY DEF ProfilesInit, ProfilesShaped, OperationShape, AnyKeys, NoOperation, NoConfig, NoKeys,
     HereKeys, OtherKeys
<1>3. \A o \in Operations : operation[o].at = "idle"
  BY <1>1 DEF NoOperation
<1> QED
  BY <1>1, <1>2, <1>3 DEF ProfilesInv, OneOperation, NoneIs, PasswordFits, KeptFits, Restoring,
     SameBut

LEMMA ProfilesInvHolds == ProfilesInv => ProfilesAreWhole
<1> SUFFICES ASSUME ProfilesInv
             PROVE  ProfilesAreWhole
  OBVIOUS
<1>1. TransferRunsOnce
  <2> SUFFICES ASSUME ~abandoned
               PROVE  Cardinality(transfers) <= 1
    BY DEF TransferRunsOnce
  <2>1. IsFiniteSet({engines}) /\ Cardinality({engines}) = 1
    BY FS_Singleton
  <2>2. transfers \subseteq {engines}
    BY DEF ProfilesInv
  <2> QED
    BY <2>1, <2>2, FS_Subset
<1> QED
  BY <1>1 DEF ProfilesInv, KeptFits, PasswordFits, ProfilesAreWhole, CredentialsFit,
     SavedIsCurrent, ReplacedIsKept

LEMMA ProfilesInvNext == ProfilesInv /\ [ProfilesNext]_profileVars => ProfilesInv'
<1> SUFFICES ASSUME ProfilesInv, [ProfilesNext]_profileVars
             PROVE  ProfilesInv'
  OBVIOUS
<1> USE DEF ProfilesInv, ProfilesShaped, OperationShape, OneOperation, NoneIs, PasswordFits,
   KeptFits, Restoring, SameBut
<1>1. CASE SaveConfig
  <2>1. ProfilesShaped'
    BY <1>1 DEF SaveConfig, Besides, credentials
  <2>2. OneOperation' \/ atOnce'
    BY <1>1 DEF SaveConfig, Besides, credentials
  <2>3. KeptFits' \/ atOnce'
    BY <1>1 DEF SaveConfig, Besides, credentials
  <2>4. (NoneIs("saved") => SameBut(memory, configFile))' \/ atOnce'
    BY <1>1 DEF SaveConfig, Besides, credentials
  <2>5. tornApart' \/ PasswordFits' \/ atOnce'
    BY <1>1 DEF SaveConfig, Besides, credentials
  <2>6. ~abandoned' => transfers' \subseteq {engines'}
    BY <1>1 DEF SaveConfig, Besides, credentials
  <2> QED
    BY <2>1, <2>2, <2>3, <2>4, <2>5, <2>6
<1>2. CASE EngineStartsTransfer \/ (\E e \in transfers : EngineTransferEnds(e))
            \/ UNCHANGED profileVars
  BY <1>2 DEF EngineStartsTransfer, EngineTransferEnds, profileVars, credentials, profileGhosts
<1>3. ASSUME NEW o \in Operations, BeginBackup(o)
      PROVE  ProfilesInv'
  <2>1. ProfilesShaped'
    BY <1>3 DEF BeginBackup, OperationBegins, credentials, AnyKeys, NoKeys
  <2>2. OneOperation' \/ atOnce'
    <3>1. PICK keys \in {NoKeys, rcloneConf} : OperationBegins(o, "stores", memory', keys)
      BY <1>3 DEF BeginBackup
    <3>2. /\ operation' = [operation EXCEPT ![o] =
                            [at |-> "stores", config |-> memory', keys |-> keys]]
          /\ atOnce' = (atOnce \/ \E p \in Operations : operation[p].at # "idle")
      BY <3>1 DEF OperationBegins
    <3>3. \A p \in Operations : p # o => operation'[p] = operation[p]
      BY <3>2
    <3>4. atOnce' \/ \A p \in Operations : operation[p].at = "idle"
      BY <3>2
    <3> SUFFICES ASSUME ~atOnce', NEW p \in Operations, NEW q \in Operations,
                        operation'[p].at # "idle", operation'[q].at # "idle"
                 PROVE  p = q
      OBVIOUS
    <3>5. p = o /\ q = o
      BY <3>3, <3>4
    <3> QED
      BY <3>5
  <2>3. KeptFits' \/ atOnce'
    <3>1. PICK keys \in {NoKeys, rcloneConf} : OperationBegins(o, "stores", memory', keys)
      BY <1>3 DEF BeginBackup
    <3>2. atOnce' \/ \A p \in Operations : operation'[p].at \in {"idle", "stores"}
      BY <3>1 DEF OperationBegins
    <3>3. /\ destinations \subseteq destinations'
          /\ UNCHANGED <<restoredOver, before, meanwhile>> /\ (atOnce => atOnce')
      BY <1>3, <3>1 DEF BeginBackup, OperationBegins
    <3>4. \A p \in Operations : operation[p].at = "idle" \/ atOnce'
      BY <3>1 DEF OperationBegins
    <3> QED
      BY <3>2, <3>3, <3>4
  <2>4. (NoneIs("saved") => SameBut(memory, configFile))' \/ atOnce'
    BY <1>3 DEF BeginBackup, OperationBegins, credentials, AnyKeys, NoKeys
  <2>5. tornApart' \/ PasswordFits' \/ atOnce'
    BY <1>3 DEF BeginBackup, OperationBegins, credentials, AnyKeys, NoKeys
  <2>6. ~abandoned' => transfers' \subseteq {engines'}
    BY <1>3 DEF BeginBackup, OperationBegins, credentials, AnyKeys, NoKeys
  <2> QED
    BY <2>1, <2>2, <2>3, <2>4, <2>5, <2>6
<1>4. ASSUME NEW o \in Operations, StoreProfile(o)
      PROVE  ProfilesInv'
  BY <1>4 DEF StoreProfile, OperationMoves, Besides, credentials
<1>5. ASSUME NEW o \in Operations, BackupDone(o)
      PROVE  ProfilesInv'
  <2>1. ProfilesShaped'
    BY <1>5 DEF BackupDone, OperationMoves, Besides, credentials
  <2>2. OneOperation' \/ atOnce'
    BY <1>5 DEF BackupDone, OperationMoves, Besides, credentials
  <2>3. KeptFits' \/ atOnce'
    BY <1>5 DEF BackupDone, OperationMoves, Besides, credentials
  <2>4. (NoneIs("saved") => SameBut(memory, configFile))' \/ atOnce'
    BY <1>5 DEF BackupDone, OperationMoves, Besides, credentials
  <2>5. tornApart' \/ PasswordFits' \/ atOnce'
    BY <1>5 DEF BackupDone, OperationMoves, Besides, credentials
  <2>6. ~abandoned' => transfers' \subseteq {engines'}
    BY <1>5 DEF BackupDone, OperationMoves, Besides, credentials
  <2> QED
    BY <2>1, <2>2, <2>3, <2>4, <2>5, <2>6
<1>6. ASSUME NEW o \in Operations, NEW withKeys \in BOOLEAN, BeginRestore(o, withKeys)
      PROVE  ProfilesInv'
  <2>1. ProfilesShaped'
    BY <1>6 DEF BeginRestore, OperationBegins, credentials, AnyKeys, NoKeys
  <2>2. OneOperation' \/ atOnce'
    BY <1>6 DEF BeginRestore, OperationBegins, credentials, AnyKeys, NoKeys
  <2>3. KeptFits' \/ atOnce'
    BY <1>6 DEF BeginRestore, OperationBegins, credentials, AnyKeys, NoKeys
  <2>4. (NoneIs("saved") => SameBut(memory, configFile))' \/ atOnce'
    BY <1>6 DEF BeginRestore, OperationBegins, credentials, AnyKeys, NoKeys
  <2>5. tornApart' \/ PasswordFits' \/ atOnce'
    BY <1>6 DEF BeginRestore, OperationBegins, credentials, AnyKeys, NoKeys
  <2>6. ~abandoned' => transfers' \subseteq {engines'}
    BY <1>6 DEF BeginRestore, OperationBegins, credentials, AnyKeys, NoKeys
  <2> QED
    BY <2>1, <2>2, <2>3, <2>4, <2>5, <2>6
<1>7. ASSUME NEW o \in Operations, CopyBefore(o)
      PROVE  ProfilesInv'
  BY <1>7 DEF CopyBefore, OperationMoves, Besides, credentials
<1>8. ASSUME NEW o \in Operations, StorePassword(o)
      PROVE  ProfilesInv'
  BY <1>8 DEF StorePassword, OperationMoves, Besides
<1>9. ASSUME NEW o \in Operations, WriteRcloneConf(o)
      PROVE  ProfilesInv'
  BY <1>9 DEF WriteRcloneConf, OperationMoves, Besides
<1>10. ASSUME NEW o \in Operations, WritePeerKeys(o)
      PROVE  ProfilesInv'
  BY <1>10 DEF WritePeerKeys, OperationMoves, Besides
<1>11. ASSUME NEW o \in Operations, SaveRestored(o)
      PROVE  ProfilesInv'
  BY <1>11 DEF SaveRestored, OperationMoves, Besides, credentials
<1>12. ASSUME NEW o \in Operations, RestoreDone(o)
      PROVE  ProfilesInv'
  <2>1. ProfilesShaped'
    BY <1>12 DEF RestoreDone, OperationMoves, SaveAgain, credentials
  <2>2. OneOperation' \/ atOnce'
    BY <1>12 DEF RestoreDone, OperationMoves, SaveAgain, credentials
  <2>3. KeptFits' \/ atOnce'
    BY <1>12 DEF RestoreDone, OperationMoves, SaveAgain, credentials
  <2>4. (NoneIs("saved") => SameBut(memory, configFile))' \/ atOnce'
    BY <1>12 DEF RestoreDone, OperationMoves, SaveAgain, credentials
  <2>5. tornApart' \/ PasswordFits' \/ atOnce'
    BY <1>12 DEF RestoreDone, OperationMoves, SaveAgain, credentials
  <2>6. ~abandoned' => transfers' \subseteq {engines'}
    BY <1>12 DEF RestoreDone, OperationMoves, SaveAgain, credentials
  <2> QED
    BY <2>1, <2>2, <2>3, <2>4, <2>5, <2>6
<1>13. ASSUME NEW o \in Operations, OperationFails(o)
      PROVE  ProfilesInv'
  <2>1. ProfilesShaped'
    BY <1>13 DEF OperationFails, CutOffHere, Cut, NoOperation, AnyKeys, NoConfig, NoKeys, Partly
  <2>2. OneOperation' \/ atOnce'
    BY <1>13 DEF OperationFails, CutOffHere, Cut, NoOperation, AnyKeys, NoConfig, NoKeys, Partly
  <2>3. KeptFits' \/ atOnce'
    BY <1>13 DEF OperationFails, CutOffHere, Cut, NoOperation, AnyKeys, NoConfig, NoKeys, Partly
  <2>4. (NoneIs("saved") => SameBut(memory, configFile))' \/ atOnce'
    BY <1>13 DEF OperationFails, CutOffHere, Cut, NoOperation, AnyKeys, NoConfig, NoKeys, Partly
  <2>5. tornApart' \/ PasswordFits' \/ atOnce'
    BY <1>13, ZenonT(30)
       DEF OperationFails, CutOffHere, Cut, NoOperation, AnyKeys, NoConfig, NoKeys, Partly
  <2>6. ~abandoned' => transfers' \subseteq {engines'}
    BY <1>13 DEF OperationFails, CutOffHere, Cut, NoOperation, AnyKeys, NoConfig, NoKeys, Partly
  <2> QED
    BY <2>1, <2>2, <2>3, <2>4, <2>5, <2>6
<1>14. CASE ProfilesRestart
  <2>1. ProfilesShaped'
    BY <1>14 DEF ProfilesRestart, CutOffHere, Cut, NoOperation, AnyKeys, NoConfig, NoKeys, Partly
  <2>2. OneOperation' \/ atOnce'
    BY <1>14 DEF ProfilesRestart, CutOffHere, Cut, NoOperation, AnyKeys, NoConfig, NoKeys, Partly
  <2>3. KeptFits' \/ atOnce'
    BY <1>14 DEF ProfilesRestart, CutOffHere, Cut, NoOperation, AnyKeys, NoConfig, NoKeys, Partly
  <2>4. (NoneIs("saved") => SameBut(memory, configFile))' \/ atOnce'
    BY <1>14 DEF ProfilesRestart, CutOffHere, Cut, NoOperation, AnyKeys, NoConfig, NoKeys, Partly
  <2>5. tornApart' \/ PasswordFits' \/ atOnce'
    <3>1. PICK o \in Operations :
            (\A p \in Operations : operation[p].at # "idle" => p = o) /\ CutOffHere(o)
      BY <1>14 DEF ProfilesRestart
    <3>2. \A p \in Operations : operation'[p].at = "idle"
      BY <1>14 DEF ProfilesRestart, NoOperation
    <3>3. tornApart' \/ (operation[o].at # "writes" /\ rcloneConf' = rcloneConf)
      BY <3>1 DEF CutOffHere, Cut
    <3>4. atOnce' = atOnce /\ keyring' = keyring /\ (tornApart => tornApart')
      BY <3>1 DEF CutOffHere
    <3> QED
      BY <3>1, <3>2, <3>3, <3>4
  <2>6. ~abandoned' => transfers' \subseteq {engines'}
    BY <1>14 DEF ProfilesRestart, CutOffHere, Cut, NoOperation, AnyKeys, NoConfig, NoKeys, Partly
  <2> QED
    BY <2>1, <2>2, <2>3, <2>4, <2>5, <2>6
<1> QED
  BY <1>1, <1>2, <1>3, <1>4, <1>5, <1>6, <1>7, <1>8, <1>9, <1>10, <1>11, <1>12, <1>13, <1>14,
     SMTT(30) DEF ProfilesNext

-----------------------------------------------------------------------------
(* The version history of a file *)

VersionEntries == [version : Nat, born : Nat]
RecoveryShaped ==
  /\ day \in Nat /\ content \in Nat /\ contents \in Nat
  /\ stored \subseteq VersionEntries
  /\ received \subseteq VersionEntries /\ reverted \subseteq VersionEntries
  /\ monitor \in [at : {"idle", "append", "prune", "unlink", "rewrite", "install"},
                  line : SUBSET VersionEntries, kept : SUBSET VersionEntries]
  /\ restore \in [at : {"idle", "shown", "append", "install"},
                  line : SUBSET VersionEntries, shown : SUBSET VersionEntries]

\* What is archived has its file: a prune deletes no file that has not outlived its
\* retention.
HasFile(entries) == \A entry \in entries : ~Outdated(entry) => entry \in stored

\* What the monitor has written into the index it reads again before it prunes, so that
\* its lines stay, and stay among what it keeps.
StayListed(entries) ==
  \A entry \in entries : ~Outdated(entry) =>
    /\ entry \in index
    /\ monitor.at \in {"unlink", "rewrite"} => entry \in monitor.kept

\* What a prune takes out of the index with what it had read counts as dropped.
IsListed(entries) ==
  \A entry \in entries : ~Outdated(entry) => entry \in index \/ entry \in dropped

\* A thread that was not outrun has archived what it is going to replace.
Archives(name, worker) ==
  name \in Replacing /\ name \notin outrun =>
    content = 0 \/ \E entry \in worker.line : entry.version = content

RecoveryFits ==
  /\ HasFile(monitor.line) /\ HasFile(restore.line) /\ HasFile(received) /\ HasFile(reverted)
  /\ monitor.at \notin {"idle", "append"} => StayListed(monitor.line)
  /\ StayListed(received)
  /\ restore.at = "install" => IsListed(restore.line)
  /\ IsListed(reverted)

RecoveryArchives ==
  /\ Archives("monitor", monitor) /\ Archives("restore", restore)
  /\ unarchived = {}

RecoveryInv == RecoveryShaped /\ RecoveryFits /\ RecoveryArchives

LEMMA RecoveryInvInit == RecoveryInit => RecoveryInv
<1> SUFFICES ASSUME RecoveryInit PROVE RecoveryInv
  OBVIOUS
<1>1. RecoveryShaped
  BY DEF RecoveryInit, RecoveryShaped, MonitorIdle, RestoreIdle
<1>2. RecoveryFits
  BY DEF RecoveryInit, RecoveryFits, HasFile, StayListed, IsListed, MonitorIdle, RestoreIdle
<1>3. RecoveryArchives
  BY DEF RecoveryInit, RecoveryArchives, Archives, Replacing, MonitorIdle, RestoreIdle
<1> QED
  BY <1>1, <1>2, <1>3 DEF RecoveryInv

LEMMA RecoveryInvHolds == RecoveryInv => ReplacedHasVersion
<1> SUFFICES ASSUME RecoveryInv PROVE ReplacedHasVersion
  OBVIOUS
<1>1. \A entry \in received \union reverted : day - entry.born <= Retention => ~Outdated(entry)
  BY RecoveryAssumption DEF RecoveryInv, RecoveryShaped, VersionEntries, Outdated
<1>2. unarchived = {}
  BY DEF RecoveryInv, RecoveryArchives
<1> QED
  BY <1>1, <1>2 DEF RecoveryInv, RecoveryFits, HasFile, StayListed, IsListed, ReplacedHasVersion

\* What is outdated stays so.
LEMMA TimeGoesOn ==
  ASSUME RecoveryShaped, NEW entry \in VersionEntries, Outdated(entry), day' \in {day, day + 1}
  PROVE  Outdated(entry)'
BY RecoveryAssumption DEF RecoveryShaped, VersionEntries, Outdated

LEMMA RecoveryInvNext == RecoveryInv /\ [RecoveryNext]_recoveryVars => RecoveryInv'
<1> SUFFICES ASSUME RecoveryInv, [RecoveryNext]_recoveryVars
             PROVE  RecoveryInv'
  OBVIOUS
<1> USE DEF RecoveryInv, replacements
<1>1. /\ Archived \subseteq VersionEntries
      /\ content = 0 \/ \E entry \in Archived : entry.version = content
  <2>1. Entry(content) \in VersionEntries /\ Entry(content).version = content
    BY DEF RecoveryShaped, Entry, VersionEntries
  <2> QED
    BY <2>1 DEF Archived
<1>2. ASSUME NEW entry \in VersionEntries, ~Outdated(entry)'
      PROVE  ~Outdated(entry)
  <2>1. day' \in {day, day + 1}
    <3>1. DayPasses => day' = day + 1
      BY DEF DayPasses
    <3>2. (RecoveryNext /\ ~DayPasses) \/ UNCHANGED recoveryVars => day' = day
      BY DEF RecoveryNext, recoveryVars, UserSaves, MonitorArchives, MonitorAppends, PruneReads,
         PruneUnlinks, PruneRewrites, MonitorInstalls, MonitorEndsEarly, ShowHistory,
         HistoryCloses, RestoreArchives, RestoreAppends, RestoreInstalls, RestoreFails
    <3> QED
      BY <3>1, <3>2
  <2> QED
    BY <1>2, <2>1, TimeGoesOn
<1>3. /\ monitor.line \subseteq VersionEntries /\ restore.line \subseteq VersionEntries
      /\ received \subseteq VersionEntries /\ reverted \subseteq VersionEntries
  BY DEF RecoveryShaped
<1>4. CASE DayPasses \/ UserSaves \/ ShowHistory \/ UNCHANGED recoveryVars
  <2>1. RecoveryShaped'
    <3>1. CASE DayPasses
      BY <3>1 DEF DayPasses, RecoveryShaped
    <3>2. CASE UserSaves
      BY <3>2 DEF UserSaves, RecoveryShaped
    <3>3. CASE ShowHistory
      BY <3>3 DEF ShowHistory, RecoveryShaped, Listed
    <3>4. CASE UNCHANGED recoveryVars
      BY <3>4 DEF recoveryVars, RecoveryShaped
    <3> QED
      BY <1>4, <3>1, <3>2, <3>3, <3>4
  <2>2. /\ UNCHANGED <<stored, index, dropped, received, reverted, unarchived, monitor>>
        /\ restore'.line = restore.line
        /\ restore'.at = restore.at \/ (restore.at = "idle" /\ restore'.at = "shown")
        /\ outrun' = Replacing \/ UNCHANGED <<outrun, content>>
    BY <1>4 DEF DayPasses, UserSaves, ShowHistory, recoveryVars, RecoveryShaped
  <2>3. RecoveryFits'
    BY <1>2, <1>3, <2>2 DEF RecoveryFits, HasFile, StayListed, IsListed
  <2>4. RecoveryArchives'
    BY <2>2 DEF RecoveryArchives, Archives, Replacing
  <2> QED
    BY <2>1, <2>3, <2>4
<1>5. CASE MonitorArchives
  <2>1. RecoveryShaped'
    BY <1>1, <1>5 DEF MonitorArchives, RecoveryShaped
  <2>2. RecoveryFits'
    BY <1>1, <1>2, <1>3, <1>5 DEF MonitorArchives, RecoveryShaped, RecoveryFits, HasFile, StayListed, IsListed
  <2>3. RecoveryArchives'
    BY <1>1, <1>5 DEF MonitorArchives, RecoveryShaped, RecoveryArchives, Archives, Replacing
  <2> QED
    BY <2>1, <2>2, <2>3
<1>6. CASE MonitorAppends
  <2>1. RecoveryShaped'
    BY <1>6 DEF MonitorAppends, RecoveryShaped
  <2>2. RecoveryFits'
    BY <1>2, <1>3, <1>6 DEF MonitorAppends, RecoveryShaped, RecoveryFits, HasFile, StayListed, IsListed
  <2>3. RecoveryArchives'
    BY <1>6 DEF MonitorAppends, RecoveryShaped, RecoveryArchives, Archives, Replacing
  <2> QED
    BY <2>1, <2>2, <2>3
<1>7. CASE PruneReads
  <2>1. RecoveryShaped'
    BY <1>7 DEF PruneReads, RecoveryShaped, Listed
  <2>2. RecoveryFits'
    BY <1>2, <1>3, <1>7 DEF PruneReads, Listed, RecoveryShaped, RecoveryFits, HasFile, StayListed, IsListed
  <2>3. RecoveryArchives'
    BY <1>7 DEF PruneReads, RecoveryShaped, RecoveryArchives, Archives, Replacing
  <2> QED
    BY <2>1, <2>2, <2>3
<1>8. CASE PruneUnlinks
  <2>1. RecoveryShaped'
    BY <1>8 DEF PruneUnlinks, RecoveryShaped
  <2>2. RecoveryFits'
    BY <1>2, <1>3, <1>8 DEF PruneUnlinks, RecoveryShaped, RecoveryFits, HasFile, StayListed, IsListed
  <2>3. RecoveryArchives'
    BY <1>8 DEF PruneUnlinks, RecoveryShaped, RecoveryArchives, Archives, Replacing
  <2> QED
    BY <2>1, <2>2, <2>3
<1>9. CASE PruneRewrites
  <2>1. RecoveryShaped'
    BY <1>9 DEF PruneRewrites, RecoveryShaped
  <2>2. RecoveryFits'
    BY <1>2, <1>3, <1>9 DEF PruneRewrites, Listed, RecoveryShaped, RecoveryFits, HasFile, StayListed, IsListed
  <2>3. RecoveryArchives'
    BY <1>9 DEF PruneRewrites, RecoveryShaped, RecoveryArchives, Archives, Replacing
  <2> QED
    BY <2>1, <2>2, <2>3
<1>10. CASE MonitorInstalls
  <2>1. RecoveryShaped'
    BY <1>10 DEF MonitorInstalls, Replace, OfContent, MonitorIdle, RecoveryShaped
  <2>2. RecoveryFits'
    BY <1>2, <1>3, <1>10
       DEF MonitorInstalls, Replace, OfContent, MonitorIdle, RecoveryShaped, RecoveryFits, HasFile,
           StayListed, IsListed
  <2>3. /\ "monitor" \in Replacing
        /\ unarchived' = IF content = 0 \/ "monitor" \in outrun
                               \/ \E entry \in monitor.line : entry.version = content
                         THEN unarchived ELSE unarchived \union {content}
        /\ outrun' = Replacing \ {"monitor"} /\ monitor' = MonitorIdle /\ restore' = restore
    BY <1>10 DEF MonitorInstalls, Replace, Replacing
  <2>4. RecoveryArchives'
    BY <2>3 DEF RecoveryArchives, Archives, Replacing, MonitorIdle
  <2> QED
    BY <2>1, <2>2, <2>4
<1>11. CASE MonitorEndsEarly \/ HistoryCloses \/ RestoreFails
  <2>1. RecoveryShaped'
    BY <1>11 DEF MonitorEndsEarly, HistoryCloses, RestoreFails, MonitorIdle, RestoreIdle,
                 RecoveryShaped
  <2>2. RecoveryFits'
    BY <1>2, <1>3, <1>11 DEF MonitorEndsEarly, HistoryCloses, RestoreFails, MonitorIdle, RestoreIdle,
       RecoveryFits, HasFile, StayListed, IsListed
  <2>3. RecoveryArchives'
    BY <1>11 DEF MonitorEndsEarly, HistoryCloses, RestoreFails, MonitorIdle, RestoreIdle,
       RecoveryArchives, Archives, Replacing
  <2> QED
    BY <2>1, <2>2, <2>3
<1>12. ASSUME NEW entry \in stored, RestoreArchives(entry)
       PROVE  RecoveryInv'
  <2>1. RecoveryShaped'
    BY <1>1, <1>12 DEF RestoreArchives, RecoveryShaped
  <2>2. RecoveryFits'
    BY <1>1, <1>2, <1>3, <1>12
       DEF RestoreArchives, RecoveryShaped, RecoveryFits, HasFile, StayListed, IsListed
  <2>3. RecoveryArchives'
    BY <1>1, <1>12 DEF RestoreArchives, RecoveryShaped, RecoveryArchives, Archives, Replacing
  <2> QED
    BY <2>1, <2>2, <2>3
<1>13. CASE RestoreAppends
  <2>1. RecoveryShaped'
    BY <1>13 DEF RestoreAppends, RecoveryShaped
  <2>2. RecoveryFits'
    BY <1>2, <1>3, <1>13 DEF RestoreAppends, RecoveryShaped, RecoveryFits, HasFile, StayListed, IsListed
  <2>3. RecoveryArchives'
    BY <1>13 DEF RestoreAppends, RecoveryShaped, RecoveryArchives, Archives, Replacing
  <2> QED
    BY <2>1, <2>2, <2>3
<1>14. CASE RestoreInstalls
  <2>1. RecoveryShaped'
    BY <1>14 DEF RestoreInstalls, Replace, OfContent, RestoreIdle, VersionEntries, RecoveryShaped
  <2>2. RecoveryFits'
    BY <1>2, <1>3, <1>14
       DEF RestoreInstalls, Replace, OfContent, RestoreIdle, RecoveryShaped, RecoveryFits, HasFile,
           StayListed, IsListed
  <2>3. /\ "restore" \in Replacing
        /\ unarchived' = IF content = 0 \/ "restore" \in outrun
                               \/ \E entry \in restore.line : entry.version = content
                         THEN unarchived ELSE unarchived \union {content}
        /\ outrun' = Replacing \ {"restore"} /\ restore' = RestoreIdle /\ monitor' = monitor
    BY <1>14 DEF RestoreInstalls, Replace, Replacing
  <2>4. RecoveryArchives'
    BY <2>3 DEF RecoveryArchives, Archives, Replacing, RestoreIdle
  <2> QED
    BY <2>1, <2>2, <2>4
<1> QED
  BY <1>4, <1>5, <1>6, <1>7, <1>8, <1>9, <1>10, <1>11, <1>12, <1>13, <1>14 DEF RecoveryNext

-----------------------------------------------------------------------------
(* The cache of a drive *)

ChangeType ==
  [at : {"no", "hydrate", "mark", "unmark", "release", "ready", "failed"},
   pin : BOOLEAN, offline : SUBSET Rules, onlineOnly : SUBSET Rules, left : SUBSET CacheFiles]
CacheShaped ==
  /\ marked \subseteq Rules /\ offline \subseteq Rules /\ onlineOnly \subseteq Rules
  /\ changing \in [Rules -> ChangeType] /\ crossed \in BOOLEAN
  /\ cached \subseteq CacheFiles /\ connected \in BOOLEAN
  /\ evictor \in [at : {"no", "look", "unlink"}, connected : BOOLEAN, pins : SUBSET CacheFiles,
                  left : SUBSET CacheFiles, need : {evictor.need}, victim : SUBSET CacheFiles]

\* What is about to be deleted to make room is one object, not pinned and saved when it
\* was looked at.
VictimFits ==
  /\ evictor.at # "unlink" => evictor.victim = {}
  /\ evictor.at = "unlink" => \E f \in CacheFiles : evictor.victim = {f}
  /\ evictor.victim \intersect evictor.pins = {}
  /\ evictor.victim \intersect unsaved \subseteq written

Wanted(off, only, f) == f \notin only /\ (f \in off \/ WholeDrive \in off \ only)
KeptOffline(off, only) ==
  off \subseteq marked /\ \A f \in CacheFiles : Wanted(off, only, f) => f \in cached \union taken

\* While a path is brought into the cache the rules there were are carried out, to which a
\* failure goes back, and the new ones ask for no more than those and the path; at any
\* other time the rules there are are carried out, and ask for nothing that is let go of.
ChangeFits(rule) ==
  LET c == changing[rule] IN
  IF c.at \in {"hydrate", "mark"}
  THEN /\ KeptOffline(c.offline, c.onlineOnly) /\ offline \subseteq marked \union {rule}
       /\ \A f \in CacheFiles : Wanted(offline, onlineOnly, f) =>
            Wanted(c.offline, c.onlineOnly, f) \/ f \in FilesOf(rule)
  ELSE /\ KeptOffline(offline, onlineOnly)
       /\ c.at \in {"unmark", "release"} =>
            /\ rule = WholeDrive => offline = {}
            /\ rule \in CacheFiles => ~Wanted(offline, onlineOnly, rule)

OneChange ==
  \A r, s \in Rules : changing[r].at # "no" /\ changing[s].at # "no" => r = s
OneFits ==
  /\ \A rule \in Rules : changing[rule].at # "no" => ChangeFits(rule)
  /\ (\A rule \in Rules : changing[rule].at = "no") => KeptOffline(offline, onlineOnly)

CacheInv ==
  /\ CacheShaped /\ VictimFits
  /\ \A rule \in Rules : changing[rule].at = "no" => changing[rule] = NotChanging
  /\ ~crossed => OneChange /\ OneFits

LEMMA CacheInvInit == CacheInit => CacheInv
<1> SUFFICES ASSUME CacheInit
             PROVE  CacheInv
  OBVIOUS
<1>1. CacheShaped
  BY DEF CacheInit, CacheShaped, ChangeType, NotChanging, NotEvicting
<1>2. \A rule \in Rules : changing[rule] = NotChanging /\ changing[rule].at = "no"
  BY DEF CacheInit, NotChanging
<1>3. VictimFits /\ KeptOffline(offline, onlineOnly)
  BY DEF CacheInit, VictimFits, NotEvicting, KeptOffline, Wanted
<1> QED
  BY <1>1, <1>2, <1>3 DEF CacheInv, OneChange, OneFits

LEMMA CacheInvHolds == CacheInv => OfflineIsKept
<1> SUFFICES ASSUME CacheInv, ~crossed
             PROVE  UnsavedIsKept /\ RulesAreMarked /\ PinnedIsCached
  BY DEF OfflineIsKept
<1>1. UnsavedIsKept
  BY DEF CacheInv, VictimFits, UnsavedIsKept
<1>2. Settled => KeptOffline(offline, onlineOnly)
  BY DEF CacheInv, Settled, NotChanging, OneFits
<1> QED
  BY <1>1, <1>2 DEF KeptOffline, Wanted, AvailableOffline, RulesAreMarked, PinnedIsCached

\* The rules and the ghosts are the same, and nothing that is wanted goes from the cache.
LEMMA FitsStill ==
  ASSUME CacheInv, UNCHANGED <<offline, onlineOnly, marked, crossed>>,
         \A rule \in Rules :
           /\ changing'[rule].at = changing[rule].at
           /\ changing'[rule].offline = changing[rule].offline
           /\ changing'[rule].onlineOnly = changing[rule].onlineOnly,
         \A f \in CacheFiles : f \in cached \union taken => \/ f \in (cached \union taken)'
                                                           \/ f \notin Pinned
  PROVE  ~crossed' => (OneChange /\ OneFits)'
<1> SUFFICES ASSUME ~crossed
             PROVE  (OneChange /\ OneFits)'
  OBVIOUS
<1>1. ASSUME NEW off \in SUBSET Rules, NEW only \in SUBSET Rules, KeptOffline(off, only)
      PROVE  KeptOffline(off, only)'
  BY <1>1 DEF KeptOffline, Wanted, Pinned, FilesOf
<1>2. offline \in SUBSET Rules /\ onlineOnly \in SUBSET Rules
  BY DEF CacheInv, CacheShaped
<1>3. \A rule \in Rules : changing[rule].offline \in SUBSET Rules
                          /\ changing[rule].onlineOnly \in SUBSET Rules
  BY DEF CacheInv, CacheShaped, ChangeType
<1>4. OneChange'
  BY DEF CacheInv, OneChange
<1>5. ASSUME NEW rule \in Rules, ChangeFits(rule)
      PROVE  ChangeFits(rule)'
  BY <1>1, <1>2, <1>3, <1>5 DEF ChangeFits
<1> QED
  BY <1>1, <1>2, <1>4, <1>5 DEF CacheInv, OneFits

\* The one change there is goes on.
LEMMA OneGoesOn ==
  ASSUME CacheInv, crossed' = crossed, NEW rule \in Rules, changing[rule].at # "no",
         \A other \in Rules \ {rule} : changing'[other] = changing[other],
         changing'[rule].at # "no", ~crossed => ChangeFits(rule)'
  PROVE  ~crossed' => (OneChange /\ OneFits)'
BY DEF CacheInv, OneChange, OneFits

\* One begins: it is alone, or the drive's changes have met.
LEMMA OneBegins ==
  ASSUME CacheInv, NEW rule \in Rules, NEW pin \in BOOLEAN, StartsChange(rule, pin),
         ~crossed /\ KeptOffline(offline, onlineOnly) => ChangeFits(rule)'
  PROVE  ~crossed' => (OneChange /\ OneFits)'
<1> SUFFICES ASSUME ~crossed'
             PROVE  (OneChange /\ OneFits)'
  OBVIOUS
<1>1. ~crossed /\ \A other \in Rules : changing[other].at = "no"
  <2>1. crossed \in BOOLEAN /\ crossed' = (crossed \/ \E other \in Rules : changing[other] # NotChanging)
    BY DEF StartsChange, CacheInv, CacheShaped
  <2>2. NotChanging.at = "no"
    BY DEF NotChanging
  <2> QED
    BY <2>1, <2>2
<1>2. ChangeFits(rule)'
  BY <1>1 DEF CacheInv, OneFits
<1>3. /\ changing'[rule].at # "no"
      /\ \A other \in Rules \ {rule} : changing'[other].at = "no"
  BY <1>1 DEF StartsChange, CacheInv, CacheShaped, ChangeType
<1> QED
  BY <1>2, <1>3 DEF OneChange, OneFits

LEMMA CacheInvNext == CacheInv /\ [CacheNext]_cacheVars => CacheInv'
<1> SUFFICES ASSUME CacheInv, [CacheNext]_cacheVars
             PROVE  CacheInv'
  OBVIOUS
<1>1. ASSUME NEW f \in CacheFiles, OpenFile(f) \/ WriteFile(f) \/ UploadFile(f)
      PROVE  CacheInv'
  <2>1. /\ UNCHANGED <<offline, onlineOnly, marked, changing, evictor, crossed>>
        /\ \A g \in CacheFiles : g \in cached \union taken => g \in (cached \union taken)'
    BY <1>1 DEF OpenFile, WriteFile, UploadFile, Used, ruleVars
  <2>2. CacheShaped'
    BY <1>1, <2>1 DEF CacheInv, CacheShaped, OpenFile, WriteFile, UploadFile, Used
  <2>3. VictimFits'
    BY <1>1 DEF CacheInv, VictimFits, OpenFile, WriteFile, UploadFile, Used
  <2> QED
    BY <2>1, <2>2, <2>3, FitsStill DEF CacheInv
<1>2. CASE HourPasses \/ Disconnect \/ Connect \/ UNCHANGED cacheVars
  <2>1. UNCHANGED <<offline, onlineOnly, marked, changing, evictor, crossed, cached, unsaved,
                    taken, written>>
    BY <1>2 DEF HourPasses, Disconnect, Connect, cacheVars, ruleVars, objectVars
  <2>2. connected' \in BOOLEAN
    BY <1>2 DEF HourPasses, Disconnect, Connect, cacheVars, CacheInv, CacheShaped
  <2> QED
    BY <2>1, <2>2, FitsStill DEF CacheInv, CacheShaped, VictimFits
<1>3. CASE ReadPinsAndScan \/ EvictionEnds \/ \E f \in CacheFiles : LookAgain(f)
  <2>1. UNCHANGED <<offline, onlineOnly, marked, changing, crossed, connected, cached, unsaved,
                    taken, written>>
    BY <1>3 DEF ReadPinsAndScan, EvictionEnds, LookAgain, ruleVars, objectVars
  <2>2. CacheShaped' /\ VictimFits'
    <3>1. CASE ReadPinsAndScan
      <4>1. Pinned \subseteq CacheFiles /\ connected \in BOOLEAN
        BY DEF Pinned, FilesOf, CacheInv, CacheShaped, Rules
      <4>2. /\ evictor' = [at |-> "look", connected |-> connected, pins |-> Pinned,
                            left |-> evictor'.left, need |-> evictor'.need, victim |-> {}]
            /\ evictor'.left \subseteq cached
        BY <3>1 DEF ReadPinsAndScan, NotEvicting
      <4> QED
        BY <2>1, <4>1, <4>2 DEF CacheInv, CacheShaped, VictimFits
    <3>2. CASE EvictionEnds
      BY <2>1, <3>2 DEF CacheInv, CacheShaped, VictimFits, EvictionEnds, NotEvicting
    <3>3. ASSUME NEW f \in CacheFiles, LookAgain(f)
          PROVE  CacheShaped' /\ VictimFits'
      BY <2>1, <3>3 DEF CacheInv, CacheShaped, VictimFits, LookAgain, Spare
    <3> QED
      BY <1>3, <3>1, <3>2, <3>3
  <2> QED
    BY <2>1, <2>2, FitsStill DEF CacheInv
<1>4. CASE Unlink
  <2>1. UNCHANGED <<offline, onlineOnly, marked, changing, crossed, connected>>
    BY <1>4 DEF Unlink, ruleVars
  <2>2. CacheShaped' /\ VictimFits'
    BY <1>4, <2>1 DEF CacheInv, CacheShaped, VictimFits, Unlink, Unlinked
  <2>3. \A f \in CacheFiles : f \in cached \union taken => \/ f \in (cached \union taken)'
                                                          \/ f \notin Pinned
    BY <1>4 DEF CacheInv, VictimFits, Unlink, Unlinked
  <2> QED
    BY <2>1, <2>2, <2>3, FitsStill DEF CacheInv
<1>5. ASSUME NEW rule \in Rules, KeepOffline(rule)
      PROVE  CacheInv'
  <2>1. CacheShaped' /\ VictimFits'
    BY <1>5 DEF KeepOffline, StartsChange, FilesOf, Rules, objectVars, CacheInv, CacheShaped,
       ChangeType,
       VictimFits
  <2>2. ~crossed /\ KeptOffline(offline, onlineOnly) => ChangeFits(rule)'
    BY <1>5 DEF KeepOffline, StartsChange, objectVars, CacheInv, CacheShaped, ChangeType,
       ChangeFits, KeptOffline, Wanted, FilesOf, Rules
  <2>3. \A other \in Rules : changing'[other].at = "no" => changing'[other] = NotChanging
    BY <1>5 DEF KeepOffline, StartsChange, CacheInv, CacheShaped
  <2> QED
    BY <1>5, <2>1, <2>2, <2>3, OneBegins DEF KeepOffline, CacheInv
<1>6. ASSUME NEW rule \in Rules, FreeSpace(rule)
      PROVE  CacheInv'
  <2>1. CacheShaped' /\ VictimFits'
    BY <1>6 DEF FreeSpace, StartsChange, FilesOf, Rules, objectVars, CacheInv, CacheShaped,
       ChangeType,
       VictimFits
  <2>2. ~crossed /\ KeptOffline(offline, onlineOnly) => ChangeFits(rule)'
    BY <1>6 DEF FreeSpace, StartsChange, objectVars, CacheInv, CacheShaped, ChangeType,
       ChangeFits, KeptOffline, Wanted, FilesOf, Rules
  <2>3. \A other \in Rules : changing'[other].at = "no" => changing'[other] = NotChanging
    BY <1>6 DEF FreeSpace, StartsChange, CacheInv, CacheShaped
  <2> QED
    BY <1>6, <2>1, <2>2, <2>3, OneBegins DEF FreeSpace, CacheInv
<1>7. ASSUME NEW rule \in Rules, Hydrate(rule)
      PROVE  CacheInv'
  <2>1. CacheShaped' /\ VictimFits'
    BY <1>7 DEF Hydrate, Used, ruleVars, CacheInv, CacheShaped, ChangeType, VictimFits
  <2>2. /\ UNCHANGED <<offline, onlineOnly, marked, crossed>>
        /\ \A other \in Rules : /\ changing'[other].at = changing[other].at
                               /\ changing'[other].offline = changing[other].offline
                               /\ changing'[other].onlineOnly = changing[other].onlineOnly
        /\ \A f \in CacheFiles : f \in cached \union taken => f \in (cached \union taken)'
    BY <1>7 DEF Hydrate, Used, ruleVars, CacheInv, CacheShaped, ChangeType
  <2>3. \A other \in Rules : changing'[other].at = "no" => changing'[other] = NotChanging
    BY <1>7 DEF Hydrate, ChangeAt, CacheInv, CacheShaped, ChangeType
  <2> QED
    BY <2>1, <2>2, <2>3, FitsStill DEF CacheInv
<1>8. ASSUME NEW rule \in Rules,
             FindObjects(rule) \/ MarkPin(rule) \/ PinFails(rule) \/ Unmark(rule) \/ Release(rule)
      PROVE  CacheInv'
  <2>1. CacheShaped'
    <3>1. changing' \in [Rules -> ChangeType]
      BY <1>8 DEF FindObjects, MarkPin, PinFails, Unmark, Release, ChangeMoves, CacheInv,
         CacheShaped, ChangeType
    <3>2. /\ marked' \subseteq Rules /\ offline' \subseteq Rules /\ onlineOnly' \subseteq Rules
          /\ cached' \subseteq cached
      BY <1>8 DEF FindObjects, MarkPin, PinFails, Unmark, Release, Unlinked, ruleVars, objectVars,
         CacheInv, CacheShaped, ChangeType
    <3>3. UNCHANGED <<crossed, connected, evictor>>
      BY <1>8 DEF FindObjects, MarkPin, PinFails, Unmark, Release
    <3> QED
      BY <3>1, <3>2, <3>3 DEF CacheInv, CacheShaped
  <2>2. VictimFits'
    BY <1>8 DEF FindObjects, MarkPin, PinFails, Unmark, Release, Unlinked, objectVars, CacheInv,
       VictimFits
  <2>3. /\ crossed' = crossed /\ changing[rule].at # "no" /\ changing'[rule].at # "no"
        /\ \A other \in Rules \ {rule} : changing'[other] = changing[other]
    BY <1>8 DEF FindObjects, MarkPin, PinFails, Unmark, Release, ChangeAt, ChangeMoves, CacheInv,
       CacheShaped, ChangeType
  <2>4. ASSUME ~crossed
        PROVE  ChangeFits(rule)'
    <3>1. ChangeFits(rule)
      BY <2>3, <2>4 DEF CacheInv, OneFits
    <3>2. CASE FindObjects(rule)
      BY <3>1, <3>2 DEF FindObjects, ChangeAt, ChangeMoves, ruleVars, objectVars, ChangeFits,
         KeptOffline, CacheInv, CacheShaped, ChangeType
    <3>3. CASE MarkPin(rule)
      BY <3>1, <3>3 DEF MarkPin, ChangeAt, ChangeMoves, objectVars, ChangeFits, KeptOffline,
         CacheInv, CacheShaped, ChangeType
    <3>4. CASE PinFails(rule)
      BY <3>1, <3>4 DEF PinFails, ChangeMoves, objectVars, ChangeFits, KeptOffline,
         CacheInv, CacheShaped, ChangeType
    <3>5. CASE Unmark(rule)
      BY <3>1, <3>5 DEF Unmark, ChangeAt, ChangeMoves, objectVars, ChangeFits, KeptOffline,
         CacheInv, CacheShaped, ChangeType
    <3>6. CASE Release(rule)
      BY <3>1, <3>6 DEF Release, Released, Unlinked, ChangeAt, ChangeMoves, ChangeFits,
         KeptOffline, Wanted, Rules, CacheInv, CacheShaped, ChangeType
    <3> QED
      BY <1>8, <3>2, <3>3, <3>4, <3>5, <3>6
  <2>5. \A other \in Rules : changing'[other].at = "no" => changing'[other] = NotChanging
    BY <2>3 DEF CacheInv
  <2> QED
    BY <2>1, <2>2, <2>3, <2>4, <2>5, OneGoesOn DEF CacheInv
<1>9. ASSUME NEW rule \in Rules, ChangeReady(rule)
      PROVE  CacheInv'
  <2>1. CacheShaped' /\ VictimFits'
    BY <1>9 DEF ChangeReady, NotChanging, objectVars, CacheInv, CacheShaped, ChangeType, VictimFits
  <2>2. \A other \in Rules : IF other = rule THEN changing'[other] = NotChanging
                             ELSE changing'[other] = changing[other]
    BY <1>9 DEF ChangeReady, CacheInv, CacheShaped
  <2>3. ASSUME ~crossed
        PROVE  KeptOffline(offline, onlineOnly)' /\ \A other \in Rules : changing'[other].at = "no"
    BY <1>9, <2>2, <2>3 DEF ChangeReady, NotChanging, objectVars, KeptOffline, CacheInv,
       OneChange, OneFits, ChangeFits
  <2> QED
    BY <1>9, <2>1, <2>2, <2>3 DEF ChangeReady, CacheInv, OneChange, OneFits
<1> QED
  BY <1>1, <1>2, <1>3, <1>4, <1>5, <1>6, <1>7, <1>8, <1>9 DEF CacheNext

-----------------------------------------------------------------------------
(* The search index *)

IndexRow == [version : Nat, text : Nat]
RefreshType ==
  [at : {"no", "waits", "walks"}, all : BOOLEAN, jobs : SUBSET Walkable, texts : BOOLEAN,
   todo : SUBSET Walkable, walks : SUBSET Walkable, visit : SUBSET Indexed,
   touched : SUBSET Indexed, draft : [Indexed -> IndexRow], steady : SUBSET Indexed,
   limited : SUBSET Indexed, since : BOOLEAN]
SearchShaped ==
  /\ mappings \subseteq Walkable /\ disk \in [Indexed -> Nat] /\ indexContents \in BOOLEAN
  /\ rows \in [Indexed -> IndexRow] /\ refresher \in [Refreshers -> RefreshType]
  /\ fileChanges \in Nat /\ settled \subseteq Indexed /\ purged \in BOOLEAN

\* The file, if its folder is there
OnDisk(e) == IF e[1] \in folders THEN disk[e] ELSE NoVersion
TextFits(row) == row.text \in {NoVersion, row.version}

\* Of a mapping the walk is not to come to, or has not come to yet
LiesAhead(r, e) ==
  e[1] \notin r.jobs \/ e[1] \in r.todo => r.draft[e] = rows[e] /\ e \notin r.steady

\* Of the one it walks: what was disturbed has lost its mark, and what it does not go to
\* any more without having found it is not there.
IsVisited(r, e) ==
  e[1] \in r.walks =>
    /\ e \notin r.steady => e \notin settled
    /\ e \in r.touched => /\ e \in r.steady => r.draft[e].version = OnDisk(e)
                          /\ ~r.texts => r.draft[e].text = NoVersion
    /\ e \notin r.touched => /\ r.draft[e] = rows[e]
                             /\ e \in r.steady \ r.visit => OnDisk(e) = NoVersion

\* Of one it has walked: the draft is right, or still what the index has.
LiesBehind(r, e) ==
  e[1] \in r.jobs \ (r.todo \union r.walks) =>
    /\ e \in r.steady => r.draft[e].version = OnDisk(e)
    /\ e \in settled \ r.steady => r.draft[e] = rows[e]
    /\ ~r.texts => r.draft[e].text = NoVersion \/ e \in r.limited

WalkFits(r) ==
  /\ r.todo \subseteq r.jobs /\ r.walks \subseteq r.jobs \ r.todo
  /\ r.walks = NoMapping \/ \E m \in Walkable : r.walks = {m}
  /\ \A e \in r.visit : e[1] \in r.walks
  /\ r.walks # NoMapping => \A e \in r.touched : e[1] \in r.walks
  /\ \A e \in Indexed : TextFits(r.draft[e]) /\ LiesAhead(r, e) /\ IsVisited(r, e) /\ LiesBehind(r, e)

OneWalks == \A t, u \in Refreshers : Stands(t, "walks") /\ Stands(u, "walks") => t = u
RefreshersFit ==
  \A t \in Refreshers :
    /\ Stands(t, "waits") =>
         /\ refresher[t].walks = NoMapping /\ refresher[t].visit = {} /\ refresher[t].touched = {}
         /\ refresher[t].steady = {}
    /\ Stands(t, "walks") =>
         /\ WalkFits(refresher[t])
         /\ refresher[t].since => refresher[t].texts = indexContents
         /\ purged => refresher[t].since

RowsFit ==
  /\ \A e \in Indexed : TextFits(rows[e])
  /\ \A e \in settled : rows[e].version = Expected(e)

SearchInv == SearchShaped /\ OneWalks /\ RefreshersFit /\ RowsFit /\ TextsAreDropped

LEMMA SearchInvInit == SearchInit => SearchInv
<1> SUFFICES ASSUME SearchInit
             PROVE  SearchInv
  OBVIOUS
<1>1. NoRow \in IndexRow /\ NoRow.text = NoVersion /\ NoRow.version = NoVersion
  BY DEF NoRow, IndexRow, NoVersion
<1>2. NoRefresh \in RefreshType /\ NoRefresh.at = "no"
  BY <1>1 DEF NoRefresh, RefreshType, NoRows, NoMapping
<1>3. SearchShaped
  BY <1>1, <1>2 DEF SearchInit, SearchShaped, NoRows
<1>4. OneWalks /\ RefreshersFit
  BY <1>2 DEF SearchInit, OneWalks, RefreshersFit, Stands
<1>5. RowsFit /\ TextsAreDropped
  BY <1>1 DEF SearchInit, RowsFit, TextFits, TextsAreDropped, NoRows
<1> QED
  BY <1>3, <1>4, <1>5 DEF SearchInv

LEMMA SearchInvHolds == SearchInv => SearchIsExact
BY DEF SearchInv, SearchShaped, RowsFit, TextFits, SearchIsExact, IndexIsExact

\* A thread's turn is no other's.
LEMMA TurnOf ==
  ASSUME SearchShaped, NEW t \in Refreshers, NEW to, Turns(t, to)
  PROVE  \A u \in Refreshers : refresher'[u] = IF u = t THEN to ELSE refresher[u]
BY DEF SearchShaped, Turns

\* What is asked for waits for its walk.
LEMMA AskedFits ==
  ASSUME NEW kind, NEW jobs \in SUBSET Walkable
  PROVE  LET r == Asked(kind, jobs) IN
         /\ r \in RefreshType /\ r.at = "waits" /\ r.walks = NoMapping /\ r.visit = {}
         /\ r.touched = {} /\ r.steady = {}
<1>1. NoRows \in [Indexed -> IndexRow]
  BY DEF NoRows, NoRow, IndexRow, NoVersion
<1> QED
  BY <1>1 DEF Asked, NoRefresh, RefreshType, NoMapping

\* What changes on the disk or in the list takes its mark from what it changes.
LEMMA StillFits ==
  ASSUME SearchShaped, NEW S \in SUBSET Indexed, NEW r \in RefreshType, NEW s \in RefreshType,
         WalkFits(r), s = [r EXCEPT !.steady = @ \ S], settled' = settled \ S, rows' = rows,
         \A e \in Indexed \ S : OnDisk(e)' = OnDisk(e)
  PROVE  WalkFits(s)'
<1>1. /\ s.todo = r.todo /\ s.jobs = r.jobs /\ s.walks = r.walks /\ s.visit = r.visit
      /\ s.touched = r.touched /\ s.draft = r.draft /\ s.texts = r.texts
      /\ s.limited = r.limited /\ s.steady = r.steady \ S
  BY DEF RefreshType
<1>2. ASSUME NEW e \in Indexed
      PROVE  TextFits(s.draft[e])' /\ LiesAhead(s, e)' /\ IsVisited(s, e)' /\ LiesBehind(s, e)'
  <2>1. TextFits(r.draft[e]) /\ LiesAhead(r, e) /\ IsVisited(r, e) /\ LiesBehind(r, e)
    BY DEF WalkFits
  <2> QED
    BY <1>1, <2>1 DEF TextFits, LiesAhead, IsVisited, LiesBehind
<1> QED
  BY <1>1, <1>2 DEF WalkFits

\* The thread that walks goes on.
LEMMA WalkGoesOn ==
  ASSUME SearchInv, OnlyWalks, NEW t \in Refreshers, NEW s \in RefreshType, Turns(t, s),
         \/ s.at = "no"
         \/ /\ s.at = "waits" /\ s.walks = NoMapping /\ s.visit = {} /\ s.touched = {}
            /\ s.steady = {}
         \/ /\ s.at = "walks" /\ WalkFits(s)
            /\ s.since => s.texts = indexContents
            /\ purged => s.since
            /\ \A u \in Refreshers \ {t} : ~Stands(u, "walks")
  PROVE  SearchInv'
<1>1. \A u \in Refreshers : refresher'[u] = IF u = t THEN s ELSE refresher[u]
  BY TurnOf DEF SearchInv
<1>2. SearchShaped'
  BY <1>1 DEF SearchInv, SearchShaped, OnlyWalks, Turns
<1>3. OneWalks'
  BY <1>1 DEF SearchInv, OneWalks, Stands
<1>4. ASSUME NEW u \in Refreshers, Stands(u, "walks")'
      PROVE  WalkFits(refresher[u])'
  <2>1. CASE u = t
    <3>1. refresher'[u] = s /\ s.at = "walks" /\ WalkFits(s)
      <4>1. refresher'[u] = s
        BY <1>1, <2>1
      <4>2. s.at = "walks"
        BY <1>4, <4>1 DEF Stands
      <4> QED
        BY <4>1, <4>2
    <3> QED
      BY <3>1 DEF OnlyWalks, WalkFits, TextFits, LiesAhead, IsVisited, LiesBehind, OnDisk
  <2>2. CASE u # t
    <3>1. refresher'[u] = refresher[u] /\ WalkFits(refresher[u])
      BY <1>1, <1>4, <2>2 DEF Stands, SearchInv, RefreshersFit
    <3> QED
      BY <3>1, SMTT(30) DEF OnlyWalks, WalkFits, TextFits, LiesAhead, IsVisited, LiesBehind, OnDisk
  <2> QED
    BY <2>1, <2>2
<1>5. RefreshersFit'
  <2>1. indexContents' = indexContents /\ purged' = purged
    BY DEF OnlyWalks
  <2>2. ASSUME NEW u \in Refreshers
        PROVE  /\ Stands(u, "waits")' =>
                    /\ refresher'[u].walks = NoMapping /\ refresher'[u].visit = {}
                    /\ refresher'[u].touched = {} /\ refresher'[u].steady = {}
               /\ Stands(u, "walks")' =>
                    /\ refresher'[u].since => refresher'[u].texts = indexContents
                    /\ purged => refresher'[u].since
    <3>1. CASE u = t
      <4>1. refresher'[u] = s
        BY <1>1, <3>1
      <4> QED
        BY <4>1 DEF Stands
    <3>2. CASE u # t
      BY <1>1, <3>2 DEF SearchInv, RefreshersFit, Stands
    <3> QED
      BY <3>1, <3>2
  <2> QED
    BY <1>4, <2>1, <2>2 DEF RefreshersFit
<1>6. RowsFit' /\ TextsAreDropped'
  BY DEF SearchInv, RowsFit, TextFits, Expected, TextsAreDropped, OnlyWalks
<1> QED
  BY <1>2, <1>3, <1>5, <1>6 DEF SearchInv

LEMMA WalkBegins ==
  ASSUME SearchInv, NEW t \in Refreshers, BeginWalk(t)
  PROVE  SearchInv'
<1> DEFINE r == refresher[t]
<1>1. /\ r \in RefreshType /\ r.at = "walks" /\ r.walks = NoMapping /\ WalkFits(r)
      /\ r.since => r.texts = indexContents
      /\ purged => r.since
      /\ \A u \in Refreshers \ {t} : ~Stands(u, "walks")
      /\ OnlyWalks
  BY DEF SearchInv, SearchShaped, OneWalks, RefreshersFit, BeginWalk, Stands
<1> DEFINE gone(m) == [r EXCEPT !.todo = @ \ {m}, !.draft = Without(@, InMapping(m)),
                                !.steady = @ \union InMapping(m)]
           begun(m) == [r EXCEPT !.todo = @ \ {m}, !.walks = {m}, !.touched = {},
                                !.visit = {e \in InMapping(m) : disk[e] # NoVersion},
                                !.steady = @ \union InMapping(m)]
<1>2. PICK m \in r.todo : Turns(t, IF m \notin folders THEN gone(m) ELSE begun(m))
  BY DEF BeginWalk
<1>3. m \in Walkable /\ m \in r.jobs /\ r.todo \subseteq r.jobs /\ r.visit = {}
  BY <1>1 DEF RefreshType, WalkFits, NoMapping
<1>4. \A e \in Indexed : TextFits(r.draft[e]) /\ LiesAhead(r, e) /\ IsVisited(r, e) /\ LiesBehind(r, e)
  BY <1>1 DEF WalkFits
<1>5. InMapping(m) \subseteq Indexed /\ \A e \in Indexed : e \in InMapping(m) <=> e[1] = m
  BY DEF InMapping
<1>6. CASE m \notin folders
  <2> DEFINE s == gone(m)
  <2>1. /\ s.at = r.at /\ s.since = r.since /\ s.texts = r.texts /\ s.jobs = r.jobs
        /\ s.todo = r.todo \ {m} /\ s.walks = r.walks /\ s.visit = r.visit
        /\ s.limited = r.limited /\ s.steady = r.steady \union InMapping(m)
        /\ s.draft = Without(r.draft, InMapping(m))
    BY <1>1 DEF RefreshType
  <2>2. NoRow \in IndexRow /\ NoRow.version = NoVersion /\ NoRow.text = NoVersion
    BY DEF NoRow, IndexRow, NoVersion
  <2>3. s.draft \in [Indexed -> IndexRow]
        /\ \A e \in Indexed : s.draft[e] = IF e[1] = m THEN NoRow ELSE r.draft[e]
    BY <1>1, <1>5, <2>1, <2>2 DEF Without, RefreshType
  <2>4. s \in RefreshType
    BY <1>1, <1>5, <2>3 DEF RefreshType
  <2>5. ASSUME NEW e \in Indexed
        PROVE  TextFits(s.draft[e]) /\ LiesAhead(s, e) /\ IsVisited(s, e) /\ LiesBehind(s, e)
    BY <1>1, <1>3, <1>4, <1>5, <1>6, <2>1, <2>2, <2>3
       DEF TextFits, LiesAhead, IsVisited, LiesBehind, OnDisk, NoMapping
  <2>6. WalkFits(s)
    BY <1>1, <1>3, <2>1, <2>5 DEF WalkFits, NoMapping
  <2> QED
    BY <1>1, <1>2, <1>6, <2>1, <2>4, <2>6, WalkGoesOn
<1>7. CASE m \in folders
  <2> DEFINE s == begun(m)
  <2>1. /\ s.at = r.at /\ s.since = r.since /\ s.texts = r.texts /\ s.jobs = r.jobs
        /\ s.todo = r.todo \ {m} /\ s.walks = {m} /\ s.touched = {}
        /\ s.visit = {e \in InMapping(m) : disk[e] # NoVersion}
        /\ s.limited = r.limited /\ s.steady = r.steady \union InMapping(m)
        /\ s.draft = r.draft
    BY <1>1 DEF RefreshType
  <2>2. s \in RefreshType
    BY <1>1, <1>3, <1>5 DEF RefreshType
  <2>3. ASSUME NEW e \in Indexed
        PROVE  TextFits(s.draft[e]) /\ LiesAhead(s, e) /\ IsVisited(s, e) /\ LiesBehind(s, e)
    BY <1>1, <1>3, <1>4, <1>5, <1>7, <2>1 DEF TextFits, LiesAhead, IsVisited, LiesBehind, OnDisk,
       NoMapping
  <2>4. WalkFits(s)
    BY <1>1, <1>3, <1>5, <2>1, <2>3 DEF WalkFits, NoMapping
  <2>5. Turns(t, s)
    BY <1>2, <1>7
  <2> HIDE DEF s
  <2> QED
    BY <1>1, <2>1, <2>2, <2>4, <2>5, WalkGoesOn
<1> QED
  BY <1>6, <1>7

LEMMA RowPut ==
  ASSUME NEW table \in [Indexed -> IndexRow], NEW e \in Indexed, NEW row \in IndexRow
  PROVE  /\ [table EXCEPT ![e] = row] \in [Indexed -> IndexRow]
         /\ \A f \in Indexed : [table EXCEPT ![e] = row][f] = IF f = e THEN row ELSE table[f]
OBVIOUS

LEMMA WalkVisits ==
  ASSUME SearchInv, NEW t \in Refreshers, NEW e \in Indexed, Visit(t, e)
  PROVE  SearchInv'
<1> DEFINE r == refresher[t]
           found == [r.draft EXCEPT ![e] = RowOf(e, @, r.texts)]
           seen == [r EXCEPT !.visit = @ \ {e}, !.touched = @ \union {e},
                             !.draft[e] = RowOf(e, @, r.texts)]
           unseen == InMapping(e[1]) \ seen.touched
           ended == [seen EXCEPT !.walks = NoMapping, !.visit = {},
                                 !.steady = @ \ unseen, !.limited = @ \union unseen]
           skipped == [r EXCEPT !.visit = @ \ {e}]
<1>1. /\ r \in RefreshType /\ r.at = "walks" /\ e \in r.visit /\ WalkFits(r)
      /\ r.since => r.texts = indexContents
      /\ purged => r.since
      /\ \A u \in Refreshers \ {t} : ~Stands(u, "walks")
      /\ OnlyWalks
  BY DEF SearchInv, SearchShaped, OneWalks, RefreshersFit, Visit, Stands
<1>2. /\ e[1] \in r.walks /\ r.walks = {e[1]} /\ r.walks # NoMapping
      /\ \A f \in r.touched : f[1] = e[1]
      /\ \A f \in r.visit : f[1] = e[1]
  BY <1>1 DEF WalkFits, NoMapping
<1>3. \A f \in Indexed : TextFits(r.draft[f]) /\ LiesAhead(r, f) /\ IsVisited(r, f) /\ LiesBehind(r, f)
  BY <1>1 DEF WalkFits
<1>4. /\ RowOf(e, r.draft[e], r.texts) \in IndexRow
      /\ RowOf(e, r.draft[e], r.texts).version = disk[e]
      /\ TextFits(RowOf(e, r.draft[e], r.texts))
      /\ ~r.texts => RowOf(e, r.draft[e], r.texts).text = NoVersion
  BY <1>1, <1>3 DEF RowOf, TextFits, IndexRow, NoVersion, RefreshType, SearchInv, SearchShaped
<1>5. /\ found \in [Indexed -> IndexRow]
      /\ \A f \in Indexed : found[f] = IF f = e THEN RowOf(e, r.draft[e], r.texts)
                                        ELSE r.draft[f]
  <2>1. r.draft \in [Indexed -> IndexRow]
    BY <1>1 DEF RefreshType
  <2>2. RowOf(e, r.draft[e], r.texts) \in IndexRow
    BY <1>4
  <2> HIDE DEF r
  <2> QED
    BY <2>1, <2>2, RowPut
<1>6. /\ seen \in RefreshType /\ seen.at = r.at /\ seen.since = r.since /\ seen.texts = r.texts
      /\ seen.jobs = r.jobs /\ seen.todo = r.todo /\ seen.walks = r.walks
      /\ seen.visit = r.visit \ {e} /\ seen.touched = r.touched \union {e}
      /\ seen.steady = r.steady /\ seen.limited = r.limited
      /\ seen.draft = found
  BY <1>1, <1>5 DEF RefreshType
<1> HIDE DEF seen, found
<1>7. CASE disk[e] = NoVersion \/ e[1] \notin folders
  <2>1. /\ skipped.at = r.at /\ skipped.since = r.since /\ skipped.texts = r.texts
        /\ skipped.jobs = r.jobs /\ skipped.todo = r.todo /\ skipped.walks = r.walks
        /\ skipped.visit = r.visit \ {e} /\ skipped.touched = r.touched
        /\ skipped.steady = r.steady /\ skipped.limited = r.limited /\ skipped.draft = r.draft
        /\ skipped \in RefreshType
    BY <1>1 DEF RefreshType
  <2>2. ASSUME NEW f \in Indexed
        PROVE  /\ TextFits(skipped.draft[f]) /\ LiesAhead(skipped, f) /\ IsVisited(skipped, f)
               /\ LiesBehind(skipped, f)
    BY <1>3, <1>7, <2>1 DEF TextFits, LiesAhead, IsVisited, LiesBehind, OnDisk
  <2>3. WalkFits(skipped)
    BY <1>1, <2>1, <2>2 DEF WalkFits
  <2>4. Turns(t, skipped)
    BY <1>7 DEF Visit, seen, found
  <2> QED
    BY <1>1, <2>1, <2>3, <2>4, WalkGoesOn
<1>8. CASE disk[e] # NoVersion /\ e[1] \in folders /\ Cardinality(seen.touched) < MaxEntries
  <2>1. ASSUME NEW f \in Indexed
        PROVE  TextFits(seen.draft[f]) /\ LiesAhead(seen, f) /\ IsVisited(seen, f) /\ LiesBehind(seen, f)
    <3>1. CASE f = e
      BY <1>1, <1>2, <1>4, <1>5, <1>6, <1>8, <3>1 DEF WalkFits, TextFits, LiesAhead, IsVisited,
         LiesBehind, OnDisk
    <3>2. CASE f # e
      <4>1. seen.draft[f] = r.draft[f]
        BY <1>5, <1>6, <3>2
      <4>2. TextFits(r.draft[f]) /\ LiesAhead(r, f) /\ IsVisited(r, f) /\ LiesBehind(r, f)
        BY <1>3
      <4> QED
        BY <1>6, <3>2, <4>1, <4>2 DEF TextFits, LiesAhead, IsVisited, LiesBehind
    <3> QED
      BY <3>1, <3>2
  <2>2. WalkFits(seen)
    BY <1>1, <1>2, <1>5, <1>6, <2>1 DEF WalkFits
  <2>3. Turns(t, seen)
    BY <1>8 DEF Visit, seen, found
  <2> QED
    BY <1>1, <1>5, <1>6, <2>2, <2>3, WalkGoesOn
<1>9. CASE disk[e] # NoVersion /\ e[1] \in folders /\ ~(Cardinality(seen.touched) < MaxEntries)
  <2>1. /\ ended \in RefreshType /\ ended.at = r.at /\ ended.since = r.since
        /\ ended.texts = r.texts /\ ended.jobs = r.jobs /\ ended.todo = r.todo
        /\ ended.walks = NoMapping /\ ended.visit = {} /\ ended.draft = seen.draft
        /\ ended.steady = r.steady \ unseen /\ ended.limited = r.limited \union unseen
    <3>1. unseen \subseteq Indexed
      BY DEF InMapping
    <3> HIDE DEF seen, unseen
    <3> QED
      BY <1>6, <3>1 DEF RefreshType, NoMapping
  <2>2. \A f \in Indexed : f \in unseen <=> f[1] = e[1] /\ f # e /\ f \notin r.touched
    BY <1>5, <1>6 DEF InMapping
  <2>3. ASSUME NEW f \in Indexed
        PROVE  TextFits(ended.draft[f]) /\ LiesAhead(ended, f) /\ IsVisited(ended, f) /\ LiesBehind(ended, f)
    <3>1. CASE f = e
      BY <1>1, <1>2, <1>4, <1>5, <1>6, <1>9, <2>1, <2>2, <3>1, SMTT(30)
         DEF WalkFits, TextFits, LiesAhead, IsVisited, LiesBehind, OnDisk, NoMapping
    <3>2. CASE f # e
      <4>1. ended.draft[f] = r.draft[f]
        BY <1>5, <1>6, <2>1, <3>2
      <4>2. TextFits(r.draft[f]) /\ LiesAhead(r, f) /\ IsVisited(r, f) /\ LiesBehind(r, f)
        BY <1>3
      <4>3. f \in ended.limited \/ f \notin unseen
        BY <2>1
      <4> HIDE DEF ended, unseen
      <4> QED
        BY <1>1, <1>2, <1>6, <2>1, <2>2, <3>2, <4>1, <4>2, <4>3
           DEF WalkFits, TextFits, LiesAhead, IsVisited, LiesBehind, NoMapping
    <3> QED
      BY <3>1, <3>2
  <2>4. WalkFits(ended)
    BY <1>1, <2>1, <2>3 DEF WalkFits, NoMapping
  <2>5. Turns(t, ended)
    BY <1>9 DEF Visit, seen, found
  <2> QED
    BY <1>1, <2>1, <2>4, <2>5, WalkGoesOn
<1> QED
  BY <1>7, <1>8, <1>9

LEMMA WalkEnds ==
  ASSUME SearchInv, NEW t \in Refreshers, EndWalk(t)
  PROVE  SearchInv'
<1> DEFINE r == refresher[t]
           s == [r EXCEPT !.walks = NoMapping, !.draft = Found(r)]
<1>1. /\ r \in RefreshType /\ r.at = "walks" /\ r.visit = {} /\ r.walks # NoMapping /\ WalkFits(r)
      /\ r.since => r.texts = indexContents
      /\ purged => r.since
      /\ \A u \in Refreshers \ {t} : ~Stands(u, "walks")
      /\ OnlyWalks /\ Turns(t, s)
  BY DEF SearchInv, SearchShaped, OneWalks, RefreshersFit, EndWalk, Stands
<1>2. NoRow \in IndexRow /\ NoRow.version = NoVersion /\ NoRow.text = NoVersion
  BY DEF NoRow, IndexRow, NoVersion
<1>3. Found(r) \in [Indexed -> IndexRow]
      /\ \A e \in Indexed : Found(r)[e] = IF e[1] \in r.walks /\ e \notin r.touched THEN NoRow
                                           ELSE r.draft[e]
  <2>1. \A e \in Indexed : e \in UNION {InMapping(m) : m \in r.walks} <=> e[1] \in r.walks
    BY DEF InMapping
  <2>2. Found(r) = [e \in Indexed |-> IF e[1] \in r.walks /\ e \notin r.touched THEN NoRow
                                     ELSE r.draft[e]]
    BY <2>1 DEF Found, Without
  <2> QED
    BY <1>1, <1>2, <2>2 DEF RefreshType
<1>4. /\ s \in RefreshType /\ s.at = r.at /\ s.since = r.since /\ s.texts = r.texts
      /\ s.jobs = r.jobs /\ s.todo = r.todo /\ s.walks = NoMapping
      /\ s.visit = {} /\ s.steady = r.steady /\ s.limited = r.limited /\ s.draft = Found(r)
  BY <1>1, <1>3 DEF RefreshType, NoMapping
<1>5. ASSUME NEW e \in Indexed
      PROVE  TextFits(s.draft[e]) /\ LiesAhead(s, e) /\ IsVisited(s, e) /\ LiesBehind(s, e)
  <2>1. TextFits(r.draft[e]) /\ LiesAhead(r, e) /\ IsVisited(r, e) /\ LiesBehind(r, e)
        /\ r.walks \subseteq r.jobs \ r.todo
    BY <1>1 DEF WalkFits
  <2> QED
    BY <1>1, <1>2, <1>3, <1>4, <2>1 DEF TextFits, LiesAhead, IsVisited, LiesBehind, NoMapping
<1>6. WalkFits(s)
  BY <1>1, <1>4, <1>5 DEF WalkFits, NoMapping
<1> QED
  BY <1>1, <1>4, <1>6, WalkGoesOn

LEMMA WalkStarts ==
  ASSUME SearchInv, NEW t \in Refreshers, TakeLock(t)
  PROVE  SearchInv'
<1> DEFINE r == refresher[t]
           s == [r EXCEPT !.at = "walks", !.todo = r.jobs, !.draft = rows,
                          !.texts = indexContents, !.since = TRUE]
<1>1. /\ r \in RefreshType /\ r.walks = NoMapping /\ r.visit = {} /\ r.touched = {}
      /\ r.steady = {} /\ \A u \in Refreshers : ~Stands(u, "walks")
      /\ OnlyWalks /\ Turns(t, s)
  BY DEF SearchInv, SearchShaped, RefreshersFit, TakeLock, Stands
<1>2. /\ s \in RefreshType /\ s.at = "walks" /\ s.since /\ s.texts = indexContents
      /\ s.jobs = r.jobs /\ s.todo = r.jobs /\ s.walks = NoMapping
      /\ s.visit = {} /\ s.steady = {} /\ s.draft = rows
  BY <1>1 DEF RefreshType, SearchInv, SearchShaped
<1>3. WalkFits(s)
  BY <1>2 DEF WalkFits, LiesAhead, IsVisited, LiesBehind, NoMapping, SearchInv, RowsFit
<1> QED
  BY <1>1, <1>2, <1>3, WalkGoesOn

\* What changes on the disk disturbs the walks.
LEMMA DiskChanges ==
  ASSUME SearchInv, NEW S \in SUBSET Indexed, Altered(S), Disturbs(S),
         UNCHANGED <<mappings, indexContents, rows, purged, left>>, disk' \in [Indexed -> Nat],
         \A e \in Indexed \ S : OnDisk(e)' = OnDisk(e)
  PROVE  SearchInv'
<1>1. fileChanges' \in Nat /\ settled' = settled \ S
  BY DEF Altered, SearchInv, SearchShaped
<1>2. \A t \in Refreshers : /\ refresher[t] \in RefreshType
                            /\ refresher'[t] = [refresher[t] EXCEPT !.steady = @ \ S]
  BY DEF Disturbs, SearchInv, SearchShaped
<1>3. ASSUME NEW t \in Refreshers
      PROVE  /\ refresher'[t] \in RefreshType /\ refresher'[t].at = refresher[t].at
             /\ refresher'[t].walks = refresher[t].walks /\ refresher'[t].visit = refresher[t].visit
             /\ refresher'[t].touched = refresher[t].touched
             /\ refresher'[t].steady = refresher[t].steady \ S
             /\ refresher'[t].since = refresher[t].since /\ refresher'[t].texts = refresher[t].texts
  <2>1. refresher[t] \in RefreshType /\ refresher'[t] = [refresher[t] EXCEPT !.steady = @ \ S]
    BY <1>2
  <2> QED
    BY <2>1 DEF RefreshType
<1>4. SearchShaped'
  BY <1>1, <1>3 DEF Disturbs, SearchInv, SearchShaped
<1>5. OneWalks'
  BY <1>3 DEF SearchInv, OneWalks, Stands
<1>6. ASSUME NEW t \in Refreshers, Stands(t, "walks")
      PROVE  WalkFits(refresher[t])'
  <2>1. PICK s : s = refresher'[t]
    OBVIOUS
  <2>2. s \in RefreshType /\ s = [refresher[t] EXCEPT !.steady = @ \ S] /\ rows' = rows
    BY <1>2, <1>3, <2>1
  <2>3. WalkFits(refresher[t]) /\ SearchShaped
    BY <1>6 DEF SearchInv, RefreshersFit
  <2>4. WalkFits(s)'
    BY <1>1, <1>2, <2>2, <2>3, StillFits
  <2> QED
    BY <2>1, <2>4 DEF WalkFits, TextFits, LiesAhead, IsVisited, LiesBehind, OnDisk
<1>7. RefreshersFit'
  BY <1>3, <1>6 DEF SearchInv, RefreshersFit, Stands
<1>8. RowsFit'
  <2>1. ASSUME NEW e \in settled'
        PROVE  rows'[e].version = Expected(e)'
    <3>1. e \in settled /\ e \in Indexed \ S
      BY <1>1, <2>1 DEF SearchInv, SearchShaped
    <3>2. rows[e].version = Expected(e) /\ OnDisk(e)' = OnDisk(e)
      BY <3>1 DEF SearchInv, RowsFit
    <3> QED
      BY <3>2 DEF Expected, OnDisk
  <2> QED
    BY <2>1 DEF SearchInv, RowsFit, TextFits
<1>9. TextsAreDropped'
  BY DEF SearchInv, TextsAreDropped
<1> QED
  BY <1>4, <1>5, <1>7, <1>8, <1>9 DEF SearchInv

\* A change of the list, or of the setting, disturbs no walk, but takes their marks from
\* the entries and from the walks.
LEMMA ListChanges ==
  ASSUME SearchInv, NEW m \in Walkable, MappingChanges(m)
  PROVE  SearchInv'
<1>1. /\ fileChanges' \in Nat /\ settled' = settled \ InMapping(m)
      /\ UNCHANGED <<folders, disk, indexContents, rows, refresher, purged, left>>
  BY DEF MappingChanges, Altered, SearchInv, SearchShaped
<1>2. InMapping(m) \subseteq Indexed /\ \A e \in Indexed \ InMapping(m) : e[1] # m
  BY DEF InMapping
<1>3. ASSUME NEW t \in Refreshers, Stands(t, "walks")
      PROVE  WalkFits(refresher[t])'
  <2>1. WalkFits(refresher[t])
    BY <1>3 DEF SearchInv, RefreshersFit
  <2> QED
    BY <1>1, <2>1 DEF WalkFits, TextFits, LiesAhead, IsVisited, LiesBehind, OnDisk
<1>4. RefreshersFit' /\ OneWalks'
  BY <1>1, <1>3 DEF SearchInv, RefreshersFit, OneWalks, Stands
<1>5. ASSUME NEW e \in settled'
      PROVE  rows'[e].version = Expected(e)'
  <2>1. e \in settled /\ e[1] # m
    BY <1>1, <1>2, <1>5 DEF SearchInv, SearchShaped
  <2>2. e[1] \in mappings' <=> e[1] \in mappings
    BY <2>1 DEF MappingChanges
  <2> QED
    BY <1>1, <2>1, <2>2 DEF SearchInv, RowsFit, Expected
<1>6. RowsFit' /\ TextsAreDropped'
  BY <1>1, <1>5 DEF SearchInv, RowsFit, TextFits, TextsAreDropped
<1> QED
  BY <1>1, <1>4, <1>6 DEF SearchInv, SearchShaped, MappingChanges

LEMMA SettingChanges ==
  ASSUME SearchInv, NEW t \in Refreshers, ToggleContents(t)
  PROVE  SearchInv'
<1>1. /\ fileChanges' \in Nat /\ settled' = settled /\ indexContents' \in BOOLEAN
      /\ UNCHANGED <<mappings, folders, disk, rows>> /\ purged' = FALSE
  BY DEF ToggleContents, Altered, SearchInv, SearchShaped
<1>2. \A u \in Refreshers :
        /\ refresher[u] \in RefreshType
        /\ refresher'[u] = IF u = t THEN Asked("all", mappings)
                           ELSE [refresher[u] EXCEPT !.since = FALSE]
  BY DEF ToggleContents, SearchInv, SearchShaped
<1>3. /\ refresher'[t] \in RefreshType /\ refresher'[t].at = "waits"
      /\ refresher'[t].walks = NoMapping /\ refresher'[t].visit = {}
      /\ refresher'[t].touched = {} /\ refresher'[t].steady = {}
  <2>1. refresher'[t] = Asked("all", mappings) /\ mappings \in SUBSET Walkable
    BY <1>2 DEF SearchInv, SearchShaped
  <2> QED
    BY <2>1, AskedFits
<1>4. ASSUME NEW u \in Refreshers, u # t
      PROVE  /\ refresher'[u] \in RefreshType /\ refresher'[u].at = refresher[u].at
             /\ refresher'[u].all = refresher[u].all /\ refresher'[u].jobs = refresher[u].jobs
             /\ refresher'[u].texts = refresher[u].texts /\ refresher'[u].todo = refresher[u].todo
             /\ refresher'[u].walks = refresher[u].walks /\ refresher'[u].visit = refresher[u].visit
             /\ refresher'[u].touched = refresher[u].touched
             /\ refresher'[u].draft = refresher[u].draft /\ refresher'[u].steady = refresher[u].steady
             /\ refresher'[u].limited = refresher[u].limited /\ refresher'[u].since = FALSE
  <2>1. refresher[u] \in RefreshType /\ refresher'[u] = [refresher[u] EXCEPT !.since = FALSE]
    BY <1>2, <1>4
  <2> QED
    BY <2>1 DEF RefreshType
<1>5. SearchShaped'
  BY <1>1, <1>3, <1>4 DEF ToggleContents, SearchInv, SearchShaped
<1>6. OneWalks'
  <2> SUFFICES ASSUME NEW u \in Refreshers, NEW v \in Refreshers,
                      refresher'[u].at = "walks", refresher'[v].at = "walks"
               PROVE  u = v
    BY DEF OneWalks, Stands
  <2>1. u # t /\ v # t
    BY <1>3
  <2>2. refresher[u].at = "walks" /\ refresher[v].at = "walks"
    BY <1>4, <2>1
  <2> QED
    BY <2>2 DEF SearchInv, OneWalks, Stands
<1>7. ASSUME NEW u \in Refreshers, Stands(u, "walks")'
      PROVE  WalkFits(refresher[u])'
  <2>1. u # t
    BY <1>3, <1>7 DEF Stands
  <2>2. WalkFits(refresher[u])
    BY <1>4, <1>7, <2>1 DEF SearchInv, RefreshersFit, Stands
  <2>3. /\ refresher'[u].jobs = refresher[u].jobs
        /\ refresher'[u].texts = refresher[u].texts /\ refresher'[u].todo = refresher[u].todo
        /\ refresher'[u].walks = refresher[u].walks /\ refresher'[u].visit = refresher[u].visit
        /\ refresher'[u].touched = refresher[u].touched
        /\ refresher'[u].draft = refresher[u].draft /\ refresher'[u].steady = refresher[u].steady
        /\ refresher'[u].limited = refresher[u].limited
    BY <1>4, <2>1
  <2> QED
    BY <1>1, <2>2, <2>3, SMTT(30) DEF WalkFits, TextFits, LiesAhead, IsVisited, LiesBehind, OnDisk
<1>8. RefreshersFit'
  <2>1. ASSUME NEW u \in Refreshers
        PROVE  /\ Stands(u, "waits")' =>
                    /\ refresher'[u].walks = NoMapping /\ refresher'[u].visit = {}
                    /\ refresher'[u].touched = {} /\ refresher'[u].steady = {}
               /\ Stands(u, "walks")' => ~refresher'[u].since
    <3>1. CASE u = t
      BY <1>3, <3>1 DEF Stands
    <3>2. CASE u # t
      <4>1. /\ refresher'[u].at = refresher[u].at
            /\ refresher'[u].walks = refresher[u].walks /\ refresher'[u].visit = refresher[u].visit
            /\ refresher'[u].touched = refresher[u].touched
            /\ refresher'[u].steady = refresher[u].steady /\ refresher'[u].since = FALSE
        BY <1>4, <3>2
      <4> QED
        BY <4>1 DEF SearchInv, RefreshersFit, Stands
    <3> QED
      BY <3>1, <3>2
  <2> QED
    BY <1>1, <1>7, <2>1 DEF RefreshersFit
<1>9. RowsFit' /\ TextsAreDropped'
  BY <1>1 DEF SearchInv, RowsFit, TextFits, Expected, TextsAreDropped
<1> QED
  BY <1>5, <1>6, <1>8, <1>9 DEF SearchInv

\* Nobody walks when the program starts.
LEMMA SearchStartsAgain ==
  ASSUME SearchInv, NEW t \in Refreshers, SearchRestart(t)
  PROVE  SearchInv'
<1>1. OnlyWalks
  BY DEF SearchRestart
<1>2. NoRefresh \in RefreshType /\ NoRefresh.at = "no"
  BY DEF NoRefresh, RefreshType, NoRows, NoRow, IndexRow, NoVersion, NoMapping
<1>3. PICK needed \in BOOLEAN :
        refresher' = [u \in Refreshers |-> IF u = t /\ needed THEN Asked("all", mappings)
                                           ELSE NoRefresh]
  BY DEF SearchRestart
<1>4. mappings \in SUBSET Walkable
  BY DEF SearchInv, SearchShaped
<1>5. SearchShaped' /\ OneWalks' /\ RefreshersFit'
  BY <1>1, <1>2, <1>3, <1>4, AskedFits
     DEF OnlyWalks, SearchInv, SearchShaped, OneWalks, RefreshersFit, Stands
<1>6. RowsFit' /\ TextsAreDropped'
  BY <1>1 DEF SearchInv, RowsFit, TextFits, Expected, TextsAreDropped, OnlyWalks
<1> QED
  BY <1>5, <1>6 DEF SearchInv

LEMMA WalkCommits ==
  ASSUME SearchInv, NEW t \in Refreshers, CommitRefresh(t)
  PROVE  SearchInv'
<1> DEFINE r == refresher[t]
           strangers == IF r.all THEN {e \in Indexed : e[1] \notin r.jobs} ELSE {}
           scope == {e \in Indexed : r.all \/ e[1] \in r.jobs}
           right == {e \in scope : (e[1] \in r.jobs) = (e[1] \in mappings)}
<1>1. /\ r \in RefreshType /\ WalkFits(r) /\ r.todo = {} /\ r.walks = {}
      /\ r.since => r.texts = indexContents
      /\ purged => r.since
      /\ \A u \in Refreshers \ {t} : ~Stands(u, "walks")
  BY DEF SearchInv, SearchShaped, OneWalks, RefreshersFit, CommitRefresh, Stands, NoMapping
<1>2. /\ rows' = Without(r.draft, strangers)
      /\ settled' = (settled \ (scope \ right)) \union (right \intersect (r.steady \union strangers))
      /\ purged' = (purged \/ (r.all /\ r.since))
      /\ left' = {e \in left \union r.limited : rows'[e] # NoRow}
                    \ ((UNION {InMapping(m) : m \in r.jobs}) \ r.limited)
      /\ Turns(t, NoRefresh)
      /\ UNCHANGED <<mappings, folders, disk, indexContents, fileChanges>>
  BY DEF CommitRefresh
<1>3. ASSUME NEW e \in Indexed
      PROVE  /\ TextFits(r.draft[e])
             /\ e[1] \notin r.jobs => r.draft[e] = rows[e] /\ e \notin r.steady
             /\ e[1] \in r.jobs /\ e \in r.steady => r.draft[e].version = OnDisk(e)
             /\ e[1] \in r.jobs /\ e \in settled \ r.steady => r.draft[e] = rows[e]
             /\ e[1] \in r.jobs /\ ~r.texts => r.draft[e].text = NoVersion \/ e \in r.limited
  BY <1>1 DEF WalkFits, LiesAhead, LiesBehind
<1>4. NoRow \in IndexRow /\ NoRow.version = NoVersion /\ NoRow.text = NoVersion
  BY DEF NoRow, IndexRow, NoVersion
<1>5. \A e \in Indexed : /\ e \in strangers <=> r.all /\ e[1] \notin r.jobs
                         /\ e \in scope <=> r.all \/ e[1] \in r.jobs
                         /\ e \in right <=> /\ r.all \/ e[1] \in r.jobs
                                            /\ (e[1] \in r.jobs) = (e[1] \in mappings)
  OBVIOUS
<1>6. /\ rows' \in [Indexed -> IndexRow]
      /\ \A e \in Indexed : rows'[e] = IF r.all /\ e[1] \notin r.jobs THEN NoRow ELSE r.draft[e]
  <2>1. rows' = [e \in Indexed |-> IF r.all /\ e[1] \notin r.jobs THEN NoRow ELSE r.draft[e]]
    BY <1>2 DEF Without
  <2>2. r.draft \in [Indexed -> IndexRow]
    BY <1>1 DEF RefreshType
  <2> QED
    BY <1>4, <2>1, <2>2
<1>7. \A u \in Refreshers : refresher'[u] = IF u = t THEN NoRefresh ELSE refresher[u]
  BY <1>2, TurnOf DEF SearchInv
<1>8. NoRefresh \in RefreshType /\ NoRefresh.at = "no"
  BY DEF NoRefresh, RefreshType, NoRows, NoRow, IndexRow, NoVersion, NoMapping
<1>9. SearchShaped'
  <2>1. settled' \subseteq Indexed /\ purged' \in BOOLEAN
    BY <1>1, <1>2 DEF SearchInv, SearchShaped, RefreshType
  <2> QED
    BY <1>2, <1>6, <1>8, <2>1 DEF Turns, SearchInv, SearchShaped
<1>10. OneWalks' /\ RefreshersFit'
  BY <1>1, <1>7, <1>8 DEF SearchInv, OneWalks, RefreshersFit, Stands
<1>11. ASSUME NEW e \in settled'
       PROVE  rows'[e].version = Expected(e)'
  <2>1. e \in Indexed /\ e \in settled'
    BY <1>9, <1>11 DEF SearchShaped
  <2>2. \/ e \in settled /\ (e \in scope => e \in right)
        \/ e \in right /\ e \in r.steady
        \/ e \in right /\ e \in strangers
    BY <1>2, <2>1
  <2>3. e \in settled => rows[e].version = Expected(e)
    BY DEF SearchInv, RowsFit
  <2>4. Expected(e)' = Expected(e)
    BY <1>2 DEF Expected
  <2>5. Expected(e) = IF e[1] \in mappings THEN OnDisk(e) ELSE NoVersion
    BY DEF Expected, OnDisk
  <2> HIDE DEF r, strangers, scope, right
  <2> QED
    BY <1>3, <1>4, <1>5, <1>6, <2>1, <2>2, <2>3, <2>4, <2>5
<1>12. \A e \in Indexed : TextFits(rows'[e])
  BY <1>3, <1>4, <1>6 DEF TextFits
<1>13. ASSUME ~indexContents', purged', NEW e \in Indexed \ left'
       PROVE  rows'[e].text = NoVersion
  <2>1. ~r.texts /\ (purged \/ r.all)
    BY <1>1, <1>2, <1>13
  <2>2. rows'[e] = NoRow \/ e \notin left \union r.limited
        \/ (e[1] \in r.jobs /\ e \notin r.limited)
    BY <1>2, <1>13 DEF InMapping
  <2>3. ~r.all => e \in left \/ rows[e].text = NoVersion
    BY <1>2, <1>13, <2>1 DEF SearchInv, TextsAreDropped
  <2> QED
    BY <1>3, <1>4, <1>6, <2>1, <2>2, <2>3
<1>14. RowsFit' /\ TextsAreDropped'
  BY <1>11, <1>12, <1>13 DEF RowsFit, TextFits, TextsAreDropped
<1> QED
  BY <1>9, <1>10, <1>14 DEF SearchInv

LEMMA SearchInvNext == SearchInv /\ [SearchNext]_searchVars => SearchInv'
<1> SUFFICES ASSUME SearchInv, [SearchNext]_searchVars
             PROVE  SearchInv'
  OBVIOUS
<1>1. ASSUME NEW e \in Indexed, FileChanges(e) \/ FileGoes(e)
      PROVE  SearchInv'
  <2>1. /\ Altered({e}) /\ Disturbs({e}) /\ UNCHANGED <<mappings, folders, indexContents, rows, purged, left>>
        /\ disk' = [disk EXCEPT ![e] = fileChanges' + 1] \/ disk' = [disk EXCEPT ![e] = NoVersion]
    BY <1>1 DEF FileChanges, FileGoes
  <2>2. disk' \in [Indexed -> Nat] /\ \A f \in Indexed \ {e} : disk'[f] = disk[f]
    BY <2>1 DEF Altered, NoVersion, SearchInv, SearchShaped
  <2>3. \A f \in Indexed \ {e} : OnDisk(f)' = OnDisk(f)
    BY <2>1, <2>2 DEF OnDisk
  <2> QED
    BY <2>1, <2>2, <2>3, DiskChanges
<1>2. ASSUME NEW m \in Walkable, FolderChanges(m)
      PROVE  SearchInv'
  <2>1. InMapping(m) \subseteq Indexed /\ \A e \in Indexed \ InMapping(m) : e[1] # m
    BY DEF InMapping
  <2>2. /\ Altered(InMapping(m)) /\ Disturbs(InMapping(m))
        /\ UNCHANGED <<mappings, disk, indexContents, rows, purged, left>>
        /\ \A e \in Indexed \ InMapping(m) : e[1] \in folders' <=> e[1] \in folders
    BY <1>2, <2>1 DEF FolderChanges
  <2>3. disk' \in [Indexed -> Nat]
    BY <2>2 DEF SearchInv, SearchShaped
  <2>4. \A e \in Indexed \ InMapping(m) : OnDisk(e)' = OnDisk(e)
    BY <2>2 DEF OnDisk
  <2> QED
    BY <2>1, <2>2, <2>3, <2>4, DiskChanges
<1>3. ASSUME NEW t \in Refreshers, NEW m \in Walkable, RefreshMapping(t, m)
      PROVE  SearchInv'
  <2>1. OnlyWalks /\ Turns(t, Asked("one", {m}))
    BY <1>3 DEF RefreshMapping, Ask, OnlyWalks, Turns
  <2> QED
    BY <2>1, AskedFits, WalkGoesOn
<1>4. ASSUME NEW t \in Refreshers, RefreshAll(t)
      PROVE  SearchInv'
  <2>1. OnlyWalks /\ Turns(t, Asked("all", mappings)) /\ mappings \in SUBSET Walkable
    BY <1>4 DEF RefreshAll, Ask, OnlyWalks, Turns, SearchInv, SearchShaped
  <2> QED
    BY <2>1, AskedFits, WalkGoesOn
<1>5. ASSUME NEW t \in Refreshers, RefreshFails(t)
      PROVE  SearchInv'
  <2>1. NoRefresh \in RefreshType /\ NoRefresh.at = "no"
    BY DEF NoRefresh, RefreshType, NoRows, NoRow, IndexRow, NoVersion, NoMapping
  <2> QED
    BY <1>5, <2>1, WalkGoesOn DEF RefreshFails
<1>6. CASE UNCHANGED searchVars
  BY <1>6, SMTT(30)
  DEF searchVars, SearchInv, SearchShaped, OneWalks, RefreshersFit, Stands, WalkFits,
     TextFits, LiesAhead, IsVisited, LiesBehind, OnDisk, RowsFit, Expected, TextsAreDropped
<1> QED
  BY <1>1, <1>2, <1>3, <1>4, <1>5, <1>6, ListChanges, SettingChanges, WalkStarts, WalkBegins,
     WalkVisits, WalkEnds, WalkCommits, SearchStartsAgain DEF SearchNext

-----------------------------------------------------------------------------
(* The uploads into a peer's share *)

SenderSteps ==
  {"idle", "write", "confirm", "signatures", "blocks", "sum", "send", "manifest", "release", "delete"}
BlockValues == [Blocks -> Nat]
SenderType == [at : SenderSteps, token : Nat, until : Nat, current : BlockValues,
               blocks : BlockValues, sum : BlockValues]
UploadsShaped ==
  /\ clock \in Nat /\ sent \in Nat /\ edited \in Nat /\ raced \in BOOLEAN
  /\ versions \in [Senders -> BlockValues] /\ sender \in [Senders -> SenderType]

\* What is read as a whole was a whole: the versions, what goes with a transaction to be
\* compared with the result, and so the share's file.
FilesWhole ==
  /\ Nothing \in whole /\ target \in whole
  /\ \A d \in Senders : versions[d] \in whole /\ sender[d].sum \in whole
  /\ \A transaction \in queue : transaction.sum \in whole

Holding(d) == sender[d].at \notin {"idle", "write"}

\* Tokens are used once, and who holds a lease that runs has his token in the file.
LeasesFit ==
  /\ \A d \in Senders : sender[d].token <= sent
  /\ \A d, other \in Senders : Holding(d) /\ Holding(other) /\ d # other =>
       sender[d].token # sender[other].token
  /\ ~raced => \A d \in Senders : Holding(d) /\ clock < sender[d].until =>
       lease.owner = d /\ lease.token = sender[d].token /\ lease.until = sender[d].until

UploadsInv == UploadsShaped /\ FilesWhole /\ LeasesFit

LEMMA UploadsInvInit == UploadsInit => UploadsInv
<1> SUFFICES ASSUME UploadsInit
             PROVE  UploadsInv
  OBVIOUS
<1>1. Nothing \in BlockValues
  BY DEF Nothing, BlockValues
<1>2. NotSending \in SenderType /\ NotSending.at = "idle" /\ NotSending.token = 0 /\ NotSending.sum = Nothing
  BY <1>1 DEF NotSending, SenderType, SenderSteps
<1> QED
  <2>1. /\ clock = 0 /\ sent = 0 /\ edited = 0 /\ raced = FALSE /\ target = Nothing /\ queue = {}
        /\ whole = {Nothing} /\ versions = [d \in Senders |-> Nothing]
        /\ sender = [d \in Senders |-> NotSending]
    BY DEF UploadsInit
  <2>2. UploadsShaped
    BY <1>1, <1>2, <2>1 DEF UploadsShaped
  <2>3. FilesWhole
    BY <1>2, <2>1 DEF FilesWhole
  <2>4. LeasesFit
    BY <1>2, <2>1 DEF LeasesFit, Holding
  <2> QED
    BY <2>2, <2>3, <2>4 DEF UploadsInv

LEMMA UploadsInvHolds == UploadsInv => PeerEditsAreWhole
<1> SUFFICES ASSUME UploadsInv
             PROVE  PeerEditsAreWhole
  OBVIOUS
<1>1. ASSUME ~raced, NEW d \in Senders, NEW other \in Senders, d # other, Uploading(d),
             Uploading(other), ~(clock >= sender[d].until \/ clock >= sender[other].until)
      PROVE  FALSE
  <2>1. Holding(d) /\ Holding(other)
    BY <1>1 DEF Holding, Uploading
  <2>2. clock < sender[d].until /\ clock < sender[other].until
    BY <1>1 DEF UploadsInv, UploadsShaped, SenderType
  <2> QED
    BY <1>1, <2>1, <2>2 DEF UploadsInv, LeasesFit
<1> QED
  BY <1>1 DEF UploadsInv, FilesWhole, PeerEditsAreWhole

\* A step that leaves the clock and the lease to others, of a device that gains none.
LEMMA LeasesStay ==
  ASSUME UploadsInv, UNCHANGED <<clock, lease, sent, raced>>, NEW d \in Senders,
         UploadsShaped',
         \A other \in Senders : other # d => sender'[other] = sender[other],
         \/ sender'[d].at = "idle" /\ sender'[d].token = 0
         \/ /\ sender'[d].token = sender[d].token /\ sender'[d].until = sender[d].until
            /\ Holding(d)' => Holding(d)
  PROVE  LeasesFit'
<1>1. ASSUME NEW o \in Senders
      PROVE  /\ sender'[o].token \in Nat /\ sender'[o].token <= sent
             /\ Holding(o)' => /\ Holding(o) /\ sender'[o].token = sender[o].token
                              /\ sender'[o].until = sender[o].until
  BY DEF UploadsInv, UploadsShaped, SenderType, LeasesFit, Holding
<1> QED
  BY <1>1 DEF UploadsInv, LeasesFit

LEMMA UploadsInvNext == UploadsInv /\ [UploadsNext]_uploadVars => UploadsInv'
<1> SUFFICES ASSUME UploadsInv, [UploadsNext]_uploadVars
             PROVE  UploadsInv'
  OBVIOUS
<1>1. CASE Minute
  <2>1. /\ clock' = clock + 1 /\ clock \in Nat
        /\ UNCHANGED <<edited, versions, target, lease, queue, sent, sender, whole, raced>>
    BY <1>1 DEF Minute, UploadsInv, UploadsShaped
  <2>2. \A d \in Senders : sender[d].until \in Nat
    BY DEF UploadsInv, UploadsShaped, SenderType
  <2>3. \A d \in Senders : clock' < sender'[d].until => clock < sender[d].until
    BY <2>1, <2>2
  <2> QED
    BY <2>1, <2>3 DEF UploadsInv, UploadsShaped, FilesWhole, LeasesFit, Holding
<1>2. CASE OwnerEdits \/ UNCHANGED uploadVars
  BY <1>2 DEF OwnerEdits, uploadVars, UploadsInv, UploadsShaped, FilesWhole, LeasesFit, Holding
<1>3. ASSUME NEW d \in Senders, EditFile(d)
      PROVE  UploadsInv'
  <2>1. PICK b \in Blocks : versions' = [versions EXCEPT ![d][b] = edited']
    BY <1>3 DEF EditFile
  <2>2. edited' \in Nat
    BY <1>3 DEF EditFile, UploadsInv, UploadsShaped
  <2>3. /\ versions' \in [Senders -> BlockValues]
        /\ \A other \in Senders : other # d => versions'[other] = versions[other]
    BY <2>1, <2>2 DEF UploadsInv, UploadsShaped, BlockValues
  <2>4. /\ whole' = whole \union {versions'[d]}
        /\ UNCHANGED <<clock, sent, target, lease, queue, sender, raced>>
    BY <1>3 DEF EditFile
  <2> QED
    BY <2>2, <2>3, <2>4 DEF UploadsInv, UploadsShaped, FilesWhole, LeasesFit, Holding
<1>4. ASSUME NEW transaction \in queue, NEW removed \in BOOLEAN, ApplyTransaction(transaction, removed)
      PROVE  UploadsInv'
  BY <1>4 DEF ApplyTransaction, Sound, UploadsInv, UploadsShaped, FilesWhole, LeasesFit, Holding
<1>5. /\ NotSending \in SenderType /\ NotSending.at = "idle" /\ NotSending.token = 0
      /\ NotSending.sum = Nothing
  BY DEF NotSending, SenderType, SenderSteps, Nothing, BlockValues
<1>6. ASSUME NEW d \in Senders,
             \/ ReadLease(d) \/ ConfirmLease(d) \/ ReadToRelease(d) \/ ReadSignatures(d)
             \/ ReadBlocks(d) \/ ReadSum(d) \/ SendTransaction(d) \/ SaveManifest(d)
             \/ FullTransfer(d) \/ TransferEnds(d)
      PROVE  UploadsInv'
  <2>1. /\ UNCHANGED <<clock, lease, sent, raced, versions, whole, edited>>
        /\ \/ sender' = [sender EXCEPT ![d] = NotSending]
           \/ sender' = [sender EXCEPT ![d].at = "write"] /\ sender[d].at = "idle"
           \/ /\ sender[d].at \notin {"idle", "write"}
              /\ \E at \in SenderSteps :
                   \/ sender' = [sender EXCEPT ![d].at = at]
                   \/ sender' = [sender EXCEPT ![d] = [@ EXCEPT !.at = at, !.current = versions[d]]]
                   \/ sender' = [sender EXCEPT ![d] = [@ EXCEPT !.at = at, !.blocks = versions[d]]]
                   \/ sender' = [sender EXCEPT ![d] = [@ EXCEPT !.at = at, !.sum = versions[d]]]
    BY <1>6 DEF ReadLease, ConfirmLease, ReadToRelease, ReadSignatures, ReadBlocks, ReadSum,
       SendTransaction, SaveManifest, FullTransfer, TransferEnds, Step, From, SenderSteps
  <2>2. /\ sender' \in [Senders -> SenderType]
        /\ \A other \in Senders : other # d => sender'[other] = sender[other]
        /\ \/ sender'[d] = NotSending
           \/ /\ sender'[d].token = sender[d].token /\ sender'[d].until = sender[d].until
              /\ sender'[d].sum \in {sender[d].sum, versions[d]}
              /\ Holding(d)' => Holding(d)
    <3>1. sender \in [Senders -> SenderType] /\ sender[d] \in SenderType /\ versions[d] \in BlockValues
      BY DEF UploadsInv, UploadsShaped
    <3>2. CASE sender' = [sender EXCEPT ![d] = NotSending]
      BY <1>5, <3>1, <3>2
    <3>3. CASE sender' = [sender EXCEPT ![d].at = "write"] /\ sender[d].at = "idle"
      BY <3>1, <3>3 DEF SenderType, SenderSteps, Holding
    <3>4. ASSUME sender[d].at \notin {"idle", "write"}, NEW at \in SenderSteps,
                 \/ sender' = [sender EXCEPT ![d].at = at]
                 \/ sender' = [sender EXCEPT ![d] = [@ EXCEPT !.at = at, !.current = versions[d]]]
                 \/ sender' = [sender EXCEPT ![d] = [@ EXCEPT !.at = at, !.blocks = versions[d]]]
                 \/ sender' = [sender EXCEPT ![d] = [@ EXCEPT !.at = at, !.sum = versions[d]]]
          PROVE  /\ sender' \in [Senders -> SenderType]
                 /\ \A other \in Senders : other # d => sender'[other] = sender[other]
                 /\ sender'[d].token = sender[d].token /\ sender'[d].until = sender[d].until
                 /\ sender'[d].sum \in {sender[d].sum, versions[d]} /\ Holding(d)
      <4>1. CASE sender' = [sender EXCEPT ![d].at = at]
        BY <3>1, <3>4, <4>1 DEF SenderType, Holding
      <4>2. CASE sender' = [sender EXCEPT ![d] = [@ EXCEPT !.at = at, !.current = versions[d]]]
        BY <3>1, <3>4, <4>2 DEF SenderType, Holding
      <4>3. CASE sender' = [sender EXCEPT ![d] = [@ EXCEPT !.at = at, !.blocks = versions[d]]]
        BY <3>1, <3>4, <4>3 DEF SenderType, Holding
      <4>4. CASE sender' = [sender EXCEPT ![d] = [@ EXCEPT !.at = at, !.sum = versions[d]]]
        BY <3>1, <3>4, <4>4 DEF SenderType, Holding
      <4> QED
        BY <3>4, <4>1, <4>2, <4>3, <4>4
    <3> QED
      BY <2>1, <3>2, <3>3, <3>4
  <2>3. UploadsShaped'
    BY <2>1, <2>2 DEF UploadsInv, UploadsShaped
  <2>4. LeasesFit'
    BY <1>5, <2>1, <2>2, <2>3, LeasesStay
  <2>5. target' \in whole /\ \A transaction \in queue' : transaction.sum \in whole
    BY <1>6, SMTT(30)
    DEF ReadLease, ConfirmLease, ReadToRelease, ReadSignatures, ReadBlocks, ReadSum,
       SendTransaction, SaveManifest, FullTransfer, TransferEnds, UploadsInv, FilesWhole
  <2> QED
    BY <1>5, <2>1, <2>2, <2>3, <2>4, <2>5 DEF UploadsInv, FilesWhole
<1>7. ASSUME NEW d \in Senders, LeaseUnreadable(d)
      PROVE  UploadsInv'
  <2>1. /\ sender' \in [Senders -> SenderType]
        /\ \A other \in Senders : other # d => sender'[other] = sender[other]
        /\ sender'[d].token = sender[d].token /\ sender'[d].sum = sender[d].sum
        /\ sender'[d].at = "write"
    BY <1>7 DEF LeaseUnreadable, Step, UploadsInv, UploadsShaped, SenderType, SenderSteps
  <2>2. \A other \in Senders : /\ Holding(other)' => Holding(other)
                               /\ sender'[other].token = sender[other].token
                               /\ sender'[other].sum = sender[other].sum
    BY <2>1 DEF Holding
  <2> QED
    BY <1>7, <2>1, <2>2 DEF LeaseUnreadable, UploadsInv, UploadsShaped, FilesWhole, LeasesFit
<1>8. ASSUME NEW d \in Senders, WriteLease(d)
      PROVE  UploadsInv'
  <2>1. sent' = sent + 1 /\ sent \in Nat /\ clock \in Nat /\ clock + LeaseTime \in Nat
    BY <1>8, UploadsAssumption DEF WriteLease, UploadsInv, UploadsShaped
  <2>2. /\ sender' \in [Senders -> SenderType]
        /\ \A other \in Senders : other # d => sender'[other] = sender[other]
        /\ sender'[d].token = sent' /\ sender'[d].until = clock + LeaseTime
        /\ sender'[d].sum = sender[d].sum
    <3>1. sender' = [sender EXCEPT ![d] = [@ EXCEPT !.at = "confirm", !.token = sent',
                                                    !.until = clock + LeaseTime]]
      BY <1>8 DEF WriteLease
    <3>2. sender \in [Senders -> SenderType] /\ sender[d] \in SenderType /\ sent' \in Nat
      BY <2>1 DEF UploadsInv, UploadsShaped
    <3> QED
      BY <2>1, <3>1, <3>2 DEF SenderType, SenderSteps
  <2>3. lease'.owner = d /\ lease'.token = sent' /\ lease'.until = clock + LeaseTime
    BY <1>8 DEF WriteLease
  <2>4. \A o \in Senders : sender[o].token \in Nat /\ sender[o].until \in Nat /\ sender[o].token <= sent
    BY DEF UploadsInv, UploadsShaped, SenderType, LeasesFit
  <2>5. UNCHANGED <<clock, edited, versions, target, queue, whole>>
        /\ raced' = (raced \/ ~Available(d) \/ \E other \in Senders \ {d} : Acquiring(other))
    BY <1>8 DEF WriteLease
  <2>6. UploadsShaped' /\ FilesWhole'
    BY <2>1, <2>2, <2>5 DEF UploadsInv, UploadsShaped, FilesWhole
  <2>7. \A o \in Senders : sender'[o].token <= sent'
    BY <2>1, <2>2, <2>4
  <2>8. ASSUME NEW o \in Senders, NEW p \in Senders, Holding(o)', Holding(p)', o # p
        PROVE  sender'[o].token # sender'[p].token
    BY <2>1, <2>2, <2>4, <2>8 DEF Holding, UploadsInv, LeasesFit
  <2>9. ASSUME ~raced', NEW o \in Senders, Holding(o)', clock' < sender'[o].until
        PROVE  lease'.owner = o /\ lease'.token = sender'[o].token /\ lease'.until = sender'[o].until
    <3>1. CASE o = d
      BY <2>2, <2>3, <3>1
    <3>2. CASE o # d
      <4>1. ~raced /\ Available(d) /\ Holding(o) /\ clock < sender[o].until
        BY <2>2, <2>5, <2>9, <3>2 DEF Holding, UploadsInv, UploadsShaped
      <4>2. lease.owner = o /\ lease.until = sender[o].until
        BY <4>1 DEF UploadsInv, LeasesFit
      <4> QED
        BY <2>1, <2>4, <3>2, <4>1, <4>2, UploadsAssumption DEF Available, Expired
    <3> QED
      BY <3>1, <3>2
  <2> QED
    BY <2>6, <2>7, <2>8, <2>9 DEF UploadsInv, LeasesFit
<1>9. ASSUME NEW d \in Senders, DeleteLease(d)
      PROVE  UploadsInv'
  <2>1. /\ sender' \in [Senders -> SenderType] /\ sender'[d] = NotSending
        /\ \A other \in Senders : other # d => sender'[other] = sender[other]
    BY <1>9, <1>5 DEF DeleteLease, UploadsInv, UploadsShaped
  <2>2. /\ UNCHANGED <<clock, edited, versions, target, queue, sent, whole>>
        /\ raced' = (raced \/ lease.token # sender[d].token) /\ Holding(d)
    BY <1>9 DEF DeleteLease, From, Holding
  <2>3. UploadsShaped' /\ FilesWhole'
    BY <1>5, <2>1, <2>2 DEF UploadsInv, UploadsShaped, FilesWhole
  <2>4. ASSUME NEW o \in Senders
        PROVE  /\ sender'[o].token <= sent
               /\ Holding(o)' => o # d /\ Holding(o) /\ sender'[o] = sender[o]
    <3>1. CASE o = d
      BY <1>5, <2>1, <3>1 DEF Holding, UploadsInv, UploadsShaped
    <3>2. CASE o # d
      BY <2>1, <3>2 DEF Holding, UploadsInv, LeasesFit
    <3> QED
      BY <3>1, <3>2
  <2>5. ASSUME ~raced', NEW o \in Senders, Holding(o)', clock < sender'[o].until
        PROVE  FALSE
    <3>1. /\ ~raced /\ lease.token = sender[d].token
          /\ Holding(o) /\ o # d /\ clock < sender[o].until
      BY <2>2, <2>4, <2>5 DEF UploadsInv, UploadsShaped
    <3> QED
      BY <2>2, <3>1 DEF UploadsInv, LeasesFit
  <2> QED
    BY <2>2, <2>3, <2>4, <2>5 DEF UploadsInv, LeasesFit
<1> QED
  BY <1>1, <1>2, <1>3, <1>4, <1>6, <1>7, <1>8, <1>9 DEF UploadsNext

-----------------------------------------------------------------------------
(* The drive of a mapping *)

SwitchesShaped ==
  /\ enabled \in BOOLEAN /\ active \in BOOLEAN /\ flag \in BOOLEAN
  /\ down \in BOOLEAN /\ misled \in BOOLEAN
MountsShaped ==
  /\ SwitchesShaped
  /\ mount \in 0..MaxMounts /\ point \in 0..MaxMounts /\ gtk \in 0..Free
  /\ starter \in [Mounters -> {"unused", "preflight", "spawn", "wait", "report",
                               "leave", "watch", "done"}]
  /\ watched \in [Mounters -> 0..MaxMounts]
  /\ process \in [Mounters -> {"none", "starting", "mounted", "ended"}]
  /\ lost \in Nat /\ timers \in Nat
  /\ orphans \subseteq Mounters /\ stopped \subseteq Mounters

\* A thread that has been started and not yet left _active_jobs
Busy(t) == starter[t] \in {"preflight", "spawn", "wait", "report", "leave"}

\* There is one such thread while the mapping is in _active_jobs, and no process but its own
\* is on record and runs.
OneStarts ==
  /\ \A t \in Mounters : Busy(t) => active /\ (Alive(mount) => mount = t)
  /\ \A t, u \in Mounters : Busy(t) /\ Busy(u) => t = u
  /\ active => \E t \in Mounters : Busy(t)

\* A thread has a process from when it starts one, and nothing to watch before it has
\* reported; on record is a process of this run that was seen and has not been stopped.
RecordsFit ==
  /\ \A t \in Mounters :
       /\ starter[t] \in {"unused", "preflight", "spawn"} => process[t] = "none"
       /\ starter[t] \in {"unused", "preflight", "spawn", "wait", "report"} => watched[t] = 0
       /\ starter[t] \in {"unused", "preflight", "spawn",
          "wait"} => t \notin orphans \union stopped
       /\ starter[t] = "watch" => watched[t] # 0
  /\ mount # 0 => /\ starter[mount] \in {"report", "leave", "watch", "done"}
                  /\ mount \notin orphans \union stopped

\* What was lost is known to a thread that watches a process nobody stopped, or has been
\* reported, or is tried again.
LossIsKnown ==
  /\ down => Watchers \ stopped # {} \/ lost > 0 \/ (enabled /\ timers > 0)
  /\ \A t \in Mounters : down /\ Busy(t) => t \in Watchers \ stopped

\* A thread watches its own process, that on record is watched, and the flag was set for
\* one that is.
Tended ==
  /\ \A t \in Mounters : starter[t] \in {"leave", "watch"} => watched[t] \in {0, t}
  /\ Alive(mount) => mount \in Watchers
  /\ ProcessesAreTended
  /\ flag => Watchers \intersect stopped # {}
  /\ LossIsKnown

MountsInv == MountsShaped /\ OneStarts /\ RecordsFit /\ (~misled => Tended)

LEMMA MountsInvInit == MountsInit => MountsInv
<1> SUFFICES ASSUME MountsInit
             PROVE  MountsInv
  OBVIOUS
<1>1. MountsShaped
  <2>1. SwitchesShaped
    BY DEF MountsInit, SwitchesShaped
  <2> QED
    BY <2>1, MountsAssumption DEF MountsInit, MountsShaped, Mounters, Free
<1>2. OneStarts /\ RecordsFit
  BY DEF MountsInit, OneStarts, RecordsFit, Busy, Alive
<1>3. Tended
  BY DEF MountsInit, Tended, LossIsKnown, ProcessesAreTended, Alive
<1> QED
  BY <1>1, <1>2, <1>3 DEF MountsInv

LEMMA MountsInvHolds == MountsInv => MountsAreTended
<1> SUFFICES ASSUME MountsInv, ~misled
             PROVE  ProcessesAreTended /\ FlagIsAwaited /\ LossIsAnswered
  BY DEF MountsAreTended
<1>1. FlagIsAwaited
  BY DEF MountsInv, Tended, RecordsFit, FlagIsAwaited, Watchers
<1>2. LossIsAnswered
  BY DEF MountsInv, Tended, LossIsKnown, LossIsAnswered
<1> QED
  BY <1>1, <1>2 DEF MountsInv, Tended

LEMMA MountsInvNext == MountsInv /\ [MountsNext]_mountVars => MountsInv'
<1> SUFFICES ASSUME MountsInv, [MountsNext]_mountVars
             PROVE  MountsInv'
  OBVIOUS
<1> USE MountsAssumption DEF MountsShaped, OneStarts, RecordsFit, Tended, LossIsKnown,
        ProcessesAreTended, Busy, Alive, Watchers, Mounters, Free, controlVars, ghostVars, At
<1>1. ASSUME NEW t \in Mounters, MountAppears(t)
      PROVE  MountsInv'
  <2>1. MountsShaped'
    BY <1>1 DEF SwitchesShaped, MountsInv, MountAppears
  <2>2. OneStarts' /\ RecordsFit'
    BY <1>1 DEF SwitchesShaped, MountsInv, MountAppears
  <2>3. ~misled' => Tended'
    BY <1>1 DEF SwitchesShaped, MountsInv, MountAppears
  <2> QED
    BY <2>1, <2>2, <2>3 DEF MountsInv
<1>2. ASSUME NEW t \in Mounters, ProcessDies(t)
      PROVE  MountsInv'
  <2>1. MountsShaped'
    BY <1>2, SMTT(30) DEF SwitchesShaped, MountsInv, ProcessDies
  <2>2. OneStarts' /\ RecordsFit'
    BY <1>2 DEF SwitchesShaped, MountsInv, ProcessDies
  <2>3. ASSUME ~misled'
        PROVE  Tended'
    <3>1. ~misled /\ Tended
      BY <2>3, <1>2 DEF SwitchesShaped, MountsInv, ProcessDies
    <3>2. (\A u \in Mounters : starter[u] \in {"leave", "watch"} => watched[u] \in {0, u})'
      BY <2>3, <3>1, <1>2 DEF SwitchesShaped, MountsInv, ProcessDies
    <3>3. (Alive(mount) => mount \in Watchers)'
      BY <2>3, <3>1, <1>2 DEF SwitchesShaped, MountsInv, ProcessDies
    <3>4. ProcessesAreTended'
      BY <2>3, <3>1, <1>2 DEF SwitchesShaped, MountsInv, ProcessDies
    <3>5. (flag => Watchers \intersect stopped # {})'
      BY <2>3, <3>1, <1>2 DEF SwitchesShaped, MountsInv, ProcessDies
    <3>6. LossIsKnown'
      BY <2>3, <3>1, <1>2, SMTT(30) DEF SwitchesShaped, MountsInv, ProcessDies
    <3> QED
      BY <3>2, <3>3, <3>4, <3>5, <3>6 DEF Tended
  <2> QED
    BY <2>1, <2>2, <2>3 DEF MountsInv
<1>3. ASSUME NEW t \in Mounters, Preflight(t)
      PROVE  MountsInv'
  <2>1. MountsShaped'
    BY <1>3 DEF SwitchesShaped, MountsInv, Preflight, Detached
  <2>2. OneStarts' /\ RecordsFit'
    BY <1>3 DEF SwitchesShaped, MountsInv, Preflight, Detached
  <2>3. ~misled' => Tended'
    BY <1>3 DEF SwitchesShaped, MountsInv, Preflight, Detached
  <2> QED
    BY <2>1, <2>2, <2>3 DEF MountsInv
<1>4. ASSUME NEW t \in Mounters, SpawnMount(t)
      PROVE  MountsInv'
  <2>1. MountsShaped'
    BY <1>4 DEF SwitchesShaped, MountsInv, SpawnMount
  <2>2. OneStarts' /\ RecordsFit'
    BY <1>4 DEF SwitchesShaped, MountsInv, SpawnMount
  <2>3. ~misled' => Tended'
    BY <1>4 DEF SwitchesShaped, MountsInv, SpawnMount
  <2> QED
    BY <2>1, <2>2, <2>3 DEF MountsInv
<1>5. ASSUME NEW t \in Mounters, CannotMount(t)
      PROVE  MountsInv'
  <2>1. MountsShaped'
    BY <1>5 DEF SwitchesShaped, MountsInv, CannotMount
  <2>2. OneStarts' /\ RecordsFit'
    BY <1>5 DEF SwitchesShaped, MountsInv, CannotMount
  <2>3. ~misled' => Tended'
    BY <1>5 DEF SwitchesShaped, MountsInv, CannotMount
  <2> QED
    BY <2>1, <2>2, <2>3 DEF MountsInv
<1>6. ASSUME NEW t \in Mounters, SeesMount(t)
      PROVE  MountsInv'
  <2>1. MountsShaped'
    BY <1>6 DEF SwitchesShaped, MountsInv, SeesMount
  <2>2. OneStarts' /\ RecordsFit'
    BY <1>6 DEF SwitchesShaped, MountsInv, SeesMount
  <2>3. ~misled' => Tended'
    BY <1>6 DEF SwitchesShaped, MountsInv, SeesMount
  <2> QED
    BY <2>1, <2>2, <2>3 DEF MountsInv
<1>7. ASSUME NEW t \in Mounters, MountFails(t)
      PROVE  MountsInv'
  <2>1. MountsShaped'
    BY <1>7 DEF SwitchesShaped, MountsInv, MountFails
  <2>2. OneStarts' /\ RecordsFit'
    BY <1>7 DEF SwitchesShaped, MountsInv, MountFails
  <2>3. ~misled' => Tended'
    BY <1>7 DEF SwitchesShaped, MountsInv, MountFails
  <2> QED
    BY <2>1, <2>2, <2>3 DEF MountsInv
<1>8. ASSUME NEW t \in Mounters, LookWhom(t)
      PROVE  MountsInv'
  <2>1. MountsShaped'
    BY <1>8 DEF SwitchesShaped, MountsInv, LookWhom
  <2>2. OneStarts' /\ RecordsFit'
    BY <1>8 DEF SwitchesShaped, MountsInv, LookWhom
  <2>3. ASSUME ~misled'
        PROVE  Tended'
    <3>1. ~misled /\ Tended
      BY <2>3, <1>8 DEF SwitchesShaped, MountsInv, LookWhom
    <3>2. (\A u \in Mounters : starter[u] \in {"leave", "watch"} => watched[u] \in {0, u})'
      BY <2>3, <3>1, <1>8 DEF SwitchesShaped, MountsInv, LookWhom
    <3>3. (Alive(mount) => mount \in Watchers)'
      BY <2>3, <3>1, <1>8 DEF SwitchesShaped, MountsInv, LookWhom
    <3>4. ProcessesAreTended'
      BY <2>3, <3>1, <1>8 DEF SwitchesShaped, MountsInv, LookWhom
    <3>5. (flag => Watchers \intersect stopped # {})'
      BY <2>3, <3>1, <1>8 DEF SwitchesShaped, MountsInv, LookWhom
    <3>6. LossIsKnown'
      BY <2>3, <3>1, <1>8 DEF SwitchesShaped, MountsInv, LookWhom
    <3> QED
      BY <3>2, <3>3, <3>4, <3>5, <3>6 DEF Tended
  <2> QED
    BY <2>1, <2>2, <2>3 DEF MountsInv
<1>9. ASSUME NEW t \in Mounters, Leave(t)
      PROVE  MountsInv'
  <2>1. MountsShaped'
    BY <1>9 DEF SwitchesShaped, MountsInv, Leave
  <2>2. OneStarts' /\ RecordsFit'
    BY <1>9 DEF SwitchesShaped, MountsInv, Leave
  <2>3. ~misled' => Tended'
    BY <1>9 DEF SwitchesShaped, MountsInv, Leave
  <2> QED
    BY <2>1, <2>2, <2>3 DEF MountsInv
<1>10. ASSUME NEW t \in Mounters, Watch(t)
      PROVE  MountsInv'
  <2>0. SwitchesShaped'
    BY <1>10 DEF MountsInv, MountsShaped, SwitchesShaped, Watch, WatchThen, Detached
  <2>1. MountsShaped'
    <3>1. process' \in [Mounters -> {"none", "starting", "mounted", "ended"}]
      BY <1>10 DEF MountsInv, Watch, WatchThen, Detached
    <3>2. mount' \in 0..MaxMounts /\ point' \in 0..MaxMounts /\ lost' \in Nat
      BY <1>10 DEF MountsInv, Watch, WatchThen, Detached
    <3> QED
      BY <1>10, <2>0, <3>1, <3>2 DEF MountsInv, Watch, WatchThen
  <2>2. OneStarts' /\ RecordsFit'
    BY <1>10, SMTT(30) DEF SwitchesShaped, MountsInv, Watch, WatchThen, Detached
  <2>3. ASSUME ~misled'
        PROVE  Tended'
    <3>1. ~misled /\ Tended
      BY <2>3, <1>10 DEF SwitchesShaped, MountsInv, Watch, WatchThen, Detached
    <3>2. (\A u \in Mounters : starter[u] \in {"leave", "watch"} => watched[u] \in {0, u})'
      BY <2>3, <3>1, <1>10 DEF SwitchesShaped, MountsInv, Watch, WatchThen, Detached
    <3>3. (Alive(mount) => mount \in Watchers)'
      BY <2>3, <3>1, <1>10, SMTT(30) DEF SwitchesShaped, MountsInv, Watch, WatchThen, Detached
    <3>4. ProcessesAreTended'
      BY <2>3, <3>1, <1>10, SMTT(30) DEF SwitchesShaped, MountsInv, Watch, WatchThen, Detached
    <3>5. (flag => Watchers \intersect stopped # {})'
      BY <2>3, <3>1, <1>10 DEF SwitchesShaped, MountsInv, Watch, WatchThen, Detached
    <3>6. LossIsKnown'
      BY <2>3, <3>1, <1>10 DEF SwitchesShaped, MountsInv, Watch, WatchThen, Detached
    <3> QED
      BY <3>2, <3>3, <3>4, <3>5, <3>6 DEF Tended
  <2> QED
    BY <2>1, <2>2, <2>3 DEF MountsInv
<1>11. ASSUME NEW t \in Mounters, RunJobMount(t)
      PROVE  MountsInv'
  <2>1. MountsShaped'
    BY <1>11 DEF SwitchesShaped, MountsInv, RunJobMount, Starts
  <2>2. OneStarts' /\ RecordsFit'
    BY <1>11 DEF SwitchesShaped, MountsInv, RunJobMount, Starts
  <2>3. ~misled' => Tended'
    BY <1>11 DEF SwitchesShaped, MountsInv, RunJobMount, Starts
  <2> QED
    BY <2>1, <2>2, <2>3 DEF MountsInv
<1>12. ASSUME NEW t \in Mounters, RetryMount(t)
      PROVE  MountsInv'
  <2>0. SwitchesShaped'
    BY <1>12 DEF MountsInv, MountsShaped, SwitchesShaped, RetryMount, Starts
  <2>1. MountsShaped'
    BY <1>12, <2>0 DEF MountsInv, RetryMount, Starts
  <2>2. OneStarts' /\ RecordsFit'
    BY <1>12, SMTT(30) DEF SwitchesShaped, MountsInv, RetryMount, Starts
  <2>3. ASSUME ~misled'
        PROVE  Tended'
    <3>1. ~misled /\ Tended
      BY <2>3, <1>12 DEF SwitchesShaped, MountsInv, RetryMount, Starts
    <3>2. (\A u \in Mounters : starter[u] \in {"leave", "watch"} => watched[u] \in {0, u})'
      BY <2>3, <3>1, <1>12 DEF SwitchesShaped, MountsInv, RetryMount, Starts
    <3>3. (Alive(mount) => mount \in Watchers)'
      BY <2>3, <3>1, <1>12 DEF SwitchesShaped, MountsInv, RetryMount, Starts
    <3>4. ProcessesAreTended'
      BY <2>3, <3>1, <1>12 DEF SwitchesShaped, MountsInv, RetryMount, Starts
    <3>5. (flag => Watchers \intersect stopped # {})'
      BY <2>3, <3>1, <1>12 DEF SwitchesShaped, MountsInv, RetryMount, Starts
    <3>6. LossIsKnown'
      BY <2>3, <3>1, <1>12 DEF SwitchesShaped, MountsInv, RetryMount, Starts
    <3> QED
      BY <3>2, <3>3, <3>4, <3>5, <3>6 DEF Tended
  <2> QED
    BY <2>1, <2>2, <2>3 DEF MountsInv
<1>13. ASSUME NEW toggled \in BOOLEAN, StopMount(toggled)
      PROVE  MountsInv'
  <2>0. SwitchesShaped'
    BY <1>13 DEF MountsInv, MountsShaped, SwitchesShaped, StopMount
  <2>1. MountsShaped'
    BY <1>13, <2>0 DEF MountsInv, StopMount
  <2>2. OneStarts' /\ RecordsFit'
    BY <1>13 DEF SwitchesShaped, MountsInv, StopMount
  <2>3. ASSUME ~misled'
        PROVE  Tended'
    <3>1. ~misled /\ Tended
      BY <2>3, <1>13 DEF SwitchesShaped, MountsInv, StopMount
    <3>2. (\A u \in Mounters : starter[u] \in {"leave", "watch"} => watched[u] \in {0, u})'
      BY <2>3, <3>1, <1>13 DEF SwitchesShaped, MountsInv, StopMount
    <3>3. (Alive(mount) => mount \in Watchers)'
      BY <2>3, <3>1, <1>13 DEF SwitchesShaped, MountsInv, StopMount
    <3>4. ProcessesAreTended'
      BY <2>3, <3>1, <1>13 DEF SwitchesShaped, MountsInv, StopMount
    <3>5. (flag => Watchers \intersect stopped # {})'
      BY <2>3, <3>1, <1>13 DEF SwitchesShaped, MountsInv, StopMount
    <3>6. LossIsKnown'
      BY <2>3, <3>1, <1>13 DEF SwitchesShaped, MountsInv, StopMount
    <3> QED
      BY <3>2, <3>3, <3>4, <3>5, <3>6 DEF Tended
  <2> QED
    BY <2>1, <2>2, <2>3 DEF MountsInv
<1>14. ASSUME NEW pauses \in BOOLEAN, DispatchLost(pauses)
      PROVE  MountsInv'
  <2>1. MountsShaped'
    BY <1>14 DEF SwitchesShaped, MountsInv, DispatchLost
  <2>2. OneStarts' /\ RecordsFit'
    BY <1>14 DEF SwitchesShaped, MountsInv, DispatchLost
  <2>3. ASSUME ~misled'
        PROVE  Tended'
    <3>1. ~misled /\ Tended
      BY <2>3, <1>14 DEF SwitchesShaped, MountsInv, DispatchLost
    <3>2. (\A u \in Mounters : starter[u] \in {"leave", "watch"} => watched[u] \in {0, u})'
      BY <2>3, <3>1, <1>14 DEF SwitchesShaped, MountsInv, DispatchLost
    <3>3. (Alive(mount) => mount \in Watchers)'
      BY <2>3, <3>1, <1>14 DEF SwitchesShaped, MountsInv, DispatchLost
    <3>4. ProcessesAreTended'
      BY <2>3, <3>1, <1>14 DEF SwitchesShaped, MountsInv, DispatchLost
    <3>5. (flag => Watchers \intersect stopped # {})'
      BY <2>3, <3>1, <1>14 DEF SwitchesShaped, MountsInv, DispatchLost
    <3>6. LossIsKnown'
      BY <2>3, <3>1, <1>14 DEF SwitchesShaped, MountsInv, DispatchLost
    <3> QED
      BY <3>2, <3>3, <3>4, <3>5, <3>6 DEF Tended
  <2> QED
    BY <2>1, <2>2, <2>3 DEF MountsInv
<1>15. CASE StopEndsMount
  <2>1. MountsShaped'
    BY <1>15 DEF SwitchesShaped, MountsInv, StopEndsMount
  <2>2. OneStarts' /\ RecordsFit'
    BY <1>15 DEF SwitchesShaped, MountsInv, StopEndsMount
  <2>3. ~misled' => Tended'
    BY <1>15 DEF SwitchesShaped, MountsInv, StopEndsMount
  <2> QED
    BY <2>1, <2>2, <2>3 DEF MountsInv
<1>16. CASE RetryDeferred
  <2>0. SwitchesShaped'
    BY <1>16 DEF MountsInv, MountsShaped, SwitchesShaped, RetryDeferred
  <2>1. MountsShaped'
    BY <1>16, <2>0 DEF MountsInv, RetryDeferred
  <2>2. OneStarts' /\ RecordsFit'
    BY <1>16 DEF SwitchesShaped, MountsInv, RetryDeferred
  <2>3. ~misled' => Tended'
    BY <1>16 DEF SwitchesShaped, MountsInv, RetryDeferred
  <2> QED
    BY <2>1, <2>2, <2>3 DEF MountsInv
<1>21. CASE SwitchOn
  <2>1. MountsShaped'
    BY <1>21 DEF SwitchesShaped, MountsInv, SwitchOn
  <2>2. OneStarts' /\ RecordsFit'
    BY <1>21 DEF SwitchesShaped, MountsInv, SwitchOn
  <2>3. ~misled' => Tended'
    BY <1>21 DEF SwitchesShaped, MountsInv, SwitchOn
  <2> QED
    BY <2>1, <2>2, <2>3 DEF MountsInv
<1>22. CASE FiveMinutesPass
  <2>1. MountsShaped'
    BY <1>22 DEF SwitchesShaped, MountsInv, FiveMinutesPass
  <2>2. OneStarts' /\ RecordsFit'
    BY <1>22 DEF SwitchesShaped, MountsInv, FiveMinutesPass
  <2>3. ~misled' => Tended'
    BY <1>22 DEF SwitchesShaped, MountsInv, FiveMinutesPass
  <2> QED
    BY <2>1, <2>2, <2>3 DEF MountsInv
<1>17. CASE StaleLooks
  <2>1. MountsShaped'
    BY <1>17 DEF SwitchesShaped, MountsInv, StaleLooks
  <2>2. OneStarts' /\ RecordsFit'
    BY <1>17 DEF SwitchesShaped, MountsInv, StaleLooks
  <2>3. ~misled' => Tended'
    BY <1>17 DEF SwitchesShaped, MountsInv, StaleLooks
  <2> QED
    BY <2>1, <2>2, <2>3 DEF MountsInv
<1>18. CASE StaleDetaches
  <2>1. MountsShaped'
    BY <1>18 DEF SwitchesShaped, MountsInv, StaleDetaches, Detached
  <2>2. OneStarts' /\ RecordsFit'
    BY <1>18 DEF SwitchesShaped, MountsInv, StaleDetaches, Detached
  <2>3. ASSUME ~misled'
        PROVE  Tended'
    <3>1. ~misled /\ Tended
      BY <2>3, <1>18 DEF SwitchesShaped, MountsInv, StaleDetaches, Detached
    <3>2. (\A u \in Mounters : starter[u] \in {"leave", "watch"} => watched[u] \in {0, u})'
      BY <2>3, <3>1, <1>18 DEF SwitchesShaped, MountsInv, StaleDetaches, Detached
    <3>3. (Alive(mount) => mount \in Watchers)'
      BY <2>3, <3>1, <1>18 DEF SwitchesShaped, MountsInv, StaleDetaches, Detached
    <3>4. ProcessesAreTended'
      BY <2>3, <3>1, <1>18 DEF SwitchesShaped, MountsInv, StaleDetaches, Detached
    <3>5. (flag => Watchers \intersect stopped # {})'
      BY <2>3, <3>1, <1>18 DEF SwitchesShaped, MountsInv, StaleDetaches, Detached
    <3>6. LossIsKnown'
      BY <2>3, <3>1, <1>18, ZenonT(30) DEF SwitchesShaped, MountsInv, StaleDetaches, Detached
    <3> QED
      BY <3>2, <3>3, <3>4, <3>5, <3>6 DEF Tended
  <2> QED
    BY <2>1, <2>2, <2>3 DEF MountsInv
<1>19. CASE ProgramRestarts
  <2>0. SwitchesShaped'
    BY <1>19 DEF MountsInv, MountsShaped, SwitchesShaped, ProgramRestarts
  <2>1. MountsShaped'
    BY <1>19, <2>0 DEF MountsInv, ProgramRestarts
  <2>2. OneStarts' /\ RecordsFit'
    BY <1>19 DEF SwitchesShaped, MountsInv, ProgramRestarts
  <2>3. ~misled' => Tended'
    BY <1>19 DEF SwitchesShaped, MountsInv, ProgramRestarts
  <2> QED
    BY <2>1, <2>2, <2>3 DEF MountsInv
<1>20. CASE UNCHANGED mountVars
  <2>1. MountsShaped'
    BY <1>20 DEF SwitchesShaped, MountsInv, mountVars
  <2>2. OneStarts' /\ RecordsFit'
    BY <1>20 DEF SwitchesShaped, MountsInv, mountVars
  <2>3. ~misled' => Tended'
    BY <1>20 DEF SwitchesShaped, MountsInv, mountVars
  <2> QED
    BY <2>1, <2>2, <2>3 DEF MountsInv
<1> QED
  BY <1>1, <1>2, <1>3, <1>4, <1>5, <1>6, <1>7, <1>8, <1>9, <1>10, <1>11, <1>12, <1>13, <1>14,
     <1>15, <1>16, <1>17, <1>18, <1>19, <1>20, <1>21,
     <1>22
     DEF MountsNext

-----------------------------------------------------------------------------
(* A peer's share *)

ThreadType ==
  [at : {"idle", "stop", "list", "end", "close", "start", "spawn", "relay", "tunnel", "ready"},
   left : SUBSET Endpoints,
   task : {"none", "stop", "save", "approve", "unapprove", "again", "create", "restart",
      "raise"},
   keep : SUBSET Devices]
SharesShaped ==
  /\ approved \subseteq Devices /\ drops \subseteq Drops /\ servers \subseteq Endpoints
  /\ newest \in [Endpoints -> {"none", "listens", "deaf"}]
  /\ consumed \subseteq Drops
  /\ thread \in [Threads -> ThreadType]
  /\ \A t \in Threads : thread[t].at = "spawn" => thread[t].left # {}

\* A thread that stops the share knows of every server there is, and one that starts it
\* begins with none and with no drop that was used; nothing is advertised meanwhile, and
\* with servers only when the relay holds.
StopFits(t) ==
  /\ thread[t].at \in {"end", "close"} => servers \subseteq thread[t].left
  /\ thread[t].at = "close" => newest[Next1(t)] = "none"
StartFits(t) ==
  /\ thread[t].at = "start" => servers = {}
  /\ thread[t].at = "spawn" => /\ thread[t].left \intersect consumed = {}
                              /\ \A key \in thread[t].left : newest[key] = "none"
  /\ thread[t].at = "tunnel" => tunnel
  /\ thread[t].at = "ready" => servers = {} \/ tunnel

OneThreadWorks ==
  /\ \A t, u \in Threads : thread[t] # Idle /\ thread[u] # Idle => t = u
  /\ \A t \in Threads : /\ thread[t].at = "idle" => thread[t] = Idle
                        /\ thread[t].at \notin {"idle", "stop"} => ~advertised
                        /\ StopFits(t) /\ StartFits(t)

Held == NoStrayServer /\ AdvertisedIsReachable /\ UsedDropsAreRevoked
PeersInv == SharesShaped /\ (~overlapped => OneThreadWorks /\ Held)

LEMMA PeersInvInit == PeersInit => PeersInv
<1> SUFFICES ASSUME PeersInit
             PROVE  PeersInv
  OBVIOUS
<1>1. Idle \in ThreadType /\ Idle.at = "idle"
  BY DEF Idle, ThreadType
<1> QED
  BY <1>1 DEF PeersInit, PeersInv, SharesShaped, OneThreadWorks, StopFits, StartFits, Held,
     NoStrayServer, AdvertisedIsReachable, UsedDropsAreRevoked, AtWorkToStop, Serving

LEMMA PeersInvHolds == PeersInv => SharesAreHeld
BY DEF PeersInv, Held, SharesAreHeld

Alone(t) == \A u \in Threads : u # t => thread'[u] = thread[u]

\* What a thread is at when it begins, goes on, ends or gives up.
LEMMA ThreadSteps ==
  ASSUME SharesShaped, NEW t \in Threads
  PROVE  /\ \A at \in {"list", "end", "close", "start", "spawn", "relay", "tunnel", "ready"},
               rest \in SUBSET Endpoints :
              Goes(t, at, rest) => /\ thread' \in [Threads -> ThreadType] /\ Alone(t)
                                   /\ thread'[t].at = at /\ thread'[t].left = rest
         /\ Ends(t) => thread' \in [Threads -> ThreadType] /\ Alone(t) /\ thread'[t] = Idle
         /\ Fails(t) => /\ thread' \in [Threads -> ThreadType] /\ Alone(t)
                        /\ thread'[t].at = "stop"
         /\ \A task \in {"stop", "save", "approve", "create", "restart"},
               keep \in SUBSET Devices :
              Begins(t, task, keep) => /\ thread' \in [Threads -> ThreadType] /\ Alone(t)
                                       /\ thread'[t].at = "stop"
<1>1. Idle \in ThreadType /\ Idle.at = "idle"
  BY DEF Idle, ThreadType
<1>2. ASSUME NEW at \in {"list", "end", "close", "start", "spawn", "relay", "tunnel", "ready"},
             NEW rest \in SUBSET Endpoints, Goes(t, at, rest)
      PROVE  /\ thread' \in [Threads -> ThreadType] /\ Alone(t)
             /\ thread'[t].at = at /\ thread'[t].left = rest
  BY <1>1, <1>2 DEF Goes, SharesShaped, ThreadType, Alone
<1>3. ASSUME Fails(t)
      PROVE  thread' \in [Threads -> ThreadType] /\ Alone(t) /\ thread'[t].at = "stop"
  BY <1>1, <1>3 DEF Fails, Idle, SharesShaped, ThreadType, Alone
<1>4. ASSUME NEW task \in {"stop", "save", "approve", "create", "restart"},
             NEW keep \in SUBSET Devices, Begins(t, task, keep)
      PROVE  thread' \in [Threads -> ThreadType] /\ Alone(t) /\ thread'[t].at = "stop"
  BY <1>1, <1>4 DEF Begins, SharesShaped, ThreadType, Alone
<1>5. Ends(t) => thread' \in [Threads -> ThreadType] /\ Alone(t) /\ thread'[t] = Idle
  BY <1>1 DEF Ends, SharesShaped, Alone
<1> QED
  BY <1>2, <1>3, <1>4, <1>5

\* A step of a thread that works is judged by what it is at then: the others are idle.
LEMMA StepOfOne ==
  ASSUME PeersInv, NEW t \in Threads, thread[t] # Idle, Alone(t), overlapped' = overlapped,
         SharesShaped',
         ~overlapped /\ OneThreadWorks /\ Held =>
           /\ thread'[t].at = "idle" => thread'[t] = Idle
           /\ thread'[t].at \notin {"idle", "stop"} => ~advertised'
           /\ StopFits(t)' /\ StartFits(t)' /\ Held'
  PROVE  PeersInv'
<1>1. Idle.at = "idle"
  BY DEF Idle
<1> SUFFICES ASSUME ~overlapped
             PROVE  OneThreadWorks' /\ Held'
  BY DEF PeersInv
<1>2. OneThreadWorks /\ Held
  BY DEF PeersInv
<1>3. \A u \in Threads : u # t => thread'[u] = Idle
  BY <1>2 DEF OneThreadWorks, Alone
<1>4. \A u \in Threads : u # t => StopFits(u)' /\ StartFits(u)'
  BY <1>1, <1>3 DEF StopFits, StartFits
<1>5. \A u, v \in Threads : thread'[u] # Idle /\ thread'[v] # Idle => u = v
  BY <1>3
<1>6. /\ thread'[t].at = "idle" => thread'[t] = Idle
      /\ thread'[t].at \notin {"idle", "stop"} => ~advertised'
      /\ StopFits(t)' /\ StartFits(t)' /\ Held'
  BY <1>2
<1> QED
  BY <1>1, <1>3, <1>4, <1>5, <1>6 DEF OneThreadWorks

\* Who begins when nobody works is about to stop the share.
LEMMA OneBeginsToStop ==
  ASSUME PeersInv, NEW t \in Threads, SharesShaped', Alone(t), thread'[t].at = "stop",
         overlapped' = (overlapped \/ \E other \in Threads : thread[other] # Idle),
         UNCHANGED <<servers, newest, strayVars, tunnel, advertised>>
  PROVE  PeersInv'
<1>1. Idle.at = "idle"
  BY DEF Idle
<1> SUFFICES ASSUME ~overlapped'
             PROVE  OneThreadWorks' /\ Held'
  BY DEF PeersInv
<1>2. OneThreadWorks /\ Held /\ \A u \in Threads : thread[u] = Idle
  BY DEF PeersInv
<1>3. \A u \in Threads : u # t => thread'[u] = Idle
  BY <1>2 DEF Alone
<1>4. \A u \in Threads : StopFits(u)' /\ StartFits(u)'
  BY <1>1, <1>3 DEF StopFits, StartFits
<1>5. Held'
  BY <1>2 DEF Held, NoStrayServer, AdvertisedIsReachable, UsedDropsAreRevoked, AtWorkToStop,
     Serving, strayVars
<1> QED
  BY <1>1, <1>3, <1>4, <1>5 DEF OneThreadWorks

\* When the stop is over, nothing is on record, and so nothing serves.
LEMMA NoneServes ==
  ASSUME SharesShaped, OneThreadWorks, Held, NEW t \in Threads, Stopped(t)
  PROVE  servers = {} /\ ~advertised /\ \A key \in Endpoints : newest[key] = "none"
BY DEF SharesShaped, OneThreadWorks, StopFits, Held, NoStrayServer, Stopped

LEMMA PeersInvNext == PeersInv /\ [PeersNext]_peerVars => PeersInv'
<1> SUFFICES ASSUME PeersInv, [PeersNext]_peerVars
             PROVE  PeersInv'
  OBVIOUS
<1>1. Idle.at = "idle" /\ SharesShaped /\ User \in Threads /\ Drops \subseteq Threads
  BY DEF Idle, PeersInv, Threads
<1>2. ASSUME UNCHANGED <<servers, newest, strayVars, tunnel, advertised, thread, overlapped, approved,
                         drops, consumed>>
      PROVE  PeersInv'
  BY <1>2 DEF PeersInv, SharesShaped, OneThreadWorks, StopFits, StartFits, Next1, Held,
     NoStrayServer, AdvertisedIsReachable, UsedDropsAreRevoked, AtWorkToStop, Serving,
     strayVars
<1>3. ASSUME NEW d \in Devices, AccessRequested(d) \/ RequestDismissed(d)
      PROVE  PeersInv'
  BY <1>2, <1>3 DEF AccessRequested, RequestDismissed, recordVars, processVars, strayVars
<1>4. ASSUME NEW d \in Devices, Approve(d)
      PROVE  PeersInv'
  <2>1. thread' \in [Threads -> ThreadType] /\ Alone(User) /\ thread'[User].at = "stop"
    <3>1. Begins(User, "approve", {})
      BY <1>4 DEF Approve
    <3> QED
      BY <1>1, <3>1, ThreadSteps
  <2>2. /\ overlapped' = (overlapped \/ \E other \in Threads : thread[other] # Idle)
        /\ UNCHANGED <<servers, newest, strayVars, tunnel, advertised>>
        /\ approved' \subseteq Devices /\ drops' \subseteq Drops /\ consumed' \subseteq Drops
    BY <1>1, <1>4 DEF Approve, Begins, SharesShaped, recordVars, processVars, strayVars
  <2>3. SharesShaped'
    BY <1>1, <2>1, <2>2 DEF SharesShaped, Alone
  <2> QED
    BY <1>1, <2>1, <2>2, <2>3, OneBeginsToStop
<1>5. ASSUME NEW d \in Drops, CreateDrop(d)
      PROVE  PeersInv'
  <2>1. thread' \in [Threads -> ThreadType] /\ Alone(User) /\ thread'[User].at = "stop"
    <3>1. Begins(User, "create", {})
      BY <1>5 DEF CreateDrop
    <3> QED
      BY <1>1, <3>1, ThreadSteps
  <2>2. /\ overlapped' = (overlapped \/ \E other \in Threads : thread[other] # Idle)
        /\ UNCHANGED <<servers, newest, strayVars, tunnel, advertised>>
        /\ approved' \subseteq Devices /\ drops' \subseteq Drops /\ consumed' \subseteq Drops
    BY <1>1, <1>5 DEF CreateDrop, Begins, SharesShaped, recordVars, processVars, strayVars
  <2>3. SharesShaped'
    BY <1>1, <2>1, <2>2 DEF SharesShaped, Alone
  <2> QED
    BY <1>1, <2>1, <2>2, <2>3, OneBeginsToStop
<1>6. ASSUME NEW d \in Drops, Upload(d)
      PROVE  PeersInv'
  BY <1>2, <1>6 DEF Upload, recordVars, processVars, strayVars
<1>7. ASSUME NEW keep \in SUBSET Devices, SaveShare(keep)
      PROVE  PeersInv'
  BY <1>1, <1>7, ThreadSteps, OneBeginsToStop
     DEF SaveShare, Begins, shareVars, recordVars, processVars, strayVars, SharesShaped
<1>8. CASE StopShare
  <2>1. thread' \in [Threads -> ThreadType] /\ Alone(User) /\ thread'[User].at = "stop"
    <3>1. Begins(User, "stop", {})
      BY <1>8 DEF StopShare
    <3> QED
      BY <1>1, <3>1, ThreadSteps
  <2>2. /\ overlapped' = (overlapped \/ \E other \in Threads : thread[other] # Idle)
        /\ UNCHANGED <<servers, newest, strayVars, tunnel, advertised>>
        /\ approved' \subseteq Devices /\ drops' \subseteq Drops /\ consumed' \subseteq Drops
    BY <1>1, <1>8 DEF StopShare, Begins, SharesShaped, shareVars, recordVars, processVars, strayVars
  <2>3. SharesShaped'
    BY <1>1, <2>1, <2>2 DEF SharesShaped, Alone
  <2> QED
    BY <1>1, <2>1, <2>2, <2>3, OneBeginsToStop
<1>9. ASSUME NEW key \in Drops, DropConsumed(key)
      PROVE  PeersInv'
  <2>1. thread' \in [Threads -> ThreadType] /\ Alone(key) /\ thread'[key].at = "stop"
    <3>1. Begins(key, "restart", {})
      BY <1>9 DEF DropConsumed
    <3> QED
      BY <1>1, <3>1, ThreadSteps
  <2>2. /\ overlapped' = (overlapped \/ \E other \in Threads : thread[other] # Idle)
        /\ UNCHANGED <<servers, newest, strayVars, tunnel, advertised>>
        /\ approved' \subseteq Devices /\ drops' \subseteq Drops /\ consumed' \subseteq Drops
    BY <1>1, <1>9 DEF DropConsumed, Begins, SharesShaped, shareVars
  <2>3. SharesShaped'
    BY <1>1, <2>1, <2>2 DEF SharesShaped, Alone
  <2> QED
    BY <1>1, <2>1, <2>2, <2>3, OneBeginsToStop
<1>10. ASSUME NEW key \in Endpoints, DropSeen(key)
       PROVE  PeersInv'
  BY <1>2, <1>10 DEF DropSeen, shareVars
<1>11. ASSUME NEW key \in Endpoints, ServerExits(key) \/ WatchEnds(key)
       PROVE  PeersInv'
  <2>1. /\ newest' = [newest EXCEPT ![key] = "none"]
        /\ servers' = servers \/ servers' = servers \ {key}
        /\ \/ UNCHANGED strayVars
           \/ stray' = stray \union {key} /\ unrecorded' = unrecorded \union {key}
        /\ UNCHANGED <<tunnel, advertised, thread, overlapped, approved, drops, consumed>>
    BY <1>11 DEF ServerExits, WatchEnds, Ended, shareVars
  <2>2. SharesShaped' /\ servers' \subseteq servers
    BY <1>1, <2>1 DEF SharesShaped
  <2>3. \A k \in Endpoints : newest'[k] = "none" \/ (k # key /\ newest'[k] = newest[k])
    BY <1>1, <2>1 DEF SharesShaped
  <2>4. ASSUME ~overlapped'
        PROVE  OneThreadWorks' /\ Held'
    <3>1. OneThreadWorks /\ Held
      BY <2>1, <2>4 DEF PeersInv
    <3>2. ASSUME NEW t \in Threads, thread[t].at = "close"
          PROVE  newest'[Next1(t)] = "none"
      BY <2>1, <3>1, <3>2, <1>1 DEF OneThreadWorks, StopFits, SharesShaped
    <3>3. OneThreadWorks'
      BY <2>1, <2>2, <3>1, <3>2 DEF OneThreadWorks, StopFits, StartFits, Next1
    <3>4. Held'
      BY <2>1, <2>2, <2>3, <3>1 DEF Held, NoStrayServer, AdvertisedIsReachable,
         UsedDropsAreRevoked, AtWorkToStop, Serving, strayVars
    <3> QED
      BY <3>3, <3>4
  <2> QED
    BY <2>2, <2>4 DEF PeersInv
<1>12. ASSUME NEW t \in Threads, TakeDown(t)
       PROVE  PeersInv'
  <2>1. Goes(t, "list", {})
    BY <1>1, <1>12 DEF TakeDown, shareVars, recordVars, processVars, strayVars, SharesShaped, Next1
  <2>2. /\ thread' \in [Threads -> ThreadType] /\ Alone(t)
        /\ thread'[t].at = "list" /\ thread'[t].left = {}
    BY <1>1, <2>1, ThreadSteps
  <2>3. SharesShaped'
    BY <1>1, <1>12, <2>2 DEF TakeDown, shareVars, recordVars, processVars, strayVars, SharesShaped, Alone
  <2>4. ASSUME ~overlapped, OneThreadWorks, Held
        PROVE  /\ thread'[t].at = "idle" => thread'[t] = Idle
               /\ thread'[t].at \notin {"idle", "stop"} => ~advertised'
               /\ StopFits(t)' /\ StartFits(t)' /\ Held'
    BY <1>1, <1>12, <2>2, <2>4 DEF TakeDown, shareVars, recordVars, processVars, strayVars,
       OneThreadWorks, StopFits, StartFits, Held,
       NoStrayServer, AdvertisedIsReachable, UsedDropsAreRevoked, AtWorkToStop, Serving, SharesShaped, ThreadType
  <2> QED
    BY <1>1, <1>12, <2>2, <2>3, <2>4, StepOfOne DEF TakeDown, shareVars, recordVars, processVars, strayVars
<1>13. ASSUME NEW t \in Threads, ListServers(t)
       PROVE  PeersInv'
  <2>1. Goes(t, "end", servers) /\ servers \in SUBSET Endpoints
    BY <1>1, <1>13 DEF ListServers, shareVars, recordVars, processVars, strayVars, SharesShaped, Next1
  <2>2. /\ thread' \in [Threads -> ThreadType] /\ Alone(t)
        /\ thread'[t].at = "end" /\ thread'[t].left = servers
    BY <1>1, <2>1, ThreadSteps
  <2>3. SharesShaped'
    BY <1>1, <1>13, <2>2 DEF ListServers, shareVars, recordVars, processVars, strayVars, SharesShaped,
       Alone
  <2>4. ASSUME ~overlapped, OneThreadWorks, Held
        PROVE  /\ thread'[t].at = "idle" => thread'[t] = Idle
               /\ thread'[t].at \notin {"idle", "stop"} => ~advertised'
               /\ StopFits(t)' /\ StartFits(t)' /\ Held'
    BY <1>1, <1>13, <2>2, <2>4 DEF ListServers, shareVars, recordVars, processVars, strayVars,
       OneThreadWorks, StopFits, StartFits, Held,
       NoStrayServer, AdvertisedIsReachable, UsedDropsAreRevoked, AtWorkToStop, Serving, SharesShaped, ThreadType
  <2> QED
    BY <1>1, <1>13, <2>2, <2>3, <2>4, StepOfOne DEF ListServers, shareVars, recordVars,
       processVars, strayVars
<1>14. ASSUME NEW t \in Threads, EndServer(t)
       PROVE  PeersInv'
  <2>1. Goes(t, "close", thread[t].left) /\ thread[t].left \in SUBSET Endpoints
    BY <1>1, <1>14 DEF EndServer, EndServerThen, Ended, ThreadType, shareVars, recordVars,
       processVars, strayVars, SharesShaped, Next1
  <2>2. /\ thread' \in [Threads -> ThreadType] /\ Alone(t)
        /\ thread'[t].at = "close" /\ thread'[t].left = thread[t].left
    BY <1>1, <2>1, ThreadSteps
  <2>3. SharesShaped'
    BY <1>1, <1>14, <2>2 DEF EndServer, EndServerThen, Ended, ThreadType, shareVars,
       recordVars, processVars, strayVars, SharesShaped, Alone
  <2>4. ASSUME ~overlapped, OneThreadWorks, Held
        PROVE  /\ thread'[t].at = "idle" => thread'[t] = Idle
               /\ thread'[t].at \notin {"idle", "stop"} => ~advertised'
               /\ StopFits(t)' /\ StartFits(t)' /\ Held'
    <3>1. /\ \/ newest' = [newest EXCEPT ![Next1(t)] = "none"]
             \/ newest' = newest /\ newest[Next1(t)] = "none"
          /\ thread[t].at = "end" /\ thread[t].left # {}
          /\ UNCHANGED <<shareVars, servers, strayVars, tunnel, advertised>>
      BY <1>14 DEF EndServer, EndServerThen, Ended
    <3>2. Next1(t) \in thread[t].left /\ Next1(t) \in Endpoints /\ Next1(t)' = Next1(t)
      BY <1>1, <2>2, <3>1 DEF Next1, SharesShaped, ThreadType
    <3>3. /\ newest'[Next1(t)] = "none"
          /\ \A key \in Endpoints : newest'[key] \in {"none", newest[key]}
      BY <1>1, <3>1, <3>2 DEF SharesShaped
    <3> QED
      BY <1>1, <2>2, <2>4, <3>1, <3>2, <3>3 DEF OneThreadWorks, StopFits, StartFits, Held,
         NoStrayServer, AdvertisedIsReachable, UsedDropsAreRevoked, AtWorkToStop, Serving, SharesShaped,
         shareVars, strayVars
  <2> QED
    BY <1>1, <1>14, <2>2, <2>3, <2>4, StepOfOne DEF EndServer, EndServerThen, Ended,
       ThreadType, shareVars, recordVars, processVars, strayVars
<1>15. ASSUME NEW t \in Threads, CloseServer(t)
       PROVE  PeersInv'
  <2>1. Goes(t, "end", thread[t].left \ {Next1(t)}) /\ thread[t].left \in SUBSET Endpoints
    BY <1>1, <1>15 DEF CloseServer, ThreadType, shareVars, recordVars, processVars, strayVars,
       SharesShaped, Next1
  <2>2. /\ thread' \in [Threads -> ThreadType] /\ Alone(t)
        /\ thread'[t].at = "end" /\ thread'[t].left = thread[t].left \ {Next1(t)}
    BY <1>1, <2>1, ThreadSteps
  <2>3. SharesShaped'
    BY <1>1, <1>15, <2>2 DEF CloseServer, ThreadType, shareVars, recordVars, processVars, strayVars,
       SharesShaped, Alone
  <2>4. ASSUME ~overlapped, OneThreadWorks, Held
        PROVE  /\ thread'[t].at = "idle" => thread'[t] = Idle
               /\ thread'[t].at \notin {"idle", "stop"} => ~advertised'
               /\ StopFits(t)' /\ StartFits(t)' /\ Held'
    BY <1>1, <1>15, <2>2, <2>4 DEF CloseServer, ThreadType, shareVars, recordVars,
       processVars, strayVars, OneThreadWorks, StopFits, StartFits, Held,
       NoStrayServer, AdvertisedIsReachable, UsedDropsAreRevoked, AtWorkToStop, Serving, SharesShaped, ThreadType
  <2> QED
    BY <1>1, <1>15, <2>2, <2>3, <2>4, StepOfOne DEF CloseServer, ThreadType, shareVars,
       recordVars, processVars, strayVars
<1>16. ASSUME NEW t \in Threads, StopEnds(t)
       PROVE  PeersInv'
  <2>1. Ends(t)
    BY <1>1, <1>16 DEF StopEnds, Stopped, shareVars, recordVars, processVars, strayVars, SharesShaped,
       Next1
  <2>2. /\ thread' \in [Threads -> ThreadType] /\ Alone(t) /\ thread'[t] = Idle
    BY <1>1, <2>1, ThreadSteps
  <2>3. SharesShaped'
    BY <1>1, <1>16, <2>2 DEF StopEnds, Stopped, shareVars, recordVars, processVars, strayVars,
       SharesShaped, Alone
  <2>4. ASSUME ~overlapped, OneThreadWorks, Held
        PROVE  /\ thread'[t].at = "idle" => thread'[t] = Idle
               /\ thread'[t].at \notin {"idle", "stop"} => ~advertised'
               /\ StopFits(t)' /\ StartFits(t)' /\ Held'
    <3>1. Stopped(t)
      BY <1>16 DEF StopEnds, StartFollows, ApprovalFails
    <3>2. servers = {} /\ ~advertised /\ \A key \in Endpoints : newest[key] = "none"
      BY <1>1, <2>4, <3>1, NoneServes
    <3>3. UNCHANGED <<servers, newest, strayVars, advertised, tunnel>>
      BY <1>16 DEF StopEnds, StartFollows, ApprovalFails, recordVars, processVars, strayVars
    <3> QED
      BY <1>1, <2>2, <2>3, <2>4, <3>2, <3>3 DEF StopFits, StartFits, Held, NoStrayServer,
         AdvertisedIsReachable, UsedDropsAreRevoked, AtWorkToStop, Serving, SharesShaped, Endpoints,
         strayVars
  <2> QED
    BY <1>1, <1>16, <2>2, <2>3, <2>4, StepOfOne DEF StopEnds, Stopped, shareVars, recordVars,
       processVars, strayVars
<1>17. ASSUME NEW t \in Threads, StartFollows(t)
       PROVE  PeersInv'
  <2>1. Goes(t, "start", {})
    BY <1>1, <1>17 DEF StartFollows, Stopped, shareVars, recordVars, processVars, strayVars,
       SharesShaped, Next1
  <2>2. /\ thread' \in [Threads -> ThreadType] /\ Alone(t)
        /\ thread'[t].at = "start" /\ thread'[t].left = {}
    BY <1>1, <2>1, ThreadSteps
  <2>3. SharesShaped'
    BY <1>1, <1>17, <2>2 DEF StartFollows, Stopped, shareVars, recordVars, processVars, strayVars,
       SharesShaped, ThreadType, Alone
  <2>4. ASSUME ~overlapped, OneThreadWorks, Held
        PROVE  /\ thread'[t].at = "idle" => thread'[t] = Idle
               /\ thread'[t].at \notin {"idle", "stop"} => ~advertised'
               /\ StopFits(t)' /\ StartFits(t)' /\ Held'
    <3>1. Stopped(t)
      BY <1>17 DEF StopEnds, StartFollows, ApprovalFails
    <3>2. servers = {} /\ ~advertised /\ \A key \in Endpoints : newest[key] = "none"
      BY <1>1, <2>4, <3>1, NoneServes
    <3>3. UNCHANGED <<servers, newest, strayVars, advertised, tunnel>>
      BY <1>17 DEF StopEnds, StartFollows, ApprovalFails, recordVars, processVars, strayVars
    <3> QED
      BY <1>1, <2>2, <2>3, <2>4, <3>2, <3>3 DEF StopFits, StartFits, Held, NoStrayServer,
         AdvertisedIsReachable, UsedDropsAreRevoked, AtWorkToStop, Serving, SharesShaped, Endpoints,
         strayVars
  <2> QED
    BY <1>1, <1>17, <2>2, <2>3, <2>4, StepOfOne DEF StartFollows, Stopped, shareVars,
       recordVars, processVars, strayVars
<1>18. ASSUME NEW t \in Threads, ApprovalFails(t)
       PROVE  PeersInv'
  <2>1. thread' = [thread EXCEPT ![t] = [Idle EXCEPT !.at = "start", !.task = "again"]]
    BY <1>1, <1>18 DEF ApprovalFails, Stopped, shareVars, recordVars, processVars, strayVars,
       SharesShaped, Next1
  <2>2. /\ thread' \in [Threads -> ThreadType] /\ Alone(t) /\ thread'[t].at = "start"
    BY <1>1, <2>1 DEF Idle, SharesShaped, ThreadType, Alone
  <2>3. SharesShaped'
    BY <1>1, <1>18, <2>2 DEF ApprovalFails, Stopped, shareVars, recordVars, processVars, strayVars,
       SharesShaped, Alone
  <2>4. ASSUME ~overlapped, OneThreadWorks, Held
        PROVE  /\ thread'[t].at = "idle" => thread'[t] = Idle
               /\ thread'[t].at \notin {"idle", "stop"} => ~advertised'
               /\ StopFits(t)' /\ StartFits(t)' /\ Held'
    <3>1. Stopped(t)
      BY <1>18 DEF StopEnds, StartFollows, ApprovalFails
    <3>2. servers = {} /\ ~advertised /\ \A key \in Endpoints : newest[key] = "none"
      BY <1>1, <2>4, <3>1, NoneServes
    <3>3. UNCHANGED <<servers, newest, strayVars, advertised, tunnel>>
      BY <1>18 DEF StopEnds, StartFollows, ApprovalFails, recordVars, processVars, strayVars
    <3> QED
      BY <1>1, <2>2, <2>3, <2>4, <3>2, <3>3 DEF StopFits, StartFits, Held, NoStrayServer,
         AdvertisedIsReachable, UsedDropsAreRevoked, AtWorkToStop, Serving, SharesShaped, Endpoints,
         strayVars
  <2> QED
    BY <1>1, <1>18, <2>2, <2>3, <2>4, StepOfOne DEF ApprovalFails, Stopped, shareVars,
       recordVars, processVars, strayVars
<1>19. ASSUME NEW t \in Threads, ReadShare(t)
       PROVE  PeersInv'
  <2>1. /\ ActiveKeys \in SUBSET Endpoints /\ ActiveKeys \intersect consumed = {}
        /\ thread[t].at = "start" /\ UNCHANGED <<shareVars, recordVars, overlapped>>
    BY <1>1, <1>19, SharesAssumption DEF ReadShare, ActiveKeys, SharesShaped, Endpoints
  <2>2. \/ ActiveKeys = {} /\ Goes(t, "ready", {})
        \/ ActiveKeys # {} /\ Goes(t, "spawn", ActiveKeys)
    BY <1>19 DEF ReadShare
  <2>3. /\ thread' \in [Threads -> ThreadType] /\ Alone(t)
        /\ \/ thread'[t].at = "ready"
           \/ thread'[t].at = "spawn" /\ thread'[t].left = ActiveKeys /\ ActiveKeys # {}
    BY <1>1, <2>1, <2>2, ThreadSteps
  <2>4. SharesShaped'
    BY <1>1, <2>1, <2>3 DEF SharesShaped, Alone, shareVars, recordVars, processVars, strayVars
  <2>5. ASSUME ~overlapped, OneThreadWorks, Held
        PROVE  /\ thread'[t].at = "idle" => thread'[t] = Idle
               /\ thread'[t].at \notin {"idle", "stop"} => ~advertised'
               /\ StopFits(t)' /\ StartFits(t)' /\ Held'
    BY <1>1, <2>1, <2>3, <2>5 DEF OneThreadWorks, StopFits, StartFits, Held, NoStrayServer,
       AdvertisedIsReachable, UsedDropsAreRevoked, AtWorkToStop, Serving, shareVars, recordVars, processVars, strayVars
  <2> QED
    BY <1>1, <2>1, <2>3, <2>4, <2>5, StepOfOne
<1>20. ASSUME NEW t \in Threads, Spawn(t)
       PROVE  PeersInv'
  <2> DEFINE key == Next1(t)
             rest == thread[t].left \ {key}
  <2>1. /\ thread[t].at = "spawn" /\ rest \in SUBSET Endpoints
        /\ UNCHANGED <<shareVars, tunnel, advertised, overlapped>>
        /\ servers' = servers \union {key}
        /\ \E status \in {"listens", "deaf"} : newest' = [newest EXCEPT ![key] = status]
        /\ newest[key] = "none" => stray' = stray
        /\ unrecorded' = unrecorded
    BY <1>1, <1>20 DEF Spawn, SharesShaped, ThreadType
  <2>2. Goes(t, IF rest = {} THEN "relay" ELSE "spawn", rest)
    BY <1>20 DEF Spawn
  <2>3. /\ thread' \in [Threads -> ThreadType] /\ Alone(t) /\ thread'[t].left = rest
        /\ thread'[t].at = "relay" \/ (thread'[t].at = "spawn" /\ rest # {})
    <3>1. CASE rest = {}
      BY <1>1, <2>1, <2>2, <3>1, ThreadSteps
    <3>2. CASE rest # {}
      BY <1>1, <2>1, <2>2, <3>2, ThreadSteps
    <3> QED
      BY <3>1, <3>2
  <2>4. key \in thread[t].left /\ key \in Endpoints
    BY <1>1, <2>1 DEF Next1, SharesShaped, ThreadType
  <2>5. SharesShaped'
    BY <1>1, <2>1, <2>3, <2>4 DEF SharesShaped, Alone, shareVars
  <2>6. ASSUME ~overlapped, OneThreadWorks, Held
        PROVE  /\ thread'[t].at = "idle" => thread'[t] = Idle
               /\ thread'[t].at \notin {"idle", "stop"} => ~advertised'
               /\ StopFits(t)' /\ StartFits(t)' /\ Held'
    <3>1. /\ \A k \in Endpoints : k # key => newest'[k] = newest[k]
          /\ newest[key] = "none" /\ stray' = stray /\ thread[t].left \intersect consumed = {}
          /\ \A k \in rest : newest'[k] = "none"
      BY <1>1, <2>1, <2>4, <2>6 DEF OneThreadWorks, StartFits, SharesShaped, ThreadType
    <3>2. StopFits(t)' /\ StartFits(t)' /\ NoStrayServer' /\ AdvertisedIsReachable'
      BY <1>1, <2>1, <2>3, <2>4, <2>6, <3>1 DEF OneThreadWorks, StopFits, StartFits, Held,
         NoStrayServer, AdvertisedIsReachable, SharesShaped, shareVars
    <3>3. ASSUME NEW d \in (consumed \ unrecorded)', Serving(d)'
          PROVE  FALSE
      <4>1. d # key /\ d \in Endpoints /\ d \in consumed \ unrecorded
        BY <1>1, <2>1, <2>4, <3>1, <3>3 DEF SharesShaped, shareVars, Endpoints
      <4>2. Serving(d)
        BY <3>1, <3>3, <4>1 DEF Serving
      <4>3. AtWorkToStop
        BY <2>6, <4>1, <4>2 DEF Held, UsedDropsAreRevoked
      <4> QED
        BY <1>1, <2>1, <2>6, <4>3 DEF AtWorkToStop, OneThreadWorks
    <3> QED
      BY <2>1, <2>3, <2>6, <3>2, <3>3 DEF OneThreadWorks, Held, UsedDropsAreRevoked
  <2> QED
    BY <1>1, <2>1, <2>3, <2>5, <2>6, StepOfOne
<1>21. ASSUME NEW t \in Threads, SpawnFails(t)
       PROVE  PeersInv'
  <2>1. Fails(t)
    BY <1>1, <1>21 DEF SpawnFails, shareVars, recordVars, processVars, strayVars, SharesShaped, Next1
  <2>2. /\ thread' \in [Threads -> ThreadType] /\ Alone(t) /\ thread'[t].at = "stop"
    BY <1>1, <2>1, ThreadSteps
  <2>3. SharesShaped'
    BY <1>1, <1>21, <2>2 DEF SpawnFails, shareVars, recordVars, processVars, strayVars, SharesShaped, Alone
  <2>4. ASSUME ~overlapped, OneThreadWorks, Held
        PROVE  /\ thread'[t].at = "idle" => thread'[t] = Idle
               /\ thread'[t].at \notin {"idle", "stop"} => ~advertised'
               /\ StopFits(t)' /\ StartFits(t)' /\ Held'
    BY <1>1, <1>21, <2>2, <2>4 DEF SpawnFails, shareVars, recordVars, processVars, strayVars,
       OneThreadWorks, StopFits, StartFits, Held,
       NoStrayServer, AdvertisedIsReachable, UsedDropsAreRevoked, AtWorkToStop, Serving, SharesShaped, ThreadType
  <2> QED
    BY <1>1, <1>21, <2>2, <2>3, <2>4, StepOfOne DEF SpawnFails, shareVars, recordVars,
       processVars, strayVars
<1>22. ASSUME NEW t \in Threads, StartRelay(t)
       PROVE  PeersInv'
  <2>1. Goes(t, "tunnel", {})
    BY <1>1, <1>22 DEF StartRelay, shareVars, recordVars, processVars, strayVars, SharesShaped, Next1
  <2>2. /\ thread' \in [Threads -> ThreadType] /\ Alone(t)
        /\ thread'[t].at = "tunnel" /\ thread'[t].left = {}
    BY <1>1, <2>1, ThreadSteps
  <2>3. SharesShaped'
    BY <1>1, <1>22, <2>2 DEF StartRelay, shareVars, recordVars, processVars, strayVars, SharesShaped, Alone
  <2>4. ASSUME ~overlapped, OneThreadWorks, Held
        PROVE  /\ thread'[t].at = "idle" => thread'[t] = Idle
               /\ thread'[t].at \notin {"idle", "stop"} => ~advertised'
               /\ StopFits(t)' /\ StartFits(t)' /\ Held'
    BY <1>1, <1>22, <2>2, <2>4 DEF StartRelay, shareVars, recordVars, processVars, strayVars,
       OneThreadWorks, StopFits, StartFits, Held,
       NoStrayServer, AdvertisedIsReachable, UsedDropsAreRevoked, AtWorkToStop, Serving, SharesShaped, ThreadType
  <2> QED
    BY <1>1, <1>22, <2>2, <2>3, <2>4, StepOfOne DEF StartRelay, shareVars, recordVars,
       processVars, strayVars
<1>23. ASSUME NEW t \in Threads, RelayHolds(t)
       PROVE  PeersInv'
  <2>1. Goes(t, "ready", {})
    BY <1>1, <1>23 DEF RelayHolds, shareVars, recordVars, processVars, strayVars, SharesShaped, Next1
  <2>2. /\ thread' \in [Threads -> ThreadType] /\ Alone(t)
        /\ thread'[t].at = "ready" /\ thread'[t].left = {}
    BY <1>1, <2>1, ThreadSteps
  <2>3. SharesShaped'
    BY <1>1, <1>23, <2>2 DEF RelayHolds, shareVars, recordVars, processVars, strayVars, SharesShaped, Alone
  <2>4. ASSUME ~overlapped, OneThreadWorks, Held
        PROVE  /\ thread'[t].at = "idle" => thread'[t] = Idle
               /\ thread'[t].at \notin {"idle", "stop"} => ~advertised'
               /\ StopFits(t)' /\ StartFits(t)' /\ Held'
    BY <1>1, <1>23, <2>2, <2>4 DEF RelayHolds, shareVars, recordVars, processVars, strayVars,
       OneThreadWorks, StopFits, StartFits, Held,
       NoStrayServer, AdvertisedIsReachable, UsedDropsAreRevoked, AtWorkToStop, Serving, SharesShaped, ThreadType
  <2> QED
    BY <1>1, <1>23, <2>2, <2>3, <2>4, StepOfOne DEF RelayHolds, shareVars, recordVars,
       processVars, strayVars
<1>24. ASSUME NEW t \in Threads, RelayExits(t)
       PROVE  PeersInv'
  <2>1. Fails(t)
    BY <1>1, <1>24 DEF RelayExits, shareVars, recordVars, processVars, strayVars, SharesShaped, Next1
  <2>2. /\ thread' \in [Threads -> ThreadType] /\ Alone(t) /\ thread'[t].at = "stop"
    BY <1>1, <2>1, ThreadSteps
  <2>3. SharesShaped'
    BY <1>1, <1>24, <2>2 DEF RelayExits, shareVars, recordVars, processVars, strayVars, SharesShaped, Alone
  <2>4. ASSUME ~overlapped, OneThreadWorks, Held
        PROVE  /\ thread'[t].at = "idle" => thread'[t] = Idle
               /\ thread'[t].at \notin {"idle", "stop"} => ~advertised'
               /\ StopFits(t)' /\ StartFits(t)' /\ Held'
    BY <1>1, <1>24, <2>2, <2>4 DEF RelayExits, shareVars, recordVars, processVars, strayVars,
       OneThreadWorks, StopFits, StartFits, Held,
       NoStrayServer, AdvertisedIsReachable, UsedDropsAreRevoked, AtWorkToStop, Serving, SharesShaped, ThreadType
  <2> QED
    BY <1>1, <1>24, <2>2, <2>3, <2>4, StepOfOne DEF RelayExits, shareVars, recordVars,
       processVars, strayVars
<1>25. ASSUME NEW t \in Threads, Advertise(t)
       PROVE  PeersInv'
  <2>1. Ends(t)
    BY <1>1, <1>25 DEF Advertise, shareVars, recordVars, processVars, strayVars, SharesShaped, Next1
  <2>2. /\ thread' \in [Threads -> ThreadType] /\ Alone(t) /\ thread'[t] = Idle
    BY <1>1, <2>1, ThreadSteps
  <2>3. SharesShaped'
    BY <1>1, <1>25, <2>2 DEF Advertise, shareVars, recordVars, processVars, strayVars, SharesShaped, Alone
  <2>4. ASSUME ~overlapped, OneThreadWorks, Held
        PROVE  /\ thread'[t].at = "idle" => thread'[t] = Idle
               /\ thread'[t].at \notin {"idle", "stop"} => ~advertised'
               /\ StopFits(t)' /\ StartFits(t)' /\ Held'
    BY <1>1, <1>25, <2>2, <2>4 DEF Advertise, shareVars, recordVars, processVars, strayVars,
       OneThreadWorks, StopFits, StartFits, Held,
       NoStrayServer, AdvertisedIsReachable, UsedDropsAreRevoked, AtWorkToStop, Serving, SharesShaped, ThreadType
  <2> QED
    BY <1>1, <1>25, <2>2, <2>3, <2>4, StepOfOne DEF Advertise, shareVars, recordVars,
       processVars, strayVars
<1> QED
  BY <1>2, <1>3, <1>4, <1>5, <1>6, <1>7, <1>8, <1>9, <1>10, <1>11, <1>12,
     <1>13, <1>14, <1>15, <1>16, <1>17, <1>18, <1>19, <1>20, <1>21, <1>22, <1>23, <1>24, <1>25
     DEF PeersNext, peerVars, shareVars, recordVars, processVars, strayVars

-----------------------------------------------------------------------------
(* The program *)

LEMMA PartsStep ==
  DesktopNext =>
    /\ [UpdatesNext]_updateVars
    /\ [RcloneNext]_runtimeVars
    /\ [AccountsNext]_accountVars
    /\ [LoginNext]_loginVars
    /\ [SecurityNext]_securityVars
    /\ [RequestsNext]_requestVars
    /\ [ProfilesNext]_profileVars
    /\ [RecoveryNext]_recoveryVars
    /\ [CacheNext]_cacheVars
    /\ [SearchNext]_searchVars
    /\ [UploadsNext]_uploadVars
    /\ [MountsNext]_mountVars
    /\ [PeersNext]_peerVars
    /\ [ProtonNext]_protonVars
    /\ [GitNext]_gitVars
    /\ [CollabNext]_collabVars
<1> SUFFICES ASSUME DesktopNext
             PROVE  /\ [UpdatesNext]_updateVars
                    /\ [RcloneNext]_runtimeVars
                    /\ [AccountsNext]_accountVars
                    /\ [LoginNext]_loginVars
                    /\ [SecurityNext]_securityVars
                    /\ [RequestsNext]_requestVars
                    /\ [ProfilesNext]_profileVars
                    /\ [RecoveryNext]_recoveryVars
                    /\ [CacheNext]_cacheVars
                    /\ [SearchNext]_searchVars
                    /\ [UploadsNext]_uploadVars
                    /\ [MountsNext]_mountVars
                    /\ [PeersNext]_peerVars
                    /\ [ProtonNext]_protonVars
                    /\ [GitNext]_gitVars
                    /\ [CollabNext]_collabVars
  OBVIOUS
<1>1. /\ part # "updates" => UNCHANGED updateVars
      /\ part # "runtime" => UNCHANGED runtimeVars
      /\ part # "accounts" => UNCHANGED accountVars
      /\ part # "proton login" => UNCHANGED loginVars
      /\ part # "security" => UNCHANGED securityVars
      /\ part # "requests" => UNCHANGED requestVars
      /\ part # "profiles" => UNCHANGED profileVars
      /\ part # "history" => UNCHANGED recoveryVars
      /\ part # "cache" => UNCHANGED cacheVars
      /\ part # "search" => UNCHANGED searchVars
      /\ part # "uploads" => UNCHANGED uploadVars
      /\ part # "drive" => UNCHANGED mountVars
      /\ part # "share" => UNCHANGED peerVars
      /\ part # "native" => UNCHANGED protonVars
      /\ part # "git" => UNCHANGED gitVars
      /\ part # "editors" => UNCHANGED collabVars
  BY DEF DesktopNext, Rests
<1>2. part = "updates" => UpdatesNext
  BY DEF DesktopNext, Editors, Share, Uploads, Native, Drive, Cache, History, Git, Search, Updating, Runtime,
     Accounting, SigningIn, Security, Moving, Requests
<1>3. part = "runtime" => RcloneNext
  BY DEF DesktopNext, Editors, Share, Uploads, Native, Drive, Cache, History, Git, Search, Updating, Runtime,
     Accounting, SigningIn, Security, Moving, Requests
<1>4. part = "accounts" => AccountsNext
  BY DEF DesktopNext, Editors, Share, Uploads, Native, Drive, Cache, History, Git, Search, Updating, Runtime,
     Accounting, SigningIn, Security, Moving, Requests
<1>5. part = "proton login" => LoginNext
  BY DEF DesktopNext, Editors, Share, Uploads, Native, Drive, Cache, History, Git, Search, Updating, Runtime,
     Accounting, SigningIn, Security, Moving, Requests
<1>6. part = "security" => SecurityNext
  BY DEF DesktopNext, Editors, Share, Uploads, Native, Drive, Cache, History, Git, Search, Updating, Runtime,
     Accounting, SigningIn, Security, Moving, Requests
<1>7. part = "requests" => RequestsNext
  BY DEF DesktopNext, Editors, Share, Uploads, Native, Drive, Cache, History, Git, Search, Updating, Runtime,
     Accounting, SigningIn, Security, Moving, Requests
<1>8. part = "profiles" => ProfilesNext
  BY DEF DesktopNext, Editors, Share, Uploads, Native, Drive, Cache, History, Git, Search, Updating, Runtime,
     Accounting, SigningIn, Security, Moving, Requests
<1>9. part = "history" => RecoveryNext
  BY DEF DesktopNext, Editors, Share, Uploads, Native, Drive, Cache, History, Git, Search, Updating, Runtime,
     Accounting, SigningIn, Security, Moving, Requests
<1>10. part = "cache" => CacheNext
  BY DEF DesktopNext, Editors, Share, Uploads, Native, Drive, Cache, History, Git, Search, Updating, Runtime,
     Accounting, SigningIn, Security, Moving, Requests
<1>11. part = "search" => SearchNext
  BY DEF DesktopNext, Editors, Share, Uploads, Native, Drive, Cache, History, Git, Search, Updating, Runtime,
     Accounting, SigningIn, Security, Moving, Requests
<1>12. part = "uploads" => UploadsNext
  BY DEF DesktopNext, Editors, Share, Uploads, Native, Drive, Cache, History, Git, Search, Updating, Runtime,
     Accounting, SigningIn, Security, Moving, Requests
<1>13. part = "drive" => MountsNext
  BY DEF DesktopNext, Editors, Share, Uploads, Native, Drive, Cache, History, Git, Search, Updating, Runtime,
     Accounting, SigningIn, Security, Moving, Requests
<1>14. part = "share" => PeersNext
  BY DEF DesktopNext, Editors, Share, Uploads, Native, Drive, Cache, History, Git, Search, Updating, Runtime,
     Accounting, SigningIn, Security, Moving, Requests
<1>15. part = "native" => ProtonNext
  BY DEF DesktopNext, Editors, Share, Uploads, Native, Drive, Cache, History, Git, Search, Updating, Runtime,
     Accounting, SigningIn, Security, Moving, Requests
<1>16. part = "git" => GitNext
  BY DEF DesktopNext, Editors, Share, Uploads, Native, Drive, Cache, History, Git, Search, Updating, Runtime,
     Accounting, SigningIn, Security, Moving, Requests
<1>17. part = "editors" => CollabNext
  BY DEF DesktopNext, Editors, Share, Uploads, Native, Drive, Cache, History, Git, Search, Updating, Runtime,
     Accounting, SigningIn, Security, Moving, Requests
<1> QED
  BY <1>1, <1>2, <1>3, <1>4, <1>5, <1>6, <1>7, <1>8, <1>9, <1>10,
     <1>11, <1>12, <1>13, <1>14, <1>15, <1>16, <1>17

LEMMA PartsRest ==
  UNCHANGED desktopVars =>
    /\ UNCHANGED updateVars /\ UNCHANGED runtimeVars /\ UNCHANGED accountVars
    /\ UNCHANGED loginVars /\ UNCHANGED securityVars /\ UNCHANGED requestVars
    /\ UNCHANGED profileVars /\ UNCHANGED recoveryVars /\ UNCHANGED cacheVars
    /\ UNCHANGED searchVars /\ UNCHANGED uploadVars /\ UNCHANGED mountVars
    /\ UNCHANGED peerVars /\ UNCHANGED protonVars /\ UNCHANGED gitVars
    /\ UNCHANGED collabVars
BY DEF desktopVars

\* What the program installs and starts is the whole of what was signed, in the composition:
\* updates, until outside Linux two downloads were under way at once, and its copy of
\* rclone, until two threads installed it at once (updater.py, bootstrap.py).
THEOREM InstallsStayVerified == DesktopSpec => []InstallsAreVerified
<1>1. DesktopInit => UpdatesInv /\ RcloneInv
  BY UpdatesInvInit, RcloneInvInit DEF DesktopInit
<1>2. UpdatesInv /\ RcloneInv /\ [DesktopNext]_desktopVars => UpdatesInv' /\ RcloneInv'
  BY PartsStep, PartsRest, UpdatesInvNext, RcloneInvNext
<1>3. UpdatesInv /\ RcloneInv => InstallsAreVerified
  BY DEF UpdatesInv, OnlyWhole, OneDownload, UpdatesAreVerified, RcloneInv, AloneAtIt,
     RcloneIsWhole, InstallsAreVerified
<1> QED
  BY <1>1, <1>2, <1>3, PTL DEF DesktopSpec

\* The accounts in the list can be used: those of rclone, the one of Proton, and the
\* configuration they are kept in, each with the exceptions its own theorem names:
\* AccountsStayAuthorized, ProtonStaysSignedIn, RcloneDecrypts (rclone.py, proton.py).
THEOREM AccountsStayUsable == DesktopSpec => []AccountsAreUsable
<1>1. DesktopInit => AccountsInv /\ LoginInv /\ SecurityInv
  BY AccountsInvInit, LoginInvInit, SecurityInvInit DEF DesktopInit
<1>2. AccountsInv /\ LoginInv /\ SecurityInv /\ [DesktopNext]_desktopVars
        => AccountsInv' /\ LoginInv' /\ SecurityInv'
  BY PartsStep, PartsRest, AccountsInvNext, LoginInvNext, SecurityInvNext
<1>3. AccountsInv /\ LoginInv /\ SecurityInv => AccountsAreUsable
  <2>1. AccountsInv => AccountsAreAuthorized
    BY DEF AccountsInv, AccountsRest, AccountsTypeOK, ProcessesFit, OneAuthorization,
       AccountsAreAuthorized
  <2>2. LoginInv => ProtonIsSignedIn
    BY DEF LoginInv, LoginTypeOK, LoginsFit, ClosedInTime, ProtonIsSignedIn, OneLogin
  <2>3. SecurityInv => RcloneCanDecrypt
    BY DEF SecurityInv, RcloneCanDecrypt
  <2> QED
    BY <2>1, <2>2, <2>3 DEF AccountsAreUsable
<1> QED
  BY <1>1, <1>2, <1>3, PTL DEF DesktopSpec

\* What the file manager asked for last of a path is done, under way or waiting, whatever
\* mounts, losses and restarts come between, for every path of which no request ever met
\* its opposite waiting or under way: such a request the code drops or undoes, and nothing
\* is said of that path any more.  Shown as kept is only what is kept, or what was
\* released halfway.  See LastRequestCounts, ShownIsKept and FolderIsHeard (app.py).
THEOREM RequestsStayHeard == DesktopSpec => []RequestsAreHeard
<1>1. DesktopInit => RequestsInv
  BY RequestsInvInit DEF DesktopInit
<1>2. RequestsInv /\ [DesktopNext]_desktopVars => RequestsInv'
  BY PartsStep, PartsRest, RequestsInvNext
<1>3. RequestsInv => RequestsAreHeard
  BY RequestsInvHolds
<1> QED
  BY <1>1, <1>2, <1>3, PTL DEF DesktopSpec

\* As long as two operations do not run at once, the program works with what it saved, but
\* for the destination of a backup that is at work or failed; the keys of the configuration
\* fit it unless a restore was cut off between two of its files; what a restore replaced is
\* kept unless something was saved meanwhile; and a mapping has one transfer unless an
\* engine was replaced while it had one: see ProfilesAreWhole (migration.py, app.py).
THEOREM ProfilesStayWhole == DesktopSpec => []ProfilesAreWhole
<1>1. DesktopInit => ProfilesInv
  BY ProfilesInvInit DEF DesktopInit
<1>2. ProfilesInv /\ [DesktopNext]_desktopVars => ProfilesInv'
  BY PartsStep, PartsRest, ProfilesInvNext
<1>3. ProfilesInv => ProfilesAreWhole
  BY ProfilesInvHolds
<1> QED
  BY <1>1, <1>2, <1>3, PTL DEF DesktopSpec

\* As long as its retention lasts, a version that a transfer archived and replaced can be
\* restored, and one that a restore archived and replaced has its file, though not its
\* line if that was appended while a prune held an older index; what came to the file
\* between archiving and installing is overwritten: see ReplacedHasVersion (recovery.py).
THEOREM ReplacedKeepsVersion == DesktopSpec => []ReplacedHasVersion
<1>1. DesktopInit => RecoveryInv
  BY RecoveryInvInit DEF DesktopInit
<1>2. RecoveryInv /\ [DesktopNext]_desktopVars => RecoveryInv'
  BY PartsStep, PartsRest, RecoveryInvNext
<1>3. RecoveryInv => ReplacedHasVersion
  BY RecoveryInvHolds
<1> QED
  BY <1>1, <1>2, <1>3, PTL DEF DesktopSpec

\* As long as the changes of a drive's rules come one after the other, a rule that stands
\* has its marker; what it keeps is in the cache, but for an object pinned after eviction
\* had read the pins, or released with a path that ends alike; and making room costs
\* no unsaved write but one that came after eviction's last look: see OfflineIsKept
\* (cache_manager.py, engine.py).
THEOREM OfflineStaysKept == DesktopSpec => []OfflineIsKept
<1>1. DesktopInit => CacheInv
  BY CacheInvInit DEF DesktopInit
<1>2. CacheInv /\ [DesktopNext]_desktopVars => CacheInv'
  BY PartsStep, PartsRest, CacheInvNext
<1>3. CacheInv => OfflineIsKept
  BY CacheInvHolds
<1> QED
  BY <1>1, <1>2, <1>3, PTL DEF DesktopSpec

\* The index has what the disk had when it was refreshed, of the mappings that the list of
\* the refresh and the configuration agree about; and once contents are switched off
\* and all was refreshed it has no texts but those of files that a limited walk did not
\* come to: see SearchIsExact (search_index.py).
THEOREM SearchStaysExact == DesktopSpec => []SearchIsExact
<1>1. DesktopInit => SearchInv
  BY SearchInvInit DEF DesktopInit
<1>2. SearchInv /\ [DesktopNext]_desktopVars => SearchInv'
  BY PartsStep, PartsRest, SearchInvNext
<1>3. SearchInv => SearchIsExact
  BY SearchInvHolds
<1> QED
  BY <1>1, <1>2, <1>3, PTL DEF DesktopSpec

\* A share's file is always one that some device had as a whole; and two devices upload at
\* once only where a lease ran out, until two raced for one or deleted another's, after
\* which nothing is claimed of leases: see PeerEditsAreWhole (engine.py).
THEOREM PeerEditsStayWhole == DesktopSpec => []PeerEditsAreWhole
<1>1. DesktopInit => UploadsInv
  BY UploadsInvInit DEF DesktopInit
<1>2. UploadsInv /\ [DesktopNext]_desktopVars => UploadsInv'
  BY PartsStep, PartsRest, UploadsInvNext
<1>3. UploadsInv => PeerEditsAreWhole
  BY UploadsInvHolds
<1> QED
  BY <1>1, <1>2, <1>3, PTL DEF DesktopSpec

\* As long as no thread met the record or the flag of another's mount, no process that runs
\* is forgotten, a note that a mount ends has a watcher to take it, and a drive lost while
\* enabled is reported or about to be started again: see MountsAreTended (engine.py).
THEOREM MountsStayTended == DesktopSpec => []MountsAreTended
<1>1. DesktopInit => MountsInv
  BY MountsInvInit DEF DesktopInit
<1>2. MountsInv /\ [DesktopNext]_desktopVars => MountsInv'
  BY PartsStep, PartsRest, MountsInvNext
<1>3. MountsInv => MountsAreTended
  BY MountsInvHolds
<1> QED
  BY <1>1, <1>2, <1>3, PTL DEF DesktopSpec

\* As long as no two threads stop and start the share at one time: a server that runs is the
\* newest and on record, but for one whose record a late watcher of an earlier server took,
\* of which nothing more is claimed; what is advertised has its relay; and a drop that was
\* used and did not lose its server's record like that is served only while a thread is
\* about to stop it: see SharesAreHeld and, for what that leaves out, UsedDropIsRevoked,
\* which does not hold (peer.py).
THEOREM SharesStayHeld == DesktopSpec => []SharesAreHeld
<1>1. DesktopInit => PeersInv
  BY PeersInvInit DEF DesktopInit
<1>2. PeersInv /\ [DesktopNext]_desktopVars => PeersInv'
  BY PartsStep, PartsRest, PeersInvNext
<1>3. PeersInv => SharesAreHeld
  BY PeersInvHolds
<1> QED
  BY <1>1, <1>2, <1>3, PTL DEF DesktopSpec

\* With two-way synchronization that keeps both, no version that a user saved between two
\* runs is lost before a user replaces it, whatever fails or is cut off, and although users
\* go on saving during runs; what they save during one is not among the versions looked
\* at: see ConflictsKeepBoth (proton.py).
THEOREM BothVersionsStay == DesktopSpec => []ConflictsKeepBoth
<1>1. DesktopInit => ProtonInv
  BY ProtonInvInit DEF DesktopInit
<1>2. ProtonInv /\ [DesktopNext]_desktopVars => ProtonInv'
  BY PartsStep, PartsRest, ProtonInvNext
<1>3. ProtonInv => ConflictsKeepBoth
  BY ProtonInvHolds
<1> QED
  BY <1>1, <1>2, <1>3, PTL DEF DesktopSpec

\* What the user wrote while no rebase ran stays in the folder or in a commit until he
\* replaces it; until a first checkout is cut off, no file goes from GitHub that nobody
\* deleted; and a run that ended well has left there what it staged: see EditsAreKept,
\* OnlyUsersDelete and GreenIsPushed (engine.py).
THEOREM GitStaysSafe == DesktopSpec => []GitKeepsWork
<1>1. DesktopInit => GitInv
  BY GitInvInit DEF DesktopInit
<1>2. GitInv /\ [DesktopNext]_desktopVars => GitInv'
  BY PartsStep, PartsRest, GitInvNext
<1>3. GitInv => GitKeepsWork
  BY GitInvHolds
<1> QED
  BY <1>1, <1>2, <1>3, PTL DEF DesktopSpec

\* Whatever else the program does, every device can put its document in order, and no two
\* that have the neighbours of what they have see two of its characters in different
\* orders: see DocumentsAgree (collaboration.py).
THEOREM DocumentsStayAgreed == DesktopSpec => []DocumentsAgree
<1>1. DesktopInit => CollabInv
  BY CollabAssumption, CollabInvInit DEF DesktopInit
<1>2. CollabInv /\ [DesktopNext]_desktopVars => CollabInv'
  BY PartsStep, PartsRest, CollabAssumption, CollabInvNext
<1>3. CollabInv => DocumentsAgree
  BY CollabAssumption, CollabAgrees
<1> QED
  BY <1>1, <1>2, <1>3, PTL DEF DesktopSpec
=============================================================================
