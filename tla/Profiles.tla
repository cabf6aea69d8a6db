------------------------------- MODULE Profiles -------------------------------
(***************************************************************************)
(* Moving to another computer: the profile in the cloud (migration.py),    *)
(* the dialog that stores and restores it, the configuration file it       *)
(* replaces (config.py) and the engine that is built anew for it, while    *)
(* the rest of the program goes on.  A configuration is a number, new for  *)
(* every change; so are credentials: rclone.conf, the password that        *)
(* decrypts it, and the peers' keys.  Encryption of the profile is left    *)
(* out, a wrong password being no profile.                                 *)
(***************************************************************************)
EXTENDS Naturals, FiniteSets

CONSTANTS
  MaxConfigs,     \* bound: configurations there ever are
  Operations      \* threads of dialogs: a dialog may be closed while its thread works

VARIABLES
  memory,      \* controller.config
  configFile,  \* config.json
  before,      \* config.json.before-migration
  keyring,     \* credentials: the password of rclone.conf,
  rcloneConf,  \* that file
  peerKeys,    \* and those of peers
  profile,     \* what the account has at PROFILE_PATH
  operation,   \* what the threads do
  engines,     \* engines there have been
  transfers,   \* those that run the mapping's transfer
  lastConfig,
  destinations,  \* ghost: pairs of configurations, the first like the second but for
               \* where the profile is stored
  restoredOver,    \* ghost: what the last restore replaced
  meanwhile,   \* ghost: and whether something was saved while it was at work
  tornApart,   \* ghost: a restore was cut off
  abandoned,   \* ghost: an engine was replaced while it ran a transfer
  atOnce       \* ghost: two operations at once

credentials == <<keyring, rcloneConf, peerKeys>>
profileGhosts == <<destinations, restoredOver, meanwhile, tornApart,
                   abandoned, atOnce>>
profileVars == <<memory, configFile, before, credentials, profile, operation, engines,
                 transfers, lastConfig, profileGhosts>>

NoConfig == 0
NoKeys == 0
HereKeys == 1      \* this computer's credentials
OtherKeys == 2     \* those of the computer that has stored the first profile
Partly == 3        \* a file that was not written to its end
NoOperation == [at |-> "idle", config |-> NoConfig, keys |-> NoKeys]

ProfilesInit ==
  /\ memory = 1 /\ configFile = 1 /\ before = NoConfig /\ lastConfig = 2
  /\ destinations = {}
  /\ keyring = HereKeys /\ rcloneConf = HereKeys /\ peerKeys = HereKeys
  /\ profile = [config |-> 2, keys |-> OtherKeys]
  /\ operation = [o \in Operations |-> NoOperation] /\ engines = 1 /\ transfers = {}
  /\ restoredOver = NoConfig /\ meanwhile = FALSE /\ tornApart = FALSE /\ abandoned = FALSE
  /\ atOnce = FALSE

OperationMoves(o, from, to) ==
  operation[o].at = from /\ operation' = [operation EXCEPT ![o].at = to]
Restoring(o) == operation[o].at \notin {"idle", "stores", "stored"}
OperationBegins(o, at, config, keys) ==
  /\ operation[o].at = "idle"
  /\ operation' = [operation EXCEPT ![o] = [at |-> at, config |-> config, keys |-> keys]]
  /\ atOnce' = (atOnce \/ \E p \in Operations : operation[p].at # "idle")
Besides == UNCHANGED <<engines, transfers, abandoned, destinations, atOnce>>

-----------------------------------------------------------------------------
(* The rest of the program *)

\* ConfigStore.save: a file of its own, on the disk, then in the place of the other
SaveConfig ==
  /\ lastConfig < MaxConfigs /\ lastConfig' = lastConfig + 1
  /\ memory' = lastConfig' /\ configFile' = memory'
  /\ meanwhile' = (meanwhile \/ \E o \in Operations : Restoring(o))
  /\ UNCHANGED <<before, credentials, profile, operation, restoredOver, tornApart>>
  /\ Besides

\* An engine knows its own transfers and no other's.
EngineStartsTransfer ==
  /\ engines \notin transfers /\ transfers' = transfers \union {engines}
  /\ UNCHANGED <<memory, configFile, before, credentials, profile, operation, engines,
                 lastConfig, profileGhosts>>
EngineTransferEnds(e) ==
  /\ e \in transfers /\ transfers' = transfers \ {e}
  /\ UNCHANGED <<memory, configFile, before, credentials, profile, operation, engines,
                 lastConfig, profileGhosts>>

-----------------------------------------------------------------------------
(* The dialog: one operation at a time *)

\* _backup: where the profile is stored is a setting, which is changed in memory; the
\* configuration first, then, if asked for, the credentials.  It is saved when the
\* profile is stored, and with whatever saves the configuration before; when storing
\* fails, nothing else saves it.
BeginBackup(o) ==
  /\ \/ UNCHANGED <<memory, lastConfig, destinations>>
     \/ /\ lastConfig < MaxConfigs /\ lastConfig' = lastConfig + 1
        /\ memory' = lastConfig'
        /\ destinations' = destinations \union {<<memory', configFile>>}
  /\ \E keys \in {NoKeys, rcloneConf} : OperationBegins(o, "stores", memory', keys)
  /\ UNCHANGED <<configFile, before, credentials, profile, engines, transfers,
                 restoredOver, meanwhile, tornApart, abandoned>>

StoreProfile(o) ==
  /\ OperationMoves(o, "stores", "stored")
  /\ profile' = [config |-> operation[o].config, keys |-> operation[o].keys]
  /\ UNCHANGED <<memory, configFile, before, credentials, lastConfig, restoredOver,
                 meanwhile, tornApart>> /\ Besides

\* _done: the time of the backup is saved.
BackupDone(o) ==
  /\ OperationMoves(o, "stored", "idle")
  /\ lastConfig < MaxConfigs /\ lastConfig' = lastConfig + 1
  /\ memory' = lastConfig' /\ configFile' = memory'
  /\ UNCHANGED <<before, credentials, profile, restoredOver, meanwhile, tornApart>>
  /\ Besides

\* _restore: the profile is there when it has been decrypted.
BeginRestore(o, withKeys) ==
  /\ OperationBegins(o, "copies", profile.config, IF withKeys THEN profile.keys ELSE NoKeys)
  /\ meanwhile' = FALSE /\ restoredOver' = NoConfig
  /\ UNCHANGED <<memory, configFile, before, credentials, profile, engines, transfers,
                 lastConfig, destinations, tornApart, abandoned>>

CopyBefore(o) ==
  /\ OperationMoves(o, "copies", IF operation[o].keys = NoKeys THEN "saves" ELSE "unlocks")
  /\ before' = configFile
  /\ UNCHANGED <<memory, configFile, credentials, profile, lastConfig, restoredOver,
                 meanwhile, tornApart>> /\ Besides

StorePassword(o) ==
  /\ OperationMoves(o, "unlocks", "writes") /\ keyring' = operation[o].keys
  /\ UNCHANGED <<memory, configFile, before, rcloneConf, peerKeys, profile, lastConfig,
                 restoredOver, meanwhile, tornApart>> /\ Besides
WriteRcloneConf(o) ==
  /\ OperationMoves(o, "writes", "keys") /\ rcloneConf' = operation[o].keys
  /\ UNCHANGED <<memory, configFile, before, keyring, peerKeys, profile, lastConfig,
                 restoredOver, meanwhile, tornApart>> /\ Besides
WritePeerKeys(o) ==
  /\ OperationMoves(o, "keys", "saves") /\ peerKeys' = operation[o].keys
  /\ UNCHANGED <<memory, configFile, before, keyring, rcloneConf, profile, lastConfig,
                 restoredOver, meanwhile, tornApart>> /\ Besides
SaveRestored(o) ==
  /\ OperationMoves(o, "saves", "saved") /\ configFile' = operation[o].config
  /\ UNCHANGED <<memory, before, credentials, profile, lastConfig, restoredOver, meanwhile,
                 tornApart>> /\ Besides

\* (Mutant) restore has saved it already.
LeaveSaved(o) == UNCHANGED configFile
SaveAgain(o) == configFile' = operation[o].config

\* _done: the configuration, rclone, the engine and the manager are replaced.
RestoreDone(o) ==
  /\ OperationMoves(o, "saved", "idle")
  /\ memory' = operation[o].config /\ restoredOver' = memory /\ SaveAgain(o)
  /\ engines' = engines + 1 /\ abandoned' = (abandoned \/ transfers # {})
  /\ UNCHANGED <<before, credentials, profile, transfers, lastConfig, destinations,
                 meanwhile, tornApart, atOnce>>

\* The files of a restore are written where they belong, one after the other: cut off,
\* by an error or with the program, it leaves those that were.
Cut(file, o, at) == IF operation[o].at = at THEN {file, Partly} ELSE {file}
CutOffHere(o) ==
  /\ tornApart' = (tornApart \/ operation[o].at \in {"writes", "keys"}
                   \/ (operation[o].at \in {"saves", "saved"} /\ operation[o].keys # NoKeys))
  /\ rcloneConf' \in Cut(rcloneConf, o, "writes")
  /\ peerKeys' \in Cut(peerKeys, o, "keys")
  /\ UNCHANGED <<before, keyring, profile, lastConfig, destinations, meanwhile, atOnce>>

OperationFails(o) ==
  /\ operation[o].at \notin {"idle", "saved", "stored"} /\ CutOffHere(o)
  /\ operation' = [operation EXCEPT ![o] = NoOperation]
  /\ UNCHANGED <<memory, configFile, restoredOver, engines, transfers, abandoned>>

ProfilesRestart ==
  /\ \E o \in Operations :
       /\ \A p \in Operations : operation[p].at # "idle" => p = o
       /\ CutOffHere(o)
       /\ restoredOver' = IF operation[o].at = "saved" /\ configFile = operation[o].config
                      THEN memory ELSE restoredOver
  /\ operation' = [o \in Operations |-> NoOperation]
  /\ memory' = configFile /\ transfers' = {} /\ UNCHANGED <<configFile, engines, abandoned>>

ProfilesNext ==
  \/ SaveConfig \/ EngineStartsTransfer \/ ProfilesRestart
  \/ \E e \in transfers : EngineTransferEnds(e)
  \/ \E o \in Operations :
       \/ BeginBackup(o) \/ StoreProfile(o) \/ BackupDone(o)
       \/ \E withKeys \in BOOLEAN : BeginRestore(o, withKeys)
       \/ CopyBefore(o) \/ StorePassword(o) \/ WriteRcloneConf(o) \/ WritePeerKeys(o)
       \/ SaveRestored(o) \/ RestoreDone(o) \/ OperationFails(o)

ProfilesSpec == ProfilesInit /\ [][ProfilesNext]_profileVars

-----------------------------------------------------------------------------
AnyKeys == {NoKeys, HereKeys, OtherKeys, Partly}
ProfilesTypeOK ==
  /\ {memory, configFile, before, lastConfig, restoredOver} \subseteq 0..MaxConfigs
  /\ {keyring, rcloneConf, peerKeys} \subseteq AnyKeys
  /\ profile \in [config : 0..MaxConfigs, keys : AnyKeys]
  /\ operation \in [Operations ->
       [at : {"idle", "stores", "stored", "copies", "unlocks", "writes", "keys", "saves",
              "saved"}, config : 0..MaxConfigs, keys : AnyKeys]]
  /\ destinations \subseteq (1..MaxConfigs) \X (1..MaxConfigs)
  /\ engines \in Nat /\ transfers \subseteq 1..engines
  /\ meanwhile \in BOOLEAN /\ tornApart \in BOOLEAN /\ abandoned \in BOOLEAN
  /\ atOnce \in BOOLEAN

NoneIs(at) == \A o \in Operations : operation[o].at # at

\* Configuration a is b, but for where the profile is stored.
SameBut(a, b) == a = b \/ <<a, b>> \in destinations

\* The password in the keyring is that of rclone.conf (but for the moment between the
\* two), unless a restore of credentials was cut off ("tornApart"): its files are
\* written one by one, and what was written stays.
CredentialsFit == ~tornApart /\ ~atOnce /\ NoneIs("writes") => keyring = rcloneConf

\* What is saved is what the program goes by, whatever is saved while a restore is at
\* work, but for the moment before the restored one is taken over, and but for the
\* destination of a backup that is at work or has failed: that is in memory only.
SavedIsCurrent == ~atOnce /\ NoneIs("saved") => SameBut(memory, configFile)

\* What the last restore has replaced is kept beside it (without such a destination),
\* unless something was saved meanwhile, which is lost.
ReplacedIsKept ==
  ~atOnce /\ ~meanwhile /\ restoredOver # NoConfig => SameBut(restoredOver, before)

\* A mapping's transfer runs once, unless an engine was replaced while it ran one
\* ("abandoned"): the new engine does not know of it.
TransferRunsOnce == ~abandoned => Cardinality(transfers) <= 1

\* Two operations at once keep nothing of this.
ProfilesAreWhole ==
  CredentialsFit /\ SavedIsCurrent /\ ReplacedIsKept /\ TransferRunsOnce
=============================================================================
