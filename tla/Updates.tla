------------------------------- MODULE Updates -------------------------------
(***************************************************************************)
(* How the program replaces itself: the dialog and the threads behind it   *)
(* (check, download, install), the package files in the cache and, on      *)
(* Linux, the privileged helper, which trusts none of them.  A file is     *)
(* the number of the download that wrote it.  Manifests are taken to be    *)
(* genuine; of what is wrong with a package only that some of it is        *)
(* missing.                                                                *)
(***************************************************************************)
EXTENDS Naturals

CONSTANTS
  MaxReleases,   \* bound: releases published while it is looked at
  MaxChecks,     \* bound: checks for an update
  MaxDownloads   \* bound: downloads

ASSUME UpdatesAssumption == {MaxReleases, MaxChecks, MaxDownloads} \subseteq Nat

VARIABLES
  linux,      \* target_platform: on the others the installer is opened as it is
  latest,     \* the release of the manifest
  installed,  \* the release that is installed
  current,    \* the one that runs
  dialog,     \* the update dialog
  check,      \* the threads of updater.check
  download,   \* those of updater.download and updater.install
  packages,   \* finished packages in the cache
  parts,      \* and their .part files
  bytes,      \* what was written of a file
  doubled,    \* ghost: two downloads at once
  opened      \* ghost: what installers were given

packageVars == <<packages, parts, bytes>>
updateVars == <<linux, latest, installed, current, dialog, check, download,
                packageVars, doubled, opened>>

Releases == 1..MaxReleases
Checks == 1..MaxChecks
Downloads == 1..MaxDownloads
NoRelease == 0
NoPackage == 0

\* pending: _pending_update; active: _update_operation_active
DialogClosed == [open |-> FALSE, pending |-> NoRelease, active |-> FALSE]
NoCheck == [at |-> "unused", found |-> NoRelease]
NoDownload == [at |-> "unused", release |-> NoRelease]

UpdatesInit ==
  /\ linux \in BOOLEAN /\ latest = 0 /\ installed = 0 /\ current = 0
  /\ dialog = DialogClosed
  /\ check = [c \in Checks |-> NoCheck]
  /\ download = [d \in Downloads |-> NoDownload]
  /\ packages = [r \in Releases |-> NoPackage] /\ parts = packages
  /\ bytes = [d \in Downloads |-> "none"]
  /\ doubled = FALSE /\ opened = {}

\* The repository's owner
Publish ==
  /\ latest < MaxReleases /\ latest' = latest + 1
  /\ UNCHANGED <<linux, installed, current, dialog, check, download, packageVars,
                 doubled, opened>>

-----------------------------------------------------------------------------
(* The dialog *)

\* A dialog that is open is only shown again.
OpenDialog(c) ==
  /\ ~dialog.open /\ check[c] = NoCheck
  /\ dialog' = [DialogClosed EXCEPT !.open = TRUE]
  /\ check' = [check EXCEPT ![c].at = "asks"]
  /\ UNCHANGED <<linux, latest, installed, current, download, packageVars, doubled,
                 opened>>

\* Only a release newer than the running one is an answer; so is none, or an error.
CheckAnswers(c) ==
  /\ check[c].at = "asks"
  /\ \E answer \in {NoRelease, IF latest > current THEN latest ELSE NoRelease} :
       check' = [check EXCEPT ![c] = [at |-> "answered", found |-> answer]]
  /\ UNCHANGED <<linux, latest, installed, current, dialog, download, packageVars,
                 doubled, opened>>

\* _update_checked, for whichever dialog is open by now
UpdateChecked(c) ==
  /\ check[c].at = "answered" /\ check' = [check EXCEPT ![c].at = "done"]
  /\ dialog' = IF check[c].found = NoRelease THEN dialog
               ELSE [dialog EXCEPT !.pending = check[c].found]
  /\ UNCHANGED <<linux, latest, installed, current, download, packageVars, doubled,
                 opened>>

Working(d) == download[d].at \notin {"unused", "done"}

PressInstall(d) ==
  /\ dialog.open /\ dialog.pending # NoRelease /\ download[d] = NoDownload
  /\ download' = [download EXCEPT ![d] = [at |-> "look", release |-> dialog.pending]]
  /\ dialog' = [dialog EXCEPT !.pending = NoRelease, !.active = TRUE]
  /\ doubled' = (doubled \/ \E e \in Downloads : Working(e))
  /\ UNCHANGED <<linux, latest, installed, current, check, packageVars, opened>>

\* (Mutant) The title bar's button closes the dialog at any time.
CloseDialogAnyTime ==
  /\ dialog.open /\ dialog' = DialogClosed
  /\ UNCHANGED <<linux, latest, installed, current, check, download, packageVars,
                 doubled, opened>>

CloseDialog ==
  /\ dialog.open /\ ~dialog.active /\ dialog' = DialogClosed
  /\ UNCHANGED <<linux, latest, installed, current, check, download, packageVars,
                 doubled, opened>>

-----------------------------------------------------------------------------
(* updater.download *)

ReleaseOf(d) == download[d].release
Advances(d, from, to) ==
  download[d].at = from /\ download' = [download EXCEPT ![d].at = to]
OnlyFiles ==
  UNCHANGED <<linux, latest, installed, current, dialog, check, doubled, opened>>

\* (Mutant) A package of that name will do.
IsThere(file) == file # NoPackage
IsWhole(file) == file # NoPackage /\ bytes[file] = "whole"
Trusted(file) == IsWhole(file)

\* A package whose digest is right is taken as it is; otherwise both files go.
LookInCache(d) ==
  LET r == ReleaseOf(d) IN
  /\ download[d].at = "look"
  /\ IF Trusted(packages[r])
     THEN Advances(d, "look", "ready") /\ UNCHANGED <<packages, parts>>
     ELSE /\ Advances(d, "look", "wait")
          /\ packages' = [packages EXCEPT ![r] = NoPackage]
          /\ parts' = [parts EXCEPT ![r] = NoPackage]
  /\ UNCHANGED bytes /\ OnlyFiles

\* One download at a time; the .part file must be a new one.
OpenPart(d) ==
  /\ Advances(d, "wait", "receive") /\ \A e \in Downloads : download[e].at # "receive"
  /\ parts[ReleaseOf(d)] = NoPackage
  /\ parts' = [parts EXCEPT ![ReleaseOf(d)] = d]
  /\ bytes' = [bytes EXCEPT ![d] = "some"]
  /\ UNCHANGED packages /\ OnlyFiles

ReceiveAll(d) ==
  /\ Advances(d, "receive", "place") /\ bytes' = [bytes EXCEPT ![d] = "whole"]
  /\ UNCHANGED <<packages, parts>> /\ OnlyFiles

\* The digest is that of what was received, not of what .part names by now.
PlacePackage(d) ==
  LET r == ReleaseOf(d) IN
  /\ Advances(d, "place", "ready") /\ parts[r] # NoPackage
  /\ packages' = [packages EXCEPT ![r] = parts[r]]
  /\ parts' = [parts EXCEPT ![r] = NoPackage]
  /\ UNCHANGED bytes /\ OnlyFiles

\* No connection, a .part in the way, too large, another digest, or .part is gone.
DownloadFails(d) ==
  /\ \E at \in {"wait", "receive", "place"} : Advances(d, at, "failed")
  /\ parts' = [parts EXCEPT ![ReleaseOf(d)] = NoPackage]
  /\ UNCHANGED <<packages, bytes>> /\ OnlyFiles

\* _update_downloaded, _update_installed
UpdateDownloaded(d) ==
  /\ Advances(d, "ready", IF dialog.open THEN "install" ELSE "done")
  /\ dialog' = IF dialog.open THEN dialog ELSE [dialog EXCEPT !.active = FALSE]
  /\ UNCHANGED <<linux, latest, installed, current, check, packageVars, doubled,
                 opened>>

UpdateEnds(d) ==
  /\ \E at \in {"failed", "installed"} : Advances(d, at, "done")
  /\ dialog' = [dialog EXCEPT !.active = FALSE]
  /\ UNCHANGED <<linux, latest, installed, current, check, packageVars, doubled,
                 opened>>

-----------------------------------------------------------------------------
(* updater.install and the helper *)

\* Windows and macOS: the user goes on with the platform's installer.
OpenInstaller(d) ==
  /\ ~linux /\ Advances(d, "install", "installed") /\ packages[ReleaseOf(d)] # NoPackage
  /\ opened' = opened \union {bytes[packages[ReleaseOf(d)]]}
  /\ installed' \in {installed, ReleaseOf(d)}
  /\ UNCHANGED <<linux, latest, current, dialog, check, packageVars, doubled>>

\* stage_verified_package: the manifest is read again and the copy's digest is
\* compared with it.
Staged(d) == ReleaseOf(d) = latest /\ IsWhole(packages[ReleaseOf(d)])

Stage(d) ==
  /\ linux /\ Advances(d, "install", "apt") /\ Staged(d)
  /\ opened' = opened \union {bytes[packages[ReleaseOf(d)]]}
  /\ UNCHANGED <<linux, latest, installed, current, dialog, check, packageVars, doubled>>

AptInstalls(d) ==
  /\ Advances(d, "apt", "installed") /\ installed' = ReleaseOf(d)
  /\ UNCHANGED <<linux, latest, current, dialog, check, packageVars, doubled, opened>>

\* No package, not authorized, refused by the helper, or apt fails.
InstallFails(d) ==
  /\ \E at \in {"install", "apt"} : Advances(d, at, "failed")
  /\ UNCHANGED <<linux, latest, installed, current, dialog, check, packageVars, doubled,
                 opened>>

\* The program is started anew, apt goes on without it; after a loss of power a
\* package need not be what was written, for nothing waits until it is on the
\* disk.
UpdatesRestart ==
  /\ installed' \in {installed} \union {ReleaseOf(d) : d \in {e \in Downloads :
                                                       download[e].at = "apt"}}
  /\ current' = installed' /\ dialog' = DialogClosed
  /\ check' = [c \in Checks |-> IF check[c] = NoCheck THEN NoCheck
                                ELSE [check[c] EXCEPT !.at = "done"]]
  /\ download' = [d \in Downloads |-> IF Working(d) THEN [download[d] EXCEPT !.at = "done"]
                                      ELSE download[d]]
  /\ bytes' \in {bytes, [d \in Downloads |-> IF bytes[d] = "whole" THEN "some"
                                              ELSE bytes[d]]}
  /\ UNCHANGED <<linux, latest, packages, parts, doubled, opened>>

UpdatesNext ==
  \/ Publish \/ CloseDialog \/ UpdatesRestart
  \/ \E c \in Checks : OpenDialog(c) \/ CheckAnswers(c) \/ UpdateChecked(c)
  \/ \E d \in Downloads :
       \/ PressInstall(d) \/ LookInCache(d) \/ OpenPart(d) \/ ReceiveAll(d)
       \/ PlacePackage(d) \/ DownloadFails(d) \/ UpdateDownloaded(d) \/ UpdateEnds(d)
       \/ OpenInstaller(d) \/ Stage(d) \/ AptInstalls(d) \/ InstallFails(d)

UpdatesSpec == UpdatesInit /\ [][UpdatesNext]_updateVars

-----------------------------------------------------------------------------
UpdatesTypeOK ==
  /\ linux \in BOOLEAN /\ doubled \in BOOLEAN
  /\ latest \in 0..MaxReleases /\ installed \in 0..MaxReleases
  /\ current \in 0..MaxReleases
  /\ dialog \in [open : BOOLEAN, pending : 0..MaxReleases, active : BOOLEAN]
  /\ check \in [Checks -> [at : {"unused", "asks", "answered", "done"},
                          found : 0..MaxReleases]]
  /\ download \in [Downloads ->
       [at : {"unused", "look", "wait", "receive", "place", "ready", "failed",
              "install", "apt", "installed", "done"}, release : 0..MaxReleases]]
  /\ packages \in [Releases -> 0..MaxDownloads] /\ parts \in [Releases -> 0..MaxDownloads]
  /\ bytes \in [Downloads -> {"none", "some", "whole"}]
  /\ opened \subseteq {"none", "some", "whole"}

\* An installer is given only what the manifest has signed, whole: on Linux always,
\* elsewhere as long as no second download was started beside the first, which
\* a late answer to an earlier check makes possible.  And unless that happened
\* the dialog is there until the work behind it has ended.
UpdatesAreVerified ==
  /\ linux \/ ~doubled => opened \subseteq {"whole"}
  /\ ~doubled => \A d \in Downloads : Working(d) => dialog.open /\ dialog.active
=============================================================================
