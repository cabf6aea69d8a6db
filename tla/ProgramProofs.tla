---------------------------- MODULE ProgramProofs ----------------------------
(***************************************************************************)
(* What the program is, whom it is signed in as, and the mappings that it  *)
(* does not leave to rclone.  For any number of                            *)
(* releases, checks, downloads and threads: no installer is given a        *)
(* package that is not the whole of what was signed, and no thread a copy  *)
(* of rclone that is not whole, as long as nothing is done by two at once. *)
(* For any number of wizards, dialogs, accounts, threads and restarts: one *)
(* authorization runs at a time, which somebody can still cancel; what is  *)
(* listed was authorized; and rclone can decrypt its configuration.  For   *)
(* any files and edits: no version is lost to Proton's client or to git.   *)
(* For any devices, editors and texts: a document can be read wherever it  *)
(* is opened, and its characters stand in one order.                       *)
(***************************************************************************)
EXTENDS Collaboration, Updates, RcloneInstall, Accounts, ProtonLogin, ConfigSecurity,
        ProtonSync, GitSync, SequenceTheorems, FiniteSetTheorems, WellFoundedInduction, TLAPS

-----------------------------------------------------------------------------
(* The copy of rclone *)

\* Whoever is alone has the .new file to himself, and has filled it before it is moved.
AloneAtIt ==
  /\ \A t, u \in Installers :
       installing[t] \in {"write", "move"} /\ installing[u] \in {"write", "move"} => t = u
  /\ \A t \in Installers :
       /\ installing[t] = "write" => output[t] = newFile /\ writer[newFile] = t
       /\ installing[t] = "move" => newFile \in complete
  /\ handed = {}

\* Whoever writes has opened a file.
HasOpened == \A t \in Installers : installing[t] = "write" => output[t] \in RcloneFiles

RcloneInv == RcloneTypeOK /\ HasOpened /\ (~shared => AloneAtIt)

LEMMA RcloneInvInit == RcloneInit => RcloneInv
BY DEF RcloneInit, RcloneInv, RcloneTypeOK, HasOpened, AloneAtIt

LEMMA RcloneInvNext == RcloneInv /\ [RcloneNext]_runtimeVars => RcloneInv'
<1> SUFFICES ASSUME RcloneInv, [RcloneNext]_runtimeVars PROVE RcloneInv'
  OBVIOUS
<1> USE DEF RcloneInv, RcloneTypeOK, HasOpened, AloneAtIt, Moves
<1>1. ASSUME NEW t \in Installers, Resolve(t) PROVE RcloneInv'
  BY <1>1 DEF Resolve, Compatible
<1>2. ASSUME NEW t \in Installers, OpenNew(t) PROVE RcloneInv'
  <2>1. PICK f \in RcloneFiles :
          /\ newFile' = f /\ output' = [output EXCEPT ![t] = f]
          /\ writer' = [writer EXCEPT ![f] = t] /\ complete' = complete \ {f}
    BY <1>2 DEF OpenNew
  <2>2. RcloneTypeOK'
    <3>1. installing' \in [Installers -> {"no", "extract", "write", "move"}]
      BY <1>2 DEF OpenNew
    <3>2. /\ output' \in [Installers -> RcloneFiles \union {NoRclone}]
          /\ writer' \in [RcloneFiles -> Installers \union {Nobody}]
      BY <1>2, <2>1
    <3>3. UNCHANGED <<executable, handed>> /\ shared' \in BOOLEAN
      BY <1>2 DEF OpenNew
    <3> QED
      BY <2>1, <3>1, <3>2, <3>3
  <2>4. HasOpened'
    BY <1>2, <2>1 DEF OpenNew
  <2>3. ASSUME ~shared' PROVE AloneAtIt'
    <3>1. ~shared /\ \A u \in Installers \ {t} : installing[u] \notin {"write", "move"}
      BY <1>2, <2>3 DEF OpenNew
    <3>2. \A u \in Installers \ {t} : installing'[u] = installing[u]
      BY <1>2 DEF OpenNew
    <3>3. installing'[t] = "write" /\ output'[t] = f /\ writer'[f] = t
      BY <1>2, <2>1 DEF OpenNew
    <3> QED
      BY <1>2, <2>1, <3>1, <3>2, <3>3 DEF OpenNew
  <2> QED
    BY <2>2, <2>3, <2>4
<1>3. ASSUME NEW t \in Installers, WriteNew(t) PROVE RcloneInv'
  <2>1. RcloneTypeOK' /\ HasOpened'
    BY <1>3 DEF WriteNew
  <2>2. ASSUME ~shared' PROVE AloneAtIt'
    <3>1. ~shared /\ complete' = complete \union {newFile}
      BY <1>3, <2>2 DEF WriteNew
    <3>2. /\ \A u \in Installers \ {t} : installing'[u] = installing[u]
          /\ installing[t] = "write" /\ installing'[t] = "move"
      BY <1>3 DEF WriteNew
    <3> QED
      BY <1>3, <3>1, <3>2 DEF WriteNew
  <2> QED
    BY <2>1, <2>2
<1>4. ASSUME NEW t \in Installers, MoveNew(t) PROVE RcloneInv'
  <2>1. RcloneTypeOK' /\ HasOpened'
    BY <1>4 DEF MoveNew
  <2>2. ASSUME ~shared' PROVE AloneAtIt'
    <3>1. ~shared /\ installing[t] = "move" /\ handed' = {}
      BY <1>4, <2>2 DEF MoveNew
    <3>2. \A u \in Installers : installing'[u] \notin {"write", "move"}
      BY <1>4, <3>1 DEF MoveNew
    <3> QED
      BY <3>1, <3>2
  <2> QED
    BY <2>1, <2>2
<1>5. ASSUME NEW t \in Installers, RcloneFails(t) PROVE RcloneInv'
  BY <1>5 DEF RcloneFails
<1>6. CASE PowerFails
  BY <1>6 DEF PowerFails
<1>7. CASE UNCHANGED runtimeVars
  BY <1>7 DEF runtimeVars
<1> QED
  BY <1>1, <1>2, <1>3, <1>4, <1>5, <1>6, <1>7 DEF RcloneNext

\* resolve_rclone and install_rclone (bootstrap.py) hand nobody half a copy, whatever
\* was cut off before, until two threads install at once.
THEOREM RcloneStaysWhole == RcloneSpec => []RcloneIsWhole
<1>1. RcloneInv => RcloneIsWhole
  BY DEF RcloneInv, AloneAtIt, RcloneIsWhole
<1> QED
  BY <1>1, RcloneInvInit, RcloneInvNext, PTL DEF RcloneSpec

-----------------------------------------------------------------------------
(* The updates *)

\* What is known of a download that is alone: the dialog waits for it, and the file it
\* writes or has found is its release's.
FilesFit(d) ==
  LET r == ReleaseOf(d) IN
  /\ download[d].at \in {"receive", "place"} => parts[r] = d
  /\ download[d].at = "place" => bytes[d] = "whole"
  /\ download[d].at \in {"ready", "install"} => IsWhole(packages[r])

\* What is worked on is a release.
Chosen == \A d \in Downloads : Working(d) => ReleaseOf(d) \in Releases

OneDownload ==
  /\ \A d \in Downloads : Working(d) => dialog.open /\ dialog.active
  /\ \A d, e \in Downloads : Working(d) /\ Working(e) => d = e
  /\ \A d \in Downloads : FilesFit(d)

Stages == {"unused", "look", "wait", "receive", "place", "ready", "failed", "install", "apt",
           "installed", "done"}

OnlyWhole == linux \/ ~doubled => opened \subseteq {"whole"}

UpdatesInv == UpdatesTypeOK /\ Chosen /\ (~doubled => OneDownload) /\ OnlyWhole

LEMMA UpdatesInvInit == UpdatesInit => UpdatesInv
<1> SUFFICES ASSUME UpdatesInit PROVE UpdatesInv
  OBVIOUS
<1>1. UpdatesTypeOK
  <2>1. 0 \in 0..MaxReleases /\ 0 \in 0..MaxDownloads
    BY UpdatesAssumption
  <2>2. /\ dialog \in [open : BOOLEAN, pending : 0..MaxReleases, active : BOOLEAN]
        /\ check \in [Checks -> [at : {"unused", "asks", "answered", "done"},
                                found : 0..MaxReleases]]
    BY <2>1 DEF UpdatesInit, DialogClosed, NoCheck, NoRelease
  <2>3. download \in [Downloads -> [at : Stages, release : 0..MaxReleases]]
    BY <2>1 DEF UpdatesInit, NoDownload, NoRelease, Stages
  <2>4. /\ packages \in [Releases -> 0..MaxDownloads] /\ parts = packages
        /\ bytes \in [Downloads -> {"none", "some", "whole"}]
    BY <2>1 DEF UpdatesInit, NoPackage
  <2> QED
    BY <2>1, <2>2, <2>3, <2>4 DEF UpdatesInit, UpdatesTypeOK, Stages
<1>2. \A d \in Downloads : download[d].at = "unused"
  BY DEF UpdatesInit, NoDownload
<1>3. Chosen /\ OneDownload /\ OnlyWhole
  BY <1>2 DEF Chosen, OneDownload, FilesFit, OnlyWhole, Working, UpdatesInit
<1> QED
  BY <1>1, <1>3 DEF UpdatesInv

\* Whoever goes on from one stage to another leaves the other downloads as they are.
LEMMA GoesOn ==
  ASSUME UpdatesTypeOK, NEW d \in Downloads, NEW from \in Stages, NEW to \in Stages,
         Advances(d, from, to)
  PROVE  /\ download' \in [Downloads -> [at : Stages, release : 0..MaxReleases]]
         /\ \A e \in Downloads : ReleaseOf(e)' = ReleaseOf(e)
         /\ \A e \in Downloads \ {d} : download'[e] = download[e]
         /\ download[d].at = from /\ download'[d].at = to
BY DEF UpdatesTypeOK, Advances, ReleaseOf, Stages

\* So a download that is alone stays alone, and only its own files matter.
LEMMA StaysAlone ==
  ASSUME UpdatesTypeOK, Chosen, ~doubled => OneDownload, NEW d \in Downloads,
         NEW from \in Stages \ {"unused", "done"}, NEW to \in Stages, Advances(d, from, to),
         UNCHANGED doubled,
         ~doubled /\ ReleaseOf(d) \in Releases /\ FilesFit(d) /\ dialog.open /\ dialog.active
           => /\ to # "done" => dialog'.open /\ dialog'.active
              /\ FilesFit(d)'
  PROVE  ~doubled' => OneDownload'
<1> SUFFICES ASSUME ~doubled PROVE OneDownload'
  OBVIOUS
<1>1. /\ \A e \in Downloads : ReleaseOf(e)' = ReleaseOf(e)
      /\ \A e \in Downloads \ {d} : download'[e] = download[e]
      /\ download[d].at = from /\ download'[d].at = to
  BY GoesOn
<1>2. Working(d) /\ \A e \in Downloads \ {d} : ~Working(e)
  BY <1>1 DEF Working, OneDownload
<1>3. /\ to # "done" => dialog'.open /\ dialog'.active
      /\ FilesFit(d)'
  BY <1>2 DEF OneDownload, FilesFit, Chosen
<1>4. \A e \in Downloads \ {d} : download'[e].at \in {"unused", "done"}
  BY <1>1, <1>2 DEF Working
<1>5. \A e \in Downloads \ {d} : ~Working(e)' /\ FilesFit(e)'
  BY <1>4 DEF FilesFit, Working
<1> QED
  BY <1>1, <1>3, <1>5 DEF OneDownload, Working

LEMMA UpdatesTypes == UpdatesTypeOK /\ Chosen /\ [UpdatesNext]_updateVars => UpdatesTypeOK'
<1> SUFFICES ASSUME UpdatesTypeOK, Chosen, [UpdatesNext]_updateVars PROVE UpdatesTypeOK'
  OBVIOUS
<1> USE DEF UpdatesTypeOK
<1>0. /\ 0 \in 0..MaxReleases /\ 0 \in 0..MaxDownloads
      /\ Downloads \subseteq 0..MaxDownloads
  BY UpdatesAssumption DEF Downloads
<1>1. CASE Publish
  BY <1>1, UpdatesAssumption DEF Publish, packageVars
<1>2. CASE CloseDialog
  BY <1>0, <1>2 DEF CloseDialog, packageVars, DialogClosed, NoRelease
<1>3. CASE UpdatesRestart
  <2>1. installed' \in 0..MaxReleases
    BY <1>3 DEF UpdatesRestart, ReleaseOf
  <2>2. dialog' \in [open : BOOLEAN, pending : 0..MaxReleases, active : BOOLEAN]
    BY <1>0, <1>3 DEF UpdatesRestart, DialogClosed, NoRelease
  <2>3. check' \in [Checks -> [at : {"unused", "asks", "answered", "done"},
                                found : 0..MaxReleases]]
    BY <1>0, <1>3 DEF UpdatesRestart, NoCheck, NoRelease
  <2>4. download' \in [Downloads -> [at : Stages, release : 0..MaxReleases]]
    BY <1>3 DEF UpdatesRestart, Stages
  <2>5. bytes' \in [Downloads -> {"none", "some", "whole"}]
    BY <1>3 DEF UpdatesRestart
  <2>6. UNCHANGED <<linux, latest, packages, parts, doubled, opened>> /\ current' = installed'
    BY <1>3 DEF UpdatesRestart
  <2> QED
    BY <2>1, <2>2, <2>3, <2>4, <2>5, <2>6 DEF Stages
<1>4. ASSUME NEW c \in Checks, OpenDialog(c) \/ CheckAnswers(c) \/ UpdateChecked(c)
      PROVE UpdatesTypeOK'
  <2>1. CASE OpenDialog(c)
    <3>1. dialog' \in [open : BOOLEAN, pending : 0..MaxReleases, active : BOOLEAN]
      BY <1>0, <2>1 DEF OpenDialog, DialogClosed, NoRelease
    <3>2. check' \in [Checks -> [at : {"unused", "asks", "answered", "done"},
                                  found : 0..MaxReleases]]
      BY <2>1 DEF OpenDialog
    <3> QED
      BY <2>1, <3>1, <3>2 DEF OpenDialog, packageVars
  <2>2. CASE CheckAnswers(c)
    BY <1>0, <2>2 DEF CheckAnswers, packageVars, NoRelease
  <2>3. CASE UpdateChecked(c)
    BY <2>3 DEF UpdateChecked, packageVars
  <2> QED
    BY <1>4, <2>1, <2>2, <2>3
<1>5. ASSUME NEW d \in Downloads, PressInstall(d) PROVE UpdatesTypeOK'
  BY <1>0, <1>5 DEF PressInstall, packageVars, NoRelease
<1>6. ASSUME NEW d \in Downloads, NEW from \in Stages, NEW to \in Stages, Advances(d, from, to)
      PROVE download' \in [Downloads -> [at : Stages, release : 0..MaxReleases]]
  BY <1>6, GoesOn
<1>7. ASSUME NEW d \in Downloads, LookInCache(d) \/ OpenPart(d) \/ ReceiveAll(d) \/ PlacePackage(d)
                                  \/ DownloadFails(d)
      PROVE UpdatesTypeOK'
  <2>1. download' \in [Downloads -> [at : Stages, release : 0..MaxReleases]]
    BY <1>6, <1>7 DEF LookInCache, OpenPart, ReceiveAll, PlacePackage, DownloadFails, Stages
  <2>2. /\ packages' \in [Releases -> 0..MaxDownloads] /\ parts' \in [Releases -> 0..MaxDownloads]
        /\ bytes' \in [Downloads -> {"none", "some", "whole"}]
    BY <1>0, <1>7 DEF LookInCache, OpenPart, ReceiveAll, PlacePackage, DownloadFails, NoPackage
  <2> QED
    BY <1>7, <2>1, <2>2 DEF LookInCache, OpenPart, ReceiveAll, PlacePackage, DownloadFails,
       OnlyFiles, Stages
<1>8. ASSUME NEW d \in Downloads, UpdateDownloaded(d) \/ UpdateEnds(d) \/ OpenInstaller(d) \/ Stage(d)
                                  \/ AptInstalls(d) \/ InstallFails(d)
      PROVE UpdatesTypeOK'
  <2>1. download' \in [Downloads -> [at : Stages, release : 0..MaxReleases]]
    BY <1>6, <1>8 DEF UpdateDownloaded, UpdateEnds, OpenInstaller, Stage, AptInstalls,
       InstallFails, Stages
  <2>2. dialog' \in [open : BOOLEAN, pending : 0..MaxReleases, active : BOOLEAN]
    BY <1>8 DEF UpdateDownloaded, UpdateEnds, OpenInstaller, Stage, AptInstalls, InstallFails
  <2>3. installed' \in 0..MaxReleases
    BY <1>8 DEF UpdateDownloaded, UpdateEnds, OpenInstaller, Stage, AptInstalls, InstallFails,
       ReleaseOf
  <2>4. opened' \subseteq {"none", "some", "whole"}
    <3>1. CASE OpenInstaller(d) \/ Stage(d)
      <4>1. ReleaseOf(d) \in Releases
        BY <3>1 DEF OpenInstaller, Stage, Advances, Working, Chosen
      <4>2. packages[ReleaseOf(d)] \in Downloads
        <5>1. packages[ReleaseOf(d)] \in 0..MaxDownloads /\ packages[ReleaseOf(d)] # 0
          BY <3>1, <4>1 DEF OpenInstaller, Stage, Staged, IsWhole, NoPackage
        <5> QED
          BY <5>1, UpdatesAssumption DEF Downloads
      <4>3. bytes[packages[ReleaseOf(d)]] \in {"none", "some", "whole"}
        BY <4>2
      <4>4. opened' = opened \union {bytes[packages[ReleaseOf(d)]]}
        BY <3>1 DEF OpenInstaller, Stage
      <4> QED
        BY <4>3, <4>4
    <3> QED
      BY <1>8, <3>1 DEF UpdateDownloaded, UpdateEnds, AptInstalls, InstallFails
  <2> QED
    BY <1>8, <2>1, <2>2, <2>3, <2>4 DEF UpdateDownloaded, UpdateEnds, OpenInstaller, Stage,
       AptInstalls, InstallFails, packageVars, Stages
<1>9. CASE UNCHANGED updateVars
  BY <1>9 DEF updateVars, packageVars
<1> QED
  BY <1>1, <1>2, <1>3, <1>4, <1>5, <1>7, <1>8, <1>9 DEF UpdatesNext

LEMMA ChosenStays == UpdatesTypeOK /\ Chosen /\ [UpdatesNext]_updateVars => Chosen'
<1> SUFFICES ASSUME UpdatesTypeOK, Chosen, [UpdatesNext]_updateVars,
                    NEW e \in Downloads, Working(e)'
             PROVE  ReleaseOf(e)' \in Releases
  BY DEF Chosen
<1> USE DEF Chosen
<1>1. CASE Publish \/ CloseDialog \/ UNCHANGED updateVars
  BY <1>1 DEF Publish, CloseDialog, updateVars, Working, ReleaseOf
<1>2. CASE UpdatesRestart
  BY <1>2 DEF UpdatesRestart, Working, ReleaseOf, UpdatesTypeOK
<1>3. ASSUME NEW c \in Checks, OpenDialog(c) \/ CheckAnswers(c) \/ UpdateChecked(c)
      PROVE ReleaseOf(e)' \in Releases
  BY <1>3 DEF OpenDialog, CheckAnswers, UpdateChecked, Working, ReleaseOf
<1>4. ASSUME NEW d \in Downloads, PressInstall(d) PROVE ReleaseOf(e)' \in Releases
  <2>1. dialog.pending \in Releases
    BY <1>4, UpdatesAssumption DEF PressInstall, UpdatesTypeOK, Releases, NoRelease
  <2> QED
    BY <1>4, <2>1 DEF PressInstall, Working, ReleaseOf, UpdatesTypeOK
<1>5. ASSUME NEW d \in Downloads, NEW from \in Stages \ {"unused", "done"}, NEW to \in Stages,
             Advances(d, from, to)
      PROVE ReleaseOf(e)' \in Releases
  BY <1>5, GoesOn DEF Working
<1>6. ASSUME NEW d \in Downloads, LookInCache(d) \/ OpenPart(d) \/ ReceiveAll(d) \/ PlacePackage(d)
                                  \/ DownloadFails(d)
      PROVE ReleaseOf(e)' \in Releases
  BY <1>5, <1>6 DEF LookInCache, OpenPart, ReceiveAll, PlacePackage, DownloadFails, Stages
<1>7. ASSUME NEW d \in Downloads, UpdateDownloaded(d) \/ UpdateEnds(d) \/ OpenInstaller(d) \/ Stage(d)
                                  \/ AptInstalls(d) \/ InstallFails(d)
      PROVE ReleaseOf(e)' \in Releases
  BY <1>5, <1>7 DEF UpdateDownloaded, UpdateEnds, OpenInstaller, Stage, AptInstalls,
     InstallFails, Stages
<1> QED
  BY <1>1, <1>2, <1>3, <1>4, <1>6, <1>7 DEF UpdatesNext

LEMMA OneStays == UpdatesInv /\ [UpdatesNext]_updateVars => (~doubled' => OneDownload')
<1> SUFFICES ASSUME UpdatesInv, [UpdatesNext]_updateVars PROVE ~doubled' => OneDownload'
  OBVIOUS
<1>0. UpdatesTypeOK /\ Chosen /\ (~doubled => OneDownload)
  BY DEF UpdatesInv
<1>1. CASE Publish \/ UNCHANGED updateVars
  BY <1>0, <1>1 DEF Publish, updateVars, packageVars, OneDownload, FilesFit, Working, ReleaseOf, IsWhole
<1>2. CASE CloseDialog
  BY <1>0, <1>2 DEF CloseDialog, packageVars, OneDownload, FilesFit, Working, ReleaseOf, IsWhole
<1>3. CASE UpdatesRestart
  <2>1. \A d \in Downloads : download'[d].at \in {"unused", "done"}
    BY <1>0, <1>3 DEF UpdatesRestart, Working, UpdatesTypeOK
  <2> QED
    BY <2>1 DEF OneDownload, FilesFit, Working
<1>4. ASSUME NEW c \in Checks, OpenDialog(c) \/ CheckAnswers(c) \/ UpdateChecked(c)
      PROVE ~doubled' => OneDownload'
  <2>1. UNCHANGED <<download, packages, parts, bytes, doubled>>
    BY <1>4 DEF OpenDialog, CheckAnswers, UpdateChecked, packageVars
  <2>2. dialog'.open = (dialog.open \/ OpenDialog(c)) /\ (dialog.open => dialog'.active = dialog.active)
    BY <1>0, <1>4 DEF OpenDialog, CheckAnswers, UpdateChecked, UpdatesTypeOK, DialogClosed
  <2> QED
    BY <1>0, <2>1, <2>2 DEF OneDownload, FilesFit, Working, ReleaseOf, IsWhole
<1>5. ASSUME NEW d \in Downloads, PressInstall(d), ~doubled' PROVE OneDownload'
  <2>1. /\ \A e \in Downloads : ~Working(e)
        /\ dialog'.open /\ dialog'.active
    BY <1>0, <1>5 DEF PressInstall, UpdatesTypeOK
  <2>2. /\ download'[d].at = "look"
        /\ \A e \in Downloads \ {d} : download'[e].at \in {"unused", "done"}
    BY <1>0, <1>5, <2>1 DEF PressInstall, UpdatesTypeOK, Working
  <2> QED
    BY <2>1, <2>2 DEF OneDownload, FilesFit, Working
<1>6. ASSUME NEW d \in Downloads, LookInCache(d) PROVE ~doubled' => OneDownload'
  <2>1. /\ UNCHANGED <<dialog, doubled, bytes>>
        /\ \/ UNCHANGED packages /\ IsWhole(packages[ReleaseOf(d)]) /\ Advances(d, "look", "ready")
           \/ Advances(d, "look", "wait")
    BY <1>6 DEF LookInCache, OnlyFiles, Trusted
  <2>2. CASE UNCHANGED packages /\ IsWhole(packages[ReleaseOf(d)]) /\ Advances(d, "look", "ready")
    <3>1. FilesFit(d)'
      BY <1>0, <2>1, <2>2, GoesOn DEF Stages, FilesFit, IsWhole
    <3> QED
      BY <1>0, <2>1, <2>2, <3>1, StaysAlone DEF Stages
  <2>3. CASE Advances(d, "look", "wait")
    <3>1. FilesFit(d)'
      BY <1>0, <2>3, GoesOn DEF Stages, FilesFit
    <3> QED
      BY <1>0, <2>1, <2>3, <3>1, StaysAlone DEF Stages
  <2> QED
    BY <2>1, <2>2, <2>3
<1>7. ASSUME NEW d \in Downloads, OpenPart(d) PROVE ~doubled' => OneDownload'
  <2>1. ReleaseOf(d) \in Releases
    BY <1>0, <1>7 DEF OpenPart, Advances, Chosen, Working
  <2>2. FilesFit(d)'
    <3>1. Advances(d, "wait", "receive") /\ parts'[ReleaseOf(d)] = d
      BY <1>0, <1>7, <2>1 DEF OpenPart, UpdatesTypeOK
    <3> QED
      BY <1>0, <3>1, GoesOn DEF Stages, FilesFit
  <2> QED
    BY <1>0, <1>7, <2>2, StaysAlone DEF OpenPart, OnlyFiles, Stages
<1>8. ASSUME NEW d \in Downloads, ReceiveAll(d) PROVE ~doubled' => OneDownload'
  <2>1. bytes'[d] = "whole" /\ UNCHANGED <<parts, dialog, doubled>> /\ Advances(d, "receive", "place")
    BY <1>0, <1>8 DEF ReceiveAll, OnlyFiles, UpdatesTypeOK
  <2>2. ASSUME FilesFit(d) PROVE FilesFit(d)'
    BY <1>0, <2>1, <2>2, GoesOn DEF Stages, FilesFit
  <2> QED
    BY <1>0, <2>1, <2>2, StaysAlone DEF Stages
<1>9. ASSUME NEW d \in Downloads, PlacePackage(d) PROVE ~doubled' => OneDownload'
  <2>1. /\ Advances(d, "place", "ready") /\ UNCHANGED <<bytes, dialog, doubled>>
        /\ ReleaseOf(d) \in Releases => packages'[ReleaseOf(d)] = parts[ReleaseOf(d)]
        /\ packages' = [packages EXCEPT ![ReleaseOf(d)] = parts[ReleaseOf(d)]]
    BY <1>0, <1>9 DEF PlacePackage, OnlyFiles, UpdatesTypeOK
  <2>2. ASSUME FilesFit(d), ReleaseOf(d) \in Releases PROVE FilesFit(d)'
    <3>1. packages'[ReleaseOf(d)] = d /\ bytes'[d] = "whole"
      BY <1>0, <2>1, <2>2 DEF FilesFit, Advances
    <3>2. d # NoPackage
      BY UpdatesAssumption DEF NoPackage, Downloads
    <3> QED
      BY <1>0, <2>1, <3>1, <3>2, GoesOn, SMTT(30) DEF Stages, FilesFit, IsWhole
  <2> QED
    BY <1>0, <2>1, <2>2, StaysAlone DEF Stages
<1>10. ASSUME NEW d \in Downloads, DownloadFails(d) PROVE ~doubled' => OneDownload'
  <2>1. PICK at \in {"wait", "receive", "place"} : Advances(d, at, "failed")
    BY <1>10 DEF DownloadFails
  <2>2. FilesFit(d)'
    BY <1>0, <2>1, GoesOn DEF Stages, FilesFit
  <2> QED
    BY <1>0, <1>10, <2>1, <2>2, StaysAlone DEF DownloadFails, OnlyFiles, Stages
<1>11. ASSUME NEW d \in Downloads, UpdateDownloaded(d) PROVE ~doubled' => OneDownload'
  <2>1. /\ Advances(d, "ready", IF dialog.open THEN "install" ELSE "done")
        /\ dialog.open => UNCHANGED dialog
        /\ UNCHANGED <<packages, parts, bytes, doubled>>
    BY <1>11 DEF UpdateDownloaded, packageVars
  <2>2. ASSUME FilesFit(d) PROVE FilesFit(d)'
    BY <1>0, <2>1, <2>2, GoesOn DEF Stages, FilesFit, IsWhole
  <2> QED
    BY <1>0, <2>1, <2>2, StaysAlone DEF Stages
<1>12. ASSUME NEW d \in Downloads, UpdateEnds(d) PROVE ~doubled' => OneDownload'
  <2>1. PICK at \in {"failed", "installed"} : Advances(d, at, "done")
    BY <1>12 DEF UpdateEnds
  <2>2. FilesFit(d)'
    BY <1>0, <2>1, GoesOn DEF Stages, FilesFit
  <2> QED
    BY <1>0, <1>12, <2>1, <2>2, StaysAlone DEF UpdateEnds, Stages
<1>13. ASSUME NEW d \in Downloads, OpenInstaller(d) \/ Stage(d) \/ AptInstalls(d) \/ InstallFails(d)
       PROVE ~doubled' => OneDownload'
  <2>1. PICK from \in {"install", "apt"}, to \in {"apt", "installed", "failed"} : Advances(d, from, to)
    BY <1>13 DEF OpenInstaller, Stage, AptInstalls, InstallFails
  <2>2. UNCHANGED <<dialog, packages, parts, bytes, doubled>>
    BY <1>13 DEF OpenInstaller, Stage, AptInstalls, InstallFails, packageVars
  <2>3. FilesFit(d)'
    BY <1>0, <2>1, GoesOn DEF Stages, FilesFit
  <2> QED
    BY <1>0, <2>1, <2>2, <2>3, StaysAlone DEF Stages
<1> QED
  BY <1>1, <1>2, <1>3, <1>4, <1>5, <1>6, <1>7, <1>8, <1>9, <1>10, <1>11, <1>12, <1>13 DEF UpdatesNext

LEMMA OnlyWholeStays == UpdatesInv /\ [UpdatesNext]_updateVars => OnlyWhole'
<1> SUFFICES ASSUME UpdatesInv, [UpdatesNext]_updateVars, linux' \/ ~doubled'
             PROVE  opened' \subseteq {"whole"}
  BY DEF OnlyWhole
<1>0. UNCHANGED linux /\ (doubled => doubled')
  <2>1. CASE Publish \/ CloseDialog \/ UpdatesRestart \/ UNCHANGED updateVars
    BY <2>1 DEF Publish, CloseDialog, UpdatesRestart, updateVars
  <2>2. ASSUME NEW c \in Checks, OpenDialog(c) \/ CheckAnswers(c) \/ UpdateChecked(c)
        PROVE UNCHANGED linux /\ (doubled => doubled')
    BY <2>2 DEF OpenDialog, CheckAnswers, UpdateChecked
  <2>3. doubled \in BOOLEAN
    BY DEF UpdatesInv, UpdatesTypeOK
  <2>4. ASSUME NEW d \in Downloads, PressInstall(d)
        PROVE UNCHANGED linux /\ (doubled => doubled')
    BY <2>3, <2>4 DEF PressInstall
  <2>5. ASSUME NEW d \in Downloads,
               \/ LookInCache(d) \/ OpenPart(d) \/ ReceiveAll(d)
               \/ PlacePackage(d) \/ DownloadFails(d)
        PROVE UNCHANGED linux /\ (doubled => doubled')
    BY <2>5 DEF LookInCache, OpenPart, ReceiveAll, PlacePackage, DownloadFails,
       OnlyFiles
  <2>6. ASSUME NEW d \in Downloads,
               \/ UpdateDownloaded(d) \/ UpdateEnds(d)
               \/ OpenInstaller(d) \/ Stage(d) \/ AptInstalls(d) \/ InstallFails(d)
        PROVE UNCHANGED linux /\ (doubled => doubled')
    BY <2>6 DEF UpdateDownloaded, UpdateEnds, OpenInstaller, Stage, AptInstalls, InstallFails
  <2> QED
    BY <2>1, <2>2, <2>4, <2>5, <2>6 DEF UpdatesNext
<1>1. linux \/ ~doubled
  BY <1>0 DEF UpdatesInv, UpdatesTypeOK
<1>2. opened \subseteq {"whole"}
  BY <1>1 DEF UpdatesInv, OnlyWhole
<1>3. ASSUME NEW d \in Downloads, OpenInstaller(d) PROVE opened' \subseteq {"whole"}
  <2>1. ~doubled /\ download[d].at = "install"
    BY <1>1, <1>3 DEF OpenInstaller, Advances
  <2>2. IsWhole(packages[ReleaseOf(d)])
    BY <2>1 DEF UpdatesInv, OneDownload, FilesFit
  <2> QED
    BY <1>2, <1>3, <2>2 DEF OpenInstaller, IsWhole
<1>4. ASSUME NEW d \in Downloads, Stage(d) PROVE opened' \subseteq {"whole"}
  BY <1>2, <1>4 DEF Stage, Staged, IsWhole
<1>5. opened' = opened \/ \E d \in Downloads : OpenInstaller(d) \/ Stage(d)
  BY DEF UpdatesNext, Publish, CloseDialog, UpdatesRestart, OpenDialog, CheckAnswers, UpdateChecked,
     PressInstall, LookInCache, OpenPart, ReceiveAll, PlacePackage, DownloadFails, OnlyFiles,
     UpdateDownloaded, UpdateEnds, AptInstalls, InstallFails, updateVars
<1> QED
  BY <1>2, <1>3, <1>4, <1>5

LEMMA UpdatesInvNext == UpdatesInv /\ [UpdatesNext]_updateVars => UpdatesInv'
BY UpdatesTypes, ChosenStays, OneStays, OnlyWholeStays DEF UpdatesInv

\* No installer is given anything but the whole of what was signed: on Linux never, for
\* the helper compares what it stages; elsewhere unless two downloads were under way at
\* once.  Until then the dialog outlasts the work that was begun from it.
THEOREM UpdatesStayVerified == UpdatesSpec => []UpdatesAreVerified
<1>1. UpdatesInv => UpdatesAreVerified
  BY DEF UpdatesInv, OnlyWhole, OneDownload, UpdatesAreVerified
<1> QED
  BY <1>1, UpdatesInvInit, UpdatesInvNext, PTL DEF UpdatesSpec

-----------------------------------------------------------------------------
(* The encryption of rclone's configuration *)

\* What was encrypted is marked, except by who is about to; and who has looked, or runs
\* rclone, has named the helper, if there was a reason to.
SecurityInv ==
  /\ SecurityTypeOK
  /\ config = "ours" /\ ~unmarked /\ (\A c \in Callers : caller[c] # "marks") => marker
  /\ config = "ours" /\ ~unmarked /\ (\A c \in Callers : caller[c] # "marks")
     /\ (checkedOnce \/ \E c \in Callers : caller[c] = "runs") => passwordCommand

LEMMA SecurityInvInit == SecurityInit => SecurityInv
BY DEF SecurityInit, SecurityInv, SecurityTypeOK

LEMMA SecurityInvNext == SecurityInv /\ [SecurityNext]_securityVars => SecurityInv'
<1> SUFFICES ASSUME SecurityInv, [SecurityNext]_securityVars PROVE SecurityInv'
  OBVIOUS
<1> USE DEF SecurityInv, SecurityTypeOK, CallerGoes
<1>1. ASSUME NEW c \in Callers, CallRclone(c) PROVE SecurityInv'
  BY <1>1 DEF CallRclone
<1>2. ASSUME NEW c \in Callers, LookAtConfig(c) PROVE SecurityInv'
  BY <1>2 DEF LookAtConfig, UseHelper
<1>3. ASSUME NEW c \in Callers, EncryptConfig(c) PROVE SecurityInv'
  BY <1>3 DEF EncryptConfig
<1>4. ASSUME NEW c \in Callers, EncryptFails(c) PROVE SecurityInv'
  BY <1>4 DEF EncryptFails
<1>5. ASSUME NEW c \in Callers, MarkConfig(c) PROVE SecurityInv'
  BY <1>5 DEF MarkConfig, UseHelper
<1>6. ASSUME NEW c \in Callers, MarkFails(c) PROVE SecurityInv'
  BY <1>6 DEF MarkFails
<1>7. ASSUME NEW c \in Callers, RcloneEnds(c) PROVE SecurityInv'
  BY <1>7 DEF RcloneEnds
<1>8. CASE UserEncrypts
  BY <1>8 DEF UserEncrypts
<1>9. CASE SecurityRestart
  BY <1>9 DEF SecurityRestart
<1>10. CASE UNCHANGED securityVars
  BY <1>10 DEF securityVars
<1> QED
  BY <1>1, <1>2, <1>3, <1>4, <1>5, <1>6, <1>7, <1>8, <1>9, <1>10 DEF SecurityNext

\* A running rclone can decrypt the configuration that some thread of the program, or of a
\* run before it, encrypted and marked.  Nothing is said of two cases the code has: while
\* another thread has encrypted and not yet marked it, and from the moment on that it was
\* cut off between the two ("unmarked") (_ensure_config_security).
THEOREM RcloneDecrypts == SecuritySpec => []RcloneCanDecrypt
<1>1. SecurityInv => RcloneCanDecrypt
  BY DEF SecurityInv, RcloneCanDecrypt
<1> QED
  BY <1>1, SecurityInvInit, SecurityInvNext, PTL DEF SecuritySpec

-----------------------------------------------------------------------------
(* Signing in to Proton *)

\* A dialog shows nothing else while its thread works, and nothing once it was closed.
DialogsFit ==
  /\ \A p, q \in Dialogs : Shown(p) /\ Shown(q) => p = q
  /\ \A p \in Dialogs : login[p] # "idle" => authDialog[p].shows \in {"busy", "closed"}
  /\ \A p \in missed \union strays : authDialog[p].shows = "closed"
  /\ \A p \in strays : login[p] = "idle"

\* A login runs for the thread that waits for it, and for no other.
LoginsFit ==
  /\ recorded \notin strays
  /\ \A p \in running \ strays : recorded = p /\ login[p] = "waits"
  /\ \A p \in Dialogs : login[p] = "waits" => p \in running \ strays

\* Whoever has closed the dialog in time has the thread give up.
ClosedInTime ==
  \A p \in Dialogs \ missed :
    /\ login[p] \in {"begins", "passed", "waits"} => authDialog[p].shows = "busy"
    /\ login[p] = "installs" => authDialog[p].shows = "busy" \/ cancelled

\* The one who waits for the session to be looked at is the one who has signed in.
OwnSession ==
  missed = {} /\ strays = {} =>
    \A p \in Dialogs : Shown(p) /\ login[p] \in {"accepted", "checks", "signedIn"} => session = p

LoginInv == LoginTypeOK /\ DialogsFit /\ LoginsFit /\ ClosedInTime /\ OwnSession /\ ListedIsSignedIn

LEMMA LoginInvInit == LoginInit => LoginInv
<1> SUFFICES ASSUME LoginInit PROVE LoginInv
  OBVIOUS
<1>1. LoginTypeOK
  <2>1. 1 \in 1..MaxProtonRuns
    BY LoginAssumption
  <2>2. /\ authDialog \in [Dialogs -> [shows : {"unused", "open", "busy", "closed", "done"},
                                       existing : {"none", "legacy", "official"}]]
        /\ \A p \in Dialogs : login[p] = "idle"
    BY DEF LoginInit
  <2> QED
    BY <2>1, <2>2 DEF LoginInit, LoginTypeOK
<1>2. DialogsFit /\ LoginsFit /\ ClosedInTime /\ OwnSession /\ ListedIsSignedIn
  BY DEF LoginInit, DialogsFit, LoginsFit, ClosedInTime, OwnSession, ListedIsSignedIn, Shown
<1> QED
  BY <1>1, <1>2 DEF LoginInv

DialogStates == [shows : {"unused", "open", "busy", "closed", "done"},
                 existing : {"none", "legacy", "official"}]
LoginStates == {"idle", "begins", "installs", "passed", "waits", "accepted", "refused", "checks",
                "failed", "signedIn"}

LEMMA LoginTypes == LoginTypeOK /\ [LoginNext]_loginVars => LoginTypeOK'
<1> SUFFICES ASSUME LoginTypeOK, [LoginNext]_loginVars PROVE LoginTypeOK'
  OBVIOUS
<1>0. authDialog \in [Dialogs -> DialogStates] /\ login \in [Dialogs -> LoginStates]
  BY DEF LoginTypeOK, DialogStates, LoginStates
<1> USE DEF OnlyLogin, Shows, LoginGoes, LeavesRecord, NoDialog
<1>1. ASSUME NEW p \in Dialogs, NEW existing \in {"none", "legacy", "official"},
             OpenAuthDialog(p, existing)
      PROVE LoginTypeOK'
  BY <1>1 DEF OpenAuthDialog, LoginTypeOK
<1>2. ASSUME NEW p \in Dialogs, \/ ConnectProton(p) \/ BeginLogin(p) \/ InstallCli(p)
                               \/ InstallCliFails(p) \/ AskWhetherCancelled(p)
      PROVE LoginTypeOK'
  <2>1. authDialog' \in [Dialogs -> DialogStates] /\ login' \in [Dialogs -> LoginStates]
    BY <1>0, <1>2 DEF ConnectProton, BeginLogin, InstallCli, InstallCliFails, AskWhetherCancelled,
       DialogStates, LoginStates
  <2>2. cancelled' \in BOOLEAN /\ cli' \in BOOLEAN /\ missed' \subseteq Dialogs
    BY <1>2 DEF ConnectProton, BeginLogin, InstallCli, InstallCliFails, AskWhetherCancelled,
       LoginTypeOK
  <2>3. UNCHANGED <<recorded, running, session, listed, owner, drive, runs, strays, tooLate>>
    BY <1>2 DEF ConnectProton, BeginLogin, InstallCli, InstallCliFails, AskWhetherCancelled
  <2> QED
    BY <2>1, <2>2, <2>3 DEF LoginTypeOK, DialogStates, LoginStates
<1>3. ASSUME NEW p \in Dialogs, StartLogin(p) \/ LoginEnds(p) \/ LoginSettles(p)
                               \/ LoginTimesOut(p) \/ CheckSession(p)
      PROVE LoginTypeOK'
  <2>1. login' \in [Dialogs -> LoginStates]
    BY <1>0, <1>3 DEF StartLogin, LoginEnds, LoginSettles, LoginTimesOut, CheckSession, LoginStates
  <2>2. {recorded', session'} \subseteq Dialogs \union {0} /\ running' \subseteq Dialogs
    BY <1>3 DEF StartLogin, LoginEnds, LoginSettles, LoginTimesOut, CheckSession, LoginTypeOK
  <2>3. UNCHANGED <<authDialog, cancelled, cli, listed, owner, drive, runs, strays, missed, tooLate>>
    BY <1>3 DEF StartLogin, LoginEnds, LoginSettles, LoginTimesOut, CheckSession
  <2> QED
    BY <2>1, <2>2, <2>3 DEF LoginTypeOK, LoginStates
<1>4. ASSUME NEW p \in Dialogs, LoginReady(p) PROVE LoginTypeOK'
  <2>1. authDialog' \in [Dialogs -> DialogStates] /\ login' \in [Dialogs -> LoginStates]
    BY <1>0, <1>4 DEF LoginReady, DialogStates, LoginStates
  <2>2. /\ listed' \subseteq {"legacy", "official"} /\ owner' \in Dialogs \union {0}
        /\ drive' \in BOOLEAN
    BY <1>4 DEF LoginReady, LoginTypeOK
  <2>3. UNCHANGED <<cancelled, cli, recorded, running, session, runs, strays, missed, tooLate>>
    BY <1>4 DEF LoginReady
  <2> QED
    BY <2>1, <2>2, <2>3 DEF LoginTypeOK, DialogStates, LoginStates
<1>5. ASSUME NEW p \in Dialogs, CloseAuthDialog(p) PROVE LoginTypeOK'
  <2>1. authDialog' \in [Dialogs -> DialogStates] /\ login' \in [Dialogs -> LoginStates]
    BY <1>0, <1>5 DEF CloseAuthDialog, DialogStates, LoginStates
  <2>2. /\ cancelled' \in BOOLEAN /\ running' \subseteq Dialogs /\ missed' \subseteq Dialogs
        /\ tooLate' \in BOOLEAN
    BY <1>5 DEF CloseAuthDialog, LoginTypeOK
  <2>3. UNCHANGED <<cli, recorded, session, listed, owner, drive, runs, strays>>
    BY <1>5 DEF CloseAuthDialog
  <2> QED
    BY <2>1, <2>2, <2>3 DEF LoginTypeOK, DialogStates, LoginStates
<1>6. CASE RemoveOfficial \/ RemoveLegacy \/ ToggleDrive
  BY <1>6 DEF RemoveOfficial, RemoveLegacy, ToggleDrive, OnlyAccountList, LoginTypeOK
<1>7. CASE LoginRestart
  <2>1. authDialog' \in [Dialogs -> DialogStates] /\ login' \in [Dialogs -> LoginStates]
    BY <1>0, <1>7 DEF LoginRestart, DialogStates, LoginStates
  <2>2. runs' \in 1..MaxProtonRuns
    BY <1>7, LoginAssumption DEF LoginRestart, LoginTypeOK
  <2>3. strays' \subseteq Dialogs /\ tooLate' \in BOOLEAN
    BY <1>7 DEF LoginRestart, LoginTypeOK
  <2>4. /\ cancelled' = FALSE /\ recorded' = 0 /\ drive' = FALSE
        /\ UNCHANGED <<cli, running, session, listed, owner, missed>>
    BY <1>7 DEF LoginRestart
  <2> QED
    BY <2>1, <2>2, <2>3, <2>4 DEF LoginTypeOK, DialogStates, LoginStates
<1>8. CASE UNCHANGED loginVars
  BY <1>8 DEF loginVars, LoginTypeOK
<1> QED
  BY <1>1, <1>2, <1>3, <1>4, <1>5, <1>6, <1>7, <1>8 DEF LoginNext

LEMMA LoginInvNext == LoginInv /\ [LoginNext]_loginVars => LoginInv'
<1> SUFFICES ASSUME LoginInv, [LoginNext]_loginVars PROVE LoginInv'
  OBVIOUS
<1>0. LoginTypeOK /\ LoginTypeOK' /\ 0 \notin Dialogs
  BY LoginTypes, LoginAssumption DEF LoginInv, Dialogs
<1> DEFINE Rest == DialogsFit /\ LoginsFit /\ ClosedInTime /\ OwnSession /\ ListedIsSignedIn
<1> USE DEF DialogsFit, LoginsFit, ClosedInTime, OwnSession, ListedIsSignedIn, Shown
<1>00. Rest
  BY DEF LoginInv
<1>1. ASSUME NEW p \in Dialogs, NEW existing \in {"none", "legacy", "official"}, OpenAuthDialog(p, existing) PROVE Rest'
  <2>1. DialogsFit'
    BY <1>0, <1>00, <1>1 DEF OpenAuthDialog, NoneShown, OnlyLogin, LoginTypeOK
  <2>2. LoginsFit'
    BY <1>0, <1>00, <1>1 DEF OpenAuthDialog, NoneShown, OnlyLogin, LoginTypeOK
  <2>3. ClosedInTime'
    BY <1>0, <1>00, <1>1 DEF OpenAuthDialog, NoneShown, OnlyLogin, LoginTypeOK
  <2>4. OwnSession'
    BY <1>0, <1>00, <1>1 DEF OpenAuthDialog, NoneShown, OnlyLogin, LoginTypeOK
  <2>5. ListedIsSignedIn'
    BY <1>0, <1>00, <1>1 DEF OpenAuthDialog, NoneShown, OnlyLogin, LoginTypeOK
  <2> QED
    BY <2>1, <2>2, <2>3, <2>4, <2>5
<1>2. ASSUME NEW p \in Dialogs, ConnectProton(p) PROVE Rest'
  <2>1. DialogsFit'
    BY <1>0, <1>00, <1>2 DEF ConnectProton, OnlyLogin, Shows, LoginTypeOK
  <2>2. LoginsFit'
    BY <1>0, <1>00, <1>2 DEF ConnectProton, OnlyLogin, Shows, LoginTypeOK
  <2>3. ClosedInTime'
    BY <1>0, <1>00, <1>2 DEF ConnectProton, OnlyLogin, Shows, LoginTypeOK
  <2>4. OwnSession'
    BY <1>0, <1>00, <1>2 DEF ConnectProton, OnlyLogin, Shows, LoginTypeOK
  <2>5. ListedIsSignedIn'
    BY <1>0, <1>00, <1>2 DEF ConnectProton, OnlyLogin, Shows, LoginTypeOK
  <2> QED
    BY <2>1, <2>2, <2>3, <2>4, <2>5
<1>3. ASSUME NEW p \in Dialogs, BeginLogin(p) PROVE Rest'
  <2>1. DialogsFit'
    BY <1>0, <1>00, <1>3 DEF BeginLogin, OnlyLogin, LoginGoes, LoginTypeOK
  <2>2. LoginsFit'
    BY <1>0, <1>00, <1>3 DEF BeginLogin, OnlyLogin, LoginGoes, LoginTypeOK
  <2>3. ClosedInTime'
    BY <1>0, <1>00, <1>3 DEF BeginLogin, OnlyLogin, LoginGoes, LoginTypeOK
  <2>4. OwnSession'
    BY <1>0, <1>00, <1>3 DEF BeginLogin, OnlyLogin, LoginGoes, LoginTypeOK
  <2>5. ListedIsSignedIn'
    BY <1>0, <1>00, <1>3 DEF BeginLogin, OnlyLogin, LoginGoes, LoginTypeOK
  <2> QED
    BY <2>1, <2>2, <2>3, <2>4, <2>5
<1>4. ASSUME NEW p \in Dialogs, InstallCli(p) PROVE Rest'
  <2>1. DialogsFit'
    BY <1>0, <1>00, <1>4 DEF InstallCli, OnlyLogin, LoginTypeOK
  <2>2. LoginsFit'
    BY <1>0, <1>00, <1>4 DEF InstallCli, OnlyLogin, LoginTypeOK
  <2>3. ClosedInTime'
    BY <1>0, <1>00, <1>4 DEF InstallCli, OnlyLogin, LoginTypeOK
  <2>4. OwnSession'
    BY <1>0, <1>00, <1>4 DEF InstallCli, OnlyLogin, LoginTypeOK
  <2>5. ListedIsSignedIn'
    BY <1>0, <1>00, <1>4 DEF InstallCli, OnlyLogin, LoginTypeOK
  <2> QED
    BY <2>1, <2>2, <2>3, <2>4, <2>5
<1>5. ASSUME NEW p \in Dialogs, InstallCliFails(p) PROVE Rest'
  <2>1. DialogsFit'
    BY <1>0, <1>00, <1>5 DEF InstallCliFails, OnlyLogin, LoginGoes, LoginTypeOK
  <2>2. LoginsFit'
    BY <1>0, <1>00, <1>5 DEF InstallCliFails, OnlyLogin, LoginGoes, LoginTypeOK
  <2>3. ClosedInTime'
    BY <1>0, <1>00, <1>5 DEF InstallCliFails, OnlyLogin, LoginGoes, LoginTypeOK
  <2>4. OwnSession'
    BY <1>0, <1>00, <1>5 DEF InstallCliFails, OnlyLogin, LoginGoes, LoginTypeOK
  <2>5. ListedIsSignedIn'
    BY <1>0, <1>00, <1>5 DEF InstallCliFails, OnlyLogin, LoginGoes, LoginTypeOK
  <2> QED
    BY <2>1, <2>2, <2>3, <2>4, <2>5
<1>6. ASSUME NEW p \in Dialogs, AskWhetherCancelled(p) PROVE Rest'
  <2>1. DialogsFit'
    BY <1>0, <1>00, <1>6 DEF AskWhetherCancelled, GivesUp, OnlyLogin, LoginGoes, LoginTypeOK
  <2>2. LoginsFit'
    BY <1>0, <1>00, <1>6 DEF AskWhetherCancelled, GivesUp, OnlyLogin, LoginGoes, LoginTypeOK
  <2>3. ClosedInTime'
    BY <1>0, <1>00, <1>6 DEF AskWhetherCancelled, GivesUp, OnlyLogin, LoginGoes, LoginTypeOK
  <2>4. OwnSession'
    BY <1>0, <1>00, <1>6 DEF AskWhetherCancelled, GivesUp, OnlyLogin, LoginGoes, LoginTypeOK
  <2>5. ListedIsSignedIn'
    BY <1>0, <1>00, <1>6 DEF AskWhetherCancelled, GivesUp, OnlyLogin, LoginGoes, LoginTypeOK
  <2> QED
    BY <2>1, <2>2, <2>3, <2>4, <2>5
<1>7. ASSUME NEW p \in Dialogs, StartLogin(p) PROVE Rest'
  <2>1. DialogsFit'
    BY <1>0, <1>00, <1>7 DEF StartLogin, OnlyLogin, LoginGoes, NoDialog, LoginTypeOK
  <2>2. LoginsFit'
    BY <1>0, <1>00, <1>7 DEF StartLogin, OnlyLogin, LoginGoes, NoDialog, LoginTypeOK
  <2>3. ClosedInTime'
    BY <1>0, <1>00, <1>7 DEF StartLogin, OnlyLogin, LoginGoes, NoDialog, LoginTypeOK
  <2>4. OwnSession'
    BY <1>0, <1>00, <1>7 DEF StartLogin, OnlyLogin, LoginGoes, NoDialog, LoginTypeOK
  <2>5. ListedIsSignedIn'
    BY <1>0, <1>00, <1>7 DEF StartLogin, OnlyLogin, LoginGoes, NoDialog, LoginTypeOK
  <2> QED
    BY <2>1, <2>2, <2>3, <2>4, <2>5
<1>8. ASSUME NEW p \in Dialogs, LoginEnds(p) PROVE Rest'
  <2>1. DialogsFit'
    BY <1>0, <1>00, <1>8 DEF LoginEnds, LoginTypeOK
  <2>2. LoginsFit'
    BY <1>0, <1>00, <1>8 DEF LoginEnds, LoginTypeOK
  <2>3. ClosedInTime'
    BY <1>0, <1>00, <1>8 DEF LoginEnds, LoginTypeOK
  <2>4. OwnSession'
    BY <1>0, <1>00, <1>8 DEF LoginEnds, LoginTypeOK
  <2>5. ListedIsSignedIn'
    BY <1>0, <1>00, <1>8 DEF LoginEnds, LoginTypeOK
  <2> QED
    BY <2>1, <2>2, <2>3, <2>4, <2>5
<1>9. ASSUME NEW p \in Dialogs, LoginSettles(p) PROVE Rest'
  <2>1. DialogsFit'
    BY <1>0, <1>00, <1>9 DEF LoginSettles, LeavesRecord, OnlyLogin, LoginGoes, NoDialog, LoginTypeOK
  <2>2. LoginsFit'
    BY <1>0, <1>00, <1>9 DEF LoginSettles, LeavesRecord, OnlyLogin, LoginGoes, NoDialog, LoginTypeOK
  <2>3. ClosedInTime'
    BY <1>0, <1>00, <1>9 DEF LoginSettles, LeavesRecord, OnlyLogin, LoginGoes, NoDialog, LoginTypeOK
  <2>4. OwnSession'
    BY <1>0, <1>00, <1>9 DEF LoginSettles, LeavesRecord, OnlyLogin, LoginGoes, NoDialog, LoginTypeOK
  <2>5. ListedIsSignedIn'
    BY <1>0, <1>00, <1>9 DEF LoginSettles, LeavesRecord, OnlyLogin, LoginGoes, NoDialog, LoginTypeOK
  <2> QED
    BY <2>1, <2>2, <2>3, <2>4, <2>5
<1>10. ASSUME NEW p \in Dialogs, LoginTimesOut(p) PROVE Rest'
  <2>1. DialogsFit'
    BY <1>0, <1>00, <1>10 DEF LoginTimesOut, LeavesRecord, OnlyLogin, LoginGoes, NoDialog,
       LoginTypeOK
  <2>2. LoginsFit'
    BY <1>0, <1>00, <1>10 DEF LoginTimesOut, LeavesRecord, OnlyLogin, LoginGoes, NoDialog,
       LoginTypeOK
  <2>3. ClosedInTime'
    BY <1>0, <1>00, <1>10 DEF LoginTimesOut, LeavesRecord, OnlyLogin, LoginGoes, NoDialog,
       LoginTypeOK
  <2>4. OwnSession'
    BY <1>0, <1>00, <1>10 DEF LoginTimesOut, LeavesRecord, OnlyLogin, LoginGoes, NoDialog,
       LoginTypeOK
  <2>5. ListedIsSignedIn'
    BY <1>0, <1>00, <1>10 DEF LoginTimesOut, LeavesRecord, OnlyLogin, LoginGoes, NoDialog,
       LoginTypeOK
  <2> QED
    BY <2>1, <2>2, <2>3, <2>4, <2>5
<1>11. ASSUME NEW p \in Dialogs, CheckSession(p) PROVE Rest'
  <2>1. DialogsFit'
    BY <1>0, <1>00, <1>11 DEF CheckSession, OnlyLogin, LoginGoes, LoginTypeOK
  <2>2. LoginsFit'
    BY <1>0, <1>00, <1>11 DEF CheckSession, OnlyLogin, LoginGoes, LoginTypeOK
  <2>3. ClosedInTime'
    BY <1>0, <1>00, <1>11 DEF CheckSession, OnlyLogin, LoginGoes, LoginTypeOK
  <2>4. OwnSession'
    BY <1>0, <1>00, <1>11 DEF CheckSession, OnlyLogin, LoginGoes, LoginTypeOK
  <2>5. ListedIsSignedIn'
    BY <1>0, <1>00, <1>11 DEF CheckSession, OnlyLogin, LoginGoes, LoginTypeOK
  <2> QED
    BY <2>1, <2>2, <2>3, <2>4, <2>5
<1>12. ASSUME NEW p \in Dialogs, LoginReady(p) PROVE Rest'
  <2>1. DialogsFit'
    BY <1>0, <1>00, <1>12 DEF LoginReady, Shows, LoginTypeOK
  <2>2. LoginsFit'
    BY <1>0, <1>00, <1>12 DEF LoginReady, Shows, LoginTypeOK
  <2>3. ClosedInTime'
    BY <1>0, <1>00, <1>12 DEF LoginReady, Shows, LoginTypeOK
  <2>4. OwnSession'
    BY <1>0, <1>00, <1>12 DEF LoginReady, Shows, LoginTypeOK
  <2>5. ListedIsSignedIn'
    BY <1>0, <1>00, <1>12 DEF LoginReady, Shows, LoginTypeOK
  <2> QED
    BY <2>1, <2>2, <2>3, <2>4, <2>5
<1>13. ASSUME NEW p \in Dialogs, CloseAuthDialog(p) PROVE Rest'
  <2>1. DialogsFit'
    <3>1. /\ \A q \in Dialogs : authDialog'[q].shows = IF q = p THEN "closed" ELSE authDialog[q].shows
          /\ \A q \in Dialogs : login'[q] # "idle" => login[q] # "idle"
          /\ strays' = strays /\ missed' \subseteq missed \union {p}
      <4>1. \A q \in Dialogs : authDialog'[q].shows = IF q = p THEN "closed" ELSE authDialog[q].shows
        BY <1>0, <1>13 DEF CloseAuthDialog, Shows, LoginTypeOK
      <4>2. \A q \in running : q = recorded => login[q] # "idle"
        BY <1>00, <1>0 DEF LoginTypeOK
      <4>3. \A q \in Dialogs : login'[q] # "idle" => login[q] # "idle"
        BY <1>0, <1>13, <4>2 DEF CloseAuthDialog
      <4> QED
        BY <1>13, <4>1, <4>3 DEF CloseAuthDialog
    <3>2. \A q \in strays : login'[q] = "idle"
      BY <1>0, <1>00, <1>13, <3>1 DEF LoginTypeOK
    <3> QED
      BY <1>0, <1>00, <3>1, <3>2 DEF LoginTypeOK
  <2>2. LoginsFit'
    <3>1. running' \ strays' = {} /\ recorded' = recorded /\ strays' = strays
      BY <1>00, <1>13 DEF CloseAuthDialog
    <3>2. \A q \in Dialogs : login'[q] # "waits"
      BY <1>0, <1>00, <1>13 DEF CloseAuthDialog, LoginTypeOK
    <3> QED
      BY <1>00, <3>1, <3>2
  <2>3. ClosedInTime'
    BY <1>0, <1>00, <1>13 DEF CloseAuthDialog, Shows, LoginTypeOK
  <2>4. OwnSession'
    BY <1>0, <1>00, <1>13 DEF CloseAuthDialog, Shows, LoginTypeOK
  <2>5. ListedIsSignedIn'
    BY <1>0, <1>00, <1>13 DEF CloseAuthDialog, Shows, LoginTypeOK
  <2> QED
    BY <2>1, <2>2, <2>3, <2>4, <2>5
<1>14. CASE RemoveOfficial \/ RemoveLegacy \/ ToggleDrive
  <2>1. DialogsFit'
    BY <1>0, <1>00, <1>14 DEF RemoveOfficial, RemoveLegacy, ToggleDrive, OnlyAccountList, NoneShown
  <2>2. LoginsFit'
    BY <1>0, <1>00, <1>14 DEF RemoveOfficial, RemoveLegacy, ToggleDrive, OnlyAccountList, NoneShown
  <2>3. ClosedInTime'
    BY <1>0, <1>00, <1>14 DEF RemoveOfficial, RemoveLegacy, ToggleDrive, OnlyAccountList, NoneShown
  <2>4. OwnSession'
    BY <1>0, <1>00, <1>14 DEF RemoveOfficial, RemoveLegacy, ToggleDrive, OnlyAccountList, NoneShown
  <2>5. ListedIsSignedIn'
    BY <1>0, <1>00, <1>14 DEF RemoveOfficial, RemoveLegacy, ToggleDrive, OnlyAccountList, NoneShown
  <2> QED
    BY <1>0, <2>1, <2>2, <2>3, <2>4, <2>5 DEF LoginInv
<1>15. CASE LoginRestart
  <2>1. DialogsFit'
    BY <1>0, <1>00, <1>15 DEF LoginRestart, LoginTypeOK, NoDialog
  <2>2. LoginsFit'
    BY <1>0, <1>00, <1>15 DEF LoginRestart, LoginTypeOK, NoDialog
  <2>3. ClosedInTime'
    BY <1>0, <1>00, <1>15 DEF LoginRestart, LoginTypeOK, NoDialog
  <2>4. OwnSession'
    BY <1>0, <1>00, <1>15 DEF LoginRestart, LoginTypeOK, NoDialog
  <2>5. ListedIsSignedIn'
    <3>1. UNCHANGED <<session, listed, owner, missed>> /\ (strays' = {} => strays = {})
      BY <1>15 DEF LoginRestart
    <3>2. ~tooLate' => ~tooLate /\ \A p \in Dialogs : ~(Shown(p) /\ session = p)
      BY <1>0, <1>15 DEF LoginRestart, LoginTypeOK
    <3> QED
      BY <1>00, <3>1, <3>2
  <2> QED
    BY <1>0, <2>1, <2>2, <2>3, <2>4, <2>5 DEF LoginInv
<1>16. CASE UNCHANGED loginVars
  <2>1. DialogsFit'
    BY <1>0, <1>00, <1>16 DEF loginVars
  <2>2. LoginsFit'
    BY <1>0, <1>00, <1>16 DEF loginVars
  <2>3. ClosedInTime'
    BY <1>0, <1>00, <1>16 DEF loginVars
  <2>4. OwnSession'
    BY <1>0, <1>00, <1>16 DEF loginVars
  <2>5. ListedIsSignedIn'
    BY <1>0, <1>00, <1>16 DEF loginVars
  <2> QED
    BY <1>0, <2>1, <2>2, <2>3, <2>4, <2>5 DEF LoginInv
<1> QED
  BY <1>0, <1>1, <1>2, <1>3, <1>4, <1>5, <1>6, <1>7, <1>8, <1>9, <1>10, <1>11, <1>12, <1>13,
     <1>14, <1>15, <1>16, SMTT(30) DEF LoginNext, LoginInv

\* The one login that runs is that of a dialog which waits for it, and who is listed is
\* who is signed in (proton.py), after any number of dialogs and restarts; but for the
\* logins whose cancellation came too early or was taken back by the next dialog
\* ("missed"), those that outlived the program and dialogs closed after their login.
THEOREM ProtonStaysSignedIn == LoginSpec => []ProtonIsSignedIn
<1>1. LoginInv => ProtonIsSignedIn
  BY DEF LoginInv, LoginTypeOK, LoginsFit, ClosedInTime, ProtonIsSignedIn, OneLogin
<1> QED
  BY <1>1, LoginInvInit, LoginInvNext, PTL DEF LoginSpec

-----------------------------------------------------------------------------
(* The accounts rclone serves *)

\* A wizard has a key, and there is one at a time; it asks while its thread has nothing to do.
WizardsFit ==
  /\ \A w \in Wizards : wizard[w].shows # "unused" => wizard[w].key \in Keys
  /\ \A w \in Wizards : wizard[w].shows \in {"unused", "form", "question"} => step[w].at = "idle"
  /\ \A v, w \in Wizards : Opened(v) /\ Opened(w) => v = w
  /\ \A w \in early \union outlived : wizard[w].shows \in {"closed", "done"}
  /\ \A w \in outlived : step[w].at = "idle"

\* A process runs for the thread that waits for it, and a thread that may still start
\* one is that of an open wizard.
ProcessesFit ==
  /\ \A w \in alive \ outlived : authorizing = w /\ step[w].at = "waits"
  /\ \A w \in Wizards \ early : step[w].at = "starts" \/ w \in alive \ outlived => Opened(w)

\* What is about to be listed has its remote.
ChecksFit ==
  ~unasked => \A w \in Wizards :
    /\ step[w].at \in {"checks", "checked"} => Opened(w)
    /\ step[w].at = "checked" /\ step[w].brings = "complete" =>
         /\ configured[wizard[w].key] # "absent"
         /\ early = {} /\ outlived = {} => configured[wizard[w].key] = "whole"

DiscoveredFits ==
  discovered # NothingFound =>
    /\ discovered \subseteq Keys
    /\ ~revived /\ ~halfRemoved => \A k \in discovered : configured[k] # "absent"

AccountsRest == WizardsFit /\ ProcessesFit /\ ChecksFit /\ DiscoveredFits /\ AccountsHaveRemotes
AccountsInv == AccountsTypeOK /\ AccountsRest

WizardStates == [shows : {"unused", "form", "question", "busy", "closed", "done"},
                 key : Keys \union {NoAccount}, asked : BOOLEAN]
StepStates == [at : {"idle", "starts", "waits", "ended", "checks", "checked"},
               brings : {"none", "asks", "complete", "error"}]

LEMMA AccountsInvInit == AccountsInit => AccountsInv
<1> SUFFICES ASSUME AccountsInit PROVE AccountsInv
  OBVIOUS
<1>1. AccountsTypeOK
  <2>1. 1 \in 1..MaxRestarts
    BY AccountsAssumption
  <2>2. wizard \in [Wizards -> WizardStates] /\ step \in [Wizards -> StepStates]
    BY DEF AccountsInit, UnusedWizard, NoStep, WizardStates, StepStates
  <2> QED
    BY <2>1, <2>2 DEF AccountsInit, AccountsTypeOK, WizardStates, StepStates, NothingFound
<1>2. AccountsRest
  BY DEF AccountsInit, UnusedWizard, NoStep, AccountsRest, WizardsFit, ProcessesFit, ChecksFit,
     DiscoveredFits, AccountsHaveRemotes, Opened
<1> QED
  BY <1>1, <1>2 DEF AccountsInv

LEMMA AccountsTypes == AccountsInv /\ [AccountsNext]_accountVars => AccountsTypeOK'
<1> SUFFICES ASSUME AccountsTypeOK, AccountsRest, [AccountsNext]_accountVars PROVE AccountsTypeOK'
  BY DEF AccountsInv
<1>0. wizard \in [Wizards -> WizardStates] /\ step \in [Wizards -> StepStates]
  BY DEF AccountsTypeOK, WizardStates, StepStates
<1> DEFINE Others ==
      /\ authorizing \in Wizards \union {NoWizard}
      /\ alive \subseteq Wizards /\ outlived \subseteq Wizards /\ early \subseteq Wizards
      /\ renewing \in Keys \union {NoAccount}
      /\ accounts \subseteq Keys /\ unverified \subseteq Keys
      /\ discovered \subseteq Keys \union NothingFound
      /\ ready \in BOOLEAN /\ starts \in 1..MaxRestarts
      /\ unasked \in BOOLEAN /\ revived \in BOOLEAN /\ halfRemoved \in BOOLEAN
<1>1. ASSUME NEW w \in Wizards, NEW k \in Keys, OpenWizard(w, k)
      PROVE AccountsTypeOK'
  <2>1. wizard' \in [Wizards -> WizardStates]
    BY <1>0, <1>1 DEF OpenWizard, NoneOpen, OnlyWizards, accountGhosts, WizardStates
  <2>2. step' \in [Wizards -> StepStates]
    BY <1>0, <1>1 DEF OpenWizard, NoneOpen, OnlyWizards, accountGhosts, StepStates
  <2>3. configured' \in [Keys -> {"absent", "half", "whole"}]
    BY <1>1 DEF OpenWizard, NoneOpen, OnlyWizards, accountGhosts, AccountsTypeOK
  <2>4. Others'
    BY <1>1, AccountsAssumption DEF OpenWizard, NoneOpen, OnlyWizards, accountGhosts, AccountsTypeOK
  <2> QED
    BY <2>1, <2>2, <2>3, <2>4 DEF AccountsTypeOK, WizardStates, StepStates
<1>2. ASSUME NEW w \in Wizards, Press(w)
      PROVE AccountsTypeOK'
  <2>1. wizard' \in [Wizards -> WizardStates]
    BY <1>0, <1>2 DEF Press, Reaches, OnlyWizards, accountGhosts, WizardStates
  <2>2. step' \in [Wizards -> StepStates]
    BY <1>0, <1>2 DEF Press, Reaches, OnlyWizards, accountGhosts, StepStates
  <2>3. configured' \in [Keys -> {"absent", "half", "whole"}]
    BY <1>2 DEF Press, Reaches, OnlyWizards, accountGhosts, AccountsTypeOK
  <2>4. Others'
    BY <1>2, AccountsAssumption DEF Press, Reaches, OnlyWizards, accountGhosts, AccountsTypeOK
  <2> QED
    BY <2>1, <2>2, <2>3, <2>4 DEF AccountsTypeOK, WizardStates, StepStates
<1>3. ASSUME NEW w \in Wizards, Authorize(w)
      PROVE AccountsTypeOK'
  <2>1. wizard' \in [Wizards -> WizardStates]
    BY <1>0, <1>3 DEF Authorize, MayStart, Reaches, OnlyWizards, accountGhosts, WizardStates
  <2>2. step' \in [Wizards -> StepStates]
    BY <1>0, <1>3 DEF Authorize, MayStart, Reaches, OnlyWizards, accountGhosts, StepStates
  <2>3. configured' \in [Keys -> {"absent", "half", "whole"}]
    BY <1>3 DEF Authorize, MayStart, Reaches, OnlyWizards, accountGhosts, AccountsTypeOK
  <2>4. Others'
    BY <1>3, AccountsAssumption DEF Authorize, MayStart, Reaches, OnlyWizards, accountGhosts,
       AccountsTypeOK
  <2> QED
    BY <2>1, <2>2, <2>3, <2>4 DEF AccountsTypeOK, WizardStates, StepStates
<1>4. ASSUME NEW w \in Wizards, NEW brings \in {"asks", "complete", "error"}, AuthorizationEnds(w, brings)
      PROVE AccountsTypeOK'
  <2>1. wizard' \in [Wizards -> WizardStates]
    BY <1>0, <1>4 DEF AuthorizationEnds, accountGhosts, WizardStates
  <2>2. step' \in [Wizards -> StepStates]
    BY <1>0, <1>4 DEF AuthorizationEnds, accountGhosts, StepStates
  <2>3. configured' \in [Keys -> {"absent", "half", "whole"}]
    BY <1>4 DEF AuthorizationEnds, accountGhosts, AccountsTypeOK
  <2>4. Others'
    BY <1>4, AccountsAssumption DEF AuthorizationEnds, accountGhosts, AccountsTypeOK
  <2> QED
    BY <2>1, <2>2, <2>3, <2>4 DEF AccountsTypeOK, WizardStates, StepStates
<1>5. ASSUME NEW w \in Wizards, OAuthSettles(w)
      PROVE AccountsTypeOK'
  <2>1. wizard' \in [Wizards -> WizardStates]
    BY <1>0, <1>5 DEF OAuthSettles, Forget, Reaches, OnlyWizards, accountGhosts, WizardStates
  <2>2. step' \in [Wizards -> StepStates]
    BY <1>0, <1>5 DEF OAuthSettles, Forget, Reaches, OnlyWizards, accountGhosts, StepStates
  <2>3. configured' \in [Keys -> {"absent", "half", "whole"}]
    BY <1>5 DEF OAuthSettles, Forget, Reaches, OnlyWizards, accountGhosts, AccountsTypeOK
  <2>4. Others'
    BY <1>5, AccountsAssumption DEF OAuthSettles, Forget, Reaches, OnlyWizards, accountGhosts,
       AccountsTypeOK
  <2> QED
    BY <2>1, <2>2, <2>3, <2>4 DEF AccountsTypeOK, WizardStates, StepStates
<1>6. ASSUME NEW w \in Wizards, OAuthTimesOut(w)
      PROVE AccountsTypeOK'
  <2>1. wizard' \in [Wizards -> WizardStates]
    BY <1>0, <1>6 DEF OAuthTimesOut, Forget, Cancel, Reaches, OnlyWizards, accountGhosts,
       WizardStates
  <2>2. step' \in [Wizards -> StepStates]
    BY <1>0, <1>6 DEF OAuthTimesOut, Forget, Cancel, Reaches, OnlyWizards, accountGhosts, StepStates
  <2>3. configured' \in [Keys -> {"absent", "half", "whole"}]
    BY <1>6 DEF OAuthTimesOut, Forget, Cancel, Reaches, OnlyWizards, accountGhosts, AccountsTypeOK
  <2>4. Others'
    BY <1>6, AccountsAssumption DEF OAuthTimesOut, Forget, Cancel, Reaches, OnlyWizards,
       accountGhosts, AccountsTypeOK
  <2> QED
    BY <2>1, <2>2, <2>3, <2>4 DEF AccountsTypeOK, WizardStates, StepStates
<1>7. ASSUME NEW w \in Wizards, StepReady(w)
      PROVE AccountsTypeOK'
  <2>1. wizard' \in [Wizards -> WizardStates]
    <3>1. \/ UNCHANGED wizard
          \/ \E asked \in BOOLEAN : wizard' = [wizard EXCEPT ![w] =
               [shows |-> IF asked THEN "question" ELSE "form",
                key |-> @.key, asked |-> asked]]
      <4>1. wizard[w].asked \in BOOLEAN
        BY <1>0 DEF WizardStates
      <4> QED
        BY <1>7, <4>1 DEF StepReady
    <3> QED
      BY <1>0, <3>1 DEF WizardStates
  <2>2. step' \in [Wizards -> StepStates]
    BY <1>0, <1>7 DEF StepReady, Reaches, OnlyWizards, accountGhosts, StepStates
  <2>3. configured' \in [Keys -> {"absent", "half", "whole"}]
    BY <1>7 DEF StepReady, Reaches, OnlyWizards, accountGhosts, AccountsTypeOK
  <2>4. Others'
    BY <1>7, AccountsAssumption DEF StepReady, Reaches, OnlyWizards, accountGhosts, AccountsTypeOK
  <2> QED
    BY <2>1, <2>2, <2>3, <2>4 DEF AccountsTypeOK, WizardStates, StepStates
<1>8. ASSUME NEW w \in Wizards, Validate(w)
      PROVE AccountsTypeOK'
  <2>1. wizard' \in [Wizards -> WizardStates]
    BY <1>0, <1>8 DEF Validate, Reaches, OnlyWizards, accountGhosts, WizardStates
  <2>2. step' \in [Wizards -> StepStates]
    BY <1>0, <1>8 DEF Validate, Reaches, OnlyWizards, accountGhosts, StepStates
  <2>3. configured' \in [Keys -> {"absent", "half", "whole"}]
    BY <1>8 DEF Validate, Reaches, OnlyWizards, accountGhosts, AccountsTypeOK
  <2>4. Others'
    BY <1>8, AccountsAssumption DEF Validate, Reaches, OnlyWizards, accountGhosts, AccountsTypeOK
  <2> QED
    BY <2>1, <2>2, <2>3, <2>4 DEF AccountsTypeOK, WizardStates, StepStates
<1>9. ASSUME NEW w \in Wizards, ValidationReady(w)
      PROVE AccountsTypeOK'
  <2>1. wizard' \in [Wizards -> WizardStates]
    BY <1>0, <1>9 DEF ValidationReady, Reaches, WizardStates
  <2>2. step' \in [Wizards -> StepStates]
    BY <1>0, <1>9 DEF ValidationReady, Reaches, StepStates
  <2>3. configured' \in [Keys -> {"absent", "half", "whole"}]
    BY <1>9 DEF ValidationReady, Reaches, AccountsTypeOK
  <2>4. Others'
    <3>1. wizard[w].key \in Keys
      BY <1>9 DEF ValidationReady, AccountsRest, WizardsFit
    <3>2. accounts' \subseteq Keys /\ unverified' \subseteq Keys
      BY <1>9, <3>1 DEF ValidationReady, AccountsTypeOK
    <3> QED
      BY <1>9, <3>2 DEF ValidationReady, AccountsTypeOK
  <2> QED
    BY <2>1, <2>2, <2>3, <2>4 DEF AccountsTypeOK, WizardStates, StepStates
<1>10. ASSUME NEW w \in Wizards, CloseWizard(w)
      PROVE AccountsTypeOK'
  <2>1. wizard' \in [Wizards -> WizardStates]
    BY <1>0, <1>10 DEF CloseWizard, Cancel, WizardStates
  <2>2. step' \in [Wizards -> StepStates]
    BY <1>0, <1>10 DEF CloseWizard, Cancel, StepStates
  <2>3. configured' \in [Keys -> {"absent", "half", "whole"}]
    BY <1>10 DEF CloseWizard, Cancel, AccountsTypeOK
  <2>4. Others'
    BY <1>10, AccountsAssumption DEF CloseWizard, Cancel, AccountsTypeOK
  <2> QED
    BY <2>1, <2>2, <2>3, <2>4 DEF AccountsTypeOK, WizardStates, StepStates
<1>11. ASSUME NEW k \in Keys, CreateVault(k)
      PROVE AccountsTypeOK'
  <2>1. wizard' \in [Wizards -> WizardStates]
    BY <1>0, <1>11 DEF CreateVault, NoneOpen, OnlyAccounts, oauthVars, WizardStates
  <2>2. step' \in [Wizards -> StepStates]
    BY <1>0, <1>11 DEF CreateVault, NoneOpen, OnlyAccounts, oauthVars, StepStates
  <2>3. configured' \in [Keys -> {"absent", "half", "whole"}]
    BY <1>11 DEF CreateVault, NoneOpen, OnlyAccounts, oauthVars, AccountsTypeOK
  <2>4. Others'
    BY <1>11, AccountsAssumption DEF CreateVault, NoneOpen, OnlyAccounts, oauthVars, AccountsTypeOK
  <2> QED
    BY <2>1, <2>2, <2>3, <2>4 DEF AccountsTypeOK, WizardStates, StepStates
<1>12. ASSUME NEW k \in Keys, Renew(k)
      PROVE AccountsTypeOK'
  <2>1. wizard' \in [Wizards -> WizardStates]
    BY <1>0, <1>12 DEF Renew, NoneOpen, OnlyAccounts, oauthVars, WizardStates
  <2>2. step' \in [Wizards -> StepStates]
    BY <1>0, <1>12 DEF Renew, NoneOpen, OnlyAccounts, oauthVars, StepStates
  <2>3. configured' \in [Keys -> {"absent", "half", "whole"}]
    BY <1>12 DEF Renew, NoneOpen, OnlyAccounts, oauthVars, AccountsTypeOK
  <2>4. Others'
    BY <1>12, AccountsAssumption DEF Renew, NoneOpen, OnlyAccounts, oauthVars, AccountsTypeOK
  <2> QED
    BY <2>1, <2>2, <2>3, <2>4 DEF AccountsTypeOK, WizardStates, StepStates
<1>13. ASSUME NEW k \in Keys, RemoveAccount(k)
      PROVE AccountsTypeOK'
  <2>1. wizard' \in [Wizards -> WizardStates]
    BY <1>0, <1>13 DEF RemoveAccount, RemoveBoth, NoneOpen, OnlyAccounts, oauthVars, WizardStates
  <2>2. step' \in [Wizards -> StepStates]
    BY <1>0, <1>13 DEF RemoveAccount, RemoveBoth, NoneOpen, OnlyAccounts, oauthVars, StepStates
  <2>3. configured' \in [Keys -> {"absent", "half", "whole"}]
    BY <1>13 DEF RemoveAccount, RemoveBoth, NoneOpen, OnlyAccounts, oauthVars, AccountsTypeOK
  <2>4. Others'
    BY <1>13, AccountsAssumption DEF RemoveAccount, RemoveBoth, NoneOpen, OnlyAccounts, oauthVars,
       AccountsTypeOK
  <2> QED
    BY <2>1, <2>2, <2>3, <2>4 DEF AccountsTypeOK, WizardStates, StepStates
<1>14. CASE RenewEnds
  <2>1. wizard' \in [Wizards -> WizardStates]
    BY <1>0, <1>14 DEF RenewEnds, OnlyAccounts, oauthVars, WizardStates
  <2>2. step' \in [Wizards -> StepStates]
    BY <1>0, <1>14 DEF RenewEnds, OnlyAccounts, oauthVars, StepStates
  <2>3. configured' \in [Keys -> {"absent", "half", "whole"}]
    BY <1>14 DEF RenewEnds, OnlyAccounts, oauthVars, AccountsTypeOK
  <2>4. Others'
    BY <1>14, AccountsAssumption DEF RenewEnds, OnlyAccounts, oauthVars, AccountsTypeOK
  <2> QED
    BY <2>1, <2>2, <2>3, <2>4 DEF AccountsTypeOK, WizardStates, StepStates
<1>15. CASE Discover
  <2>1. wizard' \in [Wizards -> WizardStates]
    BY <1>0, <1>15 DEF Discover, NothingFound, OnlyAccounts, oauthVars, WizardStates
  <2>2. step' \in [Wizards -> StepStates]
    BY <1>0, <1>15 DEF Discover, NothingFound, OnlyAccounts, oauthVars, StepStates
  <2>3. configured' \in [Keys -> {"absent", "half", "whole"}]
    BY <1>15 DEF Discover, NothingFound, OnlyAccounts, oauthVars, AccountsTypeOK
  <2>4. Others'
    BY <1>15, AccountsAssumption DEF Discover, NothingFound, OnlyAccounts, oauthVars, AccountsTypeOK
  <2> QED
    BY <2>1, <2>2, <2>3, <2>4 DEF AccountsTypeOK, WizardStates, StepStates
<1>16. CASE RuntimeLoaded
  <2>1. wizard' \in [Wizards -> WizardStates]
    BY <1>0, <1>16 DEF RuntimeLoaded, oauthVars, WizardStates
  <2>2. step' \in [Wizards -> StepStates]
    BY <1>0, <1>16 DEF RuntimeLoaded, oauthVars, StepStates
  <2>3. configured' \in [Keys -> {"absent", "half", "whole"}]
    BY <1>16 DEF RuntimeLoaded, oauthVars, AccountsTypeOK
  <2>4. Others'
    BY <1>16 DEF RuntimeLoaded, oauthVars, AccountsTypeOK, AccountsRest, DiscoveredFits
  <2> QED
    BY <2>1, <2>2, <2>3, <2>4 DEF AccountsTypeOK, WizardStates, StepStates
<1>17. CASE AccountsRestart
  <2>1. wizard' \in [Wizards -> WizardStates]
    BY <1>0, <1>17 DEF AccountsRestart, NoneOpen, WizardStates
  <2>2. step' \in [Wizards -> StepStates]
    BY <1>0, <1>17 DEF AccountsRestart, NoneOpen, StepStates, NoStep
  <2>3. configured' \in [Keys -> {"absent", "half", "whole"}]
    BY <1>17 DEF AccountsRestart, NoneOpen, AccountsTypeOK
  <2>4. Others'
    <3>1. starts' \in 1..MaxRestarts
      BY <1>17, AccountsAssumption DEF AccountsRestart, AccountsTypeOK
    <3>2. halfRemoved' \in BOOLEAN /\ outlived' \subseteq Wizards
      BY <1>17 DEF AccountsRestart, AccountsTypeOK
    <3> QED
      BY <1>17, <3>1, <3>2 DEF AccountsRestart, AccountsTypeOK
  <2> QED
    BY <2>1, <2>2, <2>3, <2>4 DEF AccountsTypeOK, WizardStates, StepStates
<1>18. CASE UNCHANGED accountVars
  <2>1. wizard' \in [Wizards -> WizardStates]
    BY <1>0, <1>18 DEF accountVars, oauthVars, accountGhosts, WizardStates
  <2>2. step' \in [Wizards -> StepStates]
    BY <1>0, <1>18 DEF accountVars, oauthVars, accountGhosts, StepStates
  <2>3. configured' \in [Keys -> {"absent", "half", "whole"}]
    BY <1>18 DEF accountVars, oauthVars, accountGhosts, AccountsTypeOK
  <2>4. Others'
    BY <1>18, AccountsAssumption DEF accountVars, oauthVars, accountGhosts, AccountsTypeOK
  <2> QED
    BY <2>1, <2>2, <2>3, <2>4 DEF AccountsTypeOK, WizardStates, StepStates
<1> QED
  BY <1>1, <1>2, <1>3, <1>4, <1>5, <1>6, <1>7, <1>8, <1>9, <1>10, <1>11, <1>12, <1>13, <1>14,
     <1>15, <1>16, <1>17, <1>18 DEF AccountsNext

LEMMA AccountsStep == AccountsInv /\ [AccountsNext]_accountVars => AccountsRest'
<1> SUFFICES ASSUME AccountsInv, [AccountsNext]_accountVars PROVE AccountsRest'
  OBVIOUS
<1>0. /\ wizard \in [Wizards -> WizardStates] /\ step \in [Wizards -> StepStates]
      /\ 0 \notin Wizards /\ NoAccount \notin Keys
      /\ alive \subseteq Wizards /\ outlived \subseteq Wizards /\ early \subseteq Wizards
      /\ configured \in [Keys -> {"absent", "half", "whole"}] /\ accounts \subseteq Keys
      /\ unasked \in BOOLEAN /\ revived \in BOOLEAN /\ halfRemoved \in BOOLEAN
  BY AccountsAssumption DEF AccountsInv, AccountsTypeOK, WizardStates, StepStates, Wizards
<1>00. WizardsFit /\ ProcessesFit /\ ChecksFit /\ DiscoveredFits /\ AccountsHaveRemotes
  BY DEF AccountsInv, AccountsRest
<1> USE DEF WizardStates, StepStates, Opened
<1>1. ASSUME NEW w \in Wizards, NEW k \in Keys, OpenWizard(w, k)
      PROVE AccountsRest'
  <2>1. WizardsFit'
    BY <1>0, <1>00, <1>1 DEF OpenWizard, NoneOpen, OnlyWizards, accountGhosts, WizardsFit
  <2>2. ProcessesFit'
    BY <1>0, <1>00, <1>1 DEF OpenWizard, NoneOpen, OnlyWizards, accountGhosts, ProcessesFit,
       NoWizard, WizardsFit
  <2>3. ChecksFit'
    BY <1>0, <1>00, <1>1 DEF OpenWizard, NoneOpen, OnlyWizards, accountGhosts, ChecksFit,
       WizardsFit, ProcessesFit
  <2>4. DiscoveredFits'
    BY <1>0, <1>00, <1>1 DEF OpenWizard, NoneOpen, OnlyWizards, accountGhosts, DiscoveredFits,
       WizardsFit
  <2>5. AccountsHaveRemotes'
    BY <1>0, <1>00, <1>1 DEF OpenWizard, NoneOpen, OnlyWizards, accountGhosts,
       AccountsHaveRemotes, WizardsFit, ChecksFit, DiscoveredFits
  <2> QED
    BY <2>1, <2>2, <2>3, <2>4, <2>5 DEF AccountsRest
<1>2. ASSUME NEW w \in Wizards, Press(w)
      PROVE AccountsRest'
  <2>1. WizardsFit'
    BY <1>0, <1>00, <1>2 DEF Press, Reaches, OnlyWizards, accountGhosts, WizardsFit
  <2>2. ProcessesFit'
    BY <1>0, <1>00, <1>2 DEF Press, Reaches, OnlyWizards, accountGhosts, ProcessesFit, NoWizard,
       WizardsFit
  <2>3. ChecksFit'
    BY <1>0, <1>00, <1>2 DEF Press, Reaches, OnlyWizards, accountGhosts, ChecksFit, WizardsFit,
       ProcessesFit
  <2>4. DiscoveredFits'
    BY <1>0, <1>00, <1>2 DEF Press, Reaches, OnlyWizards, accountGhosts, DiscoveredFits, WizardsFit
  <2>5. AccountsHaveRemotes'
    BY <1>0, <1>00, <1>2 DEF Press, Reaches, OnlyWizards, accountGhosts, AccountsHaveRemotes,
       WizardsFit, ChecksFit, DiscoveredFits
  <2> QED
    BY <2>1, <2>2, <2>3, <2>4, <2>5 DEF AccountsRest
<1>3. ASSUME NEW w \in Wizards, Authorize(w)
      PROVE AccountsRest'
  <2>1. WizardsFit'
    BY <1>0, <1>00, <1>3 DEF Authorize, MayStart, Reaches, OnlyWizards, accountGhosts, WizardsFit
  <2>2. ProcessesFit'
    BY <1>0, <1>00, <1>3 DEF Authorize, MayStart, Reaches, OnlyWizards, accountGhosts,
       ProcessesFit, NoWizard, WizardsFit
  <2>3. ChecksFit'
    BY <1>0, <1>00, <1>3 DEF Authorize, MayStart, Reaches, OnlyWizards, accountGhosts, ChecksFit,
       WizardsFit, ProcessesFit
  <2>4. DiscoveredFits'
    BY <1>0, <1>00, <1>3 DEF Authorize, MayStart, Reaches, OnlyWizards, accountGhosts,
       DiscoveredFits, WizardsFit
  <2>5. AccountsHaveRemotes'
    BY <1>0, <1>00, <1>3 DEF Authorize, MayStart, Reaches, OnlyWizards, accountGhosts,
       AccountsHaveRemotes, WizardsFit, ChecksFit, DiscoveredFits
  <2> QED
    BY <2>1, <2>2, <2>3, <2>4, <2>5 DEF AccountsRest
<1>4. ASSUME NEW w \in Wizards, NEW brings \in {"asks", "complete", "error"}, AuthorizationEnds(w, brings)
      PROVE AccountsRest'
  <2>1. WizardsFit'
    BY <1>0, <1>00, <1>4 DEF AuthorizationEnds, accountGhosts, WizardsFit
  <2>2. ProcessesFit'
    BY <1>0, <1>00, <1>4 DEF AuthorizationEnds, accountGhosts, ProcessesFit, NoWizard, WizardsFit
  <2>3. ChecksFit'
    BY <1>0, <1>00, <1>4 DEF AuthorizationEnds, accountGhosts, ChecksFit, WizardsFit, ProcessesFit
  <2>4. DiscoveredFits'
    BY <1>0, <1>00, <1>4 DEF AuthorizationEnds, accountGhosts, DiscoveredFits, WizardsFit
  <2>5. AccountsHaveRemotes'
    BY <1>0, <1>00, <1>4 DEF AuthorizationEnds, accountGhosts, AccountsHaveRemotes, WizardsFit,
       ChecksFit, DiscoveredFits
  <2> QED
    BY <2>1, <2>2, <2>3, <2>4, <2>5 DEF AccountsRest
<1>5. ASSUME NEW w \in Wizards, OAuthSettles(w)
      PROVE AccountsRest'
  <2>1. WizardsFit'
    BY <1>0, <1>00, <1>5 DEF OAuthSettles, Forget, Reaches, OnlyWizards, accountGhosts, WizardsFit
  <2>2. ProcessesFit'
    BY <1>0, <1>00, <1>5 DEF OAuthSettles, Forget, Reaches, OnlyWizards, accountGhosts,
       ProcessesFit, NoWizard, WizardsFit
  <2>3. ChecksFit'
    BY <1>0, <1>00, <1>5 DEF OAuthSettles, Forget, Reaches, OnlyWizards, accountGhosts, ChecksFit,
       WizardsFit, ProcessesFit
  <2>4. DiscoveredFits'
    BY <1>0, <1>00, <1>5 DEF OAuthSettles, Forget, Reaches, OnlyWizards, accountGhosts,
       DiscoveredFits, WizardsFit
  <2>5. AccountsHaveRemotes'
    BY <1>0, <1>00, <1>5 DEF OAuthSettles, Forget, Reaches, OnlyWizards, accountGhosts,
       AccountsHaveRemotes, WizardsFit, ChecksFit, DiscoveredFits
  <2> QED
    BY <2>1, <2>2, <2>3, <2>4, <2>5 DEF AccountsRest
<1>6. ASSUME NEW w \in Wizards, OAuthTimesOut(w)
      PROVE AccountsRest'
  <2>1. WizardsFit'
    BY <1>0, <1>00, <1>6 DEF OAuthTimesOut, Forget, Cancel, Reaches, OnlyWizards, accountGhosts,
       WizardsFit
  <2>2. ProcessesFit'
    BY <1>0, <1>00, <1>6 DEF OAuthTimesOut, Forget, Cancel, Reaches, OnlyWizards, accountGhosts,
       ProcessesFit, NoWizard, WizardsFit
  <2>3. ChecksFit'
    BY <1>0, <1>00, <1>6 DEF OAuthTimesOut, Forget, Cancel, Reaches, OnlyWizards, accountGhosts,
       ChecksFit, WizardsFit, ProcessesFit
  <2>4. DiscoveredFits'
    BY <1>0, <1>00, <1>6 DEF OAuthTimesOut, Forget, Cancel, Reaches, OnlyWizards, accountGhosts,
       DiscoveredFits, WizardsFit
  <2>5. AccountsHaveRemotes'
    BY <1>0, <1>00, <1>6 DEF OAuthTimesOut, Forget, Cancel, Reaches, OnlyWizards, accountGhosts,
       AccountsHaveRemotes, WizardsFit, ChecksFit, DiscoveredFits
  <2> QED
    BY <2>1, <2>2, <2>3, <2>4, <2>5 DEF AccountsRest
<1>7. ASSUME NEW w \in Wizards, StepReady(w)
      PROVE AccountsRest'
  <2>1. WizardsFit'
    <3>1. /\ \A v \in Wizards \ {w} : wizard'[v] = wizard[v] /\ step'[v] = step[v]
          /\ wizard'[w].key = wizard[w].key /\ step[w].at = "ended"
          /\ UNCHANGED <<early, outlived>>
      BY <1>0, <1>7 DEF StepReady, Reaches, OnlyWizards, accountGhosts
    <3>2. \/ wizard'[w].shows = wizard[w].shows
          \/ Opened(w) /\ wizard'[w].shows \in {"question", "form"} /\ step'[w].at = "idle"
      BY <1>0, <1>7 DEF StepReady, Reaches, OnlyWizards, accountGhosts
    <3> QED
      BY <1>0, <1>00, <3>1, <3>2, SMTT(30) DEF WizardsFit
  <2>2. ProcessesFit'
    <3>1. /\ \A v \in Wizards \ {w} : wizard'[v] = wizard[v] /\ step'[v] = step[v]
          /\ step[w].at = "ended" /\ step'[w].at \in {"idle", "checks"}
          /\ UNCHANGED <<early, outlived, alive, authorizing>>
      BY <1>0, <1>7 DEF StepReady, Reaches, OnlyWizards, accountGhosts
    <3>2. w \notin alive \ outlived
      BY <1>00, <3>1 DEF ProcessesFit
    <3> QED
      BY <1>0, <1>00, <3>1, <3>2 DEF ProcessesFit
  <2>3. ChecksFit'
    BY <1>0, <1>00, <1>7 DEF StepReady, Reaches, OnlyWizards, accountGhosts, ChecksFit,
       WizardsFit, ProcessesFit
  <2>4. DiscoveredFits'
    BY <1>0, <1>00, <1>7 DEF StepReady, Reaches, OnlyWizards, accountGhosts, DiscoveredFits,
       WizardsFit
  <2>5. AccountsHaveRemotes'
    BY <1>0, <1>00, <1>7 DEF StepReady, Reaches, OnlyWizards, accountGhosts, AccountsHaveRemotes,
       WizardsFit, ChecksFit, DiscoveredFits
  <2> QED
    BY <2>1, <2>2, <2>3, <2>4, <2>5 DEF AccountsRest
<1>8. ASSUME NEW w \in Wizards, Validate(w)
      PROVE AccountsRest'
  <2>1. WizardsFit'
    BY <1>0, <1>00, <1>8 DEF Validate, Reaches, OnlyWizards, accountGhosts, WizardsFit
  <2>2. ProcessesFit'
    BY <1>0, <1>00, <1>8 DEF Validate, Reaches, OnlyWizards, accountGhosts, ProcessesFit,
       NoWizard, WizardsFit
  <2>3. ChecksFit'
    BY <1>0, <1>00, <1>8 DEF Validate, Reaches, OnlyWizards, accountGhosts, ChecksFit, WizardsFit,
       ProcessesFit
  <2>4. DiscoveredFits'
    BY <1>0, <1>00, <1>8 DEF Validate, Reaches, OnlyWizards, accountGhosts, DiscoveredFits,
       WizardsFit
  <2>5. AccountsHaveRemotes'
    BY <1>0, <1>00, <1>8 DEF Validate, Reaches, OnlyWizards, accountGhosts, AccountsHaveRemotes,
       WizardsFit, ChecksFit, DiscoveredFits
  <2> QED
    BY <2>1, <2>2, <2>3, <2>4, <2>5 DEF AccountsRest
<1>9. ASSUME NEW w \in Wizards, ValidationReady(w)
      PROVE AccountsRest'
  <2>1. WizardsFit'
    <3>1. /\ \A v \in Wizards \ {w} : wizard'[v] = wizard[v] /\ step'[v] = step[v]
          /\ wizard'[w].key = wizard[w].key /\ step'[w].at = "idle"
          /\ UNCHANGED <<early, outlived>>
      BY <1>0, <1>00, <1>9 DEF WizardsFit, ValidationReady, Reaches
    <3>2. \/ wizard'[w].shows = wizard[w].shows
          \/ Opened(w) /\ wizard'[w].shows \in {"question", "form"}
          \/ wizard[w].shows # "unused" /\ wizard'[w].shows \in {"closed", "done"}
      BY <1>0, <1>00, <1>9 DEF WizardsFit, ValidationReady, Reaches
    <3>3. \A v \in Wizards : Opened(v)' => Opened(v)
      BY <3>1, <3>2
    <3>4. \A v \in Wizards : wizard[v].shows \in {"closed", "done"} => wizard'[v].shows \in {"closed", "done"}
      BY <3>1, <3>2
    <3>5. \A v \in Wizards : wizard'[v].shows # "unused" => wizard'[v].key \in Keys
      BY <1>00, <3>1, <3>2 DEF WizardsFit
    <3>6. \A v \in Wizards : wizard'[v].shows \in {"unused", "form", "question"} => step'[v].at = "idle"
      BY <1>00, <3>1 DEF WizardsFit
    <3>7. \A v \in outlived : step'[v].at = "idle"
      BY <1>0, <1>00, <3>1 DEF WizardsFit
    <3> QED
      BY <1>0, <1>00, <3>1, <3>3, <3>4, <3>5, <3>6, <3>7 DEF WizardsFit
  <2>2. ProcessesFit'
    BY <1>0, <1>00, <1>9 DEF ValidationReady, Reaches, ProcessesFit, NoWizard, WizardsFit
  <2>3. ChecksFit'
    BY <1>0, <1>00, <1>9 DEF ValidationReady, Reaches, ChecksFit, WizardsFit, ProcessesFit
  <2>4. DiscoveredFits'
    BY <1>0, <1>00, <1>9 DEF ValidationReady, Reaches, DiscoveredFits, WizardsFit
  <2>5. AccountsHaveRemotes'
    <3>1. CASE UNCHANGED <<accounts, unverified>>
      BY <1>00, <1>9, <3>1 DEF ValidationReady, AccountsHaveRemotes
    <3>2. CASE step[w].brings = "complete"
      <4>1. /\ accounts' = accounts \union {wizard[w].key}
            /\ unverified' = unverified \union
                 ({wizard[w].key} \ {k \in Keys : configured[k] = "whole"})
            /\ UNCHANGED <<configured, revived, halfRemoved, unasked, early, outlived>>
        BY <1>9, <3>2 DEF ValidationReady
      <4>2. ~unasked => /\ wizard[w].key \in Keys /\ configured[wizard[w].key] # "absent"
                        /\ early = {} /\ outlived = {} => configured[wizard[w].key] = "whole"
        BY <1>0, <1>00, <1>9, <3>2 DEF ValidationReady, ChecksFit, WizardsFit
      <4> QED
        BY <1>00, <4>1, <4>2 DEF AccountsHaveRemotes
    <3> QED
      BY <1>9, <3>1, <3>2 DEF ValidationReady
  <2> QED
    BY <2>1, <2>2, <2>3, <2>4, <2>5 DEF AccountsRest
<1>10. ASSUME NEW w \in Wizards, CloseWizard(w)
      PROVE AccountsRest'
  <2>1. WizardsFit'
    BY <1>0, <1>00, <1>10 DEF CloseWizard, Cancel, WizardsFit
  <2>2. ProcessesFit'
    BY <1>0, <1>00, <1>10 DEF CloseWizard, Cancel, ProcessesFit, NoWizard, WizardsFit
  <2>3. ChecksFit'
    <3>1. /\ ~unasked' => ~unasked /\ step[w].at \notin {"checks", "checked"}
          /\ configured' = configured /\ early \subseteq early' /\ outlived' = outlived
          /\ \A v \in Wizards \ {w} : wizard'[v] = wizard[v] /\ step'[v] = step[v]
          /\ step'[w].at = step[w].at /\ Opened(w)
      <4>1. /\ \A v \in Wizards \ {w} : wizard'[v] = wizard[v] /\ step'[v] = step[v]
            /\ step'[w].at = step[w].at
        BY <1>0, <1>10 DEF CloseWizard
      <4>2. ~unasked' => ~unasked /\ step[w].at \notin {"checks", "checked"}
        BY <1>0, <1>10 DEF CloseWizard
      <4> QED
        BY <1>10, <4>1, <4>2 DEF CloseWizard
    <3>2. ~unasked => \A v \in Wizards \ {w} : step[v].at \notin {"checks", "checked"}
      BY <1>00, <3>1 DEF ChecksFit, WizardsFit
    <3> QED
      BY <3>1, <3>2 DEF ChecksFit
  <2>4. DiscoveredFits'
    BY <1>0, <1>00, <1>10 DEF CloseWizard, Cancel, DiscoveredFits, WizardsFit
  <2>5. AccountsHaveRemotes'
    BY <1>0, <1>00, <1>10 DEF CloseWizard, Cancel, AccountsHaveRemotes, WizardsFit, ChecksFit,
       DiscoveredFits
  <2> QED
    BY <2>1, <2>2, <2>3, <2>4, <2>5 DEF AccountsRest
<1>11. ASSUME NEW k \in Keys, CreateVault(k)
      PROVE AccountsRest'
  <2>1. WizardsFit'
    BY <1>0, <1>00, <1>11 DEF CreateVault, NoneOpen, OnlyAccounts, oauthVars, WizardsFit
  <2>2. ProcessesFit'
    BY <1>0, <1>00, <1>11 DEF CreateVault, NoneOpen, OnlyAccounts, oauthVars, ProcessesFit,
       NoWizard, WizardsFit
  <2>3. ChecksFit'
    BY <1>0, <1>00, <1>11 DEF CreateVault, NoneOpen, OnlyAccounts, oauthVars, ChecksFit,
       WizardsFit, ProcessesFit
  <2>4. DiscoveredFits'
    BY <1>0, <1>00, <1>11 DEF CreateVault, NoneOpen, OnlyAccounts, oauthVars, DiscoveredFits,
       WizardsFit
  <2>5. AccountsHaveRemotes'
    BY <1>0, <1>00, <1>11 DEF CreateVault, NoneOpen, OnlyAccounts, oauthVars, AccountsHaveRemotes,
       WizardsFit, ChecksFit, DiscoveredFits
  <2> QED
    BY <2>1, <2>2, <2>3, <2>4, <2>5 DEF AccountsRest
<1>12. ASSUME NEW k \in Keys, Renew(k)
      PROVE AccountsRest'
  <2>1. WizardsFit'
    BY <1>0, <1>00, <1>12 DEF Renew, NoneOpen, OnlyAccounts, oauthVars, WizardsFit
  <2>2. ProcessesFit'
    BY <1>0, <1>00, <1>12 DEF Renew, NoneOpen, OnlyAccounts, oauthVars, ProcessesFit, NoWizard,
       WizardsFit
  <2>3. ChecksFit'
    BY <1>0, <1>00, <1>12 DEF Renew, NoneOpen, OnlyAccounts, oauthVars, ChecksFit, WizardsFit,
       ProcessesFit
  <2>4. DiscoveredFits'
    BY <1>0, <1>00, <1>12 DEF Renew, NoneOpen, OnlyAccounts, oauthVars, DiscoveredFits, WizardsFit
  <2>5. AccountsHaveRemotes'
    BY <1>0, <1>00, <1>12 DEF Renew, NoneOpen, OnlyAccounts, oauthVars, AccountsHaveRemotes,
       WizardsFit, ChecksFit, DiscoveredFits
  <2> QED
    BY <2>1, <2>2, <2>3, <2>4, <2>5 DEF AccountsRest
<1>13. ASSUME NEW k \in Keys, RemoveAccount(k)
      PROVE AccountsRest'
  <2>1. WizardsFit'
    BY <1>0, <1>00, <1>13 DEF RemoveAccount, RemoveBoth, NoneOpen, OnlyAccounts, oauthVars,
       WizardsFit
  <2>2. ProcessesFit'
    BY <1>0, <1>00, <1>13 DEF RemoveAccount, RemoveBoth, NoneOpen, OnlyAccounts, oauthVars,
       ProcessesFit, NoWizard, WizardsFit
  <2>3. ChecksFit'
    BY <1>0, <1>00, <1>13 DEF RemoveAccount, RemoveBoth, NoneOpen, OnlyAccounts, oauthVars,
       ChecksFit, WizardsFit, ProcessesFit
  <2>4. DiscoveredFits'
    BY <1>0, <1>00, <1>13 DEF RemoveAccount, RemoveBoth, NoneOpen, OnlyAccounts, oauthVars,
       DiscoveredFits, WizardsFit
  <2>5. AccountsHaveRemotes'
    BY <1>0, <1>00, <1>13 DEF RemoveAccount, RemoveBoth, NoneOpen, OnlyAccounts, oauthVars,
       AccountsHaveRemotes, WizardsFit, ChecksFit, DiscoveredFits
  <2> QED
    BY <2>1, <2>2, <2>3, <2>4, <2>5 DEF AccountsRest
<1>14. CASE RenewEnds
  <2>1. WizardsFit'
    BY <1>0, <1>00, <1>14 DEF RenewEnds, OnlyAccounts, oauthVars, WizardsFit
  <2>2. ProcessesFit'
    BY <1>0, <1>00, <1>14 DEF RenewEnds, OnlyAccounts, oauthVars, ProcessesFit, NoWizard, WizardsFit
  <2>3. ChecksFit'
    BY <1>0, <1>00, <1>14 DEF RenewEnds, OnlyAccounts, oauthVars, ChecksFit, WizardsFit,
       ProcessesFit
  <2>4. DiscoveredFits'
    BY <1>0, <1>00, <1>14 DEF RenewEnds, OnlyAccounts, oauthVars, DiscoveredFits, WizardsFit
  <2>5. AccountsHaveRemotes'
    BY <1>0, <1>00, <1>14 DEF RenewEnds, OnlyAccounts, oauthVars, AccountsHaveRemotes, WizardsFit,
       ChecksFit, DiscoveredFits
  <2> QED
    BY <2>1, <2>2, <2>3, <2>4, <2>5 DEF AccountsRest
<1>15. CASE Discover
  <2>1. WizardsFit'
    BY <1>0, <1>00, <1>15 DEF Discover, NothingFound, OnlyAccounts, oauthVars, WizardsFit
  <2>2. ProcessesFit'
    BY <1>0, <1>00, <1>15 DEF Discover, NothingFound, OnlyAccounts, oauthVars, ProcessesFit,
       NoWizard, WizardsFit
  <2>3. ChecksFit'
    BY <1>0, <1>00, <1>15 DEF Discover, NothingFound, OnlyAccounts, oauthVars, ChecksFit,
       WizardsFit, ProcessesFit
  <2>4. DiscoveredFits'
    BY <1>0, <1>00, <1>15 DEF Discover, NothingFound, OnlyAccounts, oauthVars, DiscoveredFits,
       WizardsFit
  <2>5. AccountsHaveRemotes'
    BY <1>0, <1>00, <1>15 DEF Discover, NothingFound, OnlyAccounts, oauthVars,
       AccountsHaveRemotes, WizardsFit, ChecksFit, DiscoveredFits
  <2> QED
    BY <2>1, <2>2, <2>3, <2>4, <2>5 DEF AccountsRest
<1>16. CASE RuntimeLoaded
  <2>1. WizardsFit'
    BY <1>0, <1>00, <1>16 DEF RuntimeLoaded, oauthVars, WizardsFit
  <2>2. ProcessesFit'
    BY <1>0, <1>00, <1>16 DEF RuntimeLoaded, oauthVars, ProcessesFit, NoWizard, WizardsFit
  <2>3. ChecksFit'
    BY <1>0, <1>00, <1>16 DEF RuntimeLoaded, oauthVars, ChecksFit, WizardsFit, ProcessesFit
  <2>4. DiscoveredFits'
    BY <1>0, <1>00, <1>16 DEF RuntimeLoaded, oauthVars, DiscoveredFits, WizardsFit
  <2>5. AccountsHaveRemotes'
    BY <1>0, <1>00, <1>16 DEF RuntimeLoaded, oauthVars, AccountsHaveRemotes, WizardsFit,
       ChecksFit, DiscoveredFits
  <2> QED
    BY <2>1, <2>2, <2>3, <2>4, <2>5 DEF AccountsRest
<1>17. CASE AccountsRestart
  <2>1. WizardsFit'
    <3>1. /\ \A w \in Wizards : wizard'[w].key = wizard[w].key /\ step'[w].at = "idle"
          /\ early' = early /\ outlived' = outlived \union alive
      BY <1>0, <1>17 DEF AccountsRestart, NoStep
    <3>2. \A w \in Wizards : wizard'[w].shows = IF Opened(w) THEN "closed" ELSE wizard[w].shows
      BY <1>0, <1>17 DEF AccountsRestart
    <3>3. \A w \in early \union outlived' : Opened(w) \/ wizard[w].shows \in {"closed", "done"}
      BY <1>0, <1>00, <3>1 DEF WizardsFit, ProcessesFit
    <3> QED
      BY <1>0, <1>00, <3>1, <3>2, <3>3 DEF WizardsFit
  <2>2. ProcessesFit'
    BY <1>0, <1>00, <1>17 DEF AccountsRestart, NoneOpen, ProcessesFit, NoWizard, WizardsFit, NoStep
  <2>3. ChecksFit'
    BY <1>0, <1>00, <1>17 DEF AccountsRestart, NoneOpen, ChecksFit, WizardsFit, ProcessesFit, NoStep
  <2>4. DiscoveredFits'
    BY <1>0, <1>00, <1>17 DEF AccountsRestart, NoneOpen, DiscoveredFits, WizardsFit, NoStep
  <2>5. AccountsHaveRemotes'
    BY <1>0, <1>00, <1>17 DEF AccountsRestart, NoneOpen, AccountsHaveRemotes, WizardsFit,
       ChecksFit, DiscoveredFits, NoStep
  <2> QED
    BY <2>1, <2>2, <2>3, <2>4, <2>5 DEF AccountsRest
<1>18. CASE UNCHANGED accountVars
  <2>1. WizardsFit'
    BY <1>0, <1>00, <1>18 DEF accountVars, oauthVars, accountGhosts, WizardsFit
  <2>2. ProcessesFit'
    BY <1>0, <1>00, <1>18 DEF accountVars, oauthVars, accountGhosts, ProcessesFit, NoWizard,
       WizardsFit
  <2>3. ChecksFit'
    BY <1>0, <1>00, <1>18 DEF accountVars, oauthVars, accountGhosts, ChecksFit, WizardsFit,
       ProcessesFit
  <2>4. DiscoveredFits'
    BY <1>0, <1>00, <1>18 DEF accountVars, oauthVars, accountGhosts, DiscoveredFits, WizardsFit
  <2>5. AccountsHaveRemotes'
    BY <1>0, <1>00, <1>18 DEF accountVars, oauthVars, accountGhosts, AccountsHaveRemotes,
       WizardsFit, ChecksFit, DiscoveredFits
  <2> QED
    BY <2>1, <2>2, <2>3, <2>4, <2>5 DEF AccountsRest
<1> QED
  BY <1>1, <1>2, <1>3, <1>4, <1>5, <1>6, <1>7, <1>8, <1>9, <1>10, <1>11, <1>12, <1>13, <1>14,
     <1>15, <1>16, <1>17, <1>18 DEF AccountsNext

LEMMA AccountsInvNext == AccountsInv /\ [AccountsNext]_accountVars => AccountsInv'
BY AccountsTypes, AccountsStep DEF AccountsInv

\* One authorization runs at a time and it is the one that closing the wizard stops, unless
\* that was closed before there was a process ("early"); what is listed has a remote and was
\* authorized (rclone.py, OAuthWizard), until a wizard listed what it had not asked about, the
\* start's list was old, or a removal was cut off (see AccountsHaveRemotes).
THEOREM AccountsStayAuthorized == AccountsSpec => []AccountsAreAuthorized
<1>1. AccountsInv => OneAuthorization
  BY DEF AccountsInv, AccountsRest, AccountsTypeOK, ProcessesFit, OneAuthorization
<1>2. AccountsInv => AccountsAreAuthorized
  BY <1>1 DEF AccountsInv, AccountsRest, AccountsAreAuthorized
<1> QED
  BY <1>2, AccountsInvInit, AccountsInvNext, PTL DEF AccountsSpec

-----------------------------------------------------------------------------
(* A mapping of Proton's client *)

VersionTrees == [ProtonFiles -> 0..saves]
PlanType == [both : SUBSET ProtonFiles, replace : SUBSET ProtonFiles,
   merge : SUBSET ProtonFiles]
RunType == [at : {"idle", "list", "scan", "transfer", "compare"}, local : VersionTrees,
            remote : VersionTrees, plan : PlanType, transfers : BOOLEAN]
ProtonShaped ==
  /\ saves \in Nat /\ here \in VersionTrees /\ there \in VersionTrees
  /\ wanted \subseteq 1..saves
  /\ known \in [saved : BOOLEAN, local : VersionTrees, remote : VersionTrees]
  /\ run \in RunType

\* Version v of f is twice there: on both sides, or in a copy.
Doubled(f, v) == v \in wanted => v \in copies \/ (here[f] = v /\ there[f] = v)

\* What the state file knows of f is on both sides until a user replaces it.
KnownIsDoubled ==
  \A f \in ProtonFiles : Doubled(f, known.local[f]) /\ Doubled(f, known.remote[f])

\* A download replaces nothing that is not doubled, nor does an upload once the conflict
\* copies are made; what is not to be transferred, or has been, is doubled.
PlanFits ==
  /\ run.plan.replace \intersect run.plan.merge = {}
  /\ run.plan.both \subseteq run.plan.merge
  /\ \A f \in ProtonFiles :
       /\ f \notin run.plan.merge => Doubled(f, here[f])
       /\ f \notin run.plan.replace \union run.plan.both => Doubled(f, there[f])

\* The listing is what the cloud has, but for what users saved since, and so is the
\* measured tree.
ListingFits == \A f \in ProtonFiles :
                 /\ there[f] \in wanted => run.remote[f] = there[f]
                 /\ run.remote[f] \in wanted => run.remote[f] = there[f]
MeasureFits == \A f \in ProtonFiles : run.local[f] \in wanted => run.local[f] = here[f]

RunFits ==
  /\ run.at = "scan" => ListingFits
  /\ run.at \in {"transfer", "compare"} => PlanFits
  /\ run.at = "transfer" /\ ~run.transfers => run.plan = NoPlan /\ ListingFits
  /\ run.at = "compare" => run.plan = NoPlan /\ MeasureFits

BothAreKept == direction = "two_way" /\ policy = "keep_both"
ProtonInv ==
  /\ ProtonShaped
  /\ BothAreKept => KnownIsDoubled /\ RunFits /\ ConflictsKeepBoth

LEMMA ProtonInvInit == ProtonInit => ProtonInv
<1> SUFFICES ASSUME ProtonInit
             PROVE  ProtonInv
  OBVIOUS
<1>1. Absent \in [ProtonFiles -> 0..0]
  BY DEF Absent
<1>2. NoPlan \in PlanType
  BY DEF NoPlan, PlanType
<1> QED
  BY <1>1, <1>2 DEF ProtonInit, NoState, NotRunning, ProtonInv, ProtonShaped, RunType,
     VersionTrees,
     KnownIsDoubled, Doubled, RunFits, ConflictsKeepBoth

LEMMA ProtonInvHolds == ProtonInv => ConflictsKeepBoth
BY DEF ProtonInv, BothAreKept, ConflictsKeepBoth

LEMMA PlanIsTyped ==
  ASSUME NEW local, NEW remote
  PROVE  TransferPlan(local, remote) \in PlanType
<1>1. CASE direction = "upload_only"
  BY <1>1 DEF TransferPlan, NoPlan, PlanType
<1>2. CASE direction = "download_only"
  BY <1>2 DEF TransferPlan, NoPlan, PlanType
<1>3. CASE direction \notin {"upload_only", "download_only"}
  BY <1>3 DEF TransferPlan, NoPlan, PlanType
<1> QED
  BY <1>1, <1>2, <1>3

\* What two-way synchronization that keeps both plans for a file.
LEMMA PlanOfFile ==
  ASSUME BothAreKept, NEW local \in [ProtonFiles -> Nat], NEW remote \in [ProtonFiles -> Nat]
  PROVE  LET plan == TransferPlan(local, remote) IN
           /\ plan \in PlanType
           /\ \A f \in ProtonFiles :
                LET newHere == known.local[f] # local[f]
                    newThere == known.remote[f] # remote[f]
                    onBoth == local[f] # 0 /\ remote[f] # 0
                IN  /\ f \in plan.both <=> onBoth /\ newHere /\ newThere
                    /\ f \in plan.replace <=> \/ local[f] = 0 /\ remote[f] # 0
                                              \/ onBoth /\ newThere /\ ~newHere
                    /\ f \in plan.merge <=> \/ local[f] # 0 /\ remote[f] = 0
                                            \/ onBoth /\ newHere
<1> DEFINE newHere(f) == known.local[f] # local[f]
           newThere(f) == known.remote[f] # remote[f]
           onBoth == {f \in ProtonFiles : local[f] # 0 /\ remote[f] # 0}
           onlyHere == {f \in ProtonFiles : local[f] # 0 /\ remote[f] = 0}
           onlyThere == {f \in ProtonFiles : local[f] = 0 /\ remote[f] # 0}
           conflicts == {f \in onBoth : newHere(f) /\ newThere(f)}
           localEdits == {f \in onBoth : newHere(f) /\ ~newThere(f)}
           arrived == {f \in onBoth : newThere(f) /\ ~newHere(f)}
<1>1. TransferPlan(local, remote) =
        [both |-> conflicts, replace |-> onlyThere \union arrived \union {},
         merge |-> onlyHere \union localEdits \union conflicts]
  BY DEF TransferPlan, BothAreKept
<1>2. TransferPlan(local, remote) \in PlanType
  BY <1>1 DEF PlanType
<1>3. ASSUME NEW f \in ProtonFiles
      PROVE  LET plan == TransferPlan(local, remote) IN
               /\ f \in plan.both <=> f \in conflicts
               /\ f \in plan.replace <=> f \in onlyThere \/ f \in arrived
               /\ f \in plan.merge <=> f \in onlyHere \/ f \in localEdits \/ f \in conflicts
  BY <1>1
<1> QED
  BY <1>2, <1>3

\* The version trees of now are those of later.
LEMMA TreesStay ==
  ASSUME saves \in Nat, saves' \in {saves, saves + 1}
  PROVE  VersionTrees \subseteq VersionTrees' /\ 1..saves \subseteq 1..saves'
<1>1. 0..saves \subseteq 0..saves' /\ 1..saves \subseteq 1..saves'
  OBVIOUS
<1> QED
  BY <1>1 DEF VersionTrees

\* A user's save or deletion on either side: what it replaces is wanted no longer, and what
\* it makes is wanted only between two runs.
LEMMA UserChanges ==
  ASSUME ProtonInv, NEW f \in ProtonFiles, NEW value \in {0, saves + 1},
         saves' \in {saves, saves + 1}, value <= saves',
         \/ here' = [here EXCEPT ![f] = value] /\ UserSets(here, f, value) /\ there' = there
         \/ there' = [there EXCEPT ![f] = value] /\ UserSets(there, f, value) /\ here' = here,
         UNCHANGED <<choiceVars, copies, known, run>>
  PROVE  ProtonInv'
<1>1. ProtonShaped'
  <2>1. VersionTrees \subseteq VersionTrees' /\ saves' \in Nat /\ value \in 0..saves'
        /\ 1..saves \subseteq 1..saves' /\ (value # 0 => value \in 1..saves')
    BY TreesStay DEF ProtonInv, ProtonShaped, RunType
  <2>2. here' \in VersionTrees' /\ there' \in VersionTrees' /\ wanted' \subseteq 1..saves'
    <3>1. wanted \subseteq 1..saves' /\ wanted' \subseteq wanted \union ({value} \ {0})
      BY <2>1 DEF UserSets, ProtonInv, ProtonShaped
    <3>2. here \in VersionTrees' /\ there \in VersionTrees'
      BY <2>1 DEF ProtonInv, ProtonShaped, RunType
    <3> QED
      BY <2>1, <3>1, <3>2 DEF VersionTrees
  <2>3. /\ known \in [saved : BOOLEAN, local : VersionTrees', remote : VersionTrees']
        /\ run \in [at : {"idle", "list", "scan", "transfer", "compare"},
                    local : VersionTrees', remote : VersionTrees', plan : PlanType,
                    transfers : BOOLEAN]
    BY <2>1 DEF ProtonInv, ProtonShaped, RunType
  <2> QED
    BY <2>1, <2>2, <2>3 DEF ProtonShaped, RunType
<1> SUFFICES ASSUME BothAreKept
             PROVE  KnownIsDoubled' /\ RunFits' /\ ConflictsKeepBoth'
  BY <1>1 DEF ProtonInv, BothAreKept, choiceVars
<1>2. KnownIsDoubled /\ RunFits /\ ConflictsKeepBoth
  BY DEF ProtonInv
<1>3. \A g \in ProtonFiles : /\ here[g] \in 0..saves /\ there[g] \in 0..saves
                             /\ known.local[g] \in 0..saves /\ known.remote[g] \in 0..saves
                             /\ run.local[g] \in 0..saves /\ run.remote[g] \in 0..saves
  BY DEF ProtonInv, ProtonShaped, RunType, VersionTrees
<1>4. saves \in Nat /\ wanted \subseteq 1..saves
  BY DEF ProtonInv, ProtonShaped, RunType
<1>5. \A g \in ProtonFiles, v \in 0..saves : Doubled(g, v) => Doubled(g, v)'
  BY <1>3, <1>4 DEF Doubled, UserSets, ProtonInv, ProtonShaped, VersionTrees
<1>6. KnownIsDoubled'
  BY <1>2, <1>3, <1>5 DEF KnownIsDoubled
<1>7. ConflictsKeepBoth'
  <2> SUFFICES ASSUME NEW v \in wanted'
               PROVE  (\E g \in ProtonFiles : v \in {here'[g], there'[g]}) \/ v \in copies'
    BY DEF ConflictsKeepBoth
  <2>1. here \in [ProtonFiles -> 0..saves] /\ there \in [ProtonFiles -> 0..saves]
    BY DEF ProtonInv, ProtonShaped, RunType, VersionTrees
  <2>2. v = value \/ v \in wanted
    BY DEF UserSets
  <2>3. v = value => v \in {here'[f], there'[f]}
    BY <2>1
  <2>4. ASSUME v \in wanted, v # value, v \notin copies
        PROVE  \E g \in ProtonFiles : v \in {here'[g], there'[g]}
    <3>1. PICK g \in ProtonFiles : v \in {here[g], there[g]}
      BY <1>2, <2>4 DEF ConflictsKeepBoth, BothAreKept
    <3>2. /\ here'[g] = here[g] \/ (g = f /\ v # here[g])
          /\ there'[g] = there[g] \/ (g = f /\ v # there[g])
      BY <2>1, <2>4 DEF UserSets
    <3> QED
      BY <3>1, <3>2
  <2> QED
    BY <2>2, <2>3, <2>4
<1>8. ASSUME run.at # "idle"
      PROVE  /\ wanted' \subseteq wanted /\ value \notin wanted'
             /\ \A g \in ProtonFiles :
                  /\ here'[g] = here[g] \/ (here'[g] = value /\ here[g] \notin wanted')
                  /\ there'[g] = there[g] \/ (there'[g] = value /\ there[g] \notin wanted')
  BY <1>3, <1>4, <1>8 DEF UserSets, ProtonInv, ProtonShaped, VersionTrees
<1>9. ASSUME run.at # "idle", ListingFits
      PROVE  ListingFits'
  BY <1>8, <1>9 DEF ListingFits
<1>10. ASSUME run.at # "idle", PlanFits
       PROVE  PlanFits'
  <2>1. ASSUME NEW g \in ProtonFiles, Doubled(g, here[g])
        PROVE  Doubled(g, here[g])'
    BY <1>3, <1>5, <1>8, <1>10, <2>1 DEF Doubled
  <2>2. ASSUME NEW g \in ProtonFiles, Doubled(g, there[g])
        PROVE  Doubled(g, there[g])'
    BY <1>3, <1>5, <1>8, <1>10, <2>2 DEF Doubled
  <2> QED
    BY <1>10, <2>1, <2>2 DEF PlanFits
<1>11. ASSUME run.at # "idle", MeasureFits
       PROVE  MeasureFits'
  BY <1>8, <1>11 DEF MeasureFits
<1>12. RunFits'
  BY <1>2, <1>9, <1>10, <1>11 DEF RunFits
<1> QED
  BY <1>6, <1>7, <1>12

LEMMA ProtonInvNext == ProtonInv /\ [ProtonNext]_protonVars => ProtonInv'
<1> SUFFICES ASSUME ProtonInv, [ProtonNext]_protonVars
             PROVE  ProtonInv'
  OBVIOUS
<1>1. /\ ProtonShaped /\ saves \in Nat /\ wanted \subseteq 1..saves
      /\ here \in [ProtonFiles -> 0..saves] /\ there \in [ProtonFiles -> 0..saves]
      /\ known.local \in [ProtonFiles -> 0..saves] /\ known.remote \in [ProtonFiles -> 0..saves]
      /\ run.local \in [ProtonFiles -> 0..saves] /\ run.remote \in [ProtonFiles -> 0..saves]
  BY DEF ProtonInv, ProtonShaped, RunType, VersionTrees
<1>2. /\ Absent \in [ProtonFiles -> 0..saves] /\ NoPlan \in PlanType
      /\ \A f \in ProtonFiles : Absent[f] = 0
      /\ NoPlan.both = {} /\ NoPlan.replace = {} /\ NoPlan.merge = {}
  BY <1>1 DEF Absent, NoPlan, PlanType
<1>3. ASSUME NEW f \in ProtonFiles,
   SaveHere(f) \/ SaveThere(f) \/ DeleteHere(f) \/ DeleteThere(f)
      PROVE  ProtonInv'
  BY <1>1, <1>3, UserChanges DEF SaveHere, SaveThere, DeleteHere, DeleteThere
<1>4. ASSUME UNCHANGED <<choiceVars, here, there, copies, known, saves, wanted>>,
             run' = NotRunning \/ run' = [NotRunning EXCEPT !.at = "list"] \/ run' = run
      PROVE  ProtonInv'
  <2>1. ProtonShaped'
    <3>1. NotRunning \in RunType /\ [NotRunning EXCEPT !.at = "list"] \in RunType
      BY <1>1, <1>2 DEF NotRunning, RunType, VersionTrees
    <3> QED
      BY <1>1, <1>4, <3>1 DEF ProtonShaped, RunType, VersionTrees
  <2> SUFFICES ASSUME BothAreKept
               PROVE  KnownIsDoubled' /\ RunFits' /\ ConflictsKeepBoth'
    BY <1>4, <2>1 DEF ProtonInv, BothAreKept, choiceVars
  <2>2. KnownIsDoubled' /\ ConflictsKeepBoth'
    BY <1>4 DEF ProtonInv, KnownIsDoubled, Doubled, ConflictsKeepBoth, choiceVars
  <2>3. run' = run \/ run'.at \in {"idle", "list"}
    BY <1>4 DEF NotRunning
  <2>4. RunFits'
    BY <1>4, <2>3 DEF ProtonInv, RunFits, ListingFits, MeasureFits, PlanFits, Doubled
  <2> QED
    BY <2>2, <2>4
<1>5. CASE RunStarts \/ CancelRequested \/ CallRefused \/ CallFails \/ ProtonRestart
           \/ UNCHANGED protonVars
  BY <1>4, <1>5 DEF RunStarts, CancelRequested, CallRefused, CallFails, ProtonRestart,
     protonVars
<1>6. CASE StateLost
  <2>1. ProtonShaped'
    BY <1>1, <1>2, <1>6 DEF StateLost, ProtonShaped, RunType, VersionTrees, NoState
  <2>2. KnownIsDoubled'
    BY <1>1, <1>2, <1>6 DEF StateLost, NoState, KnownIsDoubled, Doubled
  <2> QED
    BY <1>6, <2>1, <2>2 DEF StateLost, ProtonInv, BothAreKept, RunFits, ConflictsKeepBoth,
       choiceVars
<1>7. CASE ListCloud
  <2>1. /\ run' = [run EXCEPT !.at = "scan", !.remote = there]
        /\ UNCHANGED <<choiceVars, here, there, copies, known, stopping, saves, wanted>>
    BY <1>7 DEF ListCloud
  <2>2. ProtonShaped' /\ run'.at = "scan" /\ run'.remote = there
    BY <1>1, <2>1 DEF ProtonShaped, RunType, VersionTrees
  <2> QED
    BY <2>1, <2>2 DEF ProtonInv, BothAreKept, RunFits, ListingFits, KnownIsDoubled, Doubled,
       ConflictsKeepBoth, choiceVars
<1>8. CASE ScanAndPlan
  <2>1. CASE run' = NotRunning
    BY <1>4, <1>8, <2>1 DEF ScanAndPlan
  <2> DEFINE plan == TransferPlan(here, run.remote)
  <2>2. ASSUME run' = [run EXCEPT !.at = "transfer", !.local = here, !.plan = plan,
                                  !.transfers = plan # NoPlan]
        PROVE  ProtonInv'
    <3>1. UNCHANGED <<choiceVars, here, there, copies, known, stopping, saves, wanted>>
      BY <1>8 DEF ScanAndPlan
    <3>2. plan \in PlanType
      BY PlanIsTyped
    <3>3. /\ run'.at = "transfer" /\ run'.plan = plan /\ run'.remote = run.remote
          /\ run'.transfers = (plan # NoPlan) /\ run' \in RunType
      BY <1>1, <2>2, <3>2 DEF ProtonShaped, RunType, VersionTrees
    <3>4. ProtonShaped'
      BY <1>1, <3>1, <3>3 DEF ProtonShaped, RunType, VersionTrees
    <3> SUFFICES ASSUME BothAreKept
                 PROVE  KnownIsDoubled' /\ RunFits' /\ ConflictsKeepBoth'
      BY <3>1, <3>4 DEF ProtonInv, BothAreKept, choiceVars
    <3>5. ListingFits /\ KnownIsDoubled /\ ConflictsKeepBoth
      BY <1>8 DEF ScanAndPlan, ProtonInv, RunFits
    <3>6. \A f \in ProtonFiles :
            LET newHere == known.local[f] # here[f]
                newThere == known.remote[f] # run.remote[f]
                onBoth == here[f] # 0 /\ run.remote[f] # 0
            IN  /\ f \in plan.both <=> onBoth /\ newHere /\ newThere
                /\ f \in plan.replace <=> \/ here[f] = 0 /\ run.remote[f] # 0
                                          \/ onBoth /\ newThere /\ ~newHere
                /\ f \in plan.merge <=> \/ here[f] # 0 /\ run.remote[f] = 0
                                        \/ onBoth /\ newHere
      <4>1. here \in [ProtonFiles -> Nat] /\ run.remote \in [ProtonFiles -> Nat]
        BY <1>1
      <4> QED
        BY <4>1, PlanOfFile
    <3>7. ASSUME NEW f \in ProtonFiles, f \notin plan.merge
          PROVE  Doubled(f, here[f])
      BY <1>1, <3>5, <3>6, <3>7 DEF ListingFits, KnownIsDoubled, Doubled
    <3>8. ASSUME NEW f \in ProtonFiles, f \notin plan.replace, f \notin plan.both
          PROVE  Doubled(f, there[f])
      BY <1>1, <3>5, <3>6, <3>8 DEF ListingFits, KnownIsDoubled, Doubled
    <3>9. plan.replace \intersect plan.merge = {} /\ plan.both \subseteq plan.merge
      BY <3>2, <3>6 DEF PlanType
    <3>10. PlanFits' /\ ListingFits' /\ KnownIsDoubled' /\ ConflictsKeepBoth'
      BY <3>1, <3>3, <3>5, <3>7, <3>8, <3>9 DEF PlanFits, ListingFits, KnownIsDoubled, Doubled,
         ConflictsKeepBoth, choiceVars
    <3> QED
      BY <3>3, <3>10 DEF RunFits
  <2> QED
    BY <1>8, <2>1, <2>2 DEF ScanAndPlan
<1>9. ASSUME NEW kind \in {"both", "replace", "merge"}, NEW f \in ProtonFiles, Transfer(kind, f)
      PROVE  /\ run.at = "transfer" /\ f \in run.plan[kind] /\ InOrder(kind)
             /\ UNCHANGED <<choiceVars, known, saves, wanted>>
             /\ run' \in RunType /\ run'.at = "transfer" /\ run'.transfers = run.transfers
             /\ run'.plan[kind] = run.plan[kind] \ {f}
             /\ \A other \in {"both", "replace", "merge"} \ {kind} :
                  run'.plan[other] = run.plan[other]
             /\ BothAreKept => run.transfers /\ PlanFits /\ KnownIsDoubled /\ ConflictsKeepBoth
  <2>1. /\ run.at = "transfer" /\ f \in run.plan[kind] /\ InOrder(kind)
        /\ run' = [run EXCEPT !.plan[kind] = @ \ {f}]
        /\ UNCHANGED <<choiceVars, known, stopping, saves, wanted>>
    BY <1>9 DEF Transfer
  <2>2. /\ run \in RunType /\ run.plan \in PlanType
    BY <1>1 DEF ProtonShaped, RunType
  <2>3. run' = [run EXCEPT !.plan = [run.plan EXCEPT ![kind] = @ \ {f}]]
    BY <2>1, <2>2 DEF RunType
  <2>4. /\ [run.plan EXCEPT ![kind] = @ \ {f}] \in PlanType
        /\ [run.plan EXCEPT ![kind] = @ \ {f}][kind] = run.plan[kind] \ {f}
        /\ \A other \in {"both", "replace", "merge"} \ {kind} :
             [run.plan EXCEPT ![kind] = @ \ {f}][other] = run.plan[other]
    BY <2>2 DEF PlanType
  <2>5. /\ run' \in RunType /\ run'.at = "transfer" /\ run'.transfers = run.transfers
        /\ run'.plan = [run.plan EXCEPT ![kind] = @ \ {f}]
    BY <1>1, <2>1, <2>2, <2>3, <2>4 DEF RunType, VersionTrees
  <2>6. BothAreKept => run.transfers /\ PlanFits /\ KnownIsDoubled /\ ConflictsKeepBoth
    BY <1>2, <2>1 DEF ProtonInv, RunFits
  <2> QED
    BY <2>1, <2>4, <2>5, <2>6
<1>10. ASSUME NEW f \in ProtonFiles, DownloadCopy(f)
       PROVE  ProtonInv'
  <2>1. /\ run.at = "transfer" /\ f \in run.plan.both /\ InOrder("both")
        /\ UNCHANGED <<choiceVars, known, saves, wanted>>
        /\ run' \in RunType /\ run'.at = "transfer" /\ run'.transfers = run.transfers
        /\ run'.plan.both = run.plan.both \ {f}
        /\ run'.plan.replace = run.plan.replace /\ run'.plan.merge = run.plan.merge
        /\ BothAreKept => run.transfers /\ PlanFits /\ KnownIsDoubled /\ ConflictsKeepBoth
    <3>1. Transfer("both", f)
      BY <1>10 DEF DownloadCopy
    <3> QED
      BY <3>1, <1>9
  <2>2. copies' = copies \union {there[f]} /\ UNCHANGED <<here, there>>
    BY <1>10 DEF DownloadCopy
  <2>3. ProtonShaped'
    BY <1>1, <2>1, <2>2 DEF ProtonShaped, RunType, VersionTrees
  <2> SUFFICES ASSUME BothAreKept
               PROVE  KnownIsDoubled' /\ RunFits' /\ ConflictsKeepBoth'
    BY <2>1, <2>3 DEF ProtonInv, BothAreKept, choiceVars
  <2>4. \A g \in ProtonFiles, v \in Nat : Doubled(g, v) => Doubled(g, v)'
    BY <1>1, <2>1, <2>2 DEF Doubled
  <2>5. KnownIsDoubled'
    BY <1>1, <2>1, <2>4 DEF KnownIsDoubled
  <2>6. PlanFits'
    BY <1>1, <2>1, <2>2, <2>4 DEF PlanFits, Doubled, InOrder
  <2>7. ConflictsKeepBoth'
    BY <1>1, <2>1, <2>2, <2>4 DEF PlanFits, Doubled, InOrder, ConflictsKeepBoth, BothAreKept,
       choiceVars
  <2> QED
    BY <2>1, <2>5, <2>6, <2>7 DEF RunFits
<1>11. ASSUME NEW f \in ProtonFiles, DownloadReplace(f)
       PROVE  ProtonInv'
  <2>1. /\ run.at = "transfer" /\ f \in run.plan.replace /\ InOrder("replace")
        /\ UNCHANGED <<choiceVars, known, saves, wanted>>
        /\ run' \in RunType /\ run'.at = "transfer" /\ run'.transfers = run.transfers
        /\ run'.plan.replace = run.plan.replace \ {f}
        /\ run'.plan.both = run.plan.both /\ run'.plan.merge = run.plan.merge
        /\ BothAreKept => run.transfers /\ PlanFits /\ KnownIsDoubled /\ ConflictsKeepBoth
    <3>1. Transfer("replace", f)
      BY <1>11 DEF DownloadReplace
    <3> QED
      BY <3>1, <1>9
  <2>2. here' = [here EXCEPT ![f] = there[f]] /\ UNCHANGED <<there, copies>>
    BY <1>11 DEF DownloadReplace
  <2>3. ProtonShaped'
    BY <1>1, <2>1, <2>2 DEF ProtonShaped, RunType, VersionTrees
  <2> SUFFICES ASSUME BothAreKept
               PROVE  KnownIsDoubled' /\ RunFits' /\ ConflictsKeepBoth'
    BY <2>1, <2>3 DEF ProtonInv, BothAreKept, choiceVars
  <2>4. \A g \in ProtonFiles, v \in Nat : Doubled(g, v) => Doubled(g, v)'
    BY <1>1, <2>1, <2>2 DEF Doubled
  <2>5. KnownIsDoubled'
    BY <1>1, <2>1, <2>4 DEF KnownIsDoubled
  <2>6. PlanFits'
    BY <1>1, <2>1, <2>2, <2>4 DEF PlanFits, Doubled, InOrder
  <2>7. ConflictsKeepBoth'
    BY <1>1, <2>1, <2>2, <2>4 DEF PlanFits, Doubled, InOrder, ConflictsKeepBoth, BothAreKept,
       choiceVars
  <2> QED
    BY <2>1, <2>5, <2>6, <2>7 DEF RunFits
<1>12. ASSUME NEW f \in ProtonFiles, UploadMerge(f)
       PROVE  ProtonInv'
  <2>1. /\ run.at = "transfer" /\ f \in run.plan.merge /\ InOrder("merge")
        /\ UNCHANGED <<choiceVars, known, saves, wanted>>
        /\ run' \in RunType /\ run'.at = "transfer" /\ run'.transfers = run.transfers
        /\ run'.plan.merge = run.plan.merge \ {f}
        /\ run'.plan.both = run.plan.both /\ run'.plan.replace = run.plan.replace
        /\ BothAreKept => run.transfers /\ PlanFits /\ KnownIsDoubled /\ ConflictsKeepBoth
    <3>1. Transfer("merge", f)
      BY <1>12 DEF UploadMerge
    <3> QED
      BY <3>1, <1>9
  <2>2. /\ \/ here[f] = 0 /\ there' = there
           \/ there' = [there EXCEPT ![f] = here[f]]
        /\ UNCHANGED <<here, copies>>
    BY <1>12 DEF UploadMerge
  <2>3. ProtonShaped'
    BY <1>1, <2>1, <2>2 DEF ProtonShaped, RunType, VersionTrees
  <2> SUFFICES ASSUME BothAreKept
               PROVE  KnownIsDoubled' /\ RunFits' /\ ConflictsKeepBoth'
    BY <2>1, <2>3 DEF ProtonInv, BothAreKept, choiceVars
  <2>4. \A g \in ProtonFiles, v \in Nat : Doubled(g, v) => Doubled(g, v)'
    BY <1>1, <2>1, <2>2 DEF Doubled
  <2>5. KnownIsDoubled'
    BY <1>1, <2>1, <2>4 DEF KnownIsDoubled
  <2>6. PlanFits'
    BY <1>1, <2>1, <2>2, <2>4 DEF PlanFits, Doubled, InOrder
  <2>7. ConflictsKeepBoth'
    BY <1>1, <2>1, <2>2, <2>4 DEF PlanFits, Doubled, InOrder, ConflictsKeepBoth, BothAreKept,
       choiceVars
  <2> QED
    BY <2>1, <2>5, <2>6, <2>7 DEF RunFits
<1>13. CASE MeasureHere
  <2>1. UNCHANGED <<choiceVars, here, there, copies, stopping, saves, wanted>>
        /\ run.at = "transfer" /\ run.plan = NoPlan
    BY <1>13 DEF MeasureHere
  <2>2. CASE run.transfers
    <3>1. run' = [run EXCEPT !.at = "compare", !.local = here] /\ known' = known
      BY <1>13, <2>2 DEF MeasureHere
    <3>2. /\ run' \in RunType /\ run'.at = "compare" /\ run'.local = here
          /\ run'.plan = run.plan
      BY <1>1, <3>1 DEF ProtonShaped, RunType, VersionTrees
    <3>3. ProtonShaped'
      BY <1>1, <2>1, <3>1, <3>2 DEF ProtonShaped, RunType, VersionTrees
    <3> QED
      BY <2>1, <3>1, <3>2, <3>3 DEF ProtonInv, BothAreKept, RunFits, MeasureFits, PlanFits,
         KnownIsDoubled, Doubled, ConflictsKeepBoth, choiceVars
  <2>3. CASE ~run.transfers
    <3>1. /\ run' = NotRunning
          /\ known' = [saved |-> TRUE, local |-> here, remote |-> run.remote]
      BY <1>13, <2>3 DEF MeasureHere
    <3>2. ProtonShaped'
      BY <1>1, <1>2, <2>1, <3>1 DEF ProtonShaped, RunType, VersionTrees, NotRunning
    <3> SUFFICES ASSUME BothAreKept
                 PROVE  KnownIsDoubled' /\ RunFits' /\ ConflictsKeepBoth'
      BY <2>1, <3>2 DEF ProtonInv, BothAreKept, choiceVars
    <3>3. PlanFits /\ ListingFits /\ ConflictsKeepBoth
      BY <2>1, <2>3 DEF ProtonInv, RunFits
    <3>4. KnownIsDoubled'
      BY <1>2, <2>1, <3>1, <3>3 DEF PlanFits, ListingFits, KnownIsDoubled, Doubled
    <3> QED
      BY <2>1, <3>1, <3>3, <3>4 DEF RunFits, NotRunning, ConflictsKeepBoth, choiceVars
  <2> QED
    BY <2>2, <2>3
<1>14. CASE ListAgainAndSave
  <2>1. /\ UNCHANGED <<choiceVars, here, there, copies, stopping, saves, wanted>>
        /\ run.at = "compare" /\ run' = NotRunning
        /\ known' = [saved |-> TRUE, local |-> run.local, remote |-> there]
    BY <1>14 DEF ListAgainAndSave
  <2>2. ProtonShaped'
    BY <1>1, <1>2, <2>1 DEF ProtonShaped, RunType, VersionTrees, NotRunning
  <2> SUFFICES ASSUME BothAreKept
               PROVE  KnownIsDoubled' /\ RunFits' /\ ConflictsKeepBoth'
    BY <2>1, <2>2 DEF ProtonInv, BothAreKept, choiceVars
  <2>3. PlanFits /\ MeasureFits /\ run.plan = NoPlan /\ ConflictsKeepBoth
    BY <2>1 DEF ProtonInv, RunFits
  <2>4. KnownIsDoubled'
    BY <1>2, <2>1, <2>3 DEF PlanFits, MeasureFits, KnownIsDoubled, Doubled
  <2> QED
    BY <2>1, <2>3, <2>4 DEF RunFits, NotRunning, ConflictsKeepBoth, choiceVars
<1> QED
  BY <1>3, <1>5, <1>6, <1>7, <1>8, <1>10, <1>11, <1>12, <1>13, <1>14
     DEF ProtonNext

-----------------------------------------------------------------------------
(* A mapping of a branch on GitHub *)

GitSteps ==
  {"idle", "look", "clone", "changes", "add", "commit", "fetch", "rebase", "rebasing", "abort",
   "ancestor", "ahead", "push", "status", "ls-remote", "merge"}
GitCommits == [id : Nat, change : UNION {[some -> Nat] : some \in SUBSET GitFiles}]
GitShaped ==
  /\ github \in Seq(GitCommits) /\ history \in Seq(GitCommits) /\ tracking \in Seq(GitCommits)
  /\ work \in [GitFiles -> Nat] /\ git \in [at : GitSteps, index : [GitFiles -> Nat]]
  /\ gitEdits \in Nat /\ wantedEdits \subseteq Nat \ {0}

\* There are commits once there is a repository, and nothing but a clone goes on without.
CloneIsFirst ==
  /\ repository = "none" => history = <<>>
  /\ git.at = "clone" => repository = "none"
  /\ rebasing \/ git.at \notin {"idle", "look", "clone"} => repository # "none"

\* While git rebases, nothing that it will touch has been edited before.
RebasesClean ==
  rebasing =>
    /\ git.at \in {"idle", "look", "rebasing", "abort"}
    /\ \A f \in GitFiles :
         TreeOf(history)[f] # 0 \/ TreeOf(tracking)[f] # 0
           => work[f] \in {0, TreeOf(history)[f]} \union undone

\* What is gone from the working tree, from what was staged or from a branch was deleted.
DeletedIn(commits) ==
  \A i \in DOMAIN commits : \A f \in DOMAIN commits[i].change :
    commits[i].change[f] = 0 => f \in deletedFiles
GoneWasDeleted ==
  /\ DeletedIn(github) /\ DeletedIn(history) /\ DeletedIn(tracking)
  /\ \A f \in GitFiles : work[f] = 0 /\ TreeOf(history)[f] # 0 => f \in deletedFiles
  /\ git.at = "commit" =>
       \A f \in GitFiles :
         /\ work[f] = 0 /\ git.index[f] # 0 => f \in deletedFiles
         /\ git.index[f] = 0 /\ TreeOf(history)[f] # 0 => f \in deletedFiles

\* What a run has staged is on its way to GitHub.
StagedGoesOn ==
  /\ git.at \in {"look", "clone", "changes", "add", "status", "ls-remote"} => staged = {}
  /\ git.at = "commit" => staged \subseteq {git.index[f] : f \in GitFiles} \ {0}
  /\ git.at \in {"fetch", "rebase", "rebasing", "abort", "ancestor", "ahead", "push", "merge"}
       => staged \subseteq Content(history)
  /\ IsPrefix(tracking, github)
  /\ green => /\ git.at = "idle" /\ IsPrefix(history, github)
              /\ staged \subseteq Content(github)

GitInv ==
  /\ GitShaped /\ CloneIsFirst /\ RebasesClean /\ EditsAreKept
  /\ ~cutOff => GoneWasDeleted
  /\ StagedGoesOn

-----------------------------------------------------------------------------
\* A set of naturals that are no greater than some number has a greatest one.
LEMMA BoundedHasMax ==
  ASSUME NEW S \in SUBSET Nat, S # {}, NEW n \in Nat, \A x \in S : x <= n
  PROVE  Max(S) \in S /\ \A x \in S : Max(S) >= x
<1> DEFINE gaps == {n - x : x \in S}
<1>1. gaps \subseteq Nat /\ gaps # {}
  <2>1. \A x \in S : n - x \in Nat
    OBVIOUS
  <2>2. PICK x : x \in S
    OBVIOUS
  <2>3. n - x \in gaps
    BY <2>2
  <2> QED
    BY <2>1, <2>3
<1>2. \E g \in gaps : \A h \in gaps : ~ (<<h, g>> \in OpToRel(<, Nat))
  BY <1>1, NatLessThanWellFounded, WFMin
<1>3. PICK g \in gaps : \A h \in gaps : ~(h < g)
  BY <1>1, <1>2 DEF OpToRel
<1>4. PICK x \in S : g = n - x
  OBVIOUS
<1>5. \A y \in S : x >= y
  BY <1>3, <1>4, SMTT(30)
<1> QED
  BY <1>5 DEF Max

\* What a commit changes, and what the commits of a history have in it.
LEMMA CommitFacts ==
  ASSUME NEW h \in Seq(GitCommits)
  PROVE  /\ DOMAIN h = 1..Len(h) /\ Len(h) \in Nat
         /\ \A i \in 1..Len(h) : /\ h[i] \in GitCommits
                                 /\ DOMAIN h[i].change \subseteq GitFiles
                                 /\ \A f \in DOMAIN h[i].change : h[i].change[f] \in Nat
<1>1. DOMAIN h = 1..Len(h) /\ Len(h) \in Nat
  BY LenProperties
<1>2. \A i \in 1..Len(h) : h[i] \in GitCommits
  BY ElementOfSeq
<1> QED
  BY <1>1, <1>2 DEF GitCommits

LEMMA ContentFacts ==
  ASSUME NEW h, NEW w
  PROVE  w \in Content(h) <=>
           \E i \in DOMAIN h : \E f \in DOMAIN h[i].change : w = h[i].change[f]
BY DEF Content

\* A file's content is that of the last commit that changes it.
LastChange(h, f, i) ==
  /\ i \in DOMAIN h /\ f \in DOMAIN h[i].change
  /\ \A j \in DOMAIN h : f \in DOMAIN h[j].change => j <= i

LEMMA TreeIsLastChange ==
  ASSUME NEW h \in Seq(GitCommits), NEW f \in GitFiles, NEW i, LastChange(h, f, i)
  PROVE  TreeOf(h)[f] = h[i].change[f]
<1> DEFINE touching == {j \in DOMAIN h : f \in DOMAIN h[j].change}
<1>1. touching \subseteq Nat /\ i \in touching /\ \A j \in touching : j <= i
  BY CommitFacts DEF LastChange
<1>2. Max(touching) = i
  <2> HIDE DEF touching
  <2>1. i \in Nat /\ touching # {}
    BY <1>1
  <2>2. Max(touching) \in touching /\ Max(touching) >= i
    BY <1>1, <2>1, BoundedHasMax
  <2>3. Max(touching) \in Nat /\ Max(touching) <= i
    BY <1>1, <2>2
  <2> QED
    BY <2>1, <2>2, <2>3
<1> QED
  BY <1>1, <1>2 DEF TreeOf

LEMMA TreeIsEmpty ==
  ASSUME NEW h, NEW f \in GitFiles, \A i \in DOMAIN h : f \notin DOMAIN h[i].change
  PROVE  TreeOf(h)[f] = 0
BY DEF TreeOf

LEMMA TreeHasLast ==
  ASSUME NEW h \in Seq(GitCommits), NEW f \in GitFiles, NEW j \in DOMAIN h, f \in DOMAIN h[j].change
  PROVE  \E i : LastChange(h, f, i)
<1> DEFINE touching == {i \in DOMAIN h : f \in DOMAIN h[i].change}
<1>1. touching \in SUBSET Nat /\ touching # {} /\ \A i \in touching : i <= Len(h)
  BY CommitFacts
<1>2. Max(touching) \in touching /\ \A i \in touching : Max(touching) >= i
  <2> HIDE DEF touching
  <2> QED
    BY <1>1, BoundedHasMax, CommitFacts
<1>3. LastChange(h, f, Max(touching))
  BY <1>1, <1>2, CommitFacts DEF LastChange
<1> QED
  BY <1>3

LEMMA TreeFacts ==
  ASSUME NEW h \in Seq(GitCommits), NEW f \in GitFiles
  PROVE  TreeOf(h)[f] \in Nat /\ (TreeOf(h)[f] # 0 => TreeOf(h)[f] \in Content(h))
<1>1. CASE \A i \in DOMAIN h : f \notin DOMAIN h[i].change
  BY <1>1, TreeIsEmpty
<1>2. CASE \E i \in DOMAIN h : f \in DOMAIN h[i].change
  <2>1. PICK i : LastChange(h, f, i)
    BY <1>2, TreeHasLast
  <2>2. TreeOf(h)[f] = h[i].change[f]
    BY <2>1, TreeIsLastChange
  <2> QED
    BY <2>1, <2>2, CommitFacts, ContentFacts DEF LastChange
<1> QED
  BY <1>1, <1>2

LEMMA TreeAfter ==
  ASSUME NEW h \in Seq(GitCommits), NEW c \in GitCommits, NEW f \in GitFiles
  PROVE  TreeOf(Append(h, c))[f] = IF f \in DOMAIN c.change THEN c.change[f] ELSE TreeOf(h)[f]
<1> DEFINE g == Append(h, c)
<1>1. /\ g \in Seq(GitCommits) /\ Len(h) \in Nat /\ DOMAIN h = 1..Len(h)
      /\ DOMAIN g = 1..(Len(h) + 1) /\ g[Len(h) + 1] = c
      /\ \A i \in 1..Len(h) : g[i] = h[i]
  BY CommitFacts, AppendProperties
<1> HIDE DEF g
<1>2. CASE f \in DOMAIN c.change
  <2>1. LastChange(g, f, Len(h) + 1)
    BY <1>1, <1>2 DEF LastChange
  <2>2. TreeOf(g)[f] = g[Len(h) + 1].change[f]
    BY <1>1, <2>1, TreeIsLastChange
  <2> QED
    BY <1>1, <1>2, <2>2 DEF g
<1>3. CASE f \notin DOMAIN c.change
  <2>1. CASE \A i \in DOMAIN h : f \notin DOMAIN h[i].change
    <3>1. \A i \in DOMAIN g : f \notin DOMAIN g[i].change
      BY <1>1, <1>3, <2>1
    <3> QED
      BY <1>3, <2>1, <3>1, TreeIsEmpty DEF g
  <2>2. CASE \E i \in DOMAIN h : f \in DOMAIN h[i].change
    <3>1. PICK i : LastChange(h, f, i)
      BY <2>2, TreeHasLast
    <3>2. LastChange(g, f, i) /\ g[i] = h[i]
      BY <1>1, <1>3, <3>1 DEF LastChange
    <3>3. TreeOf(g)[f] = g[i].change[f] /\ TreeOf(h)[f] = h[i].change[f]
      BY <1>1, <3>1, <3>2, TreeIsLastChange
    <3> QED
      BY <1>3, <3>2, <3>3 DEF g
  <2> QED
    BY <2>1, <2>2
<1> QED
  BY <1>2, <1>3

LEMMA PrefixFacts ==
  ASSUME NEW S, NEW s \in Seq(S), NEW t \in Seq(S)
  PROVE  IsPrefix(s, t) <=> Len(s) <= Len(t) /\ \A i \in 1..Len(s) : s[i] = t[i]
<1>1. Len(s) \in Nat /\ Len(t) \in Nat
  BY LenProperties
<1>2. ASSUME Len(s) <= Len(t)
      PROVE  /\ SubSeq(s, 1, Len(s)) \in Seq(S) /\ SubSeq(t, 1, Len(s)) \in Seq(S)
             /\ Len(SubSeq(s, 1, Len(s))) = Len(s) /\ Len(SubSeq(t, 1, Len(s))) = Len(s)
             /\ \A i \in 1..Len(s) : /\ SubSeq(s, 1, Len(s))[i] = s[i]
                                     /\ SubSeq(t, 1, Len(s))[i] = t[i]
  <2>1. \A i \in 1..Len(s) : s[i] \in S /\ t[i] \in S
    BY <1>1, <1>2, ElementOfSeq
  <2> QED
    BY <1>1, <2>1, SubSeqProperties
<1>3. ASSUME Len(s) <= Len(t), \A i \in 1..Len(s) : s[i] = t[i]
      PROVE  SubSeq(s, 1, Len(s)) = SubSeq(t, 1, Len(s))
  BY <1>1, <1>2, <1>3, SeqEqual
<1> QED
  BY <1>2, <1>3 DEF IsPrefix

LEMMA EmptyIsPrefix ==
  ASSUME NEW S, NEW t \in Seq(S)
  PROVE  IsPrefix(<<>>, t)
<1>1. <<>> \in Seq(S) /\ Len(<<>>) = 0 /\ Len(t) \in Nat
  BY EmptySeq, LenProperties
<1>2. Len(<<>>) <= Len(t) /\ \A i \in 1..Len(<<>>) : <<>>[i] = t[i]
  BY <1>1
<1> QED
  BY <1>1, <1>2, PrefixFacts

LEMMA PrefixesCompose ==
  ASSUME NEW S, NEW s \in Seq(S), NEW t \in Seq(S), NEW u \in Seq(S)
  PROVE  /\ IsPrefix(s, s)
         /\ IsPrefix(s, t) /\ IsPrefix(t, u) => IsPrefix(s, u)
<1>1. Len(s) \in Nat /\ Len(t) \in Nat /\ Len(u) \in Nat
  BY LenProperties
<1> QED
  BY <1>1, PrefixFacts

LEMMA PrefixOfLonger ==
  ASSUME NEW S, NEW s \in Seq(S), NEW t \in Seq(S), NEW e \in S, IsPrefix(s, t)
  PROVE  IsPrefix(s, Append(t, e))
<1>1. Len(s) \in Nat /\ Len(t) \in Nat
  BY LenProperties
<1>2. IsPrefix(t, Append(t, e))
  <2> DEFINE u == Append(t, e)
  <2>1. u \in Seq(S) /\ Len(t) <= Len(u) /\ \A i \in 1..Len(t) : t[i] = u[i]
    BY <1>1, AppendProperties
  <2> HIDE DEF u
  <2>2. IsPrefix(t, u)
    BY <2>1, PrefixFacts
  <2> QED
    BY <2>2 DEF u
<1> QED
  BY <1>2, AppendProperties, PrefixesCompose

\* A longer history has the commits of a shorter one, and so their contents.
CommitsIn(s, t) == \A i \in DOMAIN s : \E j \in DOMAIN t : t[j] = s[i]

LEMMA ContentStays ==
  ASSUME NEW s, NEW t, CommitsIn(s, t)
  PROVE  Content(s) \subseteq Content(t)
BY ContentFacts DEF CommitsIn

LEMMA PrefixIsIn ==
  ASSUME NEW s \in Seq(GitCommits), NEW t \in Seq(GitCommits), IsPrefix(s, t)
  PROVE  CommitsIn(s, t)
<1>1. /\ DOMAIN s = 1..Len(s) /\ DOMAIN t = 1..Len(t) /\ Len(s) \in Nat /\ Len(t) \in Nat
      /\ Len(s) <= Len(t) /\ \A i \in 1..Len(s) : s[i] = t[i]
  BY LenProperties, PrefixFacts
<1>2. \A i \in DOMAIN s : i \in DOMAIN t /\ t[i] = s[i]
  BY <1>1
<1> QED
  BY <1>2 DEF CommitsIn

\* The local branch and the fetched one have a longest prefix in common.
LEMMA CommonPartIsPrefix ==
  ASSUME history \in Seq(GitCommits), tracking \in Seq(GitCommits)
  PROVE  /\ CommonPart \in Seq(GitCommits)
         /\ IsPrefix(CommonPart, history) /\ IsPrefix(CommonPart, tracking)
<1> DEFINE common == CommonPrefixes({history, tracking})
           lengths == {Len(p) : p \in common}
<1>1. \A s \in Seq(GitCommits) : \A l \in 0..Len(s) : SubSeq(s, 1, l) \in Seq(GitCommits)
  <2> SUFFICES ASSUME NEW s \in Seq(GitCommits), NEW l \in 0..Len(s)
               PROVE  SubSeq(s, 1, l) \in Seq(GitCommits)
    OBVIOUS
  <2>1. Len(s) \in Nat /\ \A i \in 1..l : s[i] \in GitCommits
    BY LenProperties, ElementOfSeq
  <2> QED
    BY <2>1, SubSeqProperties
<1>2. \A p \in common : /\ p \in Seq(GitCommits) /\ IsPrefix(p, history) /\ IsPrefix(p, tracking)
                        /\ Len(p) \in Nat /\ Len(p) <= Len(history)
  <2> TAKE p \in common
  <2>1. p \in Prefixes(history) \union Prefixes(tracking)
    BY DEF CommonPrefixes
  <2>2. p \in Seq(GitCommits) /\ IsPrefix(p, history) /\ IsPrefix(p, tracking)
    BY <1>1, <2>1 DEF CommonPrefixes, Prefixes
  <2> HIDE DEF common
  <2> QED
    BY <2>2, LenProperties, PrefixFacts
<1>3. <<>> \in common
  <2>1. Len(history) \in Nat /\ SubSeq(history, 1, 0) = <<>>
    BY LenProperties, SubSeqEmpty
  <2>2. <<>> \in Prefixes(history)
    BY <2>1 DEF Prefixes
  <2>3. IsPrefix(<<>>, history) /\ IsPrefix(<<>>, tracking)
    BY EmptyIsPrefix
  <2> QED
    BY <2>2, <2>3 DEF CommonPrefixes
<1>4. lengths \in SUBSET Nat /\ lengths # {} /\ \A n \in lengths : n <= Len(history)
  BY <1>2, <1>3
<1>5. PICK n \in lengths : \A m \in lengths : n >= m
  <2> HIDE DEF lengths
  <2> QED
    BY <1>4, LenProperties, BoundedHasMax
<1>6. PICK p \in common : n = Len(p)
  OBVIOUS
<1>7. \A other \in common : Len(other) <= Len(p)
  BY <1>2, <1>5, <1>6
<1>8. CommonPart \in common
  BY <1>7 DEF CommonPart, LongestCommonPrefix
<1> QED
  BY <1>2, <1>8

\* A rebased branch continues the fetched one, and has the commits of both and no others.
LEMMA RebasedFacts ==
  ASSUME history \in Seq(GitCommits), tracking \in Seq(GitCommits)
  PROVE  /\ Rebased \in Seq(GitCommits)
         /\ CommitsIn(history, Rebased)
         /\ \A i \in DOMAIN Rebased : \/ \E j \in DOMAIN history : Rebased[i] = history[j]
                                      \/ \E j \in DOMAIN tracking : Rebased[i] = tracking[j]
<1> DEFINE n == Len(CommonPart)
           own == Beyond(history)
<1>1. /\ Len(history) \in Nat /\ DOMAIN history = 1..Len(history)
      /\ Len(tracking) \in Nat /\ DOMAIN tracking = 1..Len(tracking)
  BY LenProperties
<1>2. /\ n \in Nat /\ n <= Len(history) /\ n <= Len(tracking)
      /\ \A i \in 1..n : history[i] = tracking[i]
  BY <1>1, LenProperties, CommonPartIsPrefix, PrefixFacts
<1>3. /\ own \in Seq(GitCommits) /\ Len(own) = Len(history) - n
      /\ \A i \in 1..(Len(history) - n) : own[i] = history[n + i]
  <2> HIDE DEF n
  <2>1. \A i \in (n + 1)..Len(history) : history[i] \in GitCommits
    BY <1>1, <1>2, ElementOfSeq
  <2>2. own = SubSeq(history, n + 1, Len(history))
    BY DEF Beyond, n
  <2>3. /\ own \in Seq(GitCommits)
        /\ Len(own) = IF n + 1 <= Len(history) THEN Len(history) - (n + 1) + 1 ELSE 0
        /\ \A i \in 1..(Len(history) - (n + 1) + 1) : own[i] = history[(n + 1) + i - 1]
    <3> HIDE DEF own
    <3> QED
      BY <1>1, <1>2, <2>1, <2>2, SubSeqProperties, SMTT(30)
  <2> HIDE DEF own
  <2>4. Len(own) = Len(history) - n
    <3>1. CASE n + 1 <= Len(history)
      <4>1. Len(own) = Len(history) - (n + 1) + 1
        BY <2>3, <3>1
      <4>2. n \in Nat /\ Len(history) \in Nat
        BY <1>1, <1>2
      <4> QED
        BY <4>1, <4>2
    <3>2. CASE ~(n + 1 <= Len(history))
      <4>1. Len(own) = 0
        BY <2>3, <3>2
      <4>2. n \in Nat /\ Len(history) \in Nat /\ n <= Len(history)
        BY <1>1, <1>2
      <4> QED
        BY <3>2, <4>1, <4>2
    <3> QED
      BY <3>1, <3>2
  <2>5. \A i \in 1..(Len(history) - n) : own[i] = history[n + i]
    <3> TAKE i \in 1..(Len(history) - n)
    <3>1. (n + 1) + i - 1 = n + i /\ i \in 1..(Len(history) - (n + 1) + 1)
      BY <1>1, <1>2
    <3> QED
      BY <2>3, <3>1
  <2> QED
    BY <2>3, <2>4, <2>5
<1> HIDE DEF n, own
<1>4. /\ Rebased \in Seq(GitCommits) /\ Len(Rebased) = Len(tracking) + Len(own)
      /\ \A i \in 1..(Len(tracking) + Len(own)) :
           Rebased[i] = IF i <= Len(tracking) THEN tracking[i] ELSE own[i - Len(tracking)]
  BY <1>3, ConcatProperties DEF Rebased, own
<1>5. DOMAIN Rebased = 1..(Len(tracking) + Len(own))
  BY <1>4, LenProperties
<1>6. ASSUME NEW i \in 1..Len(history)
      PROVE  \E j \in DOMAIN Rebased : Rebased[j] = history[i]
  <2>1. CASE i <= n
    <3>1. i \in DOMAIN Rebased /\ Rebased[i] = tracking[i] /\ tracking[i] = history[i]
      BY <1>1, <1>2, <1>3, <1>4, <1>5, <2>1
    <3> QED
      BY <3>1
  <2>2. CASE i > n
    <3> DEFINE j == Len(tracking) + (i - n)
    <3>1. /\ j \in 1..(Len(tracking) + Len(own)) /\ ~(j <= Len(tracking))
          /\ j - Len(tracking) = i - n /\ i - n \in 1..(Len(history) - n) /\ n + (i - n) = i
      BY <1>1, <1>2, <1>3, <2>2
    <3>2. Rebased[j] = own[i - n] /\ own[i - n] = history[i]
      BY <1>3, <1>4, <3>1
    <3> QED
      BY <1>5, <3>1, <3>2
  <2> QED
    BY <1>1, <1>2, <2>1, <2>2
<1>7. ASSUME NEW i \in DOMAIN Rebased
      PROVE  \/ \E j \in DOMAIN history : Rebased[i] = history[j]
             \/ \E j \in DOMAIN tracking : Rebased[i] = tracking[j]
  <2>1. CASE i <= Len(tracking)
    BY <1>1, <1>4, <1>5, <2>1
  <2>2. CASE ~(i <= Len(tracking))
    <3>1. /\ i - Len(tracking) \in 1..(Len(history) - n)
          /\ Rebased[i] = own[i - Len(tracking)]
          /\ n + (i - Len(tracking)) \in DOMAIN history
      BY <1>1, <1>2, <1>3, <1>4, <1>5, <2>2, SMTT(30)
    <3> QED
      BY <1>3, <3>1
  <2> QED
    BY <2>1, <2>2
<1> QED
  BY <1>1, <1>4, <1>6, <1>7 DEF CommitsIn

-----------------------------------------------------------------------------
LEMMA GitInvInit == GitInit => GitInv
<1> SUFFICES ASSUME GitInit
             PROVE  GitInv
  OBVIOUS
<1>1. /\ github = <<FirstCommit>> /\ history = <<>> /\ tracking = <<>>
      /\ repository = "none" /\ rebasing = FALSE /\ work = NoFiles /\ git = GitIdle
      /\ green = FALSE /\ gitEdits = 1 /\ wantedEdits = {} /\ staged = {}
  BY DEF GitInit
<1>2. FirstCommit \in GitCommits /\ \A f \in DOMAIN FirstCommit.change : FirstCommit.change[f] # 0
  BY DEF FirstCommit, Commit, GitCommits
<1>3. /\ github \in Seq(GitCommits) /\ history \in Seq(GitCommits) /\ tracking \in Seq(GitCommits)
      /\ DOMAIN github = {1} /\ github[1] = FirstCommit /\ DOMAIN history = {}
  BY <1>1, <1>2
<1>4. GitShaped
  BY <1>1, <1>3 DEF GitShaped, GitSteps, GitIdle, NoFiles
<1>5. IsPrefix(tracking, github)
  BY <1>1, <1>3, EmptyIsPrefix
<1>6. CloneIsFirst /\ RebasesClean /\ EditsAreKept /\ StagedGoesOn
  BY <1>1, <1>5 DEF CloneIsFirst, RebasesClean, EditsAreKept, StagedGoesOn, GitIdle
<1>7. GoneWasDeleted
  <2>1. \A f \in GitFiles : TreeOf(history)[f] = 0
    BY <1>3, TreeIsEmpty
  <2>2. DeletedIn(github) /\ DeletedIn(history) /\ DeletedIn(tracking)
    BY <1>1, <1>2, <1>3 DEF DeletedIn
  <2> QED
    BY <1>1, <2>1, <2>2 DEF GoneWasDeleted, GitIdle
<1> QED
  BY <1>4, <1>6, <1>7 DEF GitInv

LEMMA GitInvHolds == GitInv => GitKeepsWork
BY DEF GitInv, GoneWasDeleted, DeletedIn, StagedGoesOn, GitKeepsWork, OnlyUsersDelete,
   GreenIsPushed

\* A step of the run that changes nothing but where it is.
LEMMA RunGoesOn ==
  ASSUME GitInv,
         UNCHANGED <<gitHistories, repository, rebasing, work, gitEdits, gitGhosts>>,
         git' \in [at : GitSteps \ {"commit"}, index : [GitFiles -> Nat]],
         git'.at = "clone" => repository = "none",
         git'.at \notin {"idle", "look", "clone"} => repository # "none",
         rebasing => git'.at \in {"idle", "look", "rebasing", "abort"},
         git'.at \in {"look", "clone", "changes", "add", "status", "ls-remote"} => staged = {},
         git'.at \notin {"idle", "look", "clone", "changes", "add", "status", "ls-remote"}
           => staged \subseteq Content(history),
         green' => /\ git'.at = "idle" /\ IsPrefix(history, github)
                   /\ staged \subseteq Content(github)
  PROVE  GitInv'
<1>1. GitShaped'
  BY DEF GitInv, GitShaped, gitHistories, gitGhosts
<1>2. CloneIsFirst' /\ RebasesClean' /\ EditsAreKept'
  BY DEF GitInv, CloneIsFirst, RebasesClean, EditsAreKept, gitHistories, gitGhosts
<1>3. ~cutOff' => GoneWasDeleted'
  BY DEF GitInv, GoneWasDeleted, DeletedIn, gitHistories, gitGhosts
<1>4. StagedGoesOn'
  BY DEF GitInv, StagedGoesOn, gitHistories, gitGhosts, GitSteps
<1> QED
  BY <1>1, <1>2, <1>3, <1>4 DEF GitInv

LEMMA UserSteps ==
  ASSUME GitInv, NEW f \in GitFiles, UserEdits(f) \/ UserDeletes(f)
  PROVE  GitInv'
<1>1. GitShaped /\ CloneIsFirst /\ RebasesClean /\ EditsAreKept /\ (~cutOff => GoneWasDeleted)
      /\ StagedGoesOn
  BY DEF GitInv
<1>2. /\ UNCHANGED <<gitHistories, repository, rebasing, git, green, cutOff, staged>>
      /\ gitEdits' = gitEdits + 1 /\ gitEdits' \in Nat \ {0}
      /\ \/ /\ work' = [work EXCEPT ![f] = gitEdits'] /\ UNCHANGED deletedFiles
            /\ wantedEdits' = (wantedEdits \ {work[f]}) \union {gitEdits'}
            /\ undone' = IF rebasing THEN undone \union {gitEdits'} ELSE undone
         \/ /\ work' = [work EXCEPT ![f] = 0] /\ UNCHANGED undone
            /\ wantedEdits' = wantedEdits \ {work[f]}
            /\ deletedFiles' = deletedFiles \union {f}
  BY <1>1 DEF UserEdits, UserDeletes, GitShaped
<1>3. /\ work' \in [GitFiles -> Nat] /\ \A g \in GitFiles : g # f => work'[g] = work[g]
      /\ work'[f] = 0 \/ (work'[f] = gitEdits' /\ (rebasing => gitEdits' \in undone'))
      /\ work'[f] = 0 => f \in deletedFiles'
      /\ undone \subseteq undone' /\ deletedFiles \subseteq deletedFiles'
      /\ wantedEdits' \subseteq (wantedEdits \ {work[f]}) \union {work'[f]}
      /\ wantedEdits' \subseteq Nat \ {0}
  <2>1. work \in [GitFiles -> Nat] /\ wantedEdits \subseteq Nat \ {0}
    BY <1>1 DEF GitShaped
  <2>2. CASE /\ work' = [work EXCEPT ![f] = gitEdits'] /\ UNCHANGED deletedFiles
             /\ wantedEdits' = (wantedEdits \ {work[f]}) \union {gitEdits'}
             /\ undone' = IF rebasing THEN undone \union {gitEdits'} ELSE undone
    <3>1. work' \in [GitFiles -> Nat] /\ work'[f] = gitEdits'
      BY <1>2, <2>1, <2>2
    <3> QED
      BY <1>2, <2>1, <2>2, <3>1
  <2>3. CASE /\ work' = [work EXCEPT ![f] = 0] /\ UNCHANGED undone
             /\ wantedEdits' = wantedEdits \ {work[f]}
             /\ deletedFiles' = deletedFiles \union {f}
    <3>1. work' \in [GitFiles -> Nat] /\ work'[f] = 0
      BY <2>1, <2>3
    <3> QED
      BY <2>1, <2>3, <3>1
  <2> QED
    BY <1>2, <2>2, <2>3
<1>4. GitShaped'
  BY <1>1, <1>2, <1>3 DEF GitShaped, gitHistories
<1>5. CloneIsFirst' /\ StagedGoesOn'
  BY <1>1, <1>2 DEF CloneIsFirst, StagedGoesOn, gitHistories
<1>6. RebasesClean'
  BY <1>1, <1>2, <1>3 DEF RebasesClean, gitHistories
<1>7. EditsAreKept'
  <2> SUFFICES ASSUME NEW w \in wantedEdits' \ undone'
               PROVE  w \in ({work[g] : g \in GitFiles} \union Content(history) \union Content(github))'
    BY DEF EditsAreKept
  <2>1. CASE w = work'[f]
    BY <2>1
  <2>2. CASE w # work'[f]
    <3>1. w \in wantedEdits \ undone /\ w # work[f]
      BY <1>3, <2>2
    <3>2. w \in {work[g] : g \in GitFiles} \/ w \in Content(history) \/ w \in Content(github)
      BY <1>1, <3>1 DEF EditsAreKept
    <3>3. w \in {work[g] : g \in GitFiles} => w \in {work'[g] : g \in GitFiles}
      BY <1>3, <3>1
    <3> QED
      BY <1>2, <3>2, <3>3 DEF gitHistories
  <2> QED
    BY <2>1, <2>2
<1>8. ASSUME ~cutOff
      PROVE  GoneWasDeleted'
  BY <1>1, <1>2, <1>3, <1>8 DEF GoneWasDeleted, DeletedIn, gitHistories
<1> QED
  BY <1>2, <1>4, <1>5, <1>6, <1>7, <1>8 DEF GitInv

LEMMA OthersStep ==
  ASSUME GitInv, NEW f \in GitFiles, OthersPush(f)
  PROVE  GitInv'
<1>1. GitShaped /\ CloneIsFirst /\ RebasesClean /\ EditsAreKept /\ (~cutOff => GoneWasDeleted)
      /\ StagedGoesOn
  BY DEF GitInv
<1>2. /\ UNCHANGED <<history, tracking, repository, rebasing, work, git, green, cutOff,
                     wantedEdits, staged, undone>>
      /\ gitEdits' = gitEdits + 1 /\ gitEdits' \in Nat \ {0}
      /\ \/ /\ github' = Append(github, Commit(gitEdits', [x \in {f} |-> gitEdits']))
            /\ UNCHANGED deletedFiles
         \/ /\ github' = Append(github, Commit(gitEdits', [x \in {f} |-> 0]))
            /\ deletedFiles' = deletedFiles \union {f}
  BY <1>1 DEF OthersPush, GitShaped
<1> DEFINE pushed(n) == /\ github' = Append(github, Commit(gitEdits', [x \in {f} |-> n]))
                        /\ deletedFiles \subseteq deletedFiles' /\ (n = 0 => f \in deletedFiles')
<1>3. PICK n \in Nat : pushed(n)
  <2>1. pushed(gitEdits') \/ pushed(0)
    BY <1>2
  <2> HIDE DEF pushed
  <2> QED
    BY <1>2, <2>1
<1> DEFINE c == Commit(gitEdits', [x \in {f} |-> n])
<1>4. c \in GitCommits /\ DOMAIN c.change = {f} /\ c.change[f] = n
  <2>1. [x \in {f} |-> n] \in [{f} -> Nat] /\ {f} \in SUBSET GitFiles
    OBVIOUS
  <2>2. [x \in {f} |-> n] \in UNION {[some -> Nat] : some \in SUBSET GitFiles}
    BY <2>1
  <2> QED
    BY <1>2, <2>2 DEF Commit, GitCommits
<1> HIDE DEF c
<1>5. github \in Seq(GitCommits) /\ github' \in Seq(GitCommits) /\ IsPrefix(github, github')
  BY <1>1, <1>3, <1>4, AppendProperties, PrefixesCompose, PrefixOfLonger DEF GitShaped, c
<1>6. /\ Len(github) \in Nat /\ DOMAIN github = 1..Len(github)
      /\ DOMAIN github' = 1..(Len(github) + 1) /\ github'[Len(github) + 1] = c
      /\ \A i \in 1..Len(github) : github'[i] = github[i]
  BY <1>3, <1>4, <1>5, AppendProperties, LenProperties DEF c
<1>7. Content(github) \subseteq Content(github')
  BY <1>5, PrefixIsIn, ContentStays
<1>8. GitShaped'
  BY <1>1, <1>2, <1>5 DEF GitShaped
<1>9. CloneIsFirst' /\ RebasesClean' /\ EditsAreKept'
  BY <1>1, <1>2, <1>7 DEF CloneIsFirst, RebasesClean, EditsAreKept
<1>10. StagedGoesOn'
  <2>1. IsPrefix(tracking, github') /\ (IsPrefix(history, github) => IsPrefix(history, github'))
    BY <1>1, <1>5, PrefixesCompose DEF StagedGoesOn, GitShaped
  <2> QED
    BY <1>1, <1>2, <1>7, <2>1 DEF StagedGoesOn
<1>11. ASSUME ~cutOff
       PROVE  GoneWasDeleted'
  <2>1. DeletedIn(github)'
    BY <1>1, <1>3, <1>4, <1>6, <1>11 DEF GoneWasDeleted, DeletedIn
  <2> QED
    BY <1>1, <1>2, <1>3, <1>11, <2>1 DEF GoneWasDeleted, DeletedIn
<1> QED
  BY <1>2, <1>8, <1>9, <1>10, <1>11 DEF GitInv

\* What is checked out after a branch moved: git changes no file in the way of it.
LEMMA MovedBranch ==
  ASSUME GitInv, NEW to \in Seq(GitCommits), CommitsIn(history, to), InTheWay(to) = {},
         history' = to, work' = CheckedOut(to),
         UNCHANGED <<cutOff, wantedEdits, staged, undone, deletedFiles, github>>
  PROVE  /\ work' \in [GitFiles -> Nat]
         /\ EditsAreKept' /\ (staged \subseteq Content(history) => staged' \subseteq Content(history'))
         /\ ~cutOff => \A f \in GitFiles : work'[f] = 0 /\ TreeOf(to)[f] # 0 => f \in deletedFiles
<1>1. /\ history \in Seq(GitCommits) /\ work \in [GitFiles -> Nat]
      /\ wantedEdits \subseteq Nat \ {0} /\ EditsAreKept
  BY DEF GitInv, GitShaped
<1>2. ASSUME NEW f \in GitFiles
      PROVE  /\ TreeOf(to)[f] \in Nat
             /\ TreeOf(to)[f] # TreeOf(history)[f] =>
                  work'[f] = TreeOf(to)[f] /\ work[f] = TreeOf(history)[f]
             /\ TreeOf(to)[f] = TreeOf(history)[f] => work'[f] = work[f]
  BY <1>1, TreeFacts DEF CheckedOut, InTheWay, Modified
<1>3. work' \in [GitFiles -> Nat]
  BY <1>1, <1>2 DEF CheckedOut
<1>4. Content(history) \subseteq Content(history')
  BY ContentStays
<1>5. EditsAreKept'
  <2> SUFFICES ASSUME NEW w \in wantedEdits \ undone
               PROVE  \/ w \in {work'[g] : g \in GitFiles} \/ w \in Content(history')
                      \/ w \in Content(github)
    BY DEF EditsAreKept
  <2>1. CASE w \in Content(history) \/ w \in Content(github)
    BY <1>4, <2>1
  <2>2. ASSUME NEW g \in GitFiles, w = work[g]
        PROVE  w \in {work'[x] : x \in GitFiles} \/ w \in Content(history)
    <3>1. CASE TreeOf(to)[g] = TreeOf(history)[g]
      BY <1>2, <2>2, <3>1
    <3>2. CASE TreeOf(to)[g] # TreeOf(history)[g]
      BY <1>1, <1>2, <2>2, <3>2, TreeFacts
    <3> QED
      BY <3>1, <3>2
  <2> QED
    BY <1>1, <1>4, <2>1, <2>2 DEF EditsAreKept
<1>6. ASSUME ~cutOff, NEW f \in GitFiles, work'[f] = 0, TreeOf(to)[f] # 0
      PROVE  f \in deletedFiles
  BY <1>2, <1>6 DEF GitInv, GoneWasDeleted
<1> QED
  BY <1>3, <1>4, <1>5, <1>6

\* A branch moved to what was fetched or rebased on it.
LEMMA BranchMoves ==
  ASSUME GitInv, NEW to \in Seq(GitCommits), CommitsIn(history, to), InTheWay(to) = {},
         \A i \in DOMAIN to : \/ \E j \in DOMAIN history : to[i] = history[j]
                              \/ \E j \in DOMAIN tracking : to[i] = tracking[j],
         history' = to, work' = CheckedOut(to), rebasing' = FALSE, repository # "none",
         git' \in [at : {"idle", "ahead"}, index : [GitFiles -> Nat]],
         staged \subseteq Content(history),
         green' => git'.at = "idle" /\ IsPrefix(to, github),
         UNCHANGED <<github, tracking, repository, gitEdits, gitGhosts>>
  PROVE  GitInv'
<1>1. /\ work' \in [GitFiles -> Nat] /\ EditsAreKept' /\ staged' \subseteq Content(history')
      /\ ~cutOff => \A f \in GitFiles : work'[f] = 0 /\ TreeOf(to)[f] # 0 => f \in deletedFiles
  BY MovedBranch DEF gitGhosts
<1>2. GitShaped'
  BY <1>1 DEF GitInv, GitShaped, GitSteps, gitGhosts
<1>3. CloneIsFirst' /\ RebasesClean'
  BY DEF GitInv, CloneIsFirst, RebasesClean, GitShaped
<1>4. ASSUME ~cutOff
      PROVE  GoneWasDeleted'
  <2>1. DeletedIn(github) /\ DeletedIn(history) /\ DeletedIn(tracking)
    BY <1>4 DEF GitInv, GoneWasDeleted
  <2>2. DeletedIn(to)
    BY <2>1 DEF DeletedIn
  <2> QED
    BY <1>1, <1>4, <2>1, <2>2 DEF GoneWasDeleted, DeletedIn, gitGhosts
<1>5. StagedGoesOn'
  <2>1. green' => staged \subseteq Content(github)
    <3>1. IsPrefix(to, github) => CommitsIn(to, github)
      BY PrefixIsIn DEF GitInv, GitShaped
    <3> QED
      BY <1>1, <3>1, ContentStays DEF gitGhosts
  <2> QED
    BY <1>1, <2>1 DEF GitInv, StagedGoesOn, gitGhosts
<1> QED
  BY <1>1, <1>2, <1>3, <1>4, <1>5 DEF GitInv, gitGhosts

\* A branch cloned, as a whole or with some of its files.
LEMMA CloneSteps ==
  ASSUME GitInv, Clone \/ CloneStopped
  PROVE  GitInv'
<1>1. /\ GitShaped /\ CloneIsFirst /\ RebasesClean /\ EditsAreKept
      /\ (~cutOff => GoneWasDeleted) /\ StagedGoesOn
  BY DEF GitInv
<1>2. /\ git.at = "clone" /\ work = NoFiles /\ ~green' /\ staged = {}
      /\ history' = github /\ tracking' = github /\ repository' \in {"half", "whole"}
      /\ UNCHANGED <<github, rebasing, gitEdits, wantedEdits, staged, undone, deletedFiles>>
      /\ git' \in [at : {"idle", "changes", "status"}, index : [GitFiles -> Nat]]
      /\ \E some \in SUBSET GitFiles :
           /\ work' = [f \in GitFiles |-> IF f \in some THEN TreeOf(github)[f] ELSE 0]
           /\ some = GitFiles \/ cutOff'
      /\ cutOff => cutOff'
  <2>1. git.at = "clone" /\ work = NoFiles /\ ~green /\ staged = {} /\ UNCHANGED green
    BY <1>1 DEF Clone, CloneStopped, GitGoes, GitFails, Cloned, StagedGoesOn
  <2>2. CASE Clone
    <3>1. /\ ~green' /\ UNCHANGED cutOff /\ git' = [git EXCEPT !.at = FirstCommand]
          /\ Cloned("whole", GitFiles)
      BY <2>1, <2>2 DEF Clone, GitGoes
    <3>2. git' \in [at : {"idle", "changes", "status"}, index : [GitFiles -> Nat]]
      BY <1>1, <3>1 DEF FirstCommand, GitShaped
    <3> QED
      BY <2>1, <3>1, <3>2 DEF Cloned
  <2>3. CASE CloneStopped
    BY <1>1, <2>1, <2>3 DEF CloneStopped, GitFails, Cloned, GitIdle, NoFiles
  <2> QED
    BY <2>2, <2>3
<1>3. history = <<>> /\ ~rebasing
  BY <1>1, <1>2 DEF CloneIsFirst, RebasesClean
<1>4. GitShaped'
  BY <1>1, <1>2, TreeFacts DEF GitShaped, GitSteps
<1>5. CloneIsFirst' /\ RebasesClean'
  BY <1>2, <1>3 DEF CloneIsFirst, RebasesClean
<1>6. EditsAreKept'
  <2>1. Content(history) = {}
    BY <1>3 DEF Content
  <2>2. wantedEdits \ undone \subseteq Content(github)
    BY <1>1, <1>2, <2>1 DEF EditsAreKept, GitShaped, NoFiles
  <2> QED
    BY <1>2, <2>2 DEF EditsAreKept
<1>7. ASSUME ~cutOff'
      PROVE  GoneWasDeleted'
  BY <1>1, <1>2, <1>7 DEF GoneWasDeleted, DeletedIn
<1>8. StagedGoesOn'
  <2>1. IsPrefix(github, github)
    BY <1>1, PrefixesCompose DEF GitShaped
  <2> QED
    BY <1>2, <2>1 DEF StagedGoesOn
<1> QED
  BY <1>4, <1>5, <1>6, <1>7, <1>8 DEF GitInv

LEMMA AddStep ==
  ASSUME GitInv, Add
  PROVE  GitInv'
<1>1. /\ GitShaped /\ CloneIsFirst /\ RebasesClean /\ EditsAreKept
      /\ (~cutOff => GoneWasDeleted) /\ StagedGoesOn
  BY DEF GitInv
<1>2. /\ git.at = "add" /\ git' = [at |-> "commit", index |-> work] /\ repository' = "whole"
      /\ staged' = wantedEdits \intersect {work[f] : f \in GitFiles} /\ ~green /\ ~rebasing
      /\ repository # "none"
      /\ UNCHANGED <<green, gitHistories, rebasing, work, gitEdits, cutOff, wantedEdits,
                     undone, deletedFiles>>
  BY <1>1 DEF Add, StagedGoesOn, RebasesClean, CloneIsFirst
<1>3. GitShaped' /\ CloneIsFirst' /\ RebasesClean' /\ EditsAreKept' /\ StagedGoesOn'
  BY <1>1, <1>2 DEF GitShaped, CloneIsFirst, RebasesClean, EditsAreKept, StagedGoesOn,
     GitSteps, gitHistories
<1>4. ASSUME ~cutOff
      PROVE  GoneWasDeleted'
  BY <1>1, <1>2, <1>4 DEF GoneWasDeleted, DeletedIn, gitHistories
<1> QED
  BY <1>2, <1>3, <1>4 DEF GitInv

\* After a commit the branch has what was staged.
LEMMA CommitStep ==
  ASSUME GitInv, DoCommit
  PROVE  GitInv'
<1> DEFINE changed == {f \in GitFiles : git.index[f] # TreeOf(history)[f]}
           c == Commit(MaxGitEdits + Len(history), [f \in changed |-> git.index[f]])
<1>1. /\ GitShaped /\ CloneIsFirst /\ RebasesClean /\ EditsAreKept
      /\ (~cutOff => GoneWasDeleted) /\ StagedGoesOn
  BY DEF GitInv
<1>2. /\ git.at = "commit" /\ git'.at = "fetch" /\ ~green /\ ~rebasing /\ repository # "none"
      /\ git' \in [at : GitSteps, index : [GitFiles -> Nat]]
      /\ history' = IF changed = {} THEN history ELSE Append(history, c)
      /\ UNCHANGED <<green, github, tracking, repository, rebasing, work, gitEdits, gitGhosts>>
  BY <1>1 DEF DoCommit, GitGoes, StagedGoesOn, RebasesClean, CloneIsFirst, GitShaped, GitSteps
<1>3. history \in Seq(GitCommits) /\ git.index \in [GitFiles -> Nat] /\ Len(history) \in Nat
  BY <1>1, LenProperties DEF GitShaped
<1>4. /\ c \in GitCommits /\ DOMAIN c.change = changed
      /\ \A f \in changed : c.change[f] = git.index[f]
  <2>1. [f \in changed |-> git.index[f]] \in [changed -> Nat] /\ changed \in SUBSET GitFiles
    BY <1>3
  <2>2. [f \in changed |-> git.index[f]] \in UNION {[some -> Nat] : some \in SUBSET GitFiles}
    BY <2>1
  <2>3. MaxGitEdits + Len(history) \in Nat
    BY <1>3, GitAssumption
  <2> HIDE DEF changed
  <2> QED
    BY <2>2, <2>3 DEF Commit, GitCommits
<1>5. ASSUME NEW f \in GitFiles
      PROVE  f \in changed <=> git.index[f] # TreeOf(history)[f]
  OBVIOUS
<1> HIDE DEF changed, c
<1>6. history' \in Seq(GitCommits) /\ IsPrefix(history, history')
  BY <1>2, <1>3, <1>4, AppendProperties, PrefixesCompose, PrefixOfLonger
<1>7. ASSUME NEW f \in GitFiles
      PROVE  TreeOf(history')[f] = git.index[f]
  <2>1. CASE changed = {}
    BY <1>2, <1>5, <2>1
  <2>2. CASE changed # {}
    <3>1. TreeOf(Append(history, c))[f] = IF f \in changed THEN git.index[f] ELSE TreeOf(history)[f]
      BY <1>3, <1>4, TreeAfter
    <3> QED
      BY <1>2, <1>5, <2>2, <3>1
  <2> QED
    BY <2>1, <2>2
<1>8. Content(history) \subseteq Content(history')
  BY <1>3, <1>6, PrefixIsIn, ContentStays
<1>9. GitShaped'
  BY <1>1, <1>2, <1>6 DEF GitShaped, gitGhosts
<1>10. CloneIsFirst' /\ RebasesClean' /\ EditsAreKept'
  BY <1>1, <1>2, <1>8 DEF CloneIsFirst, RebasesClean, EditsAreKept, gitGhosts
<1>11. ASSUME ~cutOff
       PROVE  GoneWasDeleted'
  <2>1. GoneWasDeleted
    BY <1>1, <1>11
  <2>2. \A f \in changed : c.change[f] = 0 => f \in deletedFiles
    BY <1>2, <1>4, <1>5, <2>1 DEF GoneWasDeleted, changed
  <2>3. DeletedIn(history')
    <3>1. CASE changed = {}
      BY <1>2, <2>1, <3>1 DEF GoneWasDeleted
    <3>2. CASE changed # {}
      <4>1. /\ DOMAIN history = 1..Len(history) /\ DOMAIN history' = 1..(Len(history) + 1)
            /\ \A i \in 1..Len(history) : history'[i] = history[i]
            /\ history'[Len(history) + 1] = c
        BY <1>2, <1>3, <1>4, <1>6, <3>2, AppendProperties, LenProperties
      <4> QED
        BY <1>3, <1>4, <2>1, <2>2, <4>1 DEF GoneWasDeleted, DeletedIn
    <3> QED
      BY <3>1, <3>2
  <2>4. \A f \in GitFiles : work[f] = 0 /\ TreeOf(history')[f] # 0 => f \in deletedFiles
    BY <1>2, <1>7, <2>1 DEF GoneWasDeleted
  <2> QED
    BY <1>2, <2>1, <2>3, <2>4 DEF GoneWasDeleted, DeletedIn, gitGhosts
<1>12. StagedGoesOn'
  <2>1. staged \subseteq {git.index[f] : f \in GitFiles} \ {0}
    BY <1>1, <1>2 DEF StagedGoesOn
  <2>2. staged \subseteq Content(history')
    BY <1>6, <1>7, <2>1, TreeFacts
  <2> QED
    BY <1>1, <1>2, <2>2 DEF StagedGoesOn, gitGhosts
<1> QED
  BY <1>2, <1>9, <1>10, <1>11, <1>12 DEF GitInv, gitGhosts

LEMMA PushSteps ==
  ASSUME GitInv, Push \/ PushCutOff
  PROVE  GitInv'
<1>1. /\ GitShaped /\ CloneIsFirst /\ RebasesClean /\ EditsAreKept
      /\ (~cutOff => GoneWasDeleted) /\ StagedGoesOn
  BY DEF GitInv
<1>2. /\ git.at = "push" /\ git' = GitIdle /\ github' = history /\ IsPrefix(github, history)
      /\ tracking' \in {tracking, history} /\ ~rebasing /\ staged \subseteq Content(history)
      /\ UNCHANGED <<history, repository, rebasing, work, gitEdits, gitGhosts>>
  BY <1>1 DEF Push, PushCutOff, Pushed, GitSucceeds, GitFails, StagedGoesOn, RebasesClean
<1>3. /\ Content(github) \subseteq Content(history) /\ IsPrefix(history, history)
      /\ IsPrefix(tracking, history)
  BY <1>1, <1>2, PrefixIsIn, ContentStays, PrefixesCompose DEF GitShaped, StagedGoesOn
<1>4. GitShaped'
  BY <1>1, <1>2 DEF GitShaped, gitGhosts, GitIdle, NoFiles, GitSteps
<1>5. CloneIsFirst' /\ RebasesClean' /\ EditsAreKept'
  BY <1>1, <1>2, <1>3 DEF CloneIsFirst, RebasesClean, EditsAreKept, GitIdle, gitGhosts
<1>6. ASSUME ~cutOff
      PROVE  GoneWasDeleted'
  BY <1>1, <1>2, <1>6 DEF GoneWasDeleted, GitIdle, gitGhosts, DeletedIn
<1>7. StagedGoesOn'
  BY <1>2, <1>3 DEF StagedGoesOn, GitIdle, gitGhosts
<1> QED
  BY <1>2, <1>4, <1>5, <1>6, <1>7 DEF GitInv, gitGhosts

LEMMA FetchStep ==
  ASSUME GitInv, Fetch
  PROVE  GitInv'
<1>1. /\ GitShaped /\ CloneIsFirst /\ RebasesClean /\ EditsAreKept
      /\ (~cutOff => GoneWasDeleted) /\ StagedGoesOn
  BY DEF GitInv
<1>2. /\ git' \in [at : {"rebase", "ancestor", "merge"}, index : [GitFiles -> Nat]]
      /\ tracking' = github /\ ~green /\ ~rebasing /\ staged \subseteq Content(history)
      /\ repository # "none"
      /\ UNCHANGED <<green, github, history, repository, rebasing, work, gitEdits, gitGhosts>>
  BY <1>1 DEF Fetch, GitGoes, AfterFetch, GitShaped, StagedGoesOn, RebasesClean, CloneIsFirst
<1>3. GitShaped' /\ CloneIsFirst' /\ RebasesClean' /\ EditsAreKept'
  BY <1>1, <1>2 DEF GitShaped, CloneIsFirst, RebasesClean, EditsAreKept, gitGhosts, GitSteps
<1>4. ASSUME ~cutOff
      PROVE  GoneWasDeleted'
  BY <1>1, <1>2, <1>4 DEF GoneWasDeleted, gitGhosts, DeletedIn
<1>5. StagedGoesOn'
  <2>1. IsPrefix(github, github)
    BY <1>1, PrefixesCompose DEF GitShaped
  <2> QED
    BY <1>2, <2>1 DEF StagedGoesOn, gitGhosts
<1> QED
  BY <1>2, <1>3, <1>4, <1>5 DEF GitInv, gitGhosts

LEMMA RebaseSteps ==
  ASSUME GitInv, RebaseBegins \/ RebaseEnds \/ RebaseFails \/ Abort
  PROVE  GitInv'
<1>1. /\ GitShaped /\ CloneIsFirst /\ RebasesClean /\ EditsAreKept
      /\ (~cutOff => GoneWasDeleted) /\ StagedGoesOn
  BY DEF GitInv
<1>2. CASE RebaseBegins
  <2>1. /\ git.at = "rebase" /\ repository # "none" /\ ~rebasing /\ ~green' /\ UNCHANGED green
        /\ staged \subseteq Content(history)
        /\ UNCHANGED <<gitHistories, repository, work, gitEdits, gitGhosts>>
    BY <1>1, <1>2 DEF RebaseBegins, GitGoes, StagedGoesOn, RebasesClean, CloneIsFirst
  <2>2. \/ /\ git' = [git EXCEPT !.at = "abort"] \/ git' = [git EXCEPT !.at = "ahead"]
           /\ UNCHANGED rebasing
        \/ /\ ~RebaseRefused /\ ~IsPrefix(tracking, history)
           /\ git' = [git EXCEPT !.at = "rebasing"] /\ rebasing' = TRUE
    BY <1>2 DEF RebaseBegins, GitGoes
  <2>3. CASE UNCHANGED rebasing
    <3>1. git' \in [at : {"abort", "ahead", "rebasing"}, index : [GitFiles -> Nat]]
      BY <1>1, <2>2 DEF GitShaped
    <3>2. git'.at # "rebasing" /\ ~rebasing'
      BY <1>1, <2>1, <2>2, <2>3 DEF GitShaped
    <3> QED
      BY <2>1, <2>3, <3>1, <3>2, RunGoesOn DEF GitSteps
  <2>4. CASE /\ ~RebaseRefused /\ ~IsPrefix(tracking, history)
             /\ git' = [git EXCEPT !.at = "rebasing"] /\ rebasing' = TRUE
    <3>1. git' \in [at : {"rebasing"}, index : [GitFiles -> Nat]]
      BY <1>1, <2>4 DEF GitShaped
    <3>2. \A f \in GitFiles : TreeOf(history)[f] # 0 \/ TreeOf(tracking)[f] # 0
                                => work[f] = TreeOf(history)[f]
      BY <2>4 DEF RebaseRefused, Modified
    <3>3. RebasesClean'
      BY <2>1, <3>1, <3>2 DEF RebasesClean, gitHistories, gitGhosts
    <3>4. GitShaped' /\ CloneIsFirst' /\ EditsAreKept' /\ StagedGoesOn'
      BY <1>1, <2>1, <3>1, <2>4 DEF GitShaped, CloneIsFirst, EditsAreKept, StagedGoesOn,
         GitSteps, gitHistories, gitGhosts
    <3>5. ASSUME ~cutOff
          PROVE  GoneWasDeleted'
      BY <1>1, <2>1, <3>1, <3>5 DEF GoneWasDeleted, DeletedIn, gitHistories, gitGhosts
    <3> QED
      BY <2>1, <3>3, <3>4, <3>5 DEF GitInv, gitGhosts
  <2> QED
    BY <2>2, <2>3, <2>4
<1>3. CASE RebaseEnds
  <2>1. /\ git' \in [at : {"ahead"}, index : [GitFiles -> Nat]] /\ rebasing' = FALSE /\ ~green'
        /\ repository # "none" /\ staged \subseteq Content(history) /\ InTheWay(Rebased) = {}
        /\ history' = Rebased /\ work' = CheckedOut(Rebased)
        /\ UNCHANGED <<github, tracking, repository, gitEdits, gitGhosts>>
    BY <1>1, <1>3 DEF RebaseEnds, GitGoes, GitShaped, StagedGoesOn, CloneIsFirst
  <2>2. /\ Rebased \in Seq(GitCommits) /\ CommitsIn(history, Rebased)
        /\ \A i \in DOMAIN Rebased : \/ \E j \in DOMAIN history : Rebased[i] = history[j]
                                     \/ \E j \in DOMAIN tracking : Rebased[i] = tracking[j]
    BY <1>1, RebasedFacts DEF GitShaped
  <2> QED
    BY <2>1, <2>2, BranchMoves
<1>4. CASE RebaseFails
  <2>1. /\ git.at = "rebasing" /\ git' \in [at : {"abort"}, index : [GitFiles -> Nat]]
        /\ repository # "none" /\ ~green' /\ staged \subseteq Content(history)
        /\ UNCHANGED <<gitHistories, repository, rebasing, work, gitEdits, gitGhosts>>
    BY <1>1, <1>4 DEF RebaseFails, GitGoes, GitShaped, StagedGoesOn, CloneIsFirst
  <2> QED
    BY <2>1, RunGoesOn DEF GitSteps
<1>5. CASE Abort
  <2>1. /\ git.at = "abort" /\ git' = GitIdle /\ ~green /\ UNCHANGED green /\ rebasing' = FALSE
        /\ UNCHANGED <<gitHistories, repository, gitEdits, gitGhosts>>
    BY <1>1, <1>5 DEF Abort, GitFails, StagedGoesOn
  <2>2. ASSUME NEW f \in GitFiles
        PROVE  /\ work'[f] \in Nat
               /\ work'[f] = work[f] \/ (work'[f] = TreeOf(history)[f] /\ work[f] \in {0, TreeOf(history)[f]} \union undone)
    BY <1>1, <1>5, TreeFacts DEF Abort, RebasesClean, GitShaped
  <2>3. GitShaped'
    <3>1. work' \in [GitFiles -> Nat]
      BY <1>1, <1>5, <2>2 DEF Abort, GitShaped
    <3> QED
      BY <1>1, <2>1, <3>1 DEF GitShaped, GitIdle, NoFiles, GitSteps, gitHistories, gitGhosts
  <2>4. CloneIsFirst' /\ RebasesClean'
    BY <1>1, <2>1 DEF CloneIsFirst, RebasesClean, GitIdle, gitHistories
  <2>5. EditsAreKept'
    <3> SUFFICES ASSUME NEW w \in wantedEdits \ undone
                 PROVE  \/ w \in {work'[g] : g \in GitFiles} \/ w \in Content(history)
                        \/ w \in Content(github)
      BY <2>1 DEF EditsAreKept, gitHistories, gitGhosts
    <3>1. w # 0
      BY <1>1 DEF GitShaped
    <3>2. ASSUME NEW g \in GitFiles, w = work[g]
          PROVE  w = work'[g]
      BY <2>2, <3>1, <3>2
    <3> QED
      BY <1>1, <3>2 DEF EditsAreKept
  <2>6. ASSUME ~cutOff
        PROVE  GoneWasDeleted'
    BY <1>1, <2>1, <2>2, <2>6 DEF GoneWasDeleted, DeletedIn, GitIdle, gitHistories, gitGhosts
  <2>7. StagedGoesOn'
    BY <1>1, <2>1 DEF StagedGoesOn, GitIdle, gitHistories, gitGhosts
  <2> QED
    BY <2>1, <2>3, <2>4, <2>5, <2>6, <2>7 DEF GitInv, gitGhosts
<1> QED
  BY <1>2, <1>3, <1>4, <1>5

LEMMA MergeStep ==
  ASSUME GitInv, Merge_ff_only
  PROVE  GitInv'
<1>1. /\ GitShaped /\ CloneIsFirst /\ RebasesClean /\ StagedGoesOn
  BY DEF GitInv
<1>2. /\ git' = GitIdle /\ rebasing' = FALSE /\ repository # "none"
      /\ staged \subseteq Content(history) /\ InTheWay(tracking) = {} /\ IsPrefix(history, tracking)
      /\ history' = tracking /\ work' = CheckedOut(tracking)
      /\ UNCHANGED <<github, tracking, repository, gitEdits, gitGhosts>>
  BY <1>1 DEF Merge_ff_only, GitSucceeds, GitShaped, StagedGoesOn, CloneIsFirst, RebasesClean
<1>3. /\ tracking \in Seq(GitCommits) /\ CommitsIn(history, tracking) /\ IsPrefix(tracking, github)
      /\ git' \in [at : {"idle"}, index : [GitFiles -> Nat]]
  BY <1>1, <1>2, PrefixIsIn DEF GitShaped, StagedGoesOn, GitIdle, NoFiles
<1> QED
  BY <1>2, <1>3, BranchMoves

LEMMA PlainSteps ==
  ASSUME GitInv,
         \/ GitStarts \/ LookAtFolder \/ Changes \/ Ancestor \/ Ahead \/ Status \/ LsRemote
         \/ CommandFails \/ GitRestart
  PROVE  GitInv'
<1>1. /\ GitShaped /\ CloneIsFirst /\ RebasesClean /\ EditsAreKept
      /\ (~cutOff => GoneWasDeleted) /\ StagedGoesOn
  BY DEF GitInv
<1>2. CASE GitStarts
  <2>1. /\ git.at = "idle" /\ git' = [git EXCEPT !.at = "look"] /\ green' = FALSE /\ staged' = {}
        /\ UNCHANGED <<gitHistories, repository, rebasing, work, gitEdits, cutOff, wantedEdits,
                       undone, deletedFiles>>
    BY <1>2 DEF GitStarts, GitGoes
  <2>2. git' \in [at : {"look"}, index : [GitFiles -> Nat]]
    BY <1>1, <2>1 DEF GitShaped
  <2>3. GitShaped' /\ CloneIsFirst' /\ RebasesClean' /\ EditsAreKept' /\ StagedGoesOn'
    BY <1>1, <2>1, <2>2 DEF GitShaped, CloneIsFirst, RebasesClean, EditsAreKept, StagedGoesOn,
       GitSteps, gitHistories
  <2>4. ASSUME ~cutOff
        PROVE  GoneWasDeleted'
    BY <1>1, <2>1, <2>2, <2>4 DEF GoneWasDeleted, DeletedIn, gitHistories
  <2> QED
    BY <2>1, <2>3, <2>4 DEF GitInv
<1>3. ASSUME git' = GitIdle, git.at # "idle", UNCHANGED green,
             UNCHANGED <<gitHistories, repository, rebasing, work, gitEdits, gitGhosts>>
      PROVE  GitInv'
  <2>1. git' \in [at : {"idle"}, index : [GitFiles -> Nat]] /\ ~green'
    BY <1>1, <1>3 DEF GitIdle, NoFiles, StagedGoesOn
  <2> QED
    BY <1>1, <1>3, <2>1, RunGoesOn DEF GitSteps
<1>4. CASE GitRestart
  BY <1>3, <1>4 DEF GitRestart
<1>5. CASE CommandFails
  BY <1>3, <1>5 DEF CommandFails, GitFails
<1>6. CASE LookAtFolder
  <2>1. /\ git.at = "look" /\ UNCHANGED green /\ staged = {} /\ ~green
        /\ UNCHANGED <<gitHistories, repository, rebasing, work, gitEdits, gitGhosts>>
        /\ \/ git' = GitIdle
           \/ git' = [git EXCEPT !.at = "clone"] /\ repository = "none"
           \/ git' = [git EXCEPT !.at = FirstCommand] /\ repository # "none" /\ ~rebasing
    BY <1>1, <1>6 DEF LookAtFolder, GitGoes, StagedGoesOn
  <2>2. CASE git' = GitIdle
    BY <1>3, <2>1, <2>2
  <2>3. CASE git' = [git EXCEPT !.at = "clone"] /\ repository = "none"
    <3>1. git' \in [at : {"clone"}, index : [GitFiles -> Nat]]
      BY <1>1, <2>3 DEF GitShaped
    <3>2. ~rebasing
      BY <1>1, <2>3 DEF CloneIsFirst
    <3> QED
      BY <2>1, <2>3, <3>1, <3>2, RunGoesOn DEF GitSteps
  <2>4. CASE git' = [git EXCEPT !.at = FirstCommand] /\ repository # "none" /\ ~rebasing
    <3>1. git' \in [at : {"status", "changes"}, index : [GitFiles -> Nat]]
      BY <1>1, <2>4 DEF GitShaped, FirstCommand
    <3> QED
      BY <2>1, <2>4, <3>1, RunGoesOn DEF GitSteps
  <2> QED
    BY <2>1, <2>2, <2>3, <2>4
<1>7. CASE Changes \/ Ancestor \/ Status
  <2>1. /\ git.at \in {"changes", "ancestor", "status"} /\ UNCHANGED green /\ ~green /\ ~rebasing
        /\ repository # "none"
        /\ git.at \in {"changes", "status"} => staged = {}
        /\ git.at = "ancestor" => staged \subseteq Content(history)
        /\ UNCHANGED <<gitHistories, repository, rebasing, work, gitEdits, gitGhosts>>
        /\ \/ git' = GitIdle
           \/ git' = [git EXCEPT !.at = "add"] /\ git.at = "changes"
           \/ git' = [git EXCEPT !.at = "ahead"] /\ git.at = "ancestor"
           \/ git' = [git EXCEPT !.at = "ls-remote"] /\ git.at = "status"
    BY <1>1, <1>7 DEF Changes, Ancestor, Status, GitGoes, StagedGoesOn, RebasesClean, CloneIsFirst
  <2>2. CASE git' = GitIdle
    BY <1>3, <2>1, <2>2
  <2>3. CASE git' # GitIdle
    <3>1. /\ git' \in [at : {"add", "ahead", "ls-remote"}, index : [GitFiles -> Nat]]
          /\ git'.at \in {"add", "ls-remote"} <=> git.at # "ancestor"
      BY <1>1, <2>1, <2>3 DEF GitShaped
    <3> QED
      BY <2>1, <3>1, RunGoesOn DEF GitSteps
  <2> QED
    BY <2>2, <2>3
<1>8. CASE Ahead
  <2>1. /\ git.at = "ahead" /\ ~green /\ ~rebasing /\ repository # "none"
        /\ staged \subseteq Content(history) /\ IsPrefix(tracking, github)
        /\ UNCHANGED <<gitHistories, repository, rebasing, work, gitEdits, gitGhosts>>
        /\ \/ git' = GitIdle /\ IsPrefix(history, tracking)
           \/ git' = [git EXCEPT !.at = "push"] /\ UNCHANGED green
    BY <1>1, <1>8 DEF Ahead, GitGoes, GitSucceeds, StagedGoesOn, RebasesClean, CloneIsFirst
  <2>2. CASE git' = GitIdle /\ IsPrefix(history, tracking)
    <3>1. IsPrefix(history, github) /\ Content(history) \subseteq Content(github)
      BY <1>1, <2>1, <2>2, PrefixesCompose, PrefixIsIn, ContentStays DEF GitShaped
    <3>2. git' \in [at : {"idle"}, index : [GitFiles -> Nat]]
      BY <2>2 DEF GitIdle, NoFiles
    <3> QED
      BY <2>1, <3>1, <3>2, RunGoesOn DEF GitSteps
  <2>3. CASE git' = [git EXCEPT !.at = "push"] /\ UNCHANGED green
    <3>1. git' \in [at : {"push"}, index : [GitFiles -> Nat]]
      BY <1>1, <2>3 DEF GitShaped
    <3> QED
      BY <2>1, <2>3, <3>1, RunGoesOn DEF GitSteps
  <2> QED
    BY <2>1, <2>2, <2>3
<1>9. CASE LsRemote
  <2>1. /\ git.at = "ls-remote" /\ ~green /\ ~rebasing /\ repository # "none" /\ staged = {}
        /\ UNCHANGED <<gitHistories, repository, rebasing, work, gitEdits, gitGhosts>>
        /\ \/ git' = GitIdle /\ github = history
           \/ git' = [git EXCEPT !.at = "fetch"] /\ UNCHANGED green
    BY <1>1, <1>9 DEF LsRemote, GitGoes, GitSucceeds, StagedGoesOn, RebasesClean, CloneIsFirst
  <2>2. CASE git' = GitIdle /\ github = history
    <3>1. IsPrefix(history, github)
      BY <1>1, <2>2, PrefixesCompose DEF GitShaped
    <3>2. git' \in [at : {"idle"}, index : [GitFiles -> Nat]]
      BY <2>2 DEF GitIdle, NoFiles
    <3> QED
      BY <2>1, <3>1, <3>2, RunGoesOn DEF GitSteps
  <2>3. CASE git' = [git EXCEPT !.at = "fetch"] /\ UNCHANGED green
    <3>1. git' \in [at : {"fetch"}, index : [GitFiles -> Nat]]
      BY <1>1, <2>3 DEF GitShaped
    <3> QED
      BY <2>1, <2>3, <3>1, RunGoesOn DEF GitSteps
  <2> QED
    BY <2>1, <2>2, <2>3
<1> QED
  BY <1>2, <1>4, <1>5, <1>6, <1>7, <1>8, <1>9

LEMMA GitInvNext == GitInv /\ [GitNext]_gitVars => GitInv'
<1> SUFFICES ASSUME GitInv, [GitNext]_gitVars
             PROVE  GitInv'
  OBVIOUS
<1>1. CASE UNCHANGED gitVars
  BY <1>1 DEF gitVars, gitHistories, gitGhosts, GitInv, GitShaped, CloneIsFirst, RebasesClean,
     EditsAreKept, GoneWasDeleted, DeletedIn, StagedGoesOn
<1>2. CASE \E f \in GitFiles : UserEdits(f) \/ UserDeletes(f) \/ OthersPush(f)
  BY <1>2, UserSteps, OthersStep
<1>3. CASE Clone \/ CloneStopped \/ Add \/ DoCommit \/ Fetch \/ Push \/ PushCutOff \/ Merge_ff_only
  BY <1>3, CloneSteps, AddStep, CommitStep, FetchStep, PushSteps, MergeStep
<1>4. CASE RebaseBegins \/ RebaseEnds \/ RebaseFails \/ Abort
  BY <1>4, RebaseSteps
<1>5. CASE \/ GitStarts \/ LookAtFolder \/ Changes \/ Ancestor \/ Ahead \/ Status \/ LsRemote
           \/ CommandFails \/ GitRestart
  BY <1>5, PlainSteps
<1> QED
  BY <1>1, <1>2, <1>3, <1>4, <1>5 DEF GitNext

-----------------------------------------------------------------------------
(* The order of a document.  It is defined by recursion: an operation, those *)
(* that follow it, then its siblings.  That the recursion ends, lists every  *)
(* insertion once and depends only on what is listed is shown by induction   *)
(* over the trees of operations, of which ForestInduction is the principle.  *)

Keyed(S) ==
  /\ \A op \in S : op.counter \in Nat \ {0} /\ op.actor \in Nat
  /\ \A op, other \in S : op.counter = other.counter /\ op.actor = other.actor => op = other

\* In any set of operations there is one that none of the others follows.
Acyclic(S) ==
  \A T \in SUBSET S : T # {} => \E op \in T : \A other \in T : other.after # OpId(op)

Document(S) == IsFiniteSet(S) /\ Keyed(S) /\ Acyclic(S)

LEMMA PartOfDocument ==
  ASSUME NEW S, Document(S), NEW T \in SUBSET S
  PROVE  Document(T)
<1>1. IsFiniteSet(T)
  BY FS_Subset DEF Document
<1>2. Keyed(T)
  BY DEF Document, Keyed
<1>3. Acyclic(T)
  BY DEF Document, Acyclic
<1> QED
  BY <1>1, <1>2, <1>3 DEF Document

LEMMA IdIsKey ==
  ASSUME NEW S, Keyed(S), NEW op \in S
  PROVE  /\ OpId(op) # ROOT
         /\ \A other \in S : OpId(op) = OpId(other) => op = other
BY DEF Keyed, OpId, ROOT

LEMMA SmallestPart ==
  ASSUME NEW S, IsFiniteSet(S), NEW B \in SUBSET SUBSET S, B # {}
  PROVE  \E T \in B : \A U \in B : U \subseteq T => U = T
<1>1. IsWellFoundedOn(StrictSubsetOrdering(S), SUBSET S)
  BY FS_StrictSubsetOrderingWellFounded, FS_FiniteSubsetsOfFinite
<1>2. PICK T \in B : \A U \in B : ~ (<<U, T>> \in StrictSubsetOrdering(S))
  BY <1>1, WFMin
<1> QED
  BY <1>2 DEF StrictSubsetOrdering

LEMMA LeastNumber ==
  ASSUME NEW N \in SUBSET Nat, N # {}
  PROVE  \E n \in N : \A m \in N : n <= m
<1>1. PICK n \in N : \A m \in N : ~ (<<m, n>> \in OpToRel(<, Nat))
  BY NatLessThanWellFounded, WFMin
<1>2. \A m \in N : ~(m < n)
  BY <1>1 DEF OpToRel
<1> QED
  BY <1>2

\* Siblings have a first, and only one.
LEMMA FirstIsLeast ==
  ASSUME NEW S, Keyed(S), S # {}
  PROVE  /\ First(S) \in S
         /\ \A other \in S \ {First(S)} : Before(First(S), other)
<1> DEFINE N == {op.counter : op \in S}
<1>1. PICK n \in N : \A m \in N : n <= m
  <2>1. N \in SUBSET Nat /\ N # {}
    BY DEF Keyed
  <2> HIDE DEF N
  <2> QED
    BY <2>1, LeastNumber
<1> DEFINE A == {op.actor : op \in {x \in S : x.counter = n}}
<1>2. PICK a \in A : \A b \in A : a <= b
  <2>1. A \in SUBSET Nat /\ A # {}
    BY DEF Keyed
  <2> HIDE DEF A
  <2> QED
    BY <2>1, LeastNumber
<1>3. PICK op \in S : op.counter = n /\ op.actor = a
  BY <1>2
<1>4. ASSUME NEW other \in S \ {op} PROVE Before(op, other)
  <2>1. other.counter \in N /\ other.counter \in Nat /\ other.actor \in Nat /\ n \in Nat /\ a \in Nat
    BY <1>1, <1>3 DEF Keyed
  <2>2. n <= other.counter
    BY <1>1, <2>1
  <2>3. CASE other.counter = n
    <3>1. other.actor \in A
      BY <2>3
    <3>2. a <= other.actor /\ a # other.actor
      BY <1>2, <1>3, <2>3, <3>1 DEF Keyed
    <3> QED
      BY <1>3, <2>1, <2>3, <3>2 DEF Before
  <2> QED
    BY <1>3, <2>1, <2>2, <2>3 DEF Before
<1> QED
  BY <1>4 DEF First

LEMMA FirstIsOnly ==
  ASSUME NEW S, Keyed(S), NEW x \in S, \A other \in S \ {x} : Before(x, other)
  PROVE  First(S) = x
<1>1. /\ First(S) \in S
      /\ \A other \in S \ {First(S)} : Before(First(S), other)
  BY FirstIsLeast
<1> SUFFICES ASSUME First(S) # x PROVE FALSE
  OBVIOUS
<1>2. Before(x, First(S)) /\ Before(First(S), x)
  BY <1>1
<1> QED
  BY <1>1, <1>2 DEF Before, Keyed

LEMMA ChildFacts ==
  ASSUME NEW S, NEW id, id # ROOT, NEW c
  PROVE  c \in ChildrenOf(id, S) <=>
           /\ c \in Inserts(S) /\ c.after = id
           /\ \E other \in Inserts(S) : OpId(other) = id
BY DEF ChildrenOf, Parent

LEMMA ForestInduction ==
  ASSUME NEW S, Document(S), NEW G, {} \in G,
         \A sib \in SUBSET S :
           /\ sib # {} /\ sib \ {First(sib)} \in G
           /\ ChildrenOf(OpId(First(sib)), S) \in G
           => sib \in G
  PROVE  SUBSET S \subseteq G
<1> DEFINE Follow(op) == ChildrenOf(OpId(op), S)
<1>1. ASSUME NEW A \in SUBSET S, \A op \in A : SUBSET Follow(op) \subseteq G
      PROVE  A \in G
  <2> DEFINE B == {sib \in SUBSET A : sib \notin G}
  <2> SUFFICES ASSUME B # {} PROVE FALSE
    OBVIOUS
  <2>1. PICK sib \in B : \A U \in B : U \subseteq sib => U = sib
    <3>1. B \in SUBSET SUBSET A /\ IsFiniteSet(A)
      BY FS_Subset DEF Document
    <3> HIDE DEF B
    <3> QED
      BY <3>1, SmallestPart
  <2>2. sib # {} /\ sib \subseteq A /\ sib \subseteq S /\ sib \notin G
    BY <2>1
  <2>3. First(sib) \in sib
    BY <2>2, PartOfDocument, FirstIsLeast DEF Document
  <2>4. sib \ {First(sib)} \in G
    BY <2>1, <2>2, <2>3
  <2>5. Follow(First(sib)) \in G
    BY <1>1, <2>2, <2>3
  <2> QED
    BY <2>2, <2>4, <2>5
<1> DEFINE T == {op \in S : ~ (SUBSET Follow(op) \subseteq G)}
<1>2. T = {}
  <2> SUFFICES ASSUME T # {} PROVE FALSE
    OBVIOUS
  <2>1. PICK op \in T : \A other \in T : other.after # OpId(op)
    <3>1. T \in SUBSET S
      OBVIOUS
    <3> HIDE DEF T
    <3> QED
      BY <3>1 DEF Document, Acyclic
  <2>2. OpId(op) # ROOT
    BY IdIsKey DEF Document
  <2>3. ASSUME NEW A \in SUBSET Follow(op) PROVE A \in G
    <3>1. ASSUME NEW c \in A PROVE c \in S /\ c \notin T
      <4>1. c \in S /\ c.after = OpId(op)
        BY <2>2, ChildFacts DEF Inserts
      <4> QED
        BY <2>1, <4>1
    <3>2. \A c \in A : SUBSET Follow(c) \subseteq G
      BY <3>1
    <3> QED
      BY <1>1, <3>1, <3>2
  <2> QED
    BY <2>3
<1>3. \A op \in S : SUBSET Follow(op) \subseteq G
  BY <1>2
<1>4. ASSUME NEW A \in SUBSET S PROVE A \in G
  <2> HIDE DEF T, Follow
  <2> QED
    BY <1>1, <1>3
<1> QED
  BY <1>4

\* What the recursion says of f at sib.
Unfolded(f, sib, S, shown) ==
  IF sib = {} THEN <<>>
  ELSE (IF First(sib) \in shown THEN <<First(sib)>> ELSE <<>>)
         \o f[ChildrenOf(OpId(First(sib)), S)] \o f[sib \ {First(sib)}]

\* The recursion needs no other siblings than those of D.
Closed(D, S) ==
  /\ D \subseteq SUBSET S
  /\ \A sib \in D : sib # {} => /\ ChildrenOf(OpId(First(sib)), S) \in D
                                /\ sib \ {First(sib)} \in D

IsForest(f, D, S, shown) == f = [sib \in D |-> Unfolded(f, sib, S, shown)]
PartOfForest(f, D, S, shown) == Closed(D, S) /\ \A sib \in D : f[sib] = Unfolded(f, sib, S, shown)

LEMMA ForestsAgree ==
  ASSUME NEW S, Document(S), NEW shown, NEW f, NEW D, PartOfForest(f, D, S, shown),
         NEW g, NEW E, PartOfForest(g, E, S, shown), NEW sib \in D \intersect E
  PROVE  f[sib] = g[sib]
<1> DEFINE G == {A \in SUBSET S : A \in D \intersect E => f[A] = g[A]}
<1>1. {} \in G
  BY DEF PartOfForest, Unfolded
<1>2. ASSUME NEW A \in SUBSET S, A # {}, A \ {First(A)} \in G,
             ChildrenOf(OpId(First(A)), S) \in G
      PROVE  A \in G
  <2> SUFFICES ASSUME A \in D \intersect E PROVE f[A] = g[A]
    OBVIOUS
  <2>1. /\ A \ {First(A)} \in D \intersect E
        /\ ChildrenOf(OpId(First(A)), S) \in D \intersect E
    BY <1>2 DEF PartOfForest, Closed
  <2>2. /\ f[A \ {First(A)}] = g[A \ {First(A)}]
        /\ f[ChildrenOf(OpId(First(A)), S)] = g[ChildrenOf(OpId(First(A)), S)]
    BY <1>2, <2>1
  <2>3. f[A] = Unfolded(f, A, S, shown) /\ g[A] = Unfolded(g, A, S, shown)
    BY DEF PartOfForest
  <2> QED
    BY <2>2, <2>3 DEF Unfolded
<1>3. SUBSET S \subseteq G
  <2> HIDE DEF G
  <2> QED
    BY <1>1, <1>2, ForestInduction
<1>4. sib \in G
  BY <1>3 DEF PartOfForest, Closed
<1> QED
  BY <1>4

\* Two parts that suffice for the children and the other siblings make one for all.
LEMMA ForestGrows ==
  ASSUME NEW S, Document(S), NEW shown, NEW sib \in SUBSET S, sib # {},
         NEW f, NEW D, PartOfForest(f, D, S, shown), sib \ {First(sib)} \in D,
         NEW g, NEW E, PartOfForest(g, E, S, shown), ChildrenOf(OpId(First(sib)), S) \in E
  PROVE  \E h, A : PartOfForest(h, A, S, shown) /\ sib \in A
<1> DEFINE A == D \union E \union {sib}
           rest == sib \ {First(sib)}
           below == ChildrenOf(OpId(First(sib)), S)
           head == IF First(sib) \in shown THEN <<First(sib)>> ELSE <<>>
           h == [B \in A |-> IF B \in D THEN f[B] ELSE IF B \in E THEN g[B]
                             ELSE head \o g[below] \o f[rest]]
<1>1. Closed(A, S)
  BY DEF PartOfForest, Closed
<1>2. /\ \A B \in D : h[B] = f[B]
      /\ \A B \in E : h[B] = g[B]
      /\ sib \notin D \union E => h[sib] = head \o g[below] \o f[rest]
  <2>1. \A B \in A : h[B] = IF B \in D THEN f[B] ELSE IF B \in E THEN g[B]
                             ELSE head \o g[below] \o f[rest]
    OBVIOUS
  <2>2. \A B \in D \intersect E : f[B] = g[B]
    BY ForestsAgree
  <2> HIDE DEF h, head, below, rest
  <2> QED
    BY <2>1, <2>2
<1> HIDE DEF h
<1>3. ASSUME NEW B \in D PROVE h[B] = Unfolded(h, B, S, shown)
  <2>1. f[B] = Unfolded(f, B, S, shown)
    BY DEF PartOfForest
  <2>2. B # {} => /\ h[ChildrenOf(OpId(First(B)), S)] = f[ChildrenOf(OpId(First(B)), S)]
                  /\ h[B \ {First(B)}] = f[B \ {First(B)}]
    BY <1>2 DEF PartOfForest, Closed
  <2> QED
    BY <1>2, <2>1, <2>2 DEF Unfolded
<1>4. ASSUME NEW B \in E PROVE h[B] = Unfolded(h, B, S, shown)
  <2>1. g[B] = Unfolded(g, B, S, shown)
    BY DEF PartOfForest
  <2>2. B # {} => /\ h[ChildrenOf(OpId(First(B)), S)] = g[ChildrenOf(OpId(First(B)), S)]
                  /\ h[B \ {First(B)}] = g[B \ {First(B)}]
    BY <1>2 DEF PartOfForest, Closed
  <2> QED
    BY <1>2, <2>1, <2>2 DEF Unfolded
<1>5. sib \notin D \union E => h[sib] = Unfolded(h, sib, S, shown)
  BY <1>2 DEF Unfolded
<1>6. \A B \in A : h[B] = Unfolded(h, B, S, shown)
  BY <1>3, <1>4, <1>5
<1> QED
  BY <1>1, <1>6 DEF PartOfForest

LEMMA ForestExists ==
  ASSUME NEW S, Document(S), NEW shown
  PROVE  \E f : IsForest(f, SUBSET S, S, shown)
<1> DEFINE Covered(sib) == \E f, D : PartOfForest(f, D, S, shown) /\ sib \in D
           G == {sib \in SUBSET S : Covered(sib)}
<1>1. {} \in G
  <2>1. PartOfForest([sib \in {{}} |-> <<>>], {{}}, S, shown)
    BY DEF PartOfForest, Closed, Unfolded
  <2> QED
    BY <2>1
<1>2. ASSUME NEW A \in SUBSET S, A # {}, A \ {First(A)} \in G,
             ChildrenOf(OpId(First(A)), S) \in G
      PROVE  A \in G
  <2>1. PICK f, D : PartOfForest(f, D, S, shown) /\ A \ {First(A)} \in D
    BY <1>2
  <2>2. PICK g, E : PartOfForest(g, E, S, shown) /\ ChildrenOf(OpId(First(A)), S) \in E
    BY <1>2
  <2> QED
    BY <1>2, <2>1, <2>2, ForestGrows
<1>3. SUBSET S \subseteq G
  <2> HIDE DEF G
  <2> QED
    BY <1>1, <1>2, ForestInduction
<1>4. ASSUME NEW sib \in SUBSET S PROVE Covered(sib)
  BY <1>3
<1> DEFINE Value(sib) == CHOOSE v : \E f, D : /\ PartOfForest(f, D, S, shown) /\ sib \in D
                                              /\ v = f[sib]
           F == [sib \in SUBSET S |-> Value(sib)]
<1>5. ASSUME NEW f, NEW D, PartOfForest(f, D, S, shown), NEW sib \in D
      PROVE  F[sib] = f[sib]
  <2>1. sib \in SUBSET S
    BY <1>5 DEF PartOfForest, Closed
  <2>2. \E v : \E g, E : PartOfForest(g, E, S, shown) /\ sib \in E /\ v = g[sib]
    BY <1>5
  <2>3. PICK g, E : PartOfForest(g, E, S, shown) /\ sib \in E /\ Value(sib) = g[sib]
    BY <2>2
  <2>4. g[sib] = f[sib]
    BY <1>5, <2>3, ForestsAgree
  <2> QED
    BY <2>1, <2>3, <2>4
<1> HIDE DEF F
<1>6. ASSUME NEW sib \in SUBSET S PROVE F[sib] = Unfolded(F, sib, S, shown)
  <2>1. PICK f, D : PartOfForest(f, D, S, shown) /\ sib \in D
    BY <1>4
  <2>2. f[sib] = Unfolded(f, sib, S, shown) /\ F[sib] = f[sib]
    BY <1>5, <2>1 DEF PartOfForest
  <2>3. sib # {} => /\ ChildrenOf(OpId(First(sib)), S) \in D
                    /\ sib \ {First(sib)} \in D
    BY <2>1 DEF PartOfForest, Closed
  <2>4. sib # {} => /\ F[ChildrenOf(OpId(First(sib)), S)] = f[ChildrenOf(OpId(First(sib)), S)]
                    /\ F[sib \ {First(sib)}] = f[sib \ {First(sib)}]
    BY <1>5, <2>1, <2>3
  <2> QED
    BY <2>2, <2>4 DEF Unfolded
<1>7. F = [sib \in SUBSET S |-> F[sib]]
  BY DEF F
<1>8. F = [sib \in SUBSET S |-> Unfolded(F, sib, S, shown)]
  BY <1>6, <1>7, Zenon
<1> QED
  BY <1>8 DEF IsForest

\* The forest of a document, and the equations it satisfies.
ForestOf(S, shown) == CHOOSE f : IsForest(f, SUBSET S, S, shown)

LEMMA TextOrderIsForest ==
  ASSUME NEW S, NEW shown
  PROVE  TextOrder(S, shown) = ForestOf(S, shown)[ChildrenOf(ROOT, S)]
BY DEF TextOrder, ForestOf, IsForest, Unfolded

LEMMA ForestValue ==
  ASSUME NEW S, Document(S), NEW shown, NEW sib \in SUBSET S
  PROVE  ForestOf(S, shown)[sib] = Unfolded(ForestOf(S, shown), sib, S, shown)
<1>1. IsForest(ForestOf(S, shown), SUBSET S, S, shown)
  BY ForestExists DEF ForestOf
<1> QED
  BY <1>1 DEF IsForest

LEMMA ChildrenArePart ==
  ASSUME NEW S, NEW id
  PROVE  ChildrenOf(id, S) \in SUBSET S
BY DEF ChildrenOf, Inserts

-----------------------------------------------------------------------------
(* What the order lists *)

\* The operations of a set that are shown, after the first of them.
LEMMA ForestStep ==
  ASSUME NEW S, Document(S), NEW shown, NEW sib \in SUBSET S, sib # {}
  PROVE  /\ First(sib) \in sib
         /\ ForestOf(S, shown)[sib] =
              (IF First(sib) \in shown THEN <<First(sib)>> ELSE <<>>)
                \o ForestOf(S, shown)[ChildrenOf(OpId(First(sib)), S)]
                \o ForestOf(S, shown)[sib \ {First(sib)}]
         /\ ChildrenOf(OpId(First(sib)), S) \in SUBSET S
         /\ sib \ {First(sib)} \in SUBSET S
<1>1. First(sib) \in sib
  BY PartOfDocument, FirstIsLeast DEF Document
<1>2. ForestOf(S, shown)[sib] = Unfolded(ForestOf(S, shown), sib, S, shown)
  BY ForestValue
<1>3. ChildrenOf(OpId(First(sib)), S) \in SUBSET S
  BY ChildrenArePart
<1> QED
  BY <1>1, <1>2, <1>3 DEF Unfolded

LEMMA ForestOfNone ==
  ASSUME NEW S, Document(S), NEW shown
  PROVE  ForestOf(S, shown)[{}] = <<>>
BY ForestValue DEF Unfolded

LEMMA ThreeParts ==
  ASSUME NEW S, NEW s \in Seq(S), NEW t \in Seq(S), NEW u \in Seq(S)
  PROVE  /\ s \o t \o u \in Seq(S)
         /\ Range(s \o t \o u) = Range(s) \union Range(t) \union Range(u)
<1> DEFINE st == s \o t
<1>1. st \in Seq(S)
  BY ConcatProperties
<1>2. Range(st) = Range(s) \union Range(t)
  BY RangeConcatenation
<1> HIDE DEF st
<1>3. st \o u \in Seq(S)
  BY <1>1, ConcatProperties
<1>4. Range(st \o u) = Range(st) \union Range(u)
  BY <1>1, RangeConcatenation
<1>5. /\ st \o u \in Seq(S)
      /\ Range(st \o u) = Range(s) \union Range(t) \union Range(u)
  BY <1>2, <1>3, <1>4
<1> QED
  BY <1>5 DEF st

LEMMA ForestIsSeq ==
  ASSUME NEW S, Document(S), NEW shown, NEW sib \in SUBSET S
  PROVE  ForestOf(S, shown)[sib] \in Seq(S \intersect shown)
<1> DEFINE f == ForestOf(S, shown)
           G == {A \in SUBSET S : f[A] \in Seq(S \intersect shown)}
<1> HIDE DEF f
<1>1. {} \in G
  BY ForestOfNone, EmptySeq DEF f
<1>2. ASSUME NEW A \in SUBSET S, A # {}, A \ {First(A)} \in G,
             ChildrenOf(OpId(First(A)), S) \in G
      PROVE  A \in G
  <2> DEFINE head == IF First(A) \in shown THEN <<First(A)>> ELSE <<>>
  <2>1. First(A) \in S /\ f[A] = head \o f[ChildrenOf(OpId(First(A)), S)] \o f[A \ {First(A)}]
    BY <1>2, ForestStep DEF f
  <2>2. head \in Seq(S \intersect shown)
    <3>1. CASE First(A) \in shown
      <4>1. <<First(A)>> \in Seq(S \intersect shown)
        BY <2>1, <3>1
      <4> QED
        BY <3>1, <4>1
    <3>2. CASE First(A) \notin shown
      <4>1. <<>> \in Seq(S \intersect shown)
        OBVIOUS
      <4> QED
        BY <3>2, <4>1
    <3> QED
      BY <3>1, <3>2
  <2>3. /\ f[ChildrenOf(OpId(First(A)), S)] \in Seq(S \intersect shown)
        /\ f[A \ {First(A)}] \in Seq(S \intersect shown)
    BY <1>2
  <2> DEFINE below == f[ChildrenOf(OpId(First(A)), S)]
             rest == f[A \ {First(A)}]
  <2> HIDE DEF head, below, rest
  <2>4. head \o below \o rest \in Seq(S \intersect shown)
    BY <2>2, <2>3, ThreeParts DEF below, rest
  <2>5. f[A] \in Seq(S \intersect shown)
    BY <2>1, <2>4 DEF below, rest
  <2> QED
    BY <2>5
<1>3. SUBSET S \subseteq G
  <2> HIDE DEF G
  <2> QED
    BY <1>1, <1>2, ForestInduction
<1> QED
  BY <1>3 DEF f

\* The operations of a tree: the first, those below it, and those of its siblings.
LEMMA TreeStep ==
  ASSUME NEW S, Document(S), NEW sib \in SUBSET S, sib # {}
  PROVE  Range(ForestOf(S, S)[sib]) =
           {First(sib)} \union Range(ForestOf(S, S)[ChildrenOf(OpId(First(sib)), S)])
             \union Range(ForestOf(S, S)[sib \ {First(sib)}])
<1> DEFINE f == ForestOf(S, S)
           below == ChildrenOf(OpId(First(sib)), S)
           rest == sib \ {First(sib)}
<1>1. /\ First(sib) \in S /\ below \in SUBSET S /\ rest \in SUBSET S
      /\ f[sib] = <<First(sib)>> \o f[below] \o f[rest]
  BY ForestStep
<1> HIDE DEF f, below, rest
<1>2. f[below] \in Seq(S) /\ f[rest] \in Seq(S)
  BY <1>1, ForestIsSeq DEF f
<1>3. <<First(sib)>> \in Seq(S) /\ Range(<<First(sib)>>) = {First(sib)}
  BY <1>1 DEF Range
<1> DEFINE head == <<First(sib)>>
           b == f[below]
           r == f[rest]
<1>4. Range(f[sib]) = {First(sib)} \union Range(f[below]) \union Range(f[rest])
  <2> HIDE DEF head, b, r
  <2>1. head \in Seq(S) /\ b \in Seq(S) /\ r \in Seq(S)
    BY <1>2, <1>3 DEF head, b, r
  <2>2. Range(head \o b \o r) = Range(head) \union Range(b) \union Range(r)
    BY <2>1, ThreeParts
  <2> QED
    BY <1>1, <1>3, <2>2 DEF head, b, r
<1> QED
  BY <1>4 DEF f, below, rest

LEMMA NoneListed ==
  ASSUME NEW S, Document(S)
  PROVE  Range(ForestOf(S, S)[{}]) = {}
BY ForestOfNone DEF Range

\* A list of siblings has them and all that follows them, and nothing else.
LEMMA TreeIsWhole ==
  ASSUME NEW S, Document(S), NEW sib \in SUBSET S
  PROVE  LET entries == Range(ForestOf(S, S)[sib])
         IN  /\ entries \subseteq S /\ sib \subseteq entries
             /\ \A op \in entries : ChildrenOf(OpId(op), S) \subseteq entries
             /\ \A op \in entries \ sib : \E other \in entries : op \in ChildrenOf(OpId(other), S)
<1> DEFINE R(A) == Range(ForestOf(S, S)[A])
           Whole(A) == /\ R(A) \subseteq S /\ A \subseteq R(A)
                       /\ \A op \in R(A) : ChildrenOf(OpId(op), S) \subseteq R(A)
                       /\ \A op \in R(A) \ A :
                            \E other \in R(A) : op \in ChildrenOf(OpId(other), S)
           G == {A \in SUBSET S : Whole(A)}
<1>1. {} \in G
  BY NoneListed
<1>2. ASSUME NEW A \in SUBSET S, A # {}, A \ {First(A)} \in G,
             ChildrenOf(OpId(First(A)), S) \in G
      PROVE  A \in G
  <2> DEFINE first == First(A)
             below == ChildrenOf(OpId(first), S)
             rest == A \ {first}
  <2>1. R(A) = {first} \union R(below) \union R(rest)
    BY <1>2, TreeStep
  <2>2. Whole(below) /\ Whole(rest)
    BY <1>2
  <2>3. first \in A
    BY <1>2, ForestStep
  <2> HIDE DEF R, first, rest
  <2>4. R(A) \subseteq S /\ A \subseteq R(A)
    BY <2>1, <2>2, <2>3 DEF rest
  <2>5. \A op \in R(A) : ChildrenOf(OpId(op), S) \subseteq R(A)
    BY <2>1, <2>2
  <2>6. \A op \in R(A) \ A : \E other \in R(A) : op \in ChildrenOf(OpId(other), S)
    BY <2>1, <2>2, <2>3 DEF rest
  <2> QED
    BY <2>4, <2>5, <2>6
<1>3. SUBSET S \subseteq G
  <2> HIDE DEF G
  <2> QED
    BY <1>1, <1>2, ForestInduction
<1>4. Whole(sib)
  BY <1>3
<1> QED
  BY <1>4

\* In any set of operations there is one that follows none of the others.
LEMMA RootMost ==
  ASSUME NEW S, Document(S), NEW T \in SUBSET S, T # {}
  PROVE  \E op \in T : \A other \in T : op.after # OpId(other)
<1> DEFINE B == {U \in SUBSET T : U # {} /\ \A op \in U : \E other \in U : op.after = OpId(other)}
<1> SUFFICES ASSUME B # {} PROVE FALSE
  OBVIOUS
<1>1. PICK U \in B : \A V \in B : V \subseteq U => V = U
  <2>1. B \in SUBSET SUBSET T /\ IsFiniteSet(T)
    BY FS_Subset DEF Document
  <2> HIDE DEF B
  <2> QED
    BY <2>1, SmallestPart
<1>2. U \in SUBSET S /\ U # {} /\ \A op \in U : \E other \in U : op.after = OpId(other)
  BY <1>1
<1>3. PICK leaf \in U : \A other \in U : other.after # OpId(leaf)
  BY <1>2 DEF Document, Acyclic
<1> DEFINE V == U \ {leaf}
<1>4. \A op \in V : \E other \in V : op.after = OpId(other)
  BY <1>2, <1>3
<1>5. V # {}
  BY <1>2, <1>3
<1>6. V \in B
  BY <1>4, <1>5
<1> QED
  BY <1>1, <1>6

LEMMA WholeStep ==
  ASSUME NEW S, Document(S), NEW sib \in SUBSET S, sib # {}
  PROVE  ForestOf(S, S)[sib] =
           <<First(sib)>> \o ForestOf(S, S)[ChildrenOf(OpId(First(sib)), S)]
             \o ForestOf(S, S)[sib \ {First(sib)}]
BY ForestStep

\* Nothing is below what follows it.
LEMMA NotBelowItself ==
  ASSUME NEW S, Document(S), NEW p \in S, NEW sib \in SUBSET ChildrenOf(OpId(p), S)
  PROVE  p \notin Range(ForestOf(S, S)[sib])
<1> DEFINE T == Range(ForestOf(S, S)[sib])
<1>1. sib \in SUBSET S
  BY ChildrenArePart
<1>2. /\ T \subseteq S /\ sib \subseteq T
      /\ \A op \in T \ sib : \E other \in T : op \in ChildrenOf(OpId(other), S)
  BY <1>1, TreeIsWhole
<1> HIDE DEF T
<1> SUFFICES ASSUME p \in T PROVE FALSE
  BY DEF T
<1>3. PICK op \in T : \A other \in T : op.after # OpId(other)
  <2>1. T \in SUBSET S /\ T # {}
    BY <1>2
  <2> QED
    BY <2>1, RootMost
<1>4. ASSUME NEW other \in T, op \in ChildrenOf(OpId(other), S) PROVE FALSE
  <2>1. OpId(other) # ROOT
    BY <1>2, IdIsKey DEF Document
  <2>2. op.after = OpId(other)
    BY <1>4, <2>1, ChildFacts
  <2> QED
    BY <1>3, <2>2
<1> QED
  BY <1>2, <1>3, <1>4

\* An operation, what is below it and what is below its siblings lie apart.
LEMMA TreesApart ==
  ASSUME NEW S, Document(S), NEW id, NEW sib \in SUBSET ChildrenOf(id, S), sib # {}
  PROVE  LET below == Range(ForestOf(S, S)[ChildrenOf(OpId(First(sib)), S)])
             rest == Range(ForestOf(S, S)[sib \ {First(sib)}])
         IN  /\ First(sib) \notin below /\ First(sib) \notin rest
             /\ below \intersect rest = {}
<1> DEFINE first == First(sib)
           children == ChildrenOf(OpId(first), S)
           others == sib \ {first}
           below == Range(ForestOf(S, S)[children])
           rest == Range(ForestOf(S, S)[others])
<1>1. sib \in SUBSET S /\ children \in SUBSET S /\ others \in SUBSET S
  BY ChildrenArePart
<1>2. first \in sib /\ first \in S
  BY <1>1, ForestStep
<1>3. /\ below \subseteq S /\ children \subseteq below
      /\ \A op \in below : ChildrenOf(OpId(op), S) \subseteq below
      /\ \A op \in below \ children : \E other \in below : op \in ChildrenOf(OpId(other), S)
  BY <1>1, TreeIsWhole
<1>4. /\ rest \subseteq S /\ others \subseteq rest
      /\ \A op \in rest \ others : \E other \in rest : op \in ChildrenOf(OpId(other), S)
  BY <1>1, TreeIsWhole
<1>5. \A p \in S : \A A \in SUBSET ChildrenOf(OpId(p), S) : p \notin Range(ForestOf(S, S)[A])
  BY NotBelowItself
<1>6. first \notin below
  BY <1>2, <1>5
<1>7. \A op \in sib : op \in ChildrenOf(id, S)
  OBVIOUS
<1>8. ASSUME NEW p \in S, OpId(p) = id PROVE p \notin rest
  BY <1>5, <1>8
<1>9. \A op, a, b : op \in ChildrenOf(a, S) /\ op \in ChildrenOf(b, S) => a = b
  BY DEF ChildrenOf
<1> HIDE DEF below, rest, children, first
<1>10. first \notin rest
  <2> SUFFICES ASSUME first \in rest PROVE FALSE
    OBVIOUS
  <2>1. PICK other \in rest : first \in ChildrenOf(OpId(other), S)
    BY <1>4
  <2>2. OpId(other) = id
    BY <1>2, <1>7, <1>9, <2>1
  <2> QED
    BY <1>4, <1>8, <2>1, <2>2
<1>11. first \notin ChildrenOf(OpId(first), S)
  BY <1>3, <1>6 DEF children
<1>12. below \intersect rest = {}
  <2> DEFINE X == below \intersect rest
  <2> SUFFICES ASSUME X # {} PROVE FALSE
    OBVIOUS
  <2>1. PICK op \in X : \A other \in X : op.after # OpId(other)
    <3>1. X \in SUBSET S
      BY <1>3
    <3> HIDE DEF X
    <3> QED
      BY <3>1, RootMost
  <2>2. ASSUME NEW other \in S, op \in ChildrenOf(OpId(other), S) PROVE op.after = OpId(other)
    <3>1. OpId(other) # ROOT
      BY IdIsKey DEF Document
    <3> QED
      BY <2>2, <3>1, ChildFacts
  <2>3. CASE op \in children
    <3>1. op \in ChildrenOf(OpId(first), S)
      BY <2>3 DEF children
    <3>2. CASE op \in others
      <4>1. id = OpId(first)
        BY <1>7, <1>9, <3>1, <3>2
      <4> QED
        BY <1>2, <1>7, <1>11, <4>1
    <3>3. CASE op \notin others
      <4>1. PICK other \in rest : op \in ChildrenOf(OpId(other), S)
        BY <1>4, <2>1, <3>3
      <4>2. OpId(other) = OpId(first) /\ other \in S
        BY <1>4, <1>9, <3>1, <4>1
      <4>3. other = first
        BY <1>2, <4>2, IdIsKey DEF Document
      <4> QED
        BY <1>10, <4>1, <4>3
    <3> QED
      BY <3>2, <3>3
  <2>4. CASE op \notin children
    <3>1. PICK o1 \in below : op \in ChildrenOf(OpId(o1), S)
      BY <1>3, <2>1, <2>4
    <3>2. CASE op \in others
      <4>1. id = OpId(o1)
        BY <1>7, <1>9, <3>1, <3>2
      <4>2. first \in ChildrenOf(OpId(o1), S)
        BY <1>2, <1>7, <4>1
      <4> QED
        BY <1>3, <1>6, <3>1, <4>2
    <3>3. CASE op \notin others
      <4>1. PICK o2 \in rest : op \in ChildrenOf(OpId(o2), S)
        BY <1>4, <2>1, <3>3
      <4>2. OpId(o1) = OpId(o2) /\ o1 \in S /\ o2 \in S
        BY <1>3, <1>4, <1>9, <3>1, <4>1
      <4>3. o1 = o2
        BY <4>2, IdIsKey DEF Document
      <4> QED
        BY <2>1, <2>2, <3>1, <4>1, <4>2, <4>3
    <3> QED
      BY <3>2, <3>3
  <2> QED
    BY <2>3, <2>4
<1> QED
  BY <1>6, <1>10, <1>12 DEF below, rest, children, first

LEMMA ApartCount ==
  ASSUME NEW A, IsFiniteSet(A), NEW B, IsFiniteSet(B), A \intersect B = {}
  PROVE  /\ IsFiniteSet(A \union B)
         /\ Cardinality(A \union B) = Cardinality(A) + Cardinality(B)
<1>1. Cardinality(A) \in Nat /\ Cardinality(B) \in Nat /\ Cardinality({}) = 0
  BY FS_CardinalityType, FS_EmptySet
<1>2. /\ IsFiniteSet(A \union B)
      /\ Cardinality(A \union B) = Cardinality(A) + Cardinality(B) - Cardinality({})
  BY FS_Union
<1> QED
  BY <1>1, <1>2

\* A list of siblings has as many entries as operations: none is listed twice.
LEMMA NoneListedTwice ==
  ASSUME NEW S, Document(S), NEW id, NEW sib \in SUBSET ChildrenOf(id, S)
  PROVE  LET entries == ForestOf(S, S)[sib]
         IN  IsFiniteSet(Range(entries)) /\ Cardinality(Range(entries)) = Len(entries)
<1> DEFINE f == ForestOf(S, S)
           Once(A) == IsFiniteSet(Range(f[A])) /\ Cardinality(Range(f[A])) = Len(f[A])
           Siblings(A) == \E i : A \in SUBSET ChildrenOf(i, S)
           G == {A \in SUBSET S : Siblings(A) => Once(A)}
<1>1. {} \in G
  <2>1. f[{}] = <<>> /\ Range(f[{}]) = {}
    BY ForestOfNone, NoneListed
  <2>2. Once({})
    BY <2>1, FS_EmptySet
  <2> QED
    BY <2>2
<1>2. ASSUME NEW A \in SUBSET S, A # {}, A \ {First(A)} \in G,
             ChildrenOf(OpId(First(A)), S) \in G
      PROVE  A \in G
  <2> SUFFICES ASSUME NEW i, A \in SUBSET ChildrenOf(i, S) PROVE Once(A)
    OBVIOUS
  <2> DEFINE first == First(A)
             below == ChildrenOf(OpId(first), S)
             rest == A \ {first}
  <2>1. Once(below) /\ Once(rest)
    <3>1. Siblings(below) /\ Siblings(rest)
      OBVIOUS
    <3> QED
      BY <1>2, <3>1
  <2>2. Range(f[A]) = {first} \union Range(f[below]) \union Range(f[rest])
    BY <1>2, TreeStep
  <2>3. /\ first \in S /\ below \in SUBSET S /\ rest \in SUBSET S
        /\ f[A] = <<first>> \o f[below] \o f[rest]
    BY <1>2, WholeStep, ForestStep
  <2>4. f[below] \in Seq(S) /\ f[rest] \in Seq(S)
    BY <2>3, ForestIsSeq
  <2>5. /\ first \notin Range(f[below]) /\ first \notin Range(f[rest])
        /\ Range(f[below]) \intersect Range(f[rest]) = {}
    BY <1>2, TreesApart
  <2> HIDE DEF f, first, below, rest
  <2> DEFINE b == f[below]
             r == f[rest]
  <2>6. /\ IsFiniteSet(Range(b) \union Range(r))
        /\ Cardinality(Range(b) \union Range(r)) = Len(b) + Len(r)
    <3>1. Range(b) \intersect Range(r) = {}
      BY <2>5
    <3>2. IsFiniteSet(Range(b)) /\ IsFiniteSet(Range(r)) /\ Len(b) \in Nat /\ Len(r) \in Nat
          /\ Cardinality(Range(b)) = Len(b) /\ Cardinality(Range(r)) = Len(r)
      BY <2>1, <2>4
    <3> HIDE DEF b, r
    <3> QED
      BY <3>1, <3>2, ApartCount
  <2>7. /\ IsFiniteSet(Range(f[A]))
        /\ Cardinality(Range(f[A])) = Len(b) + Len(r) + 1
    <3>1. Range(f[A]) = (Range(b) \union Range(r)) \union {first}
      BY <2>2
    <3>2. first \notin Range(b) \union Range(r)
      BY <2>5
    <3> DEFINE U == Range(b) \union Range(r)
    <3>3. IsFiniteSet(U) /\ Cardinality(U) = Len(b) + Len(r) /\ first \notin U
      BY <2>6, <3>2
    <3> HIDE DEF U
    <3>4. IsFiniteSet(U \union {first}) /\ Cardinality(U \union {first}) = Cardinality(U) + 1
      BY <3>3, FS_AddElement
    <3> QED
      BY <3>1, <3>3, <3>4 DEF U
  <2>8. Len(f[A]) = 1 + Len(b) + Len(r)
    <3>1. f[A] = <<first>> \o b \o r
      BY <2>3
    <3>2. b \in Seq(S) /\ r \in Seq(S) /\ <<first>> \in Seq(S)
      BY <2>3, <2>4
    <3> HIDE DEF b, r
    <3> QED
      BY <3>1, <3>2
  <2>9. Len(b) \in Nat /\ Len(r) \in Nat
    BY <2>4
  <2> HIDE DEF b, r
  <2>10. Cardinality(Range(f[A])) = Len(f[A])
    BY <2>7, <2>8, <2>9
  <2> QED
    BY <2>7, <2>10
<1>3. SUBSET S \subseteq G
  <2> HIDE DEF G
  <2> QED
    BY <1>1, <1>2, ForestInduction
<1>4. sib \in SUBSET S /\ Siblings(sib)
  BY ChildrenArePart
<1> HIDE DEF Siblings, Once
<1>5. Once(sib)
  BY <1>3, <1>4
<1> QED
  BY <1>5 DEF Once

\* The order of a document has every insertion once.
LEMMA OrderIsWhole ==
  ASSUME NEW S, Document(S)
  PROVE  /\ Range(Ordered(S)) = Inserts(S)
         /\ Len(Ordered(S)) = Cardinality(Inserts(S))
<1> DEFINE roots == ChildrenOf(ROOT, S)
           entries == Range(ForestOf(S, S)[roots])
<1>1. roots \in SUBSET S
  BY ChildrenArePart
<1>2. /\ entries \subseteq S /\ roots \subseteq entries
      /\ \A op \in entries : ChildrenOf(OpId(op), S) \subseteq entries
      /\ \A op \in entries \ roots : \E other \in entries : op \in ChildrenOf(OpId(other), S)
  BY <1>1, TreeIsWhole
<1>3. Cardinality(entries) = Len(ForestOf(S, S)[roots])
  BY NoneListedTwice
<1>4. Ordered(S) = ForestOf(S, S)[roots]
  BY TextOrderIsForest DEF Ordered
<1>5. \A op, i : op \in ChildrenOf(i, S) => op \in Inserts(S)
  BY DEF ChildrenOf
<1>6. entries \subseteq Inserts(S)
  BY <1>2, <1>5
<1> HIDE DEF entries, roots
<1>7. Inserts(S) \subseteq entries
  <2> DEFINE M == Inserts(S) \ entries
  <2> SUFFICES ASSUME M # {} PROVE FALSE
    OBVIOUS
  <2>1. PICK op \in M : \A other \in M : op.after # OpId(other)
    <3>1. M \in SUBSET S
      BY DEF Inserts
    <3> HIDE DEF M
    <3> QED
      BY <3>1, RootMost
  <2>2. CASE \E other \in Inserts(S) : OpId(other) = op.after
    <3>1. PICK other \in Inserts(S) : OpId(other) = op.after
      BY <2>2
    <3>2. other \in entries
      BY <2>1, <3>1
    <3>3. op \in ChildrenOf(OpId(other), S)
      BY <2>1, <3>1 DEF ChildrenOf, Parent
    <3> QED
      BY <1>2, <2>1, <3>2, <3>3
  <2>3. CASE ~ \E other \in Inserts(S) : OpId(other) = op.after
    <3>1. op \in roots
      BY <2>1, <2>3 DEF roots, ChildrenOf, Parent
    <3> QED
      BY <1>2, <2>1, <3>1
  <2> QED
    BY <2>2, <2>3
<1>8. entries = Inserts(S)
  BY <1>6, <1>7
<1> QED
  BY <1>3, <1>4, <1>8 DEF entries

-----------------------------------------------------------------------------
(* What two documents share *)

\* What is shown of a document is the order of that part by itself, if the part
\* has the neighbour of each of its insertions.
LEMMA PartOfForestIsForest ==
  ASSUME NEW S, Document(S), NEW C \in SUBSET S, Complete(C),
         NEW shown, S \intersect shown = C, NEW sib \in SUBSET S
  PROVE  ForestOf(S, shown)[sib] = ForestOf(C, C)[sib \intersect C]
<1> DEFINE f == ForestOf(S, shown)
           g == ForestOf(C, C)
           G == {A \in SUBSET S : f[A] = g[A \intersect C]}
<1>1. Document(C)
  BY PartOfDocument
<1>2. {} \in G
  <2>1. {} \intersect C = {}
    OBVIOUS
  <2>2. f[{}] = <<>> /\ g[{}] = <<>>
    BY <1>1, ForestOfNone
  <2> HIDE DEF f, g
  <2> QED
    BY <2>1, <2>2
<1>3. ASSUME NEW A \in SUBSET S, A # {}, A \ {First(A)} \in G,
             ChildrenOf(OpId(First(A)), S) \in G
      PROVE  A \in G
  <2> DEFINE first == First(A)
             below == ChildrenOf(OpId(first), S)
             rest == A \ {first}
  <2>1. /\ first \in A /\ first \in S /\ below \in SUBSET S /\ rest \in SUBSET S
        /\ f[A] = (IF first \in shown THEN <<first>> ELSE <<>>) \o f[below] \o f[rest]
    BY <1>3, ForestStep
  <2>2. f[below] = g[below \intersect C] /\ f[rest] = g[rest \intersect C]
    BY <1>3
  <2>3. OpId(first) # ROOT /\ \A other \in S : OpId(first) = OpId(other) => first = other
    BY <2>1, IdIsKey DEF Document
  <2>4. \A op \in A \ {first} : Before(first, op)
    BY <1>3, PartOfDocument, FirstIsLeast DEF Document
  <2>5. g[rest \intersect C] \in Seq(C)
    <3>1. rest \intersect C \in SUBSET C
      OBVIOUS
    <3>2. g[rest \intersect C] \in Seq(C \intersect C)
      BY <1>1, <3>1, ForestIsSeq
    <3> QED
      BY <3>2
  <2>6. \A c, T : c \in ChildrenOf(OpId(first), T) <=>
                    /\ c \in Inserts(T) /\ c.after = OpId(first)
                    /\ \E other \in Inserts(T) : OpId(other) = OpId(first)
    BY <2>3, ChildFacts
  <2> HIDE DEF f, g, first, rest
  <2>7. CASE first \in C
    <3>1. below \intersect C = ChildrenOf(OpId(first), C)
      BY <2>3, <2>6, <2>7 DEF Inserts
    <3>2. First(A \intersect C) = first
      <4>1. Keyed(A \intersect C) /\ first \in A \intersect C
        BY <1>1, <2>1, <2>7 DEF Document, Keyed
      <4>2. \A op \in (A \intersect C) \ {first} : Before(first, op)
        BY <2>4
      <4> QED
        BY <4>1, <4>2, FirstIsOnly
    <3>3. g[A \intersect C] = <<first>> \o g[ChildrenOf(OpId(first), C)]
                                \o g[(A \intersect C) \ {first}]
      <4> DEFINE B == A \intersect C
      <4>1. B \in SUBSET C /\ B # {} /\ First(B) = first
        BY <2>1, <2>7, <3>2
      <4> HIDE DEF B
      <4>2. g[B] = <<First(B)>> \o g[ChildrenOf(OpId(First(B)), C)] \o g[B \ {First(B)}]
        BY <1>1, <4>1, WholeStep DEF g
      <4>3. g[B] = <<first>> \o g[ChildrenOf(OpId(first), C)] \o g[B \ {first}]
        BY <4>1, <4>2
      <4> QED
        BY <4>3 DEF B
    <3>4. (A \intersect C) \ {first} = rest \intersect C
      BY DEF rest
    <3>5. f[A] = <<first>> \o f[below] \o f[rest]
      BY <2>1, <2>7
    <3>6. f[A] = g[A \intersect C]
      BY <2>2, <3>1, <3>3, <3>4, <3>5
    <3> QED
      BY <3>6
  <2>8. CASE first \notin C
    <3>1. below \intersect C = {}
      <4> SUFFICES ASSUME NEW c \in below \intersect C PROVE FALSE
        OBVIOUS
      <4>1. c \in Inserts(C) /\ c.after = OpId(first)
        BY <2>6 DEF Inserts
      <4>2. PICK other \in Inserts(C) : OpId(other) = OpId(first)
        BY <2>3, <4>1 DEF Complete
      <4> QED
        BY <2>3, <2>8, <4>2 DEF Inserts
    <3>2. g[{}] = <<>>
      BY <1>1, ForestOfNone DEF g
    <3>3. A \intersect C = rest \intersect C
      BY <2>8 DEF rest
    <3>4. f[A] = <<>> \o f[below] \o f[rest]
      BY <2>1, <2>8
    <3>5. <<>> \o <<>> = <<>> /\ <<>> \o g[rest \intersect C] = g[rest \intersect C]
      BY <2>5, ConcatEmptySeq, EmptySeq
    <3>6. f[below] = <<>>
      BY <2>2, <3>1, <3>2
    <3>7. f[A] = g[A \intersect C]
      BY <2>2, <3>3, <3>4, <3>5, <3>6
    <3> QED
      BY <3>7
  <2> QED
    BY <2>7, <2>8
<1>4. SUBSET S \subseteq G
  <2> HIDE DEF G
  <2> QED
    BY <1>2, <1>3, ForestInduction
<1> QED
  BY <1>4

LEMMA PartOfOrderIsOrder ==
  ASSUME NEW S, Document(S), NEW C \in SUBSET S, Complete(C),
         NEW shown, S \intersect shown = C
  PROVE  TextOrder(S, shown) = TextOrder(C, C)
<1>1. ChildrenOf(ROOT, S) \intersect C = ChildrenOf(ROOT, C)
  <2>1. \A op \in S : OpId(op) # ROOT
    BY IdIsKey DEF Document
  <2>2. Inserts(C) = Inserts(S) \intersect C
    BY DEF Inserts
  <2>3. ASSUME NEW op \in Inserts(C) PROVE Parent(op, S) = ROOT <=> Parent(op, C) = ROOT
    <3>1. op.after = ROOT \/ \E other \in Inserts(C) : OpId(other) = op.after
      BY DEF Complete
    <3>2. CASE op.after = ROOT
      BY <3>2 DEF Parent
    <3>3. CASE \E other \in Inserts(C) : OpId(other) = op.after
      BY <2>2, <3>3 DEF Parent
    <3> QED
      BY <3>1, <3>2, <3>3
  <2>4. \A op, T : op \in ChildrenOf(ROOT, T) <=> op \in Inserts(T) /\ Parent(op, T) = ROOT
    BY DEF ChildrenOf
  <2> QED
    BY <2>2, <2>3, <2>4
<1>2. ChildrenOf(ROOT, S) \in SUBSET S
  BY ChildrenArePart
<1>3. ForestOf(S, shown)[ChildrenOf(ROOT, S)] = ForestOf(C, C)[ChildrenOf(ROOT, S) \intersect C]
  BY <1>2, PartOfForestIsForest
<1> QED
  BY <1>1, <1>3, TextOrderIsForest

\* Two documents that have the neighbours of what they list agree on its order.
LEMMA OrdersOfTwoAgree ==
  ASSUME NEW S, Document(S), Complete(S), NEW T, Document(T), Complete(T), Keyed(S \union T)
  PROVE  TextOrder(S, T) = TextOrder(T, S)
<1> DEFINE C == S \intersect T
<1>1. Complete(C)
  <2> SUFFICES ASSUME NEW op \in Inserts(C), op.after # ROOT
               PROVE  op.after \in {OpId(other) : other \in Inserts(C)}
    BY DEF Complete
  <2>1. op \in Inserts(S) /\ op \in Inserts(T)
    BY DEF Inserts
  <2>2. PICK o1 \in Inserts(S) : OpId(o1) = op.after
    BY <2>1 DEF Complete
  <2>3. PICK o2 \in Inserts(T) : OpId(o2) = op.after
    BY <2>1 DEF Complete
  <2>4. o1 = o2
    <3>1. o1 \in S \union T /\ o2 \in S \union T
      BY DEF Inserts
    <3> QED
      BY <2>2, <2>3, <3>1, IdIsKey
  <2> QED
    BY <2>2, <2>3, <2>4 DEF Inserts
<1>2. TextOrder(S, T) = TextOrder(C, C)
  <2>1. C \in SUBSET S
    OBVIOUS
  <2> QED
    BY <1>1, <2>1, PartOfOrderIsOrder
<1>3. TextOrder(T, S) = TextOrder(C, C)
  <2>1. C \in SUBSET T /\ T \intersect S = C
    OBVIOUS
  <2> QED
    BY <1>1, <2>1, PartOfOrderIsOrder
<1> QED
  BY <1>2, <1>3

-----------------------------------------------------------------------------
(* What replacing the text creates *)

\* Operations as an editor writes them.
Typed(S) ==
  /\ IsFiniteSet(S) /\ S \subseteq OperationType
  /\ \A op \in Inserts(S) : op.value \in Letters

LEMMA OrderListsShown ==
  ASSUME NEW S, Document(S), NEW shown
  PROVE  TextOrder(S, shown) \in Seq(S \intersect shown)
<1>1. ChildrenOf(ROOT, S) \in SUBSET S
  BY ChildrenArePart
<1> QED
  BY <1>1, ForestIsSeq, TextOrderIsForest

LEMMA VisibleIsSeq ==
  ASSUME NEW S, Document(S)
  PROVE  Visible(S) \in Seq(Inserts(S))
<1> DEFINE shown == {op \in Inserts(S) : \A del \in S \ Inserts(S) : del.after # OpId(op)}
<1>1. Visible(S) \in Seq(S \intersect shown)
  BY OrderListsShown DEF Visible
<1>2. S \intersect shown \subseteq Inserts(S)
  OBVIOUS
<1> HIDE DEF shown
<1> QED
  BY <1>1, <1>2, SeqMonotonic

LEMMA TextIsSeq ==
  ASSUME NEW S, Document(S), Typed(S)
  PROVE  /\ Text(S) \in Seq(Letters) /\ Len(Text(S)) = Len(Visible(S))
         /\ Text(S) = [i \in 1..Len(Visible(S)) |-> Visible(S)[i].value]
<1> DEFINE seen == Visible(S)
<1>1. seen \in Seq(Inserts(S))
  BY VisibleIsSeq
<1>2. Text(S) = [i \in 1..Len(seen) |-> seen[i].value]
  BY DEF Text
<1> HIDE DEF seen
<1>3. Len(seen) \in Nat /\ \A i \in 1..Len(seen) : seen[i] \in Inserts(S)
  BY <1>1
<1>4. \A i \in 1..Len(seen) : seen[i].value \in Letters
  BY <1>3 DEF Typed
<1> QED
  BY <1>2, <1>3, <1>4 DEF seen

LEMMA GreatestNumber ==
  ASSUME NEW N \in SUBSET Nat, N # {}, NEW b \in Nat, \A n \in N : n <= b
  PROVE  \E n \in N : \A m \in N : m <= n
<1>1. Max(N) \in N /\ \A x \in N : Max(N) >= x
  BY BoundedHasMax
<1> QED
  BY <1>1

\* The common prefix of two texts exists and is no longer than either.
LEMMA PrefixFits ==
  ASSUME NEW L, NEW old \in Seq(L), NEW new \in Seq(L)
  PROVE  /\ CommonPrefix(old, new) \in 0..Len(old)
         /\ CommonPrefix(old, new) <= Len(new)
<1> DEFINE N == {n \in 0..Len(old) : n <= Len(new) /\ SubSeq(old, 1, n) = SubSeq(new, 1, n)}
<1>1. PICK n \in N : \A m \in N : m <= n
  <2>1. SubSeq(old, 1, 0) = <<>> /\ SubSeq(new, 1, 0) = <<>>
    BY SubSeqEmpty
  <2>2. Len(old) \in Nat /\ Len(new) \in Nat
    OBVIOUS
  <2>3. 0 \in N
    BY <2>1, <2>2
  <2>4. N \in SUBSET Nat /\ \A m \in N : m <= Len(old)
    BY <2>2
  <2> HIDE DEF N
  <2> QED
    BY <2>2, <2>3, <2>4, GreatestNumber
<1>2. (n < Len(old) /\ n < Len(new)) => old[n + 1] # new[n + 1]
  <2> SUFFICES ASSUME n < Len(old), n < Len(new), old[n + 1] = new[n + 1] PROVE FALSE
    OBVIOUS
  <2>1. n \in Nat /\ n + 1 \in 1..Len(old) /\ n + 1 \in 1..Len(new)
    OBVIOUS
  <2>2. \A i \in 1..n : SubSeq(old, 1, n)[i] = old[i] /\ SubSeq(new, 1, n)[i] = new[i]
    OBVIOUS
  <2>3. \A i \in 1..n : old[i] = new[i]
    BY <2>2
  <2>4. SubSeq(old, 1, n + 1) = SubSeq(new, 1, n + 1)
    BY <2>1, <2>3
  <2>5. n + 1 \in N
    BY <2>1, <2>4
  <2> QED
    BY <1>1, <2>1, <2>5
<1> QED
  BY <1>1, <1>2 DEF CommonPrefix

LEMMA SuffixFits ==
  ASSUME NEW L, NEW old \in Seq(L), NEW new \in Seq(L)
  PROVE  /\ CommonSuffix(old, new) \in 0..Len(old)
         /\ CommonSuffix(old, new) <= Len(new)
<1>1. ASSUME NEW s \in Seq(L) PROVE Reverse(s) \in Seq(L) /\ Len(Reverse(s)) = Len(s)
  BY DEF Reverse
<1> QED
  BY <1>1, PrefixFits DEF CommonSuffix

LEMMA ImageCount ==
  ASSUME NEW A, IsFiniteSet(A), NEW f, DOMAIN f = A
  PROVE  /\ IsFiniteSet({f[x] : x \in A})
         /\ Cardinality({f[x] : x \in A}) <= Cardinality(A)
<1> DEFINE B == {f[x] : x \in A}
           g == [x \in A |-> f[x]]
<1>1. g \in Surjection(A, B)
  BY DEF Surjection
<1> HIDE DEF B, g
<1>2. IsFiniteSet(B) /\ Cardinality(B) <= Cardinality(A)
  BY <1>1, FS_Surjection
<1> QED
  BY <1>2 DEF B

LEMMA SmallestImage ==
  ASSUME NEW A, IsFiniteSet(A), A # {}, NEW f, \A x \in A : f[x] \in SUBSET A
  PROVE  \E x \in A : \A y \in A : f[y] \subseteq f[x] => f[y] = f[x]
<1> DEFINE B == {f[x] : x \in A}
<1>1. PICK T \in B : \A U \in B : U \subseteq T => U = T
  <2>1. B \in SUBSET SUBSET A /\ B # {}
    OBVIOUS
  <2> HIDE DEF B
  <2> QED
    BY <2>1, SmallestPart
<1> QED
  BY <1>1

LEMMA FiniteHasGreatest ==
  ASSUME NEW N, IsFiniteSet(N), N # {}, \A n \in N : n \in Nat
  PROVE  \E n \in N : \A m \in N : m <= n
<1> DEFINE Above(n) == {m \in N : m > n}
           f == [n \in N |-> Above(n)]
<1>1. PICK n \in N : \A m \in N : f[m] \subseteq f[n] => f[m] = f[n]
  <2>1. \A x \in N : f[x] \in SUBSET N
    OBVIOUS
  <2> HIDE DEF f
  <2> QED
    BY <2>1, SmallestImage
<1>2. ASSUME NEW m \in N, m > n PROVE FALSE
  <2>1. m \in f[n] /\ m \notin f[m]
    BY <1>2
  <2>2. f[m] \subseteq f[n]
    <3>1. n \in Nat /\ m \in Nat /\ \A k \in Nat : k > m => k > n
      BY <1>2
    <3> QED
      BY <3>1
  <2> HIDE DEF f
  <2> QED
    BY <1>1, <2>1, <2>2
<1> QED
  BY <1>2

\* In the document S of the device w, a batch of operations made after the
\* counter n: each counts on, and follows what is there or the one before it.
Batch(w, S, n, D) ==
  /\ Typed(D)
  /\ \A op \in D :
       /\ op.actor = w /\ op.counter \in (n + 1)..(n + Cardinality(D))
       /\ \/ op.after = ROOT
          \/ \E other \in S : op.after = OpId(other)
          \/ \E c \in Nat : op.after = <<c, w>> /\ c < op.counter
  /\ \A op, other \in D : op.counter = other.counter => op = other

LEMMA ReplacementIsBatch ==
  ASSUME CollabAssumption, NEW w \in Writers, NEW S, Document(S), Typed(S),
         NEW n \in Nat, NEW value \in Seq(Letters)
  PROVE  Batch(w, S, n, Replacement(w, S, n, value))
<1> DEFINE seen == Visible(S)
           old == [i \in 1..Len(seen) |-> seen[i].value]
           prefix == CommonPrefix(old, value)
           rest(text) == SubSeq(text, prefix + 1, Len(text))
           suffix == CommonSuffix(rest(old), rest(value))
           gone == Len(old) - suffix - prefix
           come == Len(value) - suffix - prefix
           place == IF prefix = 0 THEN ROOT ELSE OpId(seen[prefix])
           first == n + gone + 1
           Del(i) == Deletion(w, n + i, OpId(seen[prefix + i]))
           Ins(i) == Insertion(w, first + i, IF i = 0 THEN place ELSE <<first + i - 1, w>>,
                               value[prefix + 1 + i])
           D == {Del(i) : i \in 1..gone} \union {Ins(i) : i \in 0..(come - 1)}
<1>1. Replacement(w, S, n, value) = D
  BY DEF Replacement
<1>2. seen \in Seq(Inserts(S)) /\ old \in Seq(Letters) /\ Len(old) = Len(seen)
  BY VisibleIsSeq, TextIsSeq DEF Text
<1>3. prefix \in 0..Len(old) /\ prefix <= Len(value)
  BY <1>2, PrefixFits
<1>4. \A i \in 1..Len(seen) : seen[i] \in S /\ seen[i] \in OperationType
  <2> HIDE DEF seen
  <2> QED
    BY <1>2 DEF Inserts, Typed
<1> HIDE DEF seen, old, prefix
<1>5. /\ rest(old) \in Seq(Letters) /\ Len(rest(old)) = Len(old) - prefix
      /\ rest(value) \in Seq(Letters) /\ Len(rest(value)) = Len(value) - prefix
  BY <1>2, <1>3
<1>6. suffix \in 0..(Len(old) - prefix) /\ suffix <= Len(value) - prefix
  BY <1>5, SuffixFits
<1> HIDE DEF suffix
<1>7. /\ gone \in Nat /\ come \in Nat /\ prefix \in Nat /\ prefix + gone <= Len(seen)
      /\ prefix + come <= Len(value) /\ Len(value) \in Nat /\ Len(seen) \in Nat
      /\ prefix <= Len(seen)
  BY <1>2, <1>3, <1>6
<1> HIDE DEF gone, come
<1>8. ASSUME NEW i \in 1..Len(seen)
      PROVE  /\ OpId(seen[i]) \in (Nat \ {0}) \X Writers
             /\ \E other \in S : OpId(seen[i]) = OpId(other)
  BY <1>4 DEF OperationType, OpId
<1>9. ASSUME NEW i \in 1..gone
      PROVE  /\ Del(i) \in OperationType /\ Del(i).kind # "insert" /\ Del(i).actor = w
             /\ Del(i).counter = n + i /\ \E other \in S : Del(i).after = OpId(other)
  <2>1. prefix + i \in 1..Len(seen)
    BY <1>7
  <2>2. /\ Del(i).after \in (Nat \ {0}) \X Writers
        /\ \E other \in S : Del(i).after = OpId(other)
    BY <1>8, <2>1 DEF Deletion
  <2>3. n + i \in Nat \ {0}
    BY <1>7
  <2> QED
    BY <2>2, <2>3 DEF Deletion, OperationType
<1>10. /\ place \in {ROOT} \union ((Nat \ {0}) \X Writers)
       /\ place # ROOT => \E other \in S : place = OpId(other)
  <2>1. CASE prefix = 0
    BY <2>1
  <2>2. CASE prefix # 0
    <3>1. prefix \in 1..Len(seen)
      BY <1>7, <2>2
    <3> QED
      BY <1>8, <2>2, <3>1
  <2> QED
    BY <2>1, <2>2
<1> HIDE DEF place
<1>11. ASSUME NEW i \in 0..(come - 1)
       PROVE  /\ Ins(i) \in OperationType /\ Ins(i).value \in Letters /\ Ins(i).actor = w
              /\ Ins(i).counter = n + gone + 1 + i
              /\ \/ Ins(i).after = ROOT
                 \/ \E other \in S : Ins(i).after = OpId(other)
                 \/ \E c \in Nat : Ins(i).after = <<c, w>> /\ c < Ins(i).counter
  <2> DEFINE after == IF i = 0 THEN place ELSE <<first + i - 1, w>>
             c == first + i - 1
  <2>1. /\ c \in Nat /\ c < first + i /\ first + i \in Nat \ {0}
        /\ i # 0 => c \in Nat \ {0}
    BY <1>7
  <2>2. value[prefix + 1 + i] \in Letters
    <3>1. prefix + 1 + i \in 1..Len(value)
      BY <1>7
    <3> QED
      BY <3>1
  <2> HIDE DEF c
  <2>3. after \in {ROOT} \union ((Nat \ {0}) \X Writers)
    <3>1. CASE i = 0
      BY <1>10, <3>1
    <3>2. CASE i # 0
      <4>1. after = <<c, w>>
        BY <3>2 DEF c
      <4> QED
        BY <2>1, <3>2, <4>1
    <3> QED
      BY <3>1, <3>2
  <2>4. /\ Ins(i).kind = "insert" /\ Ins(i).actor = w /\ Ins(i).counter = first + i
        /\ Ins(i).after = after /\ Ins(i).value = value[prefix + 1 + i]
        /\ Ins(i) = [kind |-> "insert", actor |-> w, counter |-> first + i, after |-> after,
                     value |-> value[prefix + 1 + i]]
    BY DEF Insertion
  <2>5. \/ after = ROOT
        \/ \E other \in S : after = OpId(other)
        \/ \E d \in Nat : after = <<d, w>> /\ d < first + i
    <3>1. CASE i = 0
      BY <1>10, <3>1
    <3>2. CASE i # 0
      <4>1. after = <<c, w>>
        BY <3>2 DEF c
      <4> QED
        BY <2>1, <4>1
    <3> QED
      BY <3>1, <3>2
  <2>6. Ins(i) \in OperationType
    <3> DEFINE m == first + i
               v == value[prefix + 1 + i]
    <3>1. m \in Nat \ {0} /\ v \in Letters
      BY <2>1, <2>2
    <3> HIDE DEF after, m, v
    <3>2. [kind |-> "insert", actor |-> w, counter |-> m, after |-> after, value |-> v]
            \in OperationType
      BY <2>3, <3>1 DEF OperationType
    <3> QED
      BY <2>4, <3>2 DEF m, v
  <2>7. first + i = n + gone + 1 + i
    BY <1>7
  <2> HIDE DEF after, Ins, c
  <2> QED
    BY <2>2, <2>4, <2>5, <2>6, <2>7
<1> HIDE DEF Del, Ins
<1>12. IsFiniteSet(D)
  <2>1. IsFiniteSet(1..gone) /\ IsFiniteSet(0..(come - 1))
    <3>1. gone \in Int /\ come - 1 \in Int
      BY <1>7
    <3> QED
      BY <3>1, FS_Interval
  <2>2. IsFiniteSet({Del(i) : i \in 1..gone}) /\ IsFiniteSet({Ins(i) : i \in 0..(come - 1)})
    <3> DEFINE f == [i \in 1..gone |-> Del(i)]
               g == [i \in 0..(come - 1) |-> Ins(i)]
    <3>1. IsFiniteSet({f[i] : i \in 1..gone}) /\ IsFiniteSet({g[i] : i \in 0..(come - 1)})
      <4>1. DOMAIN f = 1..gone /\ DOMAIN g = 0..(come - 1)
        OBVIOUS
      <4> HIDE DEF f, g
      <4> QED
        BY <2>1, <4>1, ImageCount
    <3>2. /\ {f[i] : i \in 1..gone} = {Del(i) : i \in 1..gone}
          /\ {g[i] : i \in 0..(come - 1)} = {Ins(i) : i \in 0..(come - 1)}
      OBVIOUS
    <3> QED
      BY <3>1, <3>2
  <2> QED
    BY <2>2, FS_Union
<1> DEFINE N == (n + 1)..(n + gone + come)
<1>13. gone + come <= Cardinality(D)
  <2> DEFINE C == {op.counter : op \in D}
  <2>1. ASSUME NEW m \in N PROVE m \in C
    <3>1. CASE m <= n + gone
      <4>1. m - n \in 1..gone /\ n + (m - n) = m
        BY <1>7, <3>1
      <4> QED
        BY <1>9, <4>1
    <3>2. CASE ~(m <= n + gone)
      <4>1. m - n - gone - 1 \in 0..(come - 1) /\ n + gone + 1 + (m - n - gone - 1) = m
        BY <1>7, <3>2
      <4> QED
        BY <1>11, <4>1
    <3> QED
      BY <3>1, <3>2
  <2>2. IsFiniteSet(C) /\ Cardinality(C) <= Cardinality(D)
    <3> DEFINE f == [op \in D |-> op.counter]
    <3>1. DOMAIN f = D /\ {f[op] : op \in D} = C
      OBVIOUS
    <3> HIDE DEF D, f, C
    <3> QED
      BY <1>12, <3>1, ImageCount
  <2>3. Cardinality(N) <= Cardinality(C)
    <3>1. N \subseteq C
      BY <2>1
    <3> HIDE DEF N, C
    <3> QED
      BY <2>2, <3>1, FS_Subset
  <2>4. Cardinality(N) = gone + come
    <3> DEFINE a == n + 1
               b == n + gone + come
    <3>1. a \in Int /\ b \in Int /\ (IF a > b THEN 0 ELSE b - a + 1) = gone + come
      BY <1>7
    <3> HIDE DEF a, b
    <3>2. Cardinality(a..b) = IF a > b THEN 0 ELSE b - a + 1
      BY <3>1, FS_Interval
    <3> QED
      BY <3>1, <3>2 DEF a, b
  <2> HIDE DEF C, D, N
  <2> QED
    BY <1>7, <1>12, <2>2, <2>3, <2>4, FS_CardinalityType
<1>14. Cardinality(D) \in Nat
  BY <1>12, FS_CardinalityType
<1>15. ASSUME NEW op \in D
       PROVE  /\ op \in OperationType /\ op.actor = w /\ (op.kind = "insert" => op.value \in Letters)
              /\ op.counter \in N
              /\ \/ op.after = ROOT
                 \/ \E other \in S : op.after = OpId(other)
                 \/ \E c \in Nat : op.after = <<c, w>> /\ c < op.counter
  <2>1. CASE \E i \in 1..gone : op = Del(i)
    <3>1. PICK i \in 1..gone : op = Del(i)
      BY <2>1
    <3>2. n + i \in N
      BY <1>7
    <3> HIDE DEF N
    <3> QED
      BY <1>9, <3>1, <3>2
  <2>2. CASE \E i \in 0..(come - 1) : op = Ins(i)
    <3>1. PICK i \in 0..(come - 1) : op = Ins(i)
      BY <2>2
    <3>2. n + gone + 1 + i \in N
      BY <1>7
    <3> HIDE DEF N
    <3> QED
      BY <1>11, <3>1, <3>2
  <2> QED
    BY <2>1, <2>2
<1>16. ASSUME NEW op \in D, NEW other \in D, op.counter = other.counter PROVE op = other
  <2>1. CASE \E i, j \in 1..gone : op = Del(i) /\ other = Del(j)
    <3>1. PICK i, j \in 1..gone : op = Del(i) /\ other = Del(j)
      BY <2>1
    <3>2. n + i = n + j
      BY <1>9, <1>16, <3>1
    <3>3. i = j
      BY <3>2
    <3> QED
      BY <3>1, <3>3
  <2>2. CASE \E i, j \in 0..(come - 1) : op = Ins(i) /\ other = Ins(j)
    <3>1. PICK i, j \in 0..(come - 1) : op = Ins(i) /\ other = Ins(j)
      BY <2>2
    <3>2. n + gone + 1 + i = n + gone + 1 + j
      BY <1>11, <1>16, <3>1
    <3>3. i = j
      BY <1>7, <3>2
    <3> QED
      BY <3>1, <3>3
  <2>3. ASSUME NEW i \in 1..gone, NEW j \in 0..(come - 1) PROVE Del(i).counter # Ins(j).counter
    BY <1>7, <1>9, <1>11
  <2> QED
    BY <1>16, <2>1, <2>2, <2>3
<1>17. \A op \in D : op.counter \in (n + 1)..(n + Cardinality(D))
  <2>1. N \subseteq (n + 1)..(n + Cardinality(D))
    <3> HIDE DEF D
    <3> QED
      BY <1>7, <1>13, <1>14
  <2> HIDE DEF D, N
  <2> QED
    BY <1>15, <2>1
<1> HIDE DEF D
<1>18. Batch(w, S, n, D)
  BY <1>12, <1>15, <1>16, <1>17 DEF Batch, Typed, Inserts
<1> QED
  BY <1>1, <1>18

-----------------------------------------------------------------------------
(* Every device reads its document, and no two read it in different orders.  *)
(* What one device creates follows what it has itself, or what its author    *)
(* has in his folder, where files only come: so the operations of all the    *)
(* folders together are one document, in which no number is given twice and  *)
(* none follows itself.  An operation that was never written leaves its      *)
(* number to be given again, but only after a higher one was written.        *)

\* What op follows is an earlier operation of the same author, or one that its
\* author has in his folder.
Anchored(F, op) ==
  \A c \in Nat, a \in Writers :
    op.after = <<c, a>> => \/ a = op.actor /\ c < op.counter
                           \/ \E other \in F[a] : OpId(other) = <<c, a>>

\* The author's own operations in S have a number each.
OwnNumbered(w, S) ==
  \A op, other \in S :
    op.actor = w /\ other.actor = w /\ op.counter = other.counter => op = other

OwnAtMost(w, S, n) == \A op \in S : op.actor = w => op.counter <= n

AllFiles(F) == UNION {F[w] : w \in Writers}

\* The folders F.
Shared(F) ==
  /\ \A w \in Writers :
       /\ Typed(F[w]) /\ OwnNumbered(w, F[w])
       /\ \A op \in F[w] : Anchored(F, op) /\ op \in F[op.actor]
  /\ Acyclic(AllFiles(F))

\* What the editor of w has in memory, beside the folders F.
InEditor(F, w, S) ==
  /\ Typed(S) /\ OwnNumbered(w, S) /\ Acyclic(S)
  /\ \A op \in S : Anchored(F, op) /\ (op.actor # w => op \in F[w])

CollabInv ==
  /\ files \in [Writers -> SUBSET OperationType] /\ ops \in [Writers -> SUBSET OperationType]
  /\ counter \in [Writers -> Nat] /\ isOpen \in [Writers -> BOOLEAN]
  /\ editor \in [Writers -> Seq(Letters)]
  /\ Shared(files)
  /\ \A w \in Writers :
       /\ InEditor(files, w, ops[w])
       /\ isOpen[w] => OwnAtMost(w, files[w] \union ops[w], counter[w])

LEMMA TypedOp ==
  ASSUME CollabAssumption, NEW S, Typed(S), NEW op \in S
  PROVE  /\ op.counter \in Nat \ {0} /\ op.actor \in Writers /\ op.actor \in Nat \ {0}
         /\ OpId(op) = <<op.counter, op.actor>>
BY DEF Typed, OperationType, CollabAssumption, OpId

\* Folders together are a document.
LEMMA FilesAreOneDocument ==
  ASSUME CollabAssumption, NEW F, Shared(F)
  PROVE  /\ Keyed(AllFiles(F))
         /\ \A w \in Writers : Document(F[w])
<1>1. ASSUME NEW v \in Writers, NEW op \in F[v]
      PROVE  /\ op.counter \in Nat \ {0} /\ op.actor \in Nat /\ op.actor \in Writers
             /\ op \in F[op.actor]
  BY TypedOp DEF Shared
<1>2. Keyed(AllFiles(F))
  <2>1. ASSUME NEW v \in Writers, NEW op \in F[v], NEW u \in Writers, NEW other \in F[u],
               op.counter = other.counter, op.actor = other.actor
        PROVE  op = other
    <3>1. op.actor \in Writers /\ op \in F[op.actor] /\ other \in F[op.actor]
      BY <1>1, <2>1
    <3> QED
      BY <2>1, <3>1 DEF Shared, OwnNumbered
  <2> QED
    BY <1>1, <2>1 DEF Keyed, AllFiles
<1>3. ASSUME NEW w \in Writers PROVE Document(F[w])
  <2>1. F[w] \in SUBSET AllFiles(F)
    BY DEF AllFiles
  <2>2. IsFiniteSet(F[w])
    BY DEF Shared, Typed
  <2>3. Acyclic(F[w])
    BY <2>1 DEF Shared, Acyclic
  <2>4. Keyed(F[w])
    BY <1>2, <2>1 DEF Keyed
  <2> QED
    BY <2>2, <2>3, <2>4 DEF Document
<1> QED
  BY <1>2, <1>3

LEMMA HeldIsDocument ==
  ASSUME CollabAssumption, NEW F, Shared(F), NEW w \in Writers, NEW S, InEditor(F, w, S)
  PROVE  Document(S)
<1>1. Keyed(F[w])
  BY FilesAreOneDocument DEF Document
<1>2. \A op \in S : op.counter \in Nat \ {0} /\ op.actor \in Nat
  BY TypedOp DEF InEditor
<1>3. ASSUME NEW op \in S, NEW other \in S, op.counter = other.counter, op.actor = other.actor
      PROVE  op = other
  <2>1. CASE op.actor = w
    BY <1>3, <2>1 DEF InEditor, OwnNumbered
  <2>2. CASE op.actor # w
    BY <1>1, <1>3, <2>2 DEF InEditor, Keyed
  <2> QED
    BY <2>1, <2>2
<1> QED
  BY <1>2, <1>3 DEF InEditor, Typed, Document, Keyed

LEMMA FolderIsHeld ==
  ASSUME CollabAssumption, NEW F, Shared(F), NEW w \in Writers
  PROVE  InEditor(F, w, F[w])
<1>1. Acyclic(F[w])
  BY FilesAreOneDocument DEF Document
<1> QED
  BY <1>1 DEF Shared, InEditor

\* The operations of a batch may be followed only by later ones of the batch.
LEMMA BatchKeepsAcyclic ==
  ASSUME NEW S, Acyclic(S), NEW D, IsFiniteSet(D), NEW w, NEW n \in Nat,
         \A op \in D : op.actor = w /\ op.counter \in Nat /\ op.counter > n,
         \A op \in D : \A c \in Nat : op.after = <<c, w>> => c < op.counter,
         \A op \in S : \A c \in Nat : op.after = <<c, w>> => c <= n
  PROVE  Acyclic(S \union D)
<1> SUFFICES ASSUME NEW T \in SUBSET (S \union D), T # {}
             PROVE  \E op \in T : \A other \in T : other.after # OpId(op)
  BY DEF Acyclic
<1>1. CASE T \intersect D = {}
  <2>1. T \in SUBSET S
    BY <1>1
  <2> QED
    BY <2>1 DEF Acyclic
<1>2. CASE T \intersect D # {}
  <2> DEFINE E == T \intersect D
             N == {op.counter : op \in E}
  <2>1. IsFiniteSet(N) /\ N \in SUBSET Nat /\ N # {}
    <3> DEFINE f == [op \in E |-> op.counter]
    <3>1. IsFiniteSet(E)
      BY FS_Subset
    <3>2. DOMAIN f = E /\ {f[op] : op \in E} = N
      OBVIOUS
    <3>3. IsFiniteSet(N)
      <4> HIDE DEF E, f, N
      <4> QED
        BY <3>1, <3>2, ImageCount
    <3> QED
      BY <1>2, <3>3
  <2>2. PICK m \in N : \A k \in N : k <= m
    <3> HIDE DEF N
    <3> QED
      BY <2>1, FiniteHasGreatest
  <2>3. PICK op \in E : op.counter = m
    BY <2>2
  <2>4. OpId(op) = <<m, w>> /\ m \in Nat /\ m > n
    BY <2>3 DEF OpId
  <2>5. ASSUME NEW other \in T, other.after = OpId(op) PROVE FALSE
    <3>1. CASE other \in D
      <4>1. other.counter \in N /\ other.counter \in Nat
        BY <3>1
      <4>2. other.counter <= m /\ m < other.counter
        BY <2>2, <2>4, <2>5, <3>1, <4>1
      <4> QED
        BY <2>4, <4>1, <4>2
    <3>2. CASE other \in S
      BY <2>4, <2>5, <3>2
    <3> QED
      BY <3>1, <3>2
  <2> QED
    BY <2>3, <2>5
<1> QED
  BY <1>1, <1>2

\* New operations of w, numbered from n on, that follow what is in the folders F.
Fresh(F, w, n, D) ==
  /\ Typed(D) /\ OwnNumbered(w, D)
  /\ \A op \in D : op.actor = w /\ op.counter > n /\ Anchored(F, op)

LEMMA FreshIsLast ==
  ASSUME CollabAssumption, NEW F, Shared(F), NEW w \in Writers, NEW n \in Nat,
         OwnAtMost(w, F[w], n), NEW D, Fresh(F, w, n, D)
  PROVE  /\ IsFiniteSet(D)
         /\ \A op \in D : op.actor = w /\ op.counter \in Nat /\ op.counter > n
         /\ \A op \in D : \A c \in Nat : op.after = <<c, w>> => c < op.counter
         /\ \A other \in F[w], c \in Nat : OpId(other) = <<c, w>> => c <= n
<1>1. ASSUME NEW other \in F[w], NEW c \in Nat, OpId(other) = <<c, w>> PROVE c <= n
  BY <1>1 DEF OwnAtMost, OpId
<1>2. ASSUME NEW op \in D
      PROVE  /\ op.actor = w /\ op.counter \in Nat /\ op.counter > n
             /\ \A c \in Nat : op.after = <<c, w>> => c < op.counter
  <2>1. op.actor = w /\ op.counter \in Nat /\ op.counter > n
    BY TypedOp DEF Fresh
  <2>2. ASSUME NEW c \in Nat, op.after = <<c, w>> PROVE c < op.counter
    <3>1. c < op.counter \/ \E other \in F[w] : OpId(other) = <<c, w>>
      BY <2>1, <2>2 DEF Fresh, Anchored
    <3>2. c < op.counter \/ c <= n
      BY <1>1, <3>1
    <3> QED
      BY <2>1, <3>2
  <2> QED
    BY <2>1, <2>2
<1>3. IsFiniteSet(D)
  BY DEF Fresh, Typed
<1> QED
  BY <1>1, <1>2, <1>3

LEMMA TypedTogether ==
  ASSUME NEW S, Typed(S), NEW T, Typed(T)
  PROVE  Typed(S \union T)
<1>1. IsFiniteSet(S \union T)
  BY FS_Union DEF Typed
<1> QED
  BY <1>1 DEF Typed, Inserts

\* Files only come, and what follows them still does.
LEMMA AnchorsStay ==
  ASSUME NEW F, NEW G, \A w \in Writers : F[w] \subseteq G[w], NEW op, Anchored(F, op)
  PROVE  Anchored(G, op)
BY DEF Anchored

LEMMA HeldStays ==
  ASSUME NEW F, NEW G, \A v \in Writers : F[v] \subseteq G[v],
         NEW w \in Writers, NEW S, InEditor(F, w, S)
  PROVE  InEditor(G, w, S)
BY AnchorsStay DEF InEditor

LEMMA OwnNumberedTogether ==
  ASSUME CollabAssumption, NEW w \in Writers, NEW n \in Nat,
         NEW S, Typed(S), OwnNumbered(w, S), OwnAtMost(w, S, n),
         NEW D, Typed(D), OwnNumbered(w, D), \A op \in D : op.actor = w /\ op.counter > n
  PROVE  OwnNumbered(w, S \union D)
<1>1. \A op \in S : op.counter \in Nat
  BY TypedOp
<1>2. \A op \in D : op.counter \in Nat
  BY TypedOp
<1>3. ASSUME NEW op \in S, NEW other \in D, op.actor = w PROVE op.counter # other.counter
  <2>1. op.counter <= n /\ other.counter > n /\ op.counter \in Nat /\ other.counter \in Nat
    BY <1>1, <1>2, <1>3 DEF OwnAtMost
  <2> QED
    BY <2>1
<1> QED
  BY <1>3 DEF OwnNumbered

\* A batch is added to what the editor has in memory.
LEMMA HeldGrows ==
  ASSUME CollabAssumption, NEW F, Shared(F), NEW w \in Writers, NEW n \in Nat,
         NEW S, InEditor(F, w, S), OwnAtMost(w, F[w], n), OwnAtMost(w, S, n),
         NEW D, Fresh(F, w, n, D)
  PROVE  InEditor(F, w, S \union D)
<1>1. Typed(S \union D)
  BY TypedTogether DEF InEditor, Fresh
<1>2. OwnNumbered(w, S \union D)
  BY OwnNumberedTogether DEF InEditor, Fresh
<1>3. Acyclic(S \union D)
  <2>1. ASSUME NEW op \in S, NEW c \in Nat, op.after = <<c, w>> PROVE c <= n
    <3>1. op.counter \in Nat /\ (op.actor = w => op.counter <= n)
      BY TypedOp DEF InEditor, OwnAtMost
    <3>2. \/ w = op.actor /\ c < op.counter
          \/ \E other \in F[w] : OpId(other) = <<c, w>>
      BY <2>1 DEF InEditor, Anchored
    <3>3. c <= n \/ \E other \in F[w] : OpId(other) = <<c, w>>
      BY <3>1, <3>2
    <3> QED
      BY <3>3, FreshIsLast
  <2> QED
    BY <2>1, FreshIsLast, BatchKeepsAcyclic DEF InEditor
<1> QED
  BY <1>1, <1>2, <1>3 DEF InEditor, Fresh

\* A batch is written to the folder of its author.
LEMMA SharedGrows ==
  ASSUME CollabAssumption, NEW F \in [Writers -> SUBSET OperationType], Shared(F),
         NEW w \in Writers, NEW n \in Nat,
         OwnAtMost(w, F[w], n), NEW D, Fresh(F, w, n, D)
  PROVE  Shared([F EXCEPT ![w] = @ \union D])
<1> DEFINE G == [F EXCEPT ![w] = @ \union D]
<1>1. G[w] = F[w] \union D /\ \A v \in Writers \ {w} : G[v] = F[v]
  OBVIOUS
<1>2. \A v \in Writers : F[v] \subseteq G[v]
  OBVIOUS
<1>3. AllFiles(G) = AllFiles(F) \union D
  BY <1>1 DEF AllFiles
<1> HIDE DEF G
<1>4. Acyclic(AllFiles(G))
  <2>1. ASSUME NEW v \in Writers, NEW op \in F[v], NEW c \in Nat, op.after = <<c, w>>
        PROVE  c <= n
    <3>1. op.counter \in Nat /\ op \in F[op.actor] /\ Anchored(F, op)
      BY TypedOp DEF Shared
    <3>2. op.actor = w => op.counter <= n
      BY <3>1 DEF OwnAtMost
    <3>3. \/ w = op.actor /\ c < op.counter
          \/ \E other \in F[w] : OpId(other) = <<c, w>>
      BY <2>1, <3>1 DEF Anchored
    <3>4. c <= n \/ \E other \in F[w] : OpId(other) = <<c, w>>
      BY <3>1, <3>2, <3>3
    <3> QED
      BY <3>4, FreshIsLast
  <2>2. \A op \in AllFiles(F) : \A c \in Nat : op.after = <<c, w>> => c <= n
    BY <2>1 DEF AllFiles
  <2>3. Acyclic(AllFiles(F))
    BY DEF Shared
  <2>4. /\ IsFiniteSet(D)
        /\ \A op \in D : op.actor = w /\ op.counter \in Nat /\ op.counter > n
        /\ \A op \in D : \A c \in Nat : op.after = <<c, w>> => c < op.counter
    BY FreshIsLast
  <2>5. Acyclic(AllFiles(F) \union D)
    BY <2>2, <2>3, <2>4, BatchKeepsAcyclic
  <2> QED
    BY <1>3, <2>5
<1>5. ASSUME NEW v \in Writers PROVE Typed(G[v]) /\ OwnNumbered(v, G[v])
  <2>1. CASE v = w
    <3>1. Typed(F[w] \union D)
      BY TypedTogether DEF Shared, Fresh
    <3>2. OwnNumbered(w, F[w] \union D)
      BY OwnNumberedTogether DEF Shared, Fresh
    <3> QED
      BY <1>1, <2>1, <3>1, <3>2
  <2>2. CASE v # w
    BY <1>1, <2>2 DEF Shared
  <2> QED
    BY <2>1, <2>2
<1>6. ASSUME NEW v \in Writers, NEW op \in G[v] PROVE Anchored(G, op) /\ op \in G[op.actor]
  <2>1. CASE op \in F[v]
    <3>1. Anchored(F, op) /\ op \in F[op.actor] /\ op.actor \in Writers
      BY <2>1, TypedOp DEF Shared
    <3> QED
      BY <1>2, <3>1, AnchorsStay
  <2>2. CASE op \in D
    <3>1. Anchored(F, op) /\ op.actor = w
      BY <2>2 DEF Fresh
    <3> QED
      BY <1>1, <1>2, <2>2, <3>1, AnchorsStay
  <2> QED
    BY <1>1, <2>1, <2>2
<1>7. Shared(G)
  BY <1>4, <1>5, <1>6 DEF Shared
<1> QED
  BY <1>7 DEF G

LEMMA BatchIsFresh ==
  ASSUME CollabAssumption, NEW F, Shared(F), NEW w \in Writers, NEW S, InEditor(F, w, S),
         NEW n \in Nat, OwnAtMost(w, S, n), NEW D, Batch(w, S, n, D)
  PROVE  Fresh(F, w, n, D)
<1>1. ASSUME NEW op \in D PROVE op.actor = w /\ op.counter \in Nat /\ op.counter > n
  <2>1. op.counter \in Nat
    BY TypedOp DEF Batch
  <2>2. Cardinality(D) \in Nat
    BY FS_CardinalityType DEF Batch, Typed
  <2> QED
    BY <2>1, <2>2 DEF Batch
<1>2. ASSUME NEW op \in D, NEW c \in Nat, NEW a \in Writers, op.after = <<c, a>>
      PROVE  \/ a = op.actor /\ c < op.counter
             \/ \E other \in F[a] : OpId(other) = <<c, a>>
  <2>1. op.after # ROOT
    BY <1>2 DEF ROOT, CollabAssumption
  <2>2. CASE \E other \in S : op.after = OpId(other)
    <3>1. PICK other \in S : op.after = OpId(other)
      BY <2>2
    <3>2. other.counter = c /\ other.actor = a /\ OpId(other) = <<c, a>>
      BY <1>2, <3>1 DEF OpId
    <3>3. CASE a = w
      <4>1. other.counter <= n
        BY <3>2, <3>3 DEF OwnAtMost
      <4>2. c < op.counter
        BY <1>1, <3>2, <4>1
      <4> QED
        BY <1>1, <3>3, <4>2
    <3>4. CASE a # w
      <4>1. other \in F[w]
        BY <3>2, <3>4 DEF InEditor
      <4>2. other \in F[a]
        BY <3>2, <4>1 DEF Shared
      <4> QED
        BY <3>2, <4>2
    <3> QED
      BY <3>3, <3>4
  <2>3. CASE \E d \in Nat : op.after = <<d, w>> /\ d < op.counter
    BY <1>1, <1>2, <2>3
  <2> QED
    BY <2>1, <2>2, <2>3 DEF Batch
<1>3. Typed(D) /\ OwnNumbered(w, D)
  BY DEF Batch, OwnNumbered
<1> QED
  BY <1>1, <1>2, <1>3 DEF Fresh, Anchored

LEMMA PartOfFresh ==
  ASSUME NEW F, NEW w, NEW n, NEW D, Fresh(F, w, n, D), NEW E \in SUBSET D
  PROVE  Fresh(F, w, n, E)
<1>1. Typed(E)
  BY FS_Subset DEF Fresh, Typed, Inserts
<1> QED
  BY <1>1 DEF Fresh, OwnNumbered

LEMMA OwnCounterFacts ==
  ASSUME CollabAssumption, NEW w \in Writers, NEW S, Typed(S)
  PROVE  OwnCounter(w, S) \in Nat /\ OwnAtMost(w, S, OwnCounter(w, S))
<1> DEFINE Own == {op \in S : op.actor = w}
           f == [op \in Own |-> op.counter]
           N == {f[op] : op \in Own}
<1>1. CASE Own = {}
  BY <1>1 DEF OwnCounter, OwnAtMost
<1>2. CASE Own # {}
  <2>1. IsFiniteSet(N)
    <3>1. IsFiniteSet(Own)
      BY FS_Subset DEF Typed
    <3>2. DOMAIN f = Own
      OBVIOUS
    <3> HIDE DEF Own, f
    <3> QED
      BY <3>1, <3>2, ImageCount
  <2>2. N # {} /\ \A n \in N : n \in Nat
    BY <1>2, TypedOp
  <2>3. PICK n \in N : \A m \in N : m <= n
    <3> HIDE DEF N
    <3> QED
      BY <2>1, <2>2, FiniteHasGreatest
  <2>4. \A op \in Own : op.counter <= n
    BY <2>3
  <2>5. PICK op \in Own : op.counter = n
    BY <2>3
  <2>6. /\ n \in {o.counter : o \in S}
        /\ \E o \in S : o.actor = w /\ o.counter = n
        /\ \A o \in S : o.actor = w => o.counter <= n
    BY <2>4, <2>5
  <2> DEFINE Is(x) == /\ \E o \in S : o.actor = w /\ o.counter = x
                      /\ \A o \in S : o.actor = w => o.counter <= x
  <2>7. OwnCounter(w, S) = CHOOSE x \in {o.counter : o \in S} : Is(x)
    BY <2>6 DEF OwnCounter
  <2>8. OwnCounter(w, S) \in {o.counter : o \in S} /\ Is(OwnCounter(w, S))
    <3>1. n \in {o.counter : o \in S} /\ Is(n)
      BY <2>6
    <3> HIDE DEF Is
    <3> QED
      BY <2>7, <3>1
  <2>9. \A o \in S : o.counter \in Nat
    BY TypedOp
  <2> QED
    BY <2>8, <2>9 DEF OwnAtMost
<1> QED
  BY <1>1, <1>2

\* A file of another author is carried to the folder of w.
LEMMA SharedCarries ==
  ASSUME CollabAssumption, NEW F \in [Writers -> SUBSET OperationType], Shared(F),
         NEW v \in Writers, NEW w \in Writers, NEW op \in F[v], op \notin F[w]
  PROVE  /\ op.actor # w
         /\ Shared([F EXCEPT ![w] = @ \union {op}])
<1> DEFINE G == [F EXCEPT ![w] = @ \union {op}]
<1>1. op.actor # w /\ Anchored(F, op) /\ op \in F[op.actor] /\ op.actor \in Writers
  BY TypedOp DEF Shared
<1>2. G[w] = F[w] \union {op} /\ \A u \in Writers \ {w} : G[u] = F[u]
  OBVIOUS
<1>3. \A u \in Writers : F[u] \subseteq G[u]
  OBVIOUS
<1> HIDE DEF G
<1>4. AllFiles(G) = AllFiles(F)
  BY <1>2 DEF AllFiles
<1>5. ASSUME NEW u \in Writers PROVE Typed(G[u]) /\ OwnNumbered(u, G[u])
  <2>1. CASE u = w
    <3>1. Typed({op})
      BY FS_Singleton DEF Shared, Typed, Inserts
    <3>2. Typed(F[w] \union {op})
      BY <3>1, TypedTogether DEF Shared
    <3>3. OwnNumbered(w, F[w] \union {op})
      BY <1>1 DEF Shared, OwnNumbered
    <3> QED
      BY <1>2, <2>1, <3>2, <3>3
  <2>2. CASE u # w
    BY <1>2, <2>2 DEF Shared
  <2> QED
    BY <2>1, <2>2
<1>6. ASSUME NEW u \in Writers, NEW x \in G[u] PROVE Anchored(G, x) /\ x \in G[x.actor]
  <2>1. Anchored(F, x) /\ x \in F[x.actor] /\ x.actor \in Writers
    BY <1>1, <1>2, TypedOp DEF Shared
  <2> QED
    BY <1>3, <2>1, AnchorsStay
<1>7. Shared(G)
  BY <1>4, <1>5, <1>6 DEF Shared
<1> QED
  BY <1>1, <1>7 DEF G

-----------------------------------------------------------------------------
(* The steps of a device *)

LEMMA EmptyDocument ==
  /\ Document({}) /\ Typed({})
  /\ \A F, w : InEditor(F, w, {})
  /\ \A F, w, n : Fresh(F, w, n, {})
BY FS_EmptySet DEF Document, Keyed, Acyclic, Typed, InEditor, OwnNumbered, Fresh, Inserts

\* A device that only adds to its own folder.
LEMMA DeviceSteps ==
  ASSUME CollabAssumption, CollabInv, NEW w \in Writers, NEW S, NEW m \in Nat,
         NEW t \in Seq(Letters),
         files' \in [Writers -> SUBSET OperationType], Shared(files'),
         files[w] \subseteq files'[w], \A v \in Writers \ {w} : files'[v] = files[v],
         ops' = [ops EXCEPT ![w] = S], InEditor(files', w, S), S \subseteq OperationType,
         counter' = [counter EXCEPT ![w] = m], editor' = [editor EXCEPT ![w] = t],
         isOpen' \in [Writers -> BOOLEAN], \A v \in Writers \ {w} : isOpen'[v] = isOpen[v],
         isOpen'[w] => OwnAtMost(w, files'[w] \union S, m)
  PROVE  CollabInv'
<1>1. /\ ops' \in [Writers -> SUBSET OperationType] /\ counter' \in [Writers -> Nat]
      /\ editor' \in [Writers -> Seq(Letters)]
  BY DEF CollabInv
<1>2. ASSUME NEW v \in Writers
      PROVE  /\ InEditor(files', v, ops'[v])
             /\ isOpen'[v] => OwnAtMost(v, files'[v] \union ops'[v], counter'[v])
  <2>1. CASE v = w
    BY <2>1 DEF CollabInv
  <2>2. CASE v # w
    <3>1. /\ ops'[v] = ops[v] /\ counter'[v] = counter[v] /\ files'[v] = files[v]
          /\ isOpen'[v] = isOpen[v]
      BY <2>2 DEF CollabInv
    <3>2. InEditor(files', v, ops[v])
      BY HeldStays DEF CollabInv
    <3> QED
      BY <3>1, <3>2 DEF CollabInv
  <2> QED
    BY <2>1, <2>2
<1> QED
  BY <1>1, <1>2 DEF CollabInv

LEMMA CollabInvInit == CollabAssumption /\ CollabInit => CollabInv
<1> SUFFICES ASSUME CollabAssumption, CollabInit PROVE CollabInv
  OBVIOUS
<1>1. /\ files \in [Writers -> SUBSET OperationType] /\ ops \in [Writers -> SUBSET OperationType]
      /\ counter \in [Writers -> Nat] /\ isOpen \in [Writers -> BOOLEAN]
      /\ editor \in [Writers -> Seq(Letters)]
  BY DEF CollabInit
<1>2. AllFiles(files) = {}
  BY DEF CollabInit, AllFiles
<1>3. Shared(files)
  BY <1>2, EmptyDocument DEF CollabInit, Shared, Acyclic, OwnNumbered
<1>4. ASSUME NEW w \in Writers
      PROVE  InEditor(files, w, ops[w]) /\ OwnAtMost(w, files[w] \union ops[w], counter[w])
  BY EmptyDocument DEF CollabInit, OwnAtMost
<1> QED
  BY <1>1, <1>3, <1>4 DEF CollabInv

\* The editor takes over the folder, or the folder with a batch of its own.
LEMMA AdoptSteps ==
  ASSUME CollabAssumption, CollabInv, NEW w \in Writers, NEW n \in Nat,
         OwnAtMost(w, files[w], n), NEW D, Fresh(files, w, n, D),
         files' = [files EXCEPT ![w] = @ \union D],
         ops' = [ops EXCEPT ![w] = files[w] \union D],
         counter' = [counter EXCEPT ![w] = OwnCounter(w, files[w] \union D)],
         NEW t \in Seq(Letters), editor' = [editor EXCEPT ![w] = t],
         isOpen' \in [Writers -> BOOLEAN], \A v \in Writers \ {w} : isOpen'[v] = isOpen[v]
  PROVE  CollabInv'
<1> DEFINE S == files[w] \union D
<1>1. files \in [Writers -> SUBSET OperationType] /\ Shared(files)
  BY DEF CollabInv
<1>2. Shared(files')
  BY <1>1, SharedGrows
<1>3. D \subseteq OperationType
  BY DEF Fresh, Typed
<1>4. /\ files' \in [Writers -> SUBSET OperationType] /\ files'[w] = S
      /\ files[w] \subseteq files'[w] /\ \A v \in Writers \ {w} : files'[v] = files[v]
  BY <1>1, <1>3
<1>5. InEditor(files', w, S)
  BY <1>2, <1>4, FolderIsHeld
<1>6. OwnCounter(w, S) \in Nat /\ OwnAtMost(w, S, OwnCounter(w, S))
  BY <1>5, OwnCounterFacts DEF InEditor
<1>7. S \subseteq OperationType /\ files'[w] \union S = S
  BY <1>5, <1>4 DEF InEditor, Typed
<1> HIDE DEF S
<1>8. /\ ops' = [ops EXCEPT ![w] = S] /\ counter' = [counter EXCEPT ![w] = OwnCounter(w, S)]
  BY DEF S
<1> QED
  BY <1>2, <1>4, <1>5, <1>6, <1>7, <1>8, DeviceSteps

\* The text of a folder, and of the folder with a batch.
LEMMA FolderText ==
  ASSUME CollabAssumption, CollabInv, NEW w \in Writers, NEW n \in Nat,
         OwnAtMost(w, files[w], n), NEW D, Fresh(files, w, n, D)
  PROVE  Text(files[w] \union D) \in Seq(Letters)
<1>1. files \in [Writers -> SUBSET OperationType] /\ Shared(files)
  BY DEF CollabInv
<1> DEFINE G == [files EXCEPT ![w] = @ \union D]
<1>2. Shared(G) /\ G[w] = files[w] \union D
  BY <1>1, SharedGrows
<1> HIDE DEF G
<1>3. Document(G[w]) /\ Typed(G[w])
  BY <1>2, FilesAreOneDocument DEF Shared
<1> QED
  BY <1>2, <1>3, TextIsSeq

\* What the autosave creates is a batch that follows what the device has.
LEMMA UnsavedIsFresh ==
  ASSUME CollabAssumption, CollabInv, NEW w \in Writers, isOpen[w]
  PROVE  /\ OwnAtMost(w, files[w], counter[w]) /\ OwnAtMost(w, ops[w], counter[w])
         /\ counter[w] \in Nat
         /\ Batch(w, ops[w], counter[w], Unsaved(w))
         /\ Fresh(files, w, counter[w], Unsaved(w))
<1>1. /\ OwnAtMost(w, files[w], counter[w]) /\ OwnAtMost(w, ops[w], counter[w])
      /\ counter[w] \in Nat /\ editor[w] \in Seq(Letters)
      /\ Shared(files) /\ InEditor(files, w, ops[w])
  BY DEF CollabInv, OwnAtMost
<1>2. Document(ops[w]) /\ Typed(ops[w])
  BY <1>1, HeldIsDocument DEF InEditor
<1>3. Batch(w, ops[w], counter[w], Unsaved(w))
  BY <1>1, <1>2, ReplacementIsBatch DEF Unsaved
<1> QED
  BY <1>1, <1>3, BatchIsFresh

LEMMA OpenKeeps ==
  ASSUME CollabAssumption, CollabInv, NEW w \in Writers, Open(w)
  PROVE  CollabInv'
<1> DEFINE D == IF files[w] = {} THEN Replacement(w, {}, 0, Source) ELSE {}
           n == IF files[w] = {} THEN 0 ELSE OwnCounter(w, files[w])
<1>1. /\ files \in [Writers -> SUBSET OperationType] /\ Shared(files)
      /\ isOpen \in [Writers -> BOOLEAN]
  BY DEF CollabInv
<1>2. n \in Nat /\ OwnAtMost(w, files[w], n) /\ Fresh(files, w, n, D)
  <2>1. CASE files[w] = {}
    <3>1. Batch(w, {}, 0, D)
      BY <2>1, EmptyDocument, ReplacementIsBatch DEF CollabAssumption
    <3>2. OwnAtMost(w, {}, 0) /\ InEditor(files, w, {})
      BY EmptyDocument DEF OwnAtMost
    <3> HIDE DEF D
    <3>3. Fresh(files, w, 0, D)
      BY <1>1, <3>1, <3>2, BatchIsFresh
    <3> QED
      BY <2>1, <3>2, <3>3
  <2>2. CASE files[w] # {}
    <3>1. Typed(files[w])
      BY <1>1 DEF Shared
    <3>2. OwnCounter(w, files[w]) \in Nat /\ OwnAtMost(w, files[w], OwnCounter(w, files[w]))
      BY <3>1, OwnCounterFacts
    <3> QED
      BY <2>2, <3>2, EmptyDocument
  <2> QED
    BY <2>1, <2>2
<1>3. files' = [files EXCEPT ![w] = @ \union D] /\ files'[w] = files[w] \union D
  BY <1>1 DEF Open
<1>4. /\ ops' = [ops EXCEPT ![w] = files[w] \union D]
      /\ counter' = [counter EXCEPT ![w] = OwnCounter(w, files[w] \union D)]
      /\ editor' = [editor EXCEPT ![w] = Text(files[w] \union D)]
  BY <1>3 DEF Open, Adopt
<1>5. isOpen' \in [Writers -> BOOLEAN] /\ \A v \in Writers \ {w} : isOpen'[v] = isOpen[v]
  BY <1>1 DEF Open
<1> HIDE DEF D, n
<1>6. Text(files[w] \union D) \in Seq(Letters)
  BY <1>2, FolderText
<1> QED
  BY <1>2, <1>3, <1>4, <1>5, <1>6, AdoptSteps

LEMMA PollKeeps ==
  ASSUME CollabAssumption, CollabInv, NEW w \in Writers, Poll(w)
  PROVE  CollabInv'
<1> DEFINE n == OwnCounter(w, files[w])
<1>1. /\ files \in [Writers -> SUBSET OperationType] /\ Typed(files[w])
      /\ isOpen \in [Writers -> BOOLEAN]
  BY DEF CollabInv, Shared
<1>2. n \in Nat /\ OwnAtMost(w, files[w], n) /\ Fresh(files, w, n, {})
  BY <1>1, OwnCounterFacts, EmptyDocument
<1> HIDE DEF n
<1>3. /\ files[w] \union {} = files[w] /\ files' = [files EXCEPT ![w] = @ \union {}]
      /\ isOpen' = isOpen
  BY <1>1 DEF Poll
<1>4. Text(files[w] \union {}) \in Seq(Letters)
  BY <1>2, FolderText
<1>5. /\ ops' = [ops EXCEPT ![w] = files[w] \union {}]
      /\ counter' = [counter EXCEPT ![w] = OwnCounter(w, files[w] \union {})]
      /\ editor' = [editor EXCEPT ![w] = Text(files[w] \union {})]
  BY <1>3 DEF Poll, Adopt
<1> QED
  BY <1>1, <1>2, <1>3, <1>4, <1>5, AdoptSteps

LEMMA MergeKeeps ==
  ASSUME CollabAssumption, CollabInv, NEW w \in Writers, Merge(w) \/ Export(w)
  PROVE  CollabInv'
<1> DEFINE D == Unsaved(w)
<1>1. isOpen[w] /\ isOpen' = isOpen
  BY DEF Merge, Export
<1>2. /\ files \in [Writers -> SUBSET OperationType] /\ isOpen \in [Writers -> BOOLEAN]
      /\ editor \in [Writers -> Seq(Letters)]
  BY DEF CollabInv
<1>3. counter[w] \in Nat /\ OwnAtMost(w, files[w], counter[w]) /\ Fresh(files, w, counter[w], D)
  BY <1>1, UnsavedIsFresh
<1>4. /\ files' = [files EXCEPT ![w] = @ \union D]
      /\ ops' = [ops EXCEPT ![w] = files[w] \union D]
      /\ counter' = [counter EXCEPT ![w] = OwnCounter(w, files[w] \union D)]
  BY <1>2 DEF Merge, Export, Adopt, Saved
<1>5. Text(files[w] \union D) \in Seq(Letters)
  BY <1>3, FolderText
<1>6. CASE Merge(w)
  <2>1. editor' = [editor EXCEPT ![w] = Text(files[w] \union D)]
    BY <1>6 DEF Merge, Adopt, Saved
  <2> HIDE DEF D
  <2> QED
    BY <1>1, <1>2, <1>3, <1>4, <1>5, <2>1, AdoptSteps
<1>7. CASE Export(w)
  <2>1. editor' = [editor EXCEPT ![w] = editor[w]] /\ editor[w] \in Seq(Letters)
    BY <1>2, <1>7 DEF Export
  <2> HIDE DEF D
  <2> QED
    BY <1>1, <1>2, <1>3, <1>4, <2>1, AdoptSteps
<1> QED
  BY <1>6, <1>7

\* The operations are in memory, and the first of them in the folder.
LEMMA RecordKeeps ==
  ASSUME CollabAssumption, CollabInv, NEW w \in Writers, isOpen[w],
         NEW written \in Nat, Record(w, Unsaved(w), written), UNCHANGED <<isOpen, editor>>
  PROVE  CollabInv'
<1> DEFINE D == Unsaved(w)
           E == {op \in D : op.counter <= counter[w] + written}
           S == ops[w] \union D
           m == counter[w] + Cardinality(D)
<1>1. /\ files \in [Writers -> SUBSET OperationType] /\ isOpen \in [Writers -> BOOLEAN]
      /\ editor \in [Writers -> Seq(Letters)] /\ ops \in [Writers -> SUBSET OperationType]
      /\ Shared(files) /\ InEditor(files, w, ops[w])
  BY DEF CollabInv
<1>2. /\ counter[w] \in Nat /\ OwnAtMost(w, files[w], counter[w])
      /\ OwnAtMost(w, ops[w], counter[w]) /\ Fresh(files, w, counter[w], D)
      /\ Batch(w, ops[w], counter[w], D)
  BY UnsavedIsFresh
<1>3. /\ files' = [files EXCEPT ![w] = @ \union E] /\ ops' = [ops EXCEPT ![w] = S]
      /\ counter' = [counter EXCEPT ![w] = m]
  BY <1>1 DEF Record
<1>4. E \in SUBSET D
  OBVIOUS
<1> HIDE DEF D, E
<1>5. Fresh(files, w, counter[w], E)
  BY <1>2, <1>4, PartOfFresh
<1>6. Shared(files')
  BY <1>1, <1>2, <1>3, <1>5, SharedGrows
<1>7. D \subseteq OperationType /\ Cardinality(D) \in Nat
  BY <1>2, FS_CardinalityType DEF Fresh, Typed
<1>8. /\ files' \in [Writers -> SUBSET OperationType] /\ files'[w] = files[w] \union E
      /\ files[w] \subseteq files'[w] /\ \A v \in Writers \ {w} : files'[v] = files[v]
      /\ S \subseteq OperationType /\ m \in Nat
  BY <1>1, <1>2, <1>3, <1>4, <1>7
<1>9. InEditor(files, w, S)
  BY <1>1, <1>2, HeldGrows
<1>10. InEditor(files', w, S)
  BY <1>8, <1>9, HeldStays
<1>11. OwnAtMost(w, files'[w] \union S, m)
  <2>1. ASSUME NEW op \in D PROVE op.counter <= m
    BY <1>2, <1>7 DEF Batch
  <2>2. ASSUME NEW op \in files[w] \union ops[w], op.actor = w PROVE op.counter <= m
    <3>1. op.counter \in Nat
      BY <1>1, TypedOp DEF InEditor, Shared
    <3>2. op.counter <= counter[w]
      BY <1>2, <2>2 DEF OwnAtMost
    <3> QED
      BY <1>2, <1>7, <3>1, <3>2
  <2> HIDE DEF m
  <2> QED
    BY <1>4, <1>8, <2>1, <2>2 DEF OwnAtMost
<1> DEFINE t == editor[w]
<1>12. /\ isOpen' \in [Writers -> BOOLEAN] /\ \A v \in Writers \ {w} : isOpen'[v] = isOpen[v]
       /\ editor' = [editor EXCEPT ![w] = t] /\ t \in Seq(Letters)
  BY <1>1
<1>13. /\ files' \in [Writers -> SUBSET OperationType] /\ files[w] \subseteq files'[w]
       /\ \A v \in Writers \ {w} : files'[v] = files[v]
       /\ S \subseteq OperationType /\ m \in Nat
       /\ ops' = [ops EXCEPT ![w] = S] /\ counter' = [counter EXCEPT ![w] = m]
  BY <1>3, <1>8
<1> HIDE DEF S, m, t
<1> QED
  BY <1>6, <1>10, <1>11, <1>12, <1>13, DeviceSteps

LEMMA TypeKeeps ==
  ASSUME CollabAssumption, CollabInv, NEW w \in Writers, Type(w)
  PROVE  CollabInv'
<1>1. editor \in [Writers -> Seq(Letters)]
  BY DEF CollabInv
<1>2. ASSUME NEW s \in Seq(Letters), NEW i \in 1..(Len(s) + 1), NEW letter \in Letters
      PROVE  InsertAt(s, i, letter) \in Seq(Letters)
  <2>1. SubSeq(s, 1, i - 1) \in Seq(Letters) /\ SubSeq(s, i, Len(s)) \in Seq(Letters)
    OBVIOUS
  <2>2. <<letter>> \in Seq(Letters)
    OBVIOUS
  <2> QED
    BY <2>1, <2>2, ThreeParts DEF InsertAt
<1>3. ASSUME NEW s \in Seq(Letters), NEW i \in 1..Len(s)
      PROVE  RemoveAt(s, i) \in Seq(Letters)
  <2>1. SubSeq(s, 1, i - 1) \in Seq(Letters) /\ SubSeq(s, i + 1, Len(s)) \in Seq(Letters)
    OBVIOUS
  <2> QED
    BY <2>1, ConcatProperties DEF RemoveAt
<1>4. editor' \in [Writers -> Seq(Letters)]
  <2>1. CASE \E i \in 1..(Len(editor[w]) + 1), letter \in Letters :
               editor' = [editor EXCEPT ![w] = InsertAt(@, i, letter)]
    BY <1>1, <1>2, <2>1
  <2>2. CASE \E i \in 1..Len(editor[w]) : editor' = [editor EXCEPT ![w] = RemoveAt(@, i)]
    BY <1>1, <1>3, <2>2
  <2> QED
    BY <2>1, <2>2 DEF Type
<1>5. UNCHANGED <<files, isOpen, ops, counter>>
  BY DEF Type
<1> QED
  BY <1>4, <1>5 DEF CollabInv

LEMMA CloseKeeps ==
  ASSUME CollabAssumption, CollabInv, NEW w \in Writers, Close(w)
  PROVE  CollabInv'
<1>1. /\ files' \in [Writers -> SUBSET OperationType] /\ Shared(files')
      /\ files[w] \subseteq files'[w] /\ \A v \in Writers \ {w} : files'[v] = files[v]
      /\ isOpen' \in [Writers -> BOOLEAN] /\ \A v \in Writers \ {w} : isOpen'[v] = isOpen[v]
      /\ ~isOpen'[w]
  BY DEF CollabInv, Close
<1> DEFINE S == {}
           m == 0
           t == <<>>
<1>2. /\ ops' = [ops EXCEPT ![w] = S] /\ counter' = [counter EXCEPT ![w] = m] /\ m \in Nat
      /\ editor' = [editor EXCEPT ![w] = t] /\ t \in Seq(Letters)
  BY DEF Close
<1>3. InEditor(files', w, S) /\ S \subseteq OperationType
  BY EmptyDocument
<1> HIDE DEF S, m, t
<1> QED
  BY <1>1, <1>2, <1>3, DeviceSteps

LEMMA DeliverKeeps ==
  ASSUME CollabAssumption, CollabInv, NEW v \in Writers, NEW w \in Writers, Deliver(v, w)
  PROVE  CollabInv'
<1>1. PICK op \in files[v] \ files[w] : files' = [files EXCEPT ![w] = @ \union {op}]
  BY DEF Deliver
<1>2. files \in [Writers -> SUBSET OperationType] /\ Shared(files)
  BY DEF CollabInv
<1>3. op.actor # w /\ Shared(files')
  BY <1>1, <1>2, SharedCarries
<1>4. /\ files' \in [Writers -> SUBSET OperationType] /\ files'[w] = files[w] \union {op}
      /\ \A u \in Writers : files[u] \subseteq files'[u]
      /\ \A u \in Writers \ {w} : files'[u] = files[u]
  BY <1>1, <1>2
<1>5. UNCHANGED <<isOpen, ops, counter, editor>>
  BY DEF Deliver
<1>6. ASSUME NEW u \in Writers
      PROVE  /\ InEditor(files', u, ops[u])
             /\ isOpen[u] => OwnAtMost(u, files'[u] \union ops[u], counter[u])
  <2>1. InEditor(files', u, ops[u])
    BY <1>4, HeldStays DEF CollabInv
  <2>2. isOpen[u] => OwnAtMost(u, files[u] \union ops[u], counter[u])
    BY DEF CollabInv
  <2>3. \A x \in files'[u] : x.actor = u => x \in files[u]
    BY <1>3, <1>4
  <2> QED
    BY <2>1, <2>2, <2>3 DEF OwnAtMost
<1> QED
  BY <1>3, <1>4, <1>5, <1>6 DEF CollabInv

LEMMA CollabInvNext == CollabAssumption /\ CollabInv /\ [CollabNext]_collabVars => CollabInv'
<1> SUFFICES ASSUME CollabAssumption, CollabInv, [CollabNext]_collabVars PROVE CollabInv'
  OBVIOUS
<1>1. CASE UNCHANGED collabVars
  BY <1>1 DEF collabVars, CollabInv
<1>2. CASE CollabNext
  <2>1. PICK w \in Writers :
          \/ Open(w) \/ Close(w) \/ Type(w) \/ Autosave(w) \/ AutosaveFails(w)
          \/ Poll(w) \/ Merge(w) \/ Export(w)
          \/ \E other \in Writers \ {w} : Deliver(w, other)
    BY <1>2 DEF CollabNext
  <2>2. CASE Autosave(w) \/ AutosaveFails(w)
    <3>1. Cardinality(Unsaved(w)) \in Nat
      <4>1. isOpen[w]
        BY <2>2 DEF Autosave, AutosaveFails
      <4> QED
        BY <4>1, UnsavedIsFresh, FS_CardinalityType DEF Fresh, Typed
    <3>2. PICK written \in Nat : Record(w, Unsaved(w), written)
      BY <2>2, <3>1 DEF Autosave, AutosaveFails
    <3> QED
      BY <2>2, <3>2, RecordKeeps DEF Autosave, AutosaveFails
  <2> QED
    BY <2>1, <2>2, OpenKeeps, CloseKeeps, TypeKeeps, PollKeeps, MergeKeeps, DeliverKeeps
<1> QED
  BY <1>1, <1>2

LEMMA CollabAgrees == CollabAssumption /\ CollabInv => DocumentsAgree
<1> SUFFICES ASSUME CollabAssumption, CollabInv PROVE DocumentsAgree
  OBVIOUS
<1>1. Keyed(AllFiles(files)) /\ \A w \in Writers : Document(files[w])
  BY FilesAreOneDocument DEF CollabInv
<1>2. NothingUnreachable
  BY <1>1, OrderIsWhole DEF NothingUnreachable
<1>3. ASSUME NEW w \in Writers, NEW other \in Writers,
             Complete(files[w]), Complete(files[other])
      PROVE  TextOrder(files[w], files[other]) = TextOrder(files[other], files[w])
  <2>1. Keyed(files[w] \union files[other])
    <3>1. files[w] \union files[other] \subseteq AllFiles(files)
      BY DEF AllFiles
    <3> QED
      BY <1>1, <3>1 DEF Keyed
  <2> QED
    BY <1>1, <1>3, <2>1, OrdersOfTwoAgree
<1>4. OrdersAgree
  BY <1>3 DEF OrdersAgree
<1> QED
  BY <1>2, <1>4 DEF DocumentsAgree

\* However the devices type, merge, save and receive each other's files, each can put its
\* document in order, and no two that have the neighbours of what they have see two
\* characters the other way round: see DocumentsAgree (collaboration.py).
THEOREM DocumentsStayOrdered == CollabSpec => []DocumentsAgree
<1>1. CollabInit => CollabInv
  BY CollabAssumption, CollabInvInit
<1>2. CollabInv /\ [CollabNext]_collabVars => CollabInv'
  BY CollabAssumption, CollabInvNext
<1>3. CollabInv => DocumentsAgree
  BY CollabAssumption, CollabAgrees
<1> QED
  BY <1>1, <1>2, <1>3, PTL DEF CollabSpec
=============================================================================
