------------------------------- MODULE Desktop -------------------------------
(***************************************************************************)
(* The parts of the desktop program that share no state with each other:   *)
(* an editor of collaborative text, a peer's share, the uploads into it,   *)
(* a mapping synchronized by Proton's client, a mapping's drive, its       *)
(* cache, a file's version history, a mapping of a branch on GitHub, the   *)
(* search index, the program's own updates and its copy of rclone, the     *)
(* accounts rclone serves, the one Proton's program is signed in to, the   *)
(* encryption of rclone's configuration, the profile for another computer, *)
(* and what the file manager asks for.                                     *)
(* A behaviour is one of one part, and the others rest; all behaviours of  *)
(* all of them are behaviours of this module.                              *)
(***************************************************************************)
EXTENDS Collaboration, PeerShares, PeerUploads, ProtonSync, Mounts, OfflineCache,
        RecoveryIndex, GitSync, SearchIndex, Updates, RcloneInstall,
        Accounts, ProtonLogin, ConfigSecurity, Profiles, DriveRequests

CONSTANT Parts    \* which of them

VARIABLE part     \* the one that works

desktopVars == <<part, collabVars, peerVars, uploadVars, protonVars, mountVars,
                 cacheVars, recoveryVars, gitVars, searchVars, updateVars, runtimeVars,
                 accountVars, loginVars, securityVars, profileVars, requestVars>>

DesktopInit ==
  /\ part \in Parts
  /\ CollabInit /\ PeersInit /\ UploadsInit /\ ProtonInit /\ MountsInit /\ CacheInit
  /\ RecoveryInit /\ GitInit /\ SearchInit /\ UpdatesInit /\ RcloneInit
  /\ AccountsInit /\ LoginInit /\ SecurityInit /\ ProfilesInit /\ RequestsInit
  /\ part # "native" => direction = "two_way" /\ policy = "keep_both" /\ guarded
  /\ part # "git" => mode = "two_way"
  /\ part # "updates" => linux
  /\ part # "proton login" => cli /\ listed = {}
  /\ part # "security" => helper
  /\ part # "requests" => kept = {}

Editors == part = "editors" /\ CollabNext
Share == part = "share" /\ PeersNext
Uploads == part = "uploads" /\ UploadsNext
Native == part = "native" /\ ProtonNext
Drive == part = "drive" /\ MountsNext
Cache == part = "cache" /\ CacheNext
History == part = "history" /\ RecoveryNext
Git == part = "git" /\ GitNext
Search == part = "search" /\ SearchNext
Updating == part = "updates" /\ UpdatesNext
Runtime == part = "runtime" /\ RcloneNext
Accounting == part = "accounts" /\ AccountsNext
SigningIn == part = "proton login" /\ LoginNext
Security == part = "security" /\ SecurityNext
Moving == part = "profiles" /\ ProfilesNext
Requests == part = "requests" /\ RequestsNext

Rests(name, vars) == part # name => UNCHANGED vars

DesktopNext ==
  /\ Editors \/ Share \/ Uploads \/ Native \/ Drive \/ Cache \/ History
     \/ Git \/ Search \/ Updating \/ Runtime
     \/ Accounting \/ SigningIn \/ Security \/ Moving \/ Requests
  /\ Rests("editors", collabVars) /\ Rests("share", peerVars)
  /\ Rests("uploads", uploadVars) /\ Rests("native", protonVars)
  /\ Rests("drive", mountVars) /\ Rests("cache", cacheVars)
  /\ Rests("history", recoveryVars) /\ Rests("git", gitVars)
  /\ Rests("search", searchVars) /\ Rests("updates", updateVars)
  /\ Rests("runtime", runtimeVars) /\ Rests("accounts", accountVars)
  /\ Rests("proton login", loginVars) /\ Rests("security", securityVars)
  /\ Rests("profiles", profileVars) /\ Rests("requests", requestVars)
  /\ UNCHANGED part

DesktopSpec == DesktopInit /\ [][DesktopNext]_desktopVars

-----------------------------------------------------------------------------
\* Those that rest are as they begin.
DesktopTypeOK ==
  /\ part \in Parts
  /\ part = "editors" => CollabTypeOK
  /\ part = "share" => PeersTypeOK
  /\ part = "uploads" => UploadsTypeOK
  /\ part = "native" => ProtonTypeOK
  /\ part = "drive" => MountsTypeOK
  /\ part = "cache" => CacheTypeOK
  /\ part = "history" => RecoveryTypeOK
  /\ part = "git" => GitTypeOK
  /\ part = "search" => SearchTypeOK
  /\ part = "updates" => UpdatesTypeOK
  /\ part = "runtime" => RcloneTypeOK
  /\ part = "accounts" => AccountsTypeOK
  /\ part = "proton login" => LoginTypeOK
  /\ part = "security" => SecurityTypeOK
  /\ part = "profiles" => ProfilesTypeOK
  /\ part = "requests" => RequestsTypeOK

\* Neither an update nor a copy of rclone is started that is not the whole of
\* what was signed: see UpdatesAreVerified and RcloneIsWhole.
InstallsAreVerified == UpdatesAreVerified /\ RcloneIsWhole

\* An account in the list was authorized, by the one authorization there is at a time,
\* with rclone or with Proton, and rclone can read what it has kept of it: see
\* AccountsAreAuthorized, ProtonIsSignedIn and RcloneCanDecrypt.
AccountsAreUsable == AccountsAreAuthorized /\ ProtonIsSignedIn /\ RcloneCanDecrypt
=============================================================================
