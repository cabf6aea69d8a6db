---------------------------- MODULE ConfigSecurity ----------------------------
(***************************************************************************)
(* How rclone's configuration, which holds the accounts' tokens, becomes   *)
(* encrypted (_ensure_config_security): by whichever thread finds it plain *)
(* when it is about to run rclone, without a lock.  What remembers it is a *)
(* marker file; that rclone can decrypt it, a variable of the program's    *)
(* own environment, which names the helper that knows the key.             *)
(***************************************************************************)
CONSTANTS Callers    \* threads that run rclone

VARIABLES
  caller,     \* where each is
  config,     \* rclone.conf; encrypted by a key of the user's own, or the program's
  marker,     \* .tuxindrive-encrypted
  helper,     \* the password helper is installed
  passwordCommand,   \* RCLONE_PASSWORD_COMMAND
  checkedOnce,       \* _config_security_checked
  unmarked    \* ghost: it was encrypted, and what should have marked it was cut off

securityVars == <<caller, config, marker, helper, passwordCommand, checkedOnce, unmarked>>

SecurityInit ==
  /\ caller = [c \in Callers |-> "idle"] /\ config = "none" /\ marker = FALSE
  /\ helper \in BOOLEAN /\ passwordCommand = FALSE /\ checkedOnce = FALSE
  /\ unmarked = FALSE

CallerGoes(c, from, to) == caller[c] = from /\ caller' = [caller EXCEPT ![c] = to]

\* available; after an authorization it is looked at once more.
CallRclone(c) ==
  /\ \/ CallerGoes(c, "idle", "looks")
     \/ checkedOnce /\ CallerGoes(c, "idle", "runs")
  /\ UNCHANGED <<config, marker, helper, passwordCommand, checkedOnce, unmarked>>

\* (Mutant) A marker is enough.
TrustMarker == UNCHANGED passwordCommand
UseHelper == passwordCommand' = TRUE

\* A marker, no configuration, one encrypted by somebody, no helper, or a plain one
LookAtConfig(c) ==
  /\ UNCHANGED <<config, marker, helper, unmarked>>
  /\ \/ /\ marker /\ CallerGoes(c, "looks", "runs") /\ UseHelper /\ checkedOnce' = TRUE
     \/ /\ ~marker /\ config \in {"own", "ours"} /\ CallerGoes(c, "looks", "runs")
        /\ checkedOnce' = TRUE /\ UNCHANGED passwordCommand
     \/ /\ ~marker /\ (config = "none" \/ (config = "plain" /\ ~helper))
        /\ CallerGoes(c, "looks", "runs") /\ UNCHANGED <<passwordCommand, checkedOnce>>
     \/ /\ ~marker /\ config = "plain" /\ helper /\ CallerGoes(c, "looks", "encrypts")
        /\ UNCHANGED <<passwordCommand, checkedOnce>>

\* rclone config encryption set; what another has encrypted stays as it is.
EncryptConfig(c) ==
  /\ CallerGoes(c, "encrypts", "marks")
  /\ config' = IF config = "plain" THEN "ours" ELSE config
  /\ UNCHANGED <<marker, helper, passwordCommand, checkedOnce, unmarked>>

\* The credential store or rclone refuses; then rclone is not run.
EncryptFails(c) ==
  /\ CallerGoes(c, "encrypts", "idle")
  /\ UNCHANGED <<config, marker, helper, passwordCommand, checkedOnce, unmarked>>

MarkConfig(c) ==
  /\ CallerGoes(c, "marks", "runs") /\ marker' = TRUE /\ UseHelper /\ checkedOnce' = TRUE
  /\ UNCHANGED <<config, helper, unmarked>>
MarkFails(c) ==
  /\ CallerGoes(c, "marks", "idle") /\ unmarked' = TRUE
  /\ UNCHANGED <<config, marker, helper, passwordCommand, checkedOnce>>

\* rclone has written its configuration, in the way it has read it.
RcloneEnds(c) ==
  /\ CallerGoes(c, "runs", "idle")
  /\ config' \in {config, IF config = "none" THEN "plain" ELSE config}
  /\ UNCHANGED <<marker, helper, passwordCommand, checkedOnce, unmarked>>

UserEncrypts ==
  /\ config = "plain" /\ config' = "own" /\ \A c \in Callers : caller[c] = "idle"
  /\ UNCHANGED <<caller, marker, helper, passwordCommand, checkedOnce, unmarked>>

SecurityRestart ==
  /\ caller' = [c \in Callers |-> "idle"]
  /\ passwordCommand' = FALSE /\ checkedOnce' = FALSE
  /\ unmarked' = (unmarked \/ (~marker /\ \E c \in Callers : caller[c] = "marks"))
  /\ UNCHANGED <<config, marker, helper>>

SecurityNext ==
  \/ \E c \in Callers :
       \/ CallRclone(c) \/ LookAtConfig(c) \/ EncryptConfig(c) \/ EncryptFails(c)
       \/ MarkConfig(c) \/ MarkFails(c) \/ RcloneEnds(c)
  \/ UserEncrypts \/ SecurityRestart

SecuritySpec == SecurityInit /\ [][SecurityNext]_securityVars

-----------------------------------------------------------------------------
SecurityTypeOK ==
  /\ caller \in [Callers -> {"idle", "looks", "encrypts", "marks", "runs"}]
  /\ config \in {"none", "plain", "own", "ours"}
  /\ marker \in BOOLEAN /\ helper \in BOOLEAN /\ passwordCommand \in BOOLEAN
  /\ checkedOnce \in BOOLEAN /\ unmarked \in BOOLEAN

\* What the program has encrypted the rclone it runs can decrypt, after every restart,
\* except for as long as another thread has encrypted and not yet marked it; and
\* for good, if that was cut off in between: what is then found encrypted is
\* taken to be so by a key of the user's own.
RcloneCanDecrypt ==
  (\E c \in Callers : caller[c] = "runs") /\ config = "ours" /\ ~unmarked
  /\ (\A c \in Callers : caller[c] # "marks") => passwordCommand
=============================================================================
