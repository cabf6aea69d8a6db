------------------------------- MODULE Accounts -------------------------------
(***************************************************************************)
(* How accounts that rclone serves come and go: the wizards (OAuthWizard)  *)
(* with their threads and the authorization process they share, rclone's   *)
(* configuration, the vault dialog, reconnecting, removing, and the        *)
(* accounts the program finds when it starts.  A wizard is modal: the next *)
(* is opened when the last has gone, though not always its thread.  What   *)
(* is asked and answered is left out, as are labels and icons.             *)
(***************************************************************************)
EXTENDS Naturals

CONSTANTS
  MaxWizards,     \* bound: the wizards that are ever opened
  Keys,           \* account keys: names of rclone's remotes
  MaxRestarts     \* bound: starts of the program

VARIABLES
  wizard,       \* what each shows, its key, and whether a question was asked
  step,         \* its thread, and what that brings
  authorizing,  \* _oauth_process and _oauth_session: whose process is recorded
  alive,        \* authorization processes that run
  renewing,     \* the key of the rclone config reconnect that runs
  configured,   \* rclone.conf
  accounts,     \* the accounts of config.json
  discovered,        \* what _load_runtime has discovered and _runtime_loaded not yet added
  ready,        \* _runtime_loaded has been
  starts,
  outlived,      \* ghost: processes of a program that has ended
  early,        \* ghost: wizards closed before their process was started
  unasked,         \* ghost: a wizard was closed while its account was checked
  revived,      \* ghost: an account was removed while the start-up looked for some
  halfRemoved,       \* ghost: the program ended in the middle of a removal
  unverified    \* ghost: keys that a wizard has listed although not authorized

accountGhosts == <<outlived, early, unasked, revived, halfRemoved, unverified>>
oauthVars == <<wizard, step, authorizing, alive>>
accountVars == <<oauthVars, renewing, configured, accounts, discovered, ready, starts,
                 accountGhosts>>

Wizards == 1..MaxWizards
NoWizard == 0
NoAccount == "no account"

ASSUME AccountsAssumption ==
  /\ NoAccount \notin Keys /\ MaxWizards \in Nat /\ MaxRestarts \in Nat \ {0}

NothingFound == {NoAccount}
UnusedWizard == [shows |-> "unused", key |-> NoAccount, asked |-> FALSE]
NoStep == [at |-> "idle", brings |-> "none"]

AccountsInit ==
  /\ wizard = [w \in Wizards |-> UnusedWizard] /\ step = [w \in Wizards |-> NoStep]
  /\ authorizing = NoWizard /\ alive = {} /\ renewing = NoAccount
  /\ configured = [k \in Keys |-> "absent"] /\ accounts = {}
  /\ discovered = NothingFound /\ ready = FALSE /\ starts = 1
  /\ outlived = {} /\ early = {} /\ unasked = FALSE /\ revived = FALSE /\ halfRemoved = FALSE
  /\ unverified = {}

Opened(w) == wizard[w].shows \in {"form", "question", "busy"}
NoneOpen == \A w \in Wizards : ~Opened(w)
Reaches(w, at, brings) == step' = [step EXCEPT ![w] = [at |-> at, brings |-> brings]]
OnlyWizards ==
  UNCHANGED <<renewing, configured, accounts, discovered, ready, starts, accountGhosts>>

-----------------------------------------------------------------------------
(* The wizard *)

\* The key may be typed, and be that of an account that is there.
OpenWizard(w, k) ==
  /\ NoneOpen /\ wizard[w].shows = "unused"
  /\ \A v \in 1..(w - 1) : wizard[v].shows # "unused"
  /\ wizard' = [wizard EXCEPT ![w] = [shows |-> "form", key |-> k, asked |-> FALSE]]
  /\ UNCHANGED <<step, authorizing, alive>> /\ OnlyWizards

\* begin_oauth, or continue_oauth when there is a question to answer
Press(w) ==
  /\ wizard[w].shows \in {"form", "question"}
  /\ wizard' = [wizard EXCEPT ![w].shows = "busy"] /\ Reaches(w, "starts", "none")
  /\ UNCHANGED <<authorizing, alive>> /\ OnlyWizards

\* The process that answers a question listens for the browser.
Listening(w) == w \in alive /\ wizard[w].asked
PortBusy == renewing # NoAccount \/ \E w \in Wizards : Listening(w)

MayStart(w) ==
  /\ ~(wizard[w].asked /\ PortBusy)
  /\ authorizing = NoWizard \/ authorizing \notin alive

\* _run_oauth as far as Popen
Authorize(w) ==
  /\ step[w].at = "starts" /\ UNCHANGED wizard /\ OnlyWizards
  /\ IF MayStart(w)
     THEN /\ Reaches(w, "waits", "none")
          /\ authorizing' = w /\ alive' = alive \union {w}
     ELSE Reaches(w, "ended", "error") /\ UNCHANGED <<authorizing, alive>>

\* rclone asks, is done or gives up.  The first step makes the remote, or changes
\* the options of the one there is.
AuthorizationEnds(w, brings) ==
  /\ w \in alive /\ alive' = alive \ {w}
  /\ configured' \in
       {[configured EXCEPT ![wizard[w].key] = c] :
          c \in IF brings = "complete" THEN {"whole"}
                ELSE IF brings = "asks" THEN {"half"}
                ELSE {configured[wizard[w].key], "half"}}
  /\ step' = IF w \in outlived THEN step ELSE [step EXCEPT ![w].brings = brings]
  /\ UNCHANGED <<wizard, authorizing, renewing, accounts, discovered, ready, starts,
                 accountGhosts>>

\* (Mutant) The record is always forgotten.
ForgetAny(w) == NoWizard
\* What _run_oauth does at last: another may have been recorded since.
Forget(w) == IF authorizing = w THEN NoWizard ELSE authorizing

OAuthSettles(w) ==
  /\ step[w].at = "waits" /\ w \notin alive
  /\ authorizing' = Forget(w) /\ Reaches(w, "ended", step[w].brings)
  /\ UNCHANGED <<wizard, alive>> /\ OnlyWizards

\* cancel_oauth: SIGTERM, and SIGKILL three seconds later
Cancel(w) == alive' = IF authorizing = w THEN alive \ {w} ELSE alive

\* After ten minutes
OAuthTimesOut(w) ==
  /\ step[w].at = "waits" /\ w \in alive /\ Cancel(w)
  /\ authorizing' = Forget(w) /\ Reaches(w, "ended", "error")
  /\ UNCHANGED wizard /\ OnlyWizards

\* _step_ready
StepReady(w) ==
  /\ step[w].at = "ended" /\ UNCHANGED <<authorizing, alive>> /\ OnlyWizards
  /\ \/ /\ ~Opened(w) /\ UNCHANGED wizard /\ Reaches(w, "idle", "none")
     \/ /\ Opened(w) /\ step[w].brings = "complete" /\ UNCHANGED wizard
        /\ Reaches(w, "checks", "none")
     \/ /\ Opened(w) /\ step[w].brings # "complete" /\ Reaches(w, "idle", "none")
        /\ LET asked == wizard[w].asked \/ step[w].brings = "asks" IN
             wizard' = [wizard EXCEPT ![w] = [shows |-> IF asked THEN "question" ELSE "form",
                                              key |-> @.key, asked |-> asked]]

\* validate_remote lists the remote's folders.
Validate(w) ==
  /\ step[w].at = "checks" /\ UNCHANGED <<wizard, authorizing, alive>> /\ OnlyWizards
  /\ \E answer \in {"error"} \union {"complete" : k \in {wizard[w].key} \cap
                                       {l \in Keys : configured[l] = "whole"}} :
       Reaches(w, "checked", answer)

\* _validation_ready does not ask whether the wizard was closed.
ValidationReady(w) ==
  /\ step[w].at = "checked" /\ Reaches(w, "idle", "none")
  /\ IF step[w].brings = "complete"
     THEN /\ wizard' = [wizard EXCEPT ![w].shows = "done"]
          /\ accounts' = accounts \union {wizard[w].key}
          /\ unverified' = unverified \union
               ({wizard[w].key} \ {k \in Keys : configured[k] = "whole"})
     ELSE /\ wizard' = [wizard EXCEPT ![w].shows =
                          IF ~Opened(w) THEN "closed"
                          ELSE IF wizard[w].asked THEN "question" ELSE "form"]
          /\ UNCHANGED <<accounts, unverified>>
  /\ UNCHANGED <<authorizing, alive, renewing, configured, discovered, ready, starts,
                 outlived, early, unasked, revived, halfRemoved>>

CloseWizard(w) ==
  /\ Opened(w) /\ wizard' = [wizard EXCEPT ![w].shows = "closed"]
  /\ Cancel(w)
  /\ step' = IF w \in alive \ alive' THEN [step EXCEPT ![w].brings = "error"] ELSE step
  /\ early' = IF step[w].at = "starts" THEN early \union {w} ELSE early
  /\ unasked' = (unasked \/ step[w].at \in {"checks", "checked"})
  /\ UNCHANGED <<authorizing, renewing, configured, accounts, discovered, ready, starts,
                 outlived, revived, halfRemoved, unverified>>

-----------------------------------------------------------------------------
(* The other dialogs *)

OnlyAccounts == UNCHANGED <<oauthVars, ready, starts, outlived, early, unasked, unverified>>

\* VaultDialog.create: rclone answers while the window waits.  An account of that name is
\* overwritten; a vault that cannot be listed stays in rclone's configuration.
CreateVault(k) ==
  /\ NoneOpen
  /\ \/ /\ configured' = [configured EXCEPT ![k] = "whole"]
        /\ accounts' = accounts \union {k}
     \/ /\ configured' = [configured EXCEPT ![k] = "half"] /\ UNCHANGED accounts
  /\ OnlyAccounts /\ UNCHANGED <<renewing, discovered, revived, halfRemoved>>

\* rclone config reconnect, for a minute at most and beside any wizard's process
Renew(k) ==
  /\ NoneOpen /\ k \in accounts /\ renewing = NoAccount /\ renewing' = k
  /\ OnlyAccounts /\ UNCHANGED <<configured, accounts, discovered, revived, halfRemoved>>

\* rclone does not touch a remote that is gone.
RenewEnds ==
  /\ renewing # NoAccount /\ renewing' = NoAccount
  /\ configured' \in {configured, [configured EXCEPT ![renewing] =
                                     IF @ = "absent" THEN @ ELSE "whole"]}
  /\ OnlyAccounts /\ UNCHANGED <<accounts, discovered, revived, halfRemoved>>

\* (Mutant) The remote goes first, whatever then happens to the account.
RemoveRemoteOnly(k) ==
  /\ configured' = [configured EXCEPT ![k] = "absent"]
  /\ accounts' \in {accounts, accounts \ {k}}
RemoveBoth(k) ==
  /\ configured' = [configured EXCEPT ![k] = "absent"] /\ accounts' = accounts \ {k}

\* _remove_account, of an account that no mapping uses; an error leaves both.
RemoveAccount(k) ==
  /\ NoneOpen /\ k \in accounts /\ RemoveBoth(k)
  /\ revived' = (revived \/ discovered # NothingFound)
  /\ OnlyAccounts /\ UNCHANGED <<renewing, discovered, halfRemoved>>

-----------------------------------------------------------------------------
(* Starting and ending *)

\* _load_runtime: rclone config dump names a remote that is half made, too.
Discover ==
  /\ ~ready /\ discovered = NothingFound
  /\ discovered' = {k \in Keys : configured[k] # "absent"}
  /\ OnlyAccounts /\ UNCHANGED <<renewing, configured, accounts, revived, halfRemoved>>

\* _runtime_loaded, or what reports that no rclone answers
RuntimeLoaded ==
  /\ ~ready /\ discovered # NothingFound
  /\ accounts' = accounts \union discovered /\ discovered' = NothingFound /\ ready' = TRUE
  /\ UNCHANGED <<oauthVars, renewing, configured, starts, outlived, early, unasked, revived,
                 halfRemoved, unverified>>

\* Authorization processes are in a session of their own and outlive the program.  A
\* removal has rclone forget the remote before the account is saved as gone.
AccountsRestart ==
  /\ starts < MaxRestarts /\ starts' = starts + 1
  /\ wizard' = [w \in Wizards |-> IF Opened(w) THEN [wizard[w] EXCEPT !.shows = "closed"]
                                  ELSE wizard[w]]
  /\ step' = [w \in Wizards |-> NoStep]
  /\ authorizing' = NoWizard /\ outlived' = outlived \union alive
  /\ renewing' = NoAccount /\ discovered' = NothingFound /\ ready' = FALSE
  /\ \/ UNCHANGED <<configured, halfRemoved>>
     \/ \E k \in accounts : /\ NoneOpen /\ halfRemoved' = TRUE
                            /\ configured' = [configured EXCEPT ![k] = "absent"]
  /\ UNCHANGED <<alive, accounts, early, unasked, revived, unverified>>

AccountsNext ==
  \/ \E w \in Wizards :
       \/ \E k \in Keys : OpenWizard(w, k)
       \/ \E brings \in {"asks", "complete", "error"} : AuthorizationEnds(w, brings)
       \/ Press(w) \/ Authorize(w) \/ OAuthSettles(w) \/ OAuthTimesOut(w)
       \/ StepReady(w) \/ Validate(w) \/ ValidationReady(w) \/ CloseWizard(w)
  \/ \E k \in Keys : CreateVault(k) \/ Renew(k) \/ RemoveAccount(k)
  \/ RenewEnds \/ Discover \/ RuntimeLoaded \/ AccountsRestart

AccountsSpec == AccountsInit /\ [][AccountsNext]_accountVars

-----------------------------------------------------------------------------
AccountsTypeOK ==
  /\ wizard \in [Wizards ->
       [shows : {"unused", "form", "question", "busy", "closed", "done"},
        key : Keys \union {NoAccount}, asked : BOOLEAN]]
  /\ step \in [Wizards ->
       [at : {"idle", "starts", "waits", "ended", "checks", "checked"},
        brings : {"none", "asks", "complete", "error"}]]
  /\ authorizing \in Wizards \union {NoWizard}
  /\ alive \subseteq Wizards /\ outlived \subseteq Wizards /\ early \subseteq Wizards
  /\ renewing \in Keys \union {NoAccount}
  /\ configured \in [Keys -> {"absent", "half", "whole"}]
  /\ accounts \subseteq Keys /\ unverified \subseteq Keys
  /\ discovered \subseteq Keys \union NothingFound
  /\ ready \in BOOLEAN /\ starts \in 1..MaxRestarts
  /\ unasked \in BOOLEAN /\ revived \in BOOLEAN /\ halfRemoved \in BOOLEAN

\* Of the authorizations this program has started one runs at most, and it is the one
\* that Cancel would stop: that of a wizard which is open, unless it was
\* closed before there was a process to stop.
OneAuthorization ==
  /\ alive \ outlived \subseteq {authorizing}
  /\ \A w \in (alive \ outlived) \ early : Opened(w)

\* Whoever is listed has a remote, unless the start-up's list was old or the program
\* ended between the two; and what a wizard lists was authorized when it was
\* listed.  A wizard that was closed while its thread went on may spoil both.
AccountsHaveRemotes ==
  /\ ~revived /\ ~halfRemoved /\ ~unasked => \A k \in accounts : configured[k] # "absent"
  /\ ~unasked /\ early = {} /\ outlived = {} => unverified = {}

AccountsAreAuthorized == OneAuthorization /\ AccountsHaveRemotes
=============================================================================
