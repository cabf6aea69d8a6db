----------------------------- MODULE ProtonLogin -----------------------------
(***************************************************************************)
(* Signing in to Proton Drive: the dialogs (ProtonAuthDialog), their       *)
(* threads in install_and_login, the flag that cancels an installation and *)
(* the login process they share.  Proton's program keeps one session for   *)
(* all.  Dialogs are modal; a closed one's thread may go on.  A session is *)
(* the dialog in which somebody signed in, and whether it has expired is   *)
(* left out; so is the download, which is checked before it is put in      *)
(* place.                                                                  *)
(***************************************************************************)
EXTENDS Naturals

CONSTANTS
  MaxDialogs,     \* bound: the dialogs that are ever opened
  MaxProtonRuns   \* bound: starts of the program

ASSUME LoginAssumption == MaxDialogs \in Nat /\ MaxProtonRuns \in Nat \ {0}

VARIABLES
  authDialog,   \* what each shows, and the account it reconnects
  login,        \* where its thread is
  cancelled,    \* _install_cancel
  cli,          \* Proton's program is installed
  recorded,     \* _login_process: whose it is
  running,      \* login processes that run
  session,      \* who is signed in
  listed,       \* Proton accounts: one of Proton's program, one of rclone's
  owner,        \* the dialog that has listed the first
  drive,        \* the mapping of the second is enabled
  runs,
  strays,       \* ghost: processes of a program that has ended
  missed,       \* ghost: dialogs whose cancellation found nothing to cancel
  tooLate       \* ghost: a dialog was closed when its session was there already

loginVars == <<authDialog, login, cancelled, cli, recorded, running, session, listed,
               owner, drive, runs, strays, missed, tooLate>>

Dialogs == 1..MaxDialogs
NoDialog == 0

LoginInit ==
  /\ authDialog = [p \in Dialogs |-> [shows |-> "unused", existing |-> "none"]]
  /\ login = [p \in Dialogs |-> "idle"]
  /\ cancelled = FALSE /\ cli \in BOOLEAN /\ recorded = NoDialog /\ running = {}
  /\ session = NoDialog /\ listed \in {{}, {"legacy"}} /\ owner = NoDialog
  /\ drive = FALSE /\ runs = 1 /\ strays = {} /\ missed = {} /\ tooLate = FALSE

Shown(p) == authDialog[p].shows \in {"open", "busy"}
NoneShown == \A p \in Dialogs : ~Shown(p)
Shows(p, what) == authDialog' = [authDialog EXCEPT ![p].shows = what]
LoginGoes(p, from, to) == login[p] = from /\ login' = [login EXCEPT ![p] = to]

OnlyLogin == UNCHANGED <<session, listed, owner, drive, runs, strays, tooLate>>

-----------------------------------------------------------------------------
(* The dialog and its thread *)

OpenAuthDialog(p, existing) ==
  /\ NoneShown /\ authDialog[p].shows = "unused"
  /\ \A q \in 1..(p - 1) : authDialog[q].shows # "unused"
  /\ existing \in listed \union {"none"}
  /\ authDialog' = [authDialog EXCEPT ![p] = [shows |-> "open", existing |-> existing]]
  /\ UNCHANGED <<login, cancelled, cli, recorded, running, missed>> /\ OnlyLogin

\* There is one session: another account must be removed or reconnected first.
ConnectProton(p) ==
  /\ authDialog[p].shows = "open" /\ login[p] = "idle" /\ Shows(p, "busy")
  /\ "official" \in listed => authDialog[p].existing = "official"
  /\ login' = [login EXCEPT ![p] = "begins"]
  /\ UNCHANGED <<cancelled, cli, recorded, running, missed>> /\ OnlyLogin

\* install_and_login: the flag is cleared, for whichever thread it was set.
BeginLogin(p) ==
  /\ LoginGoes(p, "begins", "installs") /\ cancelled' = FALSE
  /\ missed' = missed \union {q \in Dialogs : ~Shown(q) /\ login[q] = "installs"}
  /\ UNCHANGED <<authDialog, cli, recorded, running>> /\ OnlyLogin

InstallCli(p) ==
  /\ login[p] = "installs" /\ ~cli /\ cli' = TRUE
  /\ UNCHANGED <<authDialog, login, cancelled, recorded, running, missed>> /\ OnlyLogin

\* No connection, no release, another checksum, or cancelled between two pieces
InstallCliFails(p) ==
  /\ ~cli /\ LoginGoes(p, "installs", "failed")
  /\ UNCHANGED <<authDialog, cancelled, cli, recorded, running, missed>> /\ OnlyLogin

\* (Mutant) Once installed, nobody asks whether to go on.
NeverGivesUp == FALSE
GivesUp == cancelled
AskWhetherCancelled(p) ==
  /\ cli /\ LoginGoes(p, "installs", IF GivesUp THEN "failed" ELSE "passed")
  /\ UNCHANGED <<authDialog, cancelled, cli, recorded, running, missed>> /\ OnlyLogin

StartLogin(p) ==
  /\ UNCHANGED <<authDialog, cancelled, cli, missed>> /\ OnlyLogin
  /\ IF recorded # NoDialog /\ recorded \in running
     THEN LoginGoes(p, "passed", "failed") /\ UNCHANGED <<recorded, running>>
     ELSE /\ LoginGoes(p, "passed", "waits")
          /\ recorded' = p /\ running' = running \union {p}

\* The browser is done, or Proton's program has given up.
LoginEnds(p) ==
  /\ p \in running /\ running' = running \ {p}
  /\ \E accepted \in BOOLEAN :
       /\ session' = IF accepted THEN p ELSE session
       /\ login' = IF p \in strays THEN login
                   ELSE [login EXCEPT ![p] = IF accepted THEN "accepted" ELSE "refused"]
  /\ UNCHANGED <<authDialog, cancelled, cli, recorded, listed, owner, drive,
                 runs, strays, missed, tooLate>>

LeavesRecord(p) == recorded' = IF recorded = p THEN NoDialog ELSE recorded

\* It has ended, by itself or because it was cancelled; another may be recorded.
LoginSettles(p) ==
  /\ LeavesRecord(p)
  /\ LoginGoes(p, "accepted", "checks") \/ LoginGoes(p, "refused", "failed")
  /\ UNCHANGED <<authDialog, cancelled, cli, running, missed>> /\ OnlyLogin

LoginTimesOut(p) ==
  /\ p \in running /\ running' = running \ {p} /\ LeavesRecord(p)
  /\ LoginGoes(p, "waits", "failed")
  /\ UNCHANGED <<authDialog, cancelled, cli, missed>> /\ OnlyLogin

\* validate_session, whoever is signed in by now
CheckSession(p) ==
  /\ \/ LoginGoes(p, "checks", "failed")
     \/ session # NoDialog /\ LoginGoes(p, "checks", "signedIn")
  /\ UNCHANGED <<authDialog, cancelled, cli, recorded, running, missed>> /\ OnlyLogin

\* _ready, and add_account: an account of rclone's with the same key is replaced, its
\* drive cannot go on.
LoginReady(p) ==
  /\ login[p] \in {"failed", "signedIn"} /\ login' = [login EXCEPT ![p] = "idle"]
  /\ \/ ~Shown(p) /\ UNCHANGED <<authDialog, listed, owner, drive>>
     \/ /\ Shown(p) /\ login[p] = "failed" /\ Shows(p, "open")
        /\ UNCHANGED <<listed, owner, drive>>
     \/ /\ Shown(p) /\ login[p] = "signedIn" /\ Shows(p, "done")
        /\ listed' = (listed \ {authDialog[p].existing}) \union {"official"}
        /\ owner' = p /\ drive' = (drive /\ authDialog[p].existing # "legacy")
  /\ UNCHANGED <<cancelled, cli, recorded, running, session, runs, strays, missed, tooLate>>

\* Whichever login is running ends.
CloseAuthDialog(p) ==
  /\ Shown(p) /\ Shows(p, "closed") /\ cancelled' = TRUE
  /\ running' = running \ {recorded}
  /\ login' = [q \in Dialogs |-> IF q = recorded /\ q \in running THEN "refused"
                                 ELSE login[q]]
  /\ missed' = IF login[p] \in {"begins", "passed"} THEN missed \union {p} ELSE missed
  /\ tooLate' = (tooLate \/ session = p)
  /\ UNCHANGED <<cli, recorded, session, listed, owner, drive, runs, strays>>

-----------------------------------------------------------------------------
OnlyAccountList == UNCHANGED <<authDialog, login, cancelled, cli, recorded, running,
                               owner, runs, strays, missed, tooLate>>

\* _remove_account: Proton's program signs out.
RemoveOfficial ==
  /\ NoneShown /\ "official" \in listed /\ listed' = listed \ {"official"}
  /\ session' = NoDialog /\ UNCHANGED drive /\ OnlyAccountList
RemoveLegacy ==
  /\ NoneShown /\ "legacy" \in listed /\ ~drive /\ listed' = listed \ {"legacy"}
  /\ UNCHANGED <<session, drive>> /\ OnlyAccountList

ToggleDrive ==
  /\ NoneShown /\ "legacy" \in listed /\ drive' = ~drive
  /\ UNCHANGED <<session, listed>> /\ OnlyAccountList

\* A login outlives the program.  When accounts have been loaded, mappings of rclone's
\* are switched off.
LoginRestart ==
  /\ runs < MaxProtonRuns /\ runs' = runs + 1
  /\ authDialog' = [p \in Dialogs |-> IF Shown(p) THEN [authDialog[p] EXCEPT !.shows = "closed"]
                                      ELSE authDialog[p]]
  /\ login' = [p \in Dialogs |-> "idle"] /\ cancelled' = FALSE /\ recorded' = NoDialog
  /\ strays' = strays \union running /\ drive' = FALSE
  /\ tooLate' = (tooLate \/ \E p \in Dialogs : Shown(p) /\ session = p)
  /\ UNCHANGED <<cli, running, session, listed, owner, missed>>

LoginNext ==
  \/ \E p \in Dialogs :
       \/ \E existing \in {"none", "legacy", "official"} : OpenAuthDialog(p, existing)
       \/ ConnectProton(p) \/ BeginLogin(p) \/ InstallCli(p) \/ InstallCliFails(p)
       \/ AskWhetherCancelled(p) \/ StartLogin(p) \/ LoginEnds(p) \/ LoginSettles(p)
       \/ LoginTimesOut(p) \/ CheckSession(p) \/ LoginReady(p) \/ CloseAuthDialog(p)
  \/ RemoveOfficial \/ RemoveLegacy \/ ToggleDrive \/ LoginRestart

LoginSpec == LoginInit /\ [][LoginNext]_loginVars

-----------------------------------------------------------------------------
LoginTypeOK ==
  /\ authDialog \in [Dialogs ->
       [shows : {"unused", "open", "busy", "closed", "done"},
        existing : {"none", "legacy", "official"}]]
  /\ login \in [Dialogs -> {"idle", "begins", "installs", "passed", "waits",
                            "accepted", "refused", "checks",
                            "failed", "signedIn"}]
  /\ {recorded, session, owner} \subseteq Dialogs \union {NoDialog}
  /\ running \subseteq Dialogs /\ strays \subseteq Dialogs /\ missed \subseteq Dialogs
  /\ listed \subseteq {"legacy", "official"} /\ runs \in 1..MaxProtonRuns
  /\ cancelled \in BOOLEAN /\ cli \in BOOLEAN /\ drive \in BOOLEAN /\ tooLate \in BOOLEAN

\* Of the logins this program has started one runs at most, which is the one that
\* is recorded; and it is that of a dialog which waits for it, unless that one's
\* cancellation came when there was nothing to cancel yet, or was taken back by
\* the next dialog.
OneLogin ==
  /\ running \ strays \subseteq {recorded}
  /\ \A p \in (running \ strays) \ missed : authDialog[p].shows = "busy"

\* The account in the list is the one that Proton's program is signed in to, unless a
\* login went on without its dialog or the dialog was closed after it.
ListedIsSignedIn ==
  "official" \in listed /\ missed = {} /\ strays = {} /\ ~tooLate =>
    session = owner \/ \E p \in Dialogs : Shown(p) /\ session = p

ProtonIsSignedIn == OneLogin /\ ListedIsSignedIn
=============================================================================
