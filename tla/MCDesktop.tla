------------------------------ MODULE MCDesktop ------------------------------
(***************************************************************************)
(* Two writers of one letter, the files of one of whom may fail; a share   *)
(* for one device and one drop; two devices that upload; one native file;  *)
(* two mounts, of which the second loss is the last that is answered; a    *)
(* cache with room for one of two files, the path of one of which ends     *)
(* with the other's; three versions of a file; a branch of two files; two  *)
(* threads that index a folder of two files, of which both are the limit;  *)
(* two releases and two downloads; two threads that install rclone; two    *)
(* wizards for one account and two dialogs for Proton's, each with one     *)
(* restart; two threads that run rclone; three configurations; and three   *)
(* requests about two paths.                                               *)
(***************************************************************************)
EXTENDS Desktop

CONSTANTS d1, o1, s1, s2, f1, notes, workNotes, g1, g2, m1, fa, fb, r1, r2, t1, t2,
          k1, p1, p2, c1, c2

OneLetter == <<1>>
AllParts == {"editors", "share", "uploads", "native", "drive", "cache", "history",
             "git", "search", "updates", "runtime",
             "accounts", "proton login", "security", "profiles", "requests"}
TwoFiles == {<<m1, fa>>, <<m1, fb>>}
SamePathPairs == {<<notes, workNotes>>}

\* Nothing is claimed of what follows when two threads start and stop a share
\* at once, take each other's mount, write one lease together, or
\* change the rules of one drive, or when a drive has lost what it is to keep.
Followed == ~overlapped /\ ~misled /\ ~raced /\ ~crossed /\ taken = {}

\* A wizard that was closed before its process had started is followed for as long as
\* the program runs, after whose restart either nothing is left of the first
\* wizard or only its process.
EarlyWizardsEnd ==
  /\ ~unasked /\ ~revived /\ ~halfRemoved
  /\ early # {} => outlived = {} /\ starts = 1
  /\ starts = 1 /\ ~ready => wizard[1].shows = "unused"
  /\ starts = 2 => renewing = NoAccount
  /\ starts = 2 => outlived # {} \/ wizard[1].shows \in {"unused", "closed"}

\* Nor is a dialog followed that was closed when somebody had signed in.
LoginsEnd == ~tooLate /\ (runs = 2 => ~drive)

\* Nor a program with two operations at once, one cut off, or a transfer left behind.
ProfilesEnd == ~abandoned /\ ~atOnce /\ ~tornApart /\ profile.keys # NoKeys /\ engines <= 2

\* Of a document there are at most four operations; three saves are left to runs that
\* keep both of two, are not guarded and not stopped; the two devices edit each
\* a block of their own; one file is written on the drive, or has been used
\* just now; three changes of the branch are left to the mode that rebases,
\* and to a clone that was not cut off.
Bounded ==
  /\ Cardinality(UNION {ops[w] \union files[w] : w \in Writers}) <= 4
  /\ saves <= (IF direction = "two_way" /\ policy = "keep_both"
               /\ ~guarded /\ ~stopping THEN 3 ELSE 2)
  /\ unsaved \union fresh \subseteq {workNotes}
  /\ versions[s1][2] = 0 /\ versions[s2][1] = 0
  /\ EarlyWizardsEnd /\ LoginsEnd /\ ProfilesEnd
  /\ gitEdits <= (IF mode = "two_way" /\ ~cutOff THEN 3 ELSE 2)
=============================================================================
