---------------------------- MODULE RecoveryIndex ----------------------------
(***************************************************************************)
(* The version history of one file: stored versions and the index that     *)
(* names them, written by two threads without a common lock, the change    *)
(* monitor (archive what is about to be replaced, prune, install) and the  *)
(* user's restore.  The engine lets only one monitor of a mapping transfer *)
(* at a time.  What the file holds is a number, a new one for each change; *)
(* 0 is no file.  Time is counted in days.  Not modelled: what rclone      *)
(* itself moves to its backup directory, which the index does not name.    *)
(***************************************************************************)
EXTENDS Naturals, FiniteSets

CONSTANTS
  Retention,    \* job.version_retention_days, not 0
  MaxDays,      \* bound: days
  MaxContents,  \* bound: versions made by users and received
  MaxArchives   \* bound: how often something is archived

ASSUME RecoveryAssumption == Retention \in Nat \ {0}

VARIABLES
  day,        \* the clock
  content,    \* the local file
  contents,   \* versions so far
  archives,   \* archived so far
  stored,     \* files under recovery/<job>, by version and day
  index,      \* index.jsonl
  monitor,    \* the monitor's thread: where it is, the entry it archived, what
              \* prune read and keeps
  restore,    \* the user's: where it is, the entry archived, what the dialog shows
  received,   \* ghost: entries of the versions that transfers have replaced
  reverted,   \* ghost: entries of the versions that restores have replaced
  dropped,    \* ghost: entries appended while prune held an older index
  outrun,     \* ghost: threads that archived a file which has changed since
  unarchived  \* ghost: versions replaced by a thread that had not archived them
              \* and was not outrun

replacements == <<received, reverted, unarchived>>
recoveryVars == <<day, content, contents, archives, stored, index, monitor, restore,
                  replacements, dropped, outrun>>

Entry(version) == [version |-> version, born |-> day]
Listed == index \intersect stored    \* entries: those whose file is there
Archived == IF content = 0 THEN {} ELSE {Entry(content)}

MonitorIdle == [at |-> "idle", line |-> {}, kept |-> {}]
RestoreIdle == [at |-> "idle", line |-> {}, shown |-> {}]

RecoveryInit ==
  /\ day = 0 /\ content = 1 /\ contents = 1 /\ archives = 0 /\ stored = {} /\ index = {}
  /\ monitor = MonitorIdle /\ restore = RestoreIdle
  /\ received = {} /\ reverted = {} /\ unarchived = {} /\ dropped = {} /\ outrun = {}

\* The threads that have archived what they are going to replace.
Replacing == {thread \in {"monitor", "restore"} :
              IF thread = "monitor" THEN monitor.at # "idle"
                                    ELSE restore.at \in {"append", "install"}}

DayPasses ==
  /\ day < MaxDays /\ day' = day + 1
  /\ UNCHANGED <<content, contents, archives, stored, index, monitor, restore,
                 replacements, dropped, outrun>>

UserSaves ==
  /\ contents < MaxContents /\ contents' = contents + 1 /\ content' = contents'
  /\ outrun' = Replacing
  /\ UNCHANGED <<day, archives, stored, index, monitor, restore, replacements, dropped>>

\* A thread replaces the file.  What it archived before is what it replaces only if
\* nobody wrote the file in between; neither install looks again.
Replace(name, line, value) ==
  /\ content' = value
  /\ outrun' = Replacing \ {name}
  /\ unarchived' =
       IF content = 0 \/ name \in outrun \/ \E entry \in line : entry.version = content
       THEN unarchived ELSE unarchived \union {content}
OfContent(line) == {entry \in line : entry.version = content}

-----------------------------------------------------------------------------
(* archive_incoming_changes and the transfer it precedes *)

\* archive_local: the copy first; a file that is not there has no version.
MonitorArchives ==
  /\ monitor.at = "idle" /\ archives < MaxArchives /\ archives' = archives + 1
  /\ stored' = stored \union Archived
  /\ monitor' = [monitor EXCEPT !.at = "append", !.line = Archived]
  /\ outrun' = outrun \ {"monitor"}
  /\ UNCHANGED <<day, content, contents, index, restore, replacements, dropped>>

MonitorAppends ==
  /\ monitor.at = "append" /\ index' = index \union monitor.line
  /\ monitor' = [monitor EXCEPT !.at = "prune"]
  /\ UNCHANGED <<day, content, contents, archives, stored, restore, replacements,
                 dropped, outrun>>

PruneReads ==
  /\ monitor.at = "prune"
  /\ monitor' = [monitor EXCEPT !.at = "unlink", !.kept = Listed]
  /\ UNCHANGED <<day, content, contents, archives, stored, index, restore,
                 replacements, dropped, outrun>>

\* (Mutant) The days a version is kept are counted one short.
OutdatedEarly(entry) == day - entry.born >= Retention

\* created < cutoff
Outdated(entry) == day - entry.born > Retention

\* Their files go first.
PruneUnlinks ==
  /\ monitor.at = "unlink"
  /\ stored' = stored \ {entry \in monitor.kept : Outdated(entry)}
  /\ monitor' = [monitor EXCEPT !.at = "rewrite",
                               !.kept = {entry \in @ : ~Outdated(entry)}]
  /\ UNCHANGED <<day, content, contents, archives, index, restore, replacements,
                 dropped, outrun>>

\* The index is replaced by what was read of it.
PruneRewrites ==
  /\ monitor.at = "rewrite"
  /\ index' = monitor.kept
  /\ dropped' = dropped \union (Listed \ monitor.kept)
  /\ monitor' = [monitor EXCEPT !.at = "install", !.kept = {}]
  /\ UNCHANGED <<day, content, contents, archives, stored, restore, replacements, outrun>>

\* The download is installed, or the deletion carried out.
MonitorInstalls ==
  /\ monitor.at = "install" /\ monitor' = MonitorIdle
  /\ \/ /\ contents < MaxContents /\ contents' = contents + 1
        /\ Replace("monitor", monitor.line, contents')
     \/ UNCHANGED contents /\ Replace("monitor", monitor.line, 0)
  /\ received' = received \union OfContent(monitor.line)
  /\ UNCHANGED <<day, archives, stored, index, restore, reverted, dropped>>

\* The transfer fails, or the program ends at any point before.
MonitorEndsEarly ==
  /\ monitor.at # "idle" /\ monitor' = MonitorIdle /\ outrun' = outrun \ {"monitor"}
  /\ UNCHANGED <<day, content, contents, archives, stored, index, restore,
                 replacements, dropped>>

-----------------------------------------------------------------------------
(* RecoveryHistoryDialog and restore *)

ShowHistory ==
  /\ restore.at = "idle" /\ restore' = [restore EXCEPT !.at = "shown", !.shown = Listed]
  /\ UNCHANGED <<day, content, contents, archives, stored, index, monitor,
                 replacements, dropped, outrun>>

\* Closed, or the list is old and the version chosen was pruned meanwhile.
HistoryCloses ==
  /\ restore.at = "shown" /\ restore' = RestoreIdle
  /\ UNCHANGED <<day, content, contents, archives, stored, index, monitor,
                 replacements, dropped, outrun>>

RestoreArchives(entry) ==
  /\ restore.at = "shown" /\ entry \in restore.shown \intersect stored
  /\ archives < MaxArchives /\ archives' = archives + 1
  /\ restore' = [at |-> "append", line |-> Archived, shown |-> {entry}]
  /\ stored' = stored \union Archived
  /\ outrun' = outrun \ {"restore"}
  /\ UNCHANGED <<day, content, contents, index, monitor, replacements, dropped>>

RestoreAppends ==
  /\ restore.at = "append" /\ index' = index \union restore.line
  /\ restore' = [restore EXCEPT !.at = "install"]
  /\ UNCHANGED <<day, content, contents, archives, stored, monitor, replacements,
                 dropped, outrun>>

RestoreInstalls ==
  /\ restore.at = "install" /\ restore' = RestoreIdle
  /\ \E entry \in restore.shown \intersect stored :
       Replace("restore", restore.line, entry.version)
  /\ reverted' = reverted \union OfContent(restore.line)
  /\ UNCHANGED <<day, contents, archives, stored, index, monitor, received, dropped>>

\* It was pruned after it was found to be there, or cannot be written.
RestoreFails ==
  /\ restore.at = "install" /\ restore' = RestoreIdle
  /\ outrun' = outrun \ {"restore"}
  /\ UNCHANGED <<day, content, contents, archives, stored, index, monitor,
                 replacements, dropped>>

RecoveryNext ==
  \/ DayPasses \/ UserSaves
  \/ MonitorArchives \/ MonitorAppends \/ PruneReads \/ PruneUnlinks \/ PruneRewrites
  \/ MonitorInstalls \/ MonitorEndsEarly
  \/ ShowHistory \/ HistoryCloses \/ RestoreAppends \/ RestoreInstalls \/ RestoreFails
  \/ \E entry \in stored : RestoreArchives(entry)

RecoverySpec == RecoveryInit /\ [][RecoveryNext]_recoveryVars

-----------------------------------------------------------------------------
EntryType == [version : 1..MaxContents, born : 0..MaxDays]

RecoveryTypeOK ==
  /\ day \in 0..MaxDays /\ content \in 0..MaxContents /\ contents \in 1..MaxContents
  /\ archives \in 0..MaxArchives
  /\ stored \subseteq EntryType /\ index \subseteq EntryType
  /\ received \subseteq EntryType /\ reverted \subseteq EntryType /\ dropped \subseteq EntryType
  /\ outrun \subseteq Replacing /\ unarchived \subseteq 1..MaxContents
  /\ monitor \in [at : {"idle", "append", "prune", "unlink", "rewrite", "install"},
                  line : SUBSET EntryType, kept : SUBSET EntryType]
  /\ restore \in [at : {"idle", "shown", "append", "install"},
                  line : SUBSET EntryType, shown : SUBSET EntryType]

\* In whatever order the monitor and the user archive, prune, list and install,
\* and as long as the retention lasts: a version that a transfer archived and
\* replaced has its file and its line, and can be restored.  One that a restore
\* archived and replaced has its file; its line is there, too, unless it was
\* appended while a prune held the index it had read ("dropped"), and then the
\* code offers the version no more.  Nothing else is replaced but what came to
\* the file between a thread's archiving and its install ("outrun"); such a
\* version is overwritten, and nothing is claimed of it.
ReplacedHasVersion ==
  /\ \A entry \in received : day - entry.born <= Retention => entry \in stored \intersect index
  /\ \A entry \in reverted : day - entry.born <= Retention =>
       entry \in stored /\ (entry \in index \/ entry \in dropped)
  /\ unarchived = {}
=============================================================================
