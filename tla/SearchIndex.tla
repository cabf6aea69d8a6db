----------------------------- MODULE SearchIndex -----------------------------
(***************************************************************************)
(* The local search index: threads that walk the folder of one mapping, or *)
(* of all, one of them at a time and each in one transaction, while files, *)
(* mappings and the setting for contents change.  A file's version stands  *)
(* for its size and time; an entry has the version it was made of and, if  *)
(* contents are indexed, the version whose text it holds.  Not modelled:   *)
(* folders below a mapping's, and filters.                                 *)
(***************************************************************************)
EXTENDS Naturals, FiniteSets

CONSTANTS
  Indexed,        \* pairs of a mapping and a file it may hold
  MaxEntries,     \* max_entries_per_job
  Refreshers,     \* threads that refresh
  MaxFileChanges  \* bound: changes of files, folders, mappings and the setting

VARIABLES
  mappings,     \* config.jobs
  folders,      \* mappings whose folder is there
  disk,         \* the files
  indexContents, \* settings.search_content_indexing
  rows,         \* the entries, as committed
  signature,    \* last_full_signature
  refresher,    \* each thread: its request, where it is and its transaction
  fileChanges,
  settled,      \* ghost: files as they were when they were last indexed
  purged,       \* ghost: all was refreshed since contents were last switched
  left          \* ghost: what a walk that reached the limit did not come to

searchVars == <<mappings, folders, disk, indexContents, rows, signature, refresher,
                fileChanges, settled, purged, left>>

Walkable == {e[1] : e \in Indexed}
InMapping(m) == {e \in Indexed : e[1] = m}
NoVersion == 0
NoRow == [version |-> NoVersion, text |-> NoVersion]
NoRows == [e \in Indexed |-> NoRow]
Without(table, S) == [e \in Indexed |-> IF e \in S THEN NoRow ELSE table[e]]
NoMapping == {}

\* jobs: those to walk, and for all, those configured when it was asked for; the
\* last three are ghosts; since: contents were not switched since it began
NoRefresh == [at |-> "no", all |-> FALSE, jobs |-> {}, texts |-> FALSE, todo |-> {},
              walks |-> NoMapping, visit |-> {}, touched |-> {}, draft |-> NoRows,
              steady |-> {}, limited |-> {}, since |-> FALSE]
Asked(kind, jobs) == [NoRefresh EXCEPT !.at = "waits", !.all = (kind = "all"), !.jobs = jobs]
Signature == [jobs |-> mappings, texts |-> indexContents]

SearchInit ==
  /\ mappings = Walkable /\ folders = Walkable
  /\ disk = [e \in Indexed |-> 1] /\ indexContents = FALSE
  /\ rows = NoRows /\ signature = [jobs |-> {}, texts |-> FALSE]
  /\ refresher = [t \in Refreshers |-> NoRefresh]
  /\ fileChanges = 0 /\ settled = {} /\ purged = FALSE /\ left = {}

-----------------------------------------------------------------------------
(* What changes around it *)

Altered(S) ==
  /\ fileChanges < MaxFileChanges /\ fileChanges' = fileChanges + 1
  /\ settled' = settled \ S

\* A walk that has begun no longer finds what it would have found.
Disturbs(S) ==
  refresher' = [t \in Refreshers |-> [refresher[t] EXCEPT !.steady = @ \ S]]

FileChanges(e) ==
  /\ Altered({e}) /\ Disturbs({e})
  /\ disk' = [disk EXCEPT ![e] = fileChanges' + 1]
  /\ UNCHANGED <<mappings, folders, indexContents, rows, signature, purged, left>>

FileGoes(e) ==
  /\ disk[e] # NoVersion /\ Altered({e}) /\ Disturbs({e})
  /\ disk' = [disk EXCEPT ![e] = NoVersion]
  /\ UNCHANGED <<mappings, folders, indexContents, rows, signature, purged, left>>

\* Taken away with what is in it, or back again.
FolderChanges(m) ==
  /\ Altered(InMapping(m)) /\ Disturbs(InMapping(m))
  /\ folders' = IF m \in folders THEN folders \ {m} ELSE folders \union {m}
  /\ UNCHANGED <<mappings, disk, indexContents, rows, signature, purged, left>>

\* The configuration changes; nothing is refreshed for that.
MappingChanges(m) ==
  /\ Altered(InMapping(m))
  /\ mappings' = IF m \in mappings THEN mappings \ {m} ELSE mappings \union {m}
  /\ UNCHANGED <<folders, disk, indexContents, rows, signature, refresher, purged, left>>

-----------------------------------------------------------------------------
(* refresh_search_index: the list of mappings is taken when it is asked for *)

Ask(t, kind, jobs) ==
  refresher[t] = NoRefresh /\ refresher' = [refresher EXCEPT ![t] = Asked(kind, jobs)]

\* After a successful run, also of a mapping that is removed meanwhile.
RefreshMapping(t, m) ==
  /\ m \in mappings /\ Ask(t, "one", {m})
  /\ UNCHANGED <<mappings, folders, disk, indexContents, rows, signature, fileChanges,
                 settled, purged, left>>

RefreshAll(t) ==
  /\ Ask(t, "all", mappings)
  /\ UNCHANGED <<mappings, folders, disk, indexContents, rows, signature, fileChanges,
                 settled, purged, left>>

\* _content_index_toggled
ToggleContents(t) ==
  /\ Altered({}) /\ indexContents' = ~indexContents /\ purged' = FALSE
  /\ refresher[t] = NoRefresh
  /\ refresher' = [u \in Refreshers |-> IF u = t THEN Asked("all", mappings)
                                        ELSE [refresher[u] EXCEPT !.since = FALSE]]
  /\ UNCHANGED <<mappings, folders, disk, rows, signature, left>>

-----------------------------------------------------------------------------
(* refresh, refresh_job *)

Stands(t, at) == refresher[t].at = at
Turns(t, to) == refresher' = [refresher EXCEPT ![t] = to]
OnlyWalks ==
  UNCHANGED <<mappings, folders, disk, indexContents, rows, signature, fileChanges,
              settled, purged, left>>

\* Under the lock the setting is read.
TakeLock(t) ==
  /\ Stands(t, "waits") /\ \A u \in Refreshers : ~Stands(u, "walks")
  /\ Turns(t, [refresher[t] EXCEPT !.at = "walks", !.todo = refresher[t].jobs, !.draft = rows,
                                   !.texts = indexContents, !.since = TRUE])
  /\ OnlyWalks

\* A mapping without a folder has no entries; else the folder is listed.
BeginWalk(t) ==
  LET r == refresher[t] IN
  /\ Stands(t, "walks") /\ r.walks = NoMapping
  /\ \E m \in r.todo :
       Turns(t, IF m \notin folders
                THEN [r EXCEPT !.todo = @ \ {m}, !.draft = Without(@, InMapping(m)),
                               !.steady = @ \union InMapping(m)]
                ELSE [r EXCEPT !.todo = @ \ {m}, !.walks = {m}, !.touched = {},
                               !.visit = {e \in InMapping(m) : disk[e] # NoVersion},
                               !.steady = @ \union InMapping(m)])
  /\ OnlyWalks

\* (Mutant) A file that has not changed keeps its text.
RowKept(e, row, texts) ==
  [version |-> disk[e],
   text |-> IF row.version = disk[e] THEN row.text
            ELSE IF texts THEN disk[e] ELSE NoVersion]

\* A file that has not changed keeps the text it was indexed with, or without.
RowOf(e, row, texts) ==
  [version |-> disk[e],
   text |-> IF ~texts THEN NoVersion
            ELSE IF row.version = disk[e] THEN row.text ELSE disk[e]]

\* At the limit the walk ends, and removes nothing.
Visit(t, e) ==
  LET r == refresher[t]
      seen == [r EXCEPT !.visit = @ \ {e}, !.touched = @ \union {e},
                        !.draft[e] = RowOf(e, @, r.texts)]
      unseen == InMapping(e[1]) \ seen.touched
  IN /\ Stands(t, "walks") /\ e \in r.visit
     /\ Turns(t, IF disk[e] = NoVersion \/ e[1] \notin folders THEN [r EXCEPT !.visit = @ \ {e}]
                 ELSE IF Cardinality(seen.touched) < MaxEntries THEN seen
                 ELSE [seen EXCEPT !.walks = NoMapping, !.visit = {},
                                   !.steady = @ \ unseen, !.limited = @ \union unseen])
     /\ OnlyWalks

\* (Mutant) What was not found stays.
KeptUnfound(r) == r.draft

\* What was not found is removed.
Found(r) == Without(r.draft, (UNION {InMapping(m) : m \in r.walks}) \ r.touched)

EndWalk(t) ==
  LET r == refresher[t] IN
  /\ Stands(t, "walks") /\ r.walks # NoMapping /\ r.visit = {}
  /\ Turns(t, [r EXCEPT !.walks = NoMapping, !.draft = Found(r)])
  /\ OnlyWalks

\* A refresh of all removes what belongs to mappings it does not know.
CommitRefresh(t) ==
  LET r == refresher[t]
      strangers == IF r.all THEN {e \in Indexed : e[1] \notin r.jobs} ELSE {}
      scope == {e \in Indexed : r.all \/ e[1] \in r.jobs}
      right == {e \in scope : (e[1] \in r.jobs) = (e[1] \in mappings)}
  IN /\ Stands(t, "walks") /\ r.todo = {} /\ r.walks = NoMapping
     /\ rows' = Without(r.draft, strangers)
     /\ signature' = IF r.all THEN [jobs |-> r.jobs, texts |-> r.texts] ELSE signature
     /\ settled' = (settled \ (scope \ right))
                     \union (right \intersect (r.steady \union strangers))
     /\ purged' = (purged \/ (r.all /\ r.since))
     /\ left' = {e \in left \union r.limited : rows'[e] # NoRow}
                  \ ((UNION {InMapping(m) : m \in r.jobs}) \ r.limited)
     /\ Turns(t, NoRefresh)
     /\ UNCHANGED <<mappings, folders, disk, indexContents, fileChanges>>

\* The database is busy or full: the transaction is rolled back.
RefreshFails(t) ==
  /\ Stands(t, "walks") /\ Turns(t, NoRefresh) /\ OnlyWalks

\* startup_refresh_needed: another list or setting than that of the last complete
\* refresh, or one too long ago.
SearchRestart(t) ==
  /\ \E needed \in BOOLEAN :
       /\ signature # Signature => needed
       /\ refresher' = [u \in Refreshers |-> IF u = t /\ needed THEN Asked("all", mappings)
                                             ELSE NoRefresh]
  /\ OnlyWalks

SearchNext ==
  \/ \E e \in Indexed : FileChanges(e) \/ FileGoes(e)
  \/ \E m \in Walkable : FolderChanges(m) \/ MappingChanges(m)
  \/ \E t \in Refreshers :
       \/ \E m \in Walkable : RefreshMapping(t, m)
       \/ RefreshAll(t) \/ ToggleContents(t) \/ TakeLock(t) \/ BeginWalk(t)
       \/ \E e \in Indexed : Visit(t, e)
       \/ EndWalk(t) \/ CommitRefresh(t) \/ RefreshFails(t) \/ SearchRestart(t)

SearchSpec == SearchInit /\ [][SearchNext]_searchVars

-----------------------------------------------------------------------------
Versions == 0..(MaxFileChanges + 1)
RowType == [version : Versions, text : Versions]
SearchTypeOK ==
  /\ mappings \subseteq Walkable /\ folders \subseteq Walkable
  /\ disk \in [Indexed -> Versions] /\ {indexContents, purged} \subseteq BOOLEAN
  /\ rows \in [Indexed -> RowType]
  /\ \A t \in Refreshers :
       /\ refresher[t].at \in {"no", "waits", "walks"}
       /\ refresher[t].draft \in [Indexed -> RowType]
  /\ fileChanges \in 0..MaxFileChanges /\ settled \subseteq Indexed /\ left \subseteq Indexed

Expected(e) ==
  IF e[1] \in mappings /\ e[1] \in folders THEN disk[e] ELSE NoVersion

\* What did not change since it was indexed is found, and nothing else of it: no
\* file that is gone, no mapping that was removed, no text of an older version;
\* unless the refresh was asked for with a list that had or lacked its mapping
\* differently from the configuration.
IndexIsExact ==
  \A e \in settled : /\ rows[e].version = Expected(e)
                     /\ rows[e].text \in {NoVersion, rows[e].version}

\* When contents are switched off and all was refreshed since, no text is left in
\* the index, whatever refreshes were waiting; but for files beyond the limit.
TextsAreDropped ==
  ~indexContents /\ purged => \A e \in Indexed \ left : rows[e].text = NoVersion

SearchIsExact == IndexIsExact /\ TextsAreDropped
=============================================================================
