---------------------------- MODULE FullRunProofs ----------------------------
(***************************************************************************)
(* For any mappings and any limits of renaming and waiting: what a full    *)
(* run may delete was previewed or is a resync with a reason, and what it  *)
(* reports as a success passed the checks that the code makes.             *)
(***************************************************************************)
EXTENDS FullRun, TLAPS

\* Nothing is reported before the run has ended.
Unended == result # Unreported => Ended

\* Why an attempt may run with --resync: only a mapping that was synchronized
\* both ways is found without its listings, and only after a run that was to
\* change something is an object renamed.
Reasons ==
  /\ reinit => TwoWay /\ run.initialized /\ ~run.dry
  /\ force => TwoWay /\ ~run.dry /\ "renamed" \in effects
  /\ pc = "previewing" => run.initialized /\ ~run.dry
  /\ pc = "spawned" => resync = (TwoWay /\ (~run.initialized \/ reinit \/ force))

\* Whoever gets as far as launching needs no preview or has passed it.
Looked ==
  pc \in {"launching", "spawned"} /\ run.protected /\ run.initialized /\ ~run.dry =>
    previewed \/ reinit

\* A two-way process that ended well has left its listings.
Listed ==
  /\ pc = "exited" /\ rc = "ok" /\ TwoWay /\ ~run.dry => baselines
  /\ GreenIsVerified

\* As long as output is read the limit has not been reached.
Patient == pc \in {"spawned", "running"} => staleLines < StaleLimit

IInv == TypeOK /\ Patient /\ Unended /\ Reasons /\ Looked /\ Listed

-----------------------------------------------------------------------------
LEMMA InitIInv == Init => IInv
<1> SUFFICES ASSUME Init PROVE IInv
  OBVIOUS
<1> USE RunAssumption DEF Init, Unreported, Outcome
<1>1. TypeOK
  <2>1. 0 \in 0..MaxDuplicates /\ 0 \in 0..1 /\ 0 \in 0..StaleLimit
    OBVIOUS
  <2>2. baselines \in BOOLEAN /\ today \in BOOLEAN
    OBVIOUS
  <2>3. result \in [kind : {"none", "success", "failed", "cancelled"},
                   flags : SUBSET {"lease", "massChange", "resync",
                                   "verification", "integrity"}]
    OBVIOUS
  <2> QED
    BY <2>1, <2>2, <2>3 DEF TypeOK
<1>2. Patient /\ Unended /\ Reasons /\ Looked /\ Listed
  BY DEF Patient, Unended, Reasons, Looked, Listed, GreenIsVerified, Ended
<1> QED
  BY <1>1, <1>2 DEF IInv

LEMMA NextType == TypeOK /\ Patient /\ [Next]_vars => TypeOK'
<1> SUFFICES ASSUME TypeOK, Patient, [Next]_vars PROVE TypeOK'
  OBVIOUS
<1> USE RunAssumption DEF TypeOK, Markers, Go, attempt, command, outside, process
<1>1. CASE InspectState
  BY <1>1 DEF InspectState
<1>2. CASE CannotStart
  BY <1>2 DEF CannotStart, Result, Outcome
<1>3. CASE LeasesForbid
  BY <1>3 DEF LeasesForbid, Result, Outcome
<1>4. CASE LeasesAllow
  BY <1>4 DEF LeasesAllow
<1>5. CASE SkipPreview
  BY <1>5 DEF SkipPreview, NeedsPreview
<1>6. CASE StartPreview
  BY <1>6 DEF StartPreview, NeedsPreview
<1>7. CASE PreviewPasses
  BY <1>7 DEF PreviewPasses
<1>8. CASE PreviewFindsNoState
  BY <1>8 DEF PreviewFindsNoState
<1>9. CASE PreviewForbids
  BY <1>9 DEF PreviewForbids, Result, Outcome
<1>10. CASE PreviewTimesOut
  BY <1>10 DEF PreviewTimesOut
<1>11. CASE Launch
  BY <1>11 DEF Launch
<1>12. CASE Track
  BY <1>12 DEF Track
<1>13. ASSUME NEW code \in {"ok", "error", "sigterm"}, ProcessExits(code)
      PROVE  TypeOK'
  BY <1>13 DEF ProcessExits
<1>14. CASE Complete
  BY <1>14 DEF Complete, Judge, Duplicated, MustVerify, Pruned, Result, Outcome
<1>15. CASE ListingsDiffer
  BY <1>15 DEF ListingsDiffer, Judge, Duplicated, MustVerify, Pruned, Result, Outcome
<1>16. CASE DuplicateRemains
  BY <1>16 DEF DuplicateRemains, Judge, Duplicated, MustVerify, Pruned, Result, Outcome
<1>17. CASE RenameAndRepeat
  <2>1. duplicates' \in 0..MaxDuplicates /\ refreshes' \in 0..1
    BY <1>17 DEF RenameAndRepeat
  <2>2. effects' \subseteq {"cleared", "renamed", "pruned"}
    BY <1>17 DEF RenameAndRepeat, Pruned
  <2> QED
    BY <1>17, <2>1, <2>2 DEF RenameAndRepeat
<1>18. CASE Cancelled
  BY <1>18 DEF Cancelled, Result, Outcome
<1>19. CASE RefreshAndRepeat
  <2>1. refreshes' \in 0..1
    BY <1>19 DEF RefreshAndRepeat, MayRefresh
  <2> QED
    BY <1>19, <2>1, ZenonT(30) DEF RefreshAndRepeat
<1>20. CASE Fail
  BY <1>20 DEF Fail, Failing, MayRefresh, Result, Outcome
<1>21. CASE Report
  BY <1>21 DEF Report
<1>22. ASSUME NEW marker \in Markers, PrintMarker(marker)
      PROVE  TypeOK'
  BY <1>22 DEF PrintMarker
<1>23. CASE PrintStale
  <2>1. staleLines' \in 0..StaleLimit
    BY <1>23 DEF PrintStale, Patient
  <2>2. log' \subseteq Markers /\ stopped' \subseteq {"user", "stale", "noProgress"}
    BY <1>23 DEF PrintStale
  <2>3. pc' \in {"running", "stopping"}
    BY <1>23 DEF PrintStale
  <2> QED
    BY <1>23, <2>1, <2>2, <2>3 DEF PrintStale
<1>24. CASE NoProgress
  BY <1>24 DEF NoProgress
<1>25. CASE UserStops
  BY <1>25 DEF UserStops
<1>26. CASE LogGrows
  BY <1>26 DEF LogGrows
<1>27. CASE UNCHANGED vars
  BY <1>27 DEF vars
<1> QED
  BY <1>1, <1>2, <1>3, <1>4, <1>5, <1>6, <1>7, <1>8, <1>9, <1>10, <1>11,
     <1>12, <1>13, <1>14, <1>15, <1>16, <1>17, <1>18, <1>19, <1>20, <1>21,
     <1>22, <1>23, <1>24, <1>25, <1>26, <1>27 DEF Next, Step

LEMMA NextUnended == Unended /\ [Next]_vars => Unended'
<1> SUFFICES ASSUME Unended, [Next]_vars PROVE Unended'
  OBVIOUS
<1> USE DEF Unended, Unreported, Ended, Go, attempt, command, outside, process
<1>1. CASE InspectState
  BY <1>1 DEF InspectState
<1>2. CASE CannotStart
  BY <1>2 DEF CannotStart, Result, Outcome
<1>3. CASE LeasesForbid
  BY <1>3 DEF LeasesForbid, Result, Outcome
<1>4. CASE LeasesAllow
  BY <1>4 DEF LeasesAllow
<1>5. CASE SkipPreview
  BY <1>5 DEF SkipPreview, NeedsPreview
<1>6. CASE StartPreview
  BY <1>6 DEF StartPreview, NeedsPreview
<1>7. CASE PreviewPasses
  BY <1>7 DEF PreviewPasses
<1>8. CASE PreviewFindsNoState
  BY <1>8 DEF PreviewFindsNoState
<1>9. CASE PreviewForbids
  BY <1>9 DEF PreviewForbids, Result, Outcome
<1>10. CASE PreviewTimesOut
  BY <1>10 DEF PreviewTimesOut
<1>11. CASE Launch
  BY <1>11 DEF Launch
<1>12. CASE Track
  BY <1>12 DEF Track
<1>13. ASSUME NEW code \in {"ok", "error", "sigterm"}, ProcessExits(code)
      PROVE  Unended'
  BY <1>13 DEF ProcessExits
<1>14. CASE Complete
  BY <1>14 DEF Complete, Judge, Duplicated, MustVerify, Pruned, Result, Outcome
<1>15. CASE ListingsDiffer
  BY <1>15 DEF ListingsDiffer, Judge, Duplicated, MustVerify, Pruned, Result, Outcome
<1>16. CASE DuplicateRemains
  BY <1>16 DEF DuplicateRemains, Judge, Duplicated, MustVerify, Pruned, Result, Outcome
<1>17. CASE RenameAndRepeat
  BY <1>17 DEF RenameAndRepeat, Judge, Duplicated, MustVerify, Pruned
<1>18. CASE Cancelled
  BY <1>18 DEF Cancelled, Result, Outcome
<1>19. CASE RefreshAndRepeat
  BY <1>19 DEF RefreshAndRepeat, Failing, MayRefresh
<1>20. CASE Fail
  BY <1>20 DEF Fail, Failing, MayRefresh, Result, Outcome
<1>21. CASE Report
  BY <1>21 DEF Report
<1>22. ASSUME NEW marker \in Markers, PrintMarker(marker)
      PROVE  Unended'
  BY <1>22 DEF PrintMarker
<1>23. CASE PrintStale
  BY <1>23 DEF PrintStale
<1>24. CASE NoProgress
  BY <1>24 DEF NoProgress
<1>25. CASE UserStops
  BY <1>25 DEF UserStops
<1>26. CASE LogGrows
  BY <1>26 DEF LogGrows
<1>27. CASE UNCHANGED vars
  BY <1>27 DEF vars
<1> QED
  BY <1>1, <1>2, <1>3, <1>4, <1>5, <1>6, <1>7, <1>8, <1>9, <1>10, <1>11,
     <1>12, <1>13, <1>14, <1>15, <1>16, <1>17, <1>18, <1>19, <1>20, <1>21,
     <1>22, <1>23, <1>24, <1>25, <1>26, <1>27 DEF Next, Step

LEMMA NextReasons == Reasons /\ [Next]_vars => Reasons'
<1> SUFFICES ASSUME Reasons, [Next]_vars PROVE Reasons'
  OBVIOUS
<1> USE DEF Reasons, TwoWay, Go, attempt, command, outside, process
<1>1. CASE InspectState
  BY <1>1 DEF InspectState
<1>2. CASE CannotStart
  BY <1>2 DEF CannotStart, Result, Outcome
<1>3. CASE LeasesForbid
  BY <1>3 DEF LeasesForbid, Result, Outcome
<1>4. CASE LeasesAllow
  BY <1>4 DEF LeasesAllow
<1>5. CASE SkipPreview
  BY <1>5 DEF SkipPreview, NeedsPreview
<1>6. CASE StartPreview
  BY <1>6 DEF StartPreview, NeedsPreview
<1>7. CASE PreviewPasses
  BY <1>7 DEF PreviewPasses
<1>8. CASE PreviewFindsNoState
  BY <1>8 DEF PreviewFindsNoState
<1>9. CASE PreviewForbids
  BY <1>9 DEF PreviewForbids, Result, Outcome
<1>10. CASE PreviewTimesOut
  BY <1>10 DEF PreviewTimesOut
<1>11. CASE Launch
  BY <1>11 DEF Launch
<1>12. CASE Track
  BY <1>12 DEF Track
<1>13. ASSUME NEW code \in {"ok", "error", "sigterm"}, ProcessExits(code)
      PROVE  Reasons'
  BY <1>13 DEF ProcessExits
<1>14. CASE Complete
  BY <1>14 DEF Complete, Judge, Duplicated, MustVerify, Pruned, Result, Outcome
<1>15. CASE ListingsDiffer
  BY <1>15 DEF ListingsDiffer, Judge, Duplicated, MustVerify, Pruned, Result, Outcome
<1>16. CASE DuplicateRemains
  BY <1>16 DEF DuplicateRemains, Judge, Duplicated, MustVerify, Pruned, Result, Outcome
<1>17. CASE RenameAndRepeat
  BY <1>17 DEF RenameAndRepeat, Judge, Duplicated, MustVerify, Pruned
<1>18. CASE Cancelled
  BY <1>18 DEF Cancelled, Result, Outcome
<1>19. CASE RefreshAndRepeat
  BY <1>19 DEF RefreshAndRepeat, Failing, MayRefresh
<1>20. CASE Fail
  BY <1>20 DEF Fail, Failing, MayRefresh, Result, Outcome
<1>21. CASE Report
  BY <1>21 DEF Report
<1>22. ASSUME NEW marker \in Markers, PrintMarker(marker)
      PROVE  Reasons'
  BY <1>22 DEF PrintMarker
<1>23. CASE PrintStale
  BY <1>23 DEF PrintStale
<1>24. CASE NoProgress
  BY <1>24 DEF NoProgress
<1>25. CASE UserStops
  BY <1>25 DEF UserStops
<1>26. CASE LogGrows
  BY <1>26 DEF LogGrows
<1>27. CASE UNCHANGED vars
  BY <1>27 DEF vars
<1> QED
  BY <1>1, <1>2, <1>3, <1>4, <1>5, <1>6, <1>7, <1>8, <1>9, <1>10, <1>11,
     <1>12, <1>13, <1>14, <1>15, <1>16, <1>17, <1>18, <1>19, <1>20, <1>21,
     <1>22, <1>23, <1>24, <1>25, <1>26, <1>27 DEF Next, Step

LEMMA NextPatient == TypeOK /\ Patient /\ [Next]_vars => Patient'
<1> SUFFICES ASSUME TypeOK, Patient, [Next]_vars PROVE Patient'
  OBVIOUS
<1> USE RunAssumption DEF TypeOK, Patient, Go, attempt, command, outside, process
<1>1. CASE InspectState
  BY <1>1 DEF InspectState
<1>2. CASE CannotStart
  BY <1>2 DEF CannotStart, Result, Outcome
<1>3. CASE LeasesForbid
  BY <1>3 DEF LeasesForbid, Result, Outcome
<1>4. CASE LeasesAllow
  BY <1>4 DEF LeasesAllow
<1>5. CASE SkipPreview
  BY <1>5 DEF SkipPreview, NeedsPreview
<1>6. CASE StartPreview
  BY <1>6 DEF StartPreview, NeedsPreview
<1>7. CASE PreviewPasses
  BY <1>7 DEF PreviewPasses
<1>8. CASE PreviewFindsNoState
  BY <1>8 DEF PreviewFindsNoState
<1>9. CASE PreviewForbids
  BY <1>9 DEF PreviewForbids, Result, Outcome
<1>10. CASE PreviewTimesOut
  BY <1>10 DEF PreviewTimesOut
<1>11. CASE Launch
  BY <1>11 DEF Launch
<1>12. CASE Track
  BY <1>12 DEF Track
<1>13. ASSUME NEW code \in {"ok", "error", "sigterm"}, ProcessExits(code)
      PROVE  Patient'
  BY <1>13 DEF ProcessExits
<1>14. CASE Complete
  BY <1>14 DEF Complete, Judge, Duplicated, MustVerify, Pruned, Result, Outcome
<1>15. CASE ListingsDiffer
  BY <1>15 DEF ListingsDiffer, Judge, Duplicated, MustVerify, Pruned, Result, Outcome
<1>16. CASE DuplicateRemains
  BY <1>16 DEF DuplicateRemains, Judge, Duplicated, MustVerify, Pruned, Result, Outcome
<1>17. CASE RenameAndRepeat
  BY <1>17 DEF RenameAndRepeat, Judge, Duplicated, MustVerify, Pruned
<1>18. CASE Cancelled
  BY <1>18 DEF Cancelled, Result, Outcome
<1>19. CASE RefreshAndRepeat
  BY <1>19 DEF RefreshAndRepeat, Failing, MayRefresh
<1>20. CASE Fail
  BY <1>20 DEF Fail, Failing, MayRefresh, Result, Outcome
<1>21. CASE Report
  BY <1>21 DEF Report
<1>22. ASSUME NEW marker \in Markers, PrintMarker(marker)
      PROVE  Patient'
  BY <1>22 DEF PrintMarker
<1>23. CASE PrintStale
  BY <1>23 DEF PrintStale
<1>24. CASE NoProgress
  BY <1>24 DEF NoProgress
<1>25. CASE UserStops
  BY <1>25 DEF UserStops
<1>26. CASE LogGrows
  BY <1>26 DEF LogGrows
<1>27. CASE UNCHANGED vars
  BY <1>27 DEF vars
<1> QED
  BY <1>1, <1>2, <1>3, <1>4, <1>5, <1>6, <1>7, <1>8, <1>9, <1>10, <1>11,
     <1>12, <1>13, <1>14, <1>15, <1>16, <1>17, <1>18, <1>19, <1>20, <1>21,
     <1>22, <1>23, <1>24, <1>25, <1>26, <1>27 DEF Next, Step

LEMMA NextLooked == Looked /\ [Next]_vars => Looked'
<1> SUFFICES ASSUME Looked, [Next]_vars PROVE Looked'
  OBVIOUS
<1> USE DEF Looked, Go, attempt, command, outside, process
<1>1. CASE InspectState
  BY <1>1 DEF InspectState
<1>2. CASE CannotStart
  BY <1>2 DEF CannotStart, Result, Outcome
<1>3. CASE LeasesForbid
  BY <1>3 DEF LeasesForbid, Result, Outcome
<1>4. CASE LeasesAllow
  BY <1>4 DEF LeasesAllow
<1>5. CASE SkipPreview
  BY <1>5 DEF SkipPreview, NeedsPreview
<1>6. CASE StartPreview
  BY <1>6 DEF StartPreview, NeedsPreview
<1>7. CASE PreviewPasses
  BY <1>7 DEF PreviewPasses
<1>8. CASE PreviewFindsNoState
  BY <1>8 DEF PreviewFindsNoState
<1>9. CASE PreviewForbids
  BY <1>9 DEF PreviewForbids, Result, Outcome
<1>10. CASE PreviewTimesOut
  BY <1>10 DEF PreviewTimesOut
<1>11. CASE Launch
  BY <1>11 DEF Launch
<1>12. CASE Track
  BY <1>12 DEF Track
<1>13. ASSUME NEW code \in {"ok", "error", "sigterm"}, ProcessExits(code)
      PROVE  Looked'
  BY <1>13 DEF ProcessExits
<1>14. CASE Complete
  BY <1>14 DEF Complete, Judge, Duplicated, MustVerify, Pruned, Result, Outcome
<1>15. CASE ListingsDiffer
  BY <1>15 DEF ListingsDiffer, Judge, Duplicated, MustVerify, Pruned, Result, Outcome
<1>16. CASE DuplicateRemains
  BY <1>16 DEF DuplicateRemains, Judge, Duplicated, MustVerify, Pruned, Result, Outcome
<1>17. CASE RenameAndRepeat
  BY <1>17 DEF RenameAndRepeat, Judge, Duplicated, MustVerify, Pruned
<1>18. CASE Cancelled
  BY <1>18 DEF Cancelled, Result, Outcome
<1>19. CASE RefreshAndRepeat
  BY <1>19 DEF RefreshAndRepeat, Failing, MayRefresh
<1>20. CASE Fail
  BY <1>20 DEF Fail, Failing, MayRefresh, Result, Outcome
<1>21. CASE Report
  BY <1>21 DEF Report
<1>22. ASSUME NEW marker \in Markers, PrintMarker(marker)
      PROVE  Looked'
  BY <1>22 DEF PrintMarker
<1>23. CASE PrintStale
  BY <1>23 DEF PrintStale
<1>24. CASE NoProgress
  BY <1>24 DEF NoProgress
<1>25. CASE UserStops
  BY <1>25 DEF UserStops
<1>26. CASE LogGrows
  BY <1>26 DEF LogGrows
<1>27. CASE UNCHANGED vars
  BY <1>27 DEF vars
<1> QED
  BY <1>1, <1>2, <1>3, <1>4, <1>5, <1>6, <1>7, <1>8, <1>9, <1>10, <1>11,
     <1>12, <1>13, <1>14, <1>15, <1>16, <1>17, <1>18, <1>19, <1>20, <1>21,
     <1>22, <1>23, <1>24, <1>25, <1>26, <1>27 DEF Next, Step

LEMMA NextListed == Unended /\ Listed /\ [Next]_vars => Listed'
<1> SUFFICES ASSUME Unended, Listed, [Next]_vars PROVE Listed'
  OBVIOUS
<1> USE DEF Listed, GreenIsVerified, TwoWay, Ended, Unended, Unreported, Go, attempt, command, outside, process
<1>1. CASE InspectState
  BY <1>1 DEF InspectState
<1>2. CASE CannotStart
  BY <1>2 DEF CannotStart, Result, Outcome
<1>3. CASE LeasesForbid
  BY <1>3 DEF LeasesForbid, Result, Outcome
<1>4. CASE LeasesAllow
  BY <1>4 DEF LeasesAllow
<1>5. CASE SkipPreview
  BY <1>5 DEF SkipPreview, NeedsPreview
<1>6. CASE StartPreview
  BY <1>6 DEF StartPreview, NeedsPreview
<1>7. CASE PreviewPasses
  BY <1>7 DEF PreviewPasses
<1>8. CASE PreviewFindsNoState
  BY <1>8 DEF PreviewFindsNoState
<1>9. CASE PreviewForbids
  BY <1>9 DEF PreviewForbids, Result, Outcome
<1>10. CASE PreviewTimesOut
  BY <1>10 DEF PreviewTimesOut, Outcome
<1>11. CASE Launch
  BY <1>11 DEF Launch
<1>12. CASE Track
  BY <1>12 DEF Track
<1>13. ASSUME NEW code \in {"ok", "error", "sigterm"}, ProcessExits(code)
      PROVE  Listed'
  BY <1>13 DEF ProcessExits
<1>14. CASE Complete
  BY <1>14 DEF Complete, Judge, Duplicated, MustVerify, Pruned, Result, Outcome
<1>15. CASE ListingsDiffer
  BY <1>15 DEF ListingsDiffer, Judge, Duplicated, MustVerify, Pruned, Result, Outcome
<1>16. CASE DuplicateRemains
  BY <1>16 DEF DuplicateRemains, Judge, Duplicated, MustVerify, Pruned, Result, Outcome
<1>17. CASE RenameAndRepeat
  BY <1>17 DEF RenameAndRepeat, Judge, Duplicated, MustVerify, Pruned
<1>18. CASE Cancelled
  BY <1>18 DEF Cancelled, Result, Outcome
<1>19. CASE RefreshAndRepeat
  BY <1>19 DEF RefreshAndRepeat, Failing, MayRefresh
<1>20. CASE Fail
  BY <1>20 DEF Fail, Failing, MayRefresh, Result, Outcome
<1>21. CASE Report
  BY <1>21 DEF Report
<1>22. ASSUME NEW marker \in Markers, PrintMarker(marker)
      PROVE  Listed'
  BY <1>22 DEF PrintMarker
<1>23. CASE PrintStale
  BY <1>23 DEF PrintStale
<1>24. CASE NoProgress
  BY <1>24 DEF NoProgress
<1>25. CASE UserStops
  BY <1>25 DEF UserStops
<1>26. CASE LogGrows
  BY <1>26 DEF LogGrows
<1>27. CASE UNCHANGED vars
  BY <1>27 DEF vars
<1> QED
  BY <1>1, <1>2, <1>3, <1>4, <1>5, <1>6, <1>7, <1>8, <1>9, <1>10, <1>11,
     <1>12, <1>13, <1>14, <1>15, <1>16, <1>17, <1>18, <1>19, <1>20, <1>21,
     <1>22, <1>23, <1>24, <1>25, <1>26, <1>27 DEF Next, Step

LEMMA Invariant == Spec => []IInv
<1>1. IInv /\ [Next]_vars => IInv'
  BY NextType, NextPatient, NextUnended, NextReasons, NextLooked, NextListed DEF IInv
<1> QED
  BY <1>1, InitIInv, PTL DEF Spec

\* The types of FullRun.
THEOREM TypeCorrect == Spec => []TypeOK
<1>1. IInv => TypeOK
  BY DEF IInv
<1> QED
  BY <1>1, Invariant, PTL

\* No attempt of a protected mapping that was synchronized before can delete without
\* a preview, unless it is a --resync, which deletes nothing (engine.py,
\* _run_worker).
THEOREM DeletesAreGuarded == Spec => []NoUnguardedDeletes
<1>1. IInv => NoUnguardedDeletes
  BY DEF IInv, Reasons, Looked, NoUnguardedDeletes
<1> QED
  BY <1>1, Invariant, PTL

\* A mapping that was synchronized before is run with --resync only if its listings
\* were missing or an object was renamed, and never to look only.
THEOREM ResyncIsJustified == Spec => []ResyncHasReason
<1>1. IInv => ResyncHasReason
  BY DEF IInv, Reasons, ResyncHasReason
<1> QED
  BY <1>1, Invariant, PTL

\* A two-way run that reports success ended with an attempt that exited well, named no
\* duplicate in the first 4 MiB of its output, and left a pair of listings as the next
\* baseline, which does not show the sides to differ.  It is not claimed that the
\* listings could be compared, nor that no duplicate was named later (engine.py,
\* _successful_run_log_issue, _post_sync_listing_issue).
THEOREM GreenIsJustified == Spec => []GreenIsVerified
<1>1. IInv => GreenIsVerified
  BY DEF IInv, Listed
<1> QED
  BY <1>1, Invariant, PTL

-----------------------------------------------------------------------------
(* The engine's bookkeeping sees a worker *)

\* Only a mapping that is synchronized both ways renames, only a backup refreshes, so
\* that no rename sets back a count of refreshes; and whoever finishes has a result.
Repeated ==
  /\ duplicates > 0 => TwoWay
  /\ refreshes > 0 => run.mode = "upload_only"
  /\ pc = "finished" => result # Unreported

LEMMA InitRepeated == Init => Repeated
BY DEF Init, Repeated

LEMMA NextRepeated == Repeated /\ TypeOK /\ [Next]_vars => Repeated'
<1> SUFFICES ASSUME Repeated, TypeOK, [Next]_vars PROVE Repeated'
  OBVIOUS
<1> USE RunAssumption DEF Repeated, TypeOK, TwoWay, Go, attempt, command, outside, process
<1>1. CASE InspectState \/ LeasesAllow \/ SkipPreview \/ StartPreview
  BY <1>1 DEF InspectState, LeasesAllow, SkipPreview, StartPreview
<1>2. CASE PreviewPasses \/ PreviewFindsNoState \/ PreviewTimesOut \/ Launch \/ Track
  BY <1>2 DEF PreviewPasses, PreviewFindsNoState, PreviewTimesOut, Launch, Track
<1>3. CASE CannotStart \/ LeasesForbid \/ PreviewForbids
  BY <1>3 DEF CannotStart, LeasesForbid, PreviewForbids, Result, Outcome, Unreported
<1>4. ASSUME NEW code \in {"ok", "error", "sigterm"}, ProcessExits(code)
      PROVE  Repeated'
  BY <1>4 DEF ProcessExits
<1>5. CASE Complete \/ ListingsDiffer \/ DuplicateRemains
  BY <1>5 DEF Complete, ListingsDiffer, DuplicateRemains, Result, Outcome, Unreported
<1>6. CASE Cancelled \/ Fail
  BY <1>6 DEF Cancelled, Fail, Result, Outcome, Unreported
<1>7. CASE RenameAndRepeat
  BY <1>7 DEF RenameAndRepeat, Duplicated, MustVerify
<1>8. CASE RefreshAndRepeat
  BY <1>8 DEF RefreshAndRepeat, MayRefresh
<1>9. CASE Report
  BY <1>9 DEF Report
<1>10. ASSUME NEW marker \in Markers, PrintMarker(marker)
       PROVE  Repeated'
  BY <1>10 DEF PrintMarker
<1>11. CASE PrintStale \/ LogGrows \/ NoProgress \/ UserStops
  BY <1>11 DEF PrintStale, LogGrows, NoProgress, UserStops
<1>12. CASE UNCHANGED vars
  BY <1>12 DEF vars
<1> QED
  BY <1>1, <1>2, <1>3, <1>4, <1>5, <1>6, <1>7, <1>8, <1>9, <1>10, <1>11, <1>12
  DEF Next, Step

\* What the engine sees of a run besides its phase.
Told == pc = "unwinding" /\ result # Unreported
Seen == <<Entry, Repeats, Told>>

LEMMA PhaseGoes ==
  ASSUME NEW from, NEW to, Phase = from, Phase' = to
  PROVE  Engine!GoWorker("run", from, to)
BY DEF Engine!GoWorker

LEMMA EntrySet ==
  ASSUME NEW entry, Entry' = entry
  PROVE  [j \in {"job"} |-> Entry]' = [[j \in {"job"} |-> Entry] EXCEPT !["job"] = entry]
OBVIOUS

LEMMA NothingSeen ==
  ASSUME Phase' = Phase, UNCHANGED Seen
  PROVE  UNCHANGED Engine!vars
BY DEF Seen, Told, Engine!vars, Engine!tables, Engine!history

LEMMA StepFollows ==
  ASSUME IInv, Repeated, [Next]_vars
  PROVE  [Engine!WorkerStep("run")]_Engine!vars
<1> USE DEF Phase, Entry, Repeats, Told, Seen, Go, attempt, command, outside, process,
            Engine!WorkerStep, Engine!tables, Engine!history
<1>0. result # Unreported => pc \in {"finished", "unwinding"}
  BY DEF IInv, Unended, Ended
\* Looking at the state and the leases, output and signals.
<1>1. CASE InspectState \/ LeasesAllow \/ NoProgress \/ UserStops \/ PrintStale
             \/ LogGrows
  <2>1. Phase' = Phase /\ UNCHANGED Seen
    BY <1>1 DEF InspectState, LeasesAllow, NoProgress, UserStops, PrintStale, LogGrows
  <2> QED
    BY <2>1, NothingSeen
<1>2. ASSUME NEW marker \in Markers, PrintMarker(marker)
      PROVE  UNCHANGED Engine!vars
  <2>1. Phase' = Phase /\ UNCHANGED Seen
    BY <1>2 DEF PrintMarker
  <2> QED
    BY <2>1, NothingSeen
<1>3. CASE SkipPreview
  <2>1. Engine!GoWorker("run", "preparing", "launching") /\ UNCHANGED Seen
    BY <1>3, PhaseGoes DEF SkipPreview
  <2> QED
    BY <2>1 DEF Engine!SkipPreview
<1>4. CASE StartPreview
  <2>1. Engine!GoWorker("run", "preparing", "previewing") /\ UNCHANGED Seen
    BY <1>4, PhaseGoes DEF StartPreview
  <2> QED
    BY <2>1 DEF Engine!StartPreview
<1>5. CASE PreviewPasses \/ PreviewFindsNoState
  <2>1. Engine!GoWorker("run", "previewing", "launching") /\ UNCHANGED Seen
    BY <1>5, PhaseGoes DEF PreviewPasses, PreviewFindsNoState
  <2> QED
    BY <2>1 DEF Engine!EndPreview
<1>6. CASE PreviewTimesOut
  <2>1. /\ Engine!GoWorker("run", "previewing", "unwinding")
        /\ Entry' = "none" /\ UNCHANGED <<Repeats, Told>>
    BY <1>0, <1>6, PhaseGoes DEF PreviewTimesOut
  <2> QED
    BY <2>1, EntrySet DEF Engine!PreviewTimeout
<1>7. CASE Launch
  <2>1. Engine!GoWorker("run", "launching", "spawned") /\ UNCHANGED Seen
    BY <1>7, PhaseGoes DEF Launch
  <2> QED
    BY <2>1 DEF Engine!Spawn
<1>8. CASE Track
  <2>1. /\ Engine!GoWorker("run", "spawned", "running")
        /\ Entry' = "live" /\ UNCHANGED <<Repeats, Told>>
    BY <1>8, PhaseGoes DEF Track
  <2> QED
    BY <2>1, EntrySet DEF Engine!Track
<1>9. ASSUME NEW code \in {"ok", "error", "sigterm"}, ProcessExits(code)
      PROVE  Engine!ProcessExits("run")
  <2>1. /\ Engine!GoWorker("run", "running", "exited")
        /\ Entry' = "dead" /\ UNCHANGED <<Repeats, Told>>
    BY <1>9, PhaseGoes DEF ProcessExits
  <2> QED
    BY <2>1, EntrySet DEF Engine!ProcessExits
\* Every way to end with a result.
<1>10. CASE CannotStart \/ LeasesForbid \/ PreviewForbids \/ Complete \/ ListingsDiffer
              \/ DuplicateRemains \/ Cancelled \/ Fail
  <2>1. /\ pc \in {"state", "launching", "leases", "previewing", "exited"}
        /\ pc' = "finished" /\ UNCHANGED attempt
    BY <1>10 DEF CannotStart, LeasesForbid, PreviewForbids, Complete, ListingsDiffer,
                 DuplicateRemains, Cancelled, Fail, Failing, Judge
  <2>2. PICK from \in {"preparing", "launching", "previewing", "exited"} :
          Engine!GoWorker("run", from, "finished")
    BY <2>1, PhaseGoes
  <2>3. Entry' = "none" /\ UNCHANGED <<Repeats, Told>>
    BY <1>0, <2>1
  <2> QED
    BY <2>2, <2>3, EntrySet DEF Engine!FinishRun
\* A rename that follows no refresh, or a refresh that follows no rename: one more.
<1>11. CASE RenameAndRepeat \/ RefreshAndRepeat
  <2>1. pc = "exited" /\ pc' = "state"
    BY <1>11 DEF RenameAndRepeat, RefreshAndRepeat, Judge, Failing
  <2>2. Repeats < MaxDuplicates /\ Repeats' = Repeats + 1 /\ Repeats \in Nat
    BY <1>11, RunAssumption
    DEF RenameAndRepeat, RefreshAndRepeat, Duplicated, MustVerify, MayRefresh, TwoWay,
        Repeated, IInv, TypeOK
  <2>3. Engine!GoWorker("run", "exited", "preparing")
    BY <2>1, PhaseGoes
  <2>4. UNCHANGED <<Entry, Told>>
    BY <1>0, <2>1, <2>2
  <2>5. [w \in {"run"} |-> Repeats]' = [[w \in {"run"} |-> Repeats] EXCEPT !["run"] = @ + 1]
    BY <2>2
  <2> QED
    BY <2>2, <2>3, <2>4, <2>5 DEF Engine!RunAgain
<1>12. CASE Report
  <2>1. /\ Engine!GoWorker("run", "finished", "unwinding")
        /\ ~Told /\ Told' /\ UNCHANGED <<Entry, Repeats>>
    BY <1>12, PhaseGoes DEF Report, Repeated
  <2> QED
    BY <2>1 DEF Engine!Report
<1>13. CASE UNCHANGED vars
  <2>1. Phase' = Phase /\ UNCHANGED Seen
    BY <1>13 DEF vars
  <2> QED
    BY <2>1, NothingSeen
<1> QED
  BY <1>1, <1>2, <1>3, <1>4, <1>5, <1>6, <1>7, <1>8, <1>9, <1>10, <1>11, <1>12, <1>13
  DEF Next, Step

\* Whatever a run does, the engine's tables see a worker that takes the steps SyncEngine
\* allows it and repeats itself no more often than a duplicate may be renamed.
THEOREM RunFollowsEngine == Spec => FollowsEngine
<1>1. Spec => [](TypeOK /\ Repeated)
  <2>1. TypeOK /\ Repeated /\ IInv /\ [Next]_vars => (TypeOK /\ Repeated)'
    BY NextRepeated, NextType DEF IInv
  <2> QED
    BY <2>1, InitRepeated, TypeCorrect, Invariant, NextRepeated, PTL DEF Spec
<1> QED
  BY <1>1, StepFollows, Invariant, PTL DEF Spec, FollowsEngine
=============================================================================
