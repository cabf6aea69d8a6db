------------------------- MODULE ChangeMonitorProofs -------------------------
(***************************************************************************)
(* What is proved of the change monitor for any number of files and        *)
(* changes, apart from the places that blind names: no local change is     *)
(* forgotten, nothing unseen is replaced, and nothing that came from the   *)
(* cloud goes up.                                                          *)
(***************************************************************************)
EXTENDS ChangeMonitor, TLAPS

-----------------------------------------------------------------------------
(* Types *)

LEMMA TreesOf ==
  /\ NoChanges \in ChangeSets /\ Empty \in Trees
  /\ \A t, u \in Trees : Changes(t, u) \in ChangeSets
  /\ \A c, d \in ChangeSets : Updated(c, d) \in ChangeSets
  /\ \A t, u \in Trees : \A s : Overlay(t, s, u) \in Trees
BY MonitorAssumption
   DEF NoChanges, ChangeSets, Empty, Trees, Versions, Absent, Changes, Updated, Overlay

\* What Decide(new) finds.
Both(new) == Updated(deferredRemote, IF known THEN Changes(remote, new) ELSE NoChanges)
Ups == IF mode = "download_only" THEN {} ELSE Touched(locals)
Downs(new) == IF mode = "upload_only" THEN {} ELSE Touched(Both(new))

\* Decide goes back to waiting, or applies what the mode permits.
DecidesToWait(new) ==
  /\ at' = "waiting" /\ NoBatch /\ remote' = new
  /\ deferredLocal' = NoChanges /\ deferredRemote' = NoChanges
  /\ owed' \/ (owed' = owed /\ Ups = {} /\ Downs(new) = {})
DecidesToApply(new) ==
  /\ at' = "applying" /\ UNCHANGED <<locals, remote, deferred, owed>>
  /\ remotes' = Both(new) /\ listing' = new
  /\ left' = {<<p, "up">> : p \in Ups} \union {<<p, "down">> : p \in Downs(new)}
  /\ TwoWay => Touched(locals) \intersect Touched(Both(new)) = {}

LEMMA DecideSplits ==
  ASSUME TypeOK, NEW new \in Trees, Decide(new)
  PROVE  /\ known' /\ owed' \in BOOLEAN /\ (owed => owed')
         /\ blind' = IF known THEN blind ELSE blind \union (unseen \X {"cloud"})
         /\ DecidesToWait(new) \/ DecidesToApply(new)
<1> DEFINE uncertain == ~known /\ Touched(locals) # {}
           conflict == Touched(locals) \intersect Touched(Both(new)) # {}
           reconcile == TwoWay /\ (uncertain \/ conflict)
<1>1. /\ known' = TRUE /\ owed' = (owed \/ reconcile)
      /\ blind' = IF known THEN blind ELSE blind \union (unseen \X {"cloud"})
      /\ IF reconcile \/ Ups \union Downs(new) = {}
         THEN /\ remote' = new
              /\ deferredLocal' = NoChanges /\ deferredRemote' = NoChanges
              /\ Idle
         ELSE /\ remotes' = Both(new) /\ listing' = new
              /\ left' = {<<p, "up">> : p \in Ups} \union {<<p, "down">> : p \in Downs(new)}
              /\ at' = "applying"
              /\ UNCHANGED <<locals, remote, deferred>>
  BY DEF Decide, Both, Ups, Downs
<1>2. owed \in BOOLEAN /\ reconcile \in BOOLEAN
  BY DEF TypeOK
<1> HIDE DEF reconcile
<1>3. CASE reconcile \/ Ups \union Downs(new) = {}
  <2>1. owed' \/ (owed' = owed /\ Ups = {} /\ Downs(new) = {})
    BY <1>1, <1>2, <1>3
  <2> QED
    BY <1>1, <1>2, <1>3, <2>1 DEF DecidesToWait, Idle
<1>4. CASE ~(reconcile \/ Ups \union Downs(new) = {})
  <2>1. owed' = owed
    BY <1>1, <1>2, <1>4
  <2>2. TwoWay => Touched(locals) \intersect Touched(Both(new)) = {}
    BY <1>4 DEF reconcile
  <2> QED
    BY <1>1, <1>2, <1>4, <2>1, <2>2 DEF DecidesToApply
<1> QED
  BY <1>3, <1>4

LEMMA TypesBegin == Init => TypeOK
<1> SUFFICES ASSUME Init PROVE TypeOK
  OBVIOUS
<1>1. disk \in Trees
  BY MonitorAssumption DEF Init, Trees, Versions, Absent
<1>2. written \in 0..MaxWrites
  BY MonitorAssumption DEF Init
<1>3. mode \in Modes /\ polling \in BOOLEAN
  BY MonitorAssumption DEF Init, Modes
<1>4. handed \in BOOLEAN
  BY DEF Init, TwoWay
<1> QED
  BY <1>1, <1>2, <1>3, <1>4, TreesOf DEF Init, TypeOK

LEMMA TypesOfDecide ==
  ASSUME TypeOK, NEW new \in Trees, Decide(new),
         UNCHANGED <<sides, local, queue, mode, polling, handed, dirty, unseen, theirs>>,
         cache' \in Trees \union {NoListing}
  PROVE  TypeOK'
<1>1. /\ known' /\ owed' \in BOOLEAN
      /\ blind' = IF known THEN blind ELSE blind \union (unseen \X {"cloud"})
      /\ DecidesToWait(new) \/ DecidesToApply(new)
  BY DecideSplits
<1>2. blind' \subseteq Paths \X {"local", "cloud", "listings"}
  BY <1>1 DEF TypeOK
<1>3. Both(new) \in ChangeSets
  BY TreesOf DEF Both, TypeOK
<1>4. CASE DecidesToWait(new)
  BY <1>1, <1>2, <1>4, TreesOf DEF TypeOK, DecidesToWait, NoBatch, sides, queue
<1>5. CASE DecidesToApply(new)
  <2>1. left' \subseteq Paths \X {"up", "down"}
    BY <1>5 DEF DecidesToApply, Ups, Downs, Touched
  <2> QED
    BY <1>1, <1>2, <1>3, <1>5, <2>1 DEF TypeOK, DecidesToApply, sides, queue, deferred
<1> QED
  BY <1>1, <1>4, <1>5

LEMMA TypesNext == TypeOK /\ [Next]_vars => TypeOK'
<1> SUFFICES ASSUME TypeOK, [Next]_vars PROVE TypeOK'
  OBVIOUS
<1> USE MonitorAssumption
<1>1. ASSUME NEW p \in Paths, LocalSave(p) \/ LocalDelete(p) PROVE TypeOK'
  <2>1. PICK version \in Versions : LocalWrite(p, version)
    BY <1>1 DEF LocalSave, LocalDelete, LocalWrite, TypeOK, Versions, Absent
  <2>2. written' \in 0..MaxWrites /\ disk' \in Trees
    BY <2>1 DEF LocalWrite, TypeOK, Trees, Versions
  <2>3. blind' \subseteq Paths \X {"local", "cloud", "listings"}
    BY <2>1 DEF LocalWrite, TypeOK
  <2> QED
    BY <2>1, <2>2, <2>3 DEF LocalWrite, TypeOK, baselines, deferred, batch, engine
<1>2. ASSUME NEW p \in Paths, CloudSave(p) \/ CloudDelete(p) PROVE TypeOK'
  <2>1. PICK version \in Versions : CloudWrite(p, version)
    BY <1>2 DEF CloudSave, CloudDelete, CloudWrite, TypeOK, Versions, Absent
  <2>2. written' \in 0..MaxWrites /\ cloud' \in Trees
    BY <2>1 DEF CloudWrite, TypeOK, Trees, Versions
  <2>3. blind' \subseteq Paths \X {"local", "cloud", "listings"}
    BY <2>1 DEF CloudWrite, TypeOK
  <2> QED
    BY <2>1, <2>2, <2>3 DEF CloudWrite, TypeOK, baselines, queue, deferred, batch, engine
<1>3. CASE TopologyChanges
  BY <1>3 DEF TopologyChanges, TypeOK, sides, baselines, deferred, batch, engine, ghosts
<1>4. CASE CacheExpires
  BY <1>4 DEF CacheExpires, TypeOK, sides, baselines, queue, deferred, batch, engine, ghosts
<1>5. CASE FullRunSucceeds
  <2>1. handed' \in BOOLEAN
    BY <1>5 DEF FullRunSucceeds, TwoWay
  <2> QED
    BY <1>5, <2>1 DEF FullRunSucceeds, TypeOK, baselines, queue, deferred, batch
<1>6. CASE Start
  <2>1. \/ deferredLocal' = NoChanges
        \/ deferredLocal' = Changes(base, disk)
    BY <1>6 DEF Start, StartAfterRun, StartFromListings, StartFresh
  <2>2. deferredLocal' \in ChangeSets
    BY <2>1, TreesOf DEF TypeOK
  <2>3. blind' \subseteq Paths \X {"local", "cloud", "listings"}
    BY <1>6 DEF Start, StartAfterRun, StartFromListings, StartFresh, ghosts, TypeOK, Misjudged,
                Overlooked
  <2>4. handed' \in BOOLEAN /\ UNCHANGED <<sides, cache, mode, polling, owed, dirty, unseen, theirs>>
    BY <1>6 DEF Start, StartAfterRun, StartFromListings, StartFresh, engine, ghosts, TypeOK
  <2>5. local' \in Trees /\ remote' \in Trees /\ known' \in BOOLEAN /\ Watching
    BY <1>6, TreesOf DEF Start, StartAfterRun, StartFromListings, StartFresh, StartRemote, TypeOK
  <2> QED
    BY <2>2, <2>3, <2>4, <2>5, TreesOf DEF TypeOK, Watching, Idle, NoBatch, sides
<1>7. CASE Stop
  <2>1. blind' \subseteq Paths \X {"local", "cloud", "listings"}
    BY <1>7 DEF Stop, TypeOK
  <2> QED
    BY <1>7, <2>1, TreesOf DEF Stop, TypeOK, NoBatch, sides
<1>8. CASE ReadEvents
  <2>1. PICK seen \in SUBSET Paths :
          /\ local' = Overlay(local, seen, disk)
          /\ locals' = Updated(deferredLocal, Changes(local, Overlay(local, seen, disk)))
    BY <1>8 DEF ReadEvents, TypeOK
  <2>2. local' \in Trees /\ locals' \in ChangeSets
    BY <2>1, TreesOf DEF TypeOK
  <2> QED
    BY <1>8, <2>2 DEF ReadEvents, TypeOK, sides, deferred, engine, ghosts
<1>9. CASE ReadTopology
  BY <1>9, TreesOf DEF ReadTopology, TypeOK, sides, batch, ghosts
<1>10. CASE ListTargeted
  BY <1>10, TreesOf, TypesOfDecide DEF ListTargeted, TypeOK
<1>11. CASE ListAll
  <2>1. CASE cache = NoListing
    BY <1>11, <2>1, TypesOfDecide DEF ListAll, TypeOK
  <2>2. CASE cache # NoListing
    BY <1>11, <2>2, TypesOfDecide DEF ListAll, TypeOK
  <2> QED
    BY <2>1, <2>2
<1>12. CASE ListFails
  BY <1>12, TreesOf DEF ListFails, TypeOK, Idle, NoBatch, sides, baselines, queue, engine, ghosts
<1>13. ASSUME NEW p \in Paths, ApplyUp(p) PROVE TypeOK'
  <2>1. cloud' \in Trees /\ dirty' \subseteq Paths /\ unseen' \subseteq Paths
    BY <1>13 DEF ApplyUp, Upload, TypeOK, Trees, Versions, Absent
  <2> QED
    BY <1>13, <2>1 DEF ApplyUp, TypeOK, baselines, queue, deferred, engine
<1>14. ASSUME NEW p \in Paths, ApplyDown(p) PROVE TypeOK'
  <2>1. disk' \in Trees /\ unseen' \subseteq Paths
    BY <1>14 DEF ApplyDown, TypeOK, Trees, Versions, Absent
  <2> QED
    BY <1>14, <2>1 DEF ApplyDown, TypeOK, baselines, deferred, engine
<1>15. CASE Refuse
  BY <1>15, TreesOf DEF Refuse, TypeOK, Idle, NoBatch, sides, queue, engine, ghosts
<1>16. CASE Applied
  BY <1>16 DEF Applied, TypeOK, sides, baselines, queue, deferred, batch, engine, ghosts
<1>17. CASE Refresh
  <2>1. local' \in Trees
    BY <1>17, TreesOf DEF Refresh, TypeOK
  <2>2. \A s, t : Overlay(Overlay(listing, s, cloud), t, Empty) \in Trees
    BY TreesOf DEF TypeOK
  <2>3. remote' \in Trees /\ known' \in BOOLEAN
    BY <1>17, <2>2, TreesOf DEF Refresh, TypeOK
  <2> QED
    BY <1>17, <2>1, <2>3, TreesOf DEF Refresh, TypeOK, Idle, NoBatch, sides, queue, engine, ghosts
<1>18. CASE UNCHANGED vars
  BY <1>18 DEF vars, TypeOK, sides, baselines, queue, deferred, batch, engine, ghosts
<1> QED
  BY <1>1, <1>2, <1>3, <1>4, <1>5, <1>6, <1>7, <1>8, <1>9, <1>10, <1>11, <1>12, <1>13, <1>14,
     <1>15, <1>16, <1>17, <1>18 DEF Next, Environment, Step

\* Types hold always (callbacks.py).
THEOREM TypeCorrect == Spec => []TypeOK
BY TypesBegin, TypesNext, PTL DEF Spec

-----------------------------------------------------------------------------
(* Versions, batches and baselines *)

LEMMA Pointwise ==
  ASSUME NEW p \in Paths
  PROVE  /\ \A t, u : Changes(t, u)[p] = IF t[p] = u[p] THEN "none"
                                         ELSE IF u[p] = Absent THEN "gone" ELSE "saved"
         /\ \A c, d : Updated(c, d)[p] = IF d[p] = "none" THEN c[p] ELSE d[p]
         /\ \A t, s, u : Overlay(t, s, u)[p] = IF p \in s THEN u[p] ELSE t[p]
         /\ Empty[p] = Absent /\ NoChanges[p] = "none"
         /\ \A c : p \in Touched(c) <=> c[p] # "none"
BY DEF Changes, Updated, Overlay, Empty, NoChanges, Touched

\* No version is newer than the last that was written.
NotNewer(tree) == \A p \in Paths : tree[p] <= written + 1
Versioned ==
  /\ NotNewer(disk) /\ NotNewer(cloud) /\ NotNewer(base)
  /\ NotNewer(local) /\ NotNewer(remote) /\ NotNewer(listing)
  /\ cache # NoListing => NotNewer(cache)

\* What an iteration has found is empty when there is none.
BatchRests ==
  /\ at \in {"stopped", "waiting"} => locals = NoChanges
  /\ at \notin {"applying", "refreshing"} => remotes = NoChanges
  /\ at # "applying" => left = {}
  /\ at \in {"applying", "refreshing"} => known
  /\ ~known => deferredRemote = NoChanges

\* A change belongs to the version it was read from.
Fits(change, version) ==
  /\ change = "saved" => version # Absent
  /\ change = "gone" => version = Absent

\* The changes of a path fit the baselines, and what is left to do fits them;
\* in a two-way mapping a path is not transferred both ways.
ChangesFit(p) ==
  /\ at \in {"scanning", "applying", "refreshing"} /\ deferredLocal[p] # "none" => locals[p] # "none"
  /\ at = "waiting" => Fits(deferredLocal[p], local[p])
  /\ at \in {"scanning", "applying", "refreshing"} => Fits(locals[p], local[p])
  /\ at \in {"waiting", "scanning"} /\ known => Fits(deferredRemote[p], remote[p])
  /\ at \in {"applying", "refreshing"} => Fits(remotes[p], listing[p])
  /\ <<p, "up">> \in left => locals[p] # "none" /\ mode # "download_only"
  /\ <<p, "down">> \in left => remotes[p] # "none" /\ mode # "upload_only"
  /\ TwoWay => locals[p] = "none" \/ remotes[p] = "none"

\* A file that differs from the baseline will be looked at.
Noticed(p) ==
  at # "stopped" /\ local[p] # disk[p] => p \in events \/ topology \/ polling

Basis ==
  /\ TypeOK /\ Versioned /\ BatchRests
  /\ \A p \in Paths : ChangesFit(p) /\ Noticed(p)

LEMMA BasisBegins == Init => Basis
<1> SUFFICES ASSUME Init PROVE Basis
  OBVIOUS
<1>1. TypeOK
  BY TypesBegin
<1>2. \A p \in Paths : disk[p] <= 1 /\ Empty[p] <= 1
  BY DEF Init, Empty, Absent
<1>3. Versioned
  BY <1>2 DEF Init, Versioned, NotNewer
<1>4. BatchRests
  BY DEF Init, BatchRests
<1>5. ASSUME NEW p \in Paths PROVE ChangesFit(p) /\ Noticed(p)
  BY Pointwise DEF Init, ChangesFit, Noticed, Fits
<1> QED
  BY <1>1, <1>3, <1>4, <1>5 DEF Basis

\* The steps that change a side or a baseline.
LEMMA WhoWrites ==
  [Next]_vars =>
    /\ UNCHANGED disk \/ FullRunSucceeds
       \/ \E p \in Paths : LocalSave(p) \/ LocalDelete(p) \/ ApplyDown(p)
    /\ UNCHANGED cloud \/ FullRunSucceeds
       \/ \E p \in Paths : CloudSave(p) \/ CloudDelete(p) \/ ApplyUp(p)
    /\ UNCHANGED base \/ FullRunSucceeds
    /\ UNCHANGED written
       \/ \E p \in Paths : LocalSave(p) \/ LocalDelete(p) \/ CloudSave(p) \/ CloudDelete(p)
    /\ UNCHANGED mode
BY DEF Next, Environment, Start, Step, LocalSave, LocalDelete, LocalWrite, CloudSave,
   CloudDelete, CloudWrite, TopologyChanges, CacheExpires, FullRunSucceeds, StartAfterRun,
   StartFromListings, StartFresh, Stop, ReadEvents, ReadTopology, ListTargeted, ListAll,
   ListFails, ApplyUp, ApplyDown, Refuse, Applied, Refresh, sides, engine, vars

LEMMA VersionedNext ==
  TypeOK /\ TypeOK' /\ Versioned /\ [Next]_vars => Versioned'
<1> SUFFICES ASSUME TypeOK, TypeOK', Versioned, [Next]_vars PROVE Versioned'
  OBVIOUS
<1> DEFINE Bounded(tree) == \A p \in Paths : tree[p] <= written' + 1
<1>1. written \in Nat /\ written' \in Nat /\ written <= written'
  <2>1. UNCHANGED written \/ written' = written + 1
    BY WhoWrites DEF LocalSave, LocalDelete, LocalWrite, CloudSave, CloudDelete, CloudWrite
  <2> QED
    BY <2>1, MonitorAssumption DEF TypeOK
<1>2. \A tree \in Trees : NotNewer(tree) => Bounded(tree)
  BY <1>1, MonitorAssumption DEF NotNewer, Trees, Versions
<1>3. /\ Bounded(disk) /\ Bounded(cloud) /\ Bounded(base)
      /\ Bounded(local) /\ Bounded(remote) /\ Bounded(listing)
      /\ cache # NoListing => Bounded(cache)
  <2>1. cache # NoListing => cache \in Trees
    BY DEF TypeOK
  <2> QED
    BY <1>2, <2>1 DEF Versioned, TypeOK
<1>4. \A t, s, u : Bounded(t) /\ Bounded(u) => Bounded(Overlay(t, s, u))
  BY Pointwise
<1>5. Bounded(Empty) /\ Absent <= written' + 1
  <2>1. \A p \in Paths : Empty[p] = Absent
    BY Pointwise
  <2>2. Absent <= written' + 1
    <3>1. written' \in Nat
      BY <1>1
    <3>2. \A n \in Nat : Absent <= n + 1
      BY DEF Absent
    <3> QED
      BY <3>1, <3>2
  <2> QED
    BY <2>1, <2>2
<1> HIDE DEF Bounded
<1>6. Bounded(disk') /\ Bounded(cloud') /\ Bounded(base')
  <2>1. CASE FullRunSucceeds
    BY <1>3, <2>1 DEF FullRunSucceeds, Merged, Bounded
  <2>2. ASSUME NEW p \in Paths, LocalSave(p) \/ LocalDelete(p) \/ ApplyDown(p)
        PROVE  Bounded(disk')
    <3>1. PICK v : disk' = [disk EXCEPT ![p] = v] /\ v <= written' + 1
      BY <1>1, <1>3, <1>5, <2>2 DEF LocalSave, LocalDelete, LocalWrite, ApplyDown, Bounded
    <3> QED
      BY <1>3, <3>1 DEF Bounded, TypeOK, Trees
  <2>3. ASSUME NEW p \in Paths, CloudSave(p) \/ CloudDelete(p) \/ ApplyUp(p)
        PROVE  Bounded(cloud')
    <3>1. UNCHANGED cloud \/ \E v : cloud' = [cloud EXCEPT ![p] = v] /\ v <= written' + 1
      BY <1>1, <1>3, <1>5, <2>3 DEF CloudSave, CloudDelete, CloudWrite, ApplyUp, Upload, Bounded
    <3> QED
      BY <1>3, <3>1 DEF Bounded, TypeOK, Trees
  <2> QED
    BY <1>3, <2>1, <2>2, <2>3, WhoWrites
<1>7. /\ Bounded(local') /\ Bounded(remote') /\ Bounded(listing')
      /\ cache' # NoListing => Bounded(cache')
  <2>1. CASE Start
    BY <1>3, <1>5, <2>1
       DEF Start, StartAfterRun, StartFromListings, StartFresh, StartRemote, Watching, Idle,
           NoBatch
  <2>2. CASE Stop
    BY <1>3, <1>5, <2>2 DEF Stop, NoBatch
  <2>3. CASE ReadEvents \/ ReadTopology
    BY <1>3, <1>4, <2>3 DEF ReadEvents, ReadTopology, batch
  <2>4. ASSUME NEW new \in Trees, Bounded(new), Decide(new), UNCHANGED local,
               UNCHANGED cache \/ cache' = new
        PROVE  /\ Bounded(local') /\ Bounded(remote') /\ Bounded(listing')
               /\ cache' # NoListing => Bounded(cache')
    <3>1. UNCHANGED remote \/ remote' = new
      BY <2>4, DecideSplits DEF DecidesToWait, DecidesToApply
    <3>2. listing' = Empty \/ listing' = new
      BY <2>4, DecideSplits DEF DecidesToWait, DecidesToApply, NoBatch
    <3> QED
      BY <1>3, <1>5, <2>4, <3>1, <3>2
  <2>5. CASE ListTargeted
    <3>1. Bounded(Overlay(remote, Touched(locals), cloud))
      BY <1>3, <1>4
    <3>2. Overlay(remote, Touched(locals), cloud) \in Trees
      BY TreesOf DEF TypeOK
    <3> QED
      BY <2>4, <2>5, <3>1, <3>2 DEF ListTargeted
  <2>6. CASE ListAll
    <3>1. CASE cache = NoListing
      BY <1>3, <2>4, <2>6, <3>1 DEF ListAll, TypeOK
    <3>2. CASE cache # NoListing
      BY <1>3, <2>4, <2>6, <3>2 DEF ListAll, TypeOK
    <3> QED
      BY <3>1, <3>2
  <2>7. CASE Refresh
    <3>1. \A s, t : Bounded(Overlay(Overlay(listing, s, cloud), t, Empty))
      BY <1>3, <1>4, <1>5
    <3>2. Bounded(local')
      BY <1>3, <1>4, <2>7 DEF Refresh
    <3>3. Bounded(remote')
      BY <1>5, <2>7, <3>1 DEF Refresh
    <3> QED
      BY <1>3, <1>5, <2>7, <3>2, <3>3 DEF Refresh, Idle, NoBatch
  <2>8. CASE ListFails \/ Refuse \/ Applied
    BY <1>3, <1>5, <2>8 DEF ListFails, Refuse, Applied, Idle, NoBatch, baselines, batch
  <2>9. CASE \E p \in Paths : \/ LocalSave(p) \/ LocalDelete(p) \/ CloudSave(p)
                             \/ CloudDelete(p) \/ ApplyUp(p) \/ ApplyDown(p)
    BY <1>3, <2>9 DEF LocalSave, LocalDelete, LocalWrite, CloudSave, CloudDelete, CloudWrite,
       ApplyUp, ApplyDown, baselines, batch
  <2>10. CASE TopologyChanges \/ CacheExpires \/ FullRunSucceeds \/ UNCHANGED vars
    BY <1>3, <2>10 DEF TopologyChanges, CacheExpires, FullRunSucceeds, vars, baselines, batch
  <2> QED
    BY <2>1, <2>2, <2>3, <2>5, <2>6, <2>7, <2>8, <2>9, <2>10 DEF Next, Environment, Step
<1> QED
  BY <1>6, <1>7 DEF Versioned, NotNewer, Bounded

\* What a path has besides the sides and the baselines.
Steady ==
  UNCHANGED <<at, local, remote, known, deferredLocal, deferredRemote, locals, remotes, listing,
              left, mode, polling>>

LEMMA RestsNext ==
  TypeOK /\ BatchRests /\ [Next]_vars => BatchRests'
<1> SUFFICES ASSUME TypeOK, BatchRests, [Next]_vars PROVE BatchRests'
  OBVIOUS
<1>1. CASE Steady
  BY <1>1 DEF Steady, BatchRests
<1>2. CASE Start
  BY <1>2 DEF Start, StartAfterRun, StartFromListings, StartFresh, Watching, Idle, NoBatch, BatchRests
<1>3. CASE Stop
  BY <1>3 DEF Stop, NoBatch, BatchRests
<1>4. CASE ReadEvents
  BY <1>4 DEF ReadEvents, deferred, BatchRests
<1>5. CASE ReadTopology
  BY <1>5 DEF ReadTopology, batch, BatchRests
<1>6. ASSUME NEW new \in Trees, Decide(new) PROVE BatchRests'
  BY <1>6, DecideSplits DEF DecidesToWait, DecidesToApply, NoBatch, BatchRests
<1>7. CASE ListTargeted
  BY <1>6, <1>7, TreesOf DEF ListTargeted, TypeOK
<1>8. CASE ListAll
  BY <1>6, <1>8 DEF ListAll, TypeOK
<1>9. CASE ListFails \/ Refuse
  BY <1>9 DEF ListFails, Refuse, Idle, NoBatch, baselines, BatchRests
<1>10. ASSUME NEW p \in Paths, ApplyUp(p) \/ ApplyDown(p) PROVE BatchRests'
  BY <1>10 DEF ApplyUp, ApplyDown, baselines, deferred, BatchRests
<1>11. CASE Applied
  BY <1>11 DEF Applied, baselines, deferred, batch, BatchRests
<1>12. CASE Refresh
  BY <1>12 DEF Refresh, Idle, NoBatch, BatchRests
<1>13. CASE \/ TopologyChanges \/ CacheExpires \/ FullRunSucceeds \/ UNCHANGED vars
            \/ \E p \in Paths : LocalSave(p) \/ LocalDelete(p) \/ CloudSave(p) \/ CloudDelete(p)
  BY <1>1, <1>13 DEF TopologyChanges, CacheExpires, FullRunSucceeds, vars, LocalSave, LocalDelete,
     LocalWrite, CloudSave, CloudDelete, CloudWrite, baselines, deferred, batch, engine, Steady
<1> QED
  BY <1>2, <1>3, <1>4, <1>5, <1>7, <1>8, <1>9, <1>10, <1>11, <1>12, <1>13 DEF Next, Environment, Step

LEMMA FitsNext ==
  ASSUME TypeOK, BatchRests, [Next]_vars, NEW p \in Paths, ChangesFit(p)
  PROVE  ChangesFit(p)'
<1>1. CASE Steady
  BY <1>1 DEF Steady, ChangesFit, TwoWay, Fits
<1>2. CASE Start
  <2>1. /\ at' = "waiting" /\ locals' = NoChanges /\ remotes' = NoChanges /\ left' = {}
        /\ deferredRemote' = NoChanges /\ local' = disk
        /\ deferredLocal' = NoChanges \/ deferredLocal' = Changes(base, disk)
    BY <1>2 DEF Start, StartAfterRun, StartFromListings, StartFresh, Watching, Idle, NoBatch
  <2> QED
    BY <2>1, Pointwise DEF ChangesFit, Fits
<1>3. CASE Stop
  BY <1>3, Pointwise DEF Stop, NoBatch, ChangesFit
<1>4. CASE ReadEvents
  <2>1. PICK seen : /\ local' = Overlay(local, seen, disk)
                    /\ locals' = Updated(deferredLocal, Changes(local, Overlay(local, seen, disk)))
    BY <1>4 DEF ReadEvents
  <2>2. /\ at = "waiting" /\ (at' = "scanning" \/ (at' = at /\ locals' = NoChanges))
        /\ UNCHANGED <<remote, known, deferred, remotes, listing, left, mode>>
    BY <1>4 DEF ReadEvents, engine
  <2>3. Fits(locals'[p], local'[p]) /\ (deferredLocal[p] # "none" => locals'[p] # "none")
    BY <2>1, <2>2, Pointwise DEF ChangesFit, Fits
  <2>4. locals' = NoChanges => deferredLocal[p] = "none"
    BY <2>3, Pointwise
  <2> QED
    BY <2>2, <2>3, <2>4, Pointwise DEF ChangesFit, Fits, deferred, TwoWay, BatchRests
<1>5. CASE ReadTopology
  BY <1>5, Pointwise DEF ReadTopology, batch, ChangesFit, Fits, TwoWay, BatchRests
<1>6. ASSUME NEW new \in Trees, Decide(new), UNCHANGED <<local, mode>>, at = "scanning"
      PROVE  ChangesFit(p)'
  <2>1. CASE DecidesToWait(new)
    BY <1>6, <2>1, Pointwise DEF DecidesToWait, NoBatch, ChangesFit, Fits
  <2>2. CASE DecidesToApply(new)
    <3>1. /\ at' = "applying" /\ UNCHANGED <<locals, remote, deferred, local, mode>>
          /\ remotes' = Both(new) /\ listing' = new
          /\ <<p, "up">> \in left' => locals[p] # "none" /\ mode # "download_only"
          /\ <<p, "down">> \in left' => Both(new)[p] # "none" /\ mode # "upload_only"
      BY <1>6, <2>2, Pointwise DEF DecidesToApply, Ups, Downs
    <3>2. TwoWay => locals[p] = "none" \/ Both(new)[p] = "none"
      BY <2>2, Pointwise DEF DecidesToApply
    <3>3. Fits(Both(new)[p], new[p])
      BY <1>6, Pointwise DEF Both, ChangesFit, Fits, BatchRests
    <3> QED
      BY <1>6, <3>1, <3>2, <3>3 DEF ChangesFit, TwoWay, deferred
  <2> QED
    BY <1>6, <2>1, <2>2, DecideSplits
<1>7. CASE ListTargeted
  BY <1>6, <1>7, TreesOf DEF ListTargeted, TypeOK
<1>8. CASE ListAll
  BY <1>6, <1>8 DEF ListAll, TypeOK
<1>9. CASE ListFails \/ Refuse
  BY <1>9, Pointwise DEF ListFails, Refuse, Idle, NoBatch, baselines, ChangesFit, Fits
<1>10. ASSUME NEW q \in Paths, ApplyUp(q) \/ ApplyDown(q) PROVE ChangesFit(p)'
  BY <1>10 DEF ApplyUp, ApplyDown, baselines, deferred, engine, ChangesFit, TwoWay
<1>11. CASE Applied
  BY <1>11 DEF Applied, baselines, deferred, batch, engine, ChangesFit, TwoWay
<1>12. CASE Refresh
  BY <1>12, Pointwise DEF Refresh, Idle, NoBatch, ChangesFit, Fits
<1>13. CASE \/ TopologyChanges \/ CacheExpires \/ FullRunSucceeds \/ UNCHANGED vars
            \/ \E q \in Paths : LocalSave(q) \/ LocalDelete(q) \/ CloudSave(q) \/ CloudDelete(q)
  BY <1>1, <1>13 DEF TopologyChanges, CacheExpires, FullRunSucceeds, vars, LocalSave, LocalDelete,
     LocalWrite, CloudSave, CloudDelete, CloudWrite, baselines, deferred, batch, engine, Steady
<1> QED
  BY <1>2, <1>3, <1>4, <1>5, <1>7, <1>8, <1>9, <1>10, <1>11, <1>12, <1>13 DEF Next, Environment, Step

LEMMA NoticedNext ==
  ASSUME TypeOK, [Next]_vars, NEW p \in Paths, Noticed(p)
  PROVE  Noticed(p)'
<1>1. CASE Start \/ Stop
  BY <1>1 DEF Start, StartAfterRun, StartFromListings, StartFresh, Stop, sides, Noticed
<1>2. CASE ReadEvents
  BY <1>2, Pointwise DEF ReadEvents, sides, engine, Noticed
<1>3. CASE ReadTopology
  BY <1>3 DEF ReadTopology, sides, Noticed
<1>4. CASE ListTargeted \/ ListAll
  BY <1>4 DEF ListTargeted, ListAll, sides, queue, Noticed
<1>5. ASSUME NEW q \in Paths, ApplyUp(q) PROVE Noticed(p)'
  BY <1>5 DEF ApplyUp, baselines, queue, engine, Noticed
<1>6. ASSUME NEW q \in Paths, ApplyDown(q) PROVE Noticed(p)'
  BY <1>6 DEF ApplyDown, baselines, engine, Noticed, TypeOK, Trees
<1>7. CASE Refresh
  BY <1>7, Pointwise DEF Refresh, Idle, sides, queue, engine, Noticed
<1>8. CASE ListFails \/ Refuse \/ Applied
  BY <1>8 DEF ListFails, Refuse, Applied, Idle, sides, baselines, queue, engine, Noticed
<1>9. ASSUME NEW q \in Paths, LocalSave(q) \/ LocalDelete(q) PROVE Noticed(p)'
  BY <1>9 DEF LocalSave, LocalDelete, LocalWrite, baselines, engine, Noticed, TypeOK, Trees
<1>10. CASE \/ TopologyChanges \/ CacheExpires \/ UNCHANGED vars
            \/ \E q \in Paths : CloudSave(q) \/ CloudDelete(q)
  BY <1>10 DEF TopologyChanges, CacheExpires, vars, CloudSave, CloudDelete,
     CloudWrite, sides, baselines, queue, engine, Noticed
<1>11. CASE FullRunSucceeds
  <2>1. at = "stopped" /\ at' = at
    BY <1>11 DEF FullRunSucceeds
  <2> QED
    BY <1>11, <2>1 DEF FullRunSucceeds, baselines, queue, Noticed
<1> QED
  BY <1>1, <1>2, <1>3, <1>4, <1>5, <1>6, <1>7, <1>8, <1>9, <1>10, <1>11 DEF Next, Environment, Step

LEMMA BasisNext == Basis /\ [Next]_vars => Basis'
BY TypesNext, VersionedNext, RestsNext, FitsNext, NoticedNext DEF Basis

-----------------------------------------------------------------------------
(* No local change is forgotten *)

Excused(p, whys) == owed \/ \E why \in whys : <<p, why>> \in blind

\* Where the monitor has a local change.
Kept(p) ==
  \/ at = "stopped" /\ TwoWay /\ ~handed
  \/ at # "stopped" /\ local[p] # disk[p]
  \/ at = "waiting" /\ deferredLocal[p] # "none"
  \/ at = "scanning" /\ locals[p] # "none"
  \/ at = "applying" /\ <<p, "up">> \in left

\* A change is kept, and is not taken for what was downloaded.
DirtyKept(p) ==
  p \in dirty =>
    /\ mode = "download_only" \/ Excused(p, {"local", "listings"}) \/ Kept(p)
    /\ at \in {"applying", "refreshing"} /\ remotes[p] # "none" /\ mode # "upload_only" =>
         <<p, "down">> \in left \/ <<p, "local">> \in blind

LEMMA ExcusesLast ==
  [Next]_vars => FullRunSucceeds \/ (blind \subseteq blind' /\ (owed => owed'))
<1> SUFFICES ASSUME [Next]_vars, ~FullRunSucceeds
             PROVE  blind \subseteq blind' /\ (owed => owed')
  OBVIOUS
<1>1. ASSUME NEW new, Decide(new) PROVE blind \subseteq blind' /\ (owed => owed')
  BY <1>1 DEF Decide
<1>2. CASE ListTargeted \/ ListAll
  BY <1>1, <1>2 DEF ListTargeted, ListAll
<1>3. CASE Start \/ Stop
  <2>1. CASE StartFromListings
    <3>1. \E seen : blind' = blind \union seen
      BY <2>1 DEF StartFromListings
    <3>2. owed' = owed
      BY <2>1 DEF StartFromListings, engine
    <3> QED
      BY <3>1, <3>2
  <2>2. CASE StartAfterRun \/ StartFresh
    <3>1. UNCHANGED <<owed, ghosts>>
      BY <2>2 DEF StartAfterRun, StartFresh, engine
    <3> QED
      BY <3>1 DEF ghosts
  <2>3. CASE Stop
    BY <2>3 DEF Stop
  <2> QED
    BY <1>3, <2>1, <2>2, <2>3 DEF Start
<1>4. CASE \E p \in Paths : LocalSave(p) \/ LocalDelete(p) \/ CloudSave(p) \/ CloudDelete(p)
  BY <1>4 DEF LocalSave, LocalDelete, LocalWrite, CloudSave, CloudDelete, CloudWrite, engine
<1>5. CASE TopologyChanges \/ CacheExpires \/ ReadEvents \/ UNCHANGED vars
  BY <1>5 DEF TopologyChanges, CacheExpires, ReadEvents, engine, ghosts, vars
<1>6. CASE ListFails \/ Refuse \/ Applied \/ Refresh
  BY <1>6 DEF ListFails, Refuse, Applied, Refresh, engine, ghosts
<1>7. CASE ReadTopology
  BY <1>7 DEF ReadTopology, ghosts
<1>8. ASSUME NEW p \in Paths, ApplyUp(p) \/ ApplyDown(p)
      PROVE  blind \subseteq blind' /\ (owed => owed')
  BY <1>8 DEF ApplyUp, ApplyDown, engine
<1> QED
  BY <1>2, <1>3, <1>4, <1>5, <1>6, <1>7, <1>8 DEF Next, Environment, Step

LEMMA DirtyNext ==
  ASSUME Basis, [Next]_vars, NEW p \in Paths, DirtyKept(p)
  PROVE  DirtyKept(p)'
<1> SUFFICES ASSUME p \in dirty'
             PROVE  DirtyKept(p)'
  BY DEF DirtyKept
<1>0. TypeOK /\ Versioned /\ BatchRests /\ ChangesFit(p)
  BY DEF Basis
<1>1. CASE FullRunSucceeds
  BY <1>1 DEF FullRunSucceeds
<1> SUFFICES ASSUME ~FullRunSucceeds PROVE DirtyKept(p)'
  BY <1>1
<1>2. \A whys : Excused(p, whys) => Excused(p, whys)'
  BY ExcusesLast DEF Excused
<1>3. <<p, "local">> \in blind => <<p, "local">> \in blind'
  BY ExcusesLast
<1>4. mode' = mode
  BY WhoWrites
<1>5. CASE UNCHANGED <<disk, at, local, deferredLocal, locals, remotes, left, dirty, handed>>
  BY <1>2, <1>3, <1>4, <1>5 DEF DirtyKept, Kept, TwoWay
<1>6. ASSUME NEW q \in Paths, NEW version, LocalWrite(q, version),
             version = written + 2 \/ version = Absent
      PROVE  DirtyKept(p)'
  <2>1. UNCHANGED <<at, local, deferredLocal, locals, remotes, deferredRemote, left, handed>>
    BY <1>6 DEF LocalWrite, baselines, deferred, batch, engine
  <2>2. CASE p # q
    <3>1. p \in dirty /\ disk'[p] = disk[p]
      BY <1>0, <1>6, <2>2 DEF LocalWrite, TypeOK, Trees
    <3> QED
      BY <1>2, <1>3, <1>4, <2>1, <3>1 DEF DirtyKept, Kept, TwoWay
  <2>3. CASE p = q
    <3>1. disk'[p] = version /\ ~Unnoticed(p, version)
      BY <1>0, <1>6, <2>3 DEF LocalWrite, TypeOK, Trees
    <3>2. at \in {"applying", "refreshing"} /\ remotes[p] # "none" => <<p, "local">> \in blind'
      BY <1>6, <2>3 DEF LocalWrite, Unwatched
    <3>3. at = "stopped" => <<p, "local">> \in blind' \/ (TwoWay /\ ~handed)
      BY <1>6, <2>3 DEF LocalWrite, Unwatched
    <3>4. at # "stopped" => local[p] # disk'[p] \/ Kept(p)'
      <4>1. CASE version = Absent
        <5>1. \/ local[p] # Absent \/ locals[p] # "none" \/ deferredLocal[p] # "none"
              \/ at = "stopped"
          BY <3>1, <4>1 DEF Unnoticed
        <5>2. CASE local[p] # Absent
          BY <3>1, <4>1, <5>2
        <5>3. CASE at = "waiting" /\ (locals[p] # "none" \/ deferredLocal[p] # "none")
          BY <1>0, <2>1, <5>3, Pointwise DEF BatchRests, Kept
        <5>4. CASE at = "scanning" /\ (locals[p] # "none" \/ deferredLocal[p] # "none")
          BY <1>0, <2>1, <5>4 DEF ChangesFit, Kept
        <5>5. CASE at \in {"applying", "refreshing"} /\ local[p] = Absent
          BY <1>0, <2>1, <3>1, <4>1, <5>5 DEF Unnoticed, BatchRests, Kept
        <5> QED
          BY <1>0, <5>1, <5>2, <5>3, <5>4, <5>5 DEF TypeOK
      <4>2. CASE version = written + 2
        <5>1. local[p] \in Nat /\ written \in Nat /\ local[p] <= written + 1
          BY <1>0, MonitorAssumption DEF Versioned, NotNewer, TypeOK, Trees, Versions
        <5> QED
          BY <3>1, <4>2, <5>1
      <4> QED
        BY <1>6, <4>1, <4>2
    <3> QED
      BY <1>4, <2>1, <3>2, <3>3, <3>4 DEF DirtyKept, Kept, Excused, TwoWay
  <2> QED
    BY <2>2, <2>3
<1>7. ASSUME NEW q \in Paths, LocalSave(q) \/ LocalDelete(q) PROVE DirtyKept(p)'
  BY <1>6, <1>7 DEF LocalSave, LocalDelete
<1>8. CASE Start
  <2>1. at' = "waiting" /\ local' = disk /\ UNCHANGED <<disk, dirty>>
    BY <1>8 DEF Start, StartAfterRun, StartFromListings, StartFresh, Watching, Idle, sides, ghosts
  <2>2. CASE StartAfterRun \/ StartFresh
    BY <1>2, <1>4, <2>1, <2>2 DEF DirtyKept, Kept, StartAfterRun, StartFresh, TwoWay
  <2>3. CASE StartFromListings
    <3>1. PICK localReadable \in BOOLEAN, remoteReadable \in BOOLEAN :
            /\ deferredLocal' = IF localReadable THEN Changes(base, disk) ELSE NoChanges
            /\ blind' = blind \union Overlooked(localReadable, remoteReadable)
      BY <2>3 DEF StartFromListings
    <3>2. CASE ~localReadable
      BY <2>1, <3>1, <3>2 DEF DirtyKept, Kept, Excused, Overlooked
    <3>3. CASE localReadable
      <4>1. deferredLocal'[p] # "none" \/ <<p, "listings">> \in blind'
        <5>1. deferredLocal' = Changes(base, disk) /\ Misjudged \subseteq blind'
          BY <3>1, <3>3 DEF Overlooked
        <5>2. Changes(base, disk)[p] # "none" \/ disk[p] = base[p]
          BY Pointwise
        <5>3. CASE disk[p] = base[p]
          <6>1. p \in dirty
            BY <2>1
          <6>2. <<p, "listings">> \in Misjudged \/ p \notin dirty
            BY <5>3 DEF Misjudged
          <6> QED
            BY <5>1, <6>1, <6>2
        <5> QED
          BY <5>1, <5>2, <5>3
      <4> QED
        BY <2>1, <4>1 DEF DirtyKept, Kept, Excused
    <3> QED
      BY <3>2, <3>3
  <2> QED
    BY <1>8, <2>2, <2>3 DEF Start
<1>9. CASE Stop
  <2>1. at' = "stopped" /\ ~handed' /\ dirty' = dirty /\ (~TwoWay => <<p, "local">> \in blind')
    BY <1>9 DEF Stop
  <2> QED
    BY <1>4, <2>1 DEF DirtyKept, Kept, Excused, TwoWay
<1>10. CASE ReadEvents
  <2>1. PICK seen :
          /\ local' = Overlay(local, seen, disk)
          /\ locals' = Updated(deferredLocal, Changes(local, Overlay(local, seen, disk)))
    BY <1>10 DEF ReadEvents
  <2>2. /\ at = "waiting" /\ (at' = "scanning" \/ (at' = "waiting" /\ locals' = NoChanges))
        /\ UNCHANGED <<disk, dirty, deferredLocal>>
    BY <1>10 DEF ReadEvents, sides, deferred, ghosts
  <2>3. \/ local'[p] # disk[p] \/ locals'[p] # "none"
        \/ local[p] = disk[p] /\ deferredLocal[p] = "none"
    BY <2>1, Pointwise
  <2> QED
    BY <1>2, <1>4, <2>2, <2>3, Pointwise DEF DirtyKept, Kept, TwoWay
<1>11. CASE ReadTopology
  BY <1>11 DEF ReadTopology, DirtyKept, Excused
<1>12. ASSUME NEW new \in Trees, Decide(new), at = "scanning", UNCHANGED <<disk, local, dirty>>
       PROVE  DirtyKept(p)'
  <2>1. CASE DecidesToWait(new)
    <3>1. owed' \/ mode = "download_only" \/ locals[p] = "none"
      BY <2>1, Pointwise DEF DecidesToWait, Ups
    <3> QED
      BY <1>2, <1>4, <1>12, <2>1, <3>1 DEF DecidesToWait, DirtyKept, Kept, Excused, TwoWay
  <2>2. CASE DecidesToApply(new)
    <3>1. /\ at' = "applying" /\ remotes' = Both(new)
          /\ mode = "download_only" \/ locals[p] = "none" \/ <<p, "up">> \in left'
          /\ mode = "upload_only" \/ remotes'[p] = "none" \/ <<p, "down">> \in left'
      BY <2>2, Pointwise DEF DecidesToApply, Ups, Downs
    <3> QED
      BY <1>2, <1>4, <1>12, <3>1 DEF DirtyKept, Kept, TwoWay
  <2> QED
    BY <1>0, <1>12, <2>1, <2>2, DecideSplits
<1>13. CASE ListTargeted
  BY <1>0, <1>12, <1>13, TreesOf DEF ListTargeted, TypeOK, sides
<1>14. CASE ListAll
  BY <1>0, <1>12, <1>14 DEF ListAll, TypeOK, sides
<1>15. CASE ListFails
  BY <1>2, <1>4, <1>15 DEF ListFails, Idle, sides, baselines, ghosts, DirtyKept, Kept, TwoWay
<1>16. ASSUME NEW q \in Paths, ApplyUp(q) PROVE DirtyKept(p)'
  <2>1. /\ at = "applying" /\ UNCHANGED <<at, disk, local, deferredLocal, locals, remotes, handed>>
        /\ left' = left \ {<<q, "up">>} /\ p \in dirty /\ Upload(q) /\ <<q, "up">> \in left
    BY <1>16 DEF ApplyUp, Upload, baselines, deferred, engine, NextTransfers
  <2>2. CASE p # q
    BY <1>2, <1>3, <1>4, <2>1, <2>2 DEF DirtyKept, Kept, TwoWay
  <2>3. CASE p = q
    <3>1. local[p] # disk[p]
      BY <1>0, <2>1, <2>3 DEF Upload, ChangesFit, Fits
    <3> QED
      BY <1>3, <1>4, <2>1, <2>3, <3>1 DEF DirtyKept, Kept
  <2> QED
    BY <2>2, <2>3
<1>17. ASSUME NEW q \in Paths, ApplyDown(q) PROVE DirtyKept(p)'
  <2>1. /\ UNCHANGED <<at, local, deferredLocal, locals, remotes, handed>>
        /\ left' = left \ {<<q, "down">>} /\ p \in dirty /\ p # q /\ disk'[p] = disk[p]
    BY <1>0, <1>17 DEF ApplyDown, baselines, deferred, engine, TypeOK, Trees
  <2> QED
    BY <1>2, <1>3, <1>4, <2>1 DEF DirtyKept, Kept, TwoWay
<1>18. CASE Refuse
  <2>1. /\ at = "applying" /\ at' = "waiting" /\ deferredLocal' = locals
        /\ UNCHANGED <<disk, local, dirty>>
    BY <1>18 DEF Refuse, Idle, sides, ghosts
  <2> QED
    BY <1>0, <1>2, <1>4, <2>1 DEF DirtyKept, Kept, ChangesFit, TwoWay
<1>19. CASE Applied
  BY <1>2, <1>3, <1>4, <1>19
     DEF Applied, sides, baselines, deferred, batch, ghosts, DirtyKept, Kept, TwoWay
<1>20. CASE Refresh
  <2>1. PICK down :
          /\ down = IF mode = "upload_only" THEN {} ELSE Touched(remotes)
          /\ local' = Overlay(local, down, disk)
    BY <1>20 DEF Refresh
  <2>2. at = "refreshing" /\ at' = "waiting" /\ UNCHANGED <<disk, dirty>> /\ left = {}
    BY <1>0, <1>20 DEF Refresh, Idle, sides, ghosts, BatchRests
  <2>3. CASE p \in down
    BY <1>3, <2>1, <2>2, <2>3, Pointwise DEF DirtyKept, Excused
  <2>4. CASE p \notin down
    <3>1. local'[p] = local[p]
      BY <2>1, <2>4, Pointwise
    <3> QED
      BY <1>2, <1>4, <2>2, <3>1 DEF DirtyKept, Kept, TwoWay
  <2> QED
    BY <2>3, <2>4
<1>21. CASE \/ TopologyChanges \/ CacheExpires \/ UNCHANGED vars
            \/ \E q \in Paths : CloudSave(q) \/ CloudDelete(q)
  BY <1>5, <1>21 DEF TopologyChanges, CacheExpires, vars, CloudSave, CloudDelete, CloudWrite,
     sides, baselines, deferred, batch, engine, ghosts
<1> QED
  BY <1>7, <1>8, <1>9, <1>10, <1>11, <1>13, <1>14, <1>15, <1>16, <1>17, <1>18, <1>19, <1>20, <1>21
     DEF Next, Environment, Step

-----------------------------------------------------------------------------
(* What another device has written is seen before it is replaced *)

Blind(p) == Excused(p, {"cloud", "listings"})

\* A version of another device differs from what the monitor compares with, or
\* its change is known and nothing goes up to it.
ForeignSeen(p) ==
  p \in unseen =>
    /\ cloud[p] # Absent => cloud[p] # base[p]
    /\ cache # NoListing => cache[p] = cloud[p] \/ <<p, "cloud">> \in blind
    /\ TwoWay /\ at # "stopped" /\ known /\ cloud[p] # Absent =>
         \/ Blind(p)
         \/ /\ at \in {"waiting", "scanning"}
            /\ remote[p] # cloud[p] \/ deferredRemote[p] # "none"
         \/ /\ at \in {"applying", "refreshing"} /\ locals[p] = "none"
            /\ <<p, "down">> \in left \/ listing[p] # cloud[p]

LEMMA ForeignNext ==
  ASSUME Basis, [Next]_vars, NEW p \in Paths, ForeignSeen(p)
  PROVE  ForeignSeen(p)'
<1> SUFFICES ASSUME p \in unseen'
             PROVE  ForeignSeen(p)'
  BY DEF ForeignSeen
<1>0. TypeOK /\ Versioned /\ BatchRests /\ ChangesFit(p)
  BY DEF Basis
<1>1. CASE FullRunSucceeds
  BY <1>1 DEF FullRunSucceeds
<1> SUFFICES ASSUME ~FullRunSucceeds PROVE ForeignSeen(p)'
  BY <1>1
<1>2. Blind(p) => Blind(p)'
  BY ExcusesLast DEF Blind, Excused
<1>3. <<p, "cloud">> \in blind => <<p, "cloud">> \in blind'
  BY ExcusesLast
<1>4. mode' = mode /\ base' = base
  BY WhoWrites
<1>5. CASE UNCHANGED <<cloud, unseen, cache, at, known, remote, deferredRemote, locals, listing, left>>
  BY <1>2, <1>3, <1>4, <1>5 DEF ForeignSeen, TwoWay
<1>6. ASSUME NEW q \in Paths, NEW version, CloudWrite(q, version),
             version = written + 2 \/ version = Absent
      PROVE  ForeignSeen(p)'
  <2>1. UNCHANGED <<at, known, remote, deferredRemote, locals, listing, left, cache>>
    BY <1>6 DEF CloudWrite, baselines, deferred, batch, engine
  <2>2. CASE p # q
    <3>1. p \in unseen /\ cloud'[p] = cloud[p]
      BY <1>0, <1>6, <2>2 DEF CloudWrite, TypeOK, Trees
    <3> QED
      BY <1>2, <1>3, <1>4, <2>1, <3>1 DEF ForeignSeen, TwoWay
  <2>3. CASE p = q
    <3>1. cloud'[p] = version
      BY <1>0, <1>6, <2>3 DEF CloudWrite, TypeOK, Trees
    <3>2. at \in {"applying", "refreshing"} \/ cache # NoListing \/ ~known => <<p, "cloud">> \in blind'
      BY <1>6, <2>3 DEF CloudWrite
    <3>3. version # Absent => version # base[p] /\ version # remote[p]
      <4>1. /\ base[p] \in Nat /\ remote[p] \in Nat /\ written \in Nat
            /\ base[p] <= written + 1 /\ remote[p] <= written + 1
        BY <1>0, MonitorAssumption DEF Versioned, NotNewer, TypeOK, Trees, Versions
      <4> QED
        BY <1>6, <4>1
    <3>4. at \in {"stopped", "waiting", "scanning", "applying", "refreshing"}
      BY <1>0 DEF TypeOK
    <3> QED
      BY <1>4, <2>1, <3>1, <3>2, <3>3, <3>4 DEF ForeignSeen, Blind, Excused
  <2> QED
    BY <2>2, <2>3
<1>7. ASSUME NEW q \in Paths, CloudSave(q) \/ CloudDelete(q) PROVE ForeignSeen(p)'
  BY <1>6, <1>7 DEF CloudSave, CloudDelete
<1>8. CASE Start
  <2>1. at' = "waiting" /\ UNCHANGED <<cloud, unseen, cache>>
    BY <1>8 DEF Start, StartAfterRun, StartFromListings, StartFresh, Watching, Idle, sides, ghosts
  <2>2. TwoWay /\ known' /\ p \in unseen => remote' = base \/ <<p, "cloud">> \in blind'
    BY <1>8 DEF Start, StartAfterRun, StartFromListings, StartFresh, StartRemote, Overlooked
  <2> QED
    BY <1>2, <1>3, <1>4, <2>1, <2>2 DEF ForeignSeen, TwoWay, Blind, Excused
<1>9. CASE Stop
  <2>1. /\ at' = "stopped" /\ UNCHANGED <<cloud, unseen>>
        /\ UNCHANGED cache \/ cache' = NoListing
    BY <1>9 DEF Stop, sides
  <2> QED
    BY <1>3, <1>4, <2>1 DEF ForeignSeen
<1>10. CASE ReadEvents
  <2>1. /\ at = "waiting" /\ at' \in {"waiting", "scanning"}
        /\ UNCHANGED <<cloud, unseen, cache, known, remote, deferredRemote>>
    BY <1>10 DEF ReadEvents, sides, deferred, ghosts
  <2> QED
    BY <1>2, <1>3, <1>4, <2>1 DEF ForeignSeen, TwoWay
<1>11. CASE ReadTopology
  <2>1. owed' = TRUE /\ UNCHANGED <<cloud, unseen, cache>>
    BY <1>11 DEF ReadTopology, sides, ghosts
  <2> QED
    BY <1>3, <1>4, <2>1 DEF ForeignSeen, Blind, Excused
<1>12. ASSUME NEW new \in Trees, Decide(new), at = "scanning", UNCHANGED <<cloud, unseen>>,
              UNCHANGED cache \/ cache' = cloud,
              Blind(p)' \/ new[p] = cloud[p] \/ (new[p] = remote[p] /\ locals[p] = "none")
       PROVE  ForeignSeen(p)'
  <2>1. cache' # NoListing => cache'[p] = cloud[p] \/ <<p, "cloud">> \in blind'
    BY <1>3, <1>12 DEF ForeignSeen
  <2>2. ~known => Blind(p)'
    BY <1>0, <1>12, DecideSplits DEF Blind, Excused
  <2> SUFFICES ASSUME TwoWay, known, cloud[p] # Absent, ~Blind(p)'
               PROVE  \/ at' = "waiting" /\ remote'[p] # cloud[p]
                      \/ /\ at' = "applying" /\ locals'[p] = "none"
                         /\ <<p, "down">> \in left' \/ listing'[p] # cloud[p]
    BY <1>4, <1>12, <2>1, <2>2 DEF ForeignSeen, TwoWay
  <2>3. remote[p] # cloud[p] \/ deferredRemote[p] # "none"
    BY <1>2, <1>12 DEF ForeignSeen
  <2>4. Both(new)[p] = "none" => remote[p] = new[p] /\ deferredRemote[p] = "none"
    BY Pointwise DEF Both
  <2>5. CASE DecidesToWait(new)
    <3>1. Both(new)[p] = "none"
      BY <2>5, Pointwise DEF DecidesToWait, Downs, TwoWay, Blind, Excused
    <3> QED
      BY <2>3, <2>4, <2>5, <3>1 DEF DecidesToWait
  <2>6. CASE DecidesToApply(new)
    <3>1. /\ at' = "applying" /\ locals' = locals /\ listing' = new
          /\ Both(new)[p] # "none" => <<p, "down">> \in left' /\ locals[p] = "none"
      BY <2>6, Pointwise DEF DecidesToApply, Downs, TwoWay
    <3>2. CASE Both(new)[p] = "none"
      BY <1>12, <2>3, <2>4, <3>1, <3>2
    <3> QED
      BY <3>1, <3>2
  <2> QED
    BY <1>0, <1>12, <2>5, <2>6, DecideSplits
<1>13. CASE ListTargeted
  <2>1. Overlay(remote, Touched(locals), cloud) \in Trees
    BY <1>0, TreesOf DEF TypeOK
  <2>2. \/ Overlay(remote, Touched(locals), cloud)[p] = cloud[p]
        \/ Overlay(remote, Touched(locals), cloud)[p] = remote[p] /\ locals[p] = "none"
    BY Pointwise
  <2> QED
    BY <1>12, <1>13, <2>1, <2>2 DEF ListTargeted, sides
<1>14. CASE ListAll
  <2>1. at = "scanning" /\ UNCHANGED <<cloud, unseen>>
    BY <1>14 DEF ListAll, sides
  <2>2. CASE cache = NoListing
    BY <1>0, <1>12, <1>14, <2>1, <2>2 DEF ListAll, TypeOK
  <2>3. CASE cache # NoListing
    <3>1. cache[p] = cloud[p] \/ Blind(p)'
      BY <1>2, <2>1, <2>3 DEF ForeignSeen, Blind, Excused
    <3> QED
      BY <1>0, <1>12, <1>14, <2>1, <2>3, <3>1 DEF ListAll, TypeOK
  <2> QED
    BY <2>2, <2>3
<1>15. CASE ListFails
  BY <1>2, <1>3, <1>4, <1>15 DEF ListFails, Idle, sides, baselines, ghosts, ForeignSeen, TwoWay
<1>16. ASSUME NEW q \in Paths, ApplyUp(q) PROVE ForeignSeen(p)'
  <2>1. /\ UNCHANGED <<at, known, remote, deferredRemote, locals, listing, cache>>
        /\ left' = left \ {<<q, "up">>} /\ Upload(q)
    BY <1>16 DEF ApplyUp, baselines, deferred
  <2>2. p \in unseen /\ cloud'[p] = cloud[p]
    BY <1>0, <2>1 DEF Upload, TypeOK, Trees
  <2> QED
    BY <1>2, <1>3, <1>4, <2>1, <2>2 DEF ForeignSeen, TwoWay
<1>17. ASSUME NEW q \in Paths, ApplyDown(q) PROVE ForeignSeen(p)'
  <2>1. /\ UNCHANGED <<at, cloud, known, remote, deferredRemote, locals, listing, cache>>
        /\ left' = left \ {<<q, "down">>} /\ p \in unseen
    BY <1>17 DEF ApplyDown, baselines, deferred
  <2>2. CASE p # q
    BY <1>2, <1>3, <1>4, <2>1, <2>2 DEF ForeignSeen, TwoWay
  <2>3. CASE p = q
    <3>1. disk'[p] # cloud[p] /\ at = "applying"
      BY <1>17, <2>3 DEF ApplyDown
    <3>2. remotes[p] = "gone"
      BY <1>0, <1>17, <2>3, <3>1 DEF ApplyDown, TypeOK, Trees
    <3>3. listing[p] = Absent
      BY <1>0, <3>1, <3>2 DEF ChangesFit, Fits
    <3> QED
      BY <1>2, <1>3, <1>4, <2>1, <3>1, <3>3 DEF ForeignSeen, TwoWay
  <2> QED
    BY <2>2, <2>3
<1>18. CASE Refuse
  <2>1. /\ at = "applying" /\ at' = "waiting" /\ remote' = listing /\ deferredRemote' = remotes
        /\ UNCHANGED <<cloud, unseen, cache, known>>
    BY <1>18 DEF Refuse, Idle, sides, ghosts
  <2> QED
    BY <1>0, <1>2, <1>3, <1>4, <2>1 DEF ForeignSeen, ChangesFit, TwoWay
<1>19. CASE Applied
  BY <1>2, <1>3, <1>4, <1>19
     DEF Applied, sides, baselines, deferred, batch, ghosts, ForeignSeen, TwoWay
<1>20. CASE Refresh
  <2>1. PICK saved, gone :
          /\ at = "refreshing" /\ at' = "waiting" /\ UNCHANGED <<cloud, unseen, cache>>
          /\ mode # "download_only" => saved = Of(locals, "saved") /\ gone = Of(locals, "gone")
          /\ \/ remote' = Overlay(Overlay(listing, saved, cloud), gone, Empty)
             \/ ~known'
    BY <1>20 DEF Refresh, Idle, sides, ghosts
  <2>2. TwoWay /\ locals[p] = "none" => p \notin saved /\ p \notin gone
    BY <2>1 DEF TwoWay, Of
  <2>3. TwoWay /\ locals[p] = "none" => remote'[p] = listing[p] \/ ~known'
    BY <2>1, <2>2, Pointwise
  <2>4. left = {} /\ known
    BY <1>0, <2>1 DEF BatchRests
  <2> QED
    BY <1>2, <1>3, <1>4, <2>1, <2>3, <2>4 DEF ForeignSeen, TwoWay
<1>21. CASE \E q \in Paths : LocalSave(q) \/ LocalDelete(q)
  BY <1>5, <1>21 DEF LocalSave, LocalDelete, LocalWrite, baselines, deferred, batch
<1>22. CASE CacheExpires
  BY <1>2, <1>3, <1>4, <1>22 DEF CacheExpires, sides, baselines, deferred, batch, ghosts, ForeignSeen, TwoWay
<1>23. CASE TopologyChanges \/ UNCHANGED vars
  BY <1>5, <1>23 DEF TopologyChanges, vars, sides, baselines, deferred, batch, ghosts
<1> QED
  BY <1>7, <1>8, <1>9, <1>10, <1>11, <1>13, <1>14, <1>15, <1>16, <1>17, <1>18, <1>19, <1>20, <1>21,
     <1>22, <1>23 DEF Next, Environment, Step

-----------------------------------------------------------------------------
(* What was downloaded does not go up again *)

\* A downloaded file is not taken for the user's, unless its download is known to
\* this iteration or the next.
Taken(p) ==
  p \in theirs =>
    /\ p \notin dirty
    /\ TwoWay =>
         \/ <<p, "listings">> \in blind
         \/ at = "stopped"
         \/ at = "waiting" /\ deferredRemote[p] # "none"
         \/ at = "waiting" /\ local[p] = disk[p] /\ deferredLocal[p] = "none"
         \/ /\ at = "scanning" /\ local[p] = disk[p]
            /\ deferredRemote[p] # "none" \/ locals[p] = "none"
         \/ at \in {"applying", "refreshing"} /\ remotes[p] # "none"
         \/ at \in {"applying", "refreshing"} /\ local[p] = disk[p] /\ locals[p] = "none"

LEMMA TakenNext ==
  ASSUME Basis, [Next]_vars, NEW p \in Paths, Taken(p)
  PROVE  Taken(p)'
<1> SUFFICES ASSUME p \in theirs'
             PROVE  Taken(p)'
  BY DEF Taken
<1>0. TypeOK /\ BatchRests /\ ChangesFit(p) /\ Noticed(p)
  BY DEF Basis
<1>1. CASE FullRunSucceeds
  BY <1>1 DEF FullRunSucceeds
<1> SUFFICES ASSUME ~FullRunSucceeds PROVE Taken(p)'
  BY <1>1
<1>2. <<p, "listings">> \in blind => <<p, "listings">> \in blind'
  BY ExcusesLast
<1>3. mode' = mode
  BY WhoWrites
<1>4. CASE UNCHANGED <<disk, at, local, deferredLocal, deferredRemote, locals, remotes, dirty, theirs>>
  BY <1>2, <1>3, <1>4 DEF Taken, TwoWay
<1>5. ASSUME NEW q \in Paths, LocalSave(q) \/ LocalDelete(q) PROVE Taken(p)'
  <2>1. PICK version : LocalWrite(q, version)
    BY <1>5 DEF LocalSave, LocalDelete
  <2>2. /\ p # q /\ p \in theirs /\ disk'[p] = disk[p] /\ (p \in dirty' => p \in dirty)
        /\ UNCHANGED <<at, local, deferredLocal, deferredRemote, locals, remotes>>
    BY <1>0, <2>1 DEF LocalWrite, baselines, deferred, batch, TypeOK, Trees
  <2> QED
    BY <1>2, <1>3, <2>2 DEF Taken, TwoWay
<1>6. CASE Start
  <2>1. at' = "waiting" /\ local' = disk /\ UNCHANGED <<disk, dirty, theirs>>
    BY <1>6 DEF Start, StartAfterRun, StartFromListings, StartFresh, Watching, Idle, sides, ghosts
  <2>2. TwoWay => deferredLocal'[p] = "none" \/ p \in dirty \/ <<p, "listings">> \in blind'
    <3>1. CASE StartFromListings
      <4>1. PICK localReadable \in BOOLEAN, remoteReadable \in BOOLEAN :
              /\ deferredLocal' = IF localReadable THEN Changes(base, disk) ELSE NoChanges
              /\ blind' = blind \union Overlooked(localReadable, remoteReadable)
        BY <3>1 DEF StartFromListings
      <4>2. CASE ~localReadable
        BY <4>1, <4>2, Pointwise
      <4>3. CASE localReadable
        BY <4>1, <4>3, Pointwise DEF Misjudged, Overlooked
      <4> QED
        BY <4>2, <4>3
    <3> QED
      BY <1>6, <3>1, Pointwise DEF Start, StartAfterRun, StartFresh
  <2> QED
    BY <1>3, <2>1, <2>2 DEF Taken, TwoWay
<1>7. CASE Stop
  BY <1>7 DEF Stop, Taken
<1>8. CASE ReadEvents
  <2>1. PICK seen :
          /\ seen = IF polling THEN Paths ELSE events
          /\ local' = Overlay(local, seen, disk)
          /\ locals' = Updated(deferredLocal, Changes(local, Overlay(local, seen, disk)))
    BY <1>8 DEF ReadEvents
  <2>2. /\ at = "waiting" /\ (at' = "scanning" \/ (at' = "waiting" /\ locals' = NoChanges))
        /\ ~topology /\ UNCHANGED <<disk, dirty, theirs, deferredLocal, deferredRemote>>
    BY <1>8 DEF ReadEvents, sides, deferred, ghosts
  <2>3. local'[p] = disk[p]
    BY <1>0, <2>1, <2>2, Pointwise DEF Noticed
  <2>4. /\ locals'[p] = "none" => deferredLocal[p] = "none"
        /\ local[p] = disk[p] /\ deferredLocal[p] = "none" => locals'[p] = "none"
    BY <2>1, Pointwise
  <2> QED
    BY <1>2, <1>3, <2>2, <2>3, <2>4, Pointwise DEF Taken, TwoWay
<1>9. CASE ReadTopology
  BY <1>9, Pointwise DEF ReadTopology, sides, ghosts, Taken
<1>10. ASSUME NEW new \in Trees, Decide(new), at = "scanning", UNCHANGED <<disk, local, dirty, theirs>>
       PROVE  Taken(p)'
  <2>1. Both(new)[p] = "none" => deferredRemote[p] = "none"
    BY Pointwise DEF Both
  <2>2. CASE DecidesToWait(new)
    BY <1>2, <1>3, <1>10, <2>2, Pointwise DEF DecidesToWait, Taken, TwoWay
  <2>3. CASE DecidesToApply(new)
    BY <1>2, <1>3, <1>10, <2>1, <2>3 DEF DecidesToApply, Taken, TwoWay
  <2> QED
    BY <1>0, <1>10, <2>2, <2>3, DecideSplits
<1>11. CASE ListTargeted
  BY <1>0, <1>10, <1>11, TreesOf DEF ListTargeted, TypeOK, sides
<1>12. CASE ListAll
  BY <1>0, <1>10, <1>12 DEF ListAll, TypeOK, sides
<1>13. CASE ListFails
  BY <1>2, <1>3, <1>13 DEF ListFails, Idle, sides, baselines, ghosts, Taken, TwoWay
<1>14. ASSUME NEW q \in Paths, ApplyUp(q) PROVE Taken(p)'
  <2>1. /\ UNCHANGED <<disk, at, local, deferredLocal, deferredRemote, locals, remotes, theirs>>
        /\ p \in dirty' => p \in dirty
    BY <1>14 DEF ApplyUp, Upload, baselines, deferred
  <2> QED
    BY <1>2, <1>3, <2>1 DEF Taken, TwoWay
<1>15. ASSUME NEW q \in Paths, ApplyDown(q) PROVE Taken(p)'
  <2>1. /\ UNCHANGED <<at, local, deferredLocal, deferredRemote, locals, remotes>>
        /\ at = "applying" /\ <<q, "down">> \in left /\ dirty' = dirty \ {q}
        /\ theirs' = theirs \union {q}
    BY <1>15 DEF ApplyDown, baselines, deferred, NextTransfers
  <2>2. CASE p = q
    BY <1>0, <2>1, <2>2 DEF ChangesFit, Taken
  <2>3. CASE p # q
    <3>1. disk'[p] = disk[p]
      BY <1>0, <1>15, <2>3 DEF ApplyDown, TypeOK, Trees
    <3> QED
      BY <1>2, <1>3, <2>1, <2>3, <3>1 DEF Taken, TwoWay
  <2> QED
    BY <2>2, <2>3
<1>16. CASE Refuse
  <2>1. /\ at = "applying" /\ at' = "waiting" /\ deferredLocal' = locals /\ deferredRemote' = remotes
        /\ UNCHANGED <<disk, local, dirty, theirs>>
    BY <1>16 DEF Refuse, Idle, sides, ghosts
  <2> QED
    BY <1>2, <1>3, <2>1 DEF Taken, TwoWay
<1>17. CASE Applied
  BY <1>2, <1>3, <1>17 DEF Applied, sides, baselines, deferred, batch, ghosts, Taken, TwoWay
<1>18. CASE Refresh
  <2>1. PICK down :
          /\ mode # "upload_only" => down = Touched(remotes)
          /\ local' = Overlay(local, down, disk)
    BY <1>18 DEF Refresh
  <2>2. /\ at = "refreshing" /\ at' = "waiting" /\ deferredLocal' = NoChanges
        /\ UNCHANGED <<disk, dirty, theirs>>
    BY <1>18 DEF Refresh, Idle, sides, ghosts
  <2>3. remotes[p] # "none" /\ TwoWay => local'[p] = disk[p]
    BY <2>1, Pointwise DEF TwoWay
  <2>4. local[p] = disk[p] => local'[p] = disk[p]
    BY <2>1, Pointwise
  <2> QED
    BY <1>2, <1>3, <2>2, <2>3, <2>4, Pointwise DEF Taken, TwoWay
<1>19. CASE \/ TopologyChanges \/ CacheExpires \/ UNCHANGED vars
            \/ \E q \in Paths : CloudSave(q) \/ CloudDelete(q)
  BY <1>4, <1>19 DEF TopologyChanges, CacheExpires, vars, CloudSave, CloudDelete, CloudWrite,
     sides, baselines, deferred, batch, ghosts
<1> QED
  BY <1>5, <1>6, <1>7, <1>8, <1>9, <1>11, <1>12, <1>13, <1>14, <1>15, <1>16, <1>17, <1>18, <1>19
     DEF Next, Environment, Step

-----------------------------------------------------------------------------
(* The inductive invariant and what follows from it *)

IInv == Basis /\ \A p \in Paths : DirtyKept(p) /\ ForeignSeen(p) /\ Taken(p)

LEMMA IInvBegins == Init => IInv
<1> SUFFICES ASSUME Init PROVE IInv
  OBVIOUS
<1>1. \A p \in Paths : DirtyKept(p) /\ ForeignSeen(p) /\ Taken(p)
  BY DEF Init, DirtyKept, ForeignSeen, Taken
<1> QED
  BY <1>1, BasisBegins DEF IInv

LEMMA IInvNext == IInv /\ [Next]_vars => IInv'
BY BasisNext, DirtyNext, ForeignNext, TakenNext DEF IInv

LEMMA AlwaysIInv == Spec => []IInv
BY IInvBegins, IInvNext, PTL DEF Spec

\* For any number of files and changes: a local change that has to reach the cloud is
\* forgotten only where SavesKept says that the code cannot find it, which includes a
\* restart without a readable local listing (callbacks.py, _run; engine.py,
\* start_callbacks).
THEOREM SavesStayKept == Spec => []SavesKept
<1>1. IInv => SavesKept
  <2> SUFFICES ASSUME IInv, NEW p \in dirty
               PROVE  \/ mode = "download_only" \/ owed
                      \/ p \in events \/ topology
                      \/ at # "stopped" /\ polling /\ local[p] # disk[p]
                      \/ deferredLocal[p] # "none" \/ locals[p] # "none"
                      \/ at = "stopped" /\ TwoWay /\ ~handed
                      \/ \E why \in {"local", "listings"} : <<p, why>> \in blind
    BY DEF SavesKept
  <2>1. p \in Paths /\ DirtyKept(p) /\ ChangesFit(p) /\ Noticed(p)
    BY DEF IInv, Basis, TypeOK
  <2> QED
    BY <2>1 DEF DirtyKept, Kept, Excused, ChangesFit, Noticed
<1> QED
  BY <1>1, AlwaysIInv, PTL

\* A transfer of a two-way monitor replaces nothing that it has never seen, but for
\* what blind names: changes after the listing it went by, and what was there when it
\* had to start without rclone's listings (callbacks.py, engine.py:_apply_incremental).
THEOREM NothingUnseenIsReplaced == Spec => NoLostUpdate
<1>1. IInv /\ [Next]_vars =>
        [TwoWay /\ Step => \A p \in Paths :
           /\ cloud'[p] # cloud[p] /\ cloud[p] # Absent /\ p \in unseen =>
                owed \/ <<p, "cloud">> \in blind \/ <<p, "listings">> \in blind
           /\ disk'[p] # disk[p] /\ p \in dirty =>
                \/ owed \/ local[p] # disk[p]
                \/ \E why \in {"local", "listings"} : <<p, why>> \in blind]_vars
  <2> SUFFICES ASSUME IInv, TwoWay, Step, NEW p \in Paths
               PROVE  /\ cloud'[p] # cloud[p] /\ cloud[p] # Absent /\ p \in unseen =>
                           Excused(p, {"cloud", "listings"})
                      /\ disk'[p] # disk[p] /\ p \in dirty =>
                           local[p] # disk[p] \/ Excused(p, {"local", "listings"})
    BY DEF Excused
  <2>0. /\ TypeOK /\ BatchRests /\ ChangesFit(p)
        /\ DirtyKept(p) /\ ForeignSeen(p)
    BY DEF IInv, Basis
  <2>1. cloud'[p] # cloud[p] => at = "applying" /\ <<p, "up">> \in left
    BY <2>0 DEF Step, ReadEvents, ReadTopology, ListTargeted, ListAll, ListFails, ApplyUp,
       ApplyDown, Refuse, Applied, Refresh, Upload, NextTransfers, sides, TypeOK, Trees
  <2>2. disk'[p] # disk[p] => at = "applying" /\ <<p, "down">> \in left
    BY <2>0 DEF Step, ReadEvents, ReadTopology, ListTargeted, ListAll, ListFails, ApplyUp,
       ApplyDown, Refuse, Applied, Refresh, NextTransfers, sides, TypeOK, Trees
  <2>3. cloud'[p] # cloud[p] /\ cloud[p] # Absent /\ p \in unseen =>
          Excused(p, {"cloud", "listings"})
    BY <2>0, <2>1 DEF ForeignSeen, Blind, ChangesFit, BatchRests
  <2>4. disk'[p] # disk[p] /\ p \in dirty => local[p] # disk[p] \/ Excused(p, {"local", "listings"})
    BY <2>0, <2>2 DEF DirtyKept, Kept, ChangesFit, TwoWay
  <2> QED
    BY <2>3, <2>4
<1> QED
  BY <1>1, AlwaysIInv, PTL DEF Spec, NoLostUpdate

\* In a two-way mapping nothing that came from the cloud goes up again, but for paths
\* that a restart misjudged by listings older than the increments since (callbacks.py).
THEOREM DownloadsStayDown == Spec => OnlySavesGoUp
<1>1. IInv /\ [Next]_vars =>
        [TwoWay /\ Step => \A p \in Paths :
           cloud'[p] # cloud[p] /\ p \in theirs => <<p, "listings">> \in blind]_vars
  <2> SUFFICES ASSUME IInv, TwoWay, Step, NEW p \in Paths, cloud'[p] # cloud[p], p \in theirs
               PROVE  <<p, "listings">> \in blind
    OBVIOUS
  <2>0. TypeOK /\ ChangesFit(p) /\ Taken(p)
    BY DEF IInv, Basis
  <2>1. at = "applying" /\ <<p, "up">> \in left
    BY <2>0 DEF Step, ReadEvents, ReadTopology, ListTargeted, ListAll, ListFails, ApplyUp,
       ApplyDown, Refuse, Applied, Refresh, Upload, NextTransfers, sides, TypeOK, Trees
  <2> QED
    BY <2>0, <2>1 DEF ChangesFit, Taken
<1> QED
  BY <1>1, AlwaysIInv, PTL DEF Spec, OnlySavesGoUp
=============================================================================
