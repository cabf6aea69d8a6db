-------------------------- MODULE SyncEngineProofs --------------------------
(***************************************************************************)
(* For any jobs, threads, slots and number of repetitions: the engine is a *)
(* mutex per job, its processes stay within the transfer gate, and a run   *)
(* that was cancelled in the queue starts nothing.                         *)
(***************************************************************************)
EXTENDS SyncEngine, FiniteSetTheorems, TLAPS

\* What the reservations mean: _active_jobs and _incremental_jobs are the
\* jobs of the threads at work, and each of those has one thread.
Reservations ==
  /\ active = {JobOf[w] : w \in {v \in Workers : Running(v)}}
  /\ incremental = {JobOf[m] : m \in {n \in Monitors : Applying(n)}}
  /\ active \intersect incremental = {}
  /\ \A v, w \in Workers :
        Running(v) /\ Running(w) /\ JobOf[v] = JobOf[w] => v = w
  /\ \A m, n \in Monitors :
        Applying(m) /\ Applying(n) /\ JobOf[m] = JobOf[n] => m = n

WorkerHolds(w) ==
  worker[w] \notin {"idle", "queued", "timedout", "released"}
MonitorHolds(m) ==
  monitor[m] \notin {"idle", "reserved", "released"}

\* Who is inside the gate.
SlotsHeld ==
  /\ holding = {w \in Workers : WorkerHolds(w)}
                 \union {m \in Monitors : MonitorHolds(m)}
  /\ IsFiniteSet(holding)
  /\ Cardinality(holding) <= MaxActive

\* A run is in _waiting_jobs only while it can still be dropped, and a
\* promise to drop it is not lost before the worker looks.
Promises ==
  /\ \A w \in Workers :
        worker[w] \notin {"queued", "admitted", "timedout", "released"}
          /\ Running(w)
          => JobOf[w] \notin waiting
  /\ \A w \in dropped :
        /\ worker[w] \in {"queued", "admitted"} => JobOf[w] \in cancelled
        /\ worker[w] \notin {"preparing", "previewing", "launching",
                             "spawned", "running", "exited"}

WorkerUses(w) ==
  worker[w] \in {"preparing", "previewing", "launching", "spawned", "running", "exited"}
MonitorUses(m) ==
  monitor[m] \in {"spawned", "running", "exited"}

\* What is in the tables belongs to a thread that will take it out again.
Tables ==
  /\ cancelled \subseteq waiting /\ waiting \subseteq active
  /\ \A j \in Jobs : processes[j] # "none" =>
       \/ \E w \in Workers : JobOf[w] = j /\ WorkerUses(w)
       \/ \E m \in Monitors : JobOf[m] = j /\ MonitorUses(m)

IInv == TypeOK /\ Reservations /\ SlotsHeld /\ Promises /\ Tables

-----------------------------------------------------------------------------
LEMMA InitIInv == Init => IInv
<1> SUFFICES ASSUME Init PROVE IInv
  OBVIOUS
<1> USE EngineAssumption DEF Init
<1>1. TypeOK
  BY DEF TypeOK
<1>2. Reservations
  BY DEF Reservations, Running, Applying
<1>3. SlotsHeld
  BY FS_EmptySet DEF SlotsHeld, WorkerHolds, MonitorHolds
<1>4. Promises
  BY DEF Promises, Running
<1>5. Tables
  BY DEF Tables
<1> QED
  BY <1>1, <1>2, <1>3, <1>4, <1>5 DEF IInv

LEMMA SameCardinality ==
  ASSUME NEW S PROVE Slots!Cardinality(S) = Cardinality(S)
BY DEF Slots!Cardinality, Cardinality

\* Taking a slot keeps the holders finite and within MaxActive.
LEMMA TakeBounded ==
  ASSUME IInv, NEW u, Slots!Take(u)
  PROVE  IsFiniteSet(holding)' /\ (Cardinality(holding) <= MaxActive)'
<1>1. /\ u \notin holding
      /\ Cardinality(holding) < MaxActive
      /\ holding' = holding \union {u}
  BY SameCardinality DEF Slots!Take
<1>2. /\ IsFiniteSet(holding')
      /\ Cardinality(holding') = Cardinality(holding) + 1
  BY <1>1, FS_AddElement DEF IInv, SlotsHeld
<1>3. Cardinality(holding) \in Nat
  BY FS_CardinalityType DEF IInv, SlotsHeld
<1> QED
  BY <1>1, <1>2, <1>3, EngineAssumption

\* So does giving one back.
LEMMA GiveBounded ==
  ASSUME IInv, NEW u, Slots!Give(u)
  PROVE  IsFiniteSet(holding)' /\ (Cardinality(holding) <= MaxActive)'
<1>1. u \in holding /\ holding' = holding \ {u}
  BY DEF Slots!Give
<1>2. /\ IsFiniteSet(holding')
      /\ Cardinality(holding') = Cardinality(holding) - 1
  BY <1>1, FS_RemoveElement DEF IInv, SlotsHeld
<1>3. Cardinality(holding) \in Nat
  BY FS_CardinalityType DEF IInv, SlotsHeld
<1> QED
  BY <1>1, <1>2, <1>3, EngineAssumption DEF IInv, SlotsHeld

-----------------------------------------------------------------------------
\* Types.
LEMMA NextType == IInv /\ [Next]_vars => TypeOK'
<1> SUFFICES ASSUME IInv, [Next]_vars PROVE TypeOK'
  OBVIOUS
<1> USE EngineAssumption
    DEF IInv, TypeOK, GoWorker, GoMonitor, tables, history,
        Threads
<1>1. ASSUME NEW w \in Workers,
             RunAsync(w) \/ WorkerAdmitted(w) \/ QueueTimeout(w) \/
             LeaveQueue(w)
      PROVE  TypeOK'
  BY <1>1 DEF RunAsync, WorkerAdmitted, QueueTimeout, LeaveQueue, Slots!Take
<1>2. ASSUME NEW w \in Workers,
             StartPreview(w) \/ EndPreview(w) \/ PreviewTimeout(w) \/
             SkipPreview(w)
      PROVE  TypeOK'
  BY <1>2 DEF StartPreview, EndPreview, PreviewTimeout, SkipPreview
<1>3. ASSUME NEW w \in Workers,
             Spawn(w) \/ Track(w) \/ ProcessExits(w) \/ RunAgain(w)
      PROVE  TypeOK'
  BY <1>3 DEF Spawn, Track, ProcessExits, RunAgain
<1>4. ASSUME NEW w \in Workers,
             FinishRun(w) \/ Report(w) \/ WorkerReleases(w) \/
             WorkerLeaves(w)
      PROVE  TypeOK'
  BY <1>4 DEF FinishRun, Report, WorkerReleases, WorkerLeaves, Slots!Give
<1>5. ASSUME NEW m \in Monitors,
             ScanAdmitted(m) \/ ScanEnds(m) \/ ApplyReserves(m) \/
             ApplyAdmitted(m)
      PROVE  TypeOK'
  BY <1>5
  DEF ScanAdmitted, ScanEnds, ApplyReserves, ApplyAdmitted, Slots!Take,
      Slots!Give
<1>6. ASSUME NEW m \in Monitors,
             ApplySpawns(m) \/ ApplyTracks(m) \/ ApplyProcessExits(m) \/
             ApplyFinishes(m)
      PROVE  TypeOK'
  BY <1>6 DEF ApplySpawns, ApplyTracks, ApplyProcessExits, ApplyFinishes
<1>7. ASSUME NEW m \in Monitors,
             ApplyReleases(m) \/ ApplyLeaves(m)
      PROVE  TypeOK'
  BY <1>7 DEF ApplyReleases, ApplyLeaves, Slots!Give
<1>8. ASSUME NEW j \in Jobs, Cancel(j)
      PROVE  TypeOK'
  BY <1>8 DEF Cancel
<1>9. CASE UNCHANGED vars
  BY <1>9 DEF vars
<1> QED
  BY <1>1, <1>2, <1>3, <1>4, <1>5, <1>6, <1>7, <1>8, <1>9
  DEF Next, WorkerStep, MonitorStep

\* Nobody reserves and nobody leaves.
Unmoved ==
  /\ active' = active /\ incremental' = incremental
  /\ \A w \in Workers : Running(w)' <=> Running(w)
  /\ \A m \in Monitors : Applying(m)' <=> Applying(m)

LEMMA UnmovedReservations == Reservations /\ Unmoved => Reservations'
BY DEF Reservations, Unmoved

\* Only reserving and leaving change who works for a job; a reservation is
\* made where there is none.
LEMMA NextReservations == IInv /\ [Next]_vars => Reservations'
<1> SUFFICES ASSUME IInv, [Next]_vars PROVE Reservations'
  OBVIOUS
<1> USE EngineAssumption
    DEF IInv, TypeOK, GoWorker, GoMonitor, tables, history,
        Reservations, Unmoved, Running, Applying
<1>1. ASSUME NEW w \in Workers, RunAsync(w)
      PROVE  Reservations'
  BY <1>1 DEF RunAsync
<1>2. ASSUME NEW w \in Workers, LeaveQueue(w)
      PROVE  Reservations'
  BY <1>2 DEF LeaveQueue
<1>3. ASSUME NEW w \in Workers, WorkerLeaves(w)
      PROVE  Reservations'
  BY <1>3 DEF WorkerLeaves
<1>4. ASSUME NEW w \in Workers,
             WorkerAdmitted(w) \/ QueueTimeout(w) \/ StartPreview(w) \/
             EndPreview(w)
      PROVE  Reservations'
  <2>1. Unmoved
    BY <1>4
    DEF WorkerAdmitted, QueueTimeout, StartPreview, EndPreview, Slots!Take
  <2> QED
    BY <2>1, UnmovedReservations
<1>5. ASSUME NEW w \in Workers,
             PreviewTimeout(w) \/ SkipPreview(w) \/ Spawn(w) \/ Track(w)
      PROVE  Reservations'
  <2>1. Unmoved
    BY <1>5 DEF PreviewTimeout, SkipPreview, Spawn, Track
  <2> QED
    BY <2>1, UnmovedReservations
<1>6. ASSUME NEW w \in Workers,
             ProcessExits(w) \/ RunAgain(w) \/ FinishRun(w) \/ Report(w)
      PROVE  Reservations'
  <2>1. Unmoved
    BY <1>6 DEF ProcessExits, RunAgain, FinishRun, Report
  <2> QED
    BY <2>1, UnmovedReservations
<1>7. ASSUME NEW w \in Workers, WorkerReleases(w)
      PROVE  Reservations'
  BY <1>7 DEF WorkerReleases, Slots!Give
<1>8. ASSUME NEW m \in Monitors, ApplyReserves(m)
      PROVE  Reservations'
  BY <1>8 DEF ApplyReserves
<1>9. ASSUME NEW m \in Monitors, ApplyLeaves(m)
      PROVE  Reservations'
  BY <1>9 DEF ApplyLeaves
<1>10. ASSUME NEW m \in Monitors,
             ScanAdmitted(m) \/ ScanEnds(m) \/ ApplyAdmitted(m) \/
             ApplySpawns(m)
      PROVE  Reservations'
  <2>1. Unmoved
    BY <1>10
    DEF ScanAdmitted, ScanEnds, ApplyAdmitted, ApplySpawns, Slots!Take,
        Slots!Give
  <2> QED
    BY <2>1, UnmovedReservations
<1>11. ASSUME NEW m \in Monitors,
             ApplyTracks(m) \/ ApplyProcessExits(m) \/ ApplyFinishes(m) \/
             ApplyReleases(m)
      PROVE  Reservations'
  <2>1. Unmoved
    BY <1>11
    DEF ApplyTracks, ApplyProcessExits, ApplyFinishes, ApplyReleases,
        Slots!Give
  <2> QED
    BY <2>1, UnmovedReservations
<1>12. ASSUME NEW j \in Jobs, Cancel(j)
      PROVE  Reservations'
  <2>1. Unmoved
    BY <1>12 DEF Cancel
  <2> QED
    BY <2>1, UnmovedReservations
<1>13. CASE UNCHANGED vars
  BY <1>13 DEF vars
<1> QED
  BY <1>1, <1>2, <1>3, <1>4, <1>5, <1>6, <1>7, <1>8, <1>9, <1>10, <1>11,
     <1>12, <1>13
  DEF Next, WorkerStep, MonitorStep

\* Only admission and release change who is inside the gate.
LEMMA NextSlotsHeld == IInv /\ [Next]_vars => SlotsHeld'
<1> SUFFICES ASSUME IInv, [Next]_vars PROVE SlotsHeld'
  OBVIOUS
<1> USE EngineAssumption
    DEF IInv, TypeOK, GoWorker, GoMonitor, tables, history,
        SlotsHeld, WorkerHolds, MonitorHolds
<1>1. ASSUME NEW w \in Workers, WorkerAdmitted(w)
      PROVE  SlotsHeld'
  <2>1. Slots!Take(w)
    BY <1>1 DEF WorkerAdmitted
  <2>2. IsFiniteSet(holding)' /\ (Cardinality(holding) <= MaxActive)'
    BY <2>1, TakeBounded
  <2> QED
    BY <1>1, <2>1, <2>2 DEF WorkerAdmitted, Slots!Take
<1>2. ASSUME NEW w \in Workers, WorkerReleases(w)
      PROVE  SlotsHeld'
  <2>1. Slots!Give(w)
    BY <1>2 DEF WorkerReleases
  <2>2. IsFiniteSet(holding)' /\ (Cardinality(holding) <= MaxActive)'
    BY <2>1, GiveBounded
  <2> QED
    BY <1>2, <2>1, <2>2 DEF WorkerReleases, Slots!Give
<1>3. ASSUME NEW w \in Workers,
             RunAsync(w) \/ QueueTimeout(w) \/ LeaveQueue(w) \/
             StartPreview(w)
      PROVE  SlotsHeld'
  BY <1>3, ZenonT(30) DEF RunAsync, QueueTimeout, LeaveQueue, StartPreview
<1>4. ASSUME NEW w \in Workers,
             EndPreview(w) \/ PreviewTimeout(w) \/ SkipPreview(w) \/
             Spawn(w)
      PROVE  SlotsHeld'
  BY <1>4 DEF EndPreview, PreviewTimeout, SkipPreview, Spawn
<1>5. ASSUME NEW w \in Workers,
             Track(w) \/ ProcessExits(w) \/ RunAgain(w) \/ FinishRun(w)
      PROVE  SlotsHeld'
  BY <1>5 DEF Track, ProcessExits, RunAgain, FinishRun
<1>6. ASSUME NEW w \in Workers,
             Report(w) \/ WorkerLeaves(w)
      PROVE  SlotsHeld'
  BY <1>6 DEF Report, WorkerLeaves
<1>7. ASSUME NEW m \in Monitors, ScanAdmitted(m)
      PROVE  SlotsHeld'
  <2>1. Slots!Take(m)
    BY <1>7 DEF ScanAdmitted
  <2>2. IsFiniteSet(holding)' /\ (Cardinality(holding) <= MaxActive)'
    BY <2>1, TakeBounded
  <2> QED
    BY <1>7, <2>1, <2>2 DEF ScanAdmitted, Slots!Take
<1>8. ASSUME NEW m \in Monitors, ScanEnds(m)
      PROVE  SlotsHeld'
  <2>1. Slots!Give(m)
    BY <1>8 DEF ScanEnds
  <2>2. IsFiniteSet(holding)' /\ (Cardinality(holding) <= MaxActive)'
    BY <2>1, GiveBounded
  <2> QED
    BY <1>8, <2>1, <2>2 DEF ScanEnds, Slots!Give
<1>9. ASSUME NEW m \in Monitors, ApplyReserves(m)
      PROVE  SlotsHeld'
  BY <1>9 DEF ApplyReserves
<1>10. ASSUME NEW m \in Monitors, ApplyAdmitted(m)
      PROVE  SlotsHeld'
  <2>1. Slots!Take(m)
    BY <1>10 DEF ApplyAdmitted
  <2>2. IsFiniteSet(holding)' /\ (Cardinality(holding) <= MaxActive)'
    BY <2>1, TakeBounded
  <2> QED
    BY <1>10, <2>1, <2>2 DEF ApplyAdmitted, Slots!Take
<1>11. ASSUME NEW m \in Monitors, ApplyReleases(m)
      PROVE  SlotsHeld'
  <2>1. Slots!Give(m)
    BY <1>11 DEF ApplyReleases
  <2>2. IsFiniteSet(holding)' /\ (Cardinality(holding) <= MaxActive)'
    BY <2>1, GiveBounded
  <2> QED
    BY <1>11, <2>1, <2>2 DEF ApplyReleases, Slots!Give
<1>12. ASSUME NEW m \in Monitors, ApplyLeaves(m)
      PROVE  SlotsHeld'
  BY <1>12 DEF ApplyLeaves
<1>13. ASSUME NEW m \in Monitors,
             ApplySpawns(m) \/ ApplyTracks(m) \/ ApplyProcessExits(m) \/
             ApplyFinishes(m)
      PROVE  SlotsHeld'
  BY <1>13 DEF ApplySpawns, ApplyTracks, ApplyProcessExits, ApplyFinishes
<1>14. ASSUME NEW j \in Jobs, Cancel(j)
      PROVE  SlotsHeld'
  BY <1>14 DEF Cancel
<1>15. CASE UNCHANGED vars
  BY <1>15 DEF vars
<1> QED
  BY <1>1, <1>2, <1>3, <1>4, <1>5, <1>6, <1>7, <1>8, <1>9, <1>10, <1>11,
     <1>12, <1>13, <1>14, <1>15
  DEF Next, WorkerStep, MonitorStep

\* A promise made in the queue survives until LeaveQueue, which keeps it; the
\* job's other threads are idle meanwhile, so they cannot unmake it.
LEMMA NextPromises == IInv /\ [Next]_vars => Promises'
<1> SUFFICES ASSUME IInv, [Next]_vars PROVE Promises'
  OBVIOUS
<1> USE EngineAssumption
    DEF IInv, TypeOK, GoWorker, GoMonitor, tables, history,
        Promises, Running, Reservations
<1>1. ASSUME NEW w \in Workers, RunAsync(w)
      PROVE  Promises'
  BY <1>1 DEF RunAsync
<1>2. ASSUME NEW w \in Workers, LeaveQueue(w)
      PROVE  Promises'
  BY <1>2 DEF LeaveQueue
<1>3. ASSUME NEW w \in Workers, WorkerLeaves(w)
      PROVE  Promises'
  BY <1>3 DEF WorkerLeaves
<1>4. ASSUME NEW w \in Workers,
             WorkerAdmitted(w) \/ QueueTimeout(w) \/ StartPreview(w) \/
             EndPreview(w)
      PROVE  Promises'
  BY <1>4
  DEF WorkerAdmitted, QueueTimeout, StartPreview, EndPreview, Slots!Take
<1>5. ASSUME NEW w \in Workers,
             PreviewTimeout(w) \/ SkipPreview(w) \/ Spawn(w) \/ Track(w)
      PROVE  Promises'
  BY <1>5 DEF PreviewTimeout, SkipPreview, Spawn, Track
<1>6. ASSUME NEW w \in Workers,
             ProcessExits(w) \/ RunAgain(w) \/ FinishRun(w) \/ Report(w)
      PROVE  Promises'
  BY <1>6 DEF ProcessExits, RunAgain, FinishRun, Report
<1>7. ASSUME NEW w \in Workers, WorkerReleases(w)
      PROVE  Promises'
  BY <1>7 DEF WorkerReleases, Slots!Give
<1>8. ASSUME NEW m \in Monitors,
             ScanAdmitted(m) \/ ScanEnds(m) \/ ApplyReserves(m) \/
             ApplyAdmitted(m)
      PROVE  Promises'
  BY <1>8
  DEF ScanAdmitted, ScanEnds, ApplyReserves, ApplyAdmitted, Slots!Take,
      Slots!Give
<1>9. ASSUME NEW m \in Monitors,
             ApplySpawns(m) \/ ApplyTracks(m) \/ ApplyProcessExits(m) \/
             ApplyFinishes(m)
      PROVE  Promises'
  BY <1>9 DEF ApplySpawns, ApplyTracks, ApplyProcessExits, ApplyFinishes
<1>10. ASSUME NEW m \in Monitors,
             ApplyReleases(m) \/ ApplyLeaves(m)
      PROVE  Promises'
  BY <1>10 DEF ApplyReleases, ApplyLeaves, Slots!Give
<1>11. ASSUME NEW j \in Jobs, Cancel(j)
      PROVE  Promises'
  BY <1>11 DEF Cancel
<1>12. CASE UNCHANGED vars
  BY <1>12 DEF vars
<1> QED
  BY <1>1, <1>2, <1>3, <1>4, <1>5, <1>6, <1>7, <1>8, <1>9, <1>10, <1>11,
     <1>12
  DEF Next, WorkerStep, MonitorStep

\* An entry stays while its thread goes on, and goes when the thread finishes.
LEMMA NextTables == IInv /\ [Next]_vars => Tables'
<1> SUFFICES ASSUME IInv, [Next]_vars PROVE Tables'
  OBVIOUS
<1> USE EngineAssumption
    DEF IInv, TypeOK, GoWorker, GoMonitor, tables, history,
        Tables, WorkerUses, MonitorUses
<1>1. ASSUME NEW w \in Workers,
             RunAsync(w) \/ WorkerAdmitted(w) \/ QueueTimeout(w) \/ LeaveQueue(w)
      PROVE  Tables'
  BY <1>1 DEF RunAsync, WorkerAdmitted, QueueTimeout, LeaveQueue, Slots!Take
<1>2. ASSUME NEW w \in Workers,
             StartPreview(w) \/ EndPreview(w) \/ PreviewTimeout(w) \/
             SkipPreview(w)
      PROVE  Tables'
  BY <1>2 DEF StartPreview, EndPreview, PreviewTimeout, SkipPreview
<1>3. ASSUME NEW w \in Workers,
             Spawn(w) \/ Track(w) \/ ProcessExits(w) \/ RunAgain(w)
      PROVE  Tables'
  BY <1>3 DEF Spawn, Track, ProcessExits, RunAgain
<1>4. ASSUME NEW w \in Workers,
             FinishRun(w) \/ Report(w) \/ WorkerReleases(w) \/ WorkerLeaves(w)
      PROVE  Tables'
  BY <1>4 DEF FinishRun, Report, WorkerReleases, WorkerLeaves, Slots!Give
<1>5. ASSUME NEW m \in Monitors,
             ScanAdmitted(m) \/ ScanEnds(m) \/ ApplyReserves(m) \/
             ApplyAdmitted(m)
      PROVE  Tables'
  BY <1>5
  DEF ScanAdmitted, ScanEnds, ApplyReserves, ApplyAdmitted, Slots!Take,
      Slots!Give
<1>6. ASSUME NEW m \in Monitors,
             ApplySpawns(m) \/ ApplyTracks(m) \/ ApplyProcessExits(m) \/
             ApplyFinishes(m)
      PROVE  Tables'
  BY <1>6 DEF ApplySpawns, ApplyTracks, ApplyProcessExits, ApplyFinishes
<1>7. ASSUME NEW m \in Monitors, ApplyReleases(m) \/ ApplyLeaves(m)
      PROVE  Tables'
  BY <1>7 DEF ApplyReleases, ApplyLeaves, Slots!Give
<1>8. ASSUME NEW j \in Jobs, Cancel(j)
      PROVE  Tables'
  BY <1>8 DEF Cancel
<1>9. CASE UNCHANGED vars
  BY <1>9 DEF vars
<1> QED
  BY <1>1, <1>2, <1>3, <1>4, <1>5, <1>6, <1>7, <1>8, <1>9
  DEF Next, WorkerStep, MonitorStep

LEMMA Invariant == Spec => []IInv
<1>1. IInv /\ [Next]_vars => IInv'
  BY NextType, NextReservations, NextSlotsHeld, NextPromises, NextTables DEF IInv
<1> QED
  BY <1>1, InitIInv, PTL DEF Spec

-----------------------------------------------------------------------------
\* The bookkeeping of the engine is well typed.
THEOREM TypeCorrect == Spec => []TypeOK
<1>1. IInv => TypeOK
  BY DEF IInv
<1> QED
  BY <1>1, Invariant, PTL

\* Every rclone process runs under a slot of the gate, and no more threads are
\* inside the gate than it has slots: _run_bounded_worker, _apply_incremental
\* and the monitors' scans start processes only within guard.
THEOREM ProcessesStayInGate == Spec => []ProcessesHoldSlots
<1>1. IInv => ProcessesHoldSlots
  BY DEF IInv, SlotsHeld, WorkerHolds, MonitorHolds, ProcessesHoldSlots,
         LiveThreads
<1> QED
  BY <1>1, Invariant, PTL

\* cancel keeps its promise: a run it marked in the queue starts neither a
\* preview nor a transfer, whenever the mark came.
THEOREM CancelKeepsPromise == Spec => []QueuedCancelHonoured
<1>1. IInv => QueuedCancelHonoured
  BY DEF IInv, Promises, QueuedCancelHonoured
<1> QED
  BY <1>1, Invariant, PTL

\* Nothing of a run outlives it: when no thread works for a mapping, none of the
\* engine's tables refuses or cancels its next run, and who does not work holds no slot
\* (the finally clauses of _run_bounded_worker, _run_worker and _apply_incremental).
THEOREM NothingIsLeftBehind == Spec => []NothingLeaks
<1>1. ASSUME IInv PROVE NothingLeaks
  <2> USE <1>1 DEF IInv, Running, Applying
  <2>1. ASSUME NEW j \in Jobs, \A w \in Workers : JobOf[w] = j => ~Running(w)
        PROVE  /\ j \notin active \union waiting \union cancelled
               /\ (\A m \in Monitors : JobOf[m] = j => ~Applying(m)) =>
                    j \notin incremental /\ processes[j] = "none"
    <3>1. j \notin active \union waiting \union cancelled
      BY <2>1 DEF Reservations, Tables
    <3>2. ASSUME \A m \in Monitors : JobOf[m] = j => ~Applying(m)
          PROVE  j \notin incremental /\ processes[j] = "none"
      BY <2>1, <3>2 DEF Reservations, Tables, WorkerUses, MonitorUses
    <3> QED
      BY <3>1, <3>2
  <2>2. /\ \A w \in Workers : ~Running(w) => w \notin holding
        /\ \A m \in Monitors : monitor[m] = "idle" => m \notin holding
    BY EngineAssumption DEF SlotsHeld, WorkerHolds, MonitorHolds
  <2> QED
    BY <2>1, <2>2 DEF NothingLeaks
<1> QED
  BY <1>1, Invariant, PTL

-----------------------------------------------------------------------------
(* The engine is a mutex per job.                                          *)

Inside == {w \in Workers : Running(w)} \union {m \in Monitors : Applying(m)}

\* Who is inside works for a reserved job.
LEMMA InsideIsReserved ==
  ASSUME IInv, NEW u \in Inside
  PROVE  JobOf[u] \in active \union incremental
BY DEF IInv, Reservations, Inside

LEMMA NextMutex == IInv /\ [Next]_vars => [Mutex!MutexNext]_Inside
<1> SUFFICES ASSUME IInv, [Next]_vars, Inside' # Inside
             PROVE  Mutex!MutexNext
  OBVIOUS
<1> USE EngineAssumption DEF IInv, TypeOK, GoWorker, GoMonitor, tables, history
<1>1. ASSUME NEW w \in Workers, RunAsync(w)
      PROVE  Mutex!Enter(w)
  <2>1. JobOf[w] \notin active \union incremental
    BY <1>1 DEF RunAsync
  <2>2. \A v \in Inside : JobOf[v] # JobOf[w]
    BY <2>1, InsideIsReserved
  <2>3. Inside' = Inside \union {w}
    BY <1>1 DEF RunAsync, Inside, Running, Applying
  <2> QED
    BY <2>2, <2>3 DEF Mutex!Enter, Inside
<1>2. ASSUME NEW m \in Monitors, ApplyReserves(m)
      PROVE  Mutex!Enter(m)
  <2>1. JobOf[m] \notin active \union incremental
    BY <1>2 DEF ApplyReserves
  <2>2. \A v \in Inside : JobOf[v] # JobOf[m]
    BY <2>1, InsideIsReserved
  <2>3. Inside' = Inside \union {m}
    BY <1>2 DEF ApplyReserves, Inside, Running, Applying
  <2> QED
    BY <2>2, <2>3 DEF Mutex!Enter, Inside
<1>3. ASSUME NEW w \in Workers, WorkerLeaves(w)
      PROVE  Mutex!Exit(w)
  BY <1>3 DEF WorkerLeaves, Inside, Running, Applying, Mutex!Exit
<1>4. ASSUME NEW m \in Monitors, ApplyLeaves(m)
      PROVE  Mutex!Exit(m)
  BY <1>4 DEF ApplyLeaves, Inside, Running, Applying, Mutex!Exit
<1>5. ASSUME NEW w \in Workers, WorkerAdmitted(w) \/ WorkerStep(w),
             ~WorkerLeaves(w)
      PROVE  Inside' = Inside
  BY <1>5
  DEF WorkerAdmitted, WorkerStep, QueueTimeout, LeaveQueue, StartPreview,
      EndPreview, PreviewTimeout, SkipPreview, Spawn, Track, ProcessExits,
      RunAgain, FinishRun, Report, WorkerReleases, Inside, Running, Applying
<1>6. ASSUME NEW j \in Jobs, Cancel(j)
      PROVE  Inside' = Inside
  BY <1>6 DEF Cancel, Inside, Running, Applying
<1>7. ASSUME NEW m \in Monitors,
             ScanAdmitted(m) \/ ApplyAdmitted(m) \/ MonitorStep(m),
             ~ApplyLeaves(m)
      PROVE  Inside' = Inside
  BY <1>7
  DEF ScanAdmitted, ApplyAdmitted, MonitorStep, ScanEnds, ApplySpawns,
      ApplyTracks, ApplyProcessExits, ApplyFinishes, ApplyReleases,
      Inside, Running, Applying
<1>8. CASE UNCHANGED vars
  BY <1>8 DEF vars, Inside, Running, Applying
<1> QED
  BY <1>1, <1>2, <1>3, <1>4, <1>5, <1>6, <1>7, <1>8
  DEF Next, Threads, Mutex!MutexNext

\* docs/ARCHITECTURE.md: a full job and a callback job for the same mapping do
\* not run concurrently.  Seen from the mapping, the engine is a mutex: a
\* thread enters when none of that mapping is inside, and leaves.
THEOREM EngineImplementsMutex == Spec => ImplementsMutex
<1>1. Init => Inside = {}
  BY DEF Init, Inside, Running, Applying
<1> QED
  BY <1>1, NextMutex, Invariant, PTL
     DEF Spec, ImplementsMutex, Mutex!MutexSpec, Inside

\* The mutex keeps its users of one job apart.
LEMMA MutexIsSafe == Mutex!MutexSpec => []Mutex!MutexSafe
<1>1. Inside = {} => Mutex!MutexSafe
  BY DEF Mutex!MutexSafe, Inside
<1>2. Mutex!MutexSafe /\ [Mutex!MutexNext]_Inside => Mutex!MutexSafe'
  <2> SUFFICES ASSUME Mutex!MutexSafe, [Mutex!MutexNext]_Inside
               PROVE  Mutex!MutexSafe'
    OBVIOUS
  <2> QED
    BY DEF Mutex!MutexSafe, Mutex!MutexNext, Mutex!Enter, Mutex!Exit, Inside
<1> QED
  BY <1>1, <1>2, PTL DEF Mutex!MutexSpec, Inside

\* At any moment at most one thread, full run or monitor, is between the
\* reservation and the release of one mapping.
THEOREM MutexExcludes == Spec => []Mutex!MutexSafe
BY EngineImplementsMutex, MutexIsSafe, PTL DEF ImplementsMutex
=============================================================================
