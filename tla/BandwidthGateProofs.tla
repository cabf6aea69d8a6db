------------------------- MODULE BandwidthGateProofs -------------------------
(***************************************************************************)
(* For any threads, any number of slots and any requests: the gate's       *)
(* bookkeeping is right, and the gate implements TransferSlots.            *)
(***************************************************************************)
EXTENDS BandwidthGate, FiniteSetTheorems, SequenceTheorems, TLAPS

\* Taking a token out of the queue leaves a queue of threads.
LEMMA DequeueType ==
  ASSUME NEW q \in Seq(Threads), NEW i \in DOMAIN q
  PROVE  Dequeue(q, i) \in Seq(Threads)
<1>1. i \in 1..Len(q) /\ Len(q) \in Nat
  OBVIOUS
<1>2. SubSeq(q, 1, i - 1) \in Seq(Threads)
  BY <1>1
<1>3. SubSeq(q, i + 1, Len(q)) \in Seq(Threads)
  BY <1>1
<1> QED
  BY <1>2, <1>3 DEF Dequeue

LEMMA CountType ==
  ASSUME NEW r \in Requests
  PROVE  Count(r) \in 1..MaxActive
BY GateAssumption DEF Count

\* The invariant that is inductive: the types, and the accounting of slots
\* over a finite set of holders, of which an exclusive one is the only one.
ExclusiveAlone == \A t, u \in Holders : request[t].exclusive => t = u

IInv ==
  /\ TypeOK
  /\ IsFiniteSet(Holders)
  /\ SlotsAccounted
  /\ ExclusiveAlone

\* The effect of an admission on the holders, whichever action admits.
LEMMA Admission ==
  ASSUME IInv, NEW t \in Threads, t \notin Holders, NEW r \in Requests,
         available >= Count(r),
         available' = available - Count(r),
         pc' = [pc EXCEPT ![t] = "holding"],
         request' = [request EXCEPT ![t] = r]
  PROVE  /\ available' \in 0..MaxActive
         /\ Holders' = Holders \union {t}
         /\ IsFiniteSet(Holders)'
         /\ SlotsAccounted'
         /\ ExclusiveAlone'
         /\ ~ \E u \in Holders : request[u].exclusive
         /\ Cardinality(Holders) < MaxActive
         /\ r.exclusive => Holders = {}
<1> USE GateAssumption
<1>1. Holders' = Holders \union {t}
  BY DEF IInv, TypeOK, Holders
<1>2. /\ request'[t] = r
      /\ \A u \in Holders : request'[u] = request[u]
  BY DEF IInv, TypeOK, Holders
<1>3. Count(r) \in 1..MaxActive /\ available \in 0..MaxActive
  BY CountType DEF IInv, TypeOK
<1>4. /\ ~ \E u \in Holders : request[u].exclusive
      /\ available + Cardinality(Holders) = MaxActive
  BY <1>3 DEF IInv, SlotsAccounted
<1>5. /\ IsFiniteSet(Holders \union {t})
      /\ Cardinality(Holders \union {t}) = Cardinality(Holders) + 1
  BY FS_AddElement DEF IInv
<1>6. Cardinality(Holders) \in Nat
  BY FS_CardinalityType DEF IInv
<1>7. r.exclusive => Holders = {}
  <2> HAVE r.exclusive
  <2>1. Cardinality(Holders) = 0
    BY <1>3, <1>4, <1>6 DEF Count
  <2> QED
    BY <2>1, FS_EmptySet DEF IInv
<1>8. ExclusiveAlone'
  BY <1>1, <1>2, <1>4, <1>7 DEF ExclusiveAlone
<1>9. SlotsAccounted'
  <2>1. CASE r.exclusive
    <3>1. Cardinality(Holders') = 1
      BY <2>1, <1>1, <1>5, <1>7, FS_EmptySet
    <3>2. available' = 0
      BY <2>1, <1>3 DEF Count
    <3> QED
      BY <2>1, <1>1, <1>2, <3>1, <3>2 DEF SlotsAccounted
  <2>2. CASE ~r.exclusive
    <3>1. ~ \E u \in Holders' : request'[u].exclusive
      BY <2>2, <1>1, <1>2, <1>4
    <3>2. available' + Cardinality(Holders') = MaxActive
      BY <2>2, <1>1, <1>3, <1>4, <1>5, <1>6 DEF Count
    <3> QED
      BY <3>1, <3>2 DEF SlotsAccounted
  <2> QED
    BY <2>1, <2>2
<1> QED
  BY <1>1, <1>3, <1>4, <1>5, <1>6, <1>7, <1>8, <1>9 DEF Count

\* The effect of a release.
LEMMA Leaving ==
  ASSUME IInv, NEW t \in Holders,
         available' = available + Count(request[t]),
         pc' = NotifyAll([pc EXCEPT ![t] = "idle"]),
         UNCHANGED request
  PROVE  /\ available' \in 0..MaxActive
         /\ Holders' = Holders \ {t}
         /\ IsFiniteSet(Holders)'
         /\ SlotsAccounted'
         /\ ExclusiveAlone'
<1> USE GateAssumption
<1>1. Holders' = Holders \ {t}
  BY DEF IInv, TypeOK, Holders, NotifyAll
<1>2. /\ IsFiniteSet(Holders \ {t})
      /\ Cardinality(Holders \ {t}) = Cardinality(Holders) - 1
  BY FS_RemoveElement DEF IInv
<1>3. /\ Cardinality(Holders) \in Nat
      /\ Cardinality(Holders \ {t}) \in Nat
  BY <1>2, FS_CardinalityType DEF IInv
<1>4. t \in Threads /\ request[t] \in Requests /\ available \in 0..MaxActive
  BY DEF Holders, IInv, TypeOK
<1>5. ExclusiveAlone'
  BY <1>1 DEF ExclusiveAlone, IInv
<1>6. ~ \E u \in Holders' : request'[u].exclusive
  <2>1. CASE request[t].exclusive
    BY <1>1, <2>1 DEF ExclusiveAlone, IInv
  <2>2. CASE ~request[t].exclusive
    BY <1>1, <2>2 DEF ExclusiveAlone, IInv
  <2> QED
    BY <2>1, <2>2
<1>7. available' + Cardinality(Holders \ {t}) = MaxActive
  <2>1. CASE request[t].exclusive
    BY <2>1, <1>2, <1>3, <1>4 DEF Count, SlotsAccounted, IInv
  <2>2. CASE ~request[t].exclusive
    <3>1. ~ \E u \in Holders : request[u].exclusive
      BY <2>2 DEF ExclusiveAlone, IInv
    <3> QED
      BY <2>2, <3>1, <1>2, <1>3, <1>4 DEF Count, SlotsAccounted, IInv
  <2> QED
    BY <2>1, <2>2
<1>8. available' \in 0..MaxActive
  <2>1. available' \in Nat
    BY <1>4, CountType
  <2> QED
    BY <2>1, <1>3, <1>7
<1> QED
  BY <1>1, <1>2, <1>5, <1>6, <1>7, <1>8 DEF SlotsAccounted

\* An action that moves no thread in or out of "holding" leaves the
\* accounting as it is.
LEMMA HoldersUnchanged ==
  ASSUME IInv, Holders' = Holders, UNCHANGED available,
         \A t \in Holders : request'[t] = request[t]
  PROVE  /\ available' \in 0..MaxActive
         /\ IsFiniteSet(Holders)'
         /\ SlotsAccounted'
         /\ ExclusiveAlone'
BY DEF IInv, TypeOK, SlotsAccounted, ExclusiveAlone

-----------------------------------------------------------------------------
LEMMA InitIInv == Init => IInv
<1> SUFFICES ASSUME Init PROVE IInv
  OBVIOUS
<1> USE GateAssumption DEF Init
<1>1. Holders = {}
  BY DEF Holders
<1>2. IsFiniteSet(Holders) /\ Cardinality(Holders) = 0
  BY <1>1, FS_EmptySet
<1>3. TypeOK
  <2>1. (CHOOSE r \in Requests : TRUE) \in Requests
    OBVIOUS
  <2> QED
    BY <2>1 DEF TypeOK
<1> QED
  BY <1>1, <1>2, <1>3 DEF IInv, SlotsAccounted, ExclusiveAlone

LEMMA NextIInv == IInv /\ [Next]_vars => IInv'
<1> SUFFICES ASSUME IInv, [Next]_vars PROVE IInv'
  OBVIOUS
<1> USE DEF IInv
<1>1. ASSUME NEW t \in Threads, NEW r \in Requests, EnterAndGo(t, r)
      PROVE  IInv'
  <2>1. t \notin Holders
    BY <1>1 DEF EnterAndGo, Holders
  <2>2. available >= Count(r)
    BY <1>1 DEF EnterAndGo, Fits, TypeOK
  <2>3. /\ available' = available - Count(r)
        /\ pc' = [pc EXCEPT ![t] = "holding"]
        /\ request' = [request EXCEPT ![t] = r]
    BY <1>1 DEF EnterAndGo
  <2>4. TypeOK'
    <3>1. available' \in 0..MaxActive
      BY <2>1, <2>2, <2>3, Admission
    <3> QED
      BY <1>1, <2>3, <3>1 DEF TypeOK, EnterAndGo
  <2> QED
    BY <2>1, <2>2, <2>3, <2>4, Admission
<1>2. ASSUME NEW t \in Threads, NEW r \in Requests, EnterAndWait(t, r)
      PROVE  IInv'
  <2>1. /\ Holders' = Holders
        /\ UNCHANGED available
        /\ \A u \in Holders : request'[u] = request[u]
    BY <1>2 DEF EnterAndWait, Holders, TypeOK
  <2>2. TypeOK'
    BY <1>2 DEF EnterAndWait, TypeOK
  <2> QED
    BY <2>1, <2>2, HoldersUnchanged
<1>3. ASSUME NEW t \in Threads, NEW i \in DOMAIN waiters, Admit(t, i)
      PROVE  IInv'
  <2>1. t \notin Holders /\ request[t] \in Requests
    BY <1>3 DEF Admit, Holders, TypeOK
  <2>2. available >= Count(request[t])
    BY <1>3 DEF Admit, Fits, TypeOK
  <2>3. /\ available' = available - Count(request[t])
        /\ pc' = [pc EXCEPT ![t] = "holding"]
        /\ request' = [request EXCEPT ![t] = request[t]]
    BY <1>3 DEF Admit, TypeOK
  <2>4. TypeOK'
    <3>1. waiters' \in Seq(Threads)
      BY <1>3, DequeueType DEF Admit, TypeOK
    <3> QED
      BY <1>3, <3>1, <2>1, <2>2, <2>3, Admission DEF TypeOK, Admit
  <2> QED
    BY <2>1, <2>2, <2>3, <2>4, Admission
<1>4. ASSUME NEW t \in Threads, NEW i \in DOMAIN waiters, GiveUp(t, i)
      PROVE  IInv'
  <2>1. /\ Holders' = Holders
        /\ UNCHANGED <<available, request>>
    BY <1>4 DEF GiveUp, Holders, TypeOK, NotifyAll
  <2>2. TypeOK'
    <3>1. waiters' \in Seq(Threads)
      BY <1>4, DequeueType DEF GiveUp, TypeOK
    <3> QED
      BY <1>4, <3>1 DEF GiveUp, TypeOK, NotifyAll
  <2> QED
    BY <2>1, <2>2, HoldersUnchanged
<1>5. ASSUME NEW t \in Threads, NEW i \in DOMAIN waiters, SleepAgain(t, i)
      PROVE  IInv'
  <2>1. /\ Holders' = Holders
        /\ UNCHANGED <<available, request>>
    BY <1>5 DEF SleepAgain, Holders, TypeOK
  <2>2. TypeOK'
    BY <1>5 DEF SleepAgain, TypeOK
  <2> QED
    BY <2>1, <2>2, HoldersUnchanged
<1>6. ASSUME NEW t \in Threads, DeadlinePasses(t)
      PROVE  IInv'
  <2>1. /\ Holders' = Holders
        /\ UNCHANGED <<available, request>>
    BY <1>6 DEF DeadlinePasses, Holders, Waiting, TypeOK
  <2>2. TypeOK'
    BY <1>6 DEF DeadlinePasses, Waiting, TypeOK
  <2> QED
    BY <2>1, <2>2, HoldersUnchanged
<1>7. ASSUME NEW t \in Threads, Release(t)
      PROVE  IInv'
  <2>1. /\ t \in Holders
        /\ available' = available + Count(request[t])
        /\ pc' = NotifyAll([pc EXCEPT ![t] = "idle"])
        /\ UNCHANGED request
    BY <1>7 DEF Release, Holders
  <2>2. TypeOK'
    BY <1>7, <2>1, Leaving DEF TypeOK, Release, NotifyAll
  <2> QED
    BY <2>1, <2>2, Leaving
<1>8. CASE UNCHANGED vars
  BY <1>8 DEF vars, TypeOK, SlotsAccounted, ExclusiveAlone, Holders
<1> QED
  BY <1>1, <1>2, <1>3, <1>4, <1>5, <1>6, <1>7, <1>8 DEF Next, Recheck

LEMMA Invariant == Spec => []IInv
BY InitIInv, NextIInv, PTL DEF Spec

\* The state of the gate is well typed; above all _available_slots neither
\* goes below zero nor above max_active, whoever enters, is admitted, times
\* out or leaves.
THEOREM TypeCorrect == Spec => []TypeOK
<1>1. IInv => TypeOK
  BY DEF IInv
<1> QED
  BY <1>1, Invariant, PTL

\* The slots guard counts as free are those that nobody holds: a timeout or
\* an exclusive request leaks none.
THEOREM SlotsAreAccounted == Spec => []SlotsAccounted
<1>1. IInv => SlotsAccounted
  BY DEF IInv
<1> QED
  BY <1>1, Invariant, PTL

-----------------------------------------------------------------------------
(* The gate implements TransferSlots.                                      *)

LEMMA InitSlots == Init => Slots!SlotsInit
BY DEF Init, Slots!SlotsInit, Holders

\* Being admitted is taking a slot, or all of them.
LEMMA AdmissionTakes ==
  ASSUME IInv, NEW t \in Threads, t \notin Holders, NEW r \in Requests,
         available >= Count(r),
         available' = available - Count(r),
         pc' = [pc EXCEPT ![t] = "holding"],
         request' = [request EXCEPT ![t] = r]
  PROVE  Slots!Take(t) \/ Slots!TakeAll(t)
<1>1. /\ Holders' = Holders \union {t}
      /\ ~ \E u \in Holders : request[u].exclusive
      /\ Cardinality(Holders) < MaxActive
      /\ r.exclusive => Holders = {}
  BY Admission
<1>2. /\ request'[t] = r
      /\ \A u \in Holders : request'[u] = request[u]
  BY DEF IInv, TypeOK, Holders
<1>3. r.exclusive \in BOOLEAN
  BY GateAssumption
<1>4. CASE r.exclusive
  BY <1>1, <1>2, <1>4 DEF Slots!TakeAll, Holders
<1>5. CASE ~r.exclusive
  <2>1. Slots!Cardinality(Holders) = Cardinality(Holders)
    BY DEF Slots!Cardinality, Cardinality
  <2>2. {u \in Holders : request[u].exclusive} = {}
    BY <1>1
  <2>3. {u \in Holders : request[u].exclusive}' = {}
    BY <1>1, <1>2, <1>5
  <2> QED
    BY <1>1, <2>1, <2>2, <2>3 DEF Slots!Take
<1> QED
  BY <1>3, <1>4, <1>5

LEMMA NextSlots == IInv /\ [Next]_vars => [Slots!SlotsNext]_(Slots!slotVars)
<1> SUFFICES ASSUME IInv, [Next]_vars
             PROVE  [Slots!SlotsNext]_(Slots!slotVars)
  OBVIOUS
<1>1. ASSUME NEW t \in Threads, NEW r \in Requests, EnterAndGo(t, r)
      PROVE  Slots!Take(t) \/ Slots!TakeAll(t)
  <2>1. /\ t \notin Holders
        /\ available >= Count(r)
        /\ available' = available - Count(r)
        /\ pc' = [pc EXCEPT ![t] = "holding"]
        /\ request' = [request EXCEPT ![t] = r]
    BY <1>1 DEF EnterAndGo, Fits, Holders, IInv, TypeOK
  <2> QED
    BY <2>1, AdmissionTakes
<1>2. ASSUME NEW t \in Threads, NEW i \in DOMAIN waiters, Admit(t, i)
      PROVE  Slots!Take(t) \/ Slots!TakeAll(t)
  <2>1. /\ t \notin Holders
        /\ request[t] \in Requests
        /\ available >= Count(request[t])
        /\ available' = available - Count(request[t])
        /\ pc' = [pc EXCEPT ![t] = "holding"]
        /\ request' = [request EXCEPT ![t] = request[t]]
    BY <1>2 DEF Admit, Fits, Holders, IInv, TypeOK
  <2> QED
    BY <2>1, AdmissionTakes
<1>3. ASSUME NEW t \in Threads, Release(t)
      PROVE  Slots!Give(t)
  <2>1. t \in Holders /\ UNCHANGED request
    BY <1>3 DEF Release, Holders
  <2>2. Holders' = Holders \ {t}
    BY <1>3 DEF Release, Holders, NotifyAll, IInv, TypeOK
  <2>3. {u \in Holders : request[u].exclusive}' =
          {u \in Holders : request[u].exclusive} \ {t}
    BY <2>1, <2>2
  <2> QED
    BY <2>1, <2>2, <2>3 DEF Slots!Give
<1>4. ASSUME Holders' = Holders, \A t \in Holders : request'[t] = request[t]
      PROVE  UNCHANGED Slots!slotVars
  BY <1>4 DEF Slots!slotVars
<1>5. ASSUME NEW t \in Threads, NEW r \in Requests, EnterAndWait(t, r)
      PROVE  UNCHANGED Slots!slotVars
  BY <1>4, <1>5 DEF EnterAndWait, Holders, IInv, TypeOK
<1>6. ASSUME NEW t \in Threads, NEW i \in DOMAIN waiters,
             GiveUp(t, i) \/ SleepAgain(t, i)
      PROVE  UNCHANGED Slots!slotVars
  BY <1>4, <1>6 DEF GiveUp, SleepAgain, Holders, NotifyAll, IInv, TypeOK
<1>7. ASSUME NEW t \in Threads, DeadlinePasses(t)
      PROVE  UNCHANGED Slots!slotVars
  BY <1>4, <1>7 DEF DeadlinePasses, Waiting, Holders, IInv, TypeOK
<1>8. CASE UNCHANGED vars
  BY <1>4, <1>8 DEF vars, Holders
<1> QED
  BY <1>1, <1>2, <1>3, <1>5, <1>6, <1>7, <1>8
  DEF Next, Recheck, Slots!SlotsNext

\* Whatever the queue does, what a caller of guard sees is a counting gate:
\* at most max_active inside, and an exclusive caller alone.
THEOREM GateImplementsSlots == Spec => ImplementsSlots
BY InitSlots, NextSlots, Invariant, PTL
   DEF Spec, ImplementsSlots, Slots!SlotsSpec

-----------------------------------------------------------------------------
(* The queue, and who is awake in it.                                      *)

\* What is left of a queue without repetitions when one token is taken out.
LEMMA DequeueRest ==
  ASSUME NEW q \in Seq(Threads), NEW i \in DOMAIN q,
         \A j, k \in DOMAIN q : q[j] = q[k] => j = k
  PROVE  LET rest == Dequeue(q, i) IN
         /\ {rest[k] : k \in DOMAIN rest} = {q[k] : k \in DOMAIN q} \ {q[i]}
         /\ \A j, k \in DOMAIN rest : rest[j] = rest[k] => j = k
<1> DEFINE before == SubSeq(q, 1, i - 1)
           after == SubSeq(q, i + 1, Len(q))
           rest == Dequeue(q, i)
<1>1. i \in 1..Len(q) /\ Len(q) \in Nat /\ DOMAIN q = 1..Len(q)
  OBVIOUS
<1>2. before \in Seq(Threads) /\ Len(before) = i - 1
      /\ \A k \in 1..(i - 1) : before[k] = q[k]
  BY <1>1
<1>3. after \in Seq(Threads) /\ Len(after) = Len(q) - i
      /\ \A k \in 1..(Len(q) - i) : after[k] = q[k + i]
  BY <1>1
<1>4. rest = before \o after
  BY DEF Dequeue
<1> HIDE DEF rest, before, after
<1>5. rest \in Seq(Threads) /\ Len(rest) = Len(q) - 1
  <2>1. rest \in Seq(Threads) /\ Len(rest) = Len(before) + Len(after)
    BY <1>2, <1>3, <1>4, ConcatProperties
  <2> QED
    BY <1>1, <1>2, <1>3, <2>1
<1>6. /\ \A k \in 1..(i - 1) : rest[k] = q[k]
      /\ \A k \in i..(Len(q) - 1) : rest[k] = q[k + 1]
  <2>1. \A k \in 1..(i - 1) : rest[k] = before[k]
    BY <1>1, <1>2, <1>3, <1>4
  <2>2. ASSUME NEW k \in i..(Len(q) - 1)
        PROVE  rest[k] = q[k + 1]
    <3>1. rest[k] = after[k - Len(before)]
      BY <1>1, <1>2, <1>3, <1>4
    <3>2. k - Len(before) \in 1..(Len(q) - i) /\ (k - Len(before)) + i = k + 1
      BY <1>1, <1>2
    <3> QED
      BY <1>3, <3>1, <3>2
  <2> QED
    BY <1>2, <2>1, <2>2
<1>7. DOMAIN rest = 1..(Len(q) - 1)
  BY <1>1, <1>5
<1>8. ASSUME NEW k \in DOMAIN q, k # i
      PROVE  \E j \in DOMAIN rest : rest[j] = q[k]
  <2>1. CASE k < i
    BY <1>1, <1>6, <1>7, <1>8, <2>1
  <2>2. CASE k > i
    <3>1. k - 1 \in i..(Len(q) - 1) /\ (k - 1) + 1 = k
      BY <1>1, <2>2
    <3>2. rest[k - 1] = q[k]
      BY <1>6, <3>1
    <3> QED
      BY <1>1, <1>7, <3>1, <3>2
  <2> QED
    BY <1>1, <1>8, <2>1, <2>2
<1>9. ASSUME NEW j \in DOMAIN rest
      PROVE  \E k \in DOMAIN q \ {i} : /\ rest[j] = q[k]
                                       /\ k = IF j < i THEN j ELSE j + 1
  BY <1>1, <1>6, <1>7
<1>10. {rest[k] : k \in DOMAIN rest} = {q[k] : k \in DOMAIN q} \ {q[i]}
  BY <1>8, <1>9
<1>11. \A j, k \in DOMAIN rest : rest[j] = rest[k] => j = k
  BY <1>1, <1>7, <1>9
<1> QED
  BY <1>10, <1>11 DEF rest

LEMMA NextQueue == IInv /\ QueueMatchesThreads /\ [Next]_vars => QueueMatchesThreads'
<1> SUFFICES ASSUME IInv, QueueMatchesThreads, [Next]_vars PROVE QueueMatchesThreads'
  OBVIOUS
<1>0. TypeOK
  BY DEF IInv
<1>1. ASSUME NEW t \in Threads, NEW r \in Requests, EnterAndGo(t, r)
      PROVE  QueueMatchesThreads'
  <2>1. Waiting' = Waiting
    BY <1>0, <1>1 DEF EnterAndGo, TypeOK, Waiting
  <2> QED
    BY <1>1, <2>1 DEF EnterAndGo, QueueMatchesThreads
<1>2. ASSUME NEW t \in Threads, NEW r \in Requests, EnterAndWait(t, r)
      PROVE  QueueMatchesThreads'
  <2>1. Waiting' = Waiting \union {t} /\ t \notin Waiting
    BY <1>0, <1>2 DEF EnterAndWait, TypeOK, Waiting
  <2>2. /\ waiters' = Append(waiters, t)
        /\ DOMAIN waiters' = DOMAIN waiters \union {Len(waiters) + 1}
        /\ \A i \in DOMAIN waiters : waiters'[i] = waiters[i]
        /\ waiters'[Len(waiters) + 1] = t
    BY <1>0, <1>2 DEF EnterAndWait, TypeOK
  <2> QED
    BY <2>1, <2>2 DEF QueueMatchesThreads
<1>3. ASSUME NEW t \in Threads, NEW i \in DOMAIN waiters, waiters[i] = t,
             waiters' = Dequeue(waiters, i), Waiting' = Waiting \ {t}
      PROVE  QueueMatchesThreads'
  <2> DEFINE rest == Dequeue(waiters, i)
  <2>1. /\ {rest[k] : k \in DOMAIN rest} = {waiters[k] : k \in DOMAIN waiters} \ {t}
        /\ \A j, k \in DOMAIN rest : rest[j] = rest[k] => j = k
    BY <1>0, <1>3, DequeueRest DEF TypeOK, QueueMatchesThreads
  <2> HIDE DEF rest
  <2>2. waiters' = rest
    BY <1>3 DEF rest
  <2> QED
    BY <1>3, <2>1, <2>2 DEF QueueMatchesThreads
<1>4. ASSUME NEW t \in Threads, NEW i \in DOMAIN waiters, Admit(t, i)
      PROVE  QueueMatchesThreads'
  <2>1. Waiting' = Waiting \ {t}
    BY <1>0, <1>4 DEF Admit, TypeOK, Waiting
  <2> QED
    BY <1>3, <1>4, <2>1 DEF Admit
<1>5. ASSUME NEW t \in Threads, NEW i \in DOMAIN waiters, GiveUp(t, i)
      PROVE  QueueMatchesThreads'
  <2>1. Waiting' = Waiting \ {t}
    BY <1>0, <1>5 DEF GiveUp, TypeOK, Waiting, NotifyAll
  <2> QED
    BY <1>3, <1>5, <2>1 DEF GiveUp
<1>6. ASSUME UNCHANGED waiters, Waiting' = Waiting
      PROVE  QueueMatchesThreads'
  BY <1>6 DEF QueueMatchesThreads
<1>7. ASSUME NEW t \in Threads,
             \/ \E i \in DOMAIN waiters : SleepAgain(t, i)
             \/ DeadlinePasses(t) \/ Release(t)
      PROVE  QueueMatchesThreads'
  <2>1. Waiting' = Waiting
    BY <1>0, <1>7 DEF SleepAgain, DeadlinePasses, Release, TypeOK, Waiting, NotifyAll
  <2> QED
    BY <1>6, <1>7, <2>1 DEF SleepAgain, DeadlinePasses, Release
<1>8. CASE UNCHANGED vars
  BY <1>6, <1>8 DEF vars, Waiting
<1> QED
  BY <1>1, <1>2, <1>4, <1>5, <1>7, <1>8 DEF Next, Recheck

\* With nobody inside all slots are free, and whoever is first fits.
LEMMA IdleFits ==
  ASSUME IInv, Holders = {}, NEW r \in Requests
  PROVE  available >= Count(r)
<1>1. available + 0 = MaxActive
  BY FS_EmptySet DEF IInv, SlotsAccounted
<1> QED
  BY <1>1, CountType, GateAssumption DEF IInv, TypeOK

LEMMA NextAwake ==
  IInv /\ QueueMatchesThreads /\ IdleGateIsNotAsleep /\ [Next]_vars => IdleGateIsNotAsleep'
<1> SUFFICES ASSUME IInv, QueueMatchesThreads, IdleGateIsNotAsleep, [Next]_vars,
                    Holders' = {}, NEW i \in DOMAIN waiters',
                    IsFirst(waiters', request', i)
             PROVE  pc'[waiters'[i]] = "ready"
  BY DEF IdleGateIsNotAsleep
<1>0. TypeOK /\ QueueMatchesThreads'
  BY NextQueue DEF IInv
<1>a. waiters'[i] \in Waiting'
  BY <1>0 DEF QueueMatchesThreads
<1>1. ASSUME NEW t \in Threads, NEW r \in Requests, EnterAndGo(t, r) PROVE FALSE
  BY <1>0, <1>1 DEF EnterAndGo, TypeOK, Holders
<1>2. ASSUME NEW t \in Threads, NEW k \in DOMAIN waiters, Admit(t, k) PROVE FALSE
  BY <1>0, <1>2 DEF Admit, TypeOK, Holders
<1>3. ASSUME NEW t \in Threads, NEW r \in Requests, EnterAndWait(t, r)
      PROVE  pc'[waiters'[i]] = "ready"
  <2>1. Holders = {} /\ t \notin Waiting
    BY <1>0, <1>3 DEF EnterAndWait, TypeOK, Holders, Waiting
  <2>2. available >= Count(r) /\ request' = [request EXCEPT ![t] = r]
    BY <1>3, <2>1, IdleFits DEF EnterAndWait
  <2>3. /\ waiters' = Append(waiters, t) /\ waiters \in Seq(Threads)
        /\ Len(waiters') = Len(waiters) + 1 /\ Len(waiters) \in Nat
    BY <1>0, <1>3 DEF EnterAndWait, TypeOK
  <2>4. waiters'[Len(waiters')] = t /\ request'[t] = r
    BY <1>0, <2>2, <2>3 DEF TypeOK
  <2>5. ~IsFirst(waiters', request', Len(waiters'))
    BY <1>3, <2>2, <2>3, <2>4 DEF EnterAndWait, Fits
  <2>6. i \in 1..Len(waiters)
    BY <2>3, <2>5
  <2>7. \A k \in 1..Len(waiters) :
          /\ waiters'[k] = waiters[k]
          /\ request'[waiters[k]] = request[waiters[k]]
    BY <1>0, <2>1, <2>2, <2>3 DEF QueueMatchesThreads, TypeOK
  <2>8. IsFirst(waiters, request, i)
    <3>1. ASSUME NEW k \in 1..(i - 1)
          PROVE  request[waiters[k]].priority > request[waiters[i]].priority
      <4>1. k \in 1..Len(waiters)
        BY <2>3, <2>6
      <4> QED
        BY <2>6, <2>7, <3>1, <4>1 DEF IsFirst
    <3>2. ASSUME NEW k \in (i + 1)..Len(waiters)
          PROVE  request[waiters[k]].priority >= request[waiters[i]].priority
      <4>1. k \in 1..Len(waiters) /\ k \in (i + 1)..Len(waiters')
        BY <2>3, <2>6
      <4> QED
        BY <2>6, <2>7, <4>1 DEF IsFirst
    <3> QED
      BY <3>1, <3>2 DEF IsFirst
  <2>9. pc[waiters[i]] = "ready"
    BY <2>1, <2>6, <2>8, <2>3 DEF IdleGateIsNotAsleep
  <2> QED
    BY <1>0, <1>3, <2>1, <2>6, <2>7, <2>9 DEF EnterAndWait, QueueMatchesThreads, TypeOK
<1>4. ASSUME NEW t \in Threads,
             (\E k \in DOMAIN waiters : GiveUp(t, k)) \/ Release(t)
      PROVE  pc'[waiters'[i]] = "ready"
  BY <1>0, <1>a, <1>4 DEF GiveUp, Release, NotifyAll, TypeOK, Waiting
<1>5. ASSUME NEW t \in Threads, NEW k \in DOMAIN waiters, SleepAgain(t, k)
      PROVE  pc'[waiters'[i]] = "ready"
  <2>1. Holders = {} /\ UNCHANGED <<waiters, request>>
    BY <1>0, <1>5 DEF SleepAgain, TypeOK, Holders
  <2>2. ~IsFirst(waiters, request, k)
    BY <1>0, <1>5, <2>1, IdleFits DEF SleepAgain, Fits, TypeOK
  <2>3. i # k /\ waiters[i] # waiters[k] /\ pc[waiters[i]] = "ready"
    BY <2>1, <2>2 DEF QueueMatchesThreads, IdleGateIsNotAsleep
  <2>4. waiters[i] \in Threads
    BY <1>0, <2>1 DEF TypeOK
  <2> QED
    BY <1>0, <1>5, <2>1, <2>3, <2>4 DEF SleepAgain, TypeOK
<1>6. ASSUME NEW t \in Threads, DeadlinePasses(t)
      PROVE  pc'[waiters'[i]] = "ready"
  <2>1. Holders = {} /\ UNCHANGED <<waiters, request>>
    BY <1>0, <1>6 DEF DeadlinePasses, TypeOK, Holders, Waiting
  <2>2. pc[waiters[i]] = "ready" /\ waiters[i] \in Threads
    BY <1>0, <2>1 DEF IdleGateIsNotAsleep, TypeOK
  <2> QED
    BY <1>0, <1>6, <2>1, <2>2 DEF DeadlinePasses, TypeOK
<1>7. CASE UNCHANGED vars
  BY <1>7 DEF vars, IdleGateIsNotAsleep, Holders
<1> QED
  BY <1>1, <1>2, <1>3, <1>4, <1>5, <1>6, <1>7 DEF Next, Recheck

LEMMA QueueInvariant == Spec => [](QueueMatchesThreads /\ IdleGateIsNotAsleep)
<1>1. Init => QueueMatchesThreads /\ IdleGateIsNotAsleep
  BY DEF Init, QueueMatchesThreads, IdleGateIsNotAsleep, Waiting
<1> QED
  BY <1>1, NextQueue, NextAwake, Invariant, PTL DEF Spec

\* Whoever waits in guard is in _waiters, once, and nobody else is: neither an admission
\* nor a timeout leaves a token behind.
THEOREM QueueHoldsWaiters == Spec => []QueueMatchesThreads
BY QueueInvariant, PTL

\* Although being admitted notifies nobody, no wakeup is lost: with nobody inside, who is
\* first in line is awake.
THEOREM NoWakeupIsLost == Spec => []IdleGateIsNotAsleep
BY QueueInvariant, PTL

\* Who is admitted is one of the threads, by an action of its own.
LEMMA WhoIsAdmitted ==
  ASSUME IInv, Next, NEW t \in Threads, pc[t] # "holding", pc'[t] = "holding"
  PROVE  \/ \E r \in Requests : EnterAndGo(t, r)
         \/ \E i \in DOMAIN waiters : Admit(t, i)
<1>1. PICK u \in Threads :
        \/ \E r \in Requests : EnterAndGo(u, r) \/ EnterAndWait(u, r)
        \/ Recheck(u) \/ DeadlinePasses(u) \/ Release(u)
  BY DEF Next
<1>2. pc \in [Threads -> {"idle", "asleep", "ready", "holding"}]
  BY DEF IInv, TypeOK
<1>3. CASE \E r \in Requests : EnterAndGo(u, r)
  BY <1>2, <1>3 DEF EnterAndGo
<1>4. CASE \E r \in Requests : EnterAndWait(u, r)
  BY <1>2, <1>4 DEF EnterAndWait
<1>5. CASE \E i \in DOMAIN waiters : Admit(u, i)
  BY <1>2, <1>5 DEF Admit
<1>6. CASE \E i \in DOMAIN waiters : GiveUp(u, i) \/ SleepAgain(u, i)
  BY <1>2, <1>6 DEF GiveUp, SleepAgain, NotifyAll
<1>7. CASE DeadlinePasses(u) \/ Release(u)
  BY <1>2, <1>7 DEF DeadlinePasses, Release, NotifyAll
<1> QED
  BY <1>1, <1>3, <1>4, <1>5, <1>6, <1>7 DEF Recheck

\* First come, first served within a priority, and a smaller number first: whoever enters
\* with a slot free passes nobody who is queued (bandwidth.py).
THEOREM NobodyOvertakes == Spec => NoOvertaking
<1> DEFINE Fair(t) ==
      pc[t] # "holding" /\ pc'[t] = "holding" =>
         \A u \in Waiting \ {t} :
           \/ request[u].priority > request'[t].priority
           \/ /\ request[u].priority = request'[t].priority
              /\ \E i, k \in DOMAIN waiters :
                   waiters[i] = t /\ waiters[k] = u /\ i < k
<1>1. ASSUME IInv, QueueMatchesThreads, Next, NEW t \in Threads
      PROVE  Fair(t)
  <2> SUFFICES ASSUME pc[t] # "holding", pc'[t] = "holding", NEW u \in Waiting \ {t}
               PROVE  \/ request[u].priority > request'[t].priority
                      \/ /\ request[u].priority = request'[t].priority
                         /\ \E i, k \in DOMAIN waiters :
                              waiters[i] = t /\ waiters[k] = u /\ i < k
    OBVIOUS
  <2>1. PICK k \in DOMAIN waiters : waiters[k] = u
    BY <1>1 DEF QueueMatchesThreads
  <2>2. /\ DOMAIN waiters = 1..Len(waiters) /\ Len(waiters) \in Nat
        /\ request \in [Threads -> Requests] /\ u \in Threads
        /\ \A r \in Requests : r.priority \in Nat
    BY <1>1, GateAssumption, LenProperties DEF IInv, TypeOK, Waiting
  <2>3. CASE \E r \in Requests : EnterAndGo(t, r)
    <3>1. PICK r \in Requests : EnterAndGo(t, r)
      BY <2>3
    <3> DEFINE queue == Append(waiters, t)
               req == [request EXCEPT ![t] = r]
    <3>2. /\ Len(queue) = Len(waiters) + 1 /\ queue[Len(queue)] = t /\ queue[k] = u
          /\ k \in 1..(Len(queue) - 1)
      BY <1>1, <2>1, <2>2, AppendProperties DEF IInv, TypeOK
    <3>3. IsFirst(queue, req, Len(queue)) /\ request' = req
      BY <3>1 DEF EnterAndGo, Fits
    <3>4. req[queue[k]].priority > req[queue[Len(queue)]].priority
      BY <3>2, <3>3 DEF IsFirst
    <3>5. req[u] = request[u] /\ request' = req
      BY <2>2, <3>3
    <3> HIDE DEF queue, req
    <3> QED
      BY <3>2, <3>4, <3>5
  <2>4. CASE \E i \in DOMAIN waiters : Admit(t, i)
    <3>1. PICK i \in DOMAIN waiters : Admit(t, i)
      BY <2>4
    <3>2. waiters[i] = t /\ IsFirst(waiters, request, i) /\ request' = request /\ i # k
      BY <2>1, <3>1 DEF Admit, Fits
    <3>3. CASE k < i
      <4>1. request[waiters[k]].priority > request[waiters[i]].priority
        BY <2>2, <3>2, <3>3 DEF IsFirst
      <4> QED
        BY <2>1, <3>2, <4>1
    <3>4. CASE i < k
      <4>1. request[waiters[k]].priority >= request[waiters[i]].priority
        BY <2>2, <3>2, <3>4 DEF IsFirst
      <4>2. request[u].priority \in Nat /\ request[t].priority \in Nat
        BY <2>2
      <4>3. request[u].priority > request[t].priority \/ request[u].priority = request[t].priority
        BY <2>1, <3>2, <4>1, <4>2
      <4> QED
        BY <2>1, <3>2, <3>4, <4>3
    <3> QED
      BY <2>2, <3>2, <3>3, <3>4
  <2> QED
    BY <1>1, <2>3, <2>4, WhoIsAdmitted
<1>2. IInv /\ QueueMatchesThreads /\ [Next]_vars => [\A t \in Threads : Fair(t)]_vars
  BY <1>1
<1> QED
  BY <1>2, Invariant, QueueHoldsWaiters, PTL DEF Spec, NoOvertaking
=============================================================================
