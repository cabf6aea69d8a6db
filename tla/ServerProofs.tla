---------------------------- MODULE ServerProofs ----------------------------
(***************************************************************************)
(* For any clients, sources, tenants, limits and jobs: the server's slots  *)
(* and counts are those of its connections, whatever the store and the     *)
(* agent do meanwhile and whenever the process ends; the pauses the agent  *)
(* writes are kept, whatever the connections do; so is what the store told *)
(* a client it has; and the usage it has cached is what its rows take.     *)
(***************************************************************************)
EXTENDS Server, FiniteSetTheorems, WellFoundedInduction, TLAPS

\* The connections of a group that are at one of some places.
Of(group, places) == In(places) \intersect group
From(s) == {c \in Connections : SourceOf[c] = s}
By(t) == {c \in Connections : TenantOf[c] = t}

Slots ==
  /\ requestSlots + Cardinality(Of(Connections, Holding)) = MaxRequests
  /\ \A s \in Sources : bySource[s] = Cardinality(Of(From(s), Serving))
  /\ relaySlots + Cardinality(Of(Connections, HoldingRelay)) = MaxRelays
  /\ \A t \in RelayTenants : byTenant[t] = Cardinality(Of(By(t), {"relaying"}))

IInv == RequestsTypeOK /\ Slots

LEMMA SlotsAreCounted == Slots <=> SlotsMatchConnections
<1>1. ASSUME NEW places PROVE Of(Connections, places) = In(places)
  BY DEF Of, In
<1>2. ASSUME NEW s PROVE Of(From(s), Serving) = {c \in In(Serving) : SourceOf[c] = s}
  BY DEF Of, In, From
<1>3. ASSUME NEW t
      PROVE  Of(By(t), {"relaying"}) = {c \in In({"relaying"}) : TenantOf[c] = t}
  BY DEF Of, In, By
<1> QED
  BY <1>1, <1>2, <1>3 DEF Slots, SlotsMatchConnections

LEMMA Countable ==
  ASSUME NEW group, NEW places
  PROVE  IsFiniteSet(Of(group, places)) /\ Cardinality(Of(group, places)) \in Nat
<1>1. Of(group, places) \subseteq Connections
  BY DEF Of, In
<1> QED
  BY <1>1, RequestsAssumption, FS_Subset, FS_CardinalityType

\* When one connection goes from one place to another, only the groups it belongs to are
\* counted anew.
LEMMA OneGoes ==
  ASSUME RequestsTypeOK, NEW c \in Connections, NEW place, Goes(c, place),
         NEW group, NEW places
  PROVE  /\ c \notin group => Of(group, places)' = Of(group, places)
         /\ (conn[c] \in places <=> place \in places) =>
              Of(group, places)' = Of(group, places)
         /\ c \in group /\ conn[c] \in places /\ place \notin places =>
              /\ Cardinality(Of(group, places)') = Cardinality(Of(group, places)) - 1
              /\ Cardinality(Of(group, places)) > 0
         /\ c \in group /\ conn[c] \notin places /\ place \in places =>
              Cardinality(Of(group, places)') = Cardinality(Of(group, places)) + 1
<1>1. /\ conn'[c] = place
      /\ \A d \in Connections \ {c} : conn'[d] = conn[d]
  BY DEF Goes, RequestsTypeOK
<1>2. c \notin group => Of(group, places)' = Of(group, places)
  BY <1>1 DEF Of, In
<1>3. (conn[c] \in places <=> place \in places) => Of(group, places)' = Of(group, places)
  BY <1>1 DEF Of, In
<1>4. ASSUME c \in group, conn[c] \in places, place \notin places
      PROVE  /\ Cardinality(Of(group, places)') = Cardinality(Of(group, places)) - 1
             /\ Cardinality(Of(group, places)) > 0
  <2>1. Of(group, places)' = Of(group, places) \ {c} /\ c \in Of(group, places)
    BY <1>1, <1>4 DEF Of, In
  <2>2. Cardinality(Of(group, places) \ {c}) = Cardinality(Of(group, places)) - 1
    BY <2>1, Countable, FS_RemoveElement
  <2>3. IsFiniteSet(Of(group, places) \ {c})
    BY Countable, FS_RemoveElement
  <2> QED
    BY <2>1, <2>2, <2>3, Countable, FS_CardinalityType
<1>5. ASSUME c \in group, conn[c] \notin places, place \in places
      PROVE  Cardinality(Of(group, places)') = Cardinality(Of(group, places)) + 1
  <2>1. Of(group, places)' = Of(group, places) \union {c} /\ c \notin Of(group, places)
    BY <1>1, <1>5 DEF Of, In
  <2> QED
    BY <2>1, Countable, FS_AddElement
<1> QED
  BY <1>2, <1>3, <1>4, <1>5

-----------------------------------------------------------------------------
Weight(place, places) == IF place \in places THEN 1 ELSE 0

LEMMA ChangesByWeights ==
  ASSUME RequestsTypeOK, NEW c \in Connections, NEW place, Goes(c, place),
         NEW group, NEW places, c \in group
  PROVE  /\ Cardinality(Of(group, places)') \in Nat
         /\ Cardinality(Of(group, places)') =
              Cardinality(Of(group, places)) + Weight(place, places)
                                             - Weight(conn[c], places)
<1>1. Cardinality(Of(group, places)) \in Nat
  BY Countable
<1>2. CASE conn[c] \in places <=> place \in places
  <2>1. Of(group, places)' = Of(group, places)
    BY <1>2, OneGoes
  <2>2. Weight(place, places) = Weight(conn[c], places) /\ Weight(place, places) \in 0..1
    BY <1>2 DEF Weight
  <2> QED
    BY <1>1, <2>1, <2>2
<1>3. CASE conn[c] \in places /\ place \notin places
  <2>1. /\ Cardinality(Of(group, places)') = Cardinality(Of(group, places)) - 1
        /\ Cardinality(Of(group, places)) > 0
    BY <1>3, OneGoes
  <2> QED
    BY <1>1, <1>3, <2>1 DEF Weight
<1>4. CASE conn[c] \notin places /\ place \in places
  <2>1. Cardinality(Of(group, places)') = Cardinality(Of(group, places)) + 1
    BY <1>4, OneGoes
  <2> QED
    BY <1>1, <1>4, <2>1 DEF Weight
<1> QED
  BY <1>2, <1>3, <1>4

\* Slots and counts stay right when they change by what the connection leaves and enters.
LEMMA GoingKeepsSlots ==
  ASSUME IInv, NEW c \in Connections, NEW place, Goes(c, place),
         requestSlots' = requestSlots + Weight(conn[c], Holding) - Weight(place, Holding),
         \A s \in Sources \ {SourceOf[c]} : bySource'[s] = bySource[s],
         bySource'[SourceOf[c]] = bySource[SourceOf[c]] + Weight(place, Serving)
                                                        - Weight(conn[c], Serving),
         relaySlots' = relaySlots + Weight(conn[c], HoldingRelay)
                                  - Weight(place, HoldingRelay),
         \A t \in RelayTenants \ {TenantOf[c]} : byTenant'[t] = byTenant[t],
         byTenant'[TenantOf[c]] = byTenant[TenantOf[c]] + Weight(place, {"relaying"})
                                                        - Weight(conn[c], {"relaying"})
  PROVE  Slots'
<1> USE DEF IInv
<1>0. /\ requestSlots \in Nat /\ relaySlots \in Nat
      /\ SourceOf[c] \in Sources /\ TenantOf[c] \in RelayTenants
      /\ MaxRequests \in Nat /\ MaxRelays \in Nat
  BY RequestsAssumption DEF RequestsTypeOK, Sources, RelayTenants
<1>1. requestSlots' + Cardinality(Of(Connections, Holding)') = MaxRequests
  <2>1. Cardinality(Of(Connections, Holding)) \in Nat
    BY Countable
  <2> QED
    BY <1>0, <2>1, ChangesByWeights DEF Slots, Weight
<1>2. relaySlots' + Cardinality(Of(Connections, HoldingRelay)') = MaxRelays
  <2>1. Cardinality(Of(Connections, HoldingRelay)) \in Nat
    BY Countable
  <2> QED
    BY <1>0, <2>1, ChangesByWeights DEF Slots, Weight
<1>3. ASSUME NEW s \in Sources
      PROVE  bySource'[s] = Cardinality(Of(From(s), Serving)')
  <2>1. CASE s = SourceOf[c]
    <3>1. c \in From(s)
      BY <2>1 DEF From
    <3> QED
      BY <1>0, <2>1, <3>1, ChangesByWeights DEF Slots
  <2>2. CASE s # SourceOf[c]
    <3>1. c \notin From(s)
      BY <2>2 DEF From
    <3>2. Of(From(s), Serving)' = Of(From(s), Serving)
      BY <3>1, OneGoes
    <3> QED
      BY <2>2, <3>2 DEF Slots
  <2> QED
    BY <2>1, <2>2
<1>4. ASSUME NEW t \in RelayTenants
      PROVE  byTenant'[t] = Cardinality(Of(By(t), {"relaying"})')
  <2>1. CASE t = TenantOf[c]
    <3>1. c \in By(t)
      BY <2>1 DEF By
    <3> QED
      BY <1>0, <2>1, <3>1, ChangesByWeights DEF Slots
  <2>2. CASE t # TenantOf[c]
    <3>1. c \notin By(t)
      BY <2>2 DEF By
    <3>2. Of(By(t), {"relaying"})' = Of(By(t), {"relaying"})
      BY <3>1, OneGoes
    <3> QED
      BY <2>2, <3>2 DEF Slots
  <2> QED
    BY <2>1, <2>2
<1>5. /\ Of(Connections, Holding)' = {d \in In(Holding)' : d \in Connections}
      /\ \A s : From(s)' = From(s)
  BY DEF Of, From, In
<1> QED
  BY <1>1, <1>2, <1>3, <1>4 DEF Slots

\* Then the types are kept, too: a slot too many would belong to no connection.
LEMMA TypesFollow ==
  ASSUME IInv, Slots', NEW c \in Connections, NEW place \in Places, Goes(c, place),
         requestSlots' \in Nat, bySource' \in [Sources -> 0..MaxPerSource],
         relaySlots' \in Nat, byTenant' \in [RelayTenants -> 0..MaxPerTenant]
  PROVE  IInv'
<1>1. conn' \in [Connections -> Places]
  BY DEF IInv, RequestsTypeOK, Goes
<1>2. /\ Cardinality(Of(Connections, Holding)') \in Nat
      /\ Cardinality(Of(Connections, HoldingRelay)') \in Nat
  BY ChangesByWeights DEF IInv
<1>3. requestSlots' \in 0..MaxRequests /\ relaySlots' \in 0..MaxRelays
  BY <1>2, RequestsAssumption DEF Slots
<1> QED
  BY <1>1, <1>3 DEF IInv, RequestsTypeOK

LEMMA AdmissionKeeps ==
  ASSUME IInv, NEW c \in Connections, Admission(c)
  PROVE  IInv'
<1> USE DEF Weight, Holding, Serving, HoldingRelay, Places
<1>0. /\ requestSlots \in Nat /\ relaySlots \in Nat
      /\ MaxPerSource \in Nat /\ MaxPerTenant \in Nat
      /\ SourceOf[c] \in Sources /\ bySource \in [Sources -> 0..MaxPerSource]
      /\ TenantOf[c] \in RelayTenants /\ byTenant \in [RelayTenants -> 0..MaxPerTenant]
  BY RequestsAssumption DEF IInv, RequestsTypeOK, Sources, RelayTenants
<1>1. CASE AcceptFull(c)
  <2>1. Slots'
    BY <1>0, <1>1, GoingKeepsSlots DEF AcceptFull, At, slotVars, relayVars
  <2> QED
    BY <1>0, <1>1, <2>1, TypesFollow DEF AcceptFull, slotVars, relayVars
<1>2. CASE AcceptTakes(c)
  <2>1. Slots'
    BY <1>0, <1>2, GoingKeepsSlots DEF AcceptTakes, At, relayVars
  <2> QED
    BY <1>0, <1>2, <2>1, TypesFollow DEF AcceptTakes, relayVars
<1>3. CASE AcceptRefuses(c)
  <2>1. Slots'
    BY <1>0, <1>3, GoingKeepsSlots DEF AcceptRefuses, At, relayVars
  <2> QED
    BY <1>0, <1>3, <2>1, TypesFollow DEF AcceptRefuses, relayVars
<1>4. CASE AcceptStarts(c)
  <2>1. Slots'
    BY <1>0, <1>4, GoingKeepsSlots DEF AcceptStarts, At, relayVars
  <2>2. bySource' \in [Sources -> 0..MaxPerSource]
    BY <1>0, <1>4 DEF AcceptStarts
  <2> QED
    BY <1>0, <1>4, <2>1, <2>2, TypesFollow DEF AcceptStarts, relayVars
<1>5. CASE AcceptFails(c)
  <2>1. Slots'
    BY <1>0, <1>5, GoingKeepsSlots DEF AcceptFails, At, relayVars
  <2>2. bySource' \in [Sources -> 0..MaxPerSource]
    BY <1>0, <1>5 DEF AcceptFails
  <2> QED
    BY <1>0, <1>5, <2>1, <2>2, TypesFollow DEF AcceptFails, relayVars
<1>6. CASE Ends(c)
  <2>1. Slots'
    BY <1>0, <1>6, GoingKeepsSlots DEF Ends, At, slotVars, relayVars
  <2> QED
    BY <1>0, <1>6, <2>1, TypesFollow DEF Ends, slotVars, relayVars
<1>7. CASE ReleaseCount(c)
  \* The source's count is at least one: this connection is in it.
  <2>1. bySource[SourceOf[c]] > 0
    <3>1. c \in Of(From(SourceOf[c]), Serving)
      BY <1>7 DEF ReleaseCount, At, Of, In, From
    <3>2. Cardinality(Of(From(SourceOf[c]), Serving)) # 0
      BY <3>1, Countable, FS_EmptySet
    <3> QED
      BY <1>0, <3>2 DEF IInv, Slots
  <2>2. bySource'[SourceOf[c]] = bySource[SourceOf[c]] - 1
    BY <1>0, <1>7, <2>1 DEF ReleaseCount
  <2>3. /\ bySource' \in [Sources -> 0..MaxPerSource]
        /\ \A s \in Sources \ {SourceOf[c]} : bySource'[s] = bySource[s]
    BY <1>0, <1>7 DEF ReleaseCount
  <2>4. Slots'
    BY <1>0, <1>7, <2>2, <2>3, GoingKeepsSlots DEF ReleaseCount, At, relayVars
  <2> QED
    BY <1>0, <1>7, <2>3, <2>4, TypesFollow DEF ReleaseCount, relayVars
<1>8. CASE ReleaseSlot(c)
  <2>1. Slots'
    BY <1>0, <1>8, GoingKeepsSlots DEF ReleaseSlot, At, relayVars
  <2> QED
    BY <1>0, <1>8, <2>1, TypesFollow DEF ReleaseSlot, relayVars
<1> QED
  BY <1>1, <1>2, <1>3, <1>4, <1>5, <1>6, <1>7, <1>8 DEF Admission

LEMMA RelayKeeps ==
  ASSUME IInv, NEW c \in Connections, Relay(c)
  PROVE  IInv'
<1> USE DEF Weight, Holding, Serving, HoldingRelay, Places
<1>0. /\ requestSlots \in Nat /\ relaySlots \in Nat
      /\ MaxPerSource \in Nat /\ MaxPerTenant \in Nat
      /\ SourceOf[c] \in Sources /\ bySource \in [Sources -> 0..MaxPerSource]
      /\ TenantOf[c] \in RelayTenants /\ byTenant \in [RelayTenants -> 0..MaxPerTenant]
  BY RequestsAssumption DEF IInv, RequestsTypeOK, Sources, RelayTenants
<1>1. CASE RelayTakes(c)
  <2>1. Slots'
    BY <1>0, <1>1, GoingKeepsSlots DEF RelayTakes, At, slotVars
  <2> QED
    BY <1>0, <1>1, <2>1, TypesFollow DEF RelayTakes, slotVars
<1>2. CASE RelayRefused(c)
  <2>1. Slots'
    BY <1>0, <1>2, GoingKeepsSlots DEF RelayRefused, At, slotVars
  <2> QED
    BY <1>0, <1>2, <2>1, TypesFollow DEF RelayRefused, slotVars
<1>3. CASE RelayReserved(c)
  <2>1. Slots'
    BY <1>0, <1>3, GoingKeepsSlots DEF RelayReserved, At, slotVars
  <2>2. byTenant' \in [RelayTenants -> 0..MaxPerTenant]
    BY <1>0, <1>3 DEF RelayReserved
  <2> QED
    BY <1>0, <1>3, <2>1, <2>2, TypesFollow DEF RelayReserved, slotVars
<1>4. CASE RelayEnds(c)
  \* The tenant's count is at least one: this connection is in it.
  <2>1. byTenant[TenantOf[c]] > 0
    <3>1. c \in Of(By(TenantOf[c]), {"relaying"})
      BY <1>4 DEF RelayEnds, At, Of, In, By
    <3>2. Cardinality(Of(By(TenantOf[c]), {"relaying"})) # 0
      BY <3>1, Countable, FS_EmptySet
    <3> QED
      BY <1>0, <3>2 DEF IInv, Slots
  <2>2. byTenant'[TenantOf[c]] = byTenant[TenantOf[c]] - 1
    BY <1>0, <1>4, <2>1 DEF RelayEnds
  <2>3. /\ byTenant' \in [RelayTenants -> 0..MaxPerTenant]
        /\ \A t \in RelayTenants \ {TenantOf[c]} : byTenant'[t] = byTenant[t]
    BY <1>0, <1>4 DEF RelayEnds
  <2>4. Slots'
    BY <1>0, <1>4, <2>2, <2>3, GoingKeepsSlots DEF RelayEnds, At, slotVars
  <2> QED
    BY <1>0, <1>4, <2>3, <2>4, TypesFollow DEF RelayEnds, slotVars
<1>5. CASE RelayFreed(c)
  <2>1. PICK place \in {"serving", "leaving"} : Goes(c, place)
    BY <1>5 DEF RelayFreed
  <2>2. Slots'
    BY <1>0, <1>5, <2>1, GoingKeepsSlots DEF RelayFreed, At, slotVars
  <2> QED
    BY <1>0, <1>5, <2>1, <2>2, TypesFollow DEF RelayFreed, slotVars
<1> QED
  BY <1>1, <1>2, <1>3, <1>4, <1>5 DEF Relay

\* A request that ends its thread, and no other, moves its connection.
LEMMA RequestKeeps ==
  ASSUME IInv, NEW c \in Connections, Request(c)
  PROVE  IInv'
<1>1. UNCHANGED requestVars \/ Ends(c)
  <2>1. ASSUME NEW table \in Tables, NEW size \in Sizes, NEW ttl \in TTLs,
               NEW outcome \in {"stored", "refused", "failed"},
               PostItem(c, table, size, ttl, outcome)
        PROVE  UNCHANGED requestVars \/ Ends(c)
    <3>1. At(c, "serving") /\ UNCHANGED <<slotVars, relayVars>>
      BY <2>1 DEF PostItem, Idle
    <3>2. Goes(c, "leaving") \/ UNCHANGED conn
      BY <2>1 DEF PostItem
    <3> QED
      BY <3>1, <3>2 DEF Ends, requestVars
  <2>2. AnswerLost(c) => Ends(c)
    BY DEF AnswerLost, Ends
  <2> QED
    BY <2>1, <2>2 DEF Request, PostExisting, Get, Delete, PostJob, Answer
<1>2. CASE UNCHANGED requestVars
  BY <1>2 DEF IInv, Slots, RequestsTypeOK, Of, In, requestVars, slotVars, relayVars
<1>3. CASE Ends(c)
  BY <1>3, AdmissionKeeps DEF Admission
<1> QED
  BY <1>1, <1>2, <1>3

\* With every connection away all slots are free: at the start, and again whenever
\* the process is started.
LEMMA AllAway == RequestsInit => IInv
<1> SUFFICES ASSUME RequestsInit PROVE IInv
  OBVIOUS
<1> USE DEF RequestsInit
<1>1. ASSUME NEW group, NEW places, "away" \notin places
      PROVE  Cardinality(Of(group, places)) = 0
  <2>1. Of(group, places) = {}
    BY <1>1 DEF Of, In
  <2> QED
    BY <2>1, FS_EmptySet
<1>2. RequestsTypeOK
  BY RequestsAssumption DEF RequestsTypeOK, Places
<1>3. Slots
  BY <1>1, RequestsAssumption DEF Slots, Holding, Serving, HoldingRelay
<1> QED
  BY <1>2, <1>3 DEF IInv

LEMMA InitIInv == Init => IInv
  BY AllAway DEF Init

LEMMA NextIInv == IInv /\ [Next]_vars => IInv'
<1> SUFFICES ASSUME IInv, [Next]_vars PROVE IInv'
  OBVIOUS
<1>1. CASE UNCHANGED requestVars
  BY <1>1 DEF IInv, Slots, RequestsTypeOK, Of, In, requestVars, slotVars, relayVars
<1>2. ASSUME NEW c \in Connections, Connection(c) PROVE IInv'
  BY <1>2, AdmissionKeeps, RelayKeeps DEF Connection
<1>3. ASSUME NEW c \in Connections, Request(c) PROVE IInv'
  BY <1>3, RequestKeeps
<1>4. CASE Restart
  <2>1. RequestsInit'
    BY <1>4 DEF Restart, RequestsInit
  <2>2. (RequestsInit => IInv)'
    BY AllAway, PTL
  <2> QED
    BY <2>1, <2>2
<1> QED
  BY <1>1, <1>2, <1>3, <1>4 DEF Next, Time, Agent, vars

LEMMA Invariant == Spec => []IInv
  BY InitIInv, NextIInv, PTL DEF Spec

-----------------------------------------------------------------------------
\* No source has more connections counted, and no tenant more relays, than its limit,
\* and no semaphore has more free slots than it was made with (server.py).
THEOREM RequestTypes == Spec => []RequestsTypeOK
<1>1. IInv => RequestsTypeOK
  BY DEF IInv
<1> QED
  BY <1>1, Invariant, PTL

\* No refusal, failed thread, error, lost answer, timeout or restart leaks a slot or
\* frees one twice: the free slots and the counts are always those of the connections.
THEOREM SlotsMatch == Spec => []SlotsMatchConnections
<1>1. IInv => SlotsMatchConnections
  BY SlotsAreCounted DEF IInv
<1> QED
  BY <1>1, Invariant, PTL

-----------------------------------------------------------------------------
(* The agent *)

\* A job whose verdict is shown is paused in memory, too; one that was started after it
\* was paused is not about to be started again.
Paused ==
  \A j \in Jobs :
    /\ results[j] = "blocked" => ~enabled[j] /\ ~savedOn[j]
    /\ late[j] <= 1
    /\ late[j] = 1 => ~enabled[j] /\ scheduler # j

AInv == AgentTypeOK /\ Paused

LEMMA InitAInv == Init => AInv
<1> SUFFICES ASSUME AgentInit PROVE AInv
  BY DEF Init
<1>1. AgentTypeOK
  BY DEF AgentInit, AgentTypeOK
<1>2. Paused
  BY DEF AgentInit, Paused
<1> QED
  BY <1>1, <1>2 DEF AInv

LEMMA NextAInv == AInv /\ [Next]_vars => AInv'
<1> SUFFICES ASSUME AInv, [Next]_vars PROVE AInv'
  OBVIOUS
<1> USE AgentAssumption DEF AInv, AgentTypeOK, Paused, Verdicts, Run, NotStarted
<1>1. CASE SchedulerWakes \/ SchedulerSleeps
  BY <1>1 DEF SchedulerWakes, SchedulerSleeps
<1>2. ASSUME NEW j \in Jobs, IntervalPasses(j) \/ Leaves(j)
      PROVE  AInv'
  BY <1>2 DEF IntervalPasses, Leaves
\* It decides on a job that is enabled, which has not been started late yet.
<1>3. ASSUME NEW j \in Jobs, SchedulerLooks(j)
      PROVE  AInv'
  BY <1>3 DEF SchedulerLooks
\* A late start uses the decision up.
<1>4. ASSUME NEW j \in Jobs, NEW policy \in PolicyVerdicts, SchedulerRuns(j, policy)
      PROVE  AInv'
  <2>1. AgentTypeOK'
    <3>1. late' \in [Jobs -> Nat]
      BY <1>4 DEF SchedulerRuns
    <3>2. running' \in [Jobs -> {"yes", "reported", "no"}] /\ due' \in [Jobs -> BOOLEAN]
      BY <1>4 DEF SchedulerRuns
    <3> QED
      BY <1>4, <3>1, <3>2 DEF SchedulerRuns
  <2>2. ASSUME NEW k \in Jobs
        PROVE  /\ results'[k] = "blocked" => ~enabled'[k] /\ ~savedOn'[k]
               /\ late'[k] <= 1
               /\ late'[k] = 1 => ~enabled'[k] /\ scheduler' # k
    <3>1. late' = late \/ (late' = [late EXCEPT ![j] = @ + 1] /\ ~enabled[j])
      BY <1>4 DEF SchedulerRuns
    <3>2. scheduler = j /\ scheduler' \in {"dead", "visiting"}
      BY <1>4 DEF SchedulerRuns
    <3>3. late[j] = 0 /\ late[k] \in 0..1
      BY <3>2
    <3>4. late'[k] = late[k] \/ (k = j /\ late'[k] = 1 /\ ~enabled[j])
      BY <3>1, <3>3
    <3> QED
      BY <1>4, <3>2, <3>3, <3>4 DEF SchedulerRuns
  <2> QED
    BY <2>1, <2>2
<1>5. ASSUME NEW j \in Jobs, NEW verdict \in Verdicts, Finished(j, verdict)
      PROVE  AInv'
  BY <1>5, ZenonT(30) DEF Finished
<1>6. CASE Agent
  BY <1>1, <1>2, <1>3, <1>4, <1>5, <1>6 DEF Agent, AgentNext
<1>7. ASSUME NEW j \in Jobs, ApiRun(j)
      PROVE  AInv'
  BY <1>7 DEF ApiRun
<1>8. CASE UNCHANGED agentVars
  BY <1>8 DEF agentVars
<1>9. ASSUME NEW c \in Connections, Request(c)
      PROVE  AInv'
  BY <1>7, <1>8, <1>9
  DEF Request, PostItem, PostExisting, Get, Delete, PostJob, Answer, AnswerLost
<1>10. CASE Restart
  BY <1>10 DEF Restart, AgentRestarts
<1> QED
  BY <1>6, <1>8, <1>9, <1>10 DEF Next, Connection, Time, vars

\* A verdict that is shown is on the disk, and the scheduler, which reads the
\* configuration while callbacks write it, starts a paused job at most once more.
THEOREM PausesHold == Spec => []PausesAreKept
<1>1. AInv => PausesAreKept
  BY DEF AInv, Paused, PausesAreKept
<1> QED
  BY <1>1, InitAInv, NextAInv, PTL DEF Spec

-----------------------------------------------------------------------------
(* The store *)

Shaped(s) == s = [rows |-> s.rows, saved |-> s.saved, used |-> s.used, purged |-> s.purged]

\* From one store to the other only expired rows go, and what was on the disk stays there.
Passes(s, z) ==
  /\ Shaped(z)
  /\ z.rows \subseteq s.rows /\ z.saved \subseteq s.rows \union s.saved
  /\ \A row \in s.rows : row \in z.rows \/ row.expires <= now
  /\ s.saved \intersect z.rows \subseteq z.saved

LEMMA PassesOn ==
  ASSUME NEW s, NEW y, NEW z, Passes(s, y), Passes(y, z)
  PROVE  Passes(s, z)
<1>1. z.rows \subseteq s.rows /\ z.saved \subseteq s.rows \union s.saved
  BY DEF Passes
<1>2. ASSUME NEW row \in s.rows PROVE row \in z.rows \/ row.expires <= now
  BY DEF Passes
<1>3. s.saved \intersect z.rows \subseteq z.saved
  BY DEF Passes
<1> QED
  BY <1>1, <1>2, <1>3 DEF Passes

LEMMA PurgePasses ==
  ASSUME NEW s, Shaped(s), NEW force
  PROVE  Passes(s, Purge(s, force))
<1>1. CASE Purge(s, force) = s
  BY <1>1 DEF Passes
<1>2. CASE Purge(s, force) # s
  <2> DEFINE left == s.rows \ {r \in s.rows : r.expires <= now}
  <2>1. /\ Purge(s, force).rows = left /\ Purge(s, force).saved = left
        /\ Shaped(Purge(s, force))
    BY <1>2 DEF Purge, Shaped
  <2> QED
    BY <2>1 DEF Passes
<1> QED
  BY <1>1, <1>2

LEMMA CountedPasses ==
  ASSUME NEW s, Shaped(s), NEW t
  PROVE  Passes(s, Counted(s, t))
<1>1. /\ Counted(s, t).rows = s.rows /\ Counted(s, t).saved = s.saved
      /\ Shaped(Counted(s, t))
  BY DEF Counted, Shaped
<1> QED
  BY <1>1 DEF Passes

LEMMA ReservePasses ==
  ASSUME NEW s, Shaped(s), NEW t, NEW size
  PROVE  Passes(s, Reserve(s, t, size))
<1>1. Passes(s, s)
  BY DEF Passes
<1>2. Passes(s, Counted(s, t))
  BY CountedPasses
<1>3. Passes(s, Purge(Counted(s, t), TRUE))
  BY <1>2, PurgePasses, PassesOn DEF Passes
<1>4. Passes(s, Counted(Purge(Counted(s, t), TRUE), t))
  BY <1>3, CountedPasses, PassesOn DEF Passes
<1> QED
  BY <1>1, <1>2, <1>4 DEF Reserve

LEMMA Replaced ==
  ASSUME NEW s, Shaped(s), NEW rows
  PROVE  /\ Shaped([s EXCEPT !.rows = rows]) /\ Shaped([s EXCEPT !.saved = rows])
         /\ [s EXCEPT !.rows = rows].rows = rows /\ [s EXCEPT !.rows = rows].saved = s.saved
         /\ [s EXCEPT !.saved = rows].rows = s.rows /\ [s EXCEPT !.saved = rows].saved = rows
BY DEF Shaped

LEMMA AdjustedFacts ==
  ASSUME NEW s, Shaped(s), NEW t, NEW delta
  PROVE  /\ Shaped(Adjusted(s, t, delta))
         /\ Adjusted(s, t, delta).rows = s.rows /\ Adjusted(s, t, delta).saved = s.saved
BY DEF Adjusted, Shaped

LEMMA InsertedFacts ==
  ASSUME NEW s, NEW reserved, Shaped(reserved), NEW row
  PROVE  /\ Shaped(Inserted(s, reserved, row))
         /\ Inserted(s, reserved, row).saved = reserved.saved
         /\ Inserted(s, reserved, row).rows = (reserved.rows \ Prior(s, row)) \union {row}
<1> DEFINE open == [reserved EXCEPT !.rows = (@ \ Prior(s, row)) \union {row}]
<1>1. /\ Shaped(open) /\ open.saved = reserved.saved
      /\ open.rows = (reserved.rows \ Prior(s, row)) \union {row}
  BY Replaced, ZenonT(30)
<1> HIDE DEF open
<1>2. ASSUME NEW t, NEW delta
      PROVE  /\ Shaped(Adjusted(open, t, delta))
             /\ Adjusted(open, t, delta).rows = open.rows
             /\ Adjusted(open, t, delta).saved = open.saved
  BY <1>1, AdjustedFacts
<1> QED
  BY <1>1, <1>2 DEF Inserted, open

\* What was answered is in the tables and on the disk; what is being answered is in the
\* tables, where nothing but its expiry or a withdrawal removes it.
StoredInv ==
  /\ now \in Nat /\ Shaped(store)
  /\ \A row \in store.rows \union store.saved \union answered : row.expires \in Int
  /\ \A row \in answered : row.expires <= now \/ row \in store.rows \intersect store.saved
  /\ reply = [c \in Connections |-> reply[c]]
  /\ \A c \in Connections :
       \/ reply[c] \in {NoReply, NoPromise}
       \/ reply[c].expires \in Int /\ (reply[c].expires <= now \/ reply[c] \in store.rows)

LEMMA StoredInvInit == Init => StoredInv
BY DEF Init, StoreInit, Opened, StoredInv, Shaped

\* Rows that only expire take nothing from what was answered, or is being answered.
LEMMA PassingKeeps ==
  ASSUME StoredInv, Passes(store, store'), UNCHANGED <<now, answered, reply>>
  PROVE  StoredInv'
<1>1. ASSUME NEW row \in store'.rows \union store'.saved \union answered
      PROVE  row.expires \in Int
  BY DEF StoredInv, Passes
<1>2. ASSUME NEW row \in answered
      PROVE  row.expires <= now \/ row \in store'.rows \intersect store'.saved
  BY DEF StoredInv, Passes
<1>3. ASSUME NEW c \in Connections
      PROVE  \/ reply[c] \in {NoReply, NoPromise}
             \/ /\ reply[c].expires \in Int
                /\ reply[c].expires <= now \/ reply[c] \in store'.rows
  BY DEF StoredInv, Passes
<1> QED
  BY <1>1, <1>2, <1>3 DEF StoredInv, Passes

LEMMA PutKeeps ==
  ASSUME StoredInv, NEW c \in Connections, NEW table \in Tables, NEW size \in Sizes,
         NEW ttl \in TTLs, NEW outcome \in {"stored", "refused", "failed"},
         PostItem(c, table, size, ttl, outcome)
  PROVE  StoredInv'
<1> DEFINE row == New(table, TenantOf[c], size, ttl)
           s == Purge(store, FALSE)
           reserved == Reserve(s, row.tenant, Growth(s, row))
           full == Inserted(s, reserved, row)
<1>1. Passes(store, s) /\ Passes(store, reserved)
  <2>1. Passes(store, s)
    BY PurgePasses DEF StoredInv
  <2>2. Passes(s, reserved)
    BY <2>1, ReservePasses DEF Passes
  <2> QED
    BY <2>1, <2>2, PassesOn
<1>2. row.expires \in Int
  BY StoreAssumption DEF New, StoredInv
<1>3. /\ Shaped(full) /\ full.saved = reserved.saved
      /\ full.rows = (reserved.rows \ Prior(s, row)) \union {row}
  <2>1. Shaped(reserved)
    BY <1>1 DEF Passes
  <2> HIDE DEF row, s, reserved
  <2> QED
    BY <2>1, InsertedFacts
<1>4. Prior(s, row) \subseteq Prior(store, row)
  BY <1>1 DEF Prior, Passes
<1>5. Put(row, outcome) /\ UNCHANGED now
  BY DEF PostItem, Put
<1>6. CASE outcome = "refused"
  <2>1. store' = reserved
    BY <1>5, <1>6 DEF Put
  <2>2. answered' = answered /\ reply' = [reply EXCEPT ![c] = NoPromise]
    BY <1>6 DEF PostItem
  <2>3. ASSUME NEW d \in Connections
        PROVE  \/ reply'[d] \in {NoReply, NoPromise}
               \/ /\ reply'[d].expires \in Int
                  /\ reply'[d].expires <= now \/ reply'[d] \in reserved.rows
    <3>1. CASE d = c
      BY <2>2, <3>1 DEF StoredInv
    <3>2. CASE d # c
      <4>1. reply'[d] = reply[d]
        BY <2>2, <3>2 DEF StoredInv
      <4> QED
        BY <1>1, <4>1 DEF StoredInv, Passes
    <3> QED
      BY <3>1, <3>2
  <2>4. ASSUME NEW r \in reserved.rows \union reserved.saved \union answered
        PROVE  r.expires \in Int
    BY <1>1 DEF StoredInv, Passes
  <2>5. ASSUME NEW r \in answered
        PROVE  r.expires <= now \/ r \in reserved.rows \intersect reserved.saved
    BY <1>1 DEF StoredInv, Passes
  <2>6. reply' = [d \in Connections |-> reply'[d]] /\ Shaped(reserved)
    BY <1>1, <2>2 DEF StoredInv, Passes
  <2> QED
    BY <1>5, <2>1, <2>2, <2>3, <2>4, <2>5, <2>6 DEF StoredInv
<1>7. CASE outcome = "stored"
  <2>1. store' = [full EXCEPT !.saved = full.rows]
    BY <1>5, <1>7 DEF Put
  <2>2. Shaped(store') /\ store'.rows = full.rows /\ store'.saved = full.rows
    BY <1>3, <2>1 DEF Shaped
  <2>3. /\ answered' = answered \ Prior(store, row)
        /\ reply' = [Withdrawn(Prior(store, row)) EXCEPT ![c] = row]
    BY <1>7 DEF PostItem
  <2>4. ASSUME NEW d \in Connections
        PROVE  \/ reply'[d] \in {NoReply, NoPromise}
               \/ /\ reply'[d].expires \in Int
                  /\ reply'[d].expires <= now \/ reply'[d] \in full.rows
    <3>1. CASE d = c
      <4>1. reply'[d] = row
        BY <2>3, <3>1 DEF Withdrawn
      <4> QED
        BY <1>2, <1>3, <4>1
    <3>2. CASE d # c
      <4>1. reply'[d] = IF reply[d] \in Prior(store, row) THEN NoPromise ELSE reply[d]
        BY <2>3, <3>2 DEF Withdrawn
      <4> QED
        BY <1>1, <1>3, <1>4, <4>1 DEF StoredInv, Passes
    <3> QED
      BY <3>1, <3>2
  <2>5. ASSUME NEW r \in full.rows \union answered'
        PROVE  r.expires \in Int
    BY <1>1, <1>2, <1>3, <2>3 DEF StoredInv, Passes
  <2>6. ASSUME NEW r \in answered'
        PROVE  r.expires <= now \/ r \in full.rows
    BY <1>1, <1>3, <1>4, <2>3 DEF StoredInv, Passes
  <2>7. reply' = [d \in Connections |-> reply'[d]]
    BY <2>3 DEF Withdrawn
  <2> QED
    BY <1>5, <2>2, <2>4, <2>5, <2>6, <2>7 DEF StoredInv
<1>8. CASE outcome = "failed"
  <2>1. store' = full
    BY <1>5, <1>8 DEF Put
  <2>2. answered' = answered \ Prior(store, row) /\ reply' = Withdrawn(Prior(store, row))
    BY <1>8 DEF PostItem
  <2>3. ASSUME NEW d \in Connections
        PROVE  \/ reply'[d] \in {NoReply, NoPromise}
               \/ /\ reply'[d].expires \in Int
                  /\ reply'[d].expires <= now \/ reply'[d] \in full.rows
    <3>1. reply'[d] = IF reply[d] \in Prior(store, row) THEN NoPromise ELSE reply[d]
      BY <2>2 DEF Withdrawn
    <3> QED
      BY <1>1, <1>3, <1>4, <3>1 DEF StoredInv, Passes
  <2>4. reply' = [d \in Connections |-> reply'[d]]
    BY <2>2 DEF Withdrawn
  <2>5. ASSUME NEW r \in full.rows \union full.saved \union answered'
        PROVE  r.expires \in Int
    BY <1>1, <1>2, <1>3, <2>2 DEF StoredInv, Passes
  <2>6. ASSUME NEW r \in answered'
        PROVE  r.expires <= now \/ r \in full.rows \intersect full.saved
    BY <1>1, <1>3, <1>4, <2>2 DEF StoredInv, Passes
  <2> QED
    BY <1>3, <1>5, <2>1, <2>3, <2>4, <2>5, <2>6 DEF StoredInv
<1> QED
  BY <1>6, <1>7, <1>8

LEMMA ExistingKeeps ==
  ASSUME StoredInv, NEW c \in Connections, PostExisting(c)
  PROVE  StoredInv'
<1>1. PICK row \in store.rows :
        PutExisting(TenantOf[c], row) /\ reply' = [reply EXCEPT ![c] = row]
  BY DEF PostExisting
<1>2. /\ store' = Purge(store, FALSE) /\ row \in store'.rows
      /\ UNCHANGED <<now, answered>>
  BY <1>1 DEF PutExisting, PostExisting
<1>3. Passes(store, store')
  BY <1>2, PurgePasses DEF StoredInv
<1>4. ASSUME NEW r \in store'.rows \union store'.saved \union answered
      PROVE  r.expires \in Int
  BY <1>3 DEF StoredInv, Passes
<1>5. ASSUME NEW r \in answered
      PROVE  r.expires <= now \/ r \in store'.rows \intersect store'.saved
  BY <1>3 DEF StoredInv, Passes
<1>6. ASSUME NEW d \in Connections
      PROVE  \/ reply'[d] \in {NoReply, NoPromise}
             \/ /\ reply'[d].expires \in Int
                /\ reply'[d].expires <= now \/ reply'[d] \in store'.rows
  <2>1. reply'[d] = row \/ reply'[d] = reply[d]
    BY <1>1 DEF StoredInv
  <2> QED
    BY <1>2, <1>3, <1>4, <2>1 DEF StoredInv, Passes
<1>7. reply' = [d \in Connections |-> reply'[d]]
  BY <1>1 DEF StoredInv
<1> QED
  BY <1>2, <1>3, <1>4, <1>5, <1>6, <1>7 DEF StoredInv, Passes

LEMMA DeleteKeeps ==
  ASSUME StoredInv, NEW c \in Connections, NEW key, Delete(c, key)
  PROVE  StoredInv'
<1> DEFINE t == TenantOf[c]
           prior == {row \in store.rows : Same(row, "mailbox", t, key)}
           open == [store EXCEPT !.rows = @ \ prior]
           s == Adjusted(open, t, -Bytes(prior))
<1>1. Shaped(open) /\ open.rows = store.rows \ prior
  BY Replaced, ZenonT(30) DEF StoredInv
<1>2. Shaped(s) /\ s.rows = store.rows \ prior
  <2> HIDE DEF open
  <2> QED
    BY <1>1, AdjustedFacts
<1>3. store' = [s EXCEPT !.saved = s.rows] /\ UNCHANGED now
  BY DEF Delete, Acknowledge
<1>4. /\ Shaped(store') /\ store'.rows = store.rows \ prior
      /\ store'.saved = store.rows \ prior
  BY <1>2, <1>3 DEF Shaped
<1>5. /\ answered' = {row \in answered : ~Same(row, "mailbox", t, key)}
      /\ reply' = [d \in Connections |-> IF reply[d] \in prior THEN NoPromise ELSE reply[d]]
  BY DEF Delete, Withdrawn
<1>6. ASSUME NEW r \in store'.rows \union store'.saved \union answered'
      PROVE  r.expires \in Int
  BY <1>4, <1>5 DEF StoredInv
<1>7. ASSUME NEW r \in answered'
      PROVE  r.expires <= now \/ r \in store'.rows \intersect store'.saved
  BY <1>4, <1>5 DEF StoredInv
<1>8. ASSUME NEW d \in Connections
      PROVE  \/ reply'[d] \in {NoReply, NoPromise}
             \/ /\ reply'[d].expires \in Int
                /\ reply'[d].expires <= now \/ reply'[d] \in store'.rows
  BY <1>4, <1>5 DEF StoredInv
<1>9. reply' = [d \in Connections |-> reply'[d]]
  BY <1>5
<1> QED
  BY <1>3, <1>4, <1>6, <1>7, <1>8, <1>9 DEF StoredInv

\* What is answered is in the tables, which the audit that precedes it puts on the disk.
LEMMA AnswerKeeps ==
  ASSUME StoredInv, NEW c \in Connections, Answer(c)
  PROVE  StoredInv'
<1>1. store' = [store EXCEPT !.saved = store.rows] /\ UNCHANGED now
  BY DEF Answer, CommitAll
<1>2. Shaped(store') /\ store'.rows = store.rows /\ store'.saved = store.rows
  BY <1>1 DEF StoredInv, Shaped
<1>3. /\ answered' = answered \union ({reply[c]} \ {NoPromise}) /\ reply[c] # NoReply
      /\ reply' = [reply EXCEPT ![c] = NoReply]
  BY DEF Answer
<1>4. ASSUME NEW r \in store'.rows \union store'.saved \union answered'
      PROVE  r.expires \in Int
  BY <1>2, <1>3 DEF StoredInv
<1>5. ASSUME NEW r \in answered'
      PROVE  r.expires <= now \/ r \in store'.rows \intersect store'.saved
  BY <1>2, <1>3 DEF StoredInv
<1>6. ASSUME NEW d \in Connections
      PROVE  \/ reply'[d] \in {NoReply, NoPromise}
             \/ /\ reply'[d].expires \in Int
                /\ reply'[d].expires <= now \/ reply'[d] \in store'.rows
  BY <1>2, <1>3 DEF StoredInv
<1>7. reply' = [d \in Connections |-> reply'[d]]
  BY <1>3 DEF StoredInv
<1> QED
  BY <1>1, <1>2, <1>4, <1>5, <1>6, <1>7 DEF StoredInv

LEMMA StoredInvNext == StoredInv /\ [Next]_vars => StoredInv'
<1> SUFFICES ASSUME StoredInv, [Next]_vars PROVE StoredInv'
  OBVIOUS
<1>1. CASE UNCHANGED <<storeVars, answered, reply>>
  BY <1>1 DEF StoredInv, storeVars
<1>2. ASSUME NEW c \in Connections, Request(c)
      PROVE  StoredInv'
  <2>1. CASE Get(c)
    <3>1. Passes(store, store') /\ UNCHANGED <<now, answered, reply>>
      BY <2>1, PurgePasses DEF Get, ReadRows, StoredInv
    <3> QED
      BY <3>1, PassingKeeps
  <2>2. CASE AnswerLost(c)
    BY <2>2 DEF AnswerLost, StoredInv, storeVars
  <2>3. ASSUME NEW j \in Jobs, PostJob(c, j)
        PROVE  StoredInv'
    BY <1>1, <2>3 DEF PostJob
  <2> QED
    BY <1>2, <2>1, <2>2, <2>3, PutKeeps, ExistingKeeps, DeleteKeeps, AnswerKeeps
    DEF Request
<1>3. CASE Time
  BY <1>3 DEF Time, Tick, StoredInv
\* What was answered is on the disk, and nobody waits for an answer any more.
<1>4. CASE Restart
  <2>1. /\ store' = Opened(store.saved) /\ UNCHANGED <<now, answered>>
        /\ reply' = [c \in Connections |-> NoReply]
    BY <1>4 DEF Restart, Reopen
  <2>2. Shaped(store') /\ store'.rows = store.saved /\ store'.saved = store.saved
    BY <2>1 DEF Opened, Shaped
  <2> QED
    BY <2>1, <2>2 DEF StoredInv
<1> QED
  BY <1>1, <1>2, <1>3, <1>4 DEF Next, Connection, Agent, vars

\* Half of StorePromises: what a client was told is stored is on the disk until it expires
\* or is withdrawn, whatever is lost, refused, purged, answered at once on other
\* connections or restarted in between (server_store.py, server.py).
THEOREM AnswersStayStored == Spec => []AnsweredIsStored
<1>1. StoredInv => AnsweredIsStored
  BY DEF StoredInv, AnsweredIsStored
<1> QED
  BY <1>1, StoredInvInit, StoredInvNext, PTL DEF Spec

-----------------------------------------------------------------------------
(* What rows take.  Bytes folds over the rows in an order CHOOSE decides;   *)
(* that the order does not matter, and that removing and adding rows        *)
(* subtracts and adds their sizes, is induction over finite sets, carried   *)
(* out by looking at a smallest counterexample.                             *)

LEMMA SmallestSubset ==
  ASSUME NEW S, IsFiniteSet(S), NEW B \in SUBSET SUBSET S, B # {}
  PROVE  \E T \in B : \A U \in B : U \subseteq T => U = T
<1>1. IsWellFoundedOn(StrictSubsetOrdering(S), SUBSET S)
  BY FS_StrictSubsetOrderingWellFounded, FS_FiniteSubsetsOfFinite
<1>2. PICK T \in B : \A U \in B : ~ (<<U, T>> \in StrictSubsetOrdering(S))
  BY <1>1, WFMin
<1> QED
  BY <1>2 DEF StrictSubsetOrdering

First(S) == CHOOSE x \in S : TRUE

IsSum(g, S) ==
  g = [s \in SUBSET S |-> IF s = {} THEN 0 ELSE First(s).size + g[s \ {First(s)}]]

LEMMA BytesDef == ASSUME NEW S PROVE Bytes(S) = (CHOOSE g : IsSum(g, S))[S]
BY DEF Bytes, MapThenSumSet, MapThenFoldSet, IsSum, First

LEMMA FirstIn == ASSUME NEW S, S # {} PROVE First(S) \in S
BY DEF First

LEMMA SumValue ==
  ASSUME NEW g, NEW S, IsSum(g, S), NEW s \in SUBSET S
  PROVE  g[s] = IF s = {} THEN 0 ELSE First(s).size + g[s \ {First(s)}]
BY DEF IsSum

\* Two such functions agree where both are defined.
LEMMA SumsAgree ==
  ASSUME NEW g, NEW S, IsSum(g, S), NEW h, NEW T, IsSum(h, T),
         NEW U, U \subseteq S, U \subseteq T, IsFiniteSet(U)
  PROVE  g[U] = h[U]
<1> DEFINE B == {V \in SUBSET U : g[V] # h[V]}
<1> SUFFICES ASSUME B # {} PROVE FALSE
  OBVIOUS
<1>1. PICK V \in B : \A W \in B : W \subseteq V => W = V
  <2> HIDE DEF B
  <2>1. B \in SUBSET SUBSET U /\ IsFiniteSet(U)
    BY DEF B
  <2> QED
    BY <2>1, SmallestSubset
<1>2. /\ V \in SUBSET S /\ V \in SUBSET T /\ g[V] # h[V] /\ V \subseteq U
  OBVIOUS
<1>3. V # {}
  BY <1>2, SumValue
<1>4. g[V \ {First(V)}] = h[V \ {First(V)}]
  BY <1>1, <1>3, FirstIn
<1> QED
  BY <1>2, <1>3, <1>4, SumValue

LEMMA SumExists ==
  ASSUME NEW S, IsFiniteSet(S)
  PROVE  \E g : IsSum(g, S)
<1> DEFINE B == {T \in SUBSET S : ~ \E g : IsSum(g, T)}
<1> SUFFICES ASSUME B # {} PROVE FALSE
  OBVIOUS
<1>1. PICK T \in B : \A U \in B : U \subseteq T => U = T
  <2> HIDE DEF B
  <2>1. B \in SUBSET SUBSET S /\ IsFiniteSet(S)
    BY DEF B
  <2> QED
    BY <2>1, SmallestSubset
<1> DEFINE sum(U) == CHOOSE g : IsSum(g, U)
           g == [s \in SUBSET T |-> IF s = {} THEN 0
                                    ELSE First(s).size + sum(s \ {First(s)})[s \ {First(s)}]]
<1>2. ASSUME NEW U, U \subseteq T, U # T
      PROVE  IsSum(sum(U), U)
  <2>1. \E f : IsSum(f, U)
    BY <1>1, <1>2
  <2> QED
    BY <2>1
<1>3. ASSUME NEW s \in SUBSET T, s # {}
      PROVE  g[s \ {First(s)}] = sum(s \ {First(s)})[s \ {First(s)}]
  <2> DEFINE u == s \ {First(s)}
             w == u \ {First(u)}
  <2>1. u \subseteq T /\ u # T /\ IsFiniteSet(u)
    BY <1>3, FirstIn, FS_Subset
  <2>2. IsSum(sum(u), u)
    BY <1>2, <2>1
  <2>3. g[u] = IF u = {} THEN 0 ELSE First(u).size + sum(w)[w]
    BY <2>1
  <2>4. sum(u)[u] = IF u = {} THEN 0 ELSE First(u).size + sum(u)[w]
    <3> HIDE DEF sum, u
    <3> QED
      BY <2>2, SumValue
  <2>5. CASE u = {}
    BY <2>3, <2>4, <2>5
  <2>6. CASE u # {}
    <3>1. w \subseteq u /\ w # T /\ IsFiniteSet(w) /\ w \subseteq T
      BY <2>1, <2>6, FirstIn, FS_Subset
    <3>2. IsSum(sum(w), w)
      BY <1>2, <3>1
    <3>3. sum(w)[w] = sum(u)[w]
      <4> HIDE DEF sum, u, w
      <4> QED
        BY <2>2, <3>1, <3>2, SumsAgree
    <3> QED
      BY <2>3, <2>4, <2>6, <3>3
  <2> QED
    BY <2>5, <2>6
<1>4. IsSum(g, T)
  <2>1. ASSUME NEW s \in SUBSET T
        PROVE  g[s] = IF s = {} THEN 0 ELSE First(s).size + g[s \ {First(s)}]
    <3>1. g[s] = IF s = {} THEN 0 ELSE First(s).size + sum(s \ {First(s)})[s \ {First(s)}]
      OBVIOUS
    <3> HIDE DEF g
    <3> QED
      BY <1>3, <3>1
  <2>2. g = [s \in SUBSET T |-> g[s]]
    OBVIOUS
  <2> HIDE DEF g
  <2>3. g = [s \in SUBSET T |-> IF s = {} THEN 0 ELSE First(s).size + g[s \ {First(s)}]]
    BY <2>1, <2>2, Zenon
  <2> QED
    BY <2>3 DEF IsSum
<1> QED
  BY <1>1, <1>4

LEMMA BytesOfNone == Bytes({}) = 0
<1>1. IsSum(CHOOSE g : IsSum(g, {}), {})
  BY SumExists, FS_EmptySet
<1> QED
  BY <1>1, SumValue, BytesDef

LEMMA BytesFirst ==
  ASSUME NEW S, IsFiniteSet(S), S # {}
  PROVE  Bytes(S) = First(S).size + Bytes(S \ {First(S)})
<1> DEFINE u == S \ {First(S)}
           sum(U) == CHOOSE g : IsSum(g, U)
<1>1. IsFiniteSet(u) /\ u \subseteq S
  BY FS_Subset
<1>2. IsSum(sum(S), S) /\ IsSum(sum(u), u)
  <2> HIDE DEF u
  <2> QED
    BY <1>1, SumExists
<1>3. sum(S)[u] = sum(u)[u]
  <2> HIDE DEF sum, u
  <2> QED
    BY <1>1, <1>2, SumsAgree
<1>4. sum(S)[S] = First(S).size + sum(S)[u]
  <2> HIDE DEF sum
  <2> QED
    BY <1>2, SumValue
<1> QED
  BY <1>3, <1>4, BytesDef

Sized(S) == IsFiniteSet(S) /\ \A r \in S : r.size \in Nat

LEMMA SizedSubset ==
  ASSUME NEW S, Sized(S), NEW T, T \subseteq S
  PROVE  Sized(T)
BY FS_Subset DEF Sized

LEMMA BytesNat ==
  ASSUME NEW S, Sized(S)
  PROVE  Bytes(S) \in Nat
<1> DEFINE B == {T \in SUBSET S : Bytes(T) \notin Nat}
<1> SUFFICES ASSUME B # {} PROVE FALSE
  OBVIOUS
<1>1. PICK T \in B : \A U \in B : U \subseteq T => U = T
  <2> HIDE DEF B
  <2>1. B \in SUBSET SUBSET S /\ IsFiniteSet(S)
    BY DEF B, Sized
  <2> QED
    BY <2>1, SmallestSubset
<1>2. T # {} /\ Sized(T)
  BY BytesOfNone, SizedSubset
<1>3. First(T) \in T /\ First(T).size \in Nat
  BY <1>2, FirstIn DEF Sized
<1>4. Bytes(T \ {First(T)}) \in Nat
  BY <1>1, <1>3
<1>5. Bytes(T) = First(T).size + Bytes(T \ {First(T)})
  BY <1>2, BytesFirst DEF Sized
<1> QED
  BY <1>1, <1>3, <1>4, <1>5

\* Whatever row is taken first.
LEMMA BytesRemove ==
  ASSUME NEW S, Sized(S), NEW x \in S
  PROVE  Bytes(S) = x.size + Bytes(S \ {x})
<1> DEFINE B == {T \in SUBSET S : \E y \in T : Bytes(T) # y.size + Bytes(T \ {y})}
<1> SUFFICES ASSUME B # {} PROVE FALSE
  OBVIOUS
<1>1. PICK T \in B : \A U \in B : U \subseteq T => U = T
  <2> HIDE DEF B
  <2>1. B \in SUBSET SUBSET S /\ IsFiniteSet(S)
    BY DEF B, Sized
  <2> QED
    BY <2>1, SmallestSubset
<1>2. PICK y \in T : Bytes(T) # y.size + Bytes(T \ {y})
  OBVIOUS
<1> DEFINE f == First(T)
           rest == T \ {f, y}
<1>3. Sized(T) /\ f \in T /\ f.size \in Nat /\ y.size \in Nat
  BY SizedSubset, FirstIn DEF Sized
<1>4. Bytes(T) = f.size + Bytes(T \ {f})
  BY <1>3, BytesFirst DEF Sized
<1>5. f # y
  BY <1>2, <1>4
<1>6. ASSUME NEW U, U \subseteq T, U # T, NEW z \in U
      PROVE  Bytes(U) = z.size + Bytes(U \ {z})
  BY <1>1, <1>6
<1>7. Bytes(T \ {f}) = y.size + Bytes(rest)
  <2>1. (T \ {f}) \ {y} = rest /\ y \in T \ {f} /\ T \ {f} # T
    BY <1>3, <1>5
  <2> QED
    BY <1>6, <2>1
<1>8. Bytes(T \ {y}) = f.size + Bytes(rest)
  <2>1. (T \ {y}) \ {f} = rest /\ f \in T \ {y} /\ T \ {y} # T
    BY <1>3, <1>5
  <2> QED
    BY <1>6, <2>1
<1>9. Bytes(rest) \in Nat
  BY <1>3, SizedSubset, BytesNat
<1> QED
  BY <1>2, <1>3, <1>4, <1>7, <1>8, <1>9

LEMMA BytesSplit ==
  ASSUME NEW S, Sized(S), NEW T, T \subseteq S
  PROVE  /\ Bytes(S) = Bytes(T) + Bytes(S \ T)
         /\ Bytes(T) \in Nat /\ Bytes(S \ T) \in Nat /\ Bytes(S) \in Nat
<1> DEFINE B == {U \in SUBSET T : Bytes(U \union (S \ T)) # Bytes(U) + Bytes(S \ T)}
<1>1. Sized(T) /\ Sized(S \ T)
  BY SizedSubset
<1>2. Bytes(S) \in Nat /\ Bytes(T) \in Nat /\ Bytes(S \ T) \in Nat
  BY <1>1, BytesNat
<1>3. SUFFICES ASSUME B # {} PROVE FALSE
  <2>1. S = T \union (S \ T)
    OBVIOUS
  <2> QED
    BY <1>2, <2>1
<1>4. PICK U \in B : \A V \in B : V \subseteq U => V = U
  <2> HIDE DEF B
  <2>1. B \in SUBSET SUBSET T /\ IsFiniteSet(T)
    BY <1>1 DEF B, Sized
  <2> QED
    BY <1>3, <2>1, SmallestSubset
<1> DEFINE W == U \union (S \ T)
<1>5. U # {}
  <2>1. {} \union (S \ T) = S \ T
    OBVIOUS
  <2> QED
    BY <1>2, <2>1, BytesOfNone
<1>6. PICK x \in U : TRUE
  BY <1>5
<1> DEFINE V == U \ {x}
<1>7. /\ Sized(U) /\ Sized(W) /\ Sized(V) /\ x.size \in Nat
      /\ W \ {x} = V \union (S \ T)
  <2>1. U \subseteq S /\ W \subseteq S /\ V \subseteq S
    OBVIOUS
  <2> QED
    BY <1>6, <2>1, SizedSubset DEF Sized
<1>8. Bytes(V \union (S \ T)) = Bytes(V) + Bytes(S \ T)
  <2>1. V \subseteq U /\ V # U /\ V \in SUBSET T
    BY <1>4, <1>6
  <2>2. V \notin B
    <3> HIDE DEF B, V
    <3> QED
      BY <1>4, <2>1
  <2> QED
    BY <2>1, <2>2
<1>9. Bytes(W) = x.size + Bytes(W \ {x}) /\ Bytes(U) = x.size + Bytes(V)
  BY <1>6, <1>7, BytesRemove
<1>10. Bytes(V) \in Nat /\ Bytes(W) = Bytes(U) + Bytes(S \ T)
  BY <1>2, <1>7, <1>8, <1>9, BytesNat
<1> QED
  BY <1>4, <1>10

LEMMA BytesAdd ==
  ASSUME NEW S, Sized(S), NEW x, x \notin S, x.size \in Nat
  PROVE  Sized(S \union {x}) /\ Bytes(S \union {x}) = Bytes(S) + x.size
<1>1. Sized(S \union {x})
  BY FS_AddElement DEF Sized
<1>2. (S \union {x}) \ {x} = S
  OBVIOUS
<1> QED
  BY <1>1, <1>2, BytesRemove, BytesNat

LEMMA MaxWithZero ==
  ASSUME NEW x \in Int
  PROVE  Max({0, x}) = IF x >= 0 THEN x ELSE 0
<1>1. CASE x >= 0
  <2>1. \A y \in {0, x} : x >= y
    BY <1>1
  <2> QED
    BY <1>1, <2>1 DEF Max
<1>2. CASE ~(x >= 0)
  <2>1. \A y \in {0, x} : 0 >= y
    BY <1>2
  <2>2. ~(\A y \in {0, x} : x >= y)
    BY <1>2
  <2> QED
    BY <1>2, <2>1, <2>2 DEF Max
<1> QED
  BY <1>1, <1>2

-----------------------------------------------------------------------------
(* The cached usage *)

\* A store whose rows can be counted, and those on the disk.
Sound(s) ==
  /\ Shaped(s) /\ s.used = [u \in Tenants |-> s.used[u]]
  /\ \A u \in Tenants : s.used[u] \in Int
  /\ Sized(s.rows) /\ Sized(s.saved)

Usage(s, t) == Bytes(RowsOf(s.rows, t))
Exact(s, t) == s.used[t] = Unknown \/ s.used[t] = Usage(s, t)
Under(s, t) == s.used[t] = Unknown \/ s.used[t] <= Usage(s, t)
OnDisk(s, t) == Bytes(RowsOf(s.saved, t))

LEMMA UsageIsNat ==
  ASSUME NEW s, Sound(s), NEW t
  PROVE  Sized(RowsOf(s.rows, t)) /\ Usage(s, t) \in Nat /\ Usage(s, t) # Unknown
<1>1. Sized(RowsOf(s.rows, t))
  <2>1. RowsOf(s.rows, t) \subseteq s.rows
    BY DEF RowsOf
  <2> QED
    BY <2>1, SizedSubset DEF Sound
<1> QED
  BY <1>1, BytesNat DEF Usage, Unknown

LEMMA FewerRows ==
  ASSUME NEW s, Sound(s), NEW rows, rows \subseteq s.rows, NEW t
  PROVE  Bytes(RowsOf(rows, t)) \in Nat /\ Bytes(RowsOf(rows, t)) <= Usage(s, t)
<1>1. RowsOf(rows, t) \subseteq RowsOf(s.rows, t)
  BY DEF RowsOf
<1> DEFINE mine == RowsOf(rows, t)
           all == RowsOf(s.rows, t)
<1>2. mine \subseteq all /\ Sized(all) /\ Usage(s, t) = Bytes(all)
  BY <1>1, UsageIsNat DEF Usage
<1> HIDE DEF mine, all
<1>3. /\ Bytes(all) = Bytes(mine) + Bytes(all \ mine)
      /\ Bytes(mine) \in Nat /\ Bytes(all \ mine) \in Nat
  BY <1>2, BytesSplit
<1>4. Bytes(mine) \in Nat /\ Bytes(mine) <= Usage(s, t)
  BY <1>2, <1>3
<1> QED
  BY <1>4 DEF mine

LEMMA PurgeCounts ==
  ASSUME NEW s, Sound(s), NEW force
  PROVE  /\ Sound(Purge(s, force)) /\ Purge(s, force).rows \subseteq s.rows
         /\ Purge(s, force).saved \in {s.saved, Purge(s, force).rows}
         /\ \A t \in Tenants : /\ Exact(s, t) => Exact(Purge(s, force), t)
                               /\ Under(s, t) => Under(Purge(s, force), t)
<1> DEFINE z == Purge(s, force)
           expired == {r \in s.rows : r.expires <= now}
<1>1. CASE z = s
  BY <1>1
<1>2. CASE z # s
  <2>1. z = [rows |-> s.rows \ expired, saved |-> s.rows \ expired,
             used |-> [t \in Tenants |->
                         IF s.used[t] = Unknown THEN Unknown
                         ELSE Max({0, s.used[t] - Bytes(RowsOf(expired, t))})],
             purged |-> now]
    BY <1>2 DEF Purge
  <2> HIDE DEF z
  <2>2. /\ z.rows = s.rows \ expired /\ z.saved = z.rows /\ Shaped(z)
        /\ z.used = [u \in Tenants |-> z.used[u]]
    BY <2>1 DEF Shaped
  <2>3. Sound(z)
    <3>1. ASSUME NEW u \in Tenants
          PROVE  z.used[u] \in Int
      <4> DEFINE gone == Bytes(RowsOf(expired, u))
      <4>1. gone \in Nat
        <5>1. expired \subseteq s.rows
          OBVIOUS
        <5> HIDE DEF expired
        <5> QED
          BY <5>1, FewerRows
      <4>2. z.used[u] = IF s.used[u] = Unknown THEN Unknown ELSE Max({0, s.used[u] - gone})
        BY <2>1
      <4> HIDE DEF gone
      <4>3. s.used[u] - gone \in Int
        BY <4>1 DEF Sound
      <4> QED
        BY <4>2, <4>3, MaxWithZero DEF Unknown
    <3> QED
      BY <2>2, <3>1, SizedSubset DEF Sound
  <2>4. ASSUME NEW t \in Tenants
        PROVE  (Exact(s, t) => Exact(z, t)) /\ (Under(s, t) => Under(z, t))
    <3>1. CASE s.used[t] = Unknown
      BY <2>1, <3>1 DEF Exact, Under
    <3>2. CASE s.used[t] # Unknown
      <4> DEFINE gone == RowsOf(expired, t)
      <4>2. z.used[t] = Max({0, s.used[t] - Bytes(gone)})
        BY <2>1, <3>2
      <4>3. gone \subseteq RowsOf(s.rows, t) /\ RowsOf(s.rows, t) \ gone = RowsOf(z.rows, t)
        BY <2>2 DEF RowsOf
      <4> HIDE DEF gone
      <4>4. /\ Bytes(RowsOf(s.rows, t)) = Bytes(gone) + Bytes(RowsOf(z.rows, t))
            /\ Bytes(gone) \in Nat /\ Bytes(RowsOf(z.rows, t)) \in Nat
        BY <4>3, UsageIsNat, BytesSplit
      <4>5. ASSUME s.used[t] = Usage(s, t)
            PROVE  z.used[t] = Usage(z, t)
        <5>1. s.used[t] - Bytes(gone) = Bytes(RowsOf(z.rows, t))
          BY <4>4, <4>5 DEF Usage
        <5> QED
          BY <4>2, <4>4, <5>1, MaxWithZero DEF Usage
      <4>6. ASSUME s.used[t] <= Usage(s, t)
            PROVE  z.used[t] <= Usage(z, t)
        <5> DEFINE less == s.used[t] - Bytes(gone)
        <5>1. less \in Int /\ less <= Bytes(RowsOf(z.rows, t))
          BY <4>4, <4>6 DEF Usage, Sound
        <5>2. z.used[t] = Max({0, less})
          BY <4>2
        <5> HIDE DEF less
        <5>3. z.used[t] = IF less >= 0 THEN less ELSE 0
          BY <5>1, <5>2, MaxWithZero
        <5> QED
          BY <4>4, <5>1, <5>3 DEF Usage
      <4> QED
        BY <3>2, <4>5, <4>6 DEF Exact, Under
    <3> QED
      BY <3>1, <3>2
  <2>5. z.rows \subseteq s.rows /\ z.saved = z.rows
    BY <2>2
  <2> QED
    BY <2>3, <2>4, <2>5 DEF z
<1> QED
  BY <1>1, <1>2

LEMMA CountedCounts ==
  ASSUME NEW s, Sound(s), NEW u
  PROVE  /\ Sound(Counted(s, u)) /\ Counted(s, u).rows = s.rows
         /\ Counted(s, u).saved = s.saved
         /\ \A t \in Tenants :
              /\ Exact(s, t) =>
                   /\ Exact(Counted(s, u), t)
                   /\ t = u => Counted(s, u).used[t] = Usage(s, t)
              /\ Under(s, t) =>
                   /\ Under(Counted(s, u), t)
                   /\ t = u => Counted(s, u).used[t] <= Usage(s, t)
<1> DEFINE z == Counted(s, u)
<1>1. /\ Shaped(z) /\ z.rows = s.rows /\ z.saved = s.saved
      /\ z.used = [s.used EXCEPT ![u] = Used(s, u)]
  BY DEF Counted, Sound, Shaped
<1> HIDE DEF z
<1>2. z.used = [t \in Tenants |-> z.used[t]]
  BY <1>1 DEF Sound
<1>3. ASSUME NEW t \in Tenants
      PROVE  /\ Exact(s, t) => (Exact(z, t) /\ (t = u => z.used[t] = Usage(s, t)))
             /\ Under(s, t) => (Under(z, t) /\ (t = u => z.used[t] <= Usage(s, t)))
             /\ z.used[t] \in Int
  <2>1. z.used[t] = IF t = u THEN Used(s, u) ELSE s.used[t]
    BY <1>1 DEF Sound
  <2>2. Usage(s, t) \in Nat /\ Usage(z, t) = Usage(s, t) /\ s.used[t] \in Int
    BY <1>1, UsageIsNat DEF Usage, Sound
  <2>3. Used(s, t) = IF s.used[t] = Unknown THEN Usage(s, t) ELSE s.used[t]
    BY DEF Used, Usage
  <2> QED
    BY <2>1, <2>2, <2>3 DEF Exact, Under
<1>4. Sound(z)
  BY <1>1, <1>2, <1>3 DEF Sound
<1> QED
  BY <1>1, <1>3, <1>4 DEF z

\* What is reserved is reserved against what the rows take.
LEMMA ReserveCounts ==
  ASSUME NEW s, Sound(s), NEW u, NEW size \in Int
  PROVE  /\ Sound(Reserve(s, u, size)) /\ Reserve(s, u, size).rows \subseteq s.rows
         /\ Reserve(s, u, size).saved \in {s.saved, Reserve(s, u, size).rows}
         /\ \A t \in Tenants :
              /\ Exact(s, t) =>
                   /\ Exact(Reserve(s, u, size), t)
                   /\ t = u /\ ~(size > Quota) =>
                        Reserve(s, u, size).used[t] = Usage(Reserve(s, u, size), t)
              /\ Under(s, t) => Under(Reserve(s, u, size), t)
<1> DEFINE y == Purge(Counted(s, u), TRUE)
<1>1. /\ Sound(Counted(s, u)) /\ Counted(s, u).rows = s.rows /\ Counted(s, u).saved = s.saved
      /\ \A t \in Tenants :
           /\ Exact(s, t) =>
                /\ Exact(Counted(s, u), t)
                /\ t = u => Counted(s, u).used[t] = Usage(Counted(s, u), t)
           /\ Under(s, t) => Under(Counted(s, u), t)
  BY CountedCounts DEF Usage
<1>2. /\ Sound(y) /\ y.rows \subseteq s.rows /\ y.saved \in {s.saved, y.rows}
      /\ \A t \in Tenants : (Exact(s, t) => Exact(y, t)) /\ (Under(s, t) => Under(y, t))
  <2> HIDE DEF y
  <2>1. /\ Sound(y) /\ y.rows \subseteq Counted(s, u).rows
        /\ y.saved \in {Counted(s, u).saved, y.rows}
        /\ \A t \in Tenants : /\ Exact(Counted(s, u), t) => Exact(y, t)
                              /\ Under(Counted(s, u), t) => Under(y, t)
    BY <1>1, PurgeCounts DEF y
  <2> QED
    BY <1>1, <2>1
<1>3. /\ Sound(Counted(y, u)) /\ Counted(y, u).rows \subseteq s.rows
      /\ Counted(y, u).saved \in {s.saved, Counted(y, u).rows}
      /\ \A t \in Tenants :
           /\ Exact(s, t) =>
                /\ Exact(Counted(y, u), t)
                /\ t = u => Counted(y, u).used[t] = Usage(Counted(y, u), t)
           /\ Under(s, t) => Under(Counted(y, u), t)
  <2> HIDE DEF y
  <2> QED
    BY <1>2, CountedCounts DEF Usage
<1>4. Reserve(s, u, size) =
        CASE size > Quota     -> s
          [] Fits(s, u, size) -> Counted(s, u)
          [] OTHER            -> Counted(y, u)
  BY DEF Reserve
<1>5. CASE size > Quota
  <2>1. Reserve(s, u, size) = s
    <3>1. ~Fits(s, u, size)
      BY <1>5, StoreAssumption DEF Fits
    <3> QED
      BY <1>5, <3>1 DEF Reserve
  <2>2. /\ s.rows \subseteq s.rows /\ s.saved \in {s.saved, s.rows}
        /\ \A t \in Tenants : (Exact(s, t) => Exact(s, t)) /\ (Under(s, t) => Under(s, t))
    OBVIOUS
  <2> QED
    BY <1>5, <2>1, <2>2, Zenon
<1>6. CASE ~(size > Quota) /\ Reserve(s, u, size) = Counted(s, u)
  <2>1. s.rows \subseteq s.rows
    OBVIOUS
  <2> QED
    BY <1>1, <1>6, <2>1
<1>7. CASE ~(size > Quota) /\ Reserve(s, u, size) = Counted(y, u)
  BY <1>3, <1>7
<1>8. size > Quota \/ Reserve(s, u, size) = Counted(s, u) \/ Reserve(s, u, size) = Counted(y, u)
  BY <1>4
<1> QED
  BY <1>5, <1>6, <1>7, <1>8

\* A row that goes in, in the place of the envelope before it.
LEMMA InsertedCounts ==
  ASSUME NEW s, NEW z, Sound(z), z.rows \subseteq s.rows, Sized(s.rows),
         NEW row, row.size \in Nat, row \notin z.rows \ Prior(s, row)
  PROVE  /\ Sound([Inserted(s, z, row) EXCEPT !.saved = Inserted(s, z, row).rows])
         /\ Sound(Inserted(s, z, row)) /\ Inserted(s, z, row).saved = z.saved
         /\ \A t \in Tenants : t # row.tenant =>
              /\ Exact(z, t) => Exact(Inserted(s, z, row), t)
              /\ Usage(Inserted(s, z, row), t) = Usage(z, t)
         /\ \A t \in Tenants : Under(z, t) => Under(Inserted(s, z, row), t)
         /\ \A t \in Tenants :
              (/\ t = row.tenant /\ Prior(s, row) \subseteq z.rows
               /\ z.used[t] = Usage(z, t) /\ Usage(z, t) + Growth(s, row) <= Quota) =>
              /\ Exact(Inserted(s, z, row), t)
              /\ Usage(Inserted(s, z, row), t) <= Quota
<1> DEFINE prior == Prior(s, row)
           full == Inserted(s, z, row)
           delta == row.size - Bytes(prior)
           u == row.tenant
<1>1. prior \subseteq s.rows /\ \A r \in prior : r.tenant = u
  BY DEF Prior, Same
<1>2. Sized(prior) /\ Bytes(prior) \in Nat
  BY <1>1, SizedSubset, BytesNat
<1>3. /\ Shaped(full) /\ full.saved = z.saved /\ full.rows = (z.rows \ prior) \union {row}
  BY InsertedFacts DEF Sound
<1>4. full.used = IF z.used[u] = Unknown THEN z.used
                  ELSE [z.used EXCEPT ![u] = Max({0, z.used[u] + delta})]
  BY DEF Inserted, Adjusted, Sound, Shaped
<1> HIDE DEF full
<1>5. full.used = [t \in Tenants |-> full.used[t]]
  BY <1>4 DEF Sound
<1>6. Sized(full.rows)
  <2>1. Sized(z.rows \ prior)
    BY SizedSubset DEF Sound
  <2> QED
    BY <1>3, <2>1, BytesAdd
<1>7. ASSUME NEW t \in Tenants, t # u
      PROVE  /\ Exact(z, t) => Exact(full, t)
             /\ Under(z, t) => Under(full, t)
             /\ Usage(full, t) = Usage(z, t)
  <2>1. full.used[t] = z.used[t]
    BY <1>4, <1>7 DEF Sound
  <2>2. RowsOf(full.rows, t) = RowsOf(z.rows, t)
    BY <1>1, <1>3, <1>7 DEF RowsOf
  <2> QED
    BY <2>1, <2>2 DEF Exact, Under, Usage
\* An envelope that expired before is no longer in the tables, but counted down.
<1>10. ASSUME u \in Tenants, Under(z, u)
       PROVE  Under(full, u)
  <2> DEFINE mine == RowsOf(z.rows, u)
             same == prior \intersect mine
  <2>1. Sized(mine) /\ Usage(z, u) = Bytes(mine) /\ same \subseteq mine /\ same \subseteq prior
    BY UsageIsNat DEF Usage
  <2>2. RowsOf(full.rows, u) = (mine \ same) \union {row}
    BY <1>3 DEF RowsOf
  <2>3. row \notin mine \ same /\ Sized(mine \ same)
    BY <2>1, SizedSubset DEF RowsOf
  <2> HIDE DEF mine, prior, same
  <2>4. /\ Bytes(mine) = Bytes(same) + Bytes(mine \ same)
        /\ Bytes(same) \in Nat /\ Bytes(mine \ same) \in Nat
    BY <2>1, BytesSplit
  <2>5. Bytes(same) <= Bytes(prior)
    <3>1. Bytes(prior) = Bytes(same) + Bytes(prior \ same) /\ Bytes(prior \ same) \in Nat
      BY <1>2, <2>1, BytesSplit
    <3> QED
      BY <1>2, <2>4, <3>1
  <2>6. Usage(full, u) = Bytes(mine \ same) + row.size
    BY <2>2, <2>3, BytesAdd DEF Usage
  <2>7. CASE z.used[u] = Unknown
    BY <1>4, <2>7 DEF Under
  <2>8. CASE z.used[u] # Unknown
    <3> DEFINE count == z.used[u] + delta
    <3>1. z.used[u] \in Int /\ z.used[u] <= Bytes(mine)
      BY <1>10, <2>1, <2>8 DEF Sound, Under
    <3>2. count \in Int /\ count <= Usage(full, u) /\ Usage(full, u) \in Nat
      BY <1>2, <2>4, <2>5, <2>6, <3>1
    <3>3. full.used[u] = Max({0, count})
      <4> HIDE DEF delta
      <4> QED
        BY <1>4, <1>10, <2>8 DEF Sound
    <3> HIDE DEF count
    <3>4. full.used[u] = IF count >= 0 THEN count ELSE 0
      BY <3>2, <3>3, MaxWithZero
    <3> QED
      BY <3>2, <3>4 DEF Under
  <2> QED
    BY <2>7, <2>8
<1>8. ASSUME u \in Tenants, prior \subseteq z.rows,
             z.used[u] = Usage(z, u), Usage(z, u) + Growth(s, row) <= Quota
      PROVE  Exact(full, u) /\ Usage(full, u) <= Quota
  <2> DEFINE mine == RowsOf(z.rows, u)
  <2>1. Sized(mine) /\ Usage(z, u) = Bytes(mine) /\ prior \subseteq mine
    BY <1>1, <1>8, UsageIsNat DEF RowsOf, Usage
  <2>2. RowsOf(full.rows, u) = (mine \ prior) \union {row}
    BY <1>3 DEF RowsOf
  <2>3. row \notin mine \ prior /\ Sized(mine \ prior)
    BY <2>1, SizedSubset DEF RowsOf
  <2> HIDE DEF mine, prior
  <2>4. /\ Bytes(mine) = Bytes(prior) + Bytes(mine \ prior)
        /\ Bytes(prior) \in Nat /\ Bytes(mine \ prior) \in Nat
    BY <2>1, BytesSplit
  <2>5. Usage(full, u) = Bytes(mine \ prior) + row.size
    BY <2>2, <2>3, BytesAdd DEF Usage
  <2>6. z.used[u] \in Nat /\ z.used[u] + delta = Usage(full, u) /\ Usage(full, u) \in Nat
    BY <1>8, <2>1, <2>4, <2>5
  <2>7. full.used[u] = Usage(full, u)
    <3>1. z.used[u] # Unknown
      BY <2>6 DEF Unknown
    <3>2. full.used[u] = Max({0, z.used[u] + delta})
      <4> HIDE DEF delta
      <4> QED
        BY <1>4, <1>8, <3>1 DEF Sound
    <3> HIDE DEF delta
    <3> QED
      BY <2>6, <3>2, MaxWithZero
  <2>8. Growth(s, row) \in Int /\ Growth(s, row) >= delta
    BY <1>2, MaxWithZero DEF Growth, prior
  <2>9. Usage(full, u) <= Quota
    BY <1>2, <1>8, <2>1, <2>4, <2>5, <2>8, StoreAssumption
  <2> QED
    BY <2>7, <2>9 DEF Exact
<1>9. Sound([full EXCEPT !.saved = full.rows]) /\ Sound(full)
  <2> DEFINE w == [full EXCEPT !.saved = full.rows]
  <2>1. Shaped(w) /\ w.rows = full.rows /\ w.saved = full.rows /\ w.used = full.used
    BY <1>3 DEF Shaped
  <2>2. ASSUME NEW t \in Tenants
        PROVE  full.used[t] \in Int
    <3>1. z.used[t] \in Int /\ (z.used[u] + delta \in Int \/ t # u)
      BY <1>2, <2>2 DEF Sound
    <3> HIDE DEF delta
    <3>2. full.used[t] = IF t = u /\ z.used[u] # Unknown THEN Max({0, z.used[u] + delta})
                         ELSE z.used[t]
      BY <1>4, <2>2 DEF Sound
    <3> QED
      BY <2>2, <3>1, <3>2, MaxWithZero DEF Sound
  <2>3. Sound(w)
    <3> HIDE DEF w
    <3> QED
      BY <1>5, <1>6, <2>1, <2>2 DEF Sound
  <2> QED
    BY <1>3, <1>5, <1>6, <2>2, <2>3 DEF Sound
<1>11. ASSUME NEW t \in Tenants, Under(z, t)
       PROVE  Under(full, t)
  BY <1>7, <1>10, <1>11
<1> QED
  BY <1>3, <1>7, <1>8, <1>9, <1>11 DEF full

\* A tenant's cached usage, as long as it is known and was not counted down twice, is what
\* its rows take, and they fit its quota; so do the rows a restart would find.  It never
\* is more than the rows take.
UsageInv ==
  /\ now \in Nat /\ inserted \in Nat
  /\ Sound(store)
  /\ \A row \in store.rows \union store.saved :
       row.table \in {"mailbox", "collaboration"} => row.key \in Nat /\ row.key < 10 + inserted
  /\ \A t \in Tenants \ miscounted :
       Exact(store, t) /\ Usage(store, t) <= Quota /\ OnDisk(store, t) <= Quota
  /\ \A t \in Tenants : Under(store, t)

LEMMA UsageInvInit == Init => UsageInv
<1> SUFFICES ASSUME Init PROVE UsageInv
  OBVIOUS
<1>1. store = Opened({}) /\ now = 0 /\ inserted = 0
  BY DEF Init, StoreInit
<1>2. Sound(store) /\ store.rows = {}
  BY <1>1, FS_EmptySet DEF Opened, Sound, Shaped, Sized, Unknown
<1>3. ASSUME NEW t \in Tenants
      PROVE  /\ Exact(store, t) /\ Usage(store, t) <= Quota
             /\ OnDisk(store, t) <= Quota /\ Under(store, t)
  <2>1. store.used[t] = Unknown
    BY <1>1 DEF Opened
  <2>2. RowsOf(store.rows, t) = {}
    BY <1>2 DEF RowsOf
  <2> QED
    BY <1>1, <1>2, <2>1, <2>2, BytesOfNone, StoreAssumption
       DEF Exact, Under, Usage, OnDisk, Opened
<1>4. store.saved = {}
  BY <1>1 DEF Opened
<1> QED
  BY <1>1, <1>2, <1>3, <1>4 DEF UsageInv

\* Rows that only expire leave usage exact and within the quota.
LEMMA PassingCounts ==
  ASSUME UsageInv, Sound(store'), store'.rows \subseteq store.rows,
         store'.saved \in {store.saved, store'.rows},
         \A t \in Tenants : /\ Exact(store, t) => Exact(store', t)
                            /\ Under(store, t) => Under(store', t),
         UNCHANGED <<now, inserted, miscounted>>
  PROVE  UsageInv'
<1>1. ASSUME NEW t \in Tenants \ miscounted
      PROVE  /\ Exact(store', t) /\ Usage(store', t) <= Quota
             /\ OnDisk(store', t) <= Quota
  <2>1. /\ Exact(store, t) /\ Usage(store, t) <= Quota
        /\ Usage(store, t) \in Nat /\ Usage(store', t) \in Nat
    BY UsageIsNat DEF UsageInv
  <2>2. Usage(store', t) <= Usage(store, t)
    BY FewerRows DEF UsageInv, Usage
  <2>3. OnDisk(store', t) \in {OnDisk(store, t), Usage(store', t)}
    BY DEF OnDisk, Usage
  <2>4. Usage(store', t) <= Quota
    BY <2>1, <2>2, StoreAssumption
  <2> QED
    BY <2>1, <2>3, <2>4 DEF UsageInv
<1>2. \A t \in Tenants : Under(store', t)
  BY DEF UsageInv
<1>3. store'.rows \union store'.saved \subseteq store.rows \union store.saved
  OBVIOUS
<1> QED
  BY <1>1, <1>2, <1>3 DEF UsageInv, Exact, Under, Usage, OnDisk, Sound, Shaped

LEMMA PutCounts ==
  ASSUME UsageInv, NEW table \in Tables, NEW u, NEW size \in Sizes,
         NEW ttl \in TTLs, NEW outcome \in {"stored", "refused", "failed"},
         Put(New(table, u, size, ttl), outcome)
  PROVE  UsageInv'
<1> DEFINE row == New(table, u, size, ttl)
           s == Purge(store, FALSE)
           grown == Growth(s, row)
           z == Reserve(s, row.tenant, grown)
           full == Inserted(s, z, row)
<1>1. /\ Sound(s) /\ s.rows \subseteq store.rows /\ s.saved \in {store.saved, s.rows}
      /\ \A t \in Tenants : /\ Exact(store, t) => Exact(s, t)
                            /\ Under(store, t) => Under(s, t)
  BY PurgeCounts DEF UsageInv
<1>0. grown \in Int
  <2>1. row.size \in Nat
    BY StoreAssumption DEF New
  <2>2. Prior(s, row) \subseteq s.rows
    BY DEF Prior
  <2> HIDE DEF s, row
  <2>3. row.size - Bytes(Prior(s, row)) \in Int
    BY <1>1, <2>1, <2>2, SizedSubset, BytesNat DEF Sound
  <2> QED
    BY <2>3, MaxWithZero DEF Growth
<1>2. /\ Sound(z) /\ z.rows \subseteq s.rows /\ z.saved \in {s.saved, z.rows}
      /\ \A t \in Tenants :
           /\ Exact(s, t) =>
                /\ Exact(z, t)
                /\ t = row.tenant /\ ~(grown > Quota) => z.used[t] = Usage(z, t)
           /\ Under(s, t) => Under(z, t)
  <2> HIDE DEF s, row, grown
  <2> QED
    BY <1>1, <1>0, ReserveCounts
<1>3. ASSUME NEW t \in Tenants \ miscounted
      PROVE  /\ Exact(z, t) /\ Usage(z, t) <= Quota /\ OnDisk(z, t) <= Quota
             /\ t = row.tenant /\ ~(grown > Quota) => z.used[t] = Usage(z, t)
  <2> HIDE DEF s, z, grown
  <2>1. /\ Exact(store, t) /\ Usage(store, t) <= Quota /\ Usage(store, t) \in Nat
        /\ OnDisk(store, t) <= Quota
    BY UsageIsNat DEF UsageInv
  <2>2. Usage(z, t) \in Nat /\ Usage(z, t) <= Usage(store, t)
    <3>1. z.rows \subseteq store.rows
      BY <1>1, <1>2
    <3> QED
      BY <3>1, FewerRows DEF UsageInv, Usage
  <2>3. Usage(z, t) <= Quota
    BY <2>1, <2>2, StoreAssumption
  <2>4. Bytes(RowsOf(s.rows, t)) \in Nat /\ Bytes(RowsOf(s.rows, t)) <= Quota
    <3>1. Bytes(RowsOf(s.rows, t)) \in Nat /\ Bytes(RowsOf(s.rows, t)) <= Usage(store, t)
      BY <1>1, FewerRows DEF UsageInv
    <3> QED
      BY <2>1, <3>1, StoreAssumption
  <2>5. OnDisk(z, t) <= Quota
    BY <1>1, <1>2, <2>1, <2>3, <2>4 DEF OnDisk, Usage
  <2> QED
    BY <1>1, <1>2, <2>1, <2>3, <2>5
<1>4. row = [table |-> table, tenant |-> u, key |-> KeyOf(table, size),
             size |-> size, expires |-> now + ttl]
  BY DEF New
<1>5. /\ row.tenant = u /\ row.size = size /\ row.table = table /\ row.size \in Nat
      /\ row.key = KeyOf(table, size)
  BY <1>4, StoreAssumption
<1>6. row \notin z.rows \ Prior(s, row)
  <2> SUFFICES ASSUME row \in z.rows PROVE row \in Prior(s, row)
    OBVIOUS
  <2>1. row \in s.rows /\ row \in store.rows
    BY <1>1, <1>2
  <2>2. Insertable(s, row)
    BY DEF Put
  <2> HIDE DEF s, row
  <2>3. table # "objects"
    BY <1>5, <2>1, <2>2 DEF Insertable, Same
  <2>4. table \notin {"mailbox", "collaboration"}
    <3> SUFFICES ASSUME table \in {"mailbox", "collaboration"} PROVE FALSE
      OBVIOUS
    <3>1. row.key = 10 + inserted
      BY <1>5 DEF KeyOf
    <3> QED
      BY <1>5, <2>1, <3>1 DEF UsageInv
  <2>5. table = "rendezvous"
    BY <2>3, <2>4 DEF Tables
  <2> QED
    BY <1>5, <2>1, <2>5 DEF Prior, Same
<1>7. /\ Sound([full EXCEPT !.saved = full.rows])
      /\ Sound(full) /\ full.saved = z.saved
      /\ \A t \in Tenants : t # row.tenant =>
           /\ Exact(z, t) => Exact(full, t)
           /\ Usage(full, t) = Usage(z, t)
      /\ \A t \in Tenants : Under(z, t) => Under(full, t)
      /\ \A t \in Tenants :
           (/\ t = row.tenant /\ Prior(s, row) \subseteq z.rows
            /\ z.used[t] = Usage(z, t) /\ Usage(z, t) + grown <= Quota) =>
           Exact(full, t) /\ Usage(full, t) <= Quota
  <2> HIDE DEF s, row, z
  <2> QED
    BY <1>1, <1>2, <1>5, <1>6, InsertedCounts DEF Sound
<1>8. full.rows = (z.rows \ Prior(s, row)) \union {row}
  <2> HIDE DEF s, row, z
  <2> QED
    BY <1>2, InsertedFacts DEF Sound
<1>14. ASSUME NEW t \in Tenants
       PROVE  Under(z, t) /\ Under(full, t)
  <2> HIDE DEF s, z, full, row, grown
  <2> QED
    BY <1>1, <1>2, <1>7 DEF UsageInv
<1>15. z.saved \subseteq store.rows \union store.saved
  BY <1>1, <1>2
<1>9. ASSUME Fits(z, row.tenant, grown), NEW t \in Tenants \ miscounted,
             t = row.tenant => Prior(s, row) \subseteq z.rows
      PROVE  Exact(full, t) /\ Usage(full, t) <= Quota
  <2> HIDE DEF s, z, grown, full, row
  <2>1. CASE t # row.tenant
    BY <1>3, <1>7, <2>1
  <2>2. CASE t = row.tenant
    <3>1. ~(grown > Quota)
      BY <1>0, <1>9, StoreAssumption DEF Fits
    <3>2. z.used[t] = Usage(z, t)
      BY <1>3, <2>2, <3>1
    <3>3. Used(z, t) = Usage(z, t)
      BY <3>2 DEF Used, Usage
    <3>4. Usage(z, t) + grown <= Quota
      BY <1>9, <2>2, <3>3 DEF Fits
    <3> QED
      BY <1>7, <1>9, <2>2, <3>2, <3>4
  <2> QED
    BY <2>1, <2>2
<1>10. ASSUME NEW r \in z.rows \union full.rows, r.table \in {"mailbox", "collaboration"}
       PROVE  r.key \in Nat /\ r.key < 11 + inserted /\ (r \in z.rows => r.key < 10 + inserted)
  <2> HIDE DEF s, z, full, row
  <2>1. CASE r \in z.rows
    <3>1. r \in store.rows
      BY <1>1, <1>2, <2>1
    <3> QED
      BY <1>10, <3>1 DEF UsageInv
  <2>2. CASE r = row
    <3>1. r.key = 10 + inserted
      BY <1>5, <1>10, <2>2 DEF KeyOf
    <3>2. inserted \in Nat
      BY DEF UsageInv
    <3>3. r \in z.rows => r \in store.rows
      BY <1>1, <1>2
    <3> QED
      BY <1>10, <3>1, <3>2, <3>3 DEF UsageInv
  <2> QED
    BY <1>8, <2>1, <2>2
<1>16. ASSUME NEW r \in z.saved, r.table \in {"mailbox", "collaboration"}
       PROVE  r.key \in Nat /\ r.key < 10 + inserted
  BY <1>15, <1>16 DEF UsageInv
<1>11. CASE outcome = "refused"
  <2>1. store' = z /\ UNCHANGED <<now, inserted, miscounted>>
    BY <1>11 DEF Put
  <2> HIDE DEF s, z, full, row, grown
  <2> QED
    BY <1>2, <1>3, <1>10, <1>14, <1>16, <2>1
       DEF UsageInv, Exact, Under, Usage, OnDisk, Sound, Shaped
<1>12. CASE outcome = "stored"
  <2>1. /\ Fits(z, row.tenant, grown) /\ UNCHANGED now /\ inserted' = inserted + 1
        /\ store' = [full EXCEPT !.saved = full.rows]
        /\ miscounted' = IF Prior(s, row) \subseteq z.rows THEN miscounted
                         ELSE miscounted \union {row.tenant}
    BY <1>12 DEF Put
  <2> HIDE DEF s, z, full, row, grown
  <2>2. /\ Sound(store') /\ store'.rows = full.rows /\ store'.used = full.used
        /\ store'.saved = full.rows
    BY <1>7, <2>1 DEF Sound, Shaped
  <2>3. ASSUME NEW t \in Tenants \ miscounted'
        PROVE  /\ Exact(store', t) /\ Usage(store', t) <= Quota
               /\ OnDisk(store', t) <= Quota
    <3>1. t \in Tenants \ miscounted /\ (t = row.tenant => Prior(s, row) \subseteq z.rows)
      BY <2>1, <2>3
    <3>2. Exact(full, t) /\ Usage(full, t) <= Quota
      BY <1>9, <2>1, <3>1
    <3> QED
      BY <2>2, <3>2 DEF Exact, Usage, OnDisk
  <2>5. ASSUME NEW t \in Tenants
        PROVE  Under(store', t)
    BY <1>14, <2>2 DEF Under, Usage
  <2>4. ASSUME NEW r \in store'.rows, r.table \in {"mailbox", "collaboration"}
        PROVE  r.key \in Nat /\ r.key < 10 + inserted'
    BY <1>10, <2>1, <2>2, <2>4 DEF UsageInv
  <2> QED
    BY <2>1, <2>2, <2>3, <2>4, <2>5
       DEF UsageInv, Exact, Under, Usage, OnDisk, Sound, Shaped
<1>13. CASE outcome = "failed"
  <2>1. /\ Fits(z, row.tenant, grown) /\ UNCHANGED now /\ inserted' = inserted + 1
        /\ store' = full
        /\ miscounted' = IF Prior(s, row) \subseteq z.rows THEN miscounted
                         ELSE miscounted \union {row.tenant}
    BY <1>13 DEF Put
  <2> HIDE DEF s, z, full, row, grown
  <2>2. Sound(store') /\ store'.saved = z.saved
    BY <1>7, <2>1
  <2>3. ASSUME NEW t \in Tenants \ miscounted'
        PROVE  /\ Exact(store', t) /\ Usage(store', t) <= Quota
               /\ OnDisk(store', t) <= Quota
    <3>1. t \in Tenants \ miscounted /\ (t = row.tenant => Prior(s, row) \subseteq z.rows)
      BY <2>1, <2>3
    <3>2. Exact(full, t) /\ Usage(full, t) <= Quota
      BY <1>9, <2>1, <3>1
    <3> QED
      BY <1>3, <2>1, <2>2, <3>1, <3>2 DEF OnDisk
  <2>4. ASSUME NEW r \in store'.rows \union store'.saved,
               r.table \in {"mailbox", "collaboration"}
        PROVE  r.key \in Nat /\ r.key < 10 + inserted'
    BY <1>10, <1>16, <2>1, <2>2, <2>4 DEF UsageInv
  <2>5. ASSUME NEW t \in Tenants
        PROVE  Under(store', t)
    BY <1>14, <2>1
  <2>6. now' \in Nat /\ inserted' \in Nat
    BY <2>1 DEF UsageInv
  <2>7. \A t \in Tenants \ miscounted' :
          /\ Exact(store', t) /\ Usage(store', t) <= Quota
          /\ OnDisk(store', t) <= Quota
    BY <2>3
  <2> QED
    BY <2>2, <2>4, <2>5, <2>6, <2>7
       DEF UsageInv, Exact, Under, Usage, OnDisk, Sound, Shaped
<1> QED
  BY <1>11, <1>12, <1>13

\* An acknowledgement takes from the count what it takes from the tables.
LEMMA AcknowledgeCounts ==
  ASSUME UsageInv, NEW u, NEW key, Acknowledge(u, key)
  PROVE  UsageInv'
<1> DEFINE prior == {r \in store.rows : Same(r, "mailbox", u, key)}
           open == [store EXCEPT !.rows = @ \ prior]
           z == Adjusted(open, u, -Bytes(prior))
<1>1. /\ Shaped(open) /\ open.rows = store.rows \ prior
      /\ open.used = store.used
  <2>1. Shaped(store)
    BY DEF UsageInv, Sound
  <2> HIDE DEF prior
  <2> QED
    BY <2>1 DEF Shaped
<1>2. Sized(prior) /\ Bytes(prior) \in Nat /\ \A r \in prior : r.tenant = u
  <2>1. prior \subseteq store.rows /\ \A r \in prior : r.tenant = u
    BY DEF Same
  <2> HIDE DEF prior
  <2> QED
    BY <2>1, SizedSubset, BytesNat DEF UsageInv, Sound
<1>3. /\ Shaped(z) /\ z.rows = store.rows \ prior
      /\ z.used = IF store.used[u] = Unknown THEN store.used
                  ELSE [store.used EXCEPT ![u] = Max({0, store.used[u] + (-Bytes(prior))})]
  <2> HIDE DEF open, prior
  <2>1. Shaped(z) /\ z.rows = open.rows
    BY <1>1, AdjustedFacts
  <2>2. z.used = IF open.used[u] = Unknown THEN open.used
                 ELSE [open.used EXCEPT ![u] = Max({0, open.used[u] + (-Bytes(prior))})]
    BY <1>1 DEF Adjusted, Shaped
  <2> QED
    BY <1>1, <2>1, <2>2
<1>4. store' = [z EXCEPT !.saved = z.rows] /\ UNCHANGED <<now, inserted, miscounted>>
  BY DEF Acknowledge
<1> HIDE DEF z
<1>5. /\ Shaped(store') /\ store'.rows = store.rows \ prior /\ store'.saved = store'.rows
      /\ store'.used = z.used
  BY <1>3, <1>4 DEF Shaped
<1> HIDE DEF prior
<1>6. Sound(store')
  <2>1. Sized(store.rows \ prior)
    BY SizedSubset DEF UsageInv, Sound
  <2>2. store'.used = [t \in Tenants |-> store'.used[t]]
    BY <1>3, <1>5 DEF UsageInv, Sound
  <2>3. ASSUME NEW t \in Tenants
        PROVE  store'.used[t] \in Int
    <3> DEFINE less == store.used[u] + (-Bytes(prior))
    <3>1. t = u => less \in Int
      BY <1>2 DEF UsageInv, Sound
    <3>2. store'.used[t] = IF t = u /\ store.used[u] # Unknown THEN Max({0, less})
                           ELSE store.used[t]
      BY <1>3, <1>5 DEF UsageInv, Sound
    <3> HIDE DEF less
    <3> QED
      BY <3>1, <3>2, MaxWithZero DEF UsageInv, Sound
  <2> QED
    BY <1>5, <2>1, <2>2, <2>3 DEF Sound
<1>7. ASSUME NEW t \in Tenants
      PROVE  (Exact(store, t) => Exact(store', t)) /\ (Under(store, t) => Under(store', t))
  <2>1. CASE t # u
    <3>1. store'.used[t] = store.used[t]
      BY <1>3, <1>5, <2>1 DEF UsageInv, Sound
    <3>2. RowsOf(store'.rows, t) = RowsOf(store.rows, t)
      BY <1>2, <1>5, <2>1 DEF RowsOf
    <3> QED
      BY <3>1, <3>2 DEF Exact, Under, Usage
  <2>2. CASE t = u /\ store.used[t] = Unknown
    BY <1>3, <1>5, <2>2 DEF Exact, Under
  <2>3. CASE t = u /\ store.used[t] # Unknown
    <3> DEFINE mine == RowsOf(store.rows, u)
    <3>1. Sized(mine) /\ Usage(store, u) = Bytes(mine)
      BY UsageIsNat DEF UsageInv, Usage
    <3>2. prior \subseteq mine /\ RowsOf(store'.rows, u) = mine \ prior
      BY <1>2, <1>5 DEF RowsOf, prior
    <3> HIDE DEF mine
    <3>3. /\ Bytes(mine) = Bytes(prior) + Bytes(mine \ prior)
          /\ Bytes(prior) \in Nat /\ Bytes(mine \ prior) \in Nat
      BY <3>1, <3>2, BytesSplit
    <3> DEFINE less == store.used[u] + (-Bytes(prior))
               left == Bytes(mine \ prior)
    <3>4. less \in Int /\ left \in Nat
      BY <2>3, <3>3 DEF UsageInv, Sound
    <3>5. /\ Exact(store, t) => less = left
          /\ Under(store, t) => less <= left
      BY <2>3, <3>1, <3>3 DEF Exact, Under, UsageInv, Sound
    <3>6. store'.used[t] = Max({0, less}) /\ Usage(store', t) = left
      BY <1>3, <1>5, <2>3, <3>2 DEF UsageInv, Sound, Usage
    <3> HIDE DEF less, left
    <3>7. store'.used[t] = IF less >= 0 THEN less ELSE 0
      BY <3>4, <3>6, MaxWithZero
    <3> QED
      BY <3>4, <3>5, <3>6, <3>7 DEF Exact, Under
  <2> QED
    BY <2>1, <2>2, <2>3
<1>8. store'.rows \subseteq store.rows
  BY <1>5
<1> QED
  BY <1>4, <1>6, <1>7, <1>8, PassingCounts

LEMMA UsageInvNext == UsageInv /\ [Next]_vars => UsageInv'
<1> SUFFICES ASSUME UsageInv, [Next]_vars PROVE UsageInv'
  OBVIOUS
<1>1. CASE UNCHANGED storeVars
  BY <1>1 DEF UsageInv, storeVars, Exact, Under, Usage, OnDisk, Sound, Shaped
<1>2. CASE store' = Purge(store, FALSE) /\ UNCHANGED <<now, inserted, miscounted>>
  BY <1>2, PurgeCounts, PassingCounts DEF UsageInv
<1>3. CASE CommitAll
  <2>1. /\ store' = [store EXCEPT !.saved = store.rows]
        /\ UNCHANGED <<now, inserted, miscounted>>
    BY <1>3 DEF CommitAll
  <2>2. /\ Shaped(store') /\ store'.rows = store.rows /\ store'.saved = store.rows
        /\ store'.used = store.used
    BY <2>1 DEF UsageInv, Sound, Shaped
  <2>3. Sound(store') /\ \A t \in Tenants : /\ Exact(store, t) => Exact(store', t)
                                            /\ Under(store, t) => Under(store', t)
    BY <2>2 DEF UsageInv, Sound, Exact, Under, Usage
  <2> QED
    BY <2>1, <2>2, <2>3, PassingCounts
<1>4. CASE Reopen
  <2>1. store' = Opened(store.saved) /\ UNCHANGED <<now, inserted, miscounted>>
    BY <1>4 DEF Reopen
  <2>2. /\ Shaped(store') /\ store'.rows = store.saved /\ store'.saved = store.saved
        /\ store'.used = [t \in Tenants |-> Unknown]
    BY <2>1 DEF Opened, Shaped
  <2>3. Sound(store') /\ \A t \in Tenants : Exact(store', t) /\ Under(store', t)
    BY <2>2 DEF UsageInv, Sound, Exact, Under, Unknown
  <2>4. ASSUME NEW t \in Tenants \ miscounted
        PROVE  Usage(store', t) <= Quota /\ OnDisk(store', t) <= Quota
    BY <2>2 DEF UsageInv, Usage, OnDisk
  <2> QED
    BY <2>1, <2>2, <2>3, <2>4 DEF UsageInv, Exact, Under, Usage, OnDisk, Sound, Shaped
<1>5. CASE Tick
  BY <1>5 DEF Tick, UsageInv, Exact, Under, Usage, OnDisk, Sound, Shaped
<1>6. ASSUME NEW c \in Connections, Request(c)
      PROVE  UsageInv'
  <2>1. ASSUME NEW table \in Tables, NEW size \in Sizes, NEW ttl \in TTLs,
               NEW outcome \in {"stored", "refused", "failed"},
               PostItem(c, table, size, ttl, outcome)
        PROVE  UsageInv'
    BY <2>1, PutCounts DEF PostItem
  <2>2. CASE PostExisting(c)
    BY <1>2, <2>2 DEF PostExisting, PutExisting
  <2>3. CASE Get(c)
    BY <1>2, <2>3 DEF Get, ReadRows
  <2>4. ASSUME NEW key, Delete(c, key)
        PROVE  UsageInv'
    BY <2>4, AcknowledgeCounts DEF Delete
  <2>5. ASSUME NEW j \in Jobs, PostJob(c, j)
        PROVE  UsageInv'
    BY <1>1, <2>5 DEF PostJob
  <2>6. CASE Answer(c)
    BY <1>3, <2>6 DEF Answer
  <2>7. CASE AnswerLost(c)
    BY <1>1, <2>7 DEF AnswerLost
  <2> QED
    BY <1>6, <2>1, <2>2, <2>3, <2>4, <2>5, <2>6, <2>7 DEF Request
<1> QED
  BY <1>1, <1>4, <1>5, <1>6 DEF Next, Connection, Time, Agent, Restart, vars

\* What the store promises its clients and its operator: the usage it has cached for a
\* tenant is what the tenant's rows take, and never more than its quota, whatever purges,
\* replaced envelopes, acknowledgements, refusals, failed commits and restarts came
\* before, but for the tenants whose expired envelope _reserve counted down twice; it is
\* never more than their rows take, for none of them.  What was answered stays stored
\* until it expires, is acknowledged or replaced (server_store.py, server.py).
THEOREM StoreKeepsPromises == Spec => []StorePromises
<1>1. UsageInv => UsageIsExact
  BY DEF UsageInv, UsageIsExact, Exact, Under, Usage
<1>2. StoredInv => AnsweredIsStored
  BY DEF StoredInv, AnsweredIsStored
<1> QED
  BY <1>1, <1>2, UsageInvInit, UsageInvNext, StoredInvInit, StoredInvNext, PTL
  DEF Spec, StorePromises
=============================================================================
