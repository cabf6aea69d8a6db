--------------------------- MODULE ServerRequests ---------------------------
(***************************************************************************)
(* The admission of connections by the self-hosted server (server.py): the *)
(* accepting thread, one thread for each connection, the request slots     *)
(* with their count for each source, and the relay slots with their count  *)
(* for each tenant.  A semaphore and the count beside it are taken and     *)
(* given back in two steps, since only the count is under a lock.          *)
(*                                                                         *)
(* What a request does in the store or to a synchronization job is         *)
(* Server's; here a thread is serving, relaying, or on a way out.          *)
(***************************************************************************)
EXTENDS Naturals, FiniteSets

CONSTANTS Connections, \* connections that clients open
          SourceOf,    \* the address each comes from
          TenantOf,    \* the tenant of its token
          MaxRequests, MaxPerSource,  \* max_concurrent_requests, max_requests_per_source
          MaxRelays, MaxPerTenant     \* max_relay_connections(_per_tenant)

ASSUME RequestsAssumption ==
  /\ IsFiniteSet(Connections)
  /\ MaxRequests \in Nat \ {0} /\ MaxPerSource \in 1..MaxRequests
  /\ MaxRelays \in Nat \ {0} /\ MaxPerTenant \in 1..MaxRelays

VARIABLES
  conn,            \* where each connection is
  requestSlots,    \* _request_slots: how many are free
  bySource,        \* _requests_by_source
  relaySlots,      \* _relay_slots: how many are free
  byTenant         \* _relays_by_tenant

relayVars == <<relaySlots, byTenant>>
slotVars == <<requestSlots, bySource>>
requestVars == <<conn, slotVars, relayVars>>

Sources == {SourceOf[c] : c \in Connections}
RelayTenants == {TenantOf[c] : c \in Connections}

RequestsInit ==
  /\ conn = [c \in Connections |-> "away"]
  /\ requestSlots = MaxRequests /\ bySource = [s \in Sources |-> 0]
  /\ relaySlots = MaxRelays /\ byTenant = [t \in RelayTenants |-> 0]

At(c, place) == conn[c] = place
Goes(c, place) == conn' = [conn EXCEPT ![c] = place]

-----------------------------------------------------------------------------
(* process_request, in the one thread that accepts *)

\* No slot is free: the connection is shut down at once.
AcceptFull(c) ==
  /\ At(c, "away") /\ requestSlots = 0
  /\ Goes(c, "away")
  /\ UNCHANGED <<slotVars, relayVars>>

AcceptTakes(c) ==
  /\ At(c, "away") /\ requestSlots > 0
  /\ \A d \in Connections : ~At(d, "accepted")
  /\ requestSlots' = requestSlots - 1
  /\ Goes(c, "accepted")
  /\ UNCHANGED <<bySource, relayVars>>

\* (Mutant) The slot of a connection that is shut down is not given back.
AcceptRefusesKeepsSlot(c) ==
  /\ At(c, "accepted") /\ bySource[SourceOf[c]] >= MaxPerSource
  /\ Goes(c, "away")
  /\ UNCHANGED <<slotVars, relayVars>>

AcceptRefuses(c) ==
  /\ At(c, "accepted") /\ bySource[SourceOf[c]] >= MaxPerSource
  /\ requestSlots' = requestSlots + 1
  /\ Goes(c, "away")
  /\ UNCHANGED <<bySource, relayVars>>

\* The source is counted, and the thread of the connection started.
AcceptStarts(c) ==
  /\ At(c, "accepted") /\ bySource[SourceOf[c]] < MaxPerSource
  /\ bySource' = [bySource EXCEPT ![SourceOf[c]] = @ + 1]
  /\ Goes(c, "serving")
  /\ UNCHANGED <<requestSlots, relayVars>>

\* No thread can be started: process_request releases and raises.
AcceptFails(c) ==
  /\ At(c, "accepted") /\ bySource[SourceOf[c]] < MaxPerSource
  /\ bySource' = [bySource EXCEPT ![SourceOf[c]] = @ + 1]
  /\ Goes(c, "leaving")
  /\ UNCHANGED <<requestSlots, relayVars>>

\* The client closes, is rejected, times out, or an error leaves the handler.
Ends(c) ==
  /\ At(c, "serving")
  /\ Goes(c, "leaving")
  /\ UNCHANGED <<slotVars, relayVars>>

\* _release_request, the count first.
ReleaseCount(c) ==
  /\ At(c, "leaving")
  /\ bySource' = [bySource EXCEPT ![SourceOf[c]] = IF @ <= 1 THEN 0 ELSE @ - 1]
  /\ Goes(c, "uncounted")
  /\ UNCHANGED <<requestSlots, relayVars>>

ReleaseSlot(c) ==
  /\ At(c, "uncounted")
  /\ requestSlots' = requestSlots + 1
  /\ Goes(c, "away")
  /\ UNCHANGED <<bySource, relayVars>>

-----------------------------------------------------------------------------
(* do_CONNECT, of a connection that serves *)

\* Without a free slot the answer is 429 and the thread goes on serving.
RelayTakes(c) ==
  /\ At(c, "serving") /\ relaySlots > 0
  /\ relaySlots' = relaySlots - 1
  /\ Goes(c, "reserving")
  /\ UNCHANGED <<byTenant, slotVars>>

RelayRefused(c) ==
  /\ At(c, "reserving") /\ byTenant[TenantOf[c]] >= MaxPerTenant
  /\ relaySlots' = relaySlots + 1
  /\ Goes(c, "serving")
  /\ UNCHANGED <<byTenant, slotVars>>

RelayReserved(c) ==
  /\ At(c, "reserving") /\ byTenant[TenantOf[c]] < MaxPerTenant
  /\ byTenant' = [byTenant EXCEPT ![TenantOf[c]] = @ + 1]
  /\ Goes(c, "relaying")
  /\ UNCHANGED <<relaySlots, slotVars>>

\* release_relay, the count first, on every way out of the relay: a target
\* that is not allowed or does not answer, either side closing, silence for
\* too long, too many bytes, an error.
RelayEnds(c) ==
  /\ At(c, "relaying")
  /\ byTenant' = [byTenant EXCEPT ![TenantOf[c]] = IF @ <= 1 THEN 0 ELSE @ - 1]
  /\ Goes(c, "relayed")
  /\ UNCHANGED <<relaySlots, slotVars>>

\* Then the thread serves the next request, or the error ends it.
RelayFreed(c) ==
  /\ At(c, "relayed")
  /\ relaySlots' = relaySlots + 1
  /\ Goes(c, "serving") \/ Goes(c, "leaving")
  /\ UNCHANGED <<byTenant, slotVars>>

-----------------------------------------------------------------------------
Admission(c) ==
  \/ AcceptFull(c) \/ AcceptTakes(c) \/ AcceptRefuses(c)
  \/ AcceptStarts(c) \/ AcceptFails(c)
  \/ Ends(c) \/ ReleaseCount(c) \/ ReleaseSlot(c)

Relay(c) ==
  \/ RelayTakes(c) \/ RelayRefused(c)
  \/ RelayReserved(c) \/ RelayEnds(c) \/ RelayFreed(c)

RequestsNext == \E c \in Connections : Admission(c) \/ Relay(c)

Places == {"away", "accepted", "serving", "reserving", "relaying",
           "relayed", "leaving", "uncounted"}

RequestsTypeOK ==
  /\ conn \in [Connections -> Places]
  /\ requestSlots \in 0..MaxRequests /\ bySource \in [Sources -> 0..MaxPerSource]
  /\ relaySlots \in 0..MaxRelays /\ byTenant \in [RelayTenants -> 0..MaxPerTenant]

-----------------------------------------------------------------------------
Serving == {"serving", "reserving", "relaying", "relayed", "leaving"}
Holding == {"accepted", "uncounted"} \union Serving
HoldingRelay == {"reserving", "relaying", "relayed"}
In(places) == {c \in Connections : conn[c] \in places}

\* Every slot is held by a connection that will give it back, and the counts
\* are those of the connections that are counted, on every way out of a
\* request: no refusal, failed thread, error or timeout leaks a slot (the
\* server would stop accepting after a while) or frees one twice (the bounded
\* semaphore would raise).
SlotsMatchConnections ==
  /\ requestSlots + Cardinality(In(Holding)) = MaxRequests
  /\ \A s \in Sources :
       bySource[s] = Cardinality({c \in In(Serving) : SourceOf[c] = s})
  /\ relaySlots + Cardinality(In(HoldingRelay)) = MaxRelays
  /\ \A t \in RelayTenants :
       byTenant[t] = Cardinality({c \in In({"relaying"}) : TenantOf[c] = t})
=============================================================================
