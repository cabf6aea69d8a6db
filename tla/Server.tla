------------------------------- MODULE Server -------------------------------
(***************************************************************************)
(* The self-hosted server: the threads of ServerRequests call the methods  *)
(* of ServerStore and HeadlessAgent, and answer.  A call is one step, its  *)
(* answer another; the answer may be lost.  The process may end at any     *)
(* point and start again.                                                  *)
(***************************************************************************)
EXTENDS ServerStore, ServerRequests, HeadlessAgent

CONSTANTS Scenarios,   \* enabled roles, the clients that come for them, and
                       \* how many rows they insert
          MaxRestarts  \* how often the process ends

VARIABLES
  scenario,   \* one of Scenarios
  reply,      \* the row whose answer is under way, for each connection
  restarts,
  answered    \* ghost: what a client was told is stored and was not withdrawn,
              \* acknowledged that is, or replaced by a new envelope (one whose
              \* commit failed, too: which of the two is kept is open)

vars == <<storeVars, requestVars, agentVars, scenario, reply, restarts, answered>>

NoReply == [table |-> "none"]
NoPromise == [table |-> "nothing"]   \* an answer that says nothing is stored
Role(role) == role \in scenario.roles
Idle(c) == At(c, "serving") /\ reply[c] = NoReply

Init ==
  /\ StoreInit /\ RequestsInit /\ AgentInit
  /\ scenario \in Scenarios
  /\ reply = [c \in Connections |-> NoReply]
  /\ restarts = 0 /\ answered = {}

\* The answers under way when rows are withdrawn promise nothing any more.
Withdrawn(rows) ==
  [c \in Connections |-> IF reply[c] \in rows THEN NoPromise ELSE reply[c]]

-----------------------------------------------------------------------------
(* One request of a connection *)

\* do_POST of a stored item.  What the store refuses is answered, too; an
\* error of the database ends the thread.
PostItem(c, table, size, ttl, outcome) ==
  /\ Idle(c) /\ Role(table) /\ inserted < scenario.rows
  /\ LET row == New(table, TenantOf[c], size, ttl) IN
       /\ Put(row, outcome)
       /\ answered' = IF outcome = "refused" THEN answered
                      ELSE answered \ Prior(store, row)
       /\ reply' = CASE outcome = "stored"  -> [Withdrawn(Prior(store, row)) EXCEPT ![c] = row]
                     [] outcome = "refused" -> [reply EXCEPT ![c] = NoPromise]
                     [] OTHER               -> Withdrawn(Prior(store, row))
  /\ IF outcome = "failed" THEN Goes(c, "leaving") ELSE UNCHANGED conn
  /\ UNCHANGED <<slotVars, relayVars, agentVars, scenario, restarts>>

PostExisting(c) ==
  /\ Idle(c) /\ Role("objects")
  /\ \E row \in store.rows :
       PutExisting(TenantOf[c], row) /\ reply' = [reply EXCEPT ![c] = row]
  /\ UNCHANGED <<requestVars, agentVars, scenario, restarts, answered>>

\* do_GET, do_DELETE
Get(c) ==
  /\ Idle(c) /\ scenario.rows > 0 /\ ReadRows
  /\ UNCHANGED <<requestVars, agentVars, scenario, reply, restarts, answered>>

Delete(c, key) ==
  /\ Idle(c) /\ Role("mailbox") /\ Acknowledge(TenantOf[c], key)
  /\ answered' = {row \in answered : ~Same(row, "mailbox", TenantOf[c], key)}
  /\ reply' = Withdrawn({row \in store.rows : Same(row, "mailbox", TenantOf[c], key)})
  /\ UNCHANGED <<requestVars, agentVars, scenario, restarts>>

PostJob(c, j) ==
  /\ Idle(c) /\ Role("agent") /\ ApiRun(j)
  /\ UNCHANGED <<storeVars, requestVars, scenario, reply, restarts, answered>>

\* (Mutant) The request is audited after it is answered.
AnswerUnaudited(c) ==
  /\ At(c, "serving") /\ reply[c] # NoReply
  /\ answered' = answered \union ({reply[c]} \ {NoPromise})
  /\ reply' = [reply EXCEPT ![c] = NoReply]
  /\ UNCHANGED <<storeVars, requestVars, agentVars, scenario, restarts>>

\* The request is audited before it is answered, which commits whatever is
\* still open, an item that "exists" because its own insertion failed, too.
Answer(c) ==
  /\ At(c, "serving") /\ reply[c] # NoReply
  /\ CommitAll
  /\ answered' = answered \union ({reply[c]} \ {NoPromise})
  /\ reply' = [reply EXCEPT ![c] = NoReply]
  /\ UNCHANGED <<requestVars, agentVars, scenario, restarts>>

AnswerLost(c) ==
  /\ At(c, "serving") /\ reply[c] # NoReply
  /\ reply' = [reply EXCEPT ![c] = NoReply]
  /\ Goes(c, "leaving")
  /\ UNCHANGED <<storeVars, slotVars, relayVars, agentVars, scenario, restarts,
                 answered>>

Request(c) ==
  \/ \E table \in Tables, size \in Sizes, ttl \in TTLs :
       \E outcome \in {"stored", "refused", "failed"} :
         PostItem(c, table, size, ttl, outcome)
  \/ PostExisting(c) \/ Get(c)
  \/ \E key \in 10..(10 + inserted) : Delete(c, key)
  \/ \E j \in Jobs : PostJob(c, j)
  \/ Answer(c) \/ AnswerLost(c)

-----------------------------------------------------------------------------
Connection(c) ==
  /\ c \in scenario.clients /\ reply[c] = NoReply
  /\ Admission(c) \/ (Role("relay") /\ Relay(c))
  /\ UNCHANGED <<storeVars, agentVars, scenario, reply, restarts, answered>>

Time ==
  /\ scenario.rows > 0 /\ Tick
  /\ answered' = {row \in answered : row.expires > now'}
  /\ UNCHANGED <<requestVars, agentVars, scenario, reply, restarts>>

Agent ==
  /\ Role("agent") /\ AgentNext
  /\ UNCHANGED <<storeVars, requestVars, scenario, reply, restarts, answered>>

\* The service manager starts the server again: every connection is gone, the
\* semaphores are new.
Restart ==
  /\ restarts < MaxRestarts /\ restarts' = restarts + 1
  /\ conn' = [c \in Connections |-> "away"]
  /\ requestSlots' = MaxRequests /\ bySource' = [s \in Sources |-> 0]
  /\ relaySlots' = MaxRelays /\ byTenant' = [t \in RelayTenants |-> 0]
  /\ reply' = [c \in Connections |-> NoReply]
  /\ Reopen /\ AgentRestarts
  /\ UNCHANGED <<scenario, answered>>

Next ==
  \/ \E c \in Connections : Connection(c) \/ Request(c)
  \/ Time \/ Agent \/ Restart

Spec == Init /\ [][Next]_vars

-----------------------------------------------------------------------------
TypeOK ==
  /\ StoreTypeOK /\ RequestsTypeOK /\ AgentTypeOK
  /\ scenario \in Scenarios /\ restarts \in 0..MaxRestarts
  /\ reply \in [Connections -> RowType \union {NoReply, NoPromise}]
  /\ answered \subseteq RowType

\* What a client was told is stored is on the disk until the time it was told,
\* whatever is lost, refused, purged or restarted in between, unless it was
\* acknowledged or a new envelope replaced it.  (One that failed to be stored may
\* still do so, with the next commit: then the device's former envelope is gone,
\* although its client was told of an error.)
AnsweredIsStored ==
  \A row \in answered : row \in store.saved \/ row.expires <= now

\* What the store promises its clients and its operator.
StorePromises == UsageIsExact /\ AnsweredIsStored
=============================================================================
