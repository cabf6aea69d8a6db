------------------------------ MODULE MCServer ------------------------------
(***************************************************************************)
(* Three connections, two of them from one address and two of one tenant,  *)
(* two request slots and relay slots of which one source and one tenant    *)
(* may hold one; a quota of three for bodies of one and two; two jobs.     *)
(***************************************************************************)
EXTENDS Server, TLC

CONSTANTS c1, c2, c3, t1, t2, here, there, j1, j2

Sources3 == c1 :> here @@ c2 :> here @@ c3 :> there
Tenants3 == c1 :> t1 @@ c2 :> t2 @@ c3 :> t1

\* Storage of each kind, envelopes of two tenants and of two connections of one,
\* mail that another connection acknowledges, relays with all three connections,
\* the agent with its owner.
AllScenarios ==
  {[roles |-> {"mailbox", "rendezvous"}, clients |-> {c1}, rows |-> 2],
   [roles |-> {"rendezvous"}, clients |-> {c1, c2}, rows |-> 2],
   [roles |-> {"rendezvous"}, clients |-> {c1, c3}, rows |-> 2],
   [roles |-> {"mailbox"}, clients |-> {c1, c3}, rows |-> 1],
   [roles |-> {"objects"}, clients |-> {c1}, rows |-> 2],
   [roles |-> {"collaboration"}, clients |-> {c1}, rows |-> 2],
   [roles |-> {"relay"}, clients |-> {c1, c2, c3}, rows |-> 0],
   [roles |-> {"agent"}, clients |-> {c1}, rows |-> 0]}
=============================================================================
