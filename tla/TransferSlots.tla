---------------------------- MODULE TransferSlots ----------------------------
(***************************************************************************)
(* What GlobalBandwidthController.guard promises its callers, whatever     *)
(* its queue does: at most MaxActive transfers at a time, and an exclusive *)
(* transfer (native Git or Proton work under a bandwidth limit, which      *)
(* cannot be rate limited) only ever alone.  BandwidthGate is shown to     *)
(* implement it; SyncEngine is built on it.                                *)
(***************************************************************************)
EXTENDS Naturals, FiniteSets

CONSTANTS Users,      \* threads that transfer
          MaxActive   \* slots of the controller (max_active)

VARIABLES holding,    \* users between admission and release
          alone       \* the holders that took every slot

slotVars == <<holding, alone>>

SlotsInit == holding = {} /\ alone = {}

\* One of the MaxActive slots.
Take(u) ==
  /\ u \notin holding
  /\ alone = {}
  /\ Cardinality(holding) < MaxActive
  /\ holding' = holding \union {u}
  /\ UNCHANGED alone

\* Every slot at once, so that nobody else transfers meanwhile.
TakeAll(u) ==
  /\ holding = {}
  /\ holding' = {u}
  /\ alone' = {u}

Give(u) ==
  /\ u \in holding
  /\ holding' = holding \ {u}
  /\ alone' = alone \ {u}

SlotsNext == \E u \in Users : Take(u) \/ TakeAll(u) \/ Give(u)

SlotsSpec == SlotsInit /\ [][SlotsNext]_slotVars

SlotsTypeOK == holding \subseteq Users /\ alone \subseteq holding

\* Transfers never exceed the configured number, and an exclusive one
\* transfers alone.
SlotsSafe ==
  /\ IsFiniteSet(holding) /\ Cardinality(holding) <= MaxActive
  /\ \A u \in alone : holding = {u}
=============================================================================
