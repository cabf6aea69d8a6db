------------------------------ MODULE JobMutex ------------------------------
(***************************************************************************)
(* What the engine promises about a synchronization mapping                *)
(* (docs/ARCHITECTURE.md, "Incremental callbacks"): whatever threads work  *)
(* for it - the worker of a full run, a change monitor, a monitor that was *)
(* replaced and has not ended yet - one of them at a time is inside.       *)
(***************************************************************************)
CONSTANTS Users,        \* threads
          JobOf         \* the mapping each of them works for

VARIABLE inside         \* threads between reservation and return

Enter(u) ==
  /\ \A v \in inside : JobOf[v] # JobOf[u]
  /\ inside' = inside \union {u}

Exit(u) ==
  /\ u \in inside
  /\ inside' = inside \ {u}

MutexNext == \E u \in Users : Enter(u) \/ Exit(u)

MutexSpec == inside = {} /\ [][MutexNext]_inside

\* Two threads never work for one mapping.
MutexSafe == \A u, v \in inside : JobOf[u] = JobOf[v] => u = v
=============================================================================
