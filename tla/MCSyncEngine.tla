---------------------------- MODULE MCSyncEngine ----------------------------
EXTENDS SyncEngine, TLC

CONSTANTS j1, j2, w1, w2, w3, m1, m2

\* Everything twice for j1, so that a second run, or the replacement of a
\* monitor that has not ended yet, could start; and j2 to compete for slots.
MCJobOf == w1 :> j1 @@ w2 :> j1 @@ m1 :> j1 @@ m2 :> j1 @@ w3 :> j2
=============================================================================
