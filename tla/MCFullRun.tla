------------------------------ MODULE MCFullRun ------------------------------
EXTENDS FullRun

\* A two-way or download mapping has no AI backup's history, and an AI backup
\* only uploads (models.py); leases matter to no later decision, so that one
\* mode is enough for them.
MCKinds ==
  { k \in KindType :
      /\ k.ai => k.mode = "upload_only"
      /\ k.leases => k.mode = "two_way" /\ k.initialized }
=============================================================================
