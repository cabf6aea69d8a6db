--------------------------- MODULE MCBandwidthGate ---------------------------
EXTENDS BandwidthGate

\* The calls of guard in the code: _run_bounded_worker (priority 0 for an AI
\* backup, else 1; exclusive for limited Git and Proton work; ten minutes),
\* and _apply_incremental and the monitor's provider scans (the defaults).
MCRequests ==
  { [priority |-> 0, exclusive |-> FALSE, timed |-> TRUE],
    [priority |-> 1, exclusive |-> TRUE,  timed |-> TRUE],
    [priority |-> 1, exclusive |-> FALSE, timed |-> FALSE] }
=============================================================================
