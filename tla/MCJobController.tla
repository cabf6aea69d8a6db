--------------------------- MODULE MCJobController ---------------------------
EXTENDS JobController

CONSTANTS m1, m2
=============================================================================
