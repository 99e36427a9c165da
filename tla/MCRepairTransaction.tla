------------------------- MODULE MCRepairTransaction -------------------------
EXTENDS RepairTransaction

CONSTANTS c1, c2
MCCall == {c1, c2}
=============================================================================
