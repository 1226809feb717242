--------------------------- MODULE MCNametableDma ---------------------------
EXTENDS NametableDma
=============================================================================
