----------------------------- MODULE MC_Proxy ------------------------------
EXTENDS Proxy

CONSTANTS x1, x2

MC_Chunks == {x1, x2}
=============================================================================
