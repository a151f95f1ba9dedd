------------------------- MODULE MCServerLifecycle --------------------------
EXTENDS ServerLifecycle
=============================================================================
