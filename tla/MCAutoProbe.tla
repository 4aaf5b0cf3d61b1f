----------------------------- MODULE MCAutoProbe -----------------------------
EXTENDS AutoProbe
=============================================================================
