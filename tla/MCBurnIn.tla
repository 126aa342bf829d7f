------------------------------ MODULE MCBurnIn ------------------------------
EXTENDS BurnIn
=============================================================================
