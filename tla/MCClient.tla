------------------------------ MODULE MCClient ------------------------------
\* Instances of Client for TLC; the configurations give the constants.
EXTENDS Client
=============================================================================
