------------------------------- MODULE MCBtIo -------------------------------
\* Instances of BtIo for TLC; the configurations give the constants.
EXTENDS BtIo
=============================================================================
