-------------------------------- MODULE MCNtp --------------------------------
EXTENDS Ntp
=============================================================================
