-------------------------------- MODULE MCFS --------------------------------
EXTENDS FS
=============================================================================
