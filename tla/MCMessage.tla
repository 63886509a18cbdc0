----------------------------- MODULE MCMessage ------------------------------
EXTENDS Message
=============================================================================
