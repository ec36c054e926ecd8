-------------------------------- MODULE MCLogin --------------------------------
EXTENDS Login

CONSTANTS a1, a2

MCAccounts == <<a1, a2>>
=============================================================================
