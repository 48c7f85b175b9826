-------------------------- MODULE MCRecoveryController --------------------------
EXTENDS RecoveryController
===============================================================================
