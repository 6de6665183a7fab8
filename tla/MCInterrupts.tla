---------------------------- MODULE MCInterrupts -----------------------------
EXTENDS Interrupts
=============================================================================
