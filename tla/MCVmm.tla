-------------------------------- MODULE MCVmm --------------------------------
EXTENDS Vmm
=============================================================================
