-------------------------- MODULE MCPartControlBlock --------------------------
EXTENDS PartControlBlock
=============================================================================
