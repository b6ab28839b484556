--------------------------- MODULE MCBitVectCtrl ---------------------------
EXTENDS BitVectCtrl
=============================================================================
