--------------------------- MODULE MCFrameMemory ----------------------------
EXTENDS FrameMemory
=============================================================================
