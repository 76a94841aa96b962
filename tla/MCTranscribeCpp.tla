--------------------------- MODULE MCTranscribeCpp ---------------------------
EXTENDS TranscribeCpp
CONSTANTS l1, l2, l3, b1
=============================================================================
