--------------------------- MODULE MCPostMergeCleanup ---------------------------
EXTENDS PostMergeCleanup
CONSTANTS A, B
================================================================================
