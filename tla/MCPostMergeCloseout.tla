-------------------------- MODULE MCPostMergeCloseout --------------------------
EXTENDS PostMergeCloseout
CONSTANTS A, B
================================================================================
