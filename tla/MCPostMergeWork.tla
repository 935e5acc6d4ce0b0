---------------------------- MODULE MCPostMergeWork ----------------------------
EXTENDS PostMergeWork
CONSTANTS A, B
================================================================================
