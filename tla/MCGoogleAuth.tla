------------------------------ MODULE MCGoogleAuth ------------------------------
EXTENDS GoogleAuth

CONSTANTS p1, p2
================================================================================
