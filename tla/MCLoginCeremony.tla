---------------------------- MODULE MCLoginCeremony ----------------------------
EXTENDS LoginCeremony

CONSTANTS p1, a1
================================================================================
