---------------------------- MODULE MCAbsIndex ----------------------------
EXTENDS AbsIndex
CONSTANTS j1, j2
=============================================================================
