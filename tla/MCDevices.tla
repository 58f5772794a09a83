---------------------------- MODULE MCDevices ----------------------------
EXTENDS Devices
CONSTANTS c1, c2, d1, d2, j1, t1, r1
=============================================================================
