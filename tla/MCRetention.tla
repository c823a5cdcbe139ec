---------------------------- MODULE MCRetention ----------------------------
EXTENDS Retention, TLC

CONSTANTS u1, u2, j1, j2
=============================================================================
