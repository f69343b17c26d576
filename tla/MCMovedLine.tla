------------------------------ MODULE MCMovedLine ------------------------------
EXTENDS MovedLine
CONSTANTS d1, d2
=============================================================================
