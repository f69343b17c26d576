---------------------------- MODULE MCSyncScheduler ----------------------------
\* The scheduler has no sets to bound: its runs differ in what a failure may leave, and
\* in what may be asked of the account meanwhile.
EXTENDS SyncScheduler
=============================================================================
