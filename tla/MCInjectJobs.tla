---------------------------- MODULE MCInjectJobs ----------------------------
EXTENDS InjectJobs
=============================================================================
