------------------------------- MODULE MCJobs -------------------------------
EXTENDS Jobs
CONSTANTS n1, n2, n3, t1
=============================================================================
