-------------------------------- MODULE MCJobs --------------------------------
(* Jobs for TLC: processes and triggers are model values of the .cfg files.  *)
EXTENDS Jobs
=============================================================================
