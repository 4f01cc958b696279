---------------------------- MODULE MCSchedulerJob ----------------------------
(* SchedulerJob for TLC.                                                        *)
EXTENDS SchedulerJob
=============================================================================
