--------------------------- MODULE MCReservations ---------------------------
(***************************************************************************)
(* Three instances in one run, of what is given to one job at a time: a     *)
(* managed generation to the jobs that reserved it, a slot of the host, and *)
(* a workspace.                                                             *)
(***************************************************************************)
EXTENDS GenerationAdmission, TLC

CONSTANT Jobs

VARIABLES part,
          state, pgid, intent, retries, cwd, marker, cleaned,
          members, stopped, launches, exits,
          running, orphans, survivors, term, watch, aborted,
          step, todo, at, pausing, outages

jobVars == <<state, pgid, intent, retries, cwd, marker, cleaned,
             members, stopped, launches, exits,
             running, orphans, survivors, term, watch, aborted,
             step, todo, at, pausing, outages>>

\* A job with recover_on_reboot and room for its sibling.
Sibling == INSTANCE LocalJob
    WITH Jobs <- {"first", "second"}, Submitted <- {"first"}, Recover <- {"first"},
         RetryMax <- 0, MaxJobs <- 2, MaxLaunches <- 1, MaxOutages <- 1

\* Two jobs and one slot.
Slot == INSTANCE LocalJob
    WITH Submitted <- Jobs, Recover <- {}, RetryMax <- 0, MaxJobs <- 1,
         MaxLaunches <- 1, MaxOutages <- 1

MCInit ==
    /\ Init
    /\ \/ part = "workspace" /\ Sibling!Init
       \/ part \in {"generation", "slot"} /\ Slot!Init

MCNext ==
    /\ UNCHANGED part
    /\ \/ part = "generation" /\ Next /\ UNCHANGED jobVars
       \/ part = "workspace" /\ Sibling!Next /\ UNCHANGED vars
       \/ part = "slot" /\ Slot!Next /\ UNCHANGED vars

MCSpec == MCInit /\ [][MCNext]_<<part, vars, jobVars>>

\* Dispatch keeps the host within max_jobs, over daemon restarts too (LocalJob;
\* _dispatch_pending and the memory of the daemon).
Capacity == part = "slot" => Slot!Capacity

\* A workspace has at most one job that is not terminal, siblings included
\* (LocalJob; _auto_resume after the startup walk).
OneJobPerWorkspace == part = "workspace" => Sibling!OneJobPerWorkspace

\* The two jobs of the slot are interchangeable; the other instances have none
\* of them.
JobSymmetry == Permutations(Jobs)
=============================================================================
