------------------------------- MODULE MCDaemon -------------------------------
(* The two sides of a daemon, one at a time: its loop, and the schedule by which the  *)
(* metagraph daemon and its backfills choose their blocks.  They share no state.      *)
EXTENDS SyncDaemon, EpochSchedule

VARIABLE side

MCInit ==
    /\ side \in {"loop", "schedule"}
    /\ Init /\ ScheduleInit
    /\ side = "loop" => start = 0 /\ end = 0 /\ netuid = 0

MCNext ==
    \/ side = "loop" /\ Next /\ UNCHANGED <<side, scheduleVars>>
    \/ side = "schedule" /\ ScheduleNext /\ UNCHANGED <<side, vars>>

MCSpec == MCInit /\ [][MCNext]_<<side, vars, scheduleVars>> /\ WF_vars(side = "loop" /\ Daemon)
=============================================================================
