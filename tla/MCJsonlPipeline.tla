---------------------------- MODULE MCJsonlPipeline ----------------------------
(* JsonlPipeline with two lines and two days.  A local file is written to by two processes *)
(* that nothing disturbs, or by one that may be killed, as may a run, or a partition be    *)
(* removed: a process that is started again is as good as another one.                     *)
EXTENDS JsonlPipeline

CONSTANTS x1, x2, w1, w2

VARIABLE alone

all == <<alone, vars>>

MCInit ==
    \/ alone \in BOOLEAN /\ InitWith("local", {})
    \/ alone = FALSE /\ \E kind \in {"local", "storage"} : InitWith(kind, {x2})

MCNext ==
    /\ Next
    /\ backend = "local" => IF alone THEN hand'[w2] = NoHand ELSE faults' = faults
    /\ UNCHANGED alone

MCSpec ==
    /\ MCInit /\ [][MCNext]_all
    /\ WF_all(HourlyTick /\ UNCHANGED alone)
    /\ \A j \in Jobs : WF_all(JobStep(j) /\ UNCHANGED alone)
=============================================================================
