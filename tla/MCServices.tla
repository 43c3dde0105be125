------------------------------ MODULE MCServices -----------------------------
(* The services beside the ingestion and the metagraph syncs, one at a time: focus is  *)
(* the one that runs, chosen at the start.  They share no state that their             *)
(* properties are about, so that one run can check each of them on its own.            *)
EXTENDS Services

CONSTANTS n1, n2, s1, s2, u1, u2

VARIABLE focus

MCUrlsOf ==
    [admin_utils |-> {u1}, coldkey_swap |-> {u2}, dissolution |-> {u1}, registration |-> {u1},
     sudo |-> {u2}, cleanup |-> {u1}, owner_change |-> {u1}, completed |-> {}]
Item(kind, wrapped, success, signer) ==
    [kind |-> kind, wrapped |-> wrapped, success |-> success, signer |-> signer]
MCItems ==
    {Item("swap", FALSE, TRUE, s1), Item("swap", TRUE, TRUE, s2), Item("admin", TRUE, TRUE, s1),
     Item("admin", FALSE, FALSE, s1), Item("other", TRUE, TRUE, s1), Item("other", FALSE, TRUE, s1),
     Item("added", FALSE, TRUE, s1)}

MCDumpable == [n \in Netuids |-> IF n = n1 THEN {1, 3} ELSE {2, 3}]

nVars == <<owners, webhooks, edits, ownedBy, items, turn, fanout, announced, heard, heardBy, unheard,
           raised, total>>
hVars == <<tip, record, log, ingested, missed, step, copy, runAt>>
qVars == <<source, dest, running, sent, done, snapshot, half, kills, moves, flushed>>
sVars == <<latest, stored, have, health, work>>
fVars == <<content, checkpoints, synced, known, run, crashes>>
all == <<focus, vars, nVars, hVars, qVars, sVars, fVars>>

Kinds == {"retention", "notifications", "hyperparams", "queues", "health", "files"}

MCInit ==
    /\ focus \in Kinds
    /\ Init /\ N!InitWith(s1) /\ H!Init /\ Q!Init /\ S!Init /\ F!Init

Others(kind) ==
    /\ focus = kind /\ UNCHANGED focus
    /\ kind = "retention" \/ UNCHANGED vars
    /\ kind = "notifications" \/ UNCHANGED nVars
    /\ kind = "hyperparams" \/ UNCHANGED hVars
    /\ kind = "queues" \/ UNCHANGED qVars
    /\ kind = "health" \/ UNCHANGED sVars
    /\ kind = "files" \/ UNCHANGED fVars

MCNext ==
    \/ focus = "retention" /\ Next /\ Others("retention")
    \/ focus = "notifications" /\ N!Next /\ Others("notifications")
    \/ focus = "hyperparams" /\ H!Next /\ Others("hyperparams")
    \/ focus = "queues" /\ Q!Next /\ Others("queues")
    \/ focus = "health" /\ S!Next /\ Others("health")
    \/ focus = "files" /\ F!Next /\ Others("files")

(* The fairness of the modules' FairSpecs, each for its own service. *)
MCFairness ==
    /\ WF_vars(focus = "retention" /\ \E r \in Runs : BeginRun(r))
    /\ \A r \in Runs : WF_vars(focus = "retention" /\ DeleteBatch(r))
                     /\ WF_vars(focus = "retention" /\ EndLost(r))
    /\ <>[][Undisturbed]_vars
    /\ WF_qVars(focus = "queues" /\ Q!Work)
    /\ WF_fVars(focus = "files" /\ F!HourlyRun)
    /\ \A f \in Files : WF_fVars(focus = "files" /\ F!WriteFile(f))
    /\ \A r \in {"sensor", "hourly"} : WF_fVars(focus = "files" /\ F!FileStep(r))

MCSpec == MCInit /\ [][MCNext]_all /\ MCFairness

-----------------------------------------------------------------------------
(* The temporal properties, as the modules state them. *)

\* Every task that is sent is done or flushed in the end.
SentIsDone == Q!SentIsDone

\* Every file that has been begun is synced in the end.
FilesAreSynced == F!FilesAreSynced
=============================================================================
