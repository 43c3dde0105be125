--------------------------- MODULE HyperparamSync ----------------------------
(***************************************************************************)
(* One hyperparameter of one subnet: the daemon stores the changes that it *)
(* ingests, block by block, and sync_hyperparams runs, for the current or  *)
(* an older block, store the chain's value over it.  The daemon's update   *)
(* reads the row, saves it and adds to the history in three statements; a  *)
(* run's update_or_create locks the row.                                   *)
(***************************************************************************)
EXTENDS Integers, FiniteSets

CONSTANTS
    ParamRuns,     \* executions of sync_hyperparams
    LastParamBlock,\* bound: the chain stops here
    Changes        \* blocks with a successful change; the value is then the block

\* The chain's value after block b; the values are the blocks that set them, 0 at first.
ChainValue(b) == CHOOSE v \in Changes \cup {0} :
                    v <= b /\ \A w \in Changes : w <= b => w <= v

NoRecord == [value |-> -1, block |-> -1, by |-> "nobody"]

VARIABLES
    tip,        \* the chain's current block
    record,     \* the SubnetHyperparam, and who saved it last
    log,        \* the SubnetHyperparamHistory
    ingested,   \* the daemon has processed the blocks up to here
    missed,     \* changes in blocks that it skipped
    step,       \* where its update is
    copy,       \* the row as its update has read it
    runAt       \* runAt[r]: the block whose values the run has fetched, 0: not running

vars == <<tip, record, log, ingested, missed, step, copy, runAt>>

ParamBlocks == 1..LastParamBlock
Records == [value : Changes \cup {0}, block : ParamBlocks, by : {"daemon", "run"}]

HyperparamTypeOK ==
    /\ tip \in ParamBlocks /\ ingested \in 0..LastParamBlock
    /\ record \in Records \cup {NoRecord} /\ copy \in Records \cup {NoRecord}
    /\ log \subseteq [old : Changes \cup {0, -1}, new : Changes, by : {"daemon", "run", "nobody"}]
    /\ missed \subseteq Changes
    /\ step \in {"idle", "read", "saved"}
    /\ runAt \in [ParamRuns -> 0..LastParamBlock]

Init ==
    /\ tip = 1 /\ ingested = 0 /\ missed = {}
    /\ record = NoRecord /\ log = {} /\ copy = NoRecord
    /\ step = "idle"
    /\ runAt = [r \in ParamRuns |-> 0]

-----------------------------------------------------------------------------
Grow ==
    /\ tip < LastParamBlock
    /\ tip' = tip + 1
    /\ UNCHANGED <<record, log, ingested, missed, step, copy, runAt>>

\* A block without a change, or one that fails and is skipped.
PassBlock ==
    /\ step = "idle" /\ ingested < tip
    /\ ingested' = ingested + 1
    /\ missed' = missed \cup (Changes \cap {ingested + 1})
    /\ UNCHANGED <<tip, record, log, step, copy, runAt>>

\* get_or_create of a change's row.
ReadRecord ==
    /\ step = "idle" /\ ingested < tip /\ ingested + 1 \in Changes
    /\ ingested' = ingested + 1
    /\ copy' = record
    /\ record' = IF record # NoRecord THEN record
                 ELSE [value |-> ingested + 1, block |-> ingested + 1, by |-> "daemon"]
    /\ step' = "read"
    /\ UNCHANGED <<tip, log, missed, runAt>>

\* Faulty variant of Saved: only the value is saved.
SavedValue == [record EXCEPT !.value = ingested]

\* save() writes every column.
Saved == [value |-> ingested, block |-> ingested, by |-> "daemon"]

SaveRecord ==
    /\ step = "read"
    /\ record' = IF copy = NoRecord THEN record ELSE Saved
    /\ step' = "saved"
    /\ UNCHANGED <<tip, log, ingested, missed, copy, runAt>>

\* Faulty variant of Entry: the old value is that of the row as it is now.
EntryNow == [old |-> record.value, new |-> ingested, by |-> record.by]

Entry == [old |-> copy.value, new |-> ingested, by |-> copy.by]

AddEntry ==
    /\ step = "saved"
    /\ log' = log \cup {Entry}
    /\ step' = "idle" /\ copy' = NoRecord
    /\ UNCHANGED <<tip, record, ingested, missed, runAt>>

\* The daemon fails or is killed in the middle; what it has saved stays.
AbandonUpdate ==
    /\ step # "idle"
    /\ step' = "idle" /\ copy' = NoRecord
    /\ missed' = missed \cup {ingested}
    /\ UNCHANGED <<tip, record, log, ingested, runAt>>

\* A run fetches the values of the current block, or of the one given by --block.
FetchParams(r, b) ==
    /\ runAt[r] = 0 /\ b <= tip
    /\ runAt' = [runAt EXCEPT ![r] = b]
    /\ UNCHANGED <<tip, record, log, ingested, missed, step, copy>>

\* update_or_create, whatever the row holds by now; no history.
UpdateOrCreate(r) ==
    /\ runAt[r] # 0
    /\ record' = [value |-> ChainValue(runAt[r]), block |-> runAt[r], by |-> "run"]
    /\ runAt' = [runAt EXCEPT ![r] = 0]
    /\ UNCHANGED <<tip, log, ingested, missed, step, copy>>

\* The run fails before it comes to this parameter.
RunFails(r) ==
    /\ runAt[r] # 0
    /\ runAt' = [runAt EXCEPT ![r] = 0]
    /\ UNCHANGED <<tip, record, log, ingested, missed, step, copy>>

Next ==
    \/ Grow \/ PassBlock \/ ReadRecord \/ SaveRecord \/ AddEntry \/ AbandonUpdate
    \/ \E r \in ParamRuns : UpdateOrCreate(r) \/ RunFails(r) \/ \E b \in ParamBlocks : FetchParams(r, b)

Spec == Init /\ [][Next]_vars

-----------------------------------------------------------------------------
\* The value and the block number of the row belong together, although the daemon
\* saves a row that a run may have replaced since it was read.
RecordOfOneBlock == record # NoRecord => record.value = ChainValue(record.block)

\* An entry of the history says what the chain changed the value from, unless the row was
\* a run's, there was none yet, or changes before were missed.
OldValueRight ==
    \A e \in log : e.by = "daemon" =>
        e.old = ChainValue(e.new - 1) \/ missed \cap (e.old + 1)..(e.new - 1) # {}
=============================================================================
