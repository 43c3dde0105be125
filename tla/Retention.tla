------------------------------ MODULE Retention ------------------------------
(***************************************************************************)
(* Deleting what is older than its retention window.  Runs of the beat     *)
(* task and of the prune_retention command share an advisory lock of their *)
(* database session, fix two cutoff blocks and delete table by table, the  *)
(* oldest rows first, in batches that are transactions of their own.  A    *)
(* run can be killed and redelivered, or lose its session and with it the  *)
(* lock.  A table holds at most one row per block; snapshots are of a      *)
(* validator or not, and have their metrics.                               *)
(***************************************************************************)
EXTENDS Integers, FiniteSets

CONSTANTS
    Runs,              \* executions of retention.run
    LastBlock,         \* bound: the chain, and the time, stop here
    Untimed,           \* blocks without a timestamp
    ValidatorBlocks,   \* blocks whose snapshot is a validator's
    Days, BulkDays,    \* the windows, in blocks
    BatchSize,
    MaxBatches,        \* --max-batches, None for no limit
    None

Blocks == 1..LastBlock
Tables == {"snapshot", "weight", "bond", "collateral", "extrinsics"}

ASSUME RetentionAssumption ==
    /\ LastBlock \in Nat /\ Days \in Nat \ {0} /\ BulkDays \in Nat \ {0}
    /\ Untimed \subseteq Blocks /\ ValidatorBlocks \subseteq Blocks
    /\ BatchSize \in Nat \ {0}
    /\ MaxBatches \in (Nat \ {0}) \cup {None}
    /\ None \notin Runs \cup Blocks

VARIABLES
    now,       \* time, in blocks; the chain's head
    rows,      \* rows[t]: the blocks that have a row in t
    metrics,   \* the snapshots that have mechanism metrics
    holder,    \* the run whose session has the advisory lock
    phase,     \* phase[r]: the table it prunes, or "off"
    cutoff,    \* cutoff[r][t]: snapshot_cutoff_block or bulk_cutoff_block
    batches,   \* batches deleted from the table
    lost       \* runs whose session was lost and that have not noticed yet

vars == <<now, rows, metrics, holder, phase, cutoff, batches, lost>>

TypeOK ==
    /\ now \in 0..LastBlock
    /\ rows \in [Tables -> SUBSET Blocks]
    /\ metrics \subseteq Blocks
    /\ holder \in Runs \cup {None}
    /\ phase \in [Runs -> Tables \cup {"off"}]
    /\ cutoff \in [Runs -> [Tables -> Blocks \cup {None}]]
    /\ batches \in [Runs -> Nat]
    /\ lost \subseteq Runs

NoCutoff == [t \in Tables |-> None]

Init ==
    /\ now = 0
    /\ rows = [t \in Tables |-> {}]
    /\ metrics = {}
    /\ holder = None
    /\ phase = [r \in Runs |-> "off"]
    /\ cutoff = [r \in Runs |-> NoCutoff]
    /\ batches = [r \in Runs |-> 0]
    /\ lost = {}

-----------------------------------------------------------------------------
\* Faulty variant of Following: collateral is not among the tables.
FollowingThree(t) ==
    CASE t = "snapshot" -> "weight" [] t = "weight" -> "bond" [] t = "bond" -> "extrinsics"
      [] t = "collateral" -> "extrinsics" [] t = "extrinsics" -> "off"

\* The order in which a run goes through the tables.
Following(t) ==
    CASE t = "snapshot" -> "weight" [] t = "weight" -> "bond" [] t = "bond" -> "collateral"
      [] t = "collateral" -> "extrinsics" [] t = "extrinsics" -> "off"

WindowOf(t) == IF t = "snapshot" THEN Days ELSE BulkDays

\* The greatest of the blocks, None if there is none.
IsNewest(b, S) == b \in S /\ \A c \in S : c <= b
Newest(S) == IF \E b \in S : IsNewest(b, S) THEN CHOOSE b \in S : IsNewest(b, S) ELSE None

\* Faulty variant of CutoffBlock: a block as old as the window is within it or not.
CutoffTooNew(days) ==
    Newest({b \in Blocks \ Untimed : b <= now /\ b <= now - days + 1})

\* compute_cutoff_block: the newest block with a timestamp before the window.
CutoffBlock(days) == Newest({b \in Blocks \ Untimed : b < now - days})

Cutoffs == [t \in Tables |-> CutoffBlock(WindowOf(t))]

\* What the batches delete: no snapshots of validators.
Expired(t, c) ==
    {b \in rows[t] : c # None /\ b <= c /\ (t = "snapshot" => b \notin ValidatorBlocks)}

\* LIMIT batch_size in the order of blocks.
Oldest(S) == {b \in S : Cardinality({c \in S : c < b}) < BatchSize}

\* Faulty variant of MayLock: the lock is taken, whoever has it.
MayAlwaysLock == TRUE

\* pg_try_advisory_lock
MayLock == holder = None

\* pg_advisory_unlock: of the own session only.
Released(r) == IF holder = r THEN None ELSE holder

\* The end of a run, however it ends.
LeaveRun(r) ==
    /\ phase' = [phase EXCEPT ![r] = "off"]
    /\ cutoff' = [cutoff EXCEPT ![r] = NoCutoff]
    /\ batches' = [batches EXCEPT ![r] = 0]
    /\ holder' = Released(r)
    /\ lost' = lost \ {r}

\* A run begins, unless another has the lock or nothing is old enough.
BeginRun(r) ==
    /\ phase[r] = "off" /\ MayLock
    /\ Cutoffs # NoCutoff
    /\ holder' = r
    /\ cutoff' = [cutoff EXCEPT ![r] = Cutoffs]
    /\ phase' = [phase EXCEPT ![r] = "snapshot"]
    /\ UNCHANGED <<now, rows, metrics, batches, lost>>

\* The last batch of the table: it deletes nothing, or the next would be one too many.
LastBatch(r, gone) == gone = {} \/ batches[r] + 1 = MaxBatches

\* Snapshots are deleted with their metrics, in one statement.
WithoutMetrics(t, gone) == IF t = "snapshot" THEN metrics \ gone ELSE metrics

DeleteBatch(r) ==
    LET t == phase[r]
        gone == Oldest(Expired(t, cutoff[r][t]))
    IN  /\ t # "off" /\ r \notin lost
        /\ rows' = [rows EXCEPT ![t] = @ \ gone]
        /\ metrics' = WithoutMetrics(t, gone)
        /\ \/ /\ ~LastBatch(r, gone)
              /\ batches' = [batches EXCEPT ![r] = IF MaxBatches = None THEN 0 ELSE @ + 1]
              /\ UNCHANGED <<phase, cutoff, holder, lost>>
           \/ /\ LastBatch(r, gone) /\ t # "extrinsics"
              /\ phase' = [phase EXCEPT ![r] = Following(t)]
              /\ batches' = [batches EXCEPT ![r] = 0]
              /\ UNCHANGED <<cutoff, holder, lost>>
           \/ /\ LastBatch(r, gone) /\ t = "extrinsics"
              /\ LeaveRun(r)
        /\ UNCHANGED now

\* An exception, the time limit, a kill: committed batches are kept.  The task is
\* redelivered, that is, may begin again.
Abort(r) ==
    /\ phase[r] # "off"
    /\ LeaveRun(r)
    /\ UNCHANGED <<now, rows, metrics>>

\* The database connection is lost in the middle of the run, and the lock with it.
LoseSession(r) ==
    /\ phase[r] # "off" /\ holder = r
    /\ holder' = None
    /\ lost' = lost \cup {r}
    /\ UNCHANGED <<now, rows, metrics, phase, cutoff, batches>>

\* The run finds out with its next statement, which raises; so does the unlock.
EndLost(r) ==
    /\ r \in lost
    /\ LeaveRun(r)
    /\ UNCHANGED <<now, rows, metrics>>

-----------------------------------------------------------------------------
\* Time passes, and the block of that time is synced.
SyncBlock ==
    /\ now < LastBlock
    /\ now' = now + 1
    /\ rows' = [t \in Tables |-> rows[t] \cup {now + 1}]
    /\ metrics' = metrics \cup {now + 1}
    /\ UNCHANGED <<holder, phase, cutoff, batches, lost>>

\* A historical backfill of an old block; it has no weights, bonds or extrinsics.
BackfillBlock(b) ==
    /\ b <= now /\ b \notin rows["snapshot"]
    /\ rows' = [rows EXCEPT !["snapshot"] = @ \cup {b}]
    /\ metrics' = metrics \cup {b}
    /\ UNCHANGED <<now, holder, phase, cutoff, batches, lost>>

Next ==
    \/ \E r \in Runs : BeginRun(r) \/ DeleteBatch(r) \/ Abort(r) \/ LoseSession(r) \/ EndLost(r)
    \/ SyncBlock
    \/ \E b \in Blocks : BackfillBlock(b)

Spec == Init /\ [][Next]_vars

-----------------------------------------------------------------------------
\* Two runs only ever overlap while one of them, without its session, has yet to notice
\* that it cannot go on, although killed runs are redelivered and runs that lost the lock
\* still try to release it.
OneRunAtATime ==
    \A r, s \in Runs : phase[r] # "off" /\ phase[s] # "off" => r = s \/ r \in lost \/ s \in lost

\* Whatever order the runs' batches come in, a row leaves only when it is older than the
\* window of its table, and no snapshot of a validator ever leaves.
OnlyExpiredLeave ==
    [][\A t \in Tables : \A b \in rows[t] \ rows'[t] :
          b < now - WindowOf(t) /\ (t = "snapshot" => b \notin ValidatorBlocks)]_rows

\* No metrics are left behind without their snapshot.
MetricsHaveSnapshot == metrics \subseteq rows["snapshot"]

\* The steps of the runs themselves and of the daemon: no kill, no lost session, no
\* backfill.  (A kill of a run with nothing left to delete looks like its end.)
Undisturbed ==
    \/ \E r \in Runs : BeginRun(r) \/ DeleteBatch(r) \/ EndLost(r)
    \/ SyncBlock

(* Beat starts a run every day, whoever has started the last one; a run goes on with     *)
(* the next batch, or ends; neither are runs killed nor old blocks backfilled for ever.  *)
Fairness ==
    /\ WF_vars(\E r \in Runs : BeginRun(r))
    /\ \A r \in Runs : WF_vars(DeleteBatch(r)) /\ WF_vars(EndLost(r))
    /\ <>[][Undisturbed]_vars

FairSpec == Spec /\ Fairness

\* Whatever is behind a cutoff leaves every table in the end, although runs are capped,
\* killed and redelivered: the next one resumes with the oldest row.
ExpiredLeave ==
    \A b \in Blocks :
        (\E t \in Tables : b \in Expired(t, CutoffBlock(WindowOf(t))))
            ~> \A t \in Tables : b \notin Expired(t, CutoffBlock(WindowOf(t)))
=============================================================================
