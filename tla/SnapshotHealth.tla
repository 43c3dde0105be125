---------------------------- MODULE SnapshotHealth ---------------------------
(***************************************************************************)
(* The task that counts, for each subnet and look-back window, the         *)
(* dumpable blocks without a snapshot, and replaces the table that the     *)
(* metrics endpoint reads.  It reads subnet by subnet, outside of a        *)
(* transaction, while blocks are synced; two executions can overlap, as    *)
(* nothing but the unique constraint of the table keeps them apart.        *)
(***************************************************************************)
EXTENDS Integers, FiniteSets

CONSTANTS
    Subnets,
    LastHealthBlock,   \* bound: the chain stops here
    Dumpable,          \* Dumpable[n]: the blocks that have to be dumped for n
    Narrow, Wide,      \* the look-back windows, in blocks
    HealthRuns         \* executions of update_snapshot_health_metrics

HealthBlocks == 1..LastHealthBlock
Windows == {Narrow, Wide}

VARIABLES
    latest,     \* the newest Block row with a timestamp, 0: none
    stored,     \* Subnet rows
    have,       \* have[n]: blocks with a NeuronSnapshot
    health,     \* the table: <<netuid, window, missing>>, and the run and block it is from
    work        \* work[r]: what the execution has read

vars == <<latest, stored, have, health, work>>

Rows == [netuid : Subnets, window : Windows, missing : 0..LastHealthBlock,
         of : HealthRuns, end : HealthBlocks]

Off == [phase |-> "off", end |-> 0, left |-> {}, found |-> {}, stale |-> FALSE]

HealthTypeOK ==
    /\ latest \in 0..LastHealthBlock /\ stored \subseteq Subnets
    /\ have \in [Subnets -> SUBSET HealthBlocks]
    /\ health \subseteq Rows
    /\ \A r \in HealthRuns : work[r].found \subseteq Rows

Init ==
    /\ latest = 0 /\ stored = {}
    /\ have = [n \in Subnets |-> {}]
    /\ health = {}
    /\ work = [r \in HealthRuns |-> Off]

-----------------------------------------------------------------------------
\* A metagraph sync, of a new block or as a backfill.
SyncSnapshot(n, b) ==
    /\ b <= latest + 1 /\ b \in Dumpable[n] \ have[n]
    /\ have' = [have EXCEPT ![n] = @ \cup {b}]
    /\ stored' = stored \cup {n}
    /\ latest' = IF b > latest THEN b ELSE latest
    /\ UNCHANGED <<health, work>>

\* A block whose metagraphs could not be had: its row exists, its snapshots do not.
MissBlock ==
    /\ latest > 0 /\ latest < LastHealthBlock
    /\ latest' = latest + 1
    /\ UNCHANGED <<stored, have, health, work>>

BeginHealth(r) ==
    /\ work[r].phase = "off" /\ latest > 0
    /\ work' = [work EXCEPT ![r] = [Off EXCEPT !.phase = "count", !.end = latest, !.left = stored]]
    /\ UNCHANGED <<latest, stored, have, health>>

\* Faulty variant of Expected: the window begins after its first block, and ends before
\* the latest.
ExpectedInside(n, w, end) == {b \in Dumpable[n] : end - w < b /\ b < end}

\* The blocks of a window for which snapshots are expected.
Expected(n, w, end) == {b \in Dumpable[n] : end - w <= b /\ b <= end}

\* A subnet has no rows for windows without dumpable blocks.
CountsOf(r, n) ==
    {[netuid |-> n, window |-> w, of |-> r, end |-> work[r].end,
      missing |-> Cardinality(Expected(n, w, work[r].end) \ have[n])] :
        w \in {v \in Windows : Expected(n, v, work[r].end) # {}}}

CountSubnet(r, n) ==
    /\ work[r].phase = "count" /\ n \in work[r].left
    /\ work' = [work EXCEPT ![r].left = @ \ {n}, ![r].found = @ \cup CountsOf(r, n)]
    /\ UNCHANGED <<latest, stored, have, health>>

\* The transaction begins: the DELETE sees the rows there are now.
BeginReplace(r) ==
    /\ work[r].phase = "count" /\ work[r].left = {}
    /\ work' = [work EXCEPT ![r].phase = "replace", ![r].stale = FALSE]
    /\ UNCHANGED <<latest, stored, have, health>>

Keys(rows) == {<<m.netuid, m.window>> : m \in rows}

\* Faulty variant of Conflict: no unique constraint.
ConflictNever(r) == FALSE

\* Rows of another execution have come in since, and the INSERT meets one of them.
Conflict(r) == work[r].stale /\ Keys(health) \cap Keys(work[r].found) # {}

Replace(r) ==
    /\ work[r].phase = "replace" /\ ~Conflict(r)
    /\ health' = (IF work[r].stale THEN health ELSE {}) \cup work[r].found
    /\ work' = [s \in HealthRuns |->
                  IF s = r THEN Off
                  ELSE IF work[s].phase = "replace" THEN [work[s] EXCEPT !.stale = TRUE] ELSE work[s]]
    /\ UNCHANGED <<latest, stored, have>>

\* Any exception, the unique constraint included, or the time limit.
HealthFails(r) ==
    /\ work[r].phase # "off"
    /\ work' = [work EXCEPT ![r] = Off]
    /\ UNCHANGED <<latest, stored, have, health>>

Next ==
    \/ \E n \in Subnets, b \in HealthBlocks : SyncSnapshot(n, b)
    \/ MissBlock
    \/ \E r \in HealthRuns :
          \/ BeginHealth(r) \/ BeginReplace(r) \/ Replace(r) \/ HealthFails(r)
          \/ \E n \in Subnets : CountSubnet(r, n)

Spec == Init /\ [][Next]_vars

-----------------------------------------------------------------------------
\* The table never mixes the counts of two executions, although they delete and insert
\* side by side.
HealthOfOneRun == \A m, k \in health : m.of = k.of /\ m.end = k.end

\* Whatever is synced during the count, a block that has no snapshot even now is
\* counted: the metric may be too high for a while, never too low.
NeverUndercounted ==
    \A m \in health :
        m.missing >= Cardinality({b \in HealthBlocks :
            /\ b \in Dumpable[m.netuid] \ have[m.netuid]
            /\ m.end - m.window <= b /\ b <= m.end})
=============================================================================
