------------------------------ MODULE ApyIngest ------------------------------
(***************************************************************************)
(* How neuron snapshots become validator APY facts.  Metagraph syncs write *)
(* snapshots in transactions of their own and take row ids before they     *)
(* commit.  The beat task (Ticks) turns the rows above a watermark, less a *)
(* margin, into facts, in one transaction; the backfill command (Backfills)*)
(* does it for a range of blocks, chunk by chunk.  An advisory lock keeps  *)
(* them apart.  One validator of one subnet is modelled, so that a block   *)
(* (the last one of an epoch) has one snapshot and at most one fact.       *)
(***************************************************************************)
EXTENDS Integers, FiniteSets

CONSTANTS
    Ticks,         \* executions of ingest_validator_apy_epochs
    Backfills,     \* backfill_validator_apy_epochs processes
    Syncs,         \* metagraph syncs, of the daemon or of a backfill
    MaxBlock,      \* bound: the epochs that are dumped
    MaxId,         \* bound: the id sequence ends here
    MaxExpiry,     \* bound: how far the retention window moves
    Margin,        \* REPROCESS_MARGIN
    ChunkSize,     \* --chunk-size
    Skips,         \* by how many blocks --days is shorter than RETENTION_DAYS
    Values,        \* what a qualifying snapshot can hold
    Untimed,       \* blocks whose timestamp no sync is given
    Times,         \* timestamps a block can be given, the first one and corrections
    None           \* no value

Blocks == 1..MaxBlock
Workers == Ticks \cup Backfills

ASSUME ApyAssumption ==
    /\ Ticks \cap Backfills = {}
    /\ MaxBlock \in Nat \ {0} /\ MaxId \in Nat /\ Margin \in Nat
    /\ ChunkSize \in Nat \ {0}
    /\ MaxExpiry \in 0..MaxBlock
    /\ Skips \subseteq Nat
    /\ Untimed \subseteq Blocks
    /\ Times \subseteq Nat \ {0} /\ 1 \in Times
    /\ None \notin Values \cup Workers

VARIABLES
    (* the database *)
    seq,           \* the last id taken from the snapshots' sequence
    row,           \* row[b]: the committed snapshot of b (id 0: there is none)
    stamp,         \* stamp[b]: timestamp of block b, 0 for NULL
    facts,         \* facts[b]: the committed fact of b (val None: there is none)
    watermark,     \* last_snapshot_id
    lock,          \* who holds INGEST_LOCK_KEY
    (* each sync *)
    txn,           \* the snapshot its open transaction has written
    (* each worker *)
    pc,
    work,          \* the facts, as its open transaction sees them
    top,           \* current_max
    asOf,          \* newest block older than RETENTION_DAYS, by now() of the transaction
    from, upto,    \* chunk_start and block_end
    lowest,        \* block_start
    advance,       \* not explicit_range
    (* time, and what has been observed *)
    expiry,        \* newest block older than RETENTION_DAYS
    late,          \* blocks committed when their id was out of every tick's reach
    during         \* blocks committed while a backfill has the lock

source == <<seq, row, stamp, txn>>
target == <<facts, watermark>>
range == <<from, upto, lowest, advance>>
local == <<pc, work, top, asOf, range>>
vars == <<source, target, lock, local, expiry, late, during>>

-----------------------------------------------------------------------------
NoRow == [id |-> 0, val |-> None]
NoFact == [val |-> None, ts |-> 0]

\* The facts a snapshot calls for: none unless it qualifies (val is in Values).
Wanted(b) == IF row[b].val \in Values THEN row[b].val ELSE None
Stored(b) == row[b].id # 0

\* The block's fact does not say what its snapshot says.
Outdated(b) == Stored(b) /\ facts[b].val # Wanted(b)

Greatest(S) == CHOOSE x \in S : \A y \in S : y <= x
Larger(m, n) == IF m >= n THEN m ELSE n
Lesser(m, n) == IF m <= n THEN m ELSE n

CurrentMax == Greatest({0} \cup {row[b].id : b \in Blocks})

\* Faulty variant of TickRange: no overlap below the watermark.
NewRange(w) == {b \in Blocks : watermark < row[b].id /\ row[b].id <= top[w]}

\* The rows a tick scans: those above the watermark, and the margin below it.
TickRange(w) ==
    {b \in Blocks : /\ row[b].id > Larger(0, watermark - Margin)
                    /\ row[b].id <= top[w]}

\* The rows the current chunk scans.
ChunkEnd(w) == Lesser(from[w] + ChunkSize - 1, upto[w])
ChunkRange(w) == {b \in Blocks : Stored(b) /\ from[w] <= b /\ b <= ChunkEnd(w)}

Scanned(w) == IF w \in Ticks THEN TickRange(w) ELSE ChunkRange(w)

TypeOK ==
    /\ seq \in 0..MaxId
    /\ row \in [Blocks -> [id : 0..MaxId, val : Values \cup {None}]]
    /\ stamp \in [Blocks -> Times \cup {0}]
    /\ facts \in [Blocks -> [val : Values \cup {None}, ts : Times \cup {0}]]
    /\ watermark \in 0..MaxId
    /\ lock \in Workers \cup {None}
    /\ txn \in [Syncs -> [block : Blocks \cup {0}, id : 0..MaxId, val : Values \cup {None}]]
    /\ pc \in [Workers -> {"off", "reconcile", "upsert", "sweep", "expire", "commit", "finish"}]
    /\ work \in [Workers -> [Blocks -> [val : Values \cup {None}, ts : Times \cup {0}]]]
    /\ top \in [Workers -> 0..MaxId]
    /\ asOf \in [Workers -> 0..MaxExpiry]
    /\ from \in [Workers -> 0..(MaxBlock + 1)]
    /\ upto \in [Workers -> 0..MaxBlock]
    /\ lowest \in [Workers -> 0..MaxBlock]
    /\ advance \in [Workers -> BOOLEAN]
    /\ expiry \in 0..MaxExpiry
    /\ late \subseteq Blocks
    /\ during \subseteq Blocks

NoTxn == [block |-> 0, id |-> 0, val |-> None]

Init ==
    /\ seq = 0
    /\ row = [b \in Blocks |-> NoRow]
    /\ stamp = [b \in Blocks |-> 0]
    /\ facts = [b \in Blocks |-> NoFact]
    /\ watermark = 0
    /\ lock = None
    /\ txn = [t \in Syncs |-> NoTxn]
    /\ pc = [w \in Workers |-> "off"]
    /\ work = [w \in Workers |-> [b \in Blocks |-> NoFact]]
    /\ top = [w \in Workers |-> 0]
    /\ asOf = [w \in Workers |-> 0]
    /\ from = [w \in Workers |-> 0]
    /\ upto = [w \in Workers |-> 0]
    /\ lowest = [w \in Workers |-> 0]
    /\ advance = [w \in Workers |-> FALSE]
    /\ expiry = 0
    /\ late = {}
    /\ during = {}

-----------------------------------------------------------------------------
(* Metagraph syncs and block timestamps. *)

\* update_or_create of the snapshot: a new row takes the next id, an existing one
\* keeps its own.  The row is locked until the transaction ends.
SyncWrite(t, b, v) ==
    LET id == IF Stored(b) THEN row[b].id ELSE seq + 1 IN
    /\ txn[t] = NoTxn
    /\ \A u \in Syncs : txn[u].block # b
    /\ id <= MaxId
    /\ txn' = [txn EXCEPT ![t] = [block |-> b, id |-> id, val |-> v]]
    /\ seq' = IF Stored(b) THEN seq ELSE id
    /\ UNCHANGED <<row, stamp, target, lock, local, expiry, late, during>>

\* The snapshot becomes visible, with its block.  It is late when Margin ids or
\* more have been taken since it got its own.
SyncCommit(t) ==
    LET b == txn[t].block IN
    /\ txn[t] # NoTxn
    /\ row' = [row EXCEPT ![b] = [id |-> txn[t].id, val |-> txn[t].val]]
    /\ stamp' = [stamp EXCEPT ![b] = IF @ = 0 /\ b \notin Untimed THEN 1 ELSE @]
    /\ txn' = [txn EXCEPT ![t] = NoTxn]
    /\ late' = IF seq - txn[t].id >= Margin THEN late \cup {b} ELSE late
    /\ during' = IF lock \in Backfills THEN during \cup {b} ELSE during
    /\ UNCHANGED <<seq, target, lock, local, expiry>>

\* Rolled back: the id is lost.
SyncAbort(t) ==
    /\ txn[t] # NoTxn
    /\ txn' = [txn EXCEPT ![t] = NoTxn]
    /\ UNCHANGED <<seq, row, stamp, target, lock, local, expiry, late, during>>

\* backfill_timestamps: a missing timestamp, or with --overwrite a correction.
SetTimestamp(b, ts) ==
    /\ Stored(b)
    /\ ts # stamp[b]
    /\ stamp' = [stamp EXCEPT ![b] = ts]
    /\ UNCHANGED <<seq, row, txn, target, lock, local, expiry, late, during>>

TimePasses ==
    /\ expiry < MaxExpiry
    /\ expiry' = expiry + 1
    /\ UNCHANGED <<source, target, lock, local, late, during>>

-----------------------------------------------------------------------------
(* _reconcile_and_upsert, and how a worker begins and ends. *)

Goto(w, label) == pc' = [pc EXCEPT ![w] = label]

\* Faulty variant of TakeLock: does not look whether the lock is taken.
TakeAnyway(w) ==
    /\ lock' = w

TakeLock(w) ==
    /\ lock = None
    /\ lock' = w

\* The transaction is over; nothing of what it saw is kept.
LeaveOff(w) ==
    /\ Goto(w, "off")
    /\ lock' = None
    /\ during' = {}
    /\ work' = [work EXCEPT ![w] = [b \in Blocks |-> NoFact]]
    /\ top' = [top EXCEPT ![w] = 0]
    /\ asOf' = [asOf EXCEPT ![w] = 0]
    /\ from' = [from EXCEPT ![w] = 0]
    /\ upto' = [upto EXCEPT ![w] = 0]
    /\ lowest' = [lowest EXCEPT ![w] = 0]
    /\ advance' = [advance EXCEPT ![w] = FALSE]

\* Faulty variant of Unqualified: as if a row that qualified always would.
NeverUnqualified(w) == {}

\* The scanned rows that do not qualify.
Unqualified(w) == {b \in Scanned(w) : Stored(b) /\ Wanted(b) = None}

\* Delete the facts of scanned rows that do not qualify.
Reconcile(w) ==
    /\ pc[w] = "reconcile"
    /\ work' = [work EXCEPT ![w] =
                  [b \in Blocks |-> IF b \in Unqualified(w) THEN NoFact ELSE work[w][b]]]
    /\ Goto(w, "upsert")
    /\ UNCHANGED <<source, target, lock, top, asOf, range, expiry, late, during>>

\* INSERT ... ON CONFLICT DO UPDATE, guarded by IS DISTINCT FROM: what a scanned,
\* qualifying row makes of the fact f of its block.
Upserted(b, f) ==
    IF f.val # row[b].val \/ (f.ts = 0 /\ stamp[b] # 0)
    THEN [val |-> row[b].val, ts |-> IF stamp[b] # 0 THEN stamp[b] ELSE f.ts]
    ELSE f

WithUpserts(w) ==
    [b \in Blocks |-> IF b \in Scanned(w) /\ Wanted(b) # None
                      THEN Upserted(b, work[w][b]) ELSE work[w][b]]

-----------------------------------------------------------------------------
(* ingest_validator_apy_epochs: one transaction. *)

TickBegin(w) ==
    /\ pc[w] = "off"
    /\ TakeLock(w)
    /\ top' = [top EXCEPT ![w] = CurrentMax]
    /\ asOf' = [asOf EXCEPT ![w] = expiry]
    /\ work' = [work EXCEPT ![w] = facts]
    /\ Goto(w, "reconcile")
    /\ UNCHANGED <<source, target, range, expiry, late, during>>

TickUpsert(w) ==
    /\ pc[w] = "upsert"
    /\ work' = [work EXCEPT ![w] = WithUpserts(w)]
    /\ Goto(w, "sweep")
    /\ UNCHANGED <<source, target, lock, top, asOf, range, expiry, late, during>>

\* Faulty variant of Datable: the sweep keeps to the rows of the tick.
DatableInRange(w) == {b \in TickRange(w) : stamp[b] # 0}

\* The blocks whose facts the sweep can date, wherever they are.
Datable(w) == {b \in Blocks : stamp[b] # 0}

\* sweep_timestamps
TickSweep(w) ==
    /\ pc[w] = "sweep"
    /\ work' = [work EXCEPT ![w] =
                  [b \in Blocks |->
                     IF b \in Datable(w) /\ work[w][b].val # None /\ work[w][b].ts = 0
                     THEN [work[w][b] EXCEPT !.ts = stamp[b]] ELSE work[w][b]]]
    /\ Goto(w, "expire")
    /\ UNCHANGED <<source, target, lock, top, asOf, range, expiry, late, during>>

\* Faulty variant of Expired: only facts with a date ever leave.
DatedExpired(w) == {b \in Blocks : work[w][b].ts # 0 /\ b <= asOf[w]}

\* Dated facts expire by their date, the others by the newest block known to be
\* older than the window.
Expired(w) ==
    LET cutoff == Greatest({0} \cup {b \in Blocks : stamp[b] # 0 /\ b <= asOf[w]}) IN
    {b \in Blocks : \/ work[w][b].ts # 0 /\ b <= asOf[w]
                    \/ work[w][b].ts = 0 /\ b <= cutoff}

\* apply_retention
TickExpire(w) ==
    /\ pc[w] = "expire"
    /\ work' = [work EXCEPT ![w] =
                  [b \in Blocks |-> IF b \in Expired(w) THEN NoFact ELSE work[w][b]]]
    /\ Goto(w, "commit")
    /\ UNCHANGED <<source, target, lock, top, asOf, range, expiry, late, during>>

\* The watermark moves with the facts.
TickCommit(w) ==
    /\ pc[w] = "commit"
    /\ facts' = work[w]
    /\ watermark' = Larger(watermark, top[w])
    /\ LeaveOff(w)
    /\ UNCHANGED <<source, expiry, late>>

-----------------------------------------------------------------------------
(* backfill_validator_apy_epochs: a transaction per chunk, a lock of the session. *)

BackfillOver(w, lo, hi, derived) ==
    /\ pc[w] = "off"
    /\ TakeLock(w)
    /\ top' = [top EXCEPT ![w] = CurrentMax]
    /\ from' = [from EXCEPT ![w] = lo]
    /\ lowest' = [lowest EXCEPT ![w] = lo]
    /\ upto' = [upto EXCEPT ![w] = hi]
    /\ advance' = [advance EXCEPT ![w] = derived]
    /\ work' = [work EXCEPT ![w] = facts]
    /\ Goto(w, "reconcile")
    /\ UNCHANGED <<source, target, asOf, expiry, late, during>>

\* --block-start and --block-end.
BackfillRange(w, lo, hi) ==
    /\ lo <= hi
    /\ BackfillOver(w, lo, hi, FALSE)

\* The timestamped blocks of the last --days days (there is one).
BackfillDays(w, skip) ==
    LET recent == {b \in Blocks : stamp[b] # 0 /\ b > expiry + skip}
        oldest == CHOOSE x \in recent : \A y \in recent : x <= y
    IN  /\ recent # {}
        /\ BackfillOver(w, oldest, Greatest(recent), TRUE)

\* Faulty variant of NextChunk: chunk_start + chunk_size, taken once too far.
ChunkAfterNext(w) == ChunkEnd(w) + 2

NextChunk(w) == ChunkEnd(w) + 1

\* The chunk's upsert and commit, and the reads of the next chunk's transaction.
BackfillUpsert(w) ==
    /\ pc[w] = "upsert"
    /\ facts' = WithUpserts(w)
    /\ work' = [work EXCEPT ![w] = WithUpserts(w)]
    /\ from' = [from EXCEPT ![w] = Lesser(NextChunk(w), MaxBlock + 1)]
    /\ Goto(w, IF NextChunk(w) <= upto[w] THEN "reconcile" ELSE "finish")
    /\ UNCHANGED <<source, watermark, lock, top, asOf, upto, lowest, advance,
                   expiry, late, during>>

\* Every chunk is committed.  Only a derived range moves the watermark.
BackfillFinish(w) ==
    /\ pc[w] = "finish"
    /\ watermark' = IF advance[w] THEN Larger(watermark, top[w]) ELSE watermark
    /\ late' = late \ ((lowest[w]..upto[w]) \ during)
    /\ LeaveOff(w)
    /\ UNCHANGED <<source, facts, expiry>>

\* Time limit, statement timeout or kill: the transaction is rolled back, the lock
\* released.
Abort(w) ==
    /\ pc[w] # "off"
    /\ LeaveOff(w)
    /\ UNCHANGED <<source, target, expiry, late>>

-----------------------------------------------------------------------------
Sync ==
    \/ \E t \in Syncs :
         \/ \E b \in Blocks, v \in Values \cup {None} : SyncWrite(t, b, v)
         \/ SyncCommit(t)
         \/ SyncAbort(t)
    \/ \E b \in Blocks, ts \in Times : SetTimestamp(b, ts)

TickStep(w) == Reconcile(w) \/ TickUpsert(w) \/ TickSweep(w) \/ TickExpire(w) \/ TickCommit(w)

Tick(w) == TickBegin(w) \/ TickStep(w)

Backfill(w) ==
    \/ \E lo, hi \in Blocks : BackfillRange(w, lo, hi)
    \/ \E skip \in Skips : BackfillDays(w, skip)
    \/ Reconcile(w) \/ BackfillUpsert(w) \/ BackfillFinish(w)

Next ==
    \/ Sync
    \/ TimePasses
    \/ \E w \in Ticks : Tick(w)
    \/ \E w \in Backfills : Backfill(w)
    \/ \E w \in Workers : Abort(w)

Spec == Init /\ [][Next]_vars

-----------------------------------------------------------------------------
\* Two workers never work at the same time, although the lock of one belongs to a
\* transaction and that of the other to a session.
OneAtATime == \A v, w \in Workers : pc[v] # "off" /\ pc[w] # "off" => v = w

\* The watermark hides nothing: a snapshot whose fact is missing or out of date is
\* within the margin, so that the next tick scans it, unless it was committed late,
\* that is, with Margin or more ids taken during its transaction, and no repair of
\* its block has been completed since.
NothingMissed ==
    \A b \in Blocks : Outdated(b) /\ b > expiry => row[b].id > watermark - Margin \/ b \in late

-----------------------------------------------------------------------------
(* Liveness.  Beat starts ticks again and again; some of them find the lock    *)
(* free, and some of those are not cut off.  A tick that has begun goes on or  *)
(* is cut off.                                                                 *)
Fairness ==
    \A w \in Ticks :
      /\ SF_vars(TickBegin(w))
      /\ WF_vars(TickStep(w) \/ Abort(w))
      /\ []<><<TickBegin(w)>>_vars => []<><<TickCommit(w)>>_vars

FairSpec == Spec /\ Fairness

\* Again and again the fact of a snapshot that no sync is rewriting says the same as
\* the snapshot, unless the snapshot was late or has expired.
FactsCatchUp ==
    \A b \in Blocks :
      []<>(~Outdated(b) \/ b <= expiry \/ b \in late \/ \E t \in Syncs : txn[t].block = b)

\* A block that gets its timestamp late still dates its fact, however far below the
\* watermark.
DatesArrive ==
    \A b \in Blocks :
      facts[b].val # None /\ facts[b].ts = 0 /\ stamp[b] # 0
        ~> facts[b].val = None \/ facts[b].ts # 0

\* Expired facts go, also those without a date when a newer block has expired.
ExpiredLeave ==
    \A b \in Blocks :
      facts[b].val # None /\ (\E c \in b..expiry : stamp[c] # 0) ~> facts[b].val = None
=============================================================================
