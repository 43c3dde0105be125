--------------------------- MODULE ExtrinsicIngest ---------------------------
(***************************************************************************)
(* How blocks become rows of the extrinsics table, hyperparameter records  *)
(* and notifications.  The sync_extrinsics daemon (Live) follows the head  *)
(* of the chain; backfill_extrinsics runs (Backfills) look for blocks      *)
(* without rows.  Both call store_block_extrinsics, whose statements are   *)
(* separate transactions: between any two of them the other process may    *)
(* run, an exception may be raised, or the process may die.                *)
(***************************************************************************)
EXTENDS Integers, Sequences, FiniteSets

CONSTANTS
    Live,          \* the sync_extrinsics daemon
    Backfills,     \* backfill_extrinsics processes
    MaxBlock,      \* bound: the chain stops growing at this block
    Lookback,      \* how far behind the head backfill looks for gaps
    Hashes,        \* extrinsic hashes, the unique key of the extrinsics table
    BlockExts,     \* the parseable extrinsics of each block, in block order
    EventBlocks,   \* blocks with block-level events some handler matches
    Params,        \* (netuid, param_name) pairs
    ParamOf,       \* the pair a successful AdminUtils extrinsic sets, or None
    None           \* no value

Blocks == 1..MaxBlock
Procs == {Live} \cup Backfills

ASSUME IngestAssumption ==
    /\ Live \notin Backfills
    /\ MaxBlock \in Nat \ {0}
    /\ Lookback \in Nat
    /\ BlockExts \in [Blocks -> Seq(Hashes)]
    /\ EventBlocks \subseteq Blocks
    /\ ParamOf \in [Hashes -> Params \cup {None}]
    /\ None \notin Params \cup Hashes

VARIABLES
    head,          \* the newest block of the chain
    (* the database *)
    rows,          \* rows[h]: block_number of the row with hash h, 0 if none
    hyper,         \* hyper[q]: the SubnetHyperparam record of q
    history,       \* SubnetHyperparamHistory
    (* each process *)
    pc,            \* where the process is
    todo,          \* blocks the current loop has still to handle
    blk,           \* block_number being stored, 0 between blocks
    seen,          \* existing_hashes, as read from the database
    pend,          \* positions of the extrinsics still to be enriched
    prev,          \* previous_value of update_hyperparam
    lastProcessed, \* last_processed_block of the daemon, -1 for None
    (* what has been observed from outside *)
    sends,         \* sends[b][h]: dispatches of extrinsic h for block b (0, 1, many)
    eventSends,    \* eventSends[b]: dispatches of b's block-level events
    skipped,       \* blocks the daemon gave up after an exception
    raced          \* blocks stored from a stale existing_hashes

database == <<rows, hyper, history>>
job == <<blk, seen, pend, prev>>
observed == <<sends, eventSends, skipped, raced>>
vars == <<head, database, pc, todo, job, lastProcessed, observed>>

-----------------------------------------------------------------------------
Exts(b) == {BlockExts[b][i] : i \in DOMAIN BlockExts[b]}
RowsOf(b) == {h \in Hashes : rows[h] = b}

\* parsed_for_notifications: what process p takes to be new in its block.
Fresh(p) == Exts(blk[p]) \ seen[p]

\* Positions in b of the extrinsics of S that set a hyperparameter.
ParamChanges(b, S) ==
    {i \in DOMAIN BlockExts[b] : BlockExts[b][i] \in S /\ ParamOf[BlockExts[b][i]] # None}

More(n) == IF n = 0 THEN 1 ELSE 2       \* counts none, one, many

Smallest(S) == CHOOSE x \in S : \A y \in S : x <= y

\* The extrinsic process p is enriching, and the hyperparameter it sets.
Current(p) == BlockExts[blk[p]][Smallest(pend[p])]
CurrentParam(p) == ParamOf[Current(p)]

\* A block is a gap when backfill would find it.
Gap(b) == RowsOf(b) = {}

-----------------------------------------------------------------------------
TypeOK ==
    /\ head \in Blocks
    /\ rows \in [Hashes -> 0..MaxBlock]
    /\ hyper \in [Params -> [value : Hashes \cup {None}, block : 0..MaxBlock]]
    /\ history \subseteq [param : Params, old : Hashes \cup {None}, new : Hashes, block : Blocks]
    /\ pc \in [Procs -> {"off", "connect", "poll", "scan", "loop", "ingest", "read",
                         "write", "enrich", "save", "history", "events"}]
    /\ todo \in [Procs -> SUBSET Blocks]
    /\ blk \in [Procs -> 0..MaxBlock]
    /\ seen \in [Procs -> SUBSET Hashes]
    /\ pend \in [Procs -> SUBSET Nat]
    /\ prev \in [Procs -> Hashes \cup {None}]
    /\ lastProcessed \in -1..MaxBlock
    /\ sends \in [Blocks -> [Hashes -> 0..2]]
    /\ eventSends \in [Blocks -> 0..2]
    /\ skipped \subseteq Blocks
    /\ raced \subseteq Blocks

Init ==
    /\ head = 1
    /\ rows = [h \in Hashes |-> 0]
    /\ hyper = [q \in Params |-> [value |-> None, block |-> 0]]
    /\ history = {}
    /\ pc = [p \in Procs |-> "off"]
    /\ todo = [p \in Procs |-> {}]
    /\ blk = [p \in Procs |-> 0]
    /\ seen = [p \in Procs |-> {}]
    /\ pend = [p \in Procs |-> {}]
    /\ prev = [p \in Procs |-> None]
    /\ lastProcessed = -1
    /\ sends = [b \in Blocks |-> [h \in Hashes |-> 0]]
    /\ eventSends = [b \in Blocks |-> 0]
    /\ skipped = {}
    /\ raced = {}

-----------------------------------------------------------------------------
(* Steps every process takes to leave a block or to stop. *)

ClearJob(p) ==
    /\ blk' = [blk EXCEPT ![p] = 0]
    /\ seen' = [seen EXCEPT ![p] = {}]
    /\ pend' = [pend EXCEPT ![p] = {}]
    /\ prev' = [prev EXCEPT ![p] = None]

Goto(p, label) == pc' = [pc EXCEPT ![p] = label]

\* store_block_extrinsics returned, or (daemon only) the block was unreadable.
LeaveBlock(p) ==
    /\ Goto(p, "loop")
    /\ ClearJob(p)
    /\ lastProcessed' = IF p = Live THEN blk[p] ELSE lastProcessed
    /\ UNCHANGED <<head, todo, skipped>>

\* Faulty variant of RaiseOutOfBlock: the daemon tries the block again.
RaiseAndRetry(p) ==
    /\ ClearJob(p)
    /\ Goto(p, IF p = Live THEN "connect" ELSE "loop")
    /\ todo' = IF p = Live THEN [todo EXCEPT ![p] = {}] ELSE todo
    /\ UNCHANGED <<head, database, lastProcessed, observed>>

\* store_block_extrinsics raised: the daemon drops the provider and skips the
\* block, backfill counts an error and goes on.
RaiseOutOfBlock(p) ==
    /\ ClearJob(p)
    /\ IF p = Live
       THEN /\ Goto(p, "connect")
            /\ todo' = [todo EXCEPT ![p] = {}]
            /\ lastProcessed' = blk[p]
            /\ skipped' = skipped \cup {blk[p]}
       ELSE /\ Goto(p, "loop")
            /\ UNCHANGED <<todo, lastProcessed, skipped>>
    /\ UNCHANGED <<head, database, sends, eventSends, raced>>

\* The process is killed; what it kept in memory is gone.
Crash(p) ==
    /\ pc[p] # "off"
    /\ Goto(p, "off")
    /\ ClearJob(p)
    /\ todo' = [todo EXCEPT ![p] = {}]
    /\ lastProcessed' = IF p = Live THEN -1 ELSE lastProcessed
    /\ UNCHANGED <<head, database, observed>>

-----------------------------------------------------------------------------
(* store_block_extrinsics(blk[p]), one step per transaction or send. *)

IngestBlock(p) ==
    /\ pc[p] = "ingest"
    /\ Goto(p, "read")
    /\ UNCHANGED <<head, database, todo, job, lastProcessed, observed>>

\* The provider returned no extrinsics: BlockExtrinsicsUnavailableError.
BlockUnavailable(p) ==
    /\ pc[p] = "ingest"
    /\ LeaveBlock(p)
    /\ UNCHANGED <<database, sends, eventSends, raced>>

ReadExisting(p) ==
    /\ pc[p] = "read"
    /\ seen' = [seen EXCEPT ![p] = RowsOf(blk[p])]
    /\ Goto(p, "write")
    /\ UNCHANGED <<head, database, todo, blk, pend, prev, lastProcessed, observed>>

\* Faulty variant of WriteRows: the rows are not written in one transaction.
WriteSomeRows(p) ==
    /\ pc[p] = "write"
    /\ \E S \in SUBSET Fresh(p) :
         rows' = [h \in Hashes |-> IF h \in S /\ rows[h] = 0 THEN blk[p] ELSE rows[h]]
    /\ pend' = [pend EXCEPT ![p] = ParamChanges(blk[p], Fresh(p))]
    /\ Goto(p, "enrich")
    /\ UNCHANGED <<head, hyper, history, todo, blk, seen, prev, lastProcessed, observed>>

\* bulk_create(ignore_conflicts=True): all new rows in one transaction, except
\* those whose hash the table already holds.
WriteRows(p) ==
    /\ pc[p] = "write"
    /\ rows' = [h \in Hashes |-> IF h \in Fresh(p) /\ rows[h] = 0 THEN blk[p] ELSE rows[h]]
    /\ raced' = IF \E h \in Fresh(p) : rows[h] = blk[p] THEN raced \cup {blk[p]} ELSE raced
    /\ pend' = [pend EXCEPT ![p] = ParamChanges(blk[p], Fresh(p))]
    /\ Goto(p, "enrich")
    /\ UNCHANGED <<head, hyper, history, todo, blk, seen, prev, lastProcessed,
                   sends, eventSends, skipped>>

\* SubnetHyperparam.objects.get_or_create: insert, or read the previous value.
GetOrCreateParam(p) ==
    /\ pc[p] = "enrich" /\ pend[p] # {}
    /\ LET q == CurrentParam(p) IN
         IF hyper[q].value = None
         THEN /\ hyper' = [hyper EXCEPT ![q] = [value |-> Current(p), block |-> blk[p]]]
              /\ prev' = [prev EXCEPT ![p] = None]
              /\ Goto(p, "history")
         ELSE /\ prev' = [prev EXCEPT ![p] = hyper[q].value]
              /\ Goto(p, "save")
              /\ UNCHANGED hyper
    /\ UNCHANGED <<head, rows, history, todo, blk, seen, pend, lastProcessed, observed>>

SaveParam(p) ==
    /\ pc[p] = "save"
    /\ hyper' = [hyper EXCEPT ![CurrentParam(p)] = [value |-> Current(p), block |-> blk[p]]]
    /\ Goto(p, "history")
    /\ UNCHANGED <<head, rows, history, todo, job, lastProcessed, observed>>

AddHistory(p) ==
    /\ pc[p] = "history"
    /\ history' = history \cup
         {[param |-> CurrentParam(p), old |-> prev[p], new |-> Current(p), block |-> blk[p]]}
    /\ pend' = [pend EXCEPT ![p] = @ \ {Smallest(@)}]
    /\ prev' = [prev EXCEPT ![p] = None]
    /\ Goto(p, "enrich")
    /\ UNCHANGED <<head, rows, hyper, todo, blk, seen, lastProcessed, observed>>

\* Faulty variant of Notify: every parsed extrinsic is dispatched, new or not.
NotifyAll(p) ==
    /\ pc[p] = "enrich" /\ pend[p] = {}
    /\ sends' = [sends EXCEPT ![blk[p]] =
                   [h \in Hashes |-> IF h \in Exts(blk[p]) THEN More(@[h]) ELSE @[h]]]
    /\ LeaveBlock(p)
    /\ UNCHANGED <<database, eventSends, raced>>

\* dispatch_block_notifications(enriched); a failing handler is only logged.
\* Block-level events follow when existing_hashes was empty.
Notify(p) ==
    /\ pc[p] = "enrich" /\ pend[p] = {}
    /\ sends' = [sends EXCEPT ![blk[p]] =
                   [h \in Hashes |-> IF h \in Fresh(p) THEN More(@[h]) ELSE @[h]]]
    /\ IF seen[p] = {} /\ blk[p] \in EventBlocks
       THEN /\ Goto(p, "events")
            /\ UNCHANGED <<head, todo, job, lastProcessed, skipped>>
       ELSE LeaveBlock(p)
    /\ UNCHANGED <<database, eventSends, raced>>

NotifyEvents(p) ==
    /\ pc[p] = "events"
    /\ eventSends' = [eventSends EXCEPT ![blk[p]] = More(@)]
    /\ LeaveBlock(p)
    /\ UNCHANGED <<database, sends, raced>>

\* A provider or database call raises; a statement may have been committed
\* although its caller saw an error.
Raise(p) ==
    /\ pc[p] \in {"ingest", "read", "write", "enrich", "save", "history"}
    /\ RaiseOutOfBlock(p)

StoreBlock(p) ==
    \/ IngestBlock(p)
    \/ BlockUnavailable(p)
    \/ ReadExisting(p)
    \/ WriteRows(p)
    \/ GetOrCreateParam(p)
    \/ SaveParam(p)
    \/ AddHistory(p)
    \/ Notify(p)
    \/ NotifyEvents(p)

-----------------------------------------------------------------------------
(* The loops around store_block_extrinsics. *)

\* Both loops take the blocks in ascending order.
NextBlock(p) ==
    /\ pc[p] = "loop" /\ todo[p] # {}
    /\ blk' = [blk EXCEPT ![p] = Smallest(todo[p])]
    /\ todo' = [todo EXCEPT ![p] = @ \ {Smallest(@)}]
    /\ Goto(p, "ingest")
    /\ UNCHANGED <<head, database, seen, pend, prev, lastProcessed, observed>>

StartLive ==
    /\ pc[Live] = "off"
    /\ Goto(Live, "connect")
    /\ UNCHANGED <<head, database, todo, job, lastProcessed, observed>>

ConnectLive ==
    /\ pc[Live] = "connect"
    /\ Goto(Live, "poll")
    /\ UNCHANGED <<head, database, todo, job, lastProcessed, observed>>

\* get_current_block failed: reconnect.
PollFails ==
    /\ pc[Live] = "poll"
    /\ Goto(Live, "connect")
    /\ UNCHANGED <<head, database, todo, job, lastProcessed, observed>>

\* Faulty variant of PollHead: every range starts from the head.
PollFromHead ==
    /\ pc[Live] = "poll"
    /\ head > lastProcessed
    /\ lastProcessed' = head - 1
    /\ todo' = [todo EXCEPT ![Live] = {head}]
    /\ Goto(Live, "loop")
    /\ UNCHANGED <<head, database, job, observed>>

\* Take the blocks after the last one; the first time, only the head.
PollHead ==
    LET last == IF lastProcessed = -1 THEN head - 1 ELSE lastProcessed IN
    /\ pc[Live] = "poll"
    /\ head > last
    /\ lastProcessed' = last
    /\ todo' = [todo EXCEPT ![Live] = (last + 1)..head]
    /\ Goto(Live, "loop")
    /\ UNCHANGED <<head, database, job, observed>>

RangeDone ==
    /\ pc[Live] = "loop" /\ todo[Live] = {}
    /\ Goto(Live, "poll")
    /\ UNCHANGED <<head, database, todo, job, lastProcessed, observed>>

\* Faulty variants of StartBackfill: the range stops before, or after, the head.
BackfillBelowHead(p) ==
    /\ pc[p] = "off"
    /\ Goto(p, "scan")
    /\ todo' = [todo EXCEPT ![p] = {b \in Blocks : head - Lookback <= b /\ b < head}]
    /\ UNCHANGED <<head, database, job, lastProcessed, observed>>

BackfillBeyondHead(p) ==
    /\ pc[p] = "off"
    /\ Goto(p, "scan")
    /\ todo' = [todo EXCEPT ![p] = {b \in Blocks : head - Lookback <= b /\ b <= head + 1}]
    /\ UNCHANGED <<head, database, job, lastProcessed, observed>>

\* An operator runs the command; it reads the head, then looks for gaps.
StartBackfill(p) ==
    /\ pc[p] = "off"
    /\ Goto(p, "scan")
    /\ todo' = [todo EXCEPT ![p] = {b \in Blocks : head - Lookback <= b /\ b <= head}]
    /\ UNCHANGED <<head, database, job, lastProcessed, observed>>

\* --block b: no gap detection.
StartBackfillOf(p, b) ==
    /\ pc[p] = "off"
    /\ b <= head
    /\ Goto(p, "loop")
    /\ todo' = [todo EXCEPT ![p] = {b}]
    /\ UNCHANGED <<head, database, job, lastProcessed, observed>>

\* _find_missing_blocks: the blocks of the range with no row at all.
FindMissing(p) ==
    /\ pc[p] = "scan"
    /\ todo' = [todo EXCEPT ![p] = {b \in @ : Gap(b)}]
    /\ Goto(p, "loop")
    /\ UNCHANGED <<head, database, job, lastProcessed, observed>>

BackfillDone(p) ==
    /\ pc[p] = "loop" /\ todo[p] = {}
    /\ Goto(p, "off")
    /\ UNCHANGED <<head, database, todo, job, lastProcessed, observed>>

GrowChain ==
    /\ head < MaxBlock
    /\ head' = head + 1
    /\ UNCHANGED <<database, pc, todo, job, lastProcessed, observed>>

LiveLoop == StartLive \/ ConnectLive \/ PollFails \/ PollHead \/ RangeDone

BackfillLoop(p) ==
    \/ StartBackfill(p)
    \/ \E b \in Blocks : StartBackfillOf(p, b)
    \/ FindMissing(p)
    \/ BackfillDone(p)

Next ==
    \/ GrowChain
    \/ LiveLoop
    \/ \E p \in Backfills : BackfillLoop(p)
    \/ \E p \in Procs : NextBlock(p) \/ StoreBlock(p) \/ Raise(p) \/ Crash(p)

Spec == Init /\ [][Next]_vars

-----------------------------------------------------------------------------
(* Safety. *)

\* A block is stored as a whole or not at all: if it has one row, every one of
\* its extrinsics is in the table.  This is what makes "no row" (Gap), the test
\* of _find_missing_blocks, a sound test for "not ingested".
AllOrNothing ==
    \A b \in Blocks : ~Gap(b) => \A h \in Exts(b) : rows[h] # 0

\* The existing_hashes test: an extrinsic is dispatched twice for its block, or
\* the block's events are, only if two processes stored the block from the same
\* empty read, or if nothing of it is stored under that block (its hashes were
\* taken by another block, or it has none).
ResendOnlyIfRaced ==
    \A b \in Blocks :
      /\ \A h \in Exts(b) : sends[b][h] > 1 => b \in raced \/ rows[h] # b
      /\ eventSends[b] > 1 => b \in raced \/ Gap(b)

\* A process running alone never stores from a stale read, whatever crashes,
\* restarts and failed blocks it goes through.
NeverRaced == raced = {}

\* "Tracks current hyperparam values for each subnet" (SubnetHyperparam): a value is
\* never replaced by that of an older block.  The daemon alone, which walks the chain
\* upwards, keeps to this; a backfill of old blocks does not.
HyperparamNeverOlder ==
    [][\A x \in Params : hyper'[x].block >= hyper[x].block]_hyper

(* The ledger this module implements. *)
Ledger == INSTANCE IngestLedger WITH
    ExtsOf <- [x \in Blocks |-> Exts(x)],
    published <- {y \in Blocks \X Hashes :
                    \/ sends[y[1]][y[2]] > 0
                    \/ \E e \in history : e.block = y[1] /\ e.new = y[2]}

\* Ingestion implements the ledger: blocks are stored as a whole, rows never
\* change, and neither a notification nor a history entry precedes the row.
ImplementsLedger == Ledger!Spec

\* The walk along the chain the daemon makes.
Walk == INSTANCE BlockWalk WITH last <- lastProcessed, current <- blk[Live]

\* The daemon takes up block after block from its first head on: a block that
\* is unreadable or fails is passed once like any other, and no reconnect, and
\* no work list, however stale, makes it repeat a block, jump over one or run
\* ahead of the chain.
WalksTheChain == Walk!Spec

\* When the daemon leaves a block it could read and that raised nothing, every
\* extrinsic of the block is in the table, although a backfill may have stored
\* it in the meantime, in part or as a whole, before or after existing_hashes
\* was read.
PassedIsStored ==
    [][/\ lastProcessed # -1 /\ lastProcessed' > lastProcessed
       /\ pc[Live] # "ingest" /\ pc'[Live] # "connect"
       => \A h \in Exts(lastProcessed') : rows'[h] # 0]_vars

-----------------------------------------------------------------------------
(* Liveness.  Processes are scheduled; docker restarts the daemon; operators  *)
(* keep running backfill; a provider or database call does not fail forever   *)
(* for the same block; and at some point no process is killed any more (a     *)
(* backfill that is done also leaves).                                       *)

Fairness ==
    /\ WF_vars(StartLive) /\ WF_vars(ConnectLive) /\ SF_vars(PollHead) /\ WF_vars(RangeDone)
    /\ \A p \in Procs :
         /\ WF_vars(NextBlock(p))
         /\ WF_vars(StoreBlock(p) \/ Raise(p))
    /\ \A p \in Backfills :
         /\ SF_vars(StartBackfill(p)) /\ WF_vars(FindMissing(p)) /\ WF_vars(BackfillDone(p))
         /\ \A b \in Blocks :
              /\ SF_vars(IngestBlock(p) /\ blk[p] = b)
              /\ SF_vars(ReadExisting(p) /\ blk[p] = b)
              /\ SF_vars(WriteRows(p) /\ blk[p] = b)
    /\ <>[][\A p \in Procs : Crash(p) => p \in Backfills /\ BackfillDone(p)]_vars

FairSpec == Spec /\ Fairness

\* A block one of whose extrinsics is in no other block.
Storable(b) == \E h \in Exts(b) : \A d \in Blocks \ {b} : h \notin Exts(d)

\* A gap within the lookback window is filled before it leaves the window, no
\* matter which failures left it.
GapsAreFilled ==
    \A b \in Blocks : Storable(b) /\ b <= head ~> ~Gap(b) \/ b < head - Lookback

\* No failing block holds the daemon up: it gets to the head again and again.
DaemonReachesHead == []<>(lastProcessed = head)

-----------------------------------------------------------------------------
(* What a comment in the code claims. *)

\* sync_extrinsics.py: "Skip the failed block - backfill service will catch it".
\* A block the daemon gave up is one backfill can find, or it was completed.
FailedBlockIsCaught ==
    \A b \in skipped : Gap(b) \/ \A h \in Exts(b) : sends[b][h] > 0
=============================================================================
