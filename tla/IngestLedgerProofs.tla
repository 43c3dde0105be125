------------------------- MODULE IngestLedgerProofs -------------------------
(***************************************************************************)
(* ExtrinsicIngest implements IngestLedger, and the daemon running without *)
(* backfills neither races nor replaces a hyperparameter by an older one.  *)
(***************************************************************************)
EXTENDS ExtrinsicIngestProofs

\* No process works on a block the chain does not have yet.
BehindHead ==
    \A p \in Procs : blk[p] <= head /\ \A b \in todo[p] : b <= head

\* Work lists only come from the range between the last block and the head.
LEMMA StaysBehindHead ==
    ASSUME TypeOK, BehindHead, [Next]_vars
    PROVE  BehindHead'
<1> USE DEF TypeOK, BehindHead, Goto, ClearJob, Blocks
<1>1. CASE UNCHANGED vars
  BY <1>1 DEF vars, database, job, observed
<1>2. CASE GrowChain
  <2>1. head' = head + 1 /\ UNCHANGED <<todo, blk>>
    BY <1>2 DEF GrowChain, job
  <2>2. ASSUME NEW q \in Procs
        PROVE  blk[q] <= head + 1 /\ \A b \in todo[q] : b <= head + 1
    <3>1. blk[q] \in Int /\ todo[q] \in SUBSET Int
      OBVIOUS
    <3>. QED
      BY <3>1
  <2>. QED
    BY <2>1, <2>2
<1>3. CASE LiveLoop
  <2>1. CASE PollHead
    <3>1. /\ UNCHANGED <<head, blk>>
          /\ todo' = [todo EXCEPT ![Live] =
                        ((IF lastProcessed = -1 THEN head - 1 ELSE lastProcessed) + 1)..head]
      BY <2>1 DEF PollHead, job
    <3>. QED
      BY <3>1
  <2>2. CASE ~PollHead
    BY <1>3, <2>2 DEF LiveLoop, StartLive, ConnectLive, PollFails, RangeDone, job
  <2>. QED
    BY <2>1, <2>2
<1>4. CASE \E p \in Backfills : BackfillLoop(p)
  BY <1>4 DEF BackfillLoop, StartBackfill, StartBackfillOf, FindMissing, BackfillDone, database,
              job, observed
<1>5. ASSUME NEW p \in Procs, NextBlock(p)
      PROVE  BehindHead'
  <2>1. Smallest(todo[p]) \in todo[p]
    BY <1>5, SmallestIsLeast DEF NextBlock
  <2>. QED
    BY <1>5, <2>1 DEF NextBlock, database, observed
<1>6. ASSUME NEW p \in Procs, Crash(p) \/ Raise(p)
      PROVE  BehindHead'
  BY <1>6 DEF Crash, Raise, RaiseOutOfBlock, database, observed
<1>7. ASSUME NEW p \in Procs, IngestBlock(p) \/ BlockUnavailable(p) \/ ReadExisting(p)
      PROVE  BehindHead'
  BY <1>7 DEF IngestBlock, BlockUnavailable, ReadExisting, LeaveBlock, database, job, observed
<1>8. ASSUME NEW p \in Procs, GetOrCreateParam(p) \/ SaveParam(p) \/ AddHistory(p)
      PROVE  BehindHead'
  BY <1>8 DEF GetOrCreateParam, SaveParam, AddHistory, job, observed
<1>9. ASSUME NEW p \in Procs, WriteRows(p) \/ Notify(p) \/ NotifyEvents(p)
      PROVE  BehindHead'
  <2>1. UNCHANGED <<head, todo>> /\ (UNCHANGED blk \/ blk' = [blk EXCEPT ![p] = 0])
    BY <1>9 DEF WriteRows, Notify, NotifyEvents, LeaveBlock, job
  <2>2. \A q \in Procs : blk'[q] = blk[q] \/ blk'[q] = 0
    BY <2>1
  <2>. QED
    BY <2>1, <2>2
<1>. HIDE DEF TypeOK, BehindHead
<1>. QED
  BY <1>1, <1>2, <1>3, <1>4, <1>5, <1>6, <1>7, <1>8, <1>9 DEF Next, StoreBlock

\* Every process works behind the head.
THEOREM AlwaysBehindHead == Spec => []BehindHead
<1>1. Init => BehindHead
  BY DEF Init, BehindHead
<1>. QED
  BY <1>1, StaysBehindHead, TypeAndJobs, PTL DEF Spec

-----------------------------------------------------------------------------
(* The refinement. *)

\* published, as the ledger sees it.
Published ==
    {y \in Blocks \X Hashes :
        \/ sends[y[1]][y[2]] > 0
        \/ \E e \in history : e.block = y[1] /\ e.new = y[2]}

\* bulk_create is the ledger's Store: what it leaves out is stored already.
LEMMA WriteIsStore ==
    ASSUME TypeOK, JobInv, BehindHead, NEW p \in Procs, WriteRows(p)
    PROVE  Ledger!Store(blk[p]) /\ blk[p] \in Blocks
<1>1. blk[p] \in Blocks /\ blk[p] <= head
  BY StoreJobTyped DEF StoreBlock, BehindHead
<1>2. \A h \in seen[p] : rows[h] # 0
  BY <1>1 DEF WriteRows, JobInv, JobOf, AfterRead, RowsOf, Blocks
<1>3. rows' = [h \in Hashes |-> IF h \in Exts(blk[p]) /\ rows[h] = 0 THEN blk[p] ELSE rows[h]]
  BY <1>2 DEF WriteRows, Fresh
<1>4. UNCHANGED <<head, sends, history>>
  BY DEF WriteRows
<1>. QED
  BY <1>1, <1>3, <1>4 DEF Ledger!Store

\* A dispatch publishes extrinsics the process has stored.
LEMMA NotifyIsPublish ==
    ASSUME TypeOK, JobInv, NEW p \in Procs, Notify(p)
    PROVE  Ledger!Publish(blk[p], Fresh(p)) /\ blk[p] \in Blocks
<1>1. blk[p] \in Blocks /\ UNCHANGED <<rows, raced>>
  BY SenderMoves
<1>2. Fresh(p) \subseteq Hashes /\ \A h \in Fresh(p) : rows[h] # 0
  BY <1>1, ExtsAreHashes DEF Notify, JobInv, JobOf, AfterWrite, Fresh
<1>3. /\ history' = history /\ head' = head
      /\ sends' = [sends EXCEPT ![blk[p]] =
                     [h \in Hashes |-> IF h \in Fresh(p) THEN More(@[h]) ELSE @[h]]]
  BY DEF Notify, LeaveBlock, database
<1>4. \A b \in Blocks : \A h \in Hashes :
        sends'[b][h] > 0 <=> sends[b][h] > 0 \/ (b = blk[p] /\ h \in Fresh(p))
  BY <1>1, <1>3 DEF TypeOK, More
<1>5. Published' = Published \cup {<<blk[p], h>> : h \in Fresh(p)}
  BY <1>1, <1>2, <1>3, <1>4 DEF Published
<1>. QED
  BY <1>1, <1>2, <1>3, <1>5 DEF Ledger!Publish, Published

\* A history entry publishes the extrinsic that made the change.
LEMMA HistoryIsPublish ==
    ASSUME TypeOK, JobInv, NEW p \in Procs, AddHistory(p)
    PROVE  Ledger!Publish(blk[p], {Current(p)}) /\ blk[p] \in Blocks /\ Current(p) \in Exts(blk[p])
<1>1. JobOf(p) /\ pend[p] # {}
  BY DEF AddHistory, JobInv, JobOf
<1>2. blk[p] \in Blocks /\ Current(p) \in Fresh(p) /\ Current(p) \in Hashes
  BY <1>1, CurrentIsFresh
<1>3. rows[Current(p)] # 0
  BY <1>1, <1>2 DEF JobOf, AddHistory, AfterWrite
<1>4. /\ UNCHANGED <<head, rows, sends>>
      /\ history' = history \cup
           {[param |-> CurrentParam(p), old |-> prev[p], new |-> Current(p), block |-> blk[p]]}
  BY DEF AddHistory, observed
<1>5. Published' = Published \cup {<<blk[p], Current(p)>>}
  <2>1. \A b \in Blocks : \A h \in Hashes :
          (\E e \in history' : e.block = b /\ e.new = h)
            <=> (\E e \in history : e.block = b /\ e.new = h) \/ (b = blk[p] /\ h = Current(p))
    <3> DEFINE n == [param |-> CurrentParam(p), old |-> prev[p],
                     new |-> Current(p), block |-> blk[p]]
    <3>1. history' = history \cup {n} /\ n.block = blk[p] /\ n.new = Current(p)
      BY <1>4
    <3>. HIDE DEF n
    <3>. QED
      BY <3>1
  <2>. QED
    BY <1>2, <1>4, <2>1 DEF Published
<1>6. {<<blk[p], h>> : h \in {Current(p)}} = {<<blk[p], Current(p)>>}
  OBVIOUS
<1>. QED
  BY <1>2, <1>3, <1>4, <1>5, <1>6 DEF Ledger!Publish, Published, Fresh

\* Every other step leaves what the ledger sees alone.
LEMMA OthersStutter ==
    ASSUME [Next]_vars,
           \A p \in Procs : ~WriteRows(p) /\ ~Notify(p) /\ ~AddHistory(p)
    PROVE  Ledger!Grow \/ UNCHANGED <<head, rows, Published>>
<1>1. CASE GrowChain
  <2>1. Published' = Published
    BY <1>1 DEF GrowChain, database, observed, Published
  <2>. QED
    BY <1>1, <2>1 DEF GrowChain, Ledger!Grow, Published, database
<1>2. CASE ~GrowChain
  <2>1. UNCHANGED <<head, rows, sends, history>>
    BY <1>2 DEF Next, vars, database, job, observed, LiveLoop, StartLive, ConnectLive, PollFails,
           PollHead, RangeDone, BackfillLoop, StartBackfill, StartBackfillOf, FindMissing,
           BackfillDone, NextBlock, StoreBlock, IngestBlock, BlockUnavailable, ReadExisting,
           GetOrCreateParam, SaveParam, NotifyEvents, LeaveBlock, Raise, RaiseOutOfBlock, Crash
  <2>. QED
    BY <2>1 DEF Published
<1>. QED
  BY <1>1, <1>2

\* Ingestion implements the ledger, with any number of backfills and whatever
\* crashes and failures: whole blocks, permanent rows, rows before publication.
THEOREM IngestImplementsLedger == Spec => ImplementsLedger
<1>1. Init => Ledger!Init
  <2> SUFFICES ASSUME Init
               PROVE  Ledger!Init
    OBVIOUS
  <2>1. \A b \in Blocks : \A h \in Hashes : ~(sends[b][h] > 0)
    BY DEF Init
  <2>2. Published = {}
    BY <2>1 DEF Init, Published
  <2>. QED
    BY <2>2 DEF Init, Ledger!Init, Published
<1>2. TypeOK /\ JobInv /\ BehindHead /\ [Next]_vars => [Ledger!Next]_(Ledger!vars)
  <2> SUFFICES ASSUME TypeOK, JobInv, BehindHead, [Next]_vars
               PROVE  [Ledger!Next]_(Ledger!vars)
    OBVIOUS
  <2>1. ASSUME NEW p \in Procs, WriteRows(p)
        PROVE  Ledger!Next
    BY <2>1, WriteIsStore DEF Ledger!Next, Blocks
  <2>2. ASSUME NEW p \in Procs, Notify(p)
        PROVE  Ledger!Next
    <3>1. Ledger!Publish(blk[p], Fresh(p)) /\ blk[p] \in Blocks
      BY <2>2, NotifyIsPublish
    <3>2. Fresh(p) \in SUBSET [x \in Blocks |-> Exts(x)][blk[p]]
      BY <3>1 DEF Fresh
    <3>3. \E S \in SUBSET [x \in Blocks |-> Exts(x)][blk[p]] : Ledger!Publish(blk[p], S)
      BY <3>1, <3>2 DEF Ledger!Publish
    <3>. QED
      BY <3>1, <3>3 DEF Ledger!Next, Blocks, Ledger!Publish
  <2>3. ASSUME NEW p \in Procs, AddHistory(p)
        PROVE  Ledger!Next
    <3>1. /\ Ledger!Publish(blk[p], {Current(p)}) /\ blk[p] \in Blocks
          /\ Current(p) \in Exts(blk[p])
      BY <2>3, HistoryIsPublish
    <3>2. {Current(p)} \in SUBSET [x \in Blocks |-> Exts(x)][blk[p]]
      BY <3>1
    <3>3. \E S \in SUBSET [x \in Blocks |-> Exts(x)][blk[p]] : Ledger!Publish(blk[p], S)
      BY <3>1, <3>2 DEF Ledger!Publish
    <3>. QED
      BY <3>1, <3>3 DEF Ledger!Next, Blocks, Ledger!Publish
  <2>4. CASE \A p \in Procs : ~WriteRows(p) /\ ~Notify(p) /\ ~AddHistory(p)
    BY <2>4, OthersStutter DEF Ledger!Next, Ledger!vars, Published
  <2>. QED
    BY <2>1, <2>2, <2>3, <2>4
<1>. QED
  BY <1>1, <1>2, TypeAndJobs, AlwaysBehindHead, PTL DEF Spec, ImplementsLedger, Ledger!Spec

-----------------------------------------------------------------------------
(* The daemon alone. *)

\* What it stores is what it has just read to be missing.
ReadIsFresh ==
    /\ raced = {}
    /\ pc[Live] = "write" => seen[Live] = RowsOf(blk[Live])

\* Without a backfill no block is stored from a stale read.
THEOREM DaemonNeverRaces ==
    ASSUME Backfills = {}
    PROVE  Spec => []NeverRaced
<1>1. Init => ReadIsFresh
  BY DEF Init, ReadIsFresh, Procs
<1>2. TypeOK /\ JobInv /\ ReadIsFresh /\ [Next]_vars => ReadIsFresh'
  <2> SUFFICES ASSUME TypeOK, JobInv, ReadIsFresh, [Next]_vars
               PROVE  ReadIsFresh'
    OBVIOUS
  <2> USE DEF TypeOK, ReadIsFresh, Goto, RowsOf, Procs
  <2>1. CASE WriteRows(Live)
    <3>1. \A h \in Fresh(Live) : rows[h] # blk[Live]
      <4>1. Fresh(Live) \subseteq Hashes
        BY <2>1, StoreJobTyped, ExtsAreHashes DEF StoreBlock, Fresh
      <4>. QED
        BY <2>1, <4>1 DEF WriteRows, Fresh
    <3>. QED
      BY <2>1, <3>1 DEF WriteRows
  <2>2. CASE ReadExisting(Live)
    BY <2>2 DEF ReadExisting, database, observed
  <2>3. CASE UNCHANGED vars \/ GrowChain \/ LiveLoop
    BY <2>3 DEF vars, GrowChain, LiveLoop, StartLive, ConnectLive, PollFails, PollHead, RangeDone,
                database, job, observed
  <2>4. CASE NextBlock(Live) \/ Raise(Live) \/ Crash(Live)
    BY <2>4 DEF NextBlock, Raise, RaiseOutOfBlock, Crash, database, observed
  <2>5. CASE IngestBlock(Live) \/ BlockUnavailable(Live) \/ Notify(Live) \/ NotifyEvents(Live)
    BY <2>5 DEF IngestBlock, BlockUnavailable, Notify, NotifyEvents, LeaveBlock, database, job,
                observed
  <2>6. CASE GetOrCreateParam(Live) \/ SaveParam(Live) \/ AddHistory(Live)
    BY <2>6 DEF GetOrCreateParam, SaveParam, AddHistory, job, observed
  <2>. HIDE DEF TypeOK, ReadIsFresh
  <2>. QED
    BY <2>1, <2>2, <2>3, <2>4, <2>5, <2>6 DEF Next, StoreBlock
<1>. QED
  BY <1>1, <1>2, TypeAndJobs, PTL DEF Spec, NeverRaced, ReadIsFresh

\* No hyperparameter comes from a block after the one being stored, nor from
\* one after a block still to be stored.
Ascending ==
    /\ pc[Live] \in {"off", "connect", "poll"} => todo[Live] = {}
    /\ \A b \in todo[Live] : blk[Live] < b
    /\ \A q \in Params :
         /\ hyper[q].block <= head
         /\ \A b \in todo[Live] : hyper[q].block <= b
         /\ blk[Live] # 0 => hyper[q].block <= blk[Live]
         /\ todo[Live] = {} /\ blk[Live] = 0 /\ lastProcessed # -1 =>
              hyper[q].block <= lastProcessed

\* Only the daemon's two saves change a hyperparameter, to the current block.
LEMMA SaveIsNewer ==
    ASSUME TypeOK, JobInv, BehindHead, Ascending,
           GetOrCreateParam(Live) \/ SaveParam(Live)
    PROVE  Ascending' /\ \A q \in Params : hyper'[q].block >= hyper[q].block
<1>1. blk[Live] \in Blocks /\ blk[Live] <= head
  BY StoreJobTyped DEF StoreBlock, Procs, BehindHead
<1>2. UNCHANGED <<head, todo, blk, lastProcessed>> /\ pc'[Live] \in {"save", "history"}
  BY DEF GetOrCreateParam, SaveParam, job, Goto, TypeOK, Procs
<1>3. \A q \in Params : hyper'[q].block = hyper[q].block \/ hyper'[q].block = blk[Live]
  <2>1. UNCHANGED hyper \/ hyper' = [hyper EXCEPT ![CurrentParam(Live)] =
                                       [value |-> Current(Live), block |-> blk[Live]]]
    BY DEF GetOrCreateParam, SaveParam
  <2>2. hyper \in [Params -> [value : Hashes \cup {None}, block : 0..MaxBlock]]
    BY DEF TypeOK
  <2>3. CASE UNCHANGED hyper
    BY ONLY <2>3
  <2>4. CASE hyper' = [hyper EXCEPT ![CurrentParam(Live)] =
                         [value |-> Current(Live), block |-> blk[Live]]]
    BY ONLY <2>2, <2>4
  <2>. QED
    BY <2>1, <2>3, <2>4
<1>4. \A q \in Params : hyper[q].block \in Nat
  BY IngestAssumption DEF TypeOK
<1>5. \A b \in todo[Live] : b \in Nat /\ blk[Live] < b
  BY DEF Ascending, TypeOK, Blocks, Procs
<1>. QED
  BY <1>1, <1>2, <1>3, <1>4, <1>5 DEF Ascending, Blocks

\* Every other step keeps the order: blocks are taken smallest first, and the
\* daemon leaves a block only by making it the last one processed.
LEMMA StaysAscending ==
    ASSUME Backfills = {}, TypeOK, JobInv, BehindHead, Ascending, [Next]_vars
    PROVE  Ascending' /\ [\A x \in Params : hyper'[x].block >= hyper[x].block]_hyper
<1> USE DEF Procs
<1>1. /\ JobOf(Live)
      /\ head \in Nat /\ blk[Live] \in Nat /\ todo[Live] \subseteq Nat /\ lastProcessed \in Int
      /\ \A q \in Params : hyper[q].block \in Nat
  BY IngestAssumption DEF TypeOK, JobInv, Blocks
<1>2. CASE GetOrCreateParam(Live) \/ SaveParam(Live)
  BY <1>2, SaveIsNewer
<1>3. CASE UNCHANGED <<hyper, head, todo, blk, lastProcessed>>
            /\ (pc'[Live] \in {"off", "connect", "poll"} => todo[Live] = {})
  BY <1>3 DEF Ascending
<1>4. CASE GrowChain
  <2>1. head' = head + 1 /\ UNCHANGED <<hyper, pc, todo, blk, lastProcessed>>
    BY <1>4 DEF GrowChain, database, job
  <2>. QED
    BY <1>1, <2>1 DEF Ascending
<1>5. CASE PollHead
  <2> DEFINE after == IF lastProcessed = -1 THEN head - 1 ELSE lastProcessed
  <2>1. /\ pc[Live] = "poll" /\ pc'[Live] = "loop" /\ UNCHANGED <<hyper, head, blk>>
        /\ lastProcessed' = after /\ todo'[Live] = (after + 1)..head /\ after < head
    BY <1>5 DEF PollHead, Goto, TypeOK, database, job
  <2>2. todo[Live] = {} /\ blk[Live] = 0
    BY <1>1, <2>1 DEF Ascending, JobOf, InBlock
  <2>3. \A b \in todo'[Live] : 0 < b /\ after < b /\ b <= head /\ b \in Int
    <3>1. after \in -1..head /\ after + 1 > 0
      BY <1>1, <2>1 DEF TypeOK, Blocks
    <3>. HIDE DEF after
    <3>. QED
      BY <1>1, <2>1, <3>1
  <2>4. head \in todo'[Live]
    BY <1>1, <2>1
  <2>5. ASSUME NEW q \in Params, NEW b \in todo'[Live]
        PROVE  hyper[q].block <= b
    <3>1. CASE lastProcessed = -1
      BY <1>1, <2>1, <2>3, <3>1 DEF Ascending
    <3>2. CASE lastProcessed # -1
      BY <1>1, <2>1, <2>2, <2>3, <3>2 DEF Ascending
    <3>. QED
      BY <3>1, <3>2
  <2>. QED
    BY <1>1, <2>1, <2>2, <2>3, <2>4, <2>5 DEF Ascending
<1>6. CASE NextBlock(Live)
  <2>1. /\ pc'[Live] = "ingest" /\ UNCHANGED <<hyper, head, lastProcessed>>
        /\ todo[Live] # {} /\ blk'[Live] = Smallest(todo[Live])
        /\ todo'[Live] = todo[Live] \ {Smallest(todo[Live])}
    BY <1>6 DEF NextBlock, Goto, TypeOK, database
  <2>2. /\ Smallest(todo[Live]) \in todo[Live] /\ Smallest(todo[Live]) # 0
        /\ \A b \in todo[Live] : Smallest(todo[Live]) <= b
    <3>1. 0 \notin todo[Live]
      BY <1>1 DEF TypeOK, Blocks
    <3>. QED
      BY <1>1, <2>1, <3>1, SmallestIsLeast
  <2>. QED
    BY <1>1, <2>1, <2>2 DEF Ascending
<1>7. CASE \/ BlockUnavailable(Live) \/ Raise(Live)
           \/ (Notify(Live) \/ NotifyEvents(Live)) /\ LeaveBlock(Live)
  <2>1. blk[Live] \in Blocks
    BY <1>7, StoreJobTyped DEF StoreBlock
  <2>2. /\ UNCHANGED <<hyper, head>> /\ blk'[Live] = 0 /\ lastProcessed' = blk[Live]
        /\ \/ todo' = todo /\ pc'[Live] = "loop"
           \/ todo'[Live] = {}
    BY <1>7 DEF BlockUnavailable, Raise, Notify, NotifyEvents, LeaveBlock, RaiseOutOfBlock, ClearJob,
                Goto, TypeOK, database
  <2>. QED
    BY <1>1, <2>1, <2>2 DEF Ascending, Blocks
<1>8. CASE Crash(Live)
  <2>1. /\ UNCHANGED <<hyper, head>> /\ blk'[Live] = 0 /\ lastProcessed' = -1
        /\ todo'[Live] = {} /\ pc'[Live] = "off"
    BY <1>8 DEF Crash, ClearJob, Goto, TypeOK, database
  <2>. QED
    BY <1>1, <2>1 DEF Ascending
<1>9. CASE StartLive \/ ConnectLive \/ PollFails \/ RangeDone
  BY <1>3, <1>9 DEF StartLive, ConnectLive, PollFails, RangeDone, Ascending, database, job
<1>10. CASE IngestBlock(Live) \/ ReadExisting(Live) \/ WriteRows(Live) \/ AddHistory(Live)
  BY <1>3, <1>10 DEF IngestBlock, ReadExisting, WriteRows, AddHistory, TypeOK, Goto, database, job
<1>11. CASE Notify(Live) /\ ~LeaveBlock(Live)
  BY <1>3, <1>11 DEF Notify, TypeOK, Goto, database, job
<1>12. CASE UNCHANGED vars
  BY <1>3, <1>12 DEF vars, Ascending, database, job
<1>13. CASE NotifyEvents(Live)
  BY <1>7, <1>13 DEF NotifyEvents
<1>. QED
  BY <1>2, <1>4, <1>5, <1>6, <1>7, <1>8, <1>9, <1>10, <1>11, <1>12, <1>13
  DEF Next, LiveLoop, StoreBlock

\* Without a backfill, a hyperparameter is never replaced by the value of an
\* older block, whatever failures and restarts the daemon goes through.
THEOREM DaemonGoesForward ==
    ASSUME Backfills = {}
    PROVE  Spec => HyperparamNeverOlder
<1>1. Init => Ascending
  BY DEF Init, Ascending, Procs
<1>2. TypeOK /\ JobInv /\ BehindHead /\ Ascending /\ [Next]_vars =>
        Ascending' /\ [\A x \in Params : hyper'[x].block >= hyper[x].block]_hyper
  BY StaysAscending
<1>. QED
  BY <1>1, <1>2, TypeAndJobs, AlwaysBehindHead, PTL DEF Spec, HyperparamNeverOlder

-----------------------------------------------------------------------------
(* The daemon's walk along the chain, whatever the backfills do. *)

\* The daemon's work list is the range of blocks right after b.
RangeAfter(b) == \E m \in b..head : todo[Live] = (b + 1)..m

\* The work list always starts where the daemon is: after the last block between
\* two blocks, after the current one inside a block, which follows the last one.
InStep ==
    /\ pc[Live] \in {"off", "connect", "poll"} => todo[Live] = {}
    /\ pc[Live] = "loop" => lastProcessed # -1 /\ RangeAfter(lastProcessed)
    /\ pc[Live] \in InBlock =>
         lastProcessed # -1 /\ blk[Live] = lastProcessed + 1 /\ RangeAfter(blk[Live])

\* What the walk and InStep speak of.
WalkSeen == <<head, lastProcessed, pc[Live], todo[Live], blk[Live]>>

\* A backfill, running the same code, touches none of it.
LEMMA BackfillsLeaveTheWalk ==
    ASSUME TypeOK, NEW p \in Backfills,
           BackfillLoop(p) \/ NextBlock(p) \/ StoreBlock(p) \/ Raise(p) \/ Crash(p)
    PROVE  UNCHANGED WalkSeen
<1>1. p # Live /\ p \in Procs /\ Live \in Procs
  BY IngestAssumption DEF Procs
<1>2. ASSUME LeaveBlock(p) \/ RaiseOutOfBlock(p)
      PROVE  UNCHANGED WalkSeen
  BY <1>1, <1>2 DEF LeaveBlock, RaiseOutOfBlock, ClearJob, Goto, TypeOK, WalkSeen
<1>3. CASE BackfillLoop(p)
  BY <1>1, <1>3 DEF BackfillLoop, StartBackfill, StartBackfillOf, FindMissing, BackfillDone, Goto,
                    TypeOK, job, WalkSeen
<1>4. CASE NextBlock(p) \/ Crash(p)
  BY <1>1, <1>4 DEF NextBlock, Crash, ClearJob, Goto, TypeOK, WalkSeen
<1>5. CASE IngestBlock(p) \/ ReadExisting(p) \/ WriteRows(p)
  BY <1>1, <1>5 DEF IngestBlock, ReadExisting, WriteRows, Goto, TypeOK, job, WalkSeen
<1>6. CASE GetOrCreateParam(p) \/ SaveParam(p) \/ AddHistory(p)
  BY <1>1, <1>6 DEF GetOrCreateParam, SaveParam, AddHistory, Goto, TypeOK, job, WalkSeen
<1>7. CASE BlockUnavailable(p) \/ NotifyEvents(p) \/ Raise(p)
  BY <1>2, <1>7 DEF BlockUnavailable, NotifyEvents, Raise
<1>8. CASE Notify(p)
  BY <1>1, <1>2, <1>8 DEF Notify, Goto, TypeOK, job, WalkSeen
<1>. QED
  BY <1>3, <1>4, <1>5, <1>6, <1>7, <1>8 DEF StoreBlock

\* Each step of the daemon is a step of the walk or none, and stays in step.
LEMMA StepsAlongTheChain ==
    ASSUME TypeOK, JobInv, InStep, [Next]_vars
    PROVE  InStep' /\ [Walk!Next]_(Walk!vars)
<1> USE DEF Walk!Next, Walk!vars
<1>1. /\ Live \in Procs
      /\ head \in Nat /\ head > 0 /\ head <= MaxBlock /\ MaxBlock \in Nat
      /\ lastProcessed \in Int /\ lastProcessed >= -1 /\ blk[Live] \in Nat
      /\ todo[Live] \subseteq Nat
      /\ pc[Live] \in InBlock <=> blk[Live] # 0
  BY IngestAssumption DEF TypeOK, Blocks, Procs, JobInv, JobOf
<1>2. CASE UNCHANGED WalkSeen
  BY <1>2 DEF WalkSeen, InStep, RangeAfter
<1>3. CASE GrowChain
  <2>1. head' = head + 1 /\ head < MaxBlock /\ UNCHANGED <<lastProcessed, pc, todo, blk>>
    BY <1>3 DEF GrowChain, job
  <2>2. ASSUME NEW b \in Nat, RangeAfter(b)
        PROVE  RangeAfter(b)'
    BY <1>1, <2>1, <2>2 DEF RangeAfter
  <2>3. Walk!Grow
    BY <2>1 DEF Walk!Grow
  <2>. QED
    BY <1>1, <2>1, <2>2, <2>3 DEF InStep
<1>4. CASE PollHead
  <2> DEFINE after == IF lastProcessed = -1 THEN head - 1 ELSE lastProcessed
  <2>1. /\ pc[Live] = "poll" /\ pc'[Live] = "loop" /\ UNCHANGED <<head, blk>> /\ after < head
        /\ lastProcessed' = after /\ todo'[Live] = (after + 1)..head
    BY <1>1, <1>4 DEF PollHead, Goto, TypeOK, job
  <2>2. after \in Nat
    BY <1>1
  <2>3. RangeAfter(after)'
    BY <1>1, <2>1, <2>2 DEF RangeAfter
  <2>4. Walk!Begin \/ UNCHANGED <<head, lastProcessed, blk>>
    BY <1>1, <2>1 DEF Walk!Begin, InBlock
  <2>. QED
    BY <1>1, <2>1, <2>2, <2>3, <2>4 DEF InStep, InBlock
<1>5. CASE NextBlock(Live)
  <2>1. /\ pc[Live] = "loop" /\ pc'[Live] = "ingest" /\ UNCHANGED <<head, lastProcessed>>
        /\ todo[Live] # {} /\ blk'[Live] = Smallest(todo[Live])
        /\ todo'[Live] = todo[Live] \ {Smallest(todo[Live])}
    BY <1>1, <1>5 DEF NextBlock, Goto, TypeOK
  <2>2. lastProcessed \in Nat /\ RangeAfter(lastProcessed)
    BY <1>1, <2>1 DEF InStep
  <2>3. PICK m \in lastProcessed..head : todo[Live] = (lastProcessed + 1)..m
    BY <2>2 DEF RangeAfter
  <2>4. Smallest(todo[Live]) = lastProcessed + 1 /\ m \in (lastProcessed + 1)..head
    <3>1. lastProcessed + 1 \in todo[Live] /\ m \in (lastProcessed + 1)..head
      BY <1>1, <2>1, <2>2, <2>3
    <3>2. Smallest(todo[Live]) \in todo[Live] /\ \A y \in todo[Live] : Smallest(todo[Live]) <= y
      BY <1>1, <2>1, SmallestIsLeast
    <3>3. Smallest(todo[Live]) \in (lastProcessed + 1)..m /\ Smallest(todo[Live]) <= lastProcessed + 1
      BY <2>3, <3>1, <3>2
    <3>. QED
      BY <2>2, <3>1, <3>3
  <2>5. todo'[Live] = (lastProcessed + 1 + 1)..m
    BY <1>1, <2>1, <2>2, <2>3, <2>4
  <2>6. RangeAfter(lastProcessed + 1)'
    BY <2>1, <2>4, <2>5 DEF RangeAfter
  <2>7. Walk!Take
    BY <1>1, <2>1, <2>2, <2>4 DEF Walk!Take, InBlock
  <2>. QED
    BY <2>1, <2>2, <2>4, <2>6, <2>7 DEF InStep, InBlock
<1>6. CASE \/ BlockUnavailable(Live) \/ Raise(Live)
           \/ (Notify(Live) \/ NotifyEvents(Live)) /\ LeaveBlock(Live)
  <2>1. pc[Live] \in InBlock
    BY <1>6 DEF BlockUnavailable, Raise, Notify, NotifyEvents, InBlock
  <2>2. lastProcessed # -1 /\ blk[Live] = lastProcessed + 1 /\ RangeAfter(blk[Live])
    BY <2>1 DEF InStep
  <2>3. /\ head' = head /\ lastProcessed' = blk[Live] /\ blk'[Live] = 0
        /\ \/ todo' = todo /\ pc'[Live] = "loop"
           \/ todo'[Live] = {} /\ pc'[Live] = "connect"
    BY <1>1, <1>6 DEF BlockUnavailable, Raise, Notify, NotifyEvents, LeaveBlock, RaiseOutOfBlock,
                      ClearJob, Goto, TypeOK
  <2>4. Walk!Pass
    BY <1>1, <2>1, <2>3 DEF Walk!Pass
  <2>5. todo' = todo => RangeAfter(lastProcessed)'
    BY <2>2, <2>3 DEF RangeAfter
  <2>. QED
    BY <1>1, <2>1, <2>3, <2>4, <2>5 DEF InStep, InBlock
<1>7. CASE Crash(Live)
  <2>1. /\ head' = head /\ lastProcessed' = -1 /\ blk'[Live] = 0
        /\ todo'[Live] = {} /\ pc'[Live] = "off"
    BY <1>1, <1>7 DEF Crash, ClearJob, Goto, TypeOK
  <2>. QED
    BY <2>1 DEF InStep, InBlock, Walk!Forget
<1>8. CASE StartLive \/ ConnectLive \/ PollFails \/ RangeDone
  <2>1. /\ UNCHANGED <<head, lastProcessed, blk>> /\ todo[Live] = {} /\ todo' = todo
        /\ pc'[Live] \in {"connect", "poll"}
    BY <1>1, <1>8 DEF StartLive, ConnectLive, PollFails, RangeDone, Goto, TypeOK, InStep, job
  <2>. QED
    BY <2>1 DEF InStep, InBlock
<1>9. CASE \/ IngestBlock(Live) \/ ReadExisting(Live) \/ WriteRows(Live)
           \/ GetOrCreateParam(Live) \/ SaveParam(Live) \/ AddHistory(Live)
           \/ Notify(Live) /\ ~LeaveBlock(Live)
  <2>1. /\ UNCHANGED <<head, lastProcessed, todo, blk>>
        /\ pc[Live] \in InBlock /\ pc'[Live] \in InBlock
    <3>1. CASE IngestBlock(Live) \/ ReadExisting(Live) \/ WriteRows(Live)
      BY <1>1, <3>1 DEF IngestBlock, ReadExisting, WriteRows, Goto, TypeOK, job, InBlock
    <3>2. CASE GetOrCreateParam(Live) \/ SaveParam(Live) \/ AddHistory(Live)
      BY <1>1, <3>2 DEF GetOrCreateParam, SaveParam, AddHistory, Goto, TypeOK, job, InBlock
    <3>3. CASE Notify(Live) /\ ~LeaveBlock(Live)
      BY <1>1, <3>3 DEF Notify, Goto, TypeOK, job, InBlock
    <3>. QED
      BY <1>9, <3>1, <3>2, <3>3
  <2>. QED
    BY <2>1 DEF InStep, RangeAfter, InBlock
<1>10. CASE \E p \in Backfills : \/ BackfillLoop(p) \/ NextBlock(p) \/ StoreBlock(p)
                                \/ Raise(p) \/ Crash(p)
  BY <1>2, <1>10, BackfillsLeaveTheWalk
<1>11. CASE UNCHANGED vars
  BY <1>2, <1>11 DEF vars, job, WalkSeen
<1>12. CASE NotifyEvents(Live)
  BY <1>6, <1>12 DEF NotifyEvents
<1>13. CASE \E p \in Procs : NextBlock(p) \/ StoreBlock(p) \/ Raise(p) \/ Crash(p)
  <2>1. PICK p \in Procs : NextBlock(p) \/ StoreBlock(p) \/ Raise(p) \/ Crash(p)
    BY <1>13
  <2>2. CASE p \in Backfills
    BY <1>10, <2>1, <2>2
  <2>3. CASE p = Live
    BY <1>5, <1>6, <1>7, <1>9, <1>12, <2>1, <2>3 DEF StoreBlock
  <2>. QED
    BY <2>2, <2>3 DEF Procs
<1>. QED
  BY <1>3, <1>4, <1>8, <1>10, <1>11, <1>13 DEF Next, LiveLoop

\* The daemon implements the walk, with any number of backfills and whatever
\* fails: no block is passed twice, jumped over, or taken before it exists.
THEOREM DaemonWalksTheChain == Spec => WalksTheChain
<1>1. Init => InStep /\ Walk!Init
  BY DEF Init, InStep, InBlock, Walk!Init, Procs
<1>. QED
  BY <1>1, StepsAlongTheChain, TypeAndJobs, PTL DEF Spec, WalksTheChain, Walk!Spec

\* A process that is done with a block finds all of it in the table: what it
\* did not write itself was there when it looked.
LEMMA DoneMeansStored ==
    ASSUME TypeOK, JobInv, NEW p \in Procs, Notify(p) \/ NotifyEvents(p), NEW h \in Exts(blk[p])
    PROVE  blk[p] \in Blocks /\ rows[h] # 0
<1>1. blk[p] \in Blocks
  BY StoreJobTyped DEF StoreBlock
<1>2. pc[p] \in AfterWrite /\ pc[p] \in AfterRead
  BY DEF Notify, NotifyEvents, AfterWrite, AfterRead
<1>3. seen[p] \subseteq RowsOf(blk[p]) /\ \A x \in Fresh(p) : rows[x] # 0
  BY <1>2 DEF JobInv, JobOf
<1>4. CASE h \in seen[p]
  BY <1>1, <1>3, <1>4 DEF RowsOf, Blocks
<1>5. CASE h \notin seen[p]
  BY <1>1, <1>3, <1>5 DEF Fresh
<1>. QED
  BY <1>4, <1>5, <1>1

\* The daemon moves on from a block only when all of it is stored, when it
\* could not be read, or when an exception made it give the block up.
THEOREM NothingPassedUnstored == Spec => PassedIsStored
<1>1. ASSUME TypeOK, JobInv, [Next]_vars,
             lastProcessed # -1, lastProcessed' > lastProcessed,
             pc[Live] # "ingest", pc'[Live] # "connect",
             NEW h \in Exts(lastProcessed')
      PROVE  rows'[h] # 0
  <2>1. Live \in Procs /\ lastProcessed \in -1..MaxBlock /\ MaxBlock \in Nat
    BY <1>1, IngestAssumption DEF TypeOK, Procs
  <2>2. (Notify(Live) \/ NotifyEvents(Live)) /\ LeaveBlock(Live)
    <3>1. lastProcessed' # lastProcessed /\ lastProcessed' # -1
      BY <1>1, <2>1
    <3>2. ~UNCHANGED vars /\ ~GrowChain
      BY <3>1 DEF vars, GrowChain
    <3>3. ~LiveLoop
      BY <1>1, <3>1 DEF LiveLoop, StartLive, ConnectLive, PollFails, PollHead, RangeDone
    <3>4. ~\E p \in Backfills : \/ BackfillLoop(p) \/ NextBlock(p) \/ StoreBlock(p)
                               \/ Raise(p) \/ Crash(p)
      BY <1>1, <3>1, BackfillsLeaveTheWalk DEF WalkSeen
    <3>5. NextBlock(Live) \/ StoreBlock(Live) \/ Raise(Live) \/ Crash(Live)
      BY <1>1, <3>2, <3>3, <3>4 DEF Next, Procs
    <3>6. ~NextBlock(Live) /\ ~Crash(Live) /\ ~Raise(Live) /\ ~BlockUnavailable(Live)
      BY <1>1, <2>1, <3>1 DEF NextBlock, Crash, Raise, RaiseOutOfBlock, BlockUnavailable, Goto, TypeOK
    <3>7. /\ ~IngestBlock(Live) /\ ~ReadExisting(Live) /\ ~WriteRows(Live)
          /\ ~GetOrCreateParam(Live) /\ ~SaveParam(Live) /\ ~AddHistory(Live)
      BY <3>1 DEF IngestBlock, ReadExisting, WriteRows, GetOrCreateParam, SaveParam, AddHistory
    <3>. QED
      BY <3>1, <3>5, <3>6, <3>7 DEF StoreBlock, Notify, NotifyEvents
  <2>3. lastProcessed' = blk[Live] /\ rows' = rows
    BY <2>2 DEF Notify, NotifyEvents, LeaveBlock, database
  <2>. QED
    BY <1>1, <2>1, <2>2, <2>3, DoneMeansStored DEF Exts
<1>2. TypeOK /\ JobInv /\ [Next]_vars =>
        [/\ lastProcessed # -1 /\ lastProcessed' > lastProcessed
         /\ pc[Live] # "ingest" /\ pc'[Live] # "connect"
         => \A h \in Exts(lastProcessed') : rows'[h] # 0]_vars
  BY <1>1
<1>. QED
  BY <1>2, TypeAndJobs, PTL DEF Spec, PassedIsStored
=============================================================================
