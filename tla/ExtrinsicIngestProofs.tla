----------------------- MODULE ExtrinsicIngestProofs -----------------------
(* Proofs about ExtrinsicIngest, for every chain and any number of backfills: types and  *)
(* jobs, blocks stored as a whole, and what is stored sent once unless processes raced.  *)
EXTENDS ExtrinsicIngest, WellFoundedInduction, TLAPS

-----------------------------------------------------------------------------
(* Facts about the helpers. *)

\* min(todo): a set of naturals has a least element, which the loops take next.
LEMMA SmallestIsLeast ==
    ASSUME NEW S \in SUBSET Nat, S # {}
    PROVE  Smallest(S) \in S /\ \A y \in S : Smallest(S) <= y
<1>. DEFINE R == OpToRel(<, Nat)
<1>1. IsWellFoundedOn(R, Nat)
  BY NatLessThanWellFounded
<1>2. \A x, y \in Nat : y < x => <<y, x>> \in R
  BY DEF OpToRel
<1>. HIDE DEF R
<1>3. PICK x \in S : \A y \in S : <<y, x>> \notin R
  BY <1>1, WFMin
<1>4. ASSUME NEW y \in S
      PROVE  x <= y
  <2>1. x \in Nat /\ y \in Nat /\ <<y, x>> \notin R
    BY <1>3
  <2>2. ~(y < x)
    BY <1>2, <2>1
  <2>. QED
    BY <2>1, <2>2
<1>. QED
  BY <1>4 DEF Smallest

\* The extrinsics of a block are a sequence of hashes.
LEMMA ExtsAreHashes ==
    ASSUME NEW b \in Blocks
    PROVE  /\ Exts(b) \subseteq Hashes
           /\ DOMAIN BlockExts[b] \subseteq Nat
           /\ \A i \in DOMAIN BlockExts[b] : BlockExts[b][i] \in Exts(b)
<1>1. BlockExts[b] \in Seq(Hashes)
  BY IngestAssumption
<1>. QED
  BY <1>1 DEF Exts

-----------------------------------------------------------------------------
(* What a process knows at each of its steps. *)

InBlock == {"ingest", "read", "write", "enrich", "save", "history", "events"}
AfterRead == {"write", "enrich", "save", "history", "events"}
AfterWrite == {"enrich", "save", "history", "events"}

JobOf(p) ==
    /\ pc[p] \in InBlock <=> blk[p] # 0
    /\ pc[p] \in {"save", "history"} => pend[p] # {}
    /\ pend[p] # {} => pc[p] \in AfterWrite /\ pend[p] \subseteq ParamChanges(blk[p], Fresh(p))
    /\ pc[p] \in AfterRead => seen[p] \subseteq RowsOf(blk[p])
    /\ pc[p] \in AfterWrite => \A h \in Fresh(p) : rows[h] # 0

JobInv == \A p \in Procs : JobOf(p)

\* The extrinsic being enriched is one the process stored, and sets a parameter.
LEMMA CurrentIsFresh ==
    ASSUME TypeOK, NEW p \in Procs, JobOf(p), pend[p] # {}
    PROVE  /\ blk[p] \in Blocks
           /\ Smallest(pend[p]) \in pend[p]
           /\ Current(p) \in Fresh(p) /\ Current(p) \in Hashes
           /\ CurrentParam(p) \in Params
<1>1. blk[p] \in Blocks
  BY DEF TypeOK, JobOf, AfterWrite, InBlock, Blocks
<1>2. Smallest(pend[p]) \in pend[p]
  BY SmallestIsLeast DEF TypeOK
<1>3. Smallest(pend[p]) \in ParamChanges(blk[p], Fresh(p))
  BY <1>2 DEF JobOf
<1>4. Current(p) \in Fresh(p) /\ ParamOf[Current(p)] # None
  BY <1>3 DEF ParamChanges, Current
<1>5. Current(p) \in Hashes
  BY <1>1, <1>4, ExtsAreHashes DEF Fresh
<1>. QED
  BY <1>1, <1>2, <1>4, <1>5, IngestAssumption DEF CurrentParam

\* Rows once stored are never changed: no step but WriteRows touches the table,
\* and bulk_create(ignore_conflicts=True) leaves existing hashes alone.
RowsKept == \A h \in Hashes : rows[h] # 0 => rows'[h] = rows[h]

LEMMA NextKeepsRows ==
    ASSUME TypeOK, [Next]_vars
    PROVE  RowsKept
<1>1. rows' = rows \/ \E p \in Procs : WriteRows(p)
  BY DEF Next, vars, database, GrowChain, LiveLoop, StartLive, ConnectLive, PollFails,
         PollHead, RangeDone, BackfillLoop, StartBackfill, StartBackfillOf, FindMissing,
         BackfillDone, NextBlock, StoreBlock, IngestBlock, BlockUnavailable, ReadExisting,
         GetOrCreateParam, SaveParam, AddHistory, Notify, NotifyEvents, Raise,
         RaiseOutOfBlock, Crash
<1>2. ASSUME NEW p \in Procs, WriteRows(p) PROVE RowsKept
  <2>1. rows' = [h \in Hashes |-> IF h \in Fresh(p) /\ rows[h] = 0 THEN blk[p] ELSE rows[h]]
    BY <1>2 DEF WriteRows
  <2>. QED
    BY ONLY <2>1 DEF RowsKept
<1>. QED
  BY <1>1, <1>2 DEF RowsKept

Untouched(p) ==
    pc'[p] = pc[p] /\ blk'[p] = blk[p] /\ seen'[p] = seen[p] /\ pend'[p] = pend[p]

\* A process that does not move keeps its knowledge whatever the others do.
LEMMA JobStable ==
    ASSUME TypeOK, NEW p \in Procs, JobOf(p), RowsKept, Untouched(p)
    PROVE  JobOf(p)'
<1>1. Fresh(p)' = Fresh(p)
  BY DEF Fresh, Exts, Untouched
<1>2. pend[p] # {} => (pend[p] \subseteq ParamChanges(blk[p], Fresh(p)))'
  BY <1>1 DEF JobOf, Untouched, ParamChanges
<1>3. pc[p] \in AfterRead => (seen[p] \subseteq RowsOf(blk[p]))'
  <2>1. blk[p] \in 0..MaxBlock /\ (pc[p] \in AfterRead => blk[p] # 0)
    BY DEF TypeOK, JobOf, AfterRead, InBlock
  <2>. QED
    BY <2>1 DEF JobOf, RowsOf, RowsKept, Untouched
<1>4. pc[p] \in AfterWrite => (\A h \in Fresh(p) : rows[h] # 0)'
  <2>1. pc[p] \in AfterWrite => Fresh(p) \subseteq Hashes
    <3>1. pc[p] \in AfterWrite => blk[p] \in Blocks
      BY DEF TypeOK, JobOf, AfterWrite, InBlock, Blocks
    <3>. QED
      BY <3>1, ExtsAreHashes DEF Fresh
  <2>. QED
    BY <1>1, <2>1 DEF JobOf, RowsKept
<1>. QED
  BY <1>2, <1>3, <1>4 DEF JobOf, Untouched

-----------------------------------------------------------------------------
\* Steps that leave the block, or the process: all locals are cleared.
LEMMA JobCleared ==
    ASSUME TypeOK, NEW p \in Procs, ClearJob(p), pc'[p] \notin InBlock
    PROVE  JobOf(p)'
  BY DEF TypeOK, ClearJob, JobOf, InBlock, AfterRead, AfterWrite

\* A step of one process leaves the others alone.
LEMMA OthersKeepJobs ==
    ASSUME TypeOK, JobInv, RowsKept, NEW p \in Procs, JobOf(p)',
           \A r \in Procs \ {p} : Untouched(r)
    PROVE  JobInv'
<1>1. \A r \in Procs \ {p} : JobOf(r)'
  BY JobStable DEF JobInv
<1>. QED
  BY <1>1 DEF JobInv

\* A process that takes a step of store_block_extrinsics is inside a block.
LEMMA StoreJobTyped ==
    ASSUME TypeOK, JobInv, NEW p \in Procs, StoreBlock(p) \/ Raise(p)
    PROVE  blk[p] \in Blocks
  BY DEF TypeOK, JobInv, JobOf, InBlock, AfterWrite, AfterRead, Blocks, StoreBlock,
         IngestBlock, BlockUnavailable, ReadExisting, WriteRows, GetOrCreateParam,
         SaveParam, AddHistory, Notify, NotifyEvents, Raise

\* LeaveBlock and RaiseOutOfBlock keep the types of what they assign.
LEMMA LeavingTyped ==
    ASSUME TypeOK, NEW p \in Procs, blk[p] \in Blocks, LeaveBlock(p) \/ RaiseOutOfBlock(p)
    PROVE  /\ pc' \in [Procs -> {"off", "connect", "poll", "scan", "loop", "ingest", "read",
                                 "write", "enrich", "save", "history", "events"}]
           /\ todo' \in [Procs -> SUBSET Blocks] /\ blk' \in [Procs -> 0..MaxBlock]
           /\ seen' \in [Procs -> SUBSET Hashes] /\ pend' \in [Procs -> SUBSET Nat]
           /\ prev' \in [Procs -> Hashes \cup {None}] /\ lastProcessed' \in -1..MaxBlock
           /\ skipped' \subseteq Blocks /\ head' = head
           /\ pc'[p] \notin InBlock /\ ClearJob(p)
           /\ \A r \in Procs \ {p} : Untouched(r)
<1> USE IngestAssumption DEF TypeOK, Blocks, Goto, InBlock, Untouched
<1>1. ASSUME ClearJob(p)
      PROVE  /\ blk' \in [Procs -> 0..MaxBlock] /\ seen' \in [Procs -> SUBSET Hashes]
             /\ pend' \in [Procs -> SUBSET Nat] /\ prev' \in [Procs -> Hashes \cup {None}]
             /\ \A r \in Procs \ {p} : blk'[r] = blk[r] /\ seen'[r] = seen[r] /\ pend'[r] = pend[r]
  BY <1>1 DEF ClearJob
<1>2. CASE LeaveBlock(p)
  <2>1. lastProcessed' \in -1..MaxBlock
    BY <1>2 DEF LeaveBlock
  <2>. QED
    BY <1>1, <1>2, <2>1 DEF LeaveBlock
<1>3. CASE RaiseOutOfBlock(p) /\ p = Live
  <2>1. /\ ClearJob(p) /\ pc' = [pc EXCEPT ![p] = "connect"]
        /\ todo' = [todo EXCEPT ![p] = {}]
        /\ lastProcessed' = blk[p]
        /\ skipped' = skipped \cup {blk[p]}
        /\ head' = head
    BY <1>3 DEF RaiseOutOfBlock
  <2>2. todo' \in [Procs -> SUBSET Blocks] /\ skipped' \subseteq Blocks
    BY <2>1
  <2>. QED
    BY <1>1, <2>1, <2>2
<1>4. CASE RaiseOutOfBlock(p) /\ p # Live
  <2>1. /\ ClearJob(p) /\ pc' = [pc EXCEPT ![p] = "loop"]
        /\ UNCHANGED <<todo, lastProcessed, skipped, head>>
    BY <1>4 DEF RaiseOutOfBlock
  <2>. QED
    BY <1>1, <2>1
<1>. QED
  BY <1>2, <1>3, <1>4

\* Every variable keeps its type, and a process inside a block knows what its
\* step implies: above all, that what it takes to be new is stored once it is
\* past bulk_create.
THEOREM TypeAndJobs == Spec => [](TypeOK /\ JobInv)
<1>1. Init => TypeOK /\ JobInv
  BY IngestAssumption DEF Init, TypeOK, JobInv, JobOf, Blocks, InBlock, AfterRead, AfterWrite
<1>2. TypeOK /\ JobInv /\ [Next]_vars => TypeOK' /\ JobInv'
  <2> SUFFICES ASSUME TypeOK, JobInv, [Next]_vars
               PROVE  TypeOK' /\ JobInv'
    OBVIOUS
  <2> USE IngestAssumption
  <2>0. RowsKept
    BY NextKeepsRows
  <2>1. ASSUME NEW p \in Procs, IngestBlock(p)
        PROVE  TypeOK' /\ JobInv'
    <3>1. TypeOK' /\ \A r \in Procs \ {p} : Untouched(r)
      BY <2>1 DEF IngestBlock, TypeOK, Goto, database, job, observed, Untouched
    <3>2. JobOf(p)'
      BY <2>1 DEF IngestBlock, TypeOK, Goto, database, job, JobInv, JobOf, InBlock, AfterRead,
                  AfterWrite
    <3>. QED
      BY <2>0, <3>1, <3>2, OthersKeepJobs
  <2>2. ASSUME NEW p \in Procs, BlockUnavailable(p)
        PROVE  TypeOK' /\ JobInv'
    <3>1. blk[p] \in Blocks
      BY <2>2, StoreJobTyped DEF StoreBlock
    <3>2. LeaveBlock(p)
      BY <2>2 DEF BlockUnavailable
    <3>3. TypeOK'
      BY <2>2, <3>1, <3>2, LeavingTyped DEF BlockUnavailable, TypeOK, database
    <3>4. JobOf(p)'
      BY <3>1, <3>2, LeavingTyped, JobCleared
    <3>. QED
      BY <2>0, <3>1, <3>2, <3>3, <3>4, LeavingTyped, OthersKeepJobs
  <2>3. ASSUME NEW p \in Procs, ReadExisting(p)
        PROVE  TypeOK' /\ JobInv'
    <3>1. TypeOK' /\ \A r \in Procs \ {p} : Untouched(r)
      BY <2>3 DEF ReadExisting, TypeOK, Goto, database, observed, Untouched, RowsOf
    <3>2. JobOf(p)'
      BY <2>3 DEF ReadExisting, TypeOK, Goto, database, JobInv, JobOf, InBlock, AfterRead,
                  AfterWrite, RowsOf
    <3>. QED
      BY <2>0, <3>1, <3>2, OthersKeepJobs
  <2>4. ASSUME NEW p \in Procs, WriteRows(p)
        PROVE  TypeOK' /\ JobInv'
    <3>1. blk[p] \in Blocks /\ Fresh(p) \subseteq Hashes
      BY <2>4, StoreJobTyped, ExtsAreHashes DEF StoreBlock, Fresh
    <3>2. ParamChanges(blk[p], Fresh(p)) \subseteq Nat
      BY <3>1, ExtsAreHashes DEF ParamChanges
    <3>3. TypeOK' /\ \A r \in Procs \ {p} : Untouched(r)
      BY <2>4, <3>1, <3>2 DEF WriteRows, TypeOK, Goto, Untouched, Blocks
    <3>4. JobOf(p)'
      <4>1. Fresh(p)' = Fresh(p) /\ blk'[p] = blk[p] /\ seen'[p] = seen[p] /\ pc'[p] = "enrich"
            /\ pend'[p] = ParamChanges(blk[p], Fresh(p))
        <5>1. /\ blk' = blk /\ seen' = seen /\ pc' = [pc EXCEPT ![p] = "enrich"]
              /\ pend' = [pend EXCEPT ![p] = ParamChanges(blk[p], Fresh(p))]
          BY <2>4 DEF WriteRows, Goto
        <5>2. Fresh(p)' = Fresh(p)
          BY <5>1 DEF Fresh, Exts
        <5>. QED
          BY <5>1, <5>2 DEF TypeOK
      <4>2. (pend[p] \subseteq ParamChanges(blk[p], Fresh(p)))'
        BY <4>1 DEF ParamChanges
      <4>3. (seen[p] \subseteq RowsOf(blk[p]))'
        <5>1. seen[p] \subseteq RowsOf(blk[p])
          BY <2>4 DEF WriteRows, JobInv, JobOf, AfterRead
        <5>2. blk[p] # 0
          BY <3>1 DEF Blocks
        <5>3. \A h \in seen[p] : h \in Hashes /\ rows'[h] = blk[p]
          BY <2>0, <5>1, <5>2 DEF RowsOf, RowsKept
        <5>. QED
          BY <4>1, <5>3 DEF RowsOf
      <4>4. (\A h \in Fresh(p) : rows[h] # 0)'
        BY <2>4, <3>1, <4>1 DEF WriteRows, TypeOK, Blocks
      <4>. QED
        BY <3>1, <4>1, <4>2, <4>3, <4>4 DEF JobOf, InBlock, AfterRead, AfterWrite, Blocks
    <3>. QED
      BY <2>0, <3>3, <3>4, OthersKeepJobs
  <2>5. ASSUME NEW p \in Procs, GetOrCreateParam(p)
        PROVE  TypeOK' /\ JobInv'
    <3>1. JobOf(p) /\ pend[p] # {}
      BY <2>5 DEF GetOrCreateParam, JobInv
    <3>2. blk[p] \in Blocks /\ Current(p) \in Hashes /\ CurrentParam(p) \in Params
      BY <3>1, CurrentIsFresh
    <3>3. TypeOK' /\ \A r \in Procs \ {p} : Untouched(r)
      <4>1. CASE hyper[CurrentParam(p)].value = None
        <5>1. hyper' = [hyper EXCEPT ![CurrentParam(p)] = [value |-> Current(p), block |-> blk[p]]]
          BY <2>5, <4>1 DEF GetOrCreateParam
        <5>2. hyper' \in [Params -> [value : Hashes \cup {None}, block : 0..MaxBlock]]
          BY <3>2, <5>1 DEF TypeOK, Blocks
        <5>3. /\ prev' = [prev EXCEPT ![p] = None] /\ pc' = [pc EXCEPT ![p] = "history"]
              /\ UNCHANGED <<head, rows, history, todo, blk, seen, pend, lastProcessed, observed>>
          BY <2>5, <4>1 DEF GetOrCreateParam, Goto
        <5>. QED
          BY <5>2, <5>3 DEF TypeOK, observed, Untouched
      <4>2. CASE hyper[CurrentParam(p)].value # None
        <5>1. hyper[CurrentParam(p)].value \in Hashes \cup {None}
          BY <3>2 DEF TypeOK
        <5>2. /\ prev' = [prev EXCEPT ![p] = hyper[CurrentParam(p)].value]
              /\ pc' = [pc EXCEPT ![p] = "save"]
              /\ UNCHANGED <<head, database, todo, blk, seen, pend, lastProcessed, observed>>
          BY <2>5, <4>2 DEF GetOrCreateParam, Goto, database
        <5>. QED
          BY <5>1, <5>2 DEF TypeOK, database, observed, Untouched
      <4>. QED
        BY <4>1, <4>2
    <3>4. JobOf(p)'
      BY <2>5, <3>1 DEF GetOrCreateParam, TypeOK, Goto, JobOf, InBlock, AfterRead, AfterWrite,
                        RowsOf, Fresh, Exts, ParamChanges
    <3>. QED
      BY <2>0, <3>3, <3>4, OthersKeepJobs
  <2>6. ASSUME NEW p \in Procs, SaveParam(p)
        PROVE  TypeOK' /\ JobInv'
    <3>1. JobOf(p) /\ pend[p] # {}
      BY <2>6 DEF SaveParam, JobInv, JobOf
    <3>2. blk[p] \in Blocks /\ Current(p) \in Hashes /\ CurrentParam(p) \in Params
      BY <3>1, CurrentIsFresh
    <3>3. TypeOK' /\ \A r \in Procs \ {p} : Untouched(r)
      BY <2>6, <3>2 DEF SaveParam, TypeOK, Goto, job, observed, Untouched, Blocks
    <3>4. JobOf(p)'
      BY <2>6, <3>1 DEF SaveParam, TypeOK, Goto, job, JobOf, InBlock, AfterRead, AfterWrite,
                        RowsOf, Fresh, Exts, ParamChanges
    <3>. QED
      BY <2>0, <3>3, <3>4, OthersKeepJobs
  <2>7. ASSUME NEW p \in Procs, AddHistory(p)
        PROVE  TypeOK' /\ JobInv'
    <3>1. JobOf(p) /\ pend[p] # {}
      BY <2>7 DEF AddHistory, JobInv, JobOf
    <3>2. blk[p] \in Blocks /\ Current(p) \in Hashes /\ CurrentParam(p) \in Params
      BY <3>1, CurrentIsFresh
    <3>3. TypeOK' /\ \A r \in Procs \ {p} : Untouched(r)
      BY <2>7, <3>2 DEF AddHistory, TypeOK, Goto, observed, Untouched
    <3>4. JobOf(p)'
      BY <2>7, <3>1 DEF AddHistory, TypeOK, Goto, JobOf, InBlock, AfterRead, AfterWrite,
                        RowsOf, Fresh, Exts, ParamChanges
    <3>. QED
      BY <2>0, <3>3, <3>4, OthersKeepJobs
  <2>8. ASSUME NEW p \in Procs, Notify(p)
        PROVE  TypeOK' /\ JobInv'
    <3>1. blk[p] \in Blocks
      BY <2>8, StoreJobTyped DEF StoreBlock
    <3>2. sends' \in [Blocks -> [Hashes -> 0..2]] /\ eventSends' = eventSends
          /\ rows' = rows /\ hyper' = hyper /\ history' = history /\ raced' = raced
      BY <2>8, <3>1 DEF Notify, TypeOK, More, database
    <3>3. CASE LeaveBlock(p)
      BY <2>0, <3>1, <3>2, <3>3, LeavingTyped, JobCleared, OthersKeepJobs DEF TypeOK
    <3>4. CASE Goto(p, "events") /\ UNCHANGED <<head, todo, job, lastProcessed, skipped>>
      <4>1. TypeOK' /\ \A r \in Procs \ {p} : Untouched(r)
        BY <3>2, <3>4 DEF TypeOK, Goto, job, Untouched
      <4>2. JobOf(p)'
        BY <2>8, <3>2, <3>4 DEF Notify, TypeOK, Goto, job, JobInv, JobOf, InBlock, AfterRead,
                                AfterWrite, RowsOf, Fresh, Exts
      <4>. QED
        BY <2>0, <4>1, <4>2, OthersKeepJobs
    <3>. QED
      BY <2>8, <3>3, <3>4 DEF Notify
  <2>9. ASSUME NEW p \in Procs, NotifyEvents(p)
        PROVE  TypeOK' /\ JobInv'
    <3>1. blk[p] \in Blocks /\ LeaveBlock(p)
      BY <2>9, StoreJobTyped DEF StoreBlock, NotifyEvents
    <3>2. /\ eventSends' \in [Blocks -> 0..2] /\ UNCHANGED <<database, sends, raced>>
      BY <2>9, <3>1 DEF NotifyEvents, TypeOK, More
    <3>3. /\ head' \in Blocks /\ skipped' \subseteq Blocks
          /\ LeaveBlock(p) \/ RaiseOutOfBlock(p)
      BY <3>1, LeavingTyped DEF TypeOK
    <3>4. TypeOK'
      BY <3>1, <3>2, <3>3, LeavingTyped DEF TypeOK, database
    <3>. QED
      BY <2>0, <3>1, <3>4, LeavingTyped, JobCleared, OthersKeepJobs
  <2>10. ASSUME NEW p \in Procs, Raise(p)
         PROVE  TypeOK' /\ JobInv'
    <3>1. blk[p] \in Blocks /\ RaiseOutOfBlock(p)
      BY <2>10, StoreJobTyped DEF Raise
    <3>2. TypeOK'
      BY <3>1, LeavingTyped DEF RaiseOutOfBlock, TypeOK, database
    <3>. QED
      BY <2>0, <3>1, <3>2, LeavingTyped, JobCleared, OthersKeepJobs
  <2>11. ASSUME NEW p \in Procs, Crash(p)
         PROVE  TypeOK' /\ JobInv'
    <3>1. /\ pc' = [pc EXCEPT ![p] = "off"] /\ todo' = [todo EXCEPT ![p] = {}] /\ ClearJob(p)
          /\ lastProcessed' \in {-1, lastProcessed} /\ UNCHANGED <<head, database, observed>>
      BY <2>11 DEF Crash, Goto
    <3>2. pc'[p] \notin InBlock /\ \A r \in Procs \ {p} : Untouched(r)
      BY <3>1 DEF ClearJob, TypeOK, Untouched, InBlock
    <3>3. TypeOK'
      BY <3>1 DEF ClearJob, TypeOK, database, observed
    <3>4. JobOf(p)'
      BY <3>1, <3>2, JobCleared
    <3>. QED
      BY <2>0, <3>2, <3>3, <3>4, OthersKeepJobs
  <2>12. ASSUME NEW p \in Procs, NextBlock(p)
         PROVE  TypeOK' /\ JobInv'
    <3>1. Smallest(todo[p]) \in Blocks
      <4>1. todo[p] \in SUBSET Blocks /\ todo[p] # {}
        BY <2>12 DEF NextBlock, TypeOK
      <4>2. todo[p] \in SUBSET Nat
        BY <4>1 DEF Blocks
      <4>. QED
        BY <4>1, <4>2, SmallestIsLeast
    <3>2. TypeOK' /\ \A r \in Procs \ {p} : Untouched(r)
      <4>1. /\ pc' = [pc EXCEPT ![p] = "ingest"] /\ blk' = [blk EXCEPT ![p] = Smallest(todo[p])]
            /\ todo' = [todo EXCEPT ![p] = todo[p] \ {Smallest(todo[p])}]
            /\ UNCHANGED <<head, database, seen, pend, prev, lastProcessed, observed>>
        BY <2>12 DEF NextBlock, Goto
      <4>2. \A r \in Procs \ {p} : Untouched(r)
        BY <4>1 DEF TypeOK, Untouched
      <4>3. Smallest(todo[p]) \in 0..MaxBlock
        BY <3>1 DEF Blocks
      <4>4. TypeOK'
        BY <4>1, <4>3 DEF TypeOK, database, observed
      <4>. QED
        BY <4>2, <4>4
    <3>3. JobOf(p)'
      <4>1. pend[p] = {}
        BY <2>12 DEF NextBlock, JobInv, JobOf, AfterWrite
      <4>2. pc'[p] = "ingest" /\ blk'[p] = Smallest(todo[p]) /\ pend'[p] = {}
        BY <2>12, <4>1 DEF NextBlock, TypeOK, Goto
      <4>. QED
        BY <3>1, <4>2 DEF JobOf, InBlock, AfterRead, AfterWrite, Blocks
    <3>. QED
      BY <2>0, <3>2, <3>3, OthersKeepJobs
  <2>13. ASSUME LiveLoop
         PROVE  TypeOK' /\ JobInv'
    <3>1. TypeOK' /\ \A r \in Procs \ {Live} : Untouched(r)
      <4>1. CASE PollHead
        <5> DEFINE after == IF lastProcessed = -1 THEN head - 1 ELSE lastProcessed
        <5>1. after \in -1..MaxBlock /\ (after + 1)..head \subseteq Blocks
          BY DEF TypeOK, Blocks
        <5>. QED
          BY <4>1, <5>1 DEF PollHead, TypeOK, Goto, database, job, observed, Untouched
      <4>2. CASE StartLive \/ ConnectLive
        BY <4>2 DEF StartLive, ConnectLive, TypeOK, Goto, database, job, observed, Untouched
      <4>3. CASE PollFails \/ RangeDone
        BY <4>3 DEF PollFails, RangeDone, TypeOK, Goto, database, job, observed, Untouched
      <4>. QED
        BY <2>13, <4>1, <4>2, <4>3 DEF LiveLoop
    <3>2. JobOf(Live)'
      BY <2>13 DEF LiveLoop, StartLive, ConnectLive, PollFails, PollHead, RangeDone, TypeOK,
                   Goto, database, job, JobInv, JobOf, InBlock, AfterRead, AfterWrite, Procs
    <3>. QED
      BY <2>0, <3>1, <3>2, OthersKeepJobs DEF Procs
  <2>14. ASSUME NEW p \in Backfills, BackfillLoop(p)
         PROVE  TypeOK' /\ JobInv'
    <3>1. TypeOK' /\ \A r \in Procs \ {p} : Untouched(r)
      <4>1. CASE StartBackfill(p)
        BY <4>1 DEF StartBackfill, TypeOK, Goto, database, job, observed, Untouched
      <4>2. CASE \E b \in Blocks : StartBackfillOf(p, b)
        <5>1. PICK b \in Blocks : StartBackfillOf(p, b)
          BY <4>2
        <5>. QED
          BY <5>1 DEF StartBackfillOf, TypeOK, Goto, database, job, observed, Untouched
      <4>3. CASE FindMissing(p)
        BY <4>3 DEF FindMissing, TypeOK, Goto, database, job, observed, Untouched
      <4>4. CASE BackfillDone(p)
        BY <4>4 DEF BackfillDone, TypeOK, Goto, database, job, observed, Untouched
      <4>. QED
        BY <2>14, <4>1, <4>2, <4>3, <4>4 DEF BackfillLoop
    <3>2. JobOf(p)'
      BY <2>14 DEF BackfillLoop, StartBackfill, StartBackfillOf, FindMissing, BackfillDone,
                   TypeOK, Goto, database, job, JobInv, JobOf, InBlock, AfterRead, AfterWrite, Procs
    <3>. QED
      BY <2>0, <3>1, <3>2, OthersKeepJobs DEF Procs
  <2>15. CASE GrowChain \/ UNCHANGED vars
    <3>1. TypeOK' /\ \A r \in Procs : Untouched(r)
      <4>1. CASE GrowChain
        BY <4>1 DEF GrowChain, TypeOK, Blocks, database, job, observed, Untouched
      <4>2. CASE UNCHANGED vars
        BY <4>2 DEF vars, TypeOK, database, job, observed, Untouched
      <4>. QED
        BY <2>15, <4>1, <4>2
    <3>. QED
      BY <2>0, <3>1, JobStable DEF JobInv
  <2>. QED
    BY <2>1, <2>2, <2>3, <2>4, <2>5, <2>6, <2>7, <2>8, <2>9, <2>10, <2>11, <2>12, <2>13,
       <2>14, <2>15 DEF Next, StoreBlock
<1>. QED
  BY <1>1, <1>2, PTL DEF Spec

-----------------------------------------------------------------------------
(* Blocks are stored as a whole, and what is stored is sent once unless two  *)
(* processes raced.                                                          *)

Unsent == {"enrich", "save", "history"}

\* A process that has stored block b and has still to send extrinsic h ...
Owes(p, b, h) == blk[p] = b /\ pc[p] \in Unsent /\ h \in Exts(b) \ seen[p]

\* ... or the block-level events of b.
OwesEvents(p, b) == blk[p] = b /\ pc[p] \in AfterWrite /\ seen[p] = {}

Stored(b) == \A h \in Exts(b) : rows[h] # 0

StoredInv ==
    /\ \A h \in Hashes : rows[h] # 0 => h \in Exts(rows[h])
    /\ \A p \in Procs : pc[p] \in AfterWrite => Stored(blk[p])
    /\ \A p \in Procs : pc[p] = "events" => seen[p] = {}
    /\ \A b \in Blocks : ~Gap(b) \/ eventSends[b] > 0 => Stored(b)
    /\ \A b \in Blocks : \A h \in Exts(b) : sends[b][h] > 0 => rows[h] # 0

\* What is stored under its block and was not raced has been sent once, or is
\* owed by one process and has not been sent.
SentInv ==
    \A b \in Blocks : \A h \in Exts(b) :
        b \notin raced /\ rows[h] = b =>
            /\ sends[b][h] <= 1
            /\ \A p \in Procs : Owes(p, b, h) => sends[b][h] = 0
            /\ \A p, r \in Procs : Owes(p, b, h) /\ Owes(r, b, h) => p = r

EventsInv ==
    \A b \in Blocks :
        b \notin raced /\ ~Gap(b) =>
            /\ eventSends[b] <= 1
            /\ \A p \in Procs : OwesEvents(p, b) => eventSends[b] = 0
            /\ \A p, r \in Procs : OwesEvents(p, b) /\ OwesEvents(r, b) => p = r

OnceInv == StoredInv /\ SentInv /\ EventsInv

-----------------------------------------------------------------------------
\* A process keeps its block and what it read, and owes no more than before;
\* or it is not past bulk_create.
NoNewDebt(p) ==
    \/ pc'[p] \notin AfterWrite
    \/ /\ blk'[p] = blk[p] /\ seen'[p] = seen[p]
       /\ pc[p] \in AfterWrite
       /\ pc'[p] \in Unsent => pc[p] \in Unsent
       /\ pc'[p] = "events" => pc[p] = "events"

Quiet ==
    /\ UNCHANGED <<rows, sends, eventSends, raced>>
    /\ \A p \in Procs : NoNewDebt(p)

\* All steps but bulk_create and the two dispatches are quiet.
LEMMA OthersAreQuiet ==
    ASSUME TypeOK, [Next]_vars,
           \A p \in Procs : ~WriteRows(p) /\ ~Notify(p) /\ ~NotifyEvents(p)
    PROVE  Quiet
<1> USE DEF TypeOK, Quiet, NoNewDebt, AfterWrite, Unsent, Goto, ClearJob
<1>1. CASE UNCHANGED vars
  BY <1>1 DEF vars, database, job, observed
<1>2. CASE GrowChain
  BY <1>2 DEF GrowChain, database, job, observed
<1>3. CASE LiveLoop
  BY <1>3 DEF LiveLoop, StartLive, ConnectLive, PollFails, PollHead, RangeDone, database, job,
              observed
<1>4. CASE \E p \in Backfills : BackfillLoop(p)
  BY <1>4 DEF BackfillLoop, StartBackfill, StartBackfillOf, FindMissing, BackfillDone, database,
              job, observed
<1>5. ASSUME NEW p \in Procs, NextBlock(p) \/ Crash(p)
      PROVE  Quiet
  BY <1>5 DEF NextBlock, Crash, database, job, observed
<1>6. ASSUME NEW p \in Procs, Raise(p)
      PROVE  Quiet
  BY <1>6 DEF Raise, RaiseOutOfBlock, database
<1>7. ASSUME NEW p \in Procs, IngestBlock(p) \/ BlockUnavailable(p) \/ ReadExisting(p)
      PROVE  Quiet
  BY <1>7 DEF IngestBlock, BlockUnavailable, ReadExisting, LeaveBlock, database, job, observed
<1>8. ASSUME NEW p \in Procs, GetOrCreateParam(p) \/ SaveParam(p) \/ AddHistory(p)
      PROVE  Quiet
  BY <1>8 DEF GetOrCreateParam, SaveParam, AddHistory, job, observed
<1>. HIDE DEF TypeOK, Quiet
<1>. QED
  BY <1>1, <1>2, <1>3, <1>4, <1>5, <1>6, <1>7, <1>8 DEF Next, StoreBlock

\* Quiet steps preserve the invariant.
LEMMA QuietKeepsOnce ==
    ASSUME TypeOK, OnceInv, Quiet
    PROVE  OnceInv'
<1>1. \A b : (Exts(b)' = Exts(b)) /\ (Gap(b)' <=> Gap(b)) /\ (Stored(b)' <=> Stored(b))
  BY DEF Quiet, Exts, Gap, RowsOf, Stored
<1>2. \A p \in Procs : \A b : OwesEvents(p, b)' => OwesEvents(p, b)
  BY DEF Quiet, NoNewDebt, OwesEvents, AfterWrite
<1>3. \A p \in Procs : \A b, h : Owes(p, b, h)' => Owes(p, b, h)
  BY <1>1 DEF Quiet, NoNewDebt, Owes, AfterWrite, Unsent
<1>4. StoredInv'
  <2>1. \A p \in Procs : (pc[p] \in AfterWrite => Stored(blk[p]))'
    BY <1>1 DEF Quiet, NoNewDebt, OnceInv, StoredInv
  <2>2. \A p \in Procs : (pc[p] = "events" => seen[p] = {})'
    BY DEF Quiet, NoNewDebt, OnceInv, StoredInv, AfterWrite
  <2>. QED
    BY <1>1, <2>1, <2>2 DEF Quiet, OnceInv, StoredInv
<1>5. SentInv'
  BY <1>1, <1>3 DEF Quiet, OnceInv, SentInv
<1>6. EventsInv'
  BY <1>1, <1>2 DEF Quiet, OnceInv, EventsInv
<1>. QED
  BY <1>4, <1>5, <1>6 DEF OnceInv

-----------------------------------------------------------------------------
\* bulk_create leaves the whole block stored, and adds rows of that block only.
LEMMA WriteStoresBlock ==
    ASSUME TypeOK, JobInv, NEW p \in Procs, WriteRows(p)
    PROVE  /\ blk[p] \in Blocks
           /\ Stored(blk[p])'
           /\ \A h \in Hashes : rows[h] # 0 => rows'[h] = rows[h]
           /\ \A h \in Hashes : rows'[h] # rows[h] =>
                rows[h] = 0 /\ rows'[h] = blk[p] /\ h \in Fresh(p)
<1>1. blk[p] \in Blocks
  BY StoreJobTyped DEF StoreBlock
<1>2. rows' = [h \in Hashes |-> IF h \in Fresh(p) /\ rows[h] = 0 THEN blk[p] ELSE rows[h]]
  BY DEF WriteRows
<1>3. seen[p] \subseteq RowsOf(blk[p])
  BY DEF WriteRows, JobInv, JobOf, AfterRead
<1>4. ASSUME NEW h \in Exts(blk[p])
      PROVE  rows'[h] # 0
  <2>1. h \in Hashes
    BY <1>1, ExtsAreHashes
  <2>2. CASE h \in seen[p]
    BY <1>1, <1>2, <1>3, <2>1, <2>2 DEF RowsOf, Blocks
  <2>3. CASE h \notin seen[p]
    BY <1>1, <1>2, <2>1, <2>3 DEF Fresh, Blocks
  <2>. QED
    BY <2>2, <2>3
<1>5. blk' = blk
  BY DEF WriteRows
<1>6. Stored(blk[p])'
  BY <1>4, <1>5 DEF Stored, Exts
<1>. QED
  BY <1>1, <1>2, <1>6 DEF Blocks

\* bulk_create pays no debt and makes at most one for each extrinsic it stores.
LEMMA WriteKeepsOnce ==
    ASSUME TypeOK, JobInv, OnceInv, NEW p \in Procs, WriteRows(p)
    PROVE  OnceInv'
<1> DEFINE c == blk[p]
<1>1. /\ c \in Blocks /\ Stored(c)'
      /\ \A h \in Hashes : rows[h] # 0 => rows'[h] = rows[h]
      /\ \A h \in Hashes : rows'[h] # rows[h] => rows[h] = 0 /\ rows'[h] = c /\ h \in Fresh(p)
  BY WriteStoresBlock
<1>2. /\ blk' = blk /\ seen' = seen /\ sends' = sends /\ eventSends' = eventSends
      /\ pc[p] = "write" /\ pc'[p] = "enrich" /\ \A r \in Procs \ {p} : pc'[r] = pc[r]
  BY DEF WriteRows, Goto, TypeOK
<1>3. \A b \in Blocks : Exts(b) \subseteq Hashes /\ Exts(b)' = Exts(b)
  BY ExtsAreHashes DEF Exts
<1>4. \A b \in Blocks : Stored(b) => Stored(b)'
  BY <1>1, <1>3 DEF Stored
<1>5. \A b \in Blocks : b # c => (Gap(b)' <=> Gap(b))
  <2>1. \A b \in Blocks : b # c => \A h \in Hashes : rows'[h] = b <=> rows[h] = b
    BY <1>1 DEF Blocks
  <2>. QED
    BY <2>1 DEF Gap, RowsOf
<1>6. raced \subseteq raced' /\ (c \notin raced' => \A h \in Fresh(p) : rows[h] # c)
  BY DEF WriteRows
<1>7. StoredInv'
  <2>1. ASSUME NEW h \in Hashes, rows'[h] # 0
        PROVE  h \in Exts(rows'[h])
    BY <1>1, <2>1 DEF OnceInv, StoredInv, Fresh
  <2>2. ASSUME NEW r \in Procs, pc'[r] \in AfterWrite
        PROVE  Stored(blk[r])'
    <3>1. CASE r = p
      BY <1>1, <3>1
    <3>2. CASE r # p
      <4>1. pc[r] \in AfterWrite /\ blk[r] \in Blocks
        BY <1>2, <2>2, <3>2 DEF TypeOK, JobInv, JobOf, AfterWrite, InBlock, Blocks
      <4>2. Stored(blk[r])
        BY <4>1 DEF OnceInv, StoredInv
      <4>. QED
        BY <1>1, <1>2, <1>3, <4>1, <4>2 DEF Stored
    <3>. QED
      BY <3>1, <3>2
  <2>3. ASSUME NEW b \in Blocks, ~Gap(b)' \/ eventSends'[b] > 0
        PROVE  Stored(b)'
    <3>1. CASE b = c
      BY <1>1, <1>2, <3>1 DEF Stored, Exts
    <3>2. CASE b # c
      <4>1. ~Gap(b) \/ eventSends[b] > 0
        BY <1>2, <1>5, <2>3, <3>2
      <4>2. Stored(b)
        BY <4>1 DEF OnceInv, StoredInv
      <4>. QED
        BY <1>4, <4>2
    <3>. QED
      BY <3>1, <3>2
  <2>4. ASSUME NEW b \in Blocks, NEW h \in Exts(b), sends'[b][h] > 0
        PROVE  rows'[h] # 0
    BY <1>1, <1>2, <1>3, <2>4 DEF OnceInv, StoredInv
  <2>5. \A r \in Procs : pc'[r] = "events" => seen'[r] = {}
    BY <1>2 DEF OnceInv, StoredInv
  <2>. QED
    BY <1>2, <1>3, <2>1, <2>2, <2>3, <2>4, <2>5 DEF StoredInv, Stored
<1>8. SentInv'
  <2>1. SUFFICES ASSUME NEW b \in Blocks, NEW h \in Exts(b), b \notin raced', rows'[h] = b
                 PROVE  /\ sends[b][h] <= 1
                        /\ \A r \in Procs : Owes(r, b, h)' => sends[b][h] = 0
                        /\ \A q, r \in Procs : Owes(q, b, h)' /\ Owes(r, b, h)' => q = r
    BY <1>2, <1>3 DEF SentInv
  <2>2. h \in Hashes /\ b \notin raced
    BY <1>3, <1>6, <2>1
  <2>3. \A r \in Procs \ {p} : Owes(r, b, h)' => Owes(r, b, h)
    BY <1>2, <1>3 DEF Owes
  <2>4. CASE rows[h] = b
    <3>1. ~Owes(p, b, h)'
      BY <1>2, <1>3, <1>6, <2>1, <2>4 DEF Owes, Fresh
    <3>. QED
      BY <2>2, <2>3, <2>4, <3>1 DEF OnceInv, SentInv
  <2>5. CASE rows[h] # b
    <3>1. rows[h] = 0
      BY <1>1, <2>1, <2>2, <2>5
    <3>2. sends[b][h] = 0
      <4>1. ~(sends[b][h] > 0)
        BY <3>1 DEF OnceInv, StoredInv
      <4>2. sends[b][h] \in 0..2
        BY <2>2 DEF TypeOK
      <4>. QED
        BY <4>1, <4>2
    <3>3. \A r \in Procs \ {p} : ~Owes(r, b, h)
      BY <3>1 DEF OnceInv, StoredInv, Stored, Owes, Unsent, AfterWrite
    <3>. QED
      BY <2>3, <3>2, <3>3
  <2>. QED
    BY <2>4, <2>5
<1>9. EventsInv'
  <2>1. SUFFICES ASSUME NEW b \in Blocks, b \notin raced', ~Gap(b)'
                 PROVE  /\ eventSends[b] <= 1
                        /\ \A r \in Procs : OwesEvents(r, b)' => eventSends[b] = 0
                        /\ \A q, r \in Procs : OwesEvents(q, b)' /\ OwesEvents(r, b)' => q = r
    BY <1>2 DEF EventsInv
  <2>2. b \notin raced /\ \A r \in Procs \ {p} : OwesEvents(r, b)' => OwesEvents(r, b)
    BY <1>2, <1>6, <2>1 DEF OwesEvents
  <2>3. CASE ~Gap(b)
    <3>1. ~OwesEvents(p, b)'
      <4>1. SUFFICES ASSUME b = c, seen[p] = {}
                     PROVE  FALSE
        BY <1>2 DEF OwesEvents
      <4>2. PICK h \in Hashes : rows[h] = b
        BY <2>3 DEF Gap, RowsOf
      <4>3. h \in Exts(b)
        BY <4>2 DEF OnceInv, StoredInv, Blocks
      <4>. QED
        BY <1>6, <2>1, <4>1, <4>2, <4>3 DEF Fresh
    <3>. QED
      BY <2>2, <2>3, <3>1 DEF OnceInv, EventsInv
  <2>4. CASE Gap(b)
    <3>1. b = c
      BY <1>5, <2>1, <2>4
    <3>2. PICK h \in Exts(b) : rows[h] = 0
      <4>1. PICK h \in Hashes : rows'[h] = b
        BY <2>1 DEF Gap, RowsOf
      <4>2. rows[h] # b
        BY <2>4 DEF Gap, RowsOf
      <4>. QED
        BY <1>1, <3>1, <4>1, <4>2 DEF Fresh
    <3>3. ~Stored(b)
      BY <3>2 DEF Stored
    <3>4. eventSends[b] = 0
      BY <3>3 DEF OnceInv, StoredInv, TypeOK
    <3>5. \A r \in Procs \ {p} : ~OwesEvents(r, b)
      BY <3>3 DEF OnceInv, StoredInv, OwesEvents
    <3>. QED
      BY <2>2, <3>4, <3>5
  <2>. QED
    BY <2>3, <2>4
<1>. QED
  BY <1>7, <1>8, <1>9 DEF OnceInv

\* What a dispatch does to the processes: the sender is past it, the others
\* do not move.
LEMMA SenderMoves ==
    ASSUME TypeOK, JobInv, NEW p \in Procs, Notify(p) \/ NotifyEvents(p)
    PROVE  /\ UNCHANGED <<rows, raced>> /\ blk[p] \in Blocks
           /\ \A r \in Procs \ {p} : Untouched(r)
           /\ \/ pc'[p] = "loop"
              \/ Notify(p) /\ pc'[p] = "events" /\ blk'[p] = blk[p] /\ seen'[p] = seen[p]
<1>1. blk[p] \in Blocks
  BY StoreJobTyped DEF StoreBlock
<1>2. CASE LeaveBlock(p)
  <2>1. pc' = [pc EXCEPT ![p] = "loop"] /\ UNCHANGED <<rows, raced>>
    BY <1>2 DEF LeaveBlock, Goto, Notify, NotifyEvents, database
  <2>. QED
    BY <1>1, <1>2, <2>1, LeavingTyped DEF TypeOK
<1>3. CASE Notify(p) /\ ~LeaveBlock(p)
  BY <1>1, <1>3 DEF Notify, Goto, TypeOK, Untouched, job, database
<1>. QED
  BY <1>2, <1>3 DEF NotifyEvents

\* A dispatch pays the debts of its process, and no other process has them.
LEMMA SendKeepsOnce ==
    ASSUME TypeOK, JobInv, OnceInv, NEW p \in Procs, Notify(p) \/ NotifyEvents(p)
    PROVE  OnceInv'
<1> DEFINE c == blk[p]
<1>1. /\ UNCHANGED <<rows, raced>> /\ c \in Blocks
      /\ \A r \in Procs \ {p} : Untouched(r)
      /\ \/ pc'[p] = "loop"
         \/ Notify(p) /\ pc'[p] = "events" /\ blk'[p] = c /\ seen'[p] = seen[p]
  BY SenderMoves
<1>2. \A b : (Exts(b)' = Exts(b)) /\ (Gap(b)' <=> Gap(b)) /\ (Stored(b)' <=> Stored(b))
  BY <1>1 DEF Exts, Gap, RowsOf, Stored
<1>3. pc[p] \in AfterWrite /\ Stored(c)
  BY DEF Notify, NotifyEvents, AfterWrite, OnceInv, StoredInv
<1>4. \A b \in Blocks : \A h \in Exts(b) :
        \/ sends'[b][h] = sends[b][h]
        \/ Owes(p, b, h) /\ sends'[b][h] = More(sends[b][h])
  <2>1. CASE Notify(p)
    <3>1. sends' = [sends EXCEPT ![c] = [h \in Hashes |-> IF h \in Fresh(p) THEN More(@[h])
                                                                           ELSE @[h]]]
      BY <2>1 DEF Notify
    <3>2. ASSUME NEW b \in Blocks, NEW h \in Exts(b), sends'[b][h] # sends[b][h]
          PROVE  Owes(p, b, h) /\ sends'[b][h] = More(sends[b][h])
      <4>1. h \in Hashes
        BY ExtsAreHashes
      <4>2. b = c /\ h \in Fresh(p) /\ sends'[b][h] = More(sends[b][h])
        BY <1>1, <3>1, <3>2, <4>1 DEF TypeOK
      <4>. QED
        BY <2>1, <4>2 DEF Notify, Owes, Fresh, Unsent
    <3>. QED
      BY <3>2
  <2>2. CASE NotifyEvents(p)
    BY <2>2 DEF NotifyEvents
  <2>. QED
    BY <2>1, <2>2
<1>5. \A b \in Blocks :
        \/ eventSends'[b] = eventSends[b]
        \/ b = c /\ pc'[p] = "loop" /\ seen[p] = {} /\ eventSends'[b] = More(eventSends[b])
  <2>1. CASE Notify(p)
    BY <2>1 DEF Notify
  <2>2. CASE NotifyEvents(p)
    <3>1. seen[p] = {} /\ eventSends' = [eventSends EXCEPT ![c] = More(@)]
      BY <2>2 DEF NotifyEvents, OnceInv, StoredInv
    <3>. QED
      BY <1>1, <2>2, <3>1 DEF NotifyEvents, Notify, TypeOK
  <2>. QED
    BY <2>1, <2>2
<1>6. ASSUME NEW r \in Procs, pc'[r] \in AfterWrite
      PROVE  /\ pc[r] \in AfterWrite /\ blk'[r] = blk[r] /\ seen'[r] = seen[r]
             /\ pc'[r] \in Unsent => pc[r] \in Unsent /\ r # p
             /\ r = p => Notify(p) /\ pc'[p] = "events"
  BY <1>1, <1>3, <1>6 DEF Untouched, AfterWrite, Unsent
<1>7. StoredInv'
  <2>1. \A r \in Procs : (pc[r] \in AfterWrite => Stored(blk[r]))'
    BY <1>1, <1>2, <1>6 DEF OnceInv, StoredInv, Stored
  <2>2. \A r \in Procs : (pc[r] = "events" => seen[r] = {})'
    <3>1. CASE Notify(p) /\ pc'[p] = "events"
      <4>1. seen[p] = {} /\ seen'[p] = seen[p]
        BY <1>1, <3>1 DEF Notify, LeaveBlock, Goto, TypeOK
      <4>. QED
        BY <1>1, <4>1 DEF OnceInv, StoredInv, Untouched
    <3>2. CASE pc'[p] = "loop"
      BY <1>1, <3>2 DEF OnceInv, StoredInv, Untouched
    <3>. QED
      BY <1>1, <3>1, <3>2
  <2>3. \A b \in Blocks : (~Gap(b) \/ eventSends[b] > 0 => Stored(b))'
    BY <1>2, <1>3, <1>5 DEF OnceInv, StoredInv
  <2>4. \A b \in Blocks : \A h \in Exts(b) : sends'[b][h] > 0 => rows[h] # 0
    BY <1>3, <1>4 DEF OnceInv, StoredInv, Owes, Stored
  <2>. QED
    BY <1>1, <1>2, <2>1, <2>2, <2>3, <2>4 DEF OnceInv, StoredInv
<1>8. SentInv'
  <2>1. SUFFICES ASSUME NEW b \in Blocks, NEW h \in Exts(b), b \notin raced, rows[h] = b
                 PROVE  /\ sends'[b][h] <= 1
                        /\ \A r \in Procs : Owes(r, b, h)' => sends'[b][h] = 0
                        /\ \A q, r \in Procs : Owes(q, b, h)' /\ Owes(r, b, h)' => q = r
    BY <1>1, <1>2 DEF SentInv
  <2>2. \A r \in Procs : Owes(r, b, h)' => Owes(r, b, h) /\ r # p
    BY <1>2, <1>6 DEF Owes, Unsent, AfterWrite
  <2>3. CASE sends'[b][h] = sends[b][h]
    BY <2>1, <2>2, <2>3 DEF OnceInv, SentInv
  <2>4. CASE Owes(p, b, h) /\ sends'[b][h] = More(sends[b][h])
    <3>1. sends[b][h] = 0 /\ sends'[b][h] = 1
      BY <2>1, <2>4 DEF OnceInv, SentInv, More
    <3>2. \A r \in Procs : ~Owes(r, b, h)'
      BY <2>1, <2>2, <2>4 DEF OnceInv, SentInv
    <3>. QED
      BY <3>1, <3>2
  <2>. QED
    BY <1>4, <2>3, <2>4
<1>9. EventsInv'
  <2>1. SUFFICES ASSUME NEW b \in Blocks, b \notin raced, ~Gap(b)
                 PROVE  /\ eventSends'[b] <= 1
                        /\ \A r \in Procs : OwesEvents(r, b)' => eventSends'[b] = 0
                        /\ \A q, r \in Procs : OwesEvents(q, b)' /\ OwesEvents(r, b)' => q = r
    BY <1>1, <1>2 DEF EventsInv
  <2>2. \A r \in Procs : OwesEvents(r, b)' => OwesEvents(r, b) /\ (r = p => pc'[p] = "events")
    BY <1>6 DEF OwesEvents
  <2>3. CASE eventSends'[b] = eventSends[b]
    BY <2>1, <2>2, <2>3 DEF OnceInv, EventsInv
  <2>4. CASE b = c /\ pc'[p] = "loop" /\ seen[p] = {} /\ eventSends'[b] = More(eventSends[b])
    <3>1. OwesEvents(p, b)
      BY <1>3, <2>4 DEF OwesEvents
    <3>2. eventSends[b] = 0 /\ eventSends'[b] = 1
      BY <2>1, <2>4, <3>1 DEF OnceInv, EventsInv, More
    <3>3. \A r \in Procs : ~OwesEvents(r, b)'
      BY <2>1, <2>2, <2>4, <3>1 DEF OnceInv, EventsInv
    <3>. QED
      BY <3>2, <3>3
  <2>. QED
    BY <1>5, <2>3, <2>4
<1>. QED
  BY <1>7, <1>8, <1>9 DEF OnceInv

-----------------------------------------------------------------------------
(* What holds of every execution. *)

\* The inductive invariant: who has still to send what is the strengthening.
THEOREM OnceInvariant == Spec => []OnceInv
<1>1. Init => OnceInv
  <2> SUFFICES ASSUME Init
               PROVE  OnceInv
    OBVIOUS
  <2>1. /\ \A h \in Hashes : rows[h] = 0
        /\ \A b \in Blocks : eventSends[b] = 0 /\ Exts(b) \subseteq Hashes /\ Gap(b)
        /\ \A b \in Blocks : \A h \in Hashes : sends[b][h] = 0
        /\ \A p \in Procs : pc[p] = "off"
    BY ExtsAreHashes DEF Init, Gap, RowsOf, Blocks
  <2>2. StoredInv
    BY <2>1 DEF StoredInv, AfterWrite
  <2>3. SentInv /\ EventsInv
    BY <2>1 DEF SentInv, EventsInv, Blocks
  <2>. QED
    BY <2>2, <2>3 DEF OnceInv
<1>2. TypeOK /\ JobInv /\ OnceInv /\ [Next]_vars => OnceInv'
  BY OthersAreQuiet, QuietKeepsOnce, WriteKeepsOnce, SendKeepsOnce
<1>. QED
  BY <1>1, <1>2, TypeAndJobs, PTL DEF Spec

\* If the table holds one row of a block it holds all the block's extrinsics:
\* "no row", the test of _find_missing_blocks, means "not ingested".
THEOREM BlocksAreWhole == Spec => []AllOrNothing
<1>1. OnceInv => AllOrNothing
  BY DEF OnceInv, StoredInv, AllOrNothing, Stored
<1>. QED
  BY <1>1, OnceInvariant, PTL

\* With any number of backfills, crashes and failures, the existing_hashes test
\* sends an extrinsic and a block's events at most once, unless two processes
\* stored the block from the same stale read or nothing is stored under it.
THEOREM SentOnceUnlessRaced == Spec => []ResendOnlyIfRaced
<1>1. TypeOK /\ OnceInv => ResendOnlyIfRaced
  <2> SUFFICES ASSUME TypeOK, OnceInv
               PROVE  ResendOnlyIfRaced
    OBVIOUS
  <2>1. ASSUME NEW b \in Blocks, NEW h \in Exts(b), sends[b][h] > 1
        PROVE  b \in raced \/ rows[h] # b
    <3>1. sends[b][h] \in 0..2
      BY ExtsAreHashes DEF TypeOK
    <3>. QED
      BY <2>1, <3>1 DEF OnceInv, SentInv
  <2>2. ASSUME NEW b \in Blocks, eventSends[b] > 1
        PROVE  b \in raced \/ Gap(b)
    <3>1. eventSends[b] \in 0..2
      BY DEF TypeOK
    <3>. QED
      BY <2>2, <3>1 DEF OnceInv, EventsInv
  <2>. QED
    BY <2>1, <2>2 DEF ResendOnlyIfRaced
<1>. QED
  BY <1>1, TypeAndJobs, OnceInvariant, PTL
=============================================================================
