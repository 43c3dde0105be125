--------------------------- MODULE ApyIngestProofs ---------------------------
(***************************************************************************)
(* Ticks and backfills exclude each other, for any number of either, of    *)
(* syncs, blocks and ids: a worker that has begun is the one that has the  *)
(* lock, which every way of ending gives back.  And nothing is missed: no  *)
(* worker moves the watermark past a snapshot that it has not turned into  *)
(* a fact, whatever is committed while it works.                           *)
(***************************************************************************)
EXTENDS ApyIngest, WellFoundedInduction, TLAPS

Labels == {"off", "reconcile", "upsert", "sweep", "expire", "commit", "finish"}

LockInv ==
    /\ pc \in [Workers -> Labels]
    /\ \A w \in Workers : pc[w] # "off" => lock = w

\* Beginning takes a free lock and leaves it with the worker that begins.
LEMMA LockTaken ==
    ASSUME LockInv, NEW w \in Workers, lock = None, lock' = w,
           pc' = [pc EXCEPT ![w] = "reconcile"]
    PROVE  LockInv'
<1>1. \A v \in Workers : pc[v] = "off"
  BY ApyAssumption DEF LockInv, Workers
<1>. QED
  BY <1>1 DEF LockInv, Labels

\* A step of the worker that has the lock, within its transaction.
LEMMA LockKept ==
    ASSUME LockInv, NEW w \in Workers, pc[w] # "off", lock' = lock,
           NEW label \in Labels, pc' = [pc EXCEPT ![w] = label]
    PROVE  LockInv'
  BY DEF LockInv, Labels

\* However a worker ends, the others were not at work.
LEMMA LockReleased ==
    ASSUME LockInv, NEW w \in Workers, pc[w] # "off", LeaveOff(w)
    PROVE  LockInv'
  BY DEF LockInv, LeaveOff, Goto, Labels

\* What syncs, timestamps and time do concerns no worker.
LEMMA LockUntouched ==
    ASSUME LockInv, UNCHANGED <<pc, lock>>
    PROVE  LockInv'
  BY DEF LockInv

\* The lock belongs to the worker that has begun, in every reachable state: the
\* transaction-level and the session-level lock are one.
THEOREM LockHeld == Spec => []LockInv
<1>1. Init => LockInv
  BY DEF Init, LockInv, Labels
<1>2. LockInv /\ [Next]_vars => LockInv'
  <2>. SUFFICES ASSUME LockInv, [Next]_vars PROVE LockInv'
    OBVIOUS
  <2>1. CASE Sync
    <3>. UNCHANGED <<pc, lock>>
      BY <2>1 DEF Sync, SyncWrite, SyncCommit, SyncAbort, SetTimestamp, local
    <3>. QED
      BY LockUntouched
  <2>2. CASE TimePasses
    BY <2>2, LockUntouched DEF TimePasses, local
  <2>3. ASSUME NEW w \in Ticks, Tick(w) PROVE LockInv'
    <3>. w \in Workers
      BY DEF Workers
    <3>1. CASE TickBegin(w)
      BY <3>1, LockTaken DEF TickBegin, TakeLock, Goto
    <3>2. CASE Reconcile(w)
      BY <3>2, LockKept DEF Reconcile, Goto, Labels
    <3>3. CASE TickUpsert(w)
      BY <3>3, LockKept DEF TickUpsert, Goto, Labels
    <3>4. CASE TickSweep(w)
      BY <3>4, LockKept DEF TickSweep, Goto, Labels
    <3>5. CASE TickExpire(w)
      BY <3>5, LockKept DEF TickExpire, Goto, Labels
    <3>6. CASE TickCommit(w)
      BY <3>6, LockReleased DEF TickCommit
    <3>. QED
      BY <2>3, <3>1, <3>2, <3>3, <3>4, <3>5, <3>6 DEF Tick, TickStep
  <2>4. ASSUME NEW w \in Backfills, Backfill(w) PROVE LockInv'
    <3>. w \in Workers
      BY DEF Workers
    <3>1. ASSUME NEW lo, NEW hi, NEW derived, BackfillOver(w, lo, hi, derived)
          PROVE  LockInv'
      BY <3>1, LockTaken DEF BackfillOver, TakeLock, Goto
    <3>2. CASE \E lo, hi \in Blocks : BackfillRange(w, lo, hi)
      BY <3>1, <3>2 DEF BackfillRange
    <3>3. CASE \E skip \in Skips : BackfillDays(w, skip)
      BY <3>1, <3>3 DEF BackfillDays
    <3>4. CASE Reconcile(w)
      BY <3>4, LockKept DEF Reconcile, Goto, Labels
    <3>5. CASE BackfillUpsert(w)
      <4>. (IF NextChunk(w) <= upto[w] THEN "reconcile" ELSE "finish") \in Labels
        BY DEF Labels
      <4>. QED
        BY <3>5, LockKept DEF BackfillUpsert, Goto
    <3>6. CASE BackfillFinish(w)
      BY <3>6, LockReleased DEF BackfillFinish
    <3>. QED
      BY <2>4, <3>2, <3>3, <3>4, <3>5, <3>6 DEF Backfill
  <2>5. ASSUME NEW w \in Workers, Abort(w) PROVE LockInv'
    BY <2>5, LockReleased DEF Abort
  <2>6. CASE UNCHANGED vars
    BY <2>6, LockUntouched DEF vars, local
  <2>. QED
    BY <2>1, <2>2, <2>3, <2>4, <2>5, <2>6 DEF Next
<1>. QED
  BY <1>1, <1>2, PTL DEF Spec

\* Two workers are never at work together, whichever kinds they are and however
\* earlier ones ended (OneAtATime).
THEOREM MutualExclusion == Spec => []OneAtATime
<1>1. LockInv => OneAtATime
  BY DEF LockInv, OneAtATime
<1>. QED
  BY <1>1, LockHeld, PTL

-----------------------------------------------------------------------------
(* Nothing is missed.  What each part says of a worker holds from its first *)
(* statement to its last, and beginning and ending establish and use it.    *)

\* Ticks sweep, expire and commit; backfills finish.
KindInv ==
    \A w \in Workers :
      /\ pc[w] \in {"sweep", "expire", "commit"} => w \in Ticks
      /\ pc[w] = "finish" => w \in Backfills

\* Snapshots keep the ids they have, and the sequence is ahead of all of them.
IdInv ==
    /\ \A b \in Blocks : row[b].id <= seq
    /\ \A t \in Syncs : txn[t] # NoTxn =>
          /\ txn[t].block \in Blocks /\ txn[t].id \in 1..seq
          /\ row[txn[t].block].id \in {0, txn[t].id}
    /\ \A t, u \in Syncs : txn[t] # NoTxn /\ txn[t].block = txn[u].block => t = u

\* The watermark, and what a worker at work will make of it, are ids that have been seen.
Seen(n) == n <= seq /\ (n # 0 => \E b \in Blocks : n <= row[b].id)

MarkInv ==
    /\ Seen(watermark)
    /\ \A w \in Workers : pc[w] # "off" => watermark <= top[w] /\ Seen(top[w])

\* Every stored block has a timestamp, if syncs give it one, and the retention window
\* of a worker is not ahead of the time.
TimeInv ==
    /\ \A b \in Blocks \ Untimed : Stored(b) => stamp[b] # 0
    /\ \A w \in Workers : asOf[w] <= expiry

\* A later tick finds the row of b, even if w moves the watermark.
Safe(w, b) == row[b].id > top[w] - Margin \/ b \in late

\* What is committed during a backfill is safe; only then is it noted.
DuringInv ==
    /\ during # {} => lock \in Backfills
    /\ \A w \in Backfills : pc[w] # "off" => \A b \in during : Safe(w, b)

\* The blocks a tick answers for: no transaction has touched them since it began.
Concern(w, b) == Stored(b) /\ b \notin Untimed /\ b > expiry /\ ~Safe(w, b)

TickInv ==
    \A w \in Ticks, b \in Blocks : pc[w] # "off" /\ Concern(w, b) =>
      /\ pc[w] = "reconcile" => work[w][b].val = Wanted(b) \/ b \in TickRange(w)
      /\ pc[w] = "upsert" => \/ work[w][b].val = Wanted(b)
                             \/ b \in TickRange(w) /\ Wanted(b) # None
      /\ pc[w] \in {"sweep", "expire", "commit"} => work[w][b].val = Wanted(b)

Chunk(w) == from[w]..ChunkEnd(w)
Extent(w) == lowest[w]..upto[w]

\* Where a backfill is: behind from[w] the facts are right, except for what has been
\* committed since it began.
BackInv ==
    \A w \in Backfills : pc[w] # "off" =>
      /\ lowest[w] \in Blocks /\ lowest[w] <= from[w] /\ lowest[w] <= upto[w]
      /\ pc[w] \in {"reconcile", "upsert"} => from[w] <= upto[w]
      /\ pc[w] = "finish" => from[w] > upto[w]
      /\ \A b \in Blocks :
           /\ pc[w] = "reconcile" \/ b \notin Chunk(w) => work[w][b] = facts[b]
           /\ Stored(b) /\ b \notin during =>
                /\ pc[w] = "upsert" /\ b \in Chunk(w) /\ Wanted(b) = None => work[w][b].val = None
                /\ b \in Extent(w) /\ b < from[w] => facts[b].val = Wanted(b)
                /\ advance[w] => b \in Extent(w) \cup Untimed \/ b <= expiry

\* The watermark hides nothing, but perhaps a block that never had a timestamp.
NoneMissed ==
    \A b \in Blocks \ Untimed :
      Outdated(b) /\ b > expiry => row[b].id > watermark - Margin \/ b \in late

\* The inductive invariant.
IInv ==
    /\ TypeOK /\ LockInv /\ KindInv /\ IdInv /\ MarkInv /\ TimeInv
    /\ DuringInv /\ TickInv /\ BackInv /\ NoneMissed

-----------------------------------------------------------------------------
(* Facts about the helpers. *)

\* max() of a bounded set of naturals is its greatest element.
LEMMA GreatestOf ==
    ASSUME NEW N \in Nat, NEW S \in SUBSET (0..N), S # {}
    PROVE  Greatest(S) \in S /\ \A y \in S : y <= Greatest(S)
<1>. DEFINE R == OpToRel(<, Nat)
            T == {N - x : x \in S}
<1>1. IsWellFoundedOn(R, Nat)
  BY NatLessThanWellFounded
<1>2. \A x, y \in Nat : y < x => <<y, x>> \in R
  BY DEF OpToRel
<1>3. T \subseteq Nat /\ T # {}
  <2>1. \A x \in S : N - x \in Nat
    OBVIOUS
  <2>2. PICK x \in S : TRUE
    OBVIOUS
  <2>3. N - x \in T
    BY <2>2
  <2>. QED
    BY <2>1, <2>3
<1>. HIDE DEF R
<1>4. PICK z \in T : \A y \in T : <<y, z>> \notin R
  BY <1>1, <1>3, WFMin
<1>5. PICK x \in S : z = N - x
  BY <1>4
<1>6. ASSUME NEW y \in S PROVE y <= x
  <2>1. N - y \in T /\ N - y \in Nat /\ z \in Nat
    BY <1>3, <1>4
  <2>2. ~(N - y < z)
    BY <1>2, <1>4, <2>1
  <2>. QED
    BY <1>5, <2>1, <2>2
<1>. QED
  BY <1>6 DEF Greatest

\* min() of a set of naturals, as BackfillDays takes it.
LEMMA LeastOf ==
    ASSUME NEW S \in SUBSET Nat, S # {}
    PROVE  LET m == CHOOSE x \in S : \A y \in S : x <= y
           IN  m \in S /\ \A y \in S : m <= y
<1>. DEFINE R == OpToRel(<, Nat)
<1>1. IsWellFoundedOn(R, Nat)
  BY NatLessThanWellFounded
<1>2. \A x, y \in Nat : y < x => <<y, x>> \in R
  BY DEF OpToRel
<1>. HIDE DEF R
<1>3. PICK x \in S : \A y \in S : <<y, x>> \notin R
  BY <1>1, WFMin
<1>4. ASSUME NEW y \in S PROVE x <= y
  <2>1. ~(y < x)
    BY <1>2, <1>3
  <2>. QED
    BY <2>1
<1>. QED
  BY <1>4

\* MAX(id): the greatest id of a stored snapshot, 0 when there is none.
LEMMA CurrentMaxOf ==
    ASSUME TypeOK
    PROVE  /\ CurrentMax \in 0..MaxId
           /\ \A b \in Blocks : row[b].id <= CurrentMax
           /\ CurrentMax # 0 => \E b \in Blocks : row[b].id = CurrentMax
<1>. DEFINE S == {0} \cup {row[b].id : b \in Blocks}
<1>1. S \in SUBSET (0..MaxId) /\ S # {} /\ MaxId \in Nat
  BY ApyAssumption DEF TypeOK
<1>2. Greatest(S) \in S /\ \A y \in S : y <= Greatest(S)
  BY <1>1, GreatestOf
<1>. QED
  BY <1>1, <1>2 DEF CurrentMax

\* The margins of the model are natural numbers, and so are its blocks.
LEMMA Numbers ==
    /\ MaxBlock \in Nat /\ MaxId \in Nat /\ Margin \in Nat /\ ChunkSize \in Nat /\ ChunkSize >= 1
    /\ MaxExpiry \in Nat
    /\ Blocks \subseteq Nat /\ \A b \in Blocks : 1 <= b /\ b <= MaxBlock
    /\ 0 \notin Blocks /\ Ticks \cap Backfills = {} /\ None \notin Values /\ None \notin Workers
    /\ Ticks \subseteq Workers /\ Backfills \subseteq Workers
    /\ 1 \in Times /\ \A ts \in Times : ts \in Nat /\ ts # 0
    /\ Untimed \subseteq Blocks
  BY ApyAssumption DEF Blocks, Workers
-----------------------------------------------------------------------------
(* Types. *)

\* What a worker keeps after it has ended.
LEMMA LeaveOffTypes ==
    ASSUME TypeOK, NEW w \in Workers, LeaveOff(w)
    PROVE  /\ lock' \in Workers \cup {None}
           /\ pc' \in [Workers -> Labels]
           /\ work' \in [Workers -> [Blocks -> [val : Values \cup {None}, ts : Times \cup {0}]]]
           /\ top' \in [Workers -> 0..MaxId] /\ asOf' \in [Workers -> 0..MaxExpiry]
           /\ from' \in [Workers -> 0..(MaxBlock + 1)] /\ upto' \in [Workers -> 0..MaxBlock]
           /\ lowest' \in [Workers -> 0..MaxBlock] /\ advance' \in [Workers -> BOOLEAN]
           /\ during' \subseteq Blocks
  BY Numbers DEF TypeOK, LeaveOff, Goto, NoFact, Labels

\* The facts that an upsert makes are facts.
LEMMA UpsertTypes ==
    ASSUME TypeOK, NEW w \in Workers
    PROVE  /\ WithUpserts(w) \in [Blocks -> [val : Values \cup {None}, ts : Times \cup {0}]]
           /\ \A b \in Blocks : WithUpserts(w)[b].val =
                 IF b \in Scanned(w) /\ Wanted(b) # None THEN Wanted(b) ELSE work[w][b].val
<1>. DEFINE F == [val : Values \cup {None}, ts : Times \cup {0}]
<1>1. ASSUME NEW b \in Blocks, Wanted(b) # None
      PROVE  /\ Upserted(b, work[w][b]) \in F
             /\ Upserted(b, work[w][b]).val = Wanted(b)
  <2>1. work[w][b] \in F /\ stamp[b] \in Times \cup {0} /\ row[b].val \in Values
    BY <1>1 DEF TypeOK, Wanted
  <2>2. Wanted(b) = row[b].val
    BY <2>1 DEF Wanted
  <2>. QED
    BY <2>1, <2>2 DEF Upserted
<1>2. \A b \in Blocks : work[w][b] \in F
  BY DEF TypeOK
<1>. QED
  BY <1>1, <1>2 DEF WithUpserts

\* The reads and writes of syncs keep the types.
LEMMA SyncTypes ==
    ASSUME TypeOK, Sync
    PROVE  TypeOK'
<1>1. ASSUME NEW t \in Syncs, NEW b \in Blocks, NEW v \in Values \cup {None}, SyncWrite(t, b, v)
      PROVE  TypeOK'
  <2>. DEFINE id == IF Stored(b) THEN row[b].id ELSE seq + 1
  <2>1. id \in 0..MaxId
    BY <1>1, Numbers DEF SyncWrite, TypeOK
  <2>2. txn' = [txn EXCEPT ![t] = [block |-> b, id |-> id, val |-> v]]
        /\ seq' = IF Stored(b) THEN seq ELSE id
    BY <1>1 DEF SyncWrite
  <2>. HIDE DEF id
  <2>3. txn' \in [Syncs -> [block : Blocks \cup {0}, id : 0..MaxId, val : Values \cup {None}]]
        /\ seq' \in 0..MaxId
    BY <2>1, <2>2 DEF TypeOK
  <2>. QED
    BY <1>1, <2>3 DEF SyncWrite, TypeOK, target, local, range
<1>2. ASSUME NEW t \in Syncs, SyncCommit(t)
      PROVE  TypeOK'
  <2>. DEFINE b == txn[t].block
  <2>1. txn[t] \in [block : Blocks \cup {0}, id : 0..MaxId, val : Values \cup {None}]
    BY DEF TypeOK
  <2>2. row' \in [Blocks -> [id : 0..MaxId, val : Values \cup {None}]]
    BY <1>2, <2>1 DEF SyncCommit, TypeOK
  <2>3. stamp' \in [Blocks -> Times \cup {0}]
    BY <1>2, Numbers DEF SyncCommit, TypeOK
  <2>4. txn' \in [Syncs -> [block : Blocks \cup {0}, id : 0..MaxId, val : Values \cup {None}]]
    BY <1>2, Numbers DEF SyncCommit, TypeOK, NoTxn
  <2>. QED
    BY <1>2, <2>2, <2>3, <2>4 DEF SyncCommit, TypeOK, target, local, range
<1>3. ASSUME NEW t \in Syncs, SyncAbort(t)
      PROVE  TypeOK'
  <2>1. txn' \in [Syncs -> [block : Blocks \cup {0}, id : 0..MaxId, val : Values \cup {None}]]
    BY <1>3, Numbers DEF SyncAbort, TypeOK, NoTxn
  <2>. QED
    BY <1>3, <2>1 DEF SyncAbort, TypeOK, target, local, range
<1>4. ASSUME NEW b \in Blocks, NEW ts \in Times, SetTimestamp(b, ts)
      PROVE  TypeOK'
  BY <1>4 DEF SetTimestamp, TypeOK, target, local, range
<1>. QED
  BY <1>1, <1>2, <1>3, <1>4 DEF Sync
\* So do the steps of ticks and backfills.
LEMMA WorkerTypes ==
    ASSUME TypeOK, NEW w \in Workers,
           \/ TickBegin(w) \/ TickStep(w) \/ Abort(w)
           \/ \E lo, hi \in 0..MaxBlock, derived \in BOOLEAN : BackfillOver(w, lo, hi, derived)
           \/ BackfillUpsert(w) \/ BackfillFinish(w)
    PROVE  TypeOK'
<1>. DEFINE F == [val : Values \cup {None}, ts : Times \cup {0}]
<1>0. NoFact \in F /\ work[w] \in [Blocks -> F] /\ facts \in [Blocks -> F]
  BY DEF TypeOK, NoFact
<1>. USE DEF source, target, range
<1>1. CASE TickBegin(w)
  BY <1>1, CurrentMaxOf DEF TickBegin, TakeLock, Goto, TypeOK
<1>2. ASSUME NEW f \in [Blocks -> F], work' = [work EXCEPT ![w] = f],
             NEW label \in Labels, Goto(w, label),
             UNCHANGED <<source, target, lock, top, asOf, range, expiry, late, during>>
      PROVE  TypeOK'
  BY <1>2 DEF TypeOK, Goto, Labels
<1>3. CASE Reconcile(w)
  <2>. DEFINE f == [b \in Blocks |-> IF b \in Unqualified(w) THEN NoFact ELSE work[w][b]]
  <2>1. f \in [Blocks -> F]
    BY <1>0
  <2>. QED
    BY <1>2, <1>3, <2>1 DEF Reconcile, Labels
<1>4. CASE TickUpsert(w)
  BY <1>2, <1>4, UpsertTypes DEF TickUpsert, Labels
<1>5. CASE TickSweep(w)
  <2>. DEFINE f == [b \in Blocks |->
                     IF b \in Datable(w) /\ work[w][b].val # None /\ work[w][b].ts = 0
                     THEN [work[w][b] EXCEPT !.ts = stamp[b]] ELSE work[w][b]]
  <2>1. f \in [Blocks -> F]
    BY <1>0 DEF TypeOK
  <2>. QED
    BY <1>2, <1>5, <2>1 DEF TickSweep, Labels
<1>6. CASE TickExpire(w)
  <2>. DEFINE f == [b \in Blocks |-> IF b \in Expired(w) THEN NoFact ELSE work[w][b]]
  <2>1. f \in [Blocks -> F]
    BY <1>0
  <2>. QED
    BY <1>2, <1>6, <2>1 DEF TickExpire, Labels
<1>7. CASE TickCommit(w)
  <2>1. Larger(watermark, top[w]) \in 0..MaxId
    BY DEF Larger, TypeOK
  <2>. QED
    BY <1>0, <1>7, <2>1, LeaveOffTypes DEF TickCommit, TypeOK, Labels
<1>8. CASE Abort(w)
  BY <1>8, LeaveOffTypes DEF Abort, TypeOK, Labels
<1>9. ASSUME NEW lo \in 0..MaxBlock, NEW hi \in 0..MaxBlock, NEW derived \in BOOLEAN,
             BackfillOver(w, lo, hi, derived)
      PROVE  TypeOK'
  BY <1>0, <1>9, CurrentMaxOf, Numbers DEF BackfillOver, TakeLock, Goto, TypeOK
<1>10. CASE BackfillUpsert(w)
  <2>1. NextChunk(w) \in Nat
    BY Numbers DEF NextChunk, ChunkEnd, Lesser, TypeOK
  <2>2. Lesser(NextChunk(w), MaxBlock + 1) \in 0..(MaxBlock + 1)
    BY <2>1, Numbers DEF Lesser
  <2>. QED
    BY <1>10, <2>2, UpsertTypes DEF BackfillUpsert, Goto, TypeOK
<1>11. CASE BackfillFinish(w)
  <2>1. Larger(watermark, top[w]) \in 0..MaxId
    BY DEF Larger, TypeOK
  <2>. QED
    BY <1>11, <2>1, LeaveOffTypes DEF BackfillFinish, TypeOK, Labels
<1>. QED
  BY <1>1, <1>3, <1>4, <1>5, <1>6, <1>7, <1>8, <1>9, <1>10, <1>11 DEF TickStep

\* The ranges that a backfill is given or derives are ranges of blocks.
LEMMA BackfillIsOver ==
    ASSUME TypeOK, NEW w \in Backfills,
           \/ \E lo, hi \in Blocks : BackfillRange(w, lo, hi)
           \/ \E skip \in Skips : BackfillDays(w, skip)
    PROVE  \E lo, hi \in Blocks, derived \in BOOLEAN :
              /\ BackfillOver(w, lo, hi, derived) /\ lo <= hi
              /\ derived => \E skip \in Skips : \A b \in Blocks :
                               stamp[b] # 0 /\ b > expiry + skip => lo <= b /\ b <= hi
<1>1. CASE \E lo, hi \in Blocks : BackfillRange(w, lo, hi)
  BY <1>1 DEF BackfillRange
<1>2. ASSUME NEW skip \in Skips, BackfillDays(w, skip)
      PROVE  \E lo, hi \in Blocks, derived \in BOOLEAN :
              /\ BackfillOver(w, lo, hi, derived) /\ lo <= hi
              /\ derived => \E sk \in Skips : \A b \in Blocks :
                               stamp[b] # 0 /\ b > expiry + sk => lo <= b /\ b <= hi
  <2>. DEFINE recent == {b \in Blocks : stamp[b] # 0 /\ b > expiry + skip}
              oldest == CHOOSE x \in recent : \A y \in recent : x <= y
  <2>1. recent # {} /\ BackfillOver(w, oldest, Greatest(recent), TRUE)
    BY <1>2 DEF BackfillDays
  <2>2a. recent \subseteq Blocks
    OBVIOUS
  <2>. HIDE DEF recent
  <2>2. recent \in SUBSET (0..MaxBlock) /\ recent \in SUBSET Nat /\ recent \subseteq Blocks
    BY <2>2a, Numbers
  <2>3. Greatest(recent) \in recent /\ \A y \in recent : y <= Greatest(recent)
    BY <2>1, <2>2, Numbers, GreatestOf
  <2>4. oldest \in recent /\ \A y \in recent : oldest <= y
    BY <2>1, <2>2, LeastOf
  <2>. HIDE DEF oldest
  <2>5. \A b \in Blocks : stamp[b] # 0 /\ b > expiry + skip
                             => oldest <= b /\ b <= Greatest(recent)
    BY <2>3, <2>4 DEF recent
  <2>. QED
    BY <2>1, <2>2, <2>3, <2>4, <2>5
<1>. QED
  BY <1>1, <1>2

\* The types, for every value of the constants.
THEOREM TypeCorrect == Spec => []TypeOK
<1>1. Init => TypeOK
  BY Numbers DEF Init, TypeOK, NoRow, NoFact, NoTxn
<1>2. TypeOK /\ [Next]_vars => TypeOK'
  <2>. SUFFICES ASSUME TypeOK, [Next]_vars PROVE TypeOK'
    OBVIOUS
  <2>1. CASE Sync
    BY <2>1, SyncTypes
  <2>2. CASE TimePasses
    BY <2>2, Numbers DEF TimePasses, TypeOK, source, target, local, range
  <2>3. ASSUME NEW w \in Ticks, Tick(w) PROVE TypeOK'
    BY <2>3, WorkerTypes, Numbers DEF Tick
  <2>4. ASSUME NEW w \in Backfills, Backfill(w) PROVE TypeOK'
    <3>1. CASE Reconcile(w) \/ BackfillUpsert(w) \/ BackfillFinish(w)
      BY <3>1, WorkerTypes, Numbers DEF TickStep
    <3>2. CASE \/ \E lo, hi \in Blocks : BackfillRange(w, lo, hi)
               \/ \E skip \in Skips : BackfillDays(w, skip)
      <4>1. PICK lo \in Blocks, hi \in Blocks, derived \in BOOLEAN : BackfillOver(w, lo, hi, derived)
        BY <3>2, BackfillIsOver
      <4>2. lo \in 0..MaxBlock /\ hi \in 0..MaxBlock
        BY Numbers
      <4>. QED
        BY <4>1, <4>2, WorkerTypes, Numbers
    <3>. QED
      BY <2>4, <3>1, <3>2 DEF Backfill
  <2>5. ASSUME NEW w \in Workers, Abort(w) PROVE TypeOK'
    BY <2>5, WorkerTypes
  <2>6. CASE UNCHANGED vars
    BY <2>6 DEF vars, TypeOK, source, target, local, range
  <2>. QED
    BY <2>1, <2>2, <2>3, <2>4, <2>5, <2>6 DEF Next
<1>. QED
  BY <1>1, <1>2, PTL DEF Spec
-----------------------------------------------------------------------------
(* Nothing is missed: what others do while a worker is at work. *)

\* Steps that leave the rows, the facts and the workers alone keep the parts about them.
LEMMA RowsUntouched ==
    ASSUME IInv, UNCHANGED <<row, facts, watermark, local, lock, late, during>>,
           expiry' \in Nat, expiry' >= expiry
    PROVE  KindInv' /\ DuringInv' /\ TickInv' /\ BackInv' /\ NoneMissed'
<1>. USE DEF IInv, local, range
<1>1. expiry \in Nat /\ \A b \in Blocks : b \in Nat
  BY Numbers DEF TypeOK
<1>2. KindInv' /\ DuringInv'
  BY DEF KindInv, DuringInv, Safe
<1>3. TickInv'
  BY <1>1 DEF TickInv, Concern, Safe, Stored, Wanted, TickRange
<1>4. BackInv'
  BY <1>1 DEF BackInv, Stored, Wanted, Chunk, Extent, ChunkEnd
<1>5. NoneMissed'
  BY <1>1 DEF NoneMissed, Outdated, Stored, Wanted
<1>. QED
  BY <1>2, <1>3, <1>4, <1>5

\* A sync that writes takes the next id, or the one its snapshot has already.
LEMMA WriteKeeps ==
    ASSUME IInv, NEW t \in Syncs, NEW b \in Blocks, NEW v \in Values \cup {None},
           SyncWrite(t, b, v)
    PROVE  IdInv' /\ MarkInv' /\ TimeInv'
<1>. DEFINE id == IF Stored(b) THEN row[b].id ELSE seq + 1
<1>1. /\ seq \in Nat /\ watermark \in Nat /\ \A w \in Workers : top[w] \in Nat
      /\ \A c \in Blocks : row[c].id \in Nat
      /\ \A u \in Syncs : txn[u].id \in Nat
  BY DEF IInv, TypeOK
<1>2. /\ txn[t] = NoTxn /\ \A u \in Syncs : txn[u].block # b
      /\ txn' = [txn EXCEPT ![t] = [block |-> b, id |-> id, val |-> v]]
      /\ seq' = IF Stored(b) THEN seq ELSE id
      /\ UNCHANGED <<row, stamp, watermark, pc, top, asOf, expiry>>
  BY DEF SyncWrite, target, local, range
<1>3. seq' \in Nat /\ seq' >= seq /\ id \in 1..seq' /\ row[b].id \in {0, id}
  BY <1>1, <1>2 DEF Stored, IInv, IdInv
<1>. HIDE DEF id
<1>4. \A u \in Syncs : txn'[u] = IF u = t THEN [block |-> b, id |-> id, val |-> v] ELSE txn[u]
  BY <1>2 DEF IInv, TypeOK
<1>5. IdInv'
  <2>1. \A c \in Blocks : row'[c].id <= seq'
    BY <1>1, <1>2, <1>3 DEF IInv, IdInv
  <2>2. \A u \in Syncs : txn'[u] # NoTxn =>
          /\ txn'[u].block \in Blocks /\ txn'[u].id \in 1..seq'
          /\ row'[txn'[u].block].id \in {0, txn'[u].id}
    BY <1>1, <1>2, <1>3, <1>4 DEF IInv, IdInv
  <2>3. \A u, s \in Syncs : txn'[u] # NoTxn /\ txn'[u].block = txn'[s].block => u = s
    BY <1>2, <1>4 DEF IInv, IdInv
  <2>. QED
    BY <2>1, <2>2, <2>3 DEF IdInv
<1>6. MarkInv'
  BY <1>1, <1>2, <1>3 DEF IInv, MarkInv, Seen
<1>7. TimeInv'
  BY <1>2 DEF IInv, TimeInv, Stored
<1>. QED
  BY <1>5, <1>6, <1>7

\* A snapshot that becomes visible is late, or above the margin of every watermark there
\* is and of every one that is being prepared.
LEMMA CommitIsSafe ==
    ASSUME IInv, NEW t \in Syncs, SyncCommit(t)
    PROVE  LET b == txn[t].block IN
           /\ b \in Blocks
           /\ \A c \in Blocks : c # b => row'[c] = row[c]
           /\ row'[b].id = txn[t].id /\ row[b].id \in {0, txn[t].id}
           /\ row'[b].id > watermark - Margin \/ b \in late'
           /\ \A w \in Workers : pc[w] # "off" => row'[b].id > top[w] - Margin \/ b \in late'
           /\ late \subseteq late'
<1>. DEFINE b == txn[t].block
<1>1. txn[t] # NoTxn /\ b \in Blocks /\ txn[t].id \in 1..seq /\ row[b].id \in {0, txn[t].id}
  BY DEF IInv, IdInv, SyncCommit
<1>2. /\ row' = [row EXCEPT ![b] = [id |-> txn[t].id, val |-> txn[t].val]]
      /\ late' = IF seq - txn[t].id >= Margin THEN late \cup {b} ELSE late
  BY DEF SyncCommit
<1>3. /\ row'[b].id = txn[t].id
      /\ \A c \in Blocks : c # b => row'[c] = row[c]
  BY <1>1, <1>2 DEF IInv, TypeOK
<1>4. /\ seq \in Nat /\ Margin \in Nat /\ watermark \in Nat /\ watermark <= seq
      /\ \A w \in Workers : pc[w] # "off" => top[w] \in Nat /\ top[w] <= seq
  BY Numbers DEF IInv, TypeOK, MarkInv, Seen
<1>5. txn[t].id > seq - Margin \/ b \in late'
  BY <1>1, <1>2, <1>4
<1>6. txn[t].id \in Nat
  BY <1>1, <1>4
<1>. HIDE DEF b
<1>7. \A m \in Nat : m <= seq => txn[t].id > m - Margin \/ b \in late'
  BY <1>4, <1>5, <1>6
<1>. QED
  BY <1>1, <1>2, <1>3, <1>4, <1>7 DEF b

\* A commit keeps ids and timestamps in order ...
LEMMA CommitKeepsIds ==
    ASSUME IInv, NEW t \in Syncs, SyncCommit(t)
    PROVE  KindInv' /\ IdInv' /\ MarkInv' /\ TimeInv'
<1>. DEFINE b == txn[t].block
<1>1. /\ b \in Blocks /\ txn[t] # NoTxn /\ txn[t].id \in 1..seq
      /\ \A c \in Blocks : c # b => row'[c] = row[c]
      /\ row'[b].id = txn[t].id /\ row[b].id \in {0, txn[t].id}
  BY CommitIsSafe DEF IInv, IdInv, SyncCommit
<1>2. /\ UNCHANGED <<seq, watermark, pc, top, asOf, expiry>>
      /\ stamp' = [stamp EXCEPT ![b] = IF @ = 0 /\ b \notin Untimed THEN 1 ELSE @]
      /\ txn' = [txn EXCEPT ![t] = NoTxn]
  BY DEF SyncCommit, target, local, range
<1>3. \A u \in Syncs : txn'[u] = IF u = t THEN NoTxn ELSE txn[u]
  BY <1>2 DEF IInv, TypeOK
<1>4. /\ seq \in Nat /\ watermark \in Nat
      /\ \A c \in Blocks : row[c].id \in Nat /\ (c \in {b} \ Untimed => stamp'[c] # 0) /\ (c # b => stamp'[c] = stamp[c])
  BY <1>1, <1>2, Numbers DEF IInv, TypeOK
<1>5. KindInv'
  BY <1>2 DEF IInv, KindInv
<1>6. IdInv'
  <2>1. \A c \in Blocks : row'[c].id <= seq'
    BY <1>1, <1>2, <1>4 DEF IInv, IdInv
  <2>2. ASSUME NEW u \in Syncs, txn'[u] # NoTxn
        PROVE  /\ txn'[u].block \in Blocks /\ txn'[u].id \in 1..seq'
               /\ row'[txn'[u].block].id \in {0, txn'[u].id}
    <3>1. u # t /\ txn'[u] = txn[u] /\ txn[u].block # b
      BY <1>1, <1>3, <2>2 DEF IInv, IdInv
    <3>. QED
      BY <1>1, <1>2, <2>2, <3>1 DEF IInv, IdInv
  <2>3. ASSUME NEW u \in Syncs, NEW s \in Syncs, txn'[u] # NoTxn, txn'[u].block = txn'[s].block
        PROVE  u = s
    <3>1. u # t /\ txn'[u] = txn[u] /\ txn[u].block \in Blocks
      BY <1>3, <2>3 DEF IInv, IdInv
    <3>2. s # t
      BY <1>3, <2>3, <3>1, Numbers DEF NoTxn
    <3>. QED
      BY <1>3, <2>3, <3>1, <3>2 DEF IInv, IdInv
  <2>. QED
    BY <2>1, <2>2, <2>3 DEF IdInv
<1>7. MarkInv'
  <2>1. ASSUME NEW c \in Blocks PROVE row[c].id <= row'[c].id
    BY <1>1, <1>4
  <2>2. ASSUME NEW n \in 0..MaxId, Seen(n) PROVE n <= seq' /\ (n # 0 => \E c \in Blocks : n <= row'[c].id)
    <3>1. ASSUME NEW c \in Blocks, n <= row[c].id PROVE n <= row'[c].id
      <4>. row'[c].id \in Nat
        BY <1>1, <1>4
      <4>. QED
        BY <1>4, <2>1, <3>1
    <3>. QED
      BY <1>2, <2>2, <3>1 DEF Seen
  <2>3. watermark \in 0..MaxId /\ \A w \in Workers : top[w] \in 0..MaxId
    BY DEF IInv, TypeOK
  <2>. QED
    BY <1>2, <2>2, <2>3 DEF IInv, MarkInv, Seen
<1>8. TimeInv'
  BY <1>1, <1>2, <1>4 DEF IInv, TimeInv, Stored
<1>. QED
  BY <1>5, <1>6, <1>7, <1>8

\* ... and what workers answer for.
LEMMA CommitKeepsWork ==
    ASSUME IInv, NEW t \in Syncs, SyncCommit(t)
    PROVE  DuringInv' /\ TickInv' /\ BackInv' /\ NoneMissed'
<1>. DEFINE b == txn[t].block
<1>1. /\ b \in Blocks
      /\ \A c \in Blocks : c # b => row'[c] = row[c]
      /\ row'[b].id > watermark - Margin \/ b \in late'
      /\ \A w \in Workers : pc[w] # "off" => row'[b].id > top[w] - Margin \/ b \in late'
      /\ late \subseteq late'
  BY CommitIsSafe
<1>2. /\ UNCHANGED <<facts, watermark, lock, local, expiry>>
      /\ during' = IF lock \in Backfills THEN during \cup {b} ELSE during
  BY DEF SyncCommit, target
<1>. HIDE DEF b
<1>3. DuringInv'
  <2>1. during' # {} => lock' \in Backfills
    BY <1>2 DEF IInv, DuringInv
  <2>2. ASSUME NEW w \in Backfills, pc[w] # "off", NEW c \in during' PROVE Safe(w, c)'
    <3>0. w \in Workers /\ c \in Blocks /\ (c = b \/ c \in during) /\ top' = top
      BY <1>1, <1>2, Numbers DEF IInv, TypeOK, local
    <3>1. CASE c = b
      BY <1>1, <2>2, <3>0, <3>1 DEF Safe
    <3>2. CASE c # b
      <4>1. Safe(w, c) /\ row'[c] = row[c]
        BY <1>1, <2>2, <3>0, <3>2 DEF IInv, DuringInv
      <4>. QED
        BY <1>1, <3>0, <4>1 DEF Safe
    <3>. QED
      BY <3>1, <3>2
  <2>. QED
    BY <1>2, <2>1, <2>2 DEF DuringInv, local
<1>4. TickInv'
  <2>. SUFFICES ASSUME NEW w \in Ticks, NEW c \in Blocks, pc[w] # "off", Concern(w, c)'
                PROVE  /\ pc[w] = "reconcile" => work[w][c].val = Wanted(c)' \/ c \in TickRange(w)'
                       /\ pc[w] = "upsert" => \/ work[w][c].val = Wanted(c)'
                                              \/ c \in TickRange(w)' /\ Wanted(c)' # None
                       /\ pc[w] \in {"sweep", "expire", "commit"} => work[w][c].val = Wanted(c)'
    BY <1>2 DEF TickInv, local
  <2>1. c # b
    BY <1>1, <1>2, Numbers DEF Concern, Safe, local
  <2>2. Concern(w, c) /\ Wanted(c)' = Wanted(c) /\ (c \in TickRange(w)' <=> c \in TickRange(w))
    BY <1>1, <1>2, <2>1 DEF Concern, Safe, Stored, Wanted, TickRange, local
  <2>. QED
    BY <2>2 DEF IInv, TickInv
<1>5. BackInv'
  <2>. SUFFICES ASSUME NEW w \in Backfills, pc[w] # "off", NEW c \in Blocks,
                       Stored(c)', c \notin during'
                PROVE  /\ pc[w] = "upsert" /\ c \in Chunk(w) /\ Wanted(c)' = None => work[w][c].val = None
                       /\ c \in Extent(w) /\ c < from[w] => facts[c].val = Wanted(c)'
                       /\ advance[w] => c \in Extent(w) \cup Untimed \/ c <= expiry
    BY <1>2 DEF IInv, BackInv, local, range, Chunk, ChunkEnd, Extent
  <2>1. lock = w
    BY Numbers DEF IInv, LockInv
  <2>2. c # b /\ c \notin during
    BY <1>2, <2>1
  <2>3. Stored(c) /\ Wanted(c)' = Wanted(c)
    BY <1>1, <2>2 DEF Stored, Wanted
  <2>. QED
    BY <2>2, <2>3 DEF IInv, BackInv
<1>6. NoneMissed'
  BY <1>1, <1>2 DEF IInv, NoneMissed, Outdated, Stored, Wanted
<1>. QED
  BY <1>3, <1>4, <1>5, <1>6

\* Whatever a sync does, or a correction of a timestamp.
LEMMA SyncKeeps ==
    ASSUME IInv, Sync
    PROVE  /\ KindInv' /\ IdInv' /\ MarkInv' /\ TimeInv'
           /\ DuringInv' /\ TickInv' /\ BackInv' /\ NoneMissed'
<1>0. expiry \in Nat
  BY Numbers DEF IInv, TypeOK
<1>1. ASSUME NEW t \in Syncs, NEW b \in Blocks, NEW v \in Values \cup {None}, SyncWrite(t, b, v)
      PROVE  /\ KindInv' /\ IdInv' /\ MarkInv' /\ TimeInv'
             /\ DuringInv' /\ TickInv' /\ BackInv' /\ NoneMissed'
  <2>1. UNCHANGED <<row, facts, watermark, local, lock, late, during, expiry>>
    BY <1>1 DEF SyncWrite, target
  <2>. QED
    BY <1>0, <1>1, <2>1, WriteKeeps, RowsUntouched
<1>2. ASSUME NEW t \in Syncs, SyncCommit(t)
      PROVE  /\ KindInv' /\ IdInv' /\ MarkInv' /\ TimeInv'
             /\ DuringInv' /\ TickInv' /\ BackInv' /\ NoneMissed'
  BY <1>2, CommitKeepsIds, CommitKeepsWork
<1>3. ASSUME NEW t \in Syncs, SyncAbort(t)
      PROVE  /\ KindInv' /\ IdInv' /\ MarkInv' /\ TimeInv'
             /\ DuringInv' /\ TickInv' /\ BackInv' /\ NoneMissed'
  <2>1. /\ UNCHANGED <<row, facts, watermark, local, lock, late, during, expiry, seq, stamp>>
        /\ txn' = [txn EXCEPT ![t] = NoTxn]
    BY <1>3 DEF SyncAbort, target
  <2>2. MarkInv' /\ TimeInv'
    BY <2>1 DEF IInv, MarkInv, Seen, TimeInv, Stored, local
  <2>3. \A u \in Syncs : txn'[u] = IF u = t THEN NoTxn ELSE txn[u]
    BY <2>1 DEF IInv, TypeOK
  <2>4. ASSUME NEW u \in Syncs, NEW s \in Syncs, txn'[u] # NoTxn, txn'[u].block = txn'[s].block
        PROVE  u = s
    <3>1. u # t /\ txn'[u] = txn[u] /\ txn[u].block \in Blocks
      BY <2>3, <2>4 DEF IInv, IdInv
    <3>2. s # t
      BY <2>3, <2>4, <3>1, Numbers DEF NoTxn
    <3>. QED
      BY <2>3, <2>4, <3>1, <3>2 DEF IInv, IdInv
  <2>5. IdInv'
    BY <2>1, <2>3, <2>4 DEF IInv, IdInv
  <2>. QED
    BY <1>0, <2>1, <2>2, <2>5, RowsUntouched
<1>4. ASSUME NEW b \in Blocks, NEW ts \in Times, SetTimestamp(b, ts)
      PROVE  /\ KindInv' /\ IdInv' /\ MarkInv' /\ TimeInv'
             /\ DuringInv' /\ TickInv' /\ BackInv' /\ NoneMissed'
  <2>1. /\ UNCHANGED <<row, facts, watermark, local, lock, late, during, expiry, seq, txn>>
        /\ stamp' = [stamp EXCEPT ![b] = ts]
    BY <1>4 DEF SetTimestamp, target
  <2>2. IdInv' /\ MarkInv'
    BY <2>1 DEF IInv, IdInv, MarkInv, Seen, local
  <2>3. TimeInv'
    BY <2>1, Numbers DEF IInv, TypeOK, TimeInv, Stored, local
  <2>. QED
    BY <1>0, <2>1, <2>2, <2>3, RowsUntouched
<1>. QED
  BY <1>1, <1>2, <1>3, <1>4 DEF Sync

\* Time only shortens what a worker answers for.
LEMMA TimeKeeps ==
    ASSUME IInv, TimePasses
    PROVE  /\ KindInv' /\ IdInv' /\ MarkInv' /\ TimeInv'
           /\ DuringInv' /\ TickInv' /\ BackInv' /\ NoneMissed'
<1>1. /\ UNCHANGED <<source, target, lock, local, late, during>>
      /\ expiry \in Nat /\ expiry' \in Nat /\ expiry' >= expiry
      /\ \A w \in Workers : asOf[w] \in Nat
  BY Numbers DEF TimePasses, IInv, TypeOK
<1>2. IdInv' /\ MarkInv' /\ TimeInv'
  BY <1>1 DEF IInv, IdInv, MarkInv, Seen, TimeInv, Stored, source, target, local
<1>. QED
  BY <1>1, <1>2, RowsUntouched DEF source, target
-----------------------------------------------------------------------------
(* Nothing is missed: what a worker does itself. *)

\* The worker that has begun works alone; a free lock means that nobody works.
LEMMA Alone ==
    ASSUME LockInv
    PROVE  /\ \A w \in Workers : pc[w] # "off" =>
                 lock = w /\ \A v \in Workers : v # w => pc[v] = "off"
           /\ lock = None => \A v \in Workers : pc[v] = "off"
  BY Numbers DEF LockInv

\* However a worker ends, what is said of workers at work is said of none.
LEMMA EndKeeps ==
    ASSUME IInv, NEW w \in Workers, pc[w] # "off", LeaveOff(w),
           UNCHANGED <<source, expiry>>,
           watermark' \in {watermark, Larger(watermark, top[w])}
    PROVE  KindInv' /\ IdInv' /\ MarkInv' /\ TimeInv' /\ DuringInv' /\ TickInv' /\ BackInv'
<1>1. \A v \in Workers : pc'[v] = "off"
  BY Alone DEF IInv, LockInv, LeaveOff, Goto
<1>2. KindInv' /\ TickInv' /\ BackInv'
  BY <1>1, Numbers DEF KindInv, TickInv, BackInv
<1>3. DuringInv'
  BY DEF DuringInv, LeaveOff
<1>4. IdInv'
  BY DEF IInv, IdInv, source
<1>5. MarkInv'
  <2>1. Seen(watermark')
    BY DEF IInv, MarkInv, Larger
  <2>. QED
    BY <1>1, <2>1 DEF MarkInv, Seen, source
<1>6. TimeInv'
  <2>1. \A v \in Workers : asOf'[v] <= expiry
    BY Numbers DEF IInv, TypeOK, TimeInv, LeaveOff
  <2>. QED
    BY <2>1 DEF IInv, TimeInv, Stored, source
<1>. QED
  BY <1>2, <1>3, <1>4, <1>5, <1>6

\* A worker begins when no other is at work, with the greatest id in front of it.
LEMMA BeginKeeps ==
    ASSUME IInv, NEW w \in Workers, TakeLock(w), top' = [top EXCEPT ![w] = CurrentMax],
           Goto(w, "reconcile"), UNCHANGED <<source, watermark, late, during, expiry>>,
           asOf' = asOf \/ asOf' = [asOf EXCEPT ![w] = expiry]
    PROVE  /\ KindInv' /\ IdInv' /\ MarkInv' /\ TimeInv' /\ DuringInv'
           /\ pc'[w] = "reconcile" /\ \A v \in Workers : v # w => pc'[v] = "off"
           /\ top'[w] = CurrentMax
<1>1. /\ \A v \in Workers : pc'[v] = IF v = w THEN "reconcile" ELSE "off"
      /\ \A v \in Workers : top'[v] = IF v = w THEN CurrentMax ELSE top[v]
  BY Alone DEF IInv, TypeOK, TakeLock, Goto
<1>2. KindInv' /\ IdInv'
  BY <1>1 DEF KindInv, IInv, IdInv, source
<1>3. DuringInv'
  BY Numbers DEF IInv, DuringInv, TakeLock
<1>4. MarkInv'
  <2>1. /\ CurrentMax \in Nat /\ watermark \in Nat /\ seq \in Nat
        /\ \A b \in Blocks : row[b].id \in Nat /\ row[b].id <= seq /\ row[b].id <= CurrentMax
        /\ CurrentMax # 0 => \E b \in Blocks : row[b].id = CurrentMax
    BY CurrentMaxOf DEF IInv, TypeOK, IdInv
  <2>2. Seen(CurrentMax) /\ watermark <= CurrentMax
    BY <2>1 DEF IInv, MarkInv, Seen
  <2>. QED
    BY <1>1, <2>2 DEF IInv, MarkInv, Seen, source
<1>5. TimeInv'
  <2>1. \A v \in Workers : asOf'[v] <= expiry
    <3>1. asOf \in [Workers -> 0..MaxExpiry] /\ expiry \in Nat /\ \A v \in Workers : asOf[v] <= expiry
      BY Numbers DEF IInv, TypeOK, TimeInv
    <3>2. ASSUME NEW v \in Workers PROVE asOf'[v] \in {asOf[v], expiry}
      BY <3>1
    <3>. QED
      BY ONLY <3>1, <3>2
  <2>2. UNCHANGED <<row, stamp, expiry>>
    BY DEF source
  <2>3. TimeInv
    BY DEF IInv
  <2>. QED
    BY ONLY <2>1, <2>2, <2>3 DEF TimeInv, Stored
<1>. QED
  BY <1>1, <1>2, <1>3, <1>4, <1>5

\* A step within a transaction: nothing that others see is changed.
LEMMA StepKeeps ==
    ASSUME IInv, NEW w \in Workers, pc[w] # "off", NEW label \in Labels \ {"off"}, Goto(w, label),
           label \in {"sweep", "expire", "commit"} => w \in Ticks,
           label = "finish" => w \in Backfills,
           UNCHANGED <<source, watermark, lock, top, asOf, expiry, late, during>>
    PROVE  /\ KindInv' /\ IdInv' /\ MarkInv' /\ TimeInv' /\ DuringInv'
           /\ pc'[w] = label /\ \A v \in Workers : v # w => pc'[v] = "off"
<1>1. \A v \in Workers : pc'[v] = IF v = w THEN label ELSE "off"
  BY Alone DEF IInv, TypeOK, Goto
<1>2. KindInv' /\ IdInv'
  BY <1>1 DEF KindInv, IInv, IdInv, source
<1>3. MarkInv' /\ TimeInv'
  BY <1>1 DEF IInv, MarkInv, Seen, TimeInv, Stored, source
<1>4. DuringInv'
  BY <1>1, Numbers DEF IInv, DuringInv, Safe, source
<1>. QED
  BY <1>1, <1>2, <1>3, <1>4

\* Facts that are not committed leave what is said of the committed ones.
LEMMA NothingCommitted ==
    ASSUME IInv, UNCHANGED <<row, facts, watermark, expiry, late>>
    PROVE  NoneMissed'
  BY DEF IInv, NoneMissed, Outdated, Stored, Wanted

\* A tick that begins finds every outdated block in its range, or committed late.
LEMMA TickBeginKeeps ==
    ASSUME IInv, NEW w \in Ticks, TickBegin(w)
    PROVE  KindInv' /\ IdInv' /\ MarkInv' /\ TimeInv' /\ DuringInv' /\ TickInv' /\ BackInv' /\ NoneMissed'
<1>1. /\ KindInv' /\ IdInv' /\ MarkInv' /\ TimeInv' /\ DuringInv'
      /\ pc'[w] = "reconcile" /\ \A v \in Workers : v # w => pc'[v] = "off"
      /\ top'[w] = CurrentMax
  BY BeginKeeps, Numbers DEF TickBegin, target
<1>2. BackInv'
  BY <1>1, Numbers DEF BackInv
<1>3. NoneMissed'
  BY NothingCommitted DEF TickBegin, source, target
<1>4. TickInv'
  <2>. SUFFICES ASSUME NEW b \in Blocks, Concern(w, b)', work'[w][b].val # Wanted(b)'
                PROVE  b \in TickRange(w)'
    BY <1>1, Numbers DEF TickInv
  <2>1. /\ UNCHANGED <<row, watermark, late, expiry>> /\ work'[w] = facts
    BY Numbers DEF TickBegin, source, target, IInv, TypeOK
  <2>2. Stored(b) /\ b \notin Untimed /\ b > expiry /\ b \notin late /\ facts[b].val # Wanted(b)
    BY <2>1 DEF Concern, Safe, Stored, Wanted
  <2>3. row[b].id > watermark - Margin
    BY <2>2 DEF IInv, NoneMissed, Outdated
  <2>4. row[b].id \in Nat /\ row[b].id > 0 /\ row[b].id <= CurrentMax
    BY <2>2, CurrentMaxOf DEF IInv, TypeOK, Stored
  <2>. QED
    BY <1>1, <2>1, <2>3, <2>4 DEF TickRange, Larger
<1>. QED
  BY <1>1, <1>2, <1>3, <1>4

\* A step of a tick leaves the facts of the blocks it answers for as TickInv says.
LEMMA TickWorks ==
    ASSUME IInv, NEW w \in Ticks, pc[w] # "off",
           \E label \in Labels \ {"off", "finish"} : Goto(w, label),
           UNCHANGED <<source, target, lock, top, asOf, range, expiry, late, during>>,
           \A b \in Blocks : Concern(w, b) =>
              /\ pc'[w] = "reconcile" => work'[w][b].val = Wanted(b) \/ b \in TickRange(w)
              /\ pc'[w] = "upsert" => \/ work'[w][b].val = Wanted(b)
                                      \/ b \in TickRange(w) /\ Wanted(b) # None
              /\ pc'[w] \in {"sweep", "expire", "commit"} => work'[w][b].val = Wanted(b)
    PROVE  KindInv' /\ IdInv' /\ MarkInv' /\ TimeInv' /\ DuringInv' /\ TickInv' /\ BackInv' /\ NoneMissed'
<1>1. w \in Workers
  BY Numbers
<1>2. /\ KindInv' /\ IdInv' /\ MarkInv' /\ TimeInv' /\ DuringInv'
      /\ \A v \in Workers : v # w => pc'[v] = "off"
  <2>1. PICK label \in Labels \ {"off", "finish"} : Goto(w, label)
    OBVIOUS
  <2>. QED
    BY <1>1, <2>1, StepKeeps DEF target
<1>3. BackInv'
  BY <1>1, <1>2, Numbers DEF BackInv
<1>4. NoneMissed'
  BY NothingCommitted DEF source, target
<1>5. TickInv'
  <2>. SUFFICES ASSUME NEW b \in Blocks, Concern(w, b)'
                PROVE  /\ pc'[w] = "reconcile" => work'[w][b].val = Wanted(b)' \/ b \in TickRange(w)'
                       /\ pc'[w] = "upsert" => \/ work'[w][b].val = Wanted(b)'
                                               \/ b \in TickRange(w)' /\ Wanted(b)' # None
                       /\ pc'[w] \in {"sweep", "expire", "commit"} => work'[w][b].val = Wanted(b)'
    BY <1>1, <1>2, Numbers DEF TickInv
  <2>1. Concern(w, b) /\ Wanted(b)' = Wanted(b) /\ TickRange(w)' = TickRange(w)
    BY DEF Concern, Safe, Stored, Wanted, TickRange, source, target
  <2>. QED
    BY <2>1
<1>. QED
  BY <1>2, <1>3, <1>4, <1>5

\* Each statement of a tick: reconcile and upsert make the facts of the rows in its
\* range, dating and expiring leave what is not expired.
LEMMA TickKeeps ==
    ASSUME IInv, NEW w \in Ticks, Reconcile(w) \/ TickUpsert(w) \/ TickSweep(w) \/ TickExpire(w)
    PROVE  KindInv' /\ IdInv' /\ MarkInv' /\ TimeInv' /\ DuringInv' /\ TickInv' /\ BackInv' /\ NoneMissed'
<1>0. w \in Workers /\ Scanned(w) = TickRange(w) /\ work \in [Workers -> [Blocks -> [val : Values \cup {None}, ts : Times \cup {0}]]]
      /\ pc \in [Workers -> Labels]
  BY Numbers DEF Scanned, IInv, TypeOK, Labels
<1>1. \A b \in Blocks : pc[w] # "off" /\ Concern(w, b) =>
        /\ pc[w] = "reconcile" => work[w][b].val = Wanted(b) \/ b \in TickRange(w)
        /\ pc[w] = "upsert" => \/ work[w][b].val = Wanted(b)
                               \/ b \in TickRange(w) /\ Wanted(b) # None
        /\ pc[w] \in {"sweep", "expire", "commit"} => work[w][b].val = Wanted(b)
  BY DEF IInv, TickInv
<1>2. CASE Reconcile(w)
  <2>1. /\ pc[w] = "reconcile" /\ Goto(w, "upsert") /\ pc'[w] = "upsert"
        /\ \A b \in Blocks : work'[w][b] = IF b \in Unqualified(w) THEN NoFact ELSE work[w][b]
        /\ UNCHANGED <<source, target, lock, top, asOf, range, expiry, late, during>>
    BY <1>0, <1>2 DEF Reconcile, Goto
  <2>2. ASSUME NEW b \in Blocks, Concern(w, b)
        PROVE  work'[w][b].val = Wanted(b) \/ (b \in TickRange(w) /\ Wanted(b) # None)
    <3>1. b \in Unqualified(w) <=> b \in TickRange(w) /\ Wanted(b) = None
      BY <1>0, <2>2 DEF Unqualified, Concern
    <3>2. b \in Unqualified(w) => work'[w][b].val = None
      BY <2>1 DEF NoFact
    <3>. QED
      BY <1>1, <2>1, <2>2, <3>1, <3>2
  <2>. QED
    BY <2>1, <2>2, TickWorks DEF Labels
<1>3. CASE TickUpsert(w)
  <2>1. /\ pc[w] = "upsert" /\ Goto(w, "sweep") /\ pc'[w] = "sweep" /\ work'[w] = WithUpserts(w)
        /\ UNCHANGED <<source, target, lock, top, asOf, range, expiry, late, during>>
    BY <1>0, <1>3 DEF TickUpsert, Goto
  <2>2. \A b \in Blocks : Concern(w, b) => work'[w][b].val = Wanted(b)
    BY <1>0, <1>1, <2>1, UpsertTypes DEF IInv
  <2>. QED
    BY <2>1, <2>2, TickWorks DEF Labels
<1>4. CASE TickSweep(w)
  <2>1. /\ pc[w] = "sweep" /\ Goto(w, "expire") /\ pc'[w] = "expire"
        /\ \A b \in Blocks : work'[w][b] =
              IF b \in Datable(w) /\ work[w][b].val # None /\ work[w][b].ts = 0
              THEN [work[w][b] EXCEPT !.ts = stamp[b]] ELSE work[w][b]
        /\ UNCHANGED <<source, target, lock, top, asOf, range, expiry, late, during>>
    BY <1>0, <1>4 DEF TickSweep, Goto
  <2>2. ASSUME NEW b \in Blocks PROVE work'[w][b].val = work[w][b].val
    <3>1. work[w][b] \in [val : Values \cup {None}, ts : Times \cup {0}]
      BY <1>0
    <3>2. [work[w][b] EXCEPT !.ts = stamp[b]].val = work[w][b].val
      BY <3>1
    <3>. QED
      BY <2>1, <3>2
  <2>. QED
    BY <1>1, <2>1, <2>2, TickWorks DEF Labels
<1>5. CASE TickExpire(w)
  <2>. DEFINE S == {0} \cup {b \in Blocks : stamp[b] # 0 /\ b <= asOf[w]}
  <2>1. S \in SUBSET (0..MaxBlock) /\ S # {} /\ MaxBlock \in Nat
    <3>1. Blocks \subseteq 0..MaxBlock /\ 0 \in 0..MaxBlock
      BY Numbers
    <3>. QED
      BY <3>1, Numbers
  <2>. HIDE DEF S
  <2>2. Greatest(S) \in S
    BY <2>1, GreatestOf
  <2>3. asOf[w] \in Nat /\ asOf[w] <= expiry /\ expiry \in Nat
    BY <1>0, Numbers DEF IInv, TypeOK, TimeInv
  <2>4. Greatest(S) \in Nat /\ Greatest(S) <= asOf[w]
    <3>1. \A x \in S : x \in Nat /\ x <= asOf[w]
      BY <2>3, Numbers DEF S
    <3>. QED
      BY <2>2, <3>1
  <2>5. ASSUME NEW b \in Blocks, b \in Expired(w) PROVE b <= expiry
    <3>1. b <= asOf[w] \/ b <= Greatest(S)
      BY <2>5 DEF Expired, S
    <3>. QED
      BY <2>3, <2>4, <3>1, Numbers
  <2>6. /\ pc[w] = "expire" /\ Goto(w, "commit") /\ pc'[w] = "commit"
        /\ \A b \in Blocks : work'[w][b] = IF b \in Expired(w) THEN NoFact ELSE work[w][b]
        /\ UNCHANGED <<source, target, lock, top, asOf, range, expiry, late, during>>
    BY <1>0, <1>5 DEF TickExpire, Goto
  <2>7. \A b \in Blocks : Concern(w, b) => work'[w][b].val = Wanted(b)
    <3>1. \A b \in Blocks : Concern(w, b) => b \notin Expired(w)
      BY <2>3, <2>5, Numbers DEF Concern
    <3>. QED
      BY <1>1, <2>6, <3>1
  <2>. QED
    BY <2>6, <2>7, TickWorks DEF Labels
<1>. QED
  BY <1>2, <1>3, <1>4, <1>5

\* The facts and the watermark of a tick become visible together: what it has not made a
\* fact of is above the new watermark's margin, or late.
LEMMA TickCommitKeeps ==
    ASSUME IInv, NEW w \in Ticks, TickCommit(w)
    PROVE  KindInv' /\ IdInv' /\ MarkInv' /\ TimeInv' /\ DuringInv' /\ TickInv' /\ BackInv' /\ NoneMissed'
<1>1. /\ w \in Workers /\ pc[w] = "commit" /\ facts' = work[w]
      /\ watermark' = Larger(watermark, top[w]) /\ UNCHANGED <<source, expiry, late>>
  BY Numbers DEF TickCommit
<1>2. KindInv' /\ IdInv' /\ MarkInv' /\ TimeInv' /\ DuringInv' /\ TickInv' /\ BackInv'
  BY <1>1, EndKeeps DEF TickCommit
<1>3. NoneMissed'
  <2>. SUFFICES ASSUME NEW b \in Blocks \ Untimed, Stored(b), work[w][b].val # Wanted(b), b > expiry
                PROVE  row[b].id > watermark' - Margin \/ b \in late
    BY <1>1 DEF NoneMissed, Outdated, Stored, Wanted, source
  <2>1. Safe(w, b)
    BY <1>1 DEF IInv, TickInv, Concern
  <2>2. watermark' = top[w]
    <3>1. pc[w] # "off" /\ watermark \in Nat /\ top[w] \in Nat
      BY <1>1 DEF IInv, TypeOK
    <3>2. watermark <= top[w]
      BY <1>1, <3>1 DEF IInv, MarkInv
    <3>. QED
      BY <1>1, <3>1, <3>2 DEF Larger
  <2>. QED
    BY <2>1, <2>2 DEF Safe
<1>. QED
  BY <1>2, <1>3

\* An execution that is cut off has changed nothing but who has the lock.
LEMMA AbortKeeps ==
    ASSUME IInv, NEW w \in Workers, Abort(w)
    PROVE  KindInv' /\ IdInv' /\ MarkInv' /\ TimeInv' /\ DuringInv' /\ TickInv' /\ BackInv' /\ NoneMissed'
<1>1. KindInv' /\ IdInv' /\ MarkInv' /\ TimeInv' /\ DuringInv' /\ TickInv' /\ BackInv'
  BY EndKeeps DEF Abort, target
<1>2. NoneMissed'
  BY NothingCommitted DEF Abort, source, target
<1>. QED
  BY <1>1, <1>2

\* A derived range reaches from the first block of the window to the last: what is
\* stored outside of it has expired.
LEMMA BackfillBeginKeeps ==
    ASSUME IInv, Skips \subseteq {0}, NEW w \in Backfills,
           \/ \E lo, hi \in Blocks : BackfillRange(w, lo, hi)
           \/ \E skip \in Skips : BackfillDays(w, skip)
    PROVE  KindInv' /\ IdInv' /\ MarkInv' /\ TimeInv' /\ DuringInv' /\ TickInv' /\ BackInv' /\ NoneMissed'
<1>1. PICK lo \in Blocks, hi \in Blocks, derived \in BOOLEAN :
              /\ BackfillOver(w, lo, hi, derived) /\ lo <= hi
              /\ derived => \E skip \in Skips : \A b \in Blocks :
                               stamp[b] # 0 /\ b > expiry + skip => lo <= b /\ b <= hi
  BY BackfillIsOver DEF IInv
<1>2. /\ KindInv' /\ IdInv' /\ MarkInv' /\ TimeInv' /\ DuringInv'
      /\ pc'[w] = "reconcile" /\ \A v \in Workers : v # w => pc'[v] = "off"
      /\ top'[w] = CurrentMax
  BY <1>1, BeginKeeps, Numbers DEF BackfillOver, target
<1>3. TickInv'
  BY <1>2, Numbers DEF TickInv
<1>4. NoneMissed'
  BY <1>1, NothingCommitted DEF BackfillOver, source, target
<1>5. /\ w \in Workers /\ work'[w] = facts /\ from'[w] = lo /\ lowest'[w] = lo /\ upto'[w] = hi
      /\ advance'[w] = derived /\ UNCHANGED <<row, facts, expiry>>
  BY <1>1, Numbers DEF BackfillOver, IInv, TypeOK, source, target
<1>6. ASSUME derived, NEW b \in Blocks \ Untimed, Stored(b), ~(b <= expiry)
      PROVE  lo <= b /\ b <= hi
  <2>1. stamp[b] # 0
    BY <1>6 DEF IInv, TimeInv
  <2>2. expiry \in Nat /\ b \in Nat
    BY Numbers DEF IInv, TypeOK
  <2>. QED
    BY <1>1, <1>6, <2>1, <2>2
<1>7. BackInv'
  <2>. SUFFICES
        /\ lo \in Blocks /\ lo <= lo /\ lo <= hi
        /\ \A b \in Blocks :
             /\ work'[w][b] = facts'[b]
             /\ Stored(b) => /\ b \in lo..hi /\ b < lo => facts[b].val = Wanted(b)
                             /\ derived => b \in (lo..hi) \cup Untimed \/ b <= expiry
    BY <1>2, <1>5, Numbers DEF BackInv, Stored, Wanted, Extent
  <2>1. lo \in Nat /\ hi \in Nat /\ \A b \in Blocks : b \in Nat
    BY Numbers
  <2>2. \A b \in Blocks : Stored(b) /\ derived => b \in (lo..hi) \cup Untimed \/ b <= expiry
    BY <1>6, <2>1
  <2>. QED
    BY <1>1, <1>5, <2>1, <2>2
<1>. QED
  BY <1>2, <1>3, <1>4, <1>7
\* Where a chunk ends, and what it scans.
LEMMA Chunks ==
    ASSUME IInv, NEW w \in Backfills, pc[w] \in {"reconcile", "upsert"}
    PROVE  /\ from[w] \in Nat /\ upto[w] \in Nat /\ lowest[w] \in Nat /\ upto[w] <= MaxBlock
           /\ ChunkEnd(w) \in Nat /\ from[w] <= ChunkEnd(w) /\ ChunkEnd(w) <= upto[w]
           /\ \A b \in Blocks : b \in Scanned(w) <=> Stored(b) /\ b \in Chunk(w)
           /\ \A b \in Blocks : b \in Chunk(w) <=> from[w] <= b /\ b <= ChunkEnd(w)
<1>1. w \in Workers /\ w \notin Ticks
  BY Numbers
<1>2. from[w] \in Nat /\ upto[w] \in Nat /\ lowest[w] \in Nat /\ upto[w] <= MaxBlock
  BY <1>1, Numbers DEF IInv, TypeOK
<1>3. from[w] <= upto[w]
  BY DEF IInv, BackInv
<1>4. ChunkEnd(w) \in Nat /\ from[w] <= ChunkEnd(w) /\ ChunkEnd(w) <= upto[w]
  BY <1>2, <1>3, Numbers DEF ChunkEnd, Lesser
<1>5. \A b \in Blocks : b \in Chunk(w) <=> from[w] <= b /\ b <= ChunkEnd(w)
  BY <1>2, <1>4, Numbers DEF Chunk
<1>. QED
  BY <1>1, <1>2, <1>4, <1>5 DEF Scanned, ChunkRange

\* A backfill deletes, in the chunk, the facts that no snapshot calls for.
LEMMA BackfillReconcileKeeps ==
    ASSUME IInv, NEW w \in Backfills, Reconcile(w)
    PROVE  KindInv' /\ IdInv' /\ MarkInv' /\ TimeInv' /\ DuringInv' /\ TickInv' /\ BackInv' /\ NoneMissed'
<1>1. /\ w \in Workers /\ pc[w] = "reconcile" /\ Goto(w, "upsert")
      /\ UNCHANGED <<source, target, lock, top, asOf, range, expiry, late, during>>
      /\ \A b \in Blocks : work'[w][b] = IF b \in Unqualified(w) THEN NoFact ELSE work[w][b]
  BY Numbers DEF Reconcile, IInv, TypeOK
<1>2. /\ KindInv' /\ IdInv' /\ MarkInv' /\ TimeInv' /\ DuringInv'
      /\ pc'[w] = "upsert" /\ \A v \in Workers : v # w => pc'[v] = "off"
  BY <1>1, StepKeeps DEF Labels, target
<1>3. TickInv'
  BY <1>2, Numbers DEF TickInv
<1>4. NoneMissed'
  BY <1>1, NothingCommitted DEF source, target
<1>5. BackInv'
  <2>. SUFFICES ASSUME NEW b \in Blocks
                PROVE  /\ b \notin Chunk(w) => work'[w][b] = facts[b]
                       /\ Stored(b) /\ b \in Chunk(w) /\ Wanted(b) = None => work'[w][b].val = None
    BY <1>1, <1>2, Numbers
       DEF IInv, BackInv, source, target, range, Stored, Wanted, Chunk, ChunkEnd, Extent
  <2>1. b \in Unqualified(w) <=> Stored(b) /\ b \in Chunk(w) /\ Wanted(b) = None
    BY <1>1, Chunks DEF Unqualified
  <2>2. work[w][b] = facts[b]
    BY <1>1 DEF IInv, BackInv
  <2>. QED
    BY <1>1, <2>1, <2>2 DEF NoFact
<1>. QED
  BY <1>2, <1>3, <1>4, <1>5

\* A chunk that is committed leaves its facts right, except for what has been committed
\* since the backfill began.
LEMMA BackfillUpsertKeeps ==
    ASSUME IInv, NEW w \in Backfills, BackfillUpsert(w)
    PROVE  KindInv' /\ IdInv' /\ MarkInv' /\ TimeInv' /\ DuringInv' /\ TickInv' /\ BackInv' /\ NoneMissed'
<1>. DEFINE label == IF NextChunk(w) <= upto[w] THEN "reconcile" ELSE "finish"
<1>1. /\ w \in Workers /\ pc[w] = "upsert" /\ Goto(w, label)
      /\ facts' = WithUpserts(w) /\ work'[w] = WithUpserts(w)
      /\ UNCHANGED <<source, watermark, lock, top, asOf, upto, lowest, advance, expiry, late, during>>
  BY Numbers DEF BackfillUpsert, IInv, TypeOK
<1>2. /\ from[w] \in Nat /\ upto[w] \in Nat /\ lowest[w] \in Nat
      /\ ChunkEnd(w) \in Nat /\ from[w] <= ChunkEnd(w) /\ ChunkEnd(w) <= upto[w]
      /\ NextChunk(w) = ChunkEnd(w) + 1 /\ from'[w] = NextChunk(w)
  <2>1. from'[w] = Lesser(NextChunk(w), MaxBlock + 1)
    BY <1>1 DEF BackfillUpsert, IInv, TypeOK
  <2>. QED
    BY <1>1, <2>1, Chunks, Numbers DEF NextChunk, Lesser
<1>3. /\ KindInv' /\ IdInv' /\ MarkInv' /\ TimeInv' /\ DuringInv'
      /\ pc'[w] = label /\ \A v \in Workers : v # w => pc'[v] = "off"
  BY <1>1, StepKeeps DEF Labels
<1>4. TickInv'
  BY <1>3, Numbers DEF TickInv
<1>5. \A b \in Blocks : b \notin Chunk(w) => facts'[b].val = facts[b].val
  <2>. SUFFICES ASSUME NEW b \in Blocks, b \notin Chunk(w)
                PROVE  facts'[b].val = facts[b].val
    OBVIOUS
  <2>1. work[w][b] = facts[b]
    BY <1>1 DEF IInv, BackInv
  <2>. QED
    BY <1>1, <2>1, Chunks, UpsertTypes DEF IInv
<1>6. ASSUME NEW b \in Blocks, b \in Chunk(w), Stored(b), b \notin during
      PROVE  facts'[b].val = Wanted(b)
  <2>1. Wanted(b) = None => work[w][b].val = None
    BY <1>1, <1>6 DEF IInv, BackInv
  <2>2. b \in Scanned(w)
    BY <1>1, <1>6, Chunks
  <2>. QED
    BY <1>1, <2>1, <2>2, UpsertTypes DEF IInv
<1>7. NoneMissed'
  <2>. SUFFICES ASSUME NEW b \in Blocks \ Untimed, Stored(b), facts'[b].val # Wanted(b), b > expiry
                PROVE  row[b].id > watermark - Margin \/ b \in late
    BY <1>1 DEF NoneMissed, Outdated, Stored, Wanted, source
  <2>1. CASE b \notin Chunk(w)
    BY <1>5, <2>1 DEF IInv, NoneMissed, Outdated
  <2>2. CASE b \in Chunk(w)
    <3>1. Safe(w, b)
      BY <1>1, <1>6, <2>2 DEF IInv, DuringInv
    <3>2. /\ watermark <= top[w] /\ watermark \in Nat /\ top[w] \in Nat
          /\ row[b].id \in Nat /\ Margin \in Nat
      BY <1>1, Numbers DEF IInv, MarkInv, TypeOK
    <3>. QED
      BY <3>1, <3>2 DEF Safe
  <2>. QED
    BY <2>1, <2>2
<1>8. BackInv'
  <2>1. pc'[w] = "reconcile" => from'[w] <= upto[w]
    BY <1>2, <1>3
  <2>2. pc'[w] = "finish" => from'[w] > upto[w]
    BY <1>2, <1>3
  <2>3. pc'[w] \in {"reconcile", "finish"}
    BY <1>3
  <2>4. lowest[w] \in Blocks /\ lowest[w] <= from'[w] /\ lowest[w] <= upto[w]
    <3>1. lowest[w] \in Blocks /\ lowest[w] <= from[w] /\ lowest[w] <= upto[w]
      BY <1>1 DEF IInv, BackInv
    <3>. QED
      BY <1>2, <3>1
  <2>5. ASSUME NEW b \in Blocks, Stored(b), b \notin during, b \in Extent(w), b < from'[w]
        PROVE  facts'[b].val = Wanted(b)
    <3>1. CASE b \in Chunk(w)
      BY <1>6, <2>5, <3>1
    <3>2. CASE b \notin Chunk(w)
      <4>1. b < from[w]
        BY <1>1, <1>2, <2>5, <3>2, Chunks, Numbers
      <4>2. facts[b].val = Wanted(b)
        BY <1>1, <2>5, <4>1 DEF IInv, BackInv
      <4>. QED
        BY <1>5, <3>2, <4>2
    <3>. QED
      BY <3>1, <3>2
  <2>6. ASSUME NEW b \in Blocks, Stored(b), b \notin during, advance[w]
        PROVE  b \in Extent(w) \cup Untimed \/ b <= expiry
    BY <1>1, <2>6 DEF IInv, BackInv
  <2>7. /\ \A b \in Blocks : Wanted(b)' = Wanted(b) /\ (Stored(b)' <=> Stored(b))
        /\ Extent(w)' = Extent(w)
        /\ UNCHANGED <<during, advance, expiry, upto, lowest>> /\ work'[w] = facts'
    BY <1>1 DEF Wanted, Stored, Extent, source
  <2>8. \A v \in Backfills : pc'[v] # "off" => v = w
    BY <1>3, Numbers
  <2>. QED
    BY <2>1, <2>2, <2>3, <2>4, <2>5, <2>6, <2>7, <2>8 DEF BackInv
<1>. QED
  BY <1>3, <1>4, <1>7, <1>8

\* A backfill that is through has repaired its range but for what was committed while it
\* worked, which is safe; a derived range leaves nothing else that has not expired.
LEMMA BackfillFinishKeeps ==
    ASSUME IInv, NEW w \in Backfills, BackfillFinish(w)
    PROVE  KindInv' /\ IdInv' /\ MarkInv' /\ TimeInv' /\ DuringInv' /\ TickInv' /\ BackInv' /\ NoneMissed'
<1>1. /\ w \in Workers /\ pc[w] = "finish"
      /\ watermark' = IF advance[w] THEN Larger(watermark, top[w]) ELSE watermark
      /\ late' = late \ (Extent(w) \ during)
      /\ UNCHANGED <<source, facts, expiry>> /\ LeaveOff(w)
  BY Numbers DEF BackfillFinish, Extent
<1>2. KindInv' /\ IdInv' /\ MarkInv' /\ TimeInv' /\ DuringInv' /\ TickInv' /\ BackInv'
  BY <1>1, EndKeeps
<1>3. NoneMissed'
  <2>. SUFFICES ASSUME NEW b \in Blocks \ Untimed, Outdated(b), b > expiry
                PROVE  row[b].id > watermark' - Margin \/ b \in late'
    BY <1>1 DEF NoneMissed, Outdated, Stored, Wanted, source
  <2>1. /\ watermark <= top[w] /\ watermark \in Nat /\ top[w] \in Nat /\ expiry \in Nat
        /\ row[b].id \in Nat /\ Margin \in Nat
        /\ from[w] \in Nat /\ upto[w] \in Nat /\ lowest[w] \in Nat /\ b \in Nat
    BY <1>1, Numbers DEF IInv, MarkInv, TypeOK
  <2>2. watermark' <= top[w] /\ watermark' \in Nat /\ (~advance[w] => watermark' = watermark)
    BY <1>1, <2>1 DEF Larger
  <2>3. CASE b \in during
    <3>1. Safe(w, b)
      BY <1>1, <2>3 DEF IInv, DuringInv
    <3>. QED
      BY <1>1, <2>1, <2>2, <2>3, <3>1 DEF Safe
  <2>4. CASE b \notin during
    <3>1. b \notin Extent(w)
      <4>1. b \in Extent(w) => b < from[w]
        BY <1>1, <2>1 DEF IInv, BackInv, Extent
      <4>. QED
        BY <1>1, <2>4, <4>1 DEF IInv, BackInv, Outdated
    <3>2. ~advance[w]
      <4>1. advance[w] => b <= expiry
        BY <1>1, <2>4, <3>1 DEF IInv, BackInv, Outdated
      <4>. QED
        BY <2>1, <4>1
    <3>3. row[b].id > watermark - Margin \/ b \in late
      BY DEF IInv, NoneMissed
    <3>. QED
      BY <1>1, <2>2, <3>1, <3>2, <3>3
  <2>. QED
    BY <2>3, <2>4
<1>. QED
  BY <1>2, <1>3

\* The watermark hides no block that gets its timestamp with its snapshot, whatever
\* syncs commit while ticks and backfills work, if a derived range reaches as far back as
\* the facts are kept.
THEOREM NoTimedBlockIsMissed ==
    ASSUME Skips \subseteq {0}
    PROVE  Spec => []NoneMissed
<1>. DEFINE Parts == /\ KindInv /\ IdInv /\ MarkInv /\ TimeInv
                     /\ DuringInv /\ TickInv /\ BackInv /\ NoneMissed
<1>1. Init => Parts
  <2>. SUFFICES ASSUME Init PROVE Parts
    OBVIOUS
  <2>1. /\ \A w \in Workers : pc[w] = "off" /\ asOf[w] = 0
        /\ \A b \in Blocks : row[b].id = 0
        /\ \A t \in Syncs : txn[t] = NoTxn
        /\ seq = 0 /\ watermark = 0 /\ expiry = 0 /\ during = {}
    BY DEF Init, NoRow
  <2>2. KindInv /\ TickInv /\ BackInv
    BY <2>1, Numbers DEF KindInv, TickInv, BackInv
  <2>3. IdInv
    BY <2>1 DEF IdInv
  <2>4. MarkInv
    BY <2>1 DEF MarkInv, Seen
  <2>5. TimeInv /\ DuringInv
    BY <2>1, Numbers DEF TimeInv, DuringInv, Stored
  <2>6. NoneMissed
    BY <2>1 DEF NoneMissed, Outdated, Stored
  <2>. QED
    BY <2>2, <2>3, <2>4, <2>5, <2>6
<1>2. TypeOK /\ LockInv /\ Parts /\ [Next]_vars => Parts'
  <2>. SUFFICES ASSUME IInv, [Next]_vars PROVE Parts'
    BY DEF IInv
  <2>1. CASE Sync
    BY <2>1, SyncKeeps
  <2>2. CASE TimePasses
    BY <2>2, TimeKeeps
  <2>3. ASSUME NEW w \in Ticks, Tick(w) PROVE Parts'
    BY <2>3, TickBeginKeeps, TickKeeps, TickCommitKeeps DEF Tick, TickStep
  <2>4. ASSUME NEW w \in Backfills, Backfill(w) PROVE Parts'
    BY <2>4, BackfillBeginKeeps, BackfillReconcileKeeps, BackfillUpsertKeeps,
       BackfillFinishKeeps DEF Backfill
  <2>5. ASSUME NEW w \in Workers, Abort(w) PROVE Parts'
    BY <2>5, AbortKeeps
  <2>6. CASE UNCHANGED vars
    <3>1. expiry \in Nat /\ UNCHANGED <<source, target, lock, local, late, during, expiry>>
      BY <2>6, Numbers DEF vars, IInv, TypeOK
    <3>2. IdInv' /\ MarkInv' /\ TimeInv'
      BY <3>1 DEF IInv, IdInv, MarkInv, Seen, TimeInv, Stored, source, target, local
    <3>. QED
      BY <3>1, <3>2, RowsUntouched DEF source, target
  <2>. QED
    BY <2>1, <2>2, <2>3, <2>4, <2>5, <2>6 DEF Next
<1>3. Parts => NoneMissed
  OBVIOUS
<1>. HIDE DEF Parts
<1>. QED
  BY <1>1, <1>2, <1>3, TypeCorrect, LockHeld, PTL DEF Spec

\* So where every block has a timestamp, the watermark hides nothing (NothingMissed).
\* Neither condition can be left out: README.md, section 6.
COROLLARY NothingIsMissed ==
    ASSUME Skips \subseteq {0}, Untimed = {}
    PROVE  Spec => []NothingMissed
<1>1. NoneMissed => NothingMissed
  BY DEF NoneMissed, NothingMissed
<1>. QED
  BY <1>1, NoTimedBlockIsMissed, PTL
=============================================================================
