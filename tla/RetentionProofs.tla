--------------------------- MODULE RetentionProofs ---------------------------
(***************************************************************************)
(* Pruning is safe for any number of runs, any windows, batch sizes and    *)
(* chain: a run that goes on has the lock or has lost its session, its     *)
(* cutoffs have been out of the windows since it began, and metrics are    *)
(* deleted with their snapshots.                                           *)
(***************************************************************************)
EXTENDS Retention, TLAPS

\* A run that goes on without having lost its session has the lock.
LockInv == \A r \in Runs : phase[r] # "off" => holder = r \/ r \in lost

\* Time only makes the rows behind a cutoff older.
CutoffInv ==
    \A r \in Runs : \A t \in Tables :
        cutoff[r][t] # None => cutoff[r][t] < now - WindowOf(t)

IInv == TypeOK /\ LockInv /\ CutoffInv /\ MetricsHaveSnapshot

USE RetentionAssumption

\* What compute_cutoff_block returns is a block out of the window.
LEMMA CutoffIsOld ==
    ASSUME NEW days, CutoffBlock(days) # None
    PROVE  CutoffBlock(days) \in Blocks /\ CutoffBlock(days) < now - days
<1> DEFINE old == {b \in Blocks \ Untimed : b < now - days}
<1>1. \E b \in old : IsNewest(b, old)
  BY DEF CutoffBlock, Newest
<1>2. (CHOOSE b \in old : IsNewest(b, old)) \in old
  BY <1>1
<1>3. CutoffBlock(days) = CHOOSE b \in old : IsNewest(b, old)
  BY <1>1 DEF CutoffBlock, Newest
<1>. QED
  BY <1>2, <1>3

\* A batch deletes only rows behind the cutoff.
LEMMA BatchIsExpired ==
    ASSUME NEW t \in Tables, NEW c, NEW b \in Oldest(Expired(t, c))
    PROVE  b \in rows[t] /\ c # None /\ b <= c /\ (t = "snapshot" => b \notin ValidatorBlocks)
  BY DEF Oldest, Expired

\* However a run ends, what it leaves has the right types.
LEMMA LeaveTypes ==
    ASSUME TypeOK, NEW r \in Runs, LeaveRun(r)
    PROVE  /\ holder' \in Runs \cup {None}
           /\ phase' \in [Runs -> Tables \cup {"off"}]
           /\ cutoff' \in [Runs -> [Tables -> Blocks \cup {None}]]
           /\ batches' \in [Runs -> Nat]
           /\ lost' \subseteq Runs
  BY DEF TypeOK, LeaveRun, Released, NoCutoff

\* ... and the other runs keep what they had: the lock is only released by its owner.
LEMMA LeaveKeeps ==
    ASSUME IInv, NEW r \in Runs, LeaveRun(r), now' = now
    PROVE  LockInv' /\ CutoffInv'
<1>1. LockInv'
  BY DEF IInv, TypeOK, LockInv, LeaveRun, Released
<1>2. CutoffInv'
  BY DEF IInv, TypeOK, CutoffInv, LeaveRun, NoCutoff, WindowOf
<1>. QED
  BY <1>1, <1>2

LEMMA BeginKeeps ==
    ASSUME IInv, NEW r \in Runs, BeginRun(r)
    PROVE  IInv'
<1>1. \A t \in Tables : Cutoffs[t] # None => Cutoffs[t] \in Blocks /\ Cutoffs[t] < now - WindowOf(t)
  BY CutoffIsOld DEF Cutoffs
<1>2. Cutoffs \in [Tables -> Blocks \cup {None}]
  BY <1>1 DEF Cutoffs
<1>3. TypeOK'
  BY <1>2 DEF IInv, TypeOK, BeginRun, Tables
<1>4. LockInv'
  BY DEF IInv, TypeOK, LockInv, BeginRun, MayLock
<1>5. CutoffInv'
  BY <1>1 DEF IInv, TypeOK, CutoffInv, BeginRun, WindowOf
<1>6. MetricsHaveSnapshot'
  BY DEF IInv, MetricsHaveSnapshot, BeginRun
<1>. QED
  BY <1>3, <1>4, <1>5, <1>6 DEF IInv

LEMMA DeleteKeeps ==
    ASSUME IInv, NEW r \in Runs, DeleteBatch(r)
    PROVE  IInv'
<1> DEFINE t == phase[r]
           gone == Oldest(Expired(t, cutoff[r][t]))
<1>0. t \in Tables /\ now' = now
  BY DEF IInv, TypeOK, DeleteBatch
<1>1. rows' = [rows EXCEPT ![t] = @ \ gone] /\ metrics' = WithoutMetrics(t, gone)
  BY DEF DeleteBatch
<1>2. rows' \in [Tables -> SUBSET Blocks]
  BY <1>0, <1>1 DEF IInv, TypeOK
<1>3. metrics' \subseteq Blocks /\ MetricsHaveSnapshot'
  BY <1>0, <1>1 DEF IInv, TypeOK, MetricsHaveSnapshot, WithoutMetrics, Tables
<1>4. CASE /\ batches' = [batches EXCEPT ![r] = IF MaxBatches = None THEN 0 ELSE @ + 1]
           /\ UNCHANGED <<phase, cutoff, holder, lost>>
  <2>1. batches' \in [Runs -> Nat]
    BY <1>4 DEF IInv, TypeOK
  <2>2. TypeOK'
    BY <1>0, <1>2, <1>3, <1>4, <2>1 DEF IInv, TypeOK
  <2>3. LockInv' /\ CutoffInv'
    BY <1>0, <1>4 DEF IInv, LockInv, CutoffInv
  <2>. QED
    BY <1>3, <2>2, <2>3 DEF IInv
<1>5. CASE /\ t # "extrinsics"
           /\ phase' = [phase EXCEPT ![r] = Following(t)]
           /\ batches' = [batches EXCEPT ![r] = 0]
           /\ UNCHANGED <<cutoff, holder, lost>>
  <2>1. Following(t) \in Tables
    BY <1>0, <1>5 DEF Following, Tables
  <2>2. phase' \in [Runs -> Tables \cup {"off"}] /\ batches' \in [Runs -> Nat]
    BY <1>5, <2>1 DEF IInv, TypeOK
  <2>3. TypeOK'
    BY <1>0, <1>2, <1>3, <1>5, <2>2 DEF IInv, TypeOK
  <2>4. LockInv'
    BY <1>0, <1>5 DEF IInv, TypeOK, LockInv, Tables
  <2>5. CutoffInv'
    BY <1>0, <1>5 DEF IInv, CutoffInv
  <2>. QED
    BY <1>3, <2>3, <2>4, <2>5 DEF IInv
<1>6. CASE LeaveRun(r)
  <2>1. TypeOK'
    BY <1>0, <1>2, <1>3, <1>6, LeaveTypes DEF IInv, TypeOK
  <2>. QED
    BY <1>0, <1>3, <1>6, <2>1, LeaveKeeps DEF IInv
<1>. QED
  BY <1>4, <1>5, <1>6 DEF DeleteBatch

\* The invariant is inductive.
LEMMA Inductive == IInv /\ [Next]_vars => IInv'
<1>. SUFFICES ASSUME IInv, [Next]_vars PROVE IInv'
  OBVIOUS
<1>1. ASSUME NEW r \in Runs, BeginRun(r) PROVE IInv'
  BY <1>1, BeginKeeps
<1>2. ASSUME NEW r \in Runs, DeleteBatch(r) PROVE IInv'
  BY <1>2, DeleteKeeps
<1>3. ASSUME NEW r \in Runs, Abort(r) \/ EndLost(r) PROVE IInv'
  <2>1. LeaveRun(r) /\ UNCHANGED <<now, rows, metrics>>
    BY <1>3 DEF Abort, EndLost
  <2>2. TypeOK'
    BY <2>1, LeaveTypes DEF IInv, TypeOK
  <2>. QED
    BY <2>1, <2>2, LeaveKeeps DEF IInv, MetricsHaveSnapshot
<1>4. ASSUME NEW r \in Runs, LoseSession(r) PROVE IInv'
  BY <1>4 DEF IInv, TypeOK, LockInv, CutoffInv, MetricsHaveSnapshot, LoseSession
<1>5. CASE SyncBlock
  <2>1. now \in Nat /\ now' = now + 1 /\ now' \in 0..LastBlock /\ now' \in Blocks
    BY <1>5 DEF IInv, TypeOK, SyncBlock, Blocks
  <2>2. TypeOK'
    BY <1>5, <2>1 DEF IInv, TypeOK, SyncBlock
  <2>3. CutoffInv'
    <3>. SUFFICES ASSUME NEW r \in Runs, NEW t \in Tables, cutoff[r][t] # None
                  PROVE  cutoff[r][t] < now' - WindowOf(t)
      BY <1>5 DEF SyncBlock, CutoffInv, WindowOf
    <3>1. cutoff[r][t] \in Blocks /\ WindowOf(t) \in Nat
      BY DEF IInv, TypeOK, WindowOf
    <3>2. cutoff[r][t] < now - WindowOf(t)
      BY DEF IInv, CutoffInv
    <3>. QED
      BY <2>1, <3>1, <3>2 DEF Blocks
  <2>4. LockInv' /\ MetricsHaveSnapshot'
    BY <1>5, <2>1 DEF IInv, TypeOK, LockInv, MetricsHaveSnapshot, SyncBlock, Tables
  <2>. QED
    BY <2>2, <2>3, <2>4 DEF IInv
<1>6. ASSUME NEW b \in Blocks, BackfillBlock(b) PROVE IInv'
  <2>1. TypeOK' /\ MetricsHaveSnapshot'
    BY <1>6 DEF IInv, TypeOK, MetricsHaveSnapshot, BackfillBlock, Tables
  <2>. QED
    BY <1>6, <2>1 DEF IInv, LockInv, CutoffInv, BackfillBlock, WindowOf
<1>7. CASE UNCHANGED vars
  BY <1>7 DEF IInv, TypeOK, LockInv, CutoffInv, MetricsHaveSnapshot, vars
<1>. QED
  BY <1>1, <1>2, <1>3, <1>4, <1>5, <1>6, <1>7 DEF Next

LEMMA Initially == Init => IInv
  BY DEF Init, IInv, TypeOK, LockInv, CutoffInv, MetricsHaveSnapshot, NoCutoff, Blocks

\* Every step deletes only what is out of its window, and no validator's snapshot.
LEMMA StepDeletes ==
    ASSUME IInv, [Next]_vars, NEW t \in Tables, NEW b \in rows[t] \ rows'[t]
    PROVE  b < now - WindowOf(t) /\ (t = "snapshot" => b \notin ValidatorBlocks)
<1>0. rows \in [Tables -> SUBSET Blocks]
  BY DEF IInv, TypeOK
<1>1. PICK r \in Runs : DeleteBatch(r)
  <2>1. CASE SyncBlock
    BY <1>0, <2>1 DEF SyncBlock
  <2>2. ASSUME NEW c \in Blocks, BackfillBlock(c) PROVE FALSE
    BY <1>0, <2>2 DEF BackfillBlock, Tables
  <2>3. ASSUME NEW r \in Runs, BeginRun(r) \/ Abort(r) \/ LoseSession(r) \/ EndLost(r)
        PROVE  FALSE
    BY <2>3 DEF BeginRun, Abort, LoseSession, EndLost
  <2>4. CASE UNCHANGED vars
    BY <2>4 DEF vars
  <2>. QED
    BY <2>1, <2>2, <2>3, <2>4 DEF Next
<1>2. t = phase[r] /\ b \in Oldest(Expired(t, cutoff[r][t]))
  BY <1>0, <1>1 DEF DeleteBatch
<1>3. /\ cutoff[r][t] # None /\ b <= cutoff[r][t]
      /\ t = "snapshot" => b \notin ValidatorBlocks
  BY <1>2, BatchIsExpired
<1>4. cutoff[r][t] \in Blocks /\ cutoff[r][t] < now - WindowOf(t)
  BY <1>3 DEF IInv, TypeOK, CutoffInv
<1>5. b \in Int /\ now \in Int /\ WindowOf(t) \in Int
  BY <1>0 DEF IInv, TypeOK, Blocks, WindowOf
<1>. QED
  BY <1>3, <1>4, <1>5 DEF Blocks

-----------------------------------------------------------------------------
\* The types, the lock, the cutoffs and the metrics, in every reachable state.
THEOREM Invariant == Spec => []IInv
  BY Initially, Inductive, PTL DEF Spec

\* Two runs only ever overlap when one of them has lost its session, whatever is killed
\* and redelivered.
THEOREM Exclusive == Spec => []OneRunAtATime
<1>1. IInv => OneRunAtATime
  BY DEF IInv, LockInv, OneRunAtATime
<1>. QED
  BY <1>1, Invariant, PTL

\* Metrics are never left behind without their snapshot.
THEOREM NoOrphanMetrics == Spec => []MetricsHaveSnapshot
<1>1. IInv => MetricsHaveSnapshot
  BY DEF IInv
<1>. QED
  BY <1>1, Invariant, PTL

\* What leaves a table is out of its window, and no validator's snapshot, however
\* many runs overlap.
THEOREM OnlyExpired == Spec => OnlyExpiredLeave
<1>1. IInv /\ [Next]_vars =>
          [\A t \in Tables : \A b \in rows[t] \ rows'[t] :
              b < now - WindowOf(t) /\ (t = "snapshot" => b \notin ValidatorBlocks)]_rows
  BY StepDeletes
<1>. QED
  BY <1>1, Invariant, PTL DEF Spec, OnlyExpiredLeave
=============================================================================
