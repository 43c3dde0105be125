----------------------------- MODULE DaemonProofs -----------------------------
(* Proofs about SyncDaemon, for every setting the backoff accepts, and about *)
(* EpochSchedule, for every range and every subnet.                          *)
EXTENDS SyncDaemon, EpochSchedule, TLAPS

\* The conjuncts of every step's frame.
USE DEF env, backoff, progress

\* The daemon's variables keep their types; the delay stays between the
\* initial and the maximal one.
THEOREM TypeCorrect == Spec => []TypeOK
<1> USE BackoffAssumption DEF TypeOK, Blocks, Fresh
<1>1. Init => TypeOK
  BY DEF Init
<1>2. TypeOK /\ [Next]_vars => TypeOK'
  <2> SUFFICES ASSUME TypeOK, [Next]_vars
               PROVE  TypeOK'
    OBVIOUS
  <2>1. ASSUME RecordFailure
        PROVE  /\ pc' = "wait" /\ remaining' \in Nat /\ attempt' \in 0..AttemptCap
               /\ delay' \in InitialDelay..MaxDelay /\ alerts' \in 0..2
    BY <2>1 DEF RecordFailure, Wait, Lesser, More
  <2>2. CASE Slice
    BY <2>2 DEF Slice
  <2>3. CASE WaitOver
    BY <2>3 DEF WaitOver
  <2>4. CASE Stop
    BY <2>4 DEF Stop
  <2>5. CASE KeepProvider \/ Connect
    BY <2>5 DEF KeepProvider, Connect
  <2>6. CASE ConnectFails
    BY <2>6, <2>1 DEF ConnectFails
  <2>7. CASE ReadHead
    BY <2>7 DEF ReadHead, RecordRecovery, Wait
  <2>8. CASE ReadHeadFails
    BY <2>8, <2>1 DEF ReadHeadFails
  <2>9. ASSUME Advance
        PROVE  last' \in -1..MaxBlock /\ handled' \in [Blocks -> 0..2]
    <3>1. last' = last + 1 /\ last' \in -1..MaxBlock
      BY <2>9 DEF Advance
    <3>2. \A n \in 0..2 : More(n) \in 0..2
      BY DEF More
    <3>3. handled' = [handled EXCEPT ![last + 1] = More(handled[last + 1])]
      BY <2>9 DEF Advance
    <3>. QED
      BY <3>1, <3>2, <3>3
  <2>10. CASE HandleBlock
    BY <2>10, <2>9 DEF HandleBlock, Advance
  <2>11. CASE HandleBlockFails
    BY <2>11, <2>1, <2>9 DEF HandleBlockFails, Advance
  <2>12. CASE RangeDone
    BY <2>12 DEF RangeDone, Wait
  <2>13. CASE Signal
    BY <2>13 DEF Signal
  <2>14. CASE Restart
    BY <2>14 DEF Restart
  <2>15. CASE GrowChain
    BY <2>15 DEF GrowChain
  <2>16. CASE Outage
    BY <2>16 DEF Outage
  <2>17. CASE UNCHANGED vars
    BY <2>17 DEF vars
  <2>. QED
    BY <2>2, <2>3, <2>4, <2>5, <2>6, <2>7, <2>8, <2>10, <2>11, <2>12, <2>13,
       <2>14, <2>15, <2>16, <2>17 DEF Next, Daemon
<1>. QED
  BY <1>1, <1>2, PTL DEF Spec

\* settings.py promises one error-level record per outage: there is exactly one
\* from attempt AlertAfter on, whatever handshakes succeed and heads fail in between.
THEOREM OneAlert == Spec => []OneAlertPerOutage
<1> USE BackoffAssumption DEF OneAlertPerOutage
<1>1. Init => OneAlertPerOutage
  BY DEF Init, Fresh
<1>2. TypeOK /\ OneAlertPerOutage /\ [Next]_vars => OneAlertPerOutage'
  <2> SUFFICES ASSUME TypeOK, OneAlertPerOutage, [Next]_vars
               PROVE  OneAlertPerOutage'
    OBVIOUS
  <2>1. ASSUME RecordFailure
        PROVE  OneAlertPerOutage'
    BY <2>1 DEF RecordFailure, Lesser, More, TypeOK
  <2>3. CASE ConnectFails \/ ReadHeadFails \/ HandleBlockFails
    BY <2>1, <2>3 DEF ConnectFails, ReadHeadFails, HandleBlockFails
  <2>4. CASE ReadHead
    BY <2>4 DEF ReadHead, RecordRecovery
  <2>5. CASE Restart
    BY <2>5 DEF Restart, Fresh
  <2>6. CASE \/ Slice \/ WaitOver \/ Stop \/ KeepProvider \/ Connect \/ HandleBlock
             \/ RangeDone \/ Signal \/ GrowChain \/ Outage \/ UNCHANGED vars
    BY <2>6 DEF Slice, WaitOver, Stop, KeepProvider, Connect, HandleBlock,
                RangeDone, Signal, GrowChain, Outage, vars
  <2>. QED
    BY <2>3, <2>4, <2>5, <2>6 DEF Next, Daemon
<1>. QED
  BY <1>1, <1>2, TypeCorrect, PTL DEF Spec

-----------------------------------------------------------------------------
\* EachBlockOnce is not inductive: a range is only begun once last is known,
\* and lies above first.
RangeKnown ==
    /\ last = -1 => first = -1
    /\ last # -1 => 0 <= first /\ first <= last
    /\ pc = "blocks" => last # -1

\* One run of the daemon handles every block after its first head once: no
\* failure, reconnect or lagging head makes it repeat or jump over a block.
THEOREM HandledOnce == Spec => []EachBlockOnce
<1> DEFINE IInv == RangeKnown /\ EachBlockOnce
<1> USE BackoffAssumption DEF RangeKnown, EachBlockOnce, Blocks
<1>1. Init => IInv
  BY DEF Init, Fresh
<1>2. TypeOK /\ IInv /\ [Next]_vars => IInv'
  <2> SUFFICES ASSUME TypeOK, IInv, [Next]_vars
               PROVE  IInv'
    OBVIOUS
  <2> USE DEF TypeOK
  <2>1. ASSUME Advance
        PROVE  /\ last' = last + 1 /\ first' = first /\ last # -1
               /\ EachBlockOnce'
    <3>1. last + 1 \in Blocks /\ handled[last + 1] = 0
      BY <2>1 DEF Advance
    <3>. QED
      BY <2>1, <3>1 DEF Advance, More
  <2>2. CASE HandleBlock
    BY <2>1, <2>2 DEF HandleBlock
  <2>3. CASE HandleBlockFails
    BY <2>1, <2>3 DEF HandleBlockFails, RecordFailure, Wait
  <2>4. CASE ReadHead
    BY <2>4 DEF ReadHead, Wait
  <2>5. CASE ConnectFails \/ ReadHeadFails
    BY <2>5 DEF ConnectFails, ReadHeadFails, RecordFailure, Wait
  <2>6. CASE Restart
    BY <2>6 DEF Restart, Fresh
  <2>7. CASE \/ Slice \/ WaitOver \/ Stop \/ KeepProvider \/ Connect
             \/ RangeDone \/ Signal \/ GrowChain \/ Outage \/ UNCHANGED vars
    BY <2>7 DEF Slice, WaitOver, Stop, KeepProvider, Connect,
                RangeDone, Signal, GrowChain, Outage, vars, Wait
  <2>. QED
    BY <2>2, <2>3, <2>4, <2>5, <2>6, <2>7 DEF Next, Daemon
<1>. QED
  BY <1>1, <1>2, TypeCorrect, PTL DEF Spec

-----------------------------------------------------------------------------
(* The schedule. *)

\* An epoch is 361 blocks long and starts where the index is 0, so the block
\* it was computed from lies in it: get_epoch_containing_block keeps its name.
LEMMA EpochBounds ==
    ASSUME NEW b \in Int, NEW n \in Nat
    PROVE  /\ BlockIndexInEpoch(b, n) \in 0..360
           /\ EpochStart(b, n) = b - BlockIndexInEpoch(b, n)
           /\ EpochStop(b, n) = EpochStart(b, n) + 361
           /\ EpochStart(b, n) \in Int /\ EpochStop(b, n) \in Int
           /\ EpochStart(b, n) <= b /\ b < EpochStop(b, n)
  BY DEF BlockIndexInEpoch, EpochDuration, TEMPO, EpochStart, EpochStop,
         NextEpochBlock, BlocksUntilNextEpoch

\* Epochs partition the chain: every block between the start and the stop of
\* an epoch is assigned that same epoch by get_epoch_containing_block.
LEMMA EpochsPartition ==
    ASSUME NEW b \in Int, NEW c \in Int, NEW n \in Nat,
           EpochStart(b, n) <= c, c < EpochStop(b, n)
    PROVE  EpochStart(c, n) = EpochStart(b, n)
  BY DEF BlockIndexInEpoch, EpochDuration, TEMPO, EpochStart, EpochStop,
         NextEpochBlock, BlocksUntilNextEpoch

\* get_dumpable_blocks, computed: the four blocks its docstring lists.
LEMMA DumpsOfAnEpoch ==
    ASSUME NEW s \in Int
    PROVE  DumpableBlocks(s) = {s, s + 120, s + 240, s + 360}
  BY DEF DumpableBlocks, TEMPO, NUM_BLOCK_DUMPS_PER_EPOCH

\* All dumps of an epoch lie in that epoch.
LEMMA DumpsInEpoch ==
    ASSUME NEW b \in Int, NEW n \in Nat, NEW c \in DumpableBlocks(EpochStart(b, n))
    PROVE  c \in Int /\ EpochStart(b, n) <= c /\ c < EpochStop(b, n)
<1>1. EpochStart(b, n) \in Int /\ EpochStop(b, n) = EpochStart(b, n) + 361
  BY EpochBounds
<1>. DEFINE s == EpochStart(b, n)
<1>2. DumpableBlocks(s) = {s, s + 120, s + 240, s + 360}
  BY <1>1, DumpsOfAnEpoch
<1>. HIDE DEF s
<1>3. c = s \/ c = s + 120 \/ c = s + 240 \/ c = s + 360
  BY <1>2 DEF s
<1>. QED
  BY <1>1, <1>3 DEF s

\* is_dumpable_block agrees, on every block of an epoch, with the dumps
\* get_dumpable_blocks lists for that epoch.
LEMMA DumpableIffListed ==
    ASSUME NEW b \in Int, NEW n \in Nat, NEW c \in Int
    PROVE  c \in DumpableBlocks(EpochStart(b, n))
             <=> (EpochStart(b, n) <= c /\ c < EpochStop(b, n) /\ IsDumpable(c, n))
  BY EpochsPartition, DumpsInEpoch DEF IsDumpable

-----------------------------------------------------------------------------
\* What the variables are, whichever ranges and subnets are asked for.
LEMMA Numbers ==
    ASSUME ScheduleTypeOK
    PROVE  /\ start \in Int /\ end \in Int /\ block \in Int /\ start <= end
           /\ netuid \in Nat /\ result \subseteq Int
<1>1. start \in Int /\ end - start \in Nat /\ netuid \in Nat
  BY ScheduleAssumption DEF ScheduleTypeOK
<1>. QED
  BY <1>1 DEF ScheduleTypeOK

\* The loop stays within the range, but for at most one epoch past its end, and
\* so do the blocks it returns.
THEOREM ScheduleTypes == ScheduleSpec => []ScheduleTypeOK
<1>1. ScheduleInit => ScheduleTypeOK
  <2> SUFFICES ASSUME ScheduleInit
               PROVE  ScheduleTypeOK
    OBVIOUS
  <2>1. PICK l \in Lengths : end = start + l
    BY DEF ScheduleInit
  <2>2. start \in Int /\ l \in Nat
    BY ScheduleAssumption DEF ScheduleInit
  <2>. QED
    BY <2>1, <2>2 DEF ScheduleInit, ScheduleTypeOK, EpochDuration, TEMPO
<1>2. ScheduleTypeOK /\ [ScheduleNext]_scheduleVars => ScheduleTypeOK'
  <2> SUFFICES ASSUME ScheduleTypeOK, [ScheduleNext]_scheduleVars
               PROVE  ScheduleTypeOK'
    OBVIOUS
  <2>1. CASE ScanEpoch
    <3>1. /\ EpochStop(block, netuid) \in Int /\ block < EpochStop(block, netuid)
          /\ EpochStop(block, netuid) <= block + 361
      <4>1. block \in Int /\ netuid \in Nat
        BY Numbers
      <4>. QED
        BY <4>1, EpochBounds
    <3> DEFINE dumps == DumpableBlocks(EpochStart(block, netuid))
    <3>2. dumps \subseteq Int
      BY Numbers, DumpsInEpoch
    <3>3. result' \subseteq start..end
      <4>1. result' = result \cup {b \in dumps : start <= b /\ b <= end}
        BY <2>1 DEF ScanEpoch
      <4>. HIDE DEF dumps
      <4>2. {b \in dumps : start <= b /\ b <= end} \subseteq start..end
        <5>1. start \in Int /\ end \in Int
          BY Numbers
        <5>2. \A b \in dumps : b \in Int
          BY <3>2
        <5>. QED
          BY <5>1, <5>2
      <4>. QED
        BY <4>1, <4>2 DEF ScheduleTypeOK
    <3>4. block' \in start..(end + 361)
      BY <2>1, <3>1, Numbers DEF ScanEpoch, ScheduleTypeOK
    <3>. QED
      BY <2>1, <3>3, <3>4 DEF ScanEpoch, ScheduleTypeOK, EpochDuration, TEMPO
  <2>2. CASE UNCHANGED scheduleVars
    BY <2>2 DEF scheduleVars, ScheduleTypeOK
  <2>. QED
    BY <2>1, <2>2 DEF ScheduleNext
<1>. QED
  BY <1>1, <1>2, PTL DEF ScheduleSpec

\* The loop of get_dumpable_blocks_in_range has always found exactly the
\* dumpable blocks it has passed: its invariant, for every range and subnet.
THEOREM ScanInvariant == ScheduleSpec => []ScanSoFar
<1>1. ScheduleInit /\ ScheduleTypeOK => ScanSoFar
  BY Numbers DEF ScheduleInit, ScheduleTypeOK, ScanSoFar
<1>2. ScheduleTypeOK /\ ScanSoFar /\ [ScheduleNext]_scheduleVars => ScanSoFar'
  <2> SUFFICES ASSUME ScheduleTypeOK, ScanSoFar, [ScheduleNext]_scheduleVars
               PROVE  ScanSoFar'
    OBVIOUS
  <2>1. CASE ScanEpoch
    <3> DEFINE stop == EpochStop(block, netuid)
               from == EpochStart(block, netuid)
    <3>1. from \in Int /\ stop \in Int /\ from <= block /\ block < stop
      BY Numbers, EpochBounds
    <3>2. ASSUME NEW b \in start..end
          PROVE  (b < stop /\ IsDumpable(b, netuid))
                   <=> \/ b < block /\ IsDumpable(b, netuid)
                       \/ b \in DumpableBlocks(from)
      <4>1. b \in DumpableBlocks(from) <=> (from <= b /\ b < stop /\ IsDumpable(b, netuid))
        BY Numbers, DumpableIffListed
      <4>. QED
        BY <3>1, <4>1, Numbers
    <3>3. result' = {b \in start..end : b < stop /\ IsDumpable(b, netuid)}
      <4>1. DumpableBlocks(from) \subseteq Int
        BY Numbers, DumpsInEpoch
      <4>2. result' = result \cup {b \in DumpableBlocks(from) : start <= b /\ b <= end}
        BY <2>1 DEF ScanEpoch
      <4>3. result = {b \in start..end : b < block /\ IsDumpable(b, netuid)}
        BY DEF ScanSoFar
      <4>4. {b \in DumpableBlocks(from) : start <= b /\ b <= end}
              = {b \in start..end : b \in DumpableBlocks(from)}
        BY <4>1, Numbers
      <4>. HIDE DEF stop, from
      <4>. QED
        BY <3>2, <4>2, <4>3, <4>4
    <3>. QED
      BY <2>1, <3>3 DEF ScanEpoch, ScanSoFar
  <2>2. CASE UNCHANGED scheduleVars
    BY <2>2 DEF scheduleVars, ScanSoFar
  <2>. QED
    BY <2>1, <2>2 DEF ScheduleNext
<1>. QED
  BY <1>1, <1>2, ScheduleTypes, PTL DEF ScheduleSpec

\* When the loop ends, the backfill's list of blocks is the set of blocks of
\* the range the daemon's is_dumpable_block accepts.
THEOREM ScanIsExact == ScheduleSpec => []ScanAgrees
<1>1. ScheduleTypeOK /\ ScanSoFar => ScanAgrees
  BY Numbers DEF ScanSoFar, ScanAgrees
<1>. QED
  BY <1>1, ScheduleTypes, ScanInvariant, PTL

\* The last dump of every epoch is directly followed by the first of the next:
\* the blocks recorded as "end" and "start" are neighbours.
THEOREM EpochsMeet == ScheduleSpec => []EndMeetsStart
<1>1. ScheduleTypeOK => EndMeetsStart
  <2> SUFFICES ASSUME ScheduleTypeOK, NEW b \in start..end,
                      IsDumpable(b, netuid), EpochPosition(b, netuid) = "end"
               PROVE  IsDumpable(b + 1, netuid) /\ EpochPosition(b + 1, netuid) = "start"
    BY DEF EndMeetsStart
  <2>1. b \in Int /\ netuid \in Nat
    BY Numbers
  <2>2. b = EpochStart(b, netuid) + 360
    BY <2>1, EpochBounds DEF EpochPosition, TEMPO
  <2>3. EpochStart(b + 1, netuid) = b + 1
    BY <2>1, <2>2 DEF BlockIndexInEpoch, EpochDuration, TEMPO, EpochStart,
                      NextEpochBlock, BlocksUntilNextEpoch
  <2>. QED
    BY <2>1, <2>3, DumpsOfAnEpoch DEF IsDumpable, EpochPosition
<1>. QED
  BY <1>1, ScheduleTypes, PTL

\* What the position "start" means: the block starts its epoch.
LEMMA StartPosition ==
    ASSUME NEW b \in Int, NEW n \in Nat
    PROVE  /\ EpochPosition(b, n) = "start" <=> BlockIndexInEpoch(b, n) = 0
           /\ BlockIndexInEpoch(b, n) = 0 => IsDumpable(b, n)
<1>1. EpochStart(b, n) = b - BlockIndexInEpoch(b, n) /\ BlockIndexInEpoch(b, n) \in 0..360
      /\ EpochStart(b, n) \in Int
  BY EpochBounds
<1>2. b = EpochStart(b, n) <=> BlockIndexInEpoch(b, n) = 0
  BY <1>1
<1>3. EpochPosition(b, n) = "start" <=> b = EpochStart(b, n)
  BY DEF EpochPosition
<1>4. EpochStart(b, n) \in DumpableBlocks(EpochStart(b, n))
  BY <1>1, DumpsOfAnEpoch
<1>. QED
  BY <1>2, <1>3, <1>4 DEF IsDumpable

\* epoch_start_blocks_in_range, whose arithmetic is its own: from the first start at or
\* after s, every 361st block up to e is an epoch's start, and no other is.
LEMMA StartsInRange ==
    ASSUME NEW s \in Int, NEW e \in Int, NEW n \in Nat, NEW b \in Int
    PROVE  b \in EpochStartsInRange(s, e, n)
             <=> s <= b /\ b <= e /\ BlockIndexInEpoch(b, n) = 0
<1>. DEFINE fst == s + ((-(s + n + 2)) % 361)
            laps == (e - fst) \div 361
<1>1. fst \in Int /\ s <= fst /\ fst < s + 361 /\ (fst + n + 2) % 361 = 0
  OBVIOUS
<1>2. laps \in Int /\ (e - fst) - 361 < laps * 361 /\ laps * 361 <= e - fst
  <2>. HIDE DEF fst
  <2>. QED
    BY <1>1
<1>3. EpochStartsInRange(s, e, n) = {fst + k * 361 : k \in 0..laps}
  BY DEF EpochStartsInRange, EpochDuration, TEMPO
<1>. HIDE DEF fst, laps
<1>4. ASSUME NEW k \in 0..laps, b = fst + k * 361
      PROVE  s <= b /\ b <= e /\ (b + n + 2) % 361 = 0
  <2>1. k \in Nat /\ k <= laps
    BY <1>2
  <2>2. k * 361 >= 0 /\ k * 361 <= laps * 361
    BY <1>2, <2>1
  <2>3. (fst + k * 361 + n + 2) % 361 = 0
    BY <1>1, <2>1
  <2>. QED
    BY <1>1, <1>2, <1>4, <2>2, <2>3
<1>5. ASSUME s <= b, b <= e, (b + n + 2) % 361 = 0
      PROVE  \E k \in 0..laps : b = fst + k * 361
  <2>. DEFINE k == (b - fst) \div 361
  <2>1. k \in Int /\ b - fst = k * 361
    BY <1>1, <1>5
  <2>. HIDE DEF k
  <2>2. 0 <= k
    BY <1>1, <1>5, <2>1
  <2>3. k <= laps
    BY <1>1, <1>2, <1>5, <2>1
  <2>. QED
    BY <1>1, <1>2, <2>1, <2>2, <2>3
<1>. QED
  BY <1>3, <1>4, <1>5 DEF BlockIndexInEpoch, EpochDuration, TEMPO

\* The historical backfill's enumeration and the daemon's decision agree: over every
\* range, of every subnet, the blocks enumerated are the dumpable ones whose dump is
\* recorded with position "start" (StartsAgree).
THEOREM StartsAreExact == ScheduleSpec => []StartsAgree
<1>1. ScheduleTypeOK => StartsAgree
  <2>. SUFFICES ASSUME ScheduleTypeOK PROVE StartsAgree
    OBVIOUS
  <2>1. start \in Int /\ end \in Int /\ netuid \in Nat
    BY Numbers
  <2>2. EpochStartsInRange(start, end, netuid) \subseteq Int
    BY <2>1 DEF EpochStartsInRange, EpochDuration, TEMPO
  <2>3. \A b \in Int : b \in EpochStartsInRange(start, end, netuid)
          <=> b \in start..end /\ IsDumpable(b, netuid) /\ EpochPosition(b, netuid) = "start"
    BY <2>1, StartsInRange, StartPosition
  <2>4. start..end \subseteq Int
    BY <2>1
  <2>. QED
    BY <2>2, <2>3, <2>4 DEF StartsAgree
<1>. QED
  BY <1>1, ScheduleTypes, PTL
=============================================================================
