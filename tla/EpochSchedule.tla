---------------------------- MODULE EpochSchedule ----------------------------
(***************************************************************************)
(* Which blocks of a subnet have their metagraph dumped.  The daemon asks  *)
(* block by block (is_dumpable_block); the backfill enumerates a range     *)
(* epoch by epoch (get_dumpable_blocks_in_range, whose loop is the state   *)
(* machine below); the historical backfill enumerates epoch starts.        *)
(***************************************************************************)
EXTENDS Integers

CONSTANTS
    Starts,        \* first blocks of the ranges asked for
    Lengths,       \* their lengths
    Netuids        \* subnets

ASSUME ScheduleAssumption ==
    /\ Starts \subseteq Int
    /\ Lengths \subseteq Nat
    /\ Netuids \subseteq Nat

VARIABLES
    start, end,    \* start_block and end_block (inclusive)
    netuid,
    block,         \* the loop's position
    result         \* the blocks found so far

scheduleVars == <<start, end, netuid, block, result>>

-----------------------------------------------------------------------------
TEMPO == 360
NUM_BLOCK_DUMPS_PER_EPOCH == 3

\* A bittensor epoch is one block longer than its tempo.
EpochDuration == TEMPO + 1

BlockIndexInEpoch(b, n) == (b + n + 2) % EpochDuration

BlocksUntilNextEpoch(b, n) ==
    IF BlockIndexInEpoch(b, n) = 0 THEN 0 ELSE EpochDuration - BlockIndexInEpoch(b, n)

\* Faulty variant of NextEpochBlock: the first block of an epoch is its own next.
NearestEpochBlock(b, n) == b + BlocksUntilNextEpoch(b, n)

\* On the first block of an epoch the next epoch is a whole duration away.
NextEpochBlock(b, n) ==
    b + IF BlocksUntilNextEpoch(b, n) = 0 THEN EpochDuration ELSE BlocksUntilNextEpoch(b, n)

\* range(start, stop) of the epoch that contains b.
EpochStop(b, n) == NextEpochBlock(b, n)
EpochStart(b, n) == NextEpochBlock(b, n) - EpochDuration

\* The dumps of the epoch that starts at s: evenly spaced ones, and its last block.
DumpableBlocks(s) ==
    {s + (TEMPO * i) \div NUM_BLOCK_DUMPS_PER_EPOCH : i \in 0..(NUM_BLOCK_DUMPS_PER_EPOCH - 1)}
      \cup {s + TEMPO}

IsDumpable(b, n) == b \in DumpableBlocks(EpochStart(b, n))

\* _get_epoch_position: where a dumped block lies in its epoch.
EpochPosition(b, n) ==
    IF b = EpochStart(b, n) THEN "start"
    ELSE IF b = EpochStart(b, n) + TEMPO THEN "end" ELSE "inside"

\* Faulty variant of EpochStartsInRange: the offset has the wrong sign.
EpochStartsAhead(s, e, n) ==
    LET fst == s + ((s + n + 2) % EpochDuration)
    IN  {fst + k * EpochDuration : k \in 0..((e - fst) \div EpochDuration)}

\* epoch_start_blocks_in_range: every EpochDuration-th block from the first start on.
EpochStartsInRange(s, e, n) ==
    LET fst == s + ((-(s + n + 2)) % EpochDuration)
    IN  {fst + k * EpochDuration : k \in 0..((e - fst) \div EpochDuration)}

-----------------------------------------------------------------------------
(* get_dumpable_blocks_in_range *)

ScheduleInit ==
    /\ start \in Starts
    /\ \E l \in Lengths : end = start + l
    /\ netuid \in Netuids
    /\ block = start
    /\ result = {}

\* Faulty variant of ScanEpoch: the last block of the range is left out.
ScanExclusive ==
    /\ block <= end
    /\ result' = result \cup
         {b \in DumpableBlocks(EpochStart(block, netuid)) : start <= b /\ b < end}
    /\ block' = EpochStop(block, netuid)
    /\ UNCHANGED <<start, end, netuid>>

ScanEpoch ==
    /\ block <= end
    /\ result' = result \cup
         {b \in DumpableBlocks(EpochStart(block, netuid)) : start <= b /\ b <= end}
    /\ block' = EpochStop(block, netuid)
    /\ UNCHANGED <<start, end, netuid>>

ScheduleNext == ScanEpoch

ScheduleSpec == ScheduleInit /\ [][ScheduleNext]_scheduleVars

-----------------------------------------------------------------------------
ScheduleTypeOK ==
    /\ start \in Starts /\ end - start \in Lengths /\ end \in Int
    /\ netuid \in Netuids
    /\ block \in start..(end + EpochDuration)
    /\ result \subseteq start..end

\* The daemon and the backfill agree: enumerating a range finds exactly the
\* blocks of the range that is_dumpable_block accepts, wherever the range cuts
\* the first and the last epoch.
ScanAgrees ==
    block > end => result = {b \in start..end : IsDumpable(b, netuid)}

\* Half-way through, the blocks found are the dumpable ones already passed.
ScanSoFar ==
    result = {b \in start..end : b < block /\ IsDumpable(b, netuid)}

\* The enumeration of epoch starts finds the dumpable blocks whose dump is
\* recorded with position "start", and those only.
StartsAgree ==
    EpochStartsInRange(start, end, netuid) =
      {b \in start..end : IsDumpable(b, netuid) /\ EpochPosition(b, netuid) = "start"}

\* The last dump of an epoch is followed by the first dump of the next.
EndMeetsStart ==
    \A b \in start..end :
      IsDumpable(b, netuid) /\ EpochPosition(b, netuid) = "end"
        => IsDumpable(b + 1, netuid) /\ EpochPosition(b + 1, netuid) = "start"
=============================================================================
