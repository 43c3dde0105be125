---------------------------- MODULE ServicesProofs ----------------------------
(***************************************************************************)
(* The services' safety, for any number of executions, extrinsics, subnets *)
(* and blocks: hyperparameters and their history, the table of missing     *)
(* snapshots, the way of notifications to their channels, the queues'      *)
(* tasks, metagraph files; and all types.                                  *)
(***************************************************************************)
EXTENDS Services, RetentionProofs, FiniteSetTheorems, SequenceTheorems, WellFoundedInduction, TLAPS

\* A bounded set of naturals has a greatest element.
LEMMA GreatestExists ==
    ASSUME NEW m \in Nat, NEW U \in SUBSET (0..m), U # {}
    PROVE  \E x \in U : \A y \in U : y <= x
<1>. DEFINE R == OpToRel(<, Nat)
            T == {m - x : x \in U}
<1>1. IsWellFoundedOn(R, Nat)
  BY NatLessThanWellFounded
<1>2. \A x, y \in Nat : y < x => <<y, x>> \in R
  BY DEF OpToRel
<1>3. T \subseteq Nat /\ T # {}
  <2>1. \A x \in U : m - x \in Nat
    OBVIOUS
  <2>2. PICK x \in U : TRUE
    OBVIOUS
  <2>3. m - x \in T
    BY <2>2
  <2>. QED
    BY <2>1, <2>3
<1>. HIDE DEF R
<1>4. PICK z \in T : \A y \in T : <<y, z>> \notin R
  BY <1>1, <1>3, WFMin
<1>5. PICK x \in U : z = m - x
  BY <1>4
<1>6. ASSUME NEW y \in U PROVE y <= x
  <2>1. m - y \in T /\ m - y \in Nat /\ z \in Nat
    BY <1>3, <1>4
  <2>2. ~(m - y < z)
    BY <1>2, <1>4, <2>1
  <2>. QED
    BY <1>5, <2>1, <2>2
<1>. QED
  BY <1>6

\* A set of naturals that is not empty has a smallest element.
LEMMA SmallestExists ==
    ASSUME NEW U \in SUBSET Nat, U # {}
    PROVE  \E x \in U : \A y \in U : x <= y
<1>. DEFINE R == OpToRel(<, Nat)
<1>1. IsWellFoundedOn(R, Nat)
  BY NatLessThanWellFounded
<1>2. \A x, y \in Nat : y < x => <<y, x>> \in R
  BY DEF OpToRel
<1>. HIDE DEF R
<1>3. PICK x \in U : \A y \in U : <<y, x>> \notin R
  BY <1>1, WFMin
<1>4. ASSUME NEW y \in U PROVE x <= y
  <2>1. x \in Nat /\ y \in Nat /\ ~(y < x)
    BY <1>2, <1>3
  <2>. QED
    BY <2>1
<1>. QED
  BY <1>4
-----------------------------------------------------------------------------
(* Hyperparameters. *)

\* Blocks and changes are numbers.
LEMMA ParamNumbers ==
    /\ LastParamBlock \in Nat /\ 1 <= LastParamBlock
    /\ \A c \in Changes : c \in Nat /\ 1 <= c /\ c <= LastParamBlock
    /\ \A b \in H!ParamBlocks : b \in Nat
  BY ServicesAssumption DEF H!ParamBlocks

\* The value after b is that of the last change up to b, and there is one such value.
LEMMA ChainValueOf ==
    ASSUME NEW b \in Nat
    PROVE  /\ H!ChainValue(b) \in Changes \cup {0} /\ H!ChainValue(b) <= b
           /\ \A w \in Changes : w <= b => w <= H!ChainValue(b)
           /\ \A v \in Changes \cup {0} :
                 v <= b /\ (\A w \in Changes : w <= b => w <= v) => v = H!ChainValue(b)
<1>. DEFINE U == {v \in Changes \cup {0} : v <= b}
            P(v) == v <= b /\ \A w \in Changes : w <= b => w <= v
<1>1. U \in SUBSET (0..b) /\ U # {}
  BY ParamNumbers
<1>2. PICK x \in U : \A y \in U : y <= x
  BY <1>1, GreatestExists
<1>3. x \in Changes \cup {0} /\ P(x)
  BY <1>2
<1>4. H!ChainValue(b) \in Changes \cup {0} /\ P(H!ChainValue(b))
  BY <1>3 DEF H!ChainValue
<1>5. ASSUME NEW v \in Changes \cup {0}, NEW u \in Changes \cup {0}, P(v), P(u) PROVE v = u
  <2>1. v \in Nat /\ u \in Nat /\ 0 <= v /\ 0 <= u
    BY ParamNumbers
  <2>2. v <= u /\ u <= v
    BY <1>5, <2>1
  <2>. QED
    BY <2>1, <2>2
<1>. QED
  BY <1>4, <1>5

\* A block with a change sets the value, one without leaves it.
LEMMA ChainValueStep ==
    ASSUME NEW b \in Nat
    PROVE  /\ b \in Changes => H!ChainValue(b) = b
           /\ b + 1 \notin Changes => H!ChainValue(b + 1) = H!ChainValue(b)
<1>1. b \in Changes => H!ChainValue(b) = b
  BY ChainValueOf
<1>2. ASSUME b + 1 \notin Changes PROVE H!ChainValue(b + 1) = H!ChainValue(b)
  <2>. DEFINE v == H!ChainValue(b)
  <2>1. v \in Changes \cup {0} /\ v \in Nat /\ v <= b /\ \A w \in Changes : w <= b => w <= v
    BY ChainValueOf, ParamNumbers
  <2>2. \A w \in Changes : w <= b + 1 => w <= b
    BY <1>2, ParamNumbers
  <2>. HIDE DEF v
  <2>3. v <= b + 1 /\ \A w \in Changes : w <= b + 1 => w <= v
    BY <2>1, <2>2
  <2>4. v = H!ChainValue(b + 1)
    BY <2>1, <2>3, ChainValueOf
  <2>. QED
    BY <2>4 DEF v
<1>. QED
  BY <1>1, <1>2

\* A value that the daemon has stored is the chain's after block b, or one of the changes
\* m, those that the daemon has missed, came between.
Known(m, r, b) ==
    r.by = "daemon" =>
        r.value <= b /\ (r.value = H!ChainValue(b) \/ m \cap (r.value + 1)..b # {})

\* The history's inductive invariant: what is known of the row while no update is on its
\* way, and of the row as the update has read it and of the row as it is now while one is.
HistoryInv ==
    /\ step # "idle" => ingested \in Changes /\ Known(missed, copy, ingested - 1)
    /\ step = "idle" => Known(missed, record, ingested)
    /\ step = "read" /\ record.by = "daemon" => record = copy \/ record.value = ingested
    /\ step = "saved" /\ record.by = "daemon" => record.value = ingested

ParamInv == H!HyperparamTypeOK /\ RecordOfOneBlock /\ HistoryInv /\ OldValueRight
\* What is known survives that more changes are known to be missed.
LEMMA StillKnown ==
    ASSUME NEW m, NEW k, m \subseteq k, NEW r, NEW b, Known(m, r, b)
    PROVE  Known(k, r, b)
  BY DEF Known

\* A block without a change keeps what is known, one whose change is missed is noted.
LEMMA KnownAfter ==
    ASSUME NEW b \in Nat, NEW r \in H!Records \cup {H!NoRecord}, NEW m, NEW k, Known(m, r, b),
           m \subseteq k, b + 1 \in Changes => b + 1 \in k
    PROVE  Known(k, r, b + 1)
<1>. SUFFICES ASSUME r.by = "daemon"
              PROVE  /\ r.value <= b + 1
                     /\ r.value = H!ChainValue(b + 1) \/ k \cap (r.value + 1)..(b + 1) # {}
  BY DEF Known
<1>1. r.value \in Nat /\ r.value <= b
        /\ (r.value = H!ChainValue(b) \/ m \cap (r.value + 1)..b # {})
  BY ParamNumbers DEF Known, H!Records, H!NoRecord
<1>2. CASE b + 1 \in Changes
  <2>1. b + 1 \in k /\ b + 1 \in (r.value + 1)..(b + 1)
    BY <1>1, <1>2
  <2>. QED
    BY <1>1, <2>1
<1>3. CASE b + 1 \notin Changes
  <2>1. H!ChainValue(b + 1) = H!ChainValue(b)
    BY <1>3, ChainValueStep
  <2>2. \A c : c \in (r.value + 1)..b => c \in (r.value + 1)..(b + 1)
    BY <1>1
  <2>. QED
    BY <1>1, <2>1, <2>2
<1>. QED
  BY <1>2, <1>3

\* Entries are right for good, once they are.
LEMMA EntriesStay ==
    ASSUME OldValueRight, missed \subseteq missed', log' = log
    PROVE  OldValueRight'
  BY DEF OldValueRight, H!OldValueRight, H!ChainValue

\* The types of the daemon's update, and of runs.
LEMMA ParamTypes ==
    ASSUME ParamInv, H!Next
    PROVE  H!HyperparamTypeOK'
<1>. USE DEF ParamInv, H!HyperparamTypeOK
<1>0. /\ ingested \in Nat /\ tip \in Nat /\ 1 <= tip /\ tip <= LastParamBlock
      /\ \A b \in H!ParamBlocks : H!ChainValue(b) \in Changes \cup {0}
  BY ParamNumbers, ChainValueOf DEF H!ParamBlocks
<1>1. CASE H!Grow
  <2>1. tip' \in H!ParamBlocks
    BY <1>0, <1>1, ParamNumbers DEF H!Grow, H!ParamBlocks
  <2>. QED
    BY <1>1, <2>1 DEF H!Grow
<1>2. CASE H!PassBlock
  BY <1>0, <1>2, ParamNumbers DEF H!PassBlock, H!ParamBlocks
<1>3. CASE H!ReadRecord
  <2>1. ingested + 1 \in Changes /\ ingested + 1 \in 0..LastParamBlock /\ ingested + 1 \in H!ParamBlocks
    BY <1>0, <1>3, ParamNumbers DEF H!ReadRecord, H!ParamBlocks
  <2>2. [value |-> ingested + 1, block |-> ingested + 1, by |-> "daemon"] \in H!Records
    BY <2>1 DEF H!Records
  <2>. HIDE DEF H!NoRecord
  <2>. QED
    BY <1>3, <2>1, <2>2 DEF H!ReadRecord
<1>4. CASE H!SaveRecord
  <2>1. ingested \in Changes /\ ingested \in H!ParamBlocks
    BY <1>4, ParamNumbers DEF H!SaveRecord, HistoryInv, H!ParamBlocks
  <2>. QED
    BY <1>4, <2>1 DEF H!SaveRecord, H!Saved, H!Records
<1>5. CASE H!AddEntry
  <2>1. ingested \in Changes
    BY <1>5 DEF H!AddEntry, HistoryInv
  <2>2. copy.value \in Changes \cup {0, -1} /\ copy.by \in {"daemon", "run", "nobody"}
    BY DEF H!Records, H!NoRecord
  <2>3. H!Entry \in [old : Changes \cup {0, -1}, new : Changes, by : {"daemon", "run", "nobody"}]
    BY <2>1, <2>2 DEF H!Entry
  <2>. HIDE DEF H!NoRecord
  <2>. QED
    BY <1>5, <2>3 DEF H!AddEntry
<1>6. CASE H!AbandonUpdate
  BY <1>6 DEF H!AbandonUpdate, HistoryInv
<1>7. ASSUME NEW r \in ParamRuns, H!UpdateOrCreate(r) \/ H!RunFails(r)
      PROVE  H!HyperparamTypeOK'
  <2>1. runAt[r] \in 0..LastParamBlock /\ runAt[r] # 0
    BY <1>7 DEF H!UpdateOrCreate, H!RunFails
  <2>2. runAt[r] \in H!ParamBlocks
    BY <2>1, ParamNumbers DEF H!ParamBlocks
  <2>3. 0 \in 0..LastParamBlock
    BY ParamNumbers
  <2>. QED
    BY <1>0, <1>7, <2>2, <2>3 DEF H!UpdateOrCreate, H!RunFails, H!Records
<1>8. ASSUME NEW r \in ParamRuns, NEW b \in H!ParamBlocks, H!FetchParams(r, b)
      PROVE  H!HyperparamTypeOK'
  BY <1>8, ParamNumbers DEF H!FetchParams, H!ParamBlocks
<1>. QED
  BY <1>1, <1>2, <1>3, <1>4, <1>5, <1>6, <1>7, <1>8 DEF H!Next

\* Every statement that writes the row writes a value and the block it is from.
LEMMA RecordStaysOfOneBlock ==
    ASSUME ParamInv, H!Next
    PROVE  RecordOfOneBlock'
<1>. USE DEF ParamInv, RecordOfOneBlock, H!RecordOfOneBlock, H!ChainValue
<1>1. CASE record' = record
  BY <1>1
<1>2. ASSUME NEW c \in Changes, record'.value = c, record'.block = c PROVE RecordOfOneBlock'
  <2>1. H!ChainValue(c) = c
    BY ParamNumbers, ChainValueStep
  <2>. QED
    BY <1>2, <2>1
<1>3. CASE H!ReadRecord
  <2>1. record' # record => record'.value = ingested + 1 /\ record'.block = ingested + 1
    BY <1>3 DEF H!ReadRecord
  <2>. QED
    BY <1>1, <1>2, <1>3, <2>1 DEF H!ReadRecord
<1>4. CASE H!SaveRecord
  <2>1. record' # record => record'.value = ingested /\ record'.block = ingested
    BY <1>4 DEF H!SaveRecord, H!Saved
  <2>. QED
    BY <1>1, <1>2, <1>4, <2>1 DEF H!SaveRecord, HistoryInv
<1>5. ASSUME NEW r \in ParamRuns, H!UpdateOrCreate(r) PROVE RecordOfOneBlock'
  BY <1>5 DEF H!UpdateOrCreate
<1>. QED
  BY <1>1, <1>3, <1>4, <1>5 DEF H!Next, H!Grow, H!PassBlock, H!AddEntry, H!AbandonUpdate,
     H!RunFails, H!FetchParams

\* The daemon's statements and the runs' between them keep what is known of the row.
LEMMA HistoryStaysRight ==
    ASSUME ParamInv, H!Next
    PROVE  HistoryInv' /\ OldValueRight'
<1>. USE DEF ParamInv
<1>0. /\ ingested \in Nat /\ record \in H!Records \cup {H!NoRecord}
      /\ copy \in H!Records \cup {H!NoRecord} /\ step \in {"idle", "read", "saved"}
  BY ParamNumbers DEF H!HyperparamTypeOK
<1>1. ASSUME UNCHANGED <<log, step, missed, ingested, copy>>, record' = record \/ record'.by = "run"
      PROVE  HistoryInv' /\ OldValueRight'
  BY <1>1, EntriesStay DEF HistoryInv, Known, H!ChainValue
<1>2. CASE H!PassBlock
  <2>1. step = "idle" /\ Known(missed, record, ingested)
    BY <1>2 DEF H!PassBlock, HistoryInv
  <2>2. /\ ingested' = ingested + 1 /\ UNCHANGED <<record, log, step>> /\ missed \subseteq missed'
        /\ ingested + 1 \in Changes => ingested + 1 \in missed'
    BY <1>2 DEF H!PassBlock
  <2>3. Known(missed', record, ingested + 1)
    BY <1>0, <2>1, <2>2, KnownAfter
  <2>. QED
    BY <2>1, <2>2, <2>3, EntriesStay DEF HistoryInv, Known, H!ChainValue
<1>3. CASE H!ReadRecord
  <2>1. Known(missed, record, ingested) /\ step' = "read" /\ copy' = record /\ ingested' = ingested + 1
        /\ ingested' \in Changes /\ UNCHANGED <<missed, log>>
    BY <1>3 DEF H!ReadRecord, HistoryInv
  <2>2. ingested' - 1 = ingested
    BY <1>0, <2>1
  <2>3. Known(missed, copy, ingested - 1)'
    BY <2>1, <2>2 DEF Known, H!ChainValue
  <2>4. record' = copy' \/ record'.value = ingested'
    BY <1>3 DEF H!ReadRecord
  <2>. QED
    BY <2>1, <2>3, <2>4, EntriesStay DEF HistoryInv
<1>4. CASE H!SaveRecord
  <2>1. /\ step = "read" /\ step' = "saved" /\ UNCHANGED <<log, ingested, missed, copy>>
        /\ record' = IF copy = H!NoRecord THEN record ELSE H!Saved
    BY <1>4 DEF H!SaveRecord
  <2>2. Known(missed, copy, ingested - 1)'
    BY <2>1 DEF HistoryInv, Known, H!ChainValue
  <2>3. record'.by = "daemon" => record'.value = ingested
    BY <2>1 DEF HistoryInv, H!Saved, H!NoRecord
  <2>. QED
    BY <2>1, <2>2, <2>3, EntriesStay DEF HistoryInv
<1>5. ASSUME record.by = "daemon" => record.value = ingested, ingested \in Changes
      PROVE  Known(missed, record, ingested)
  BY <1>0, <1>5, ChainValueStep DEF Known
<1>6. CASE H!AddEntry
  <2>1. /\ step = "saved" /\ step' = "idle" /\ UNCHANGED <<record, ingested, missed>>
        /\ log' = log \cup {H!Entry}
    BY <1>6 DEF H!AddEntry
  <2>2. Known(missed, record, ingested)'
    BY <1>5, <2>1 DEF HistoryInv, Known, H!ChainValue
  <2>3. H!Entry.by = "daemon" =>
           \/ H!Entry.old = H!ChainValue(H!Entry.new - 1)
           \/ missed \cap (H!Entry.old + 1)..(H!Entry.new - 1) # {}
    BY <2>1 DEF HistoryInv, Known, H!Entry
  <2>4. OldValueRight'
    BY <2>1, <2>3 DEF OldValueRight, H!OldValueRight, H!ChainValue
  <2>. QED
    BY <2>1, <2>2, <2>4 DEF HistoryInv
<1>7. CASE H!AbandonUpdate
  <2>1. /\ step # "idle" /\ step' = "idle" /\ missed' = missed \cup {ingested}
        /\ UNCHANGED <<record, log, ingested>> /\ ingested \in Changes
        /\ Known(missed, copy, ingested - 1)
    BY <1>7 DEF H!AbandonUpdate, HistoryInv
  <2>2. Known(missed, record, ingested)'
    <3>1. CASE record.by = "daemon" /\ record = copy
      <4>1. ingested - 1 \in Nat /\ (ingested - 1) + 1 = ingested
        BY <2>1, ParamNumbers
      <4>2. Known(missed', copy, (ingested - 1) + 1)
        BY <1>0, <2>1, <4>1, KnownAfter
      <4>. QED
        BY <2>1, <3>1, <4>1, <4>2 DEF Known, H!ChainValue
    <3>2. CASE record.by = "daemon" => record.value = ingested
      <4>1. Known(missed, record, ingested)
        BY <1>5, <2>1, <3>2
      <4>2. Known(missed', record, ingested)
        BY <2>1, <4>1, StillKnown
      <4>. QED
        BY <2>1, <4>2 DEF Known, H!ChainValue
    <3>. QED
      BY <1>0, <2>1, <3>1, <3>2 DEF HistoryInv
  <2>. QED
    BY <2>1, <2>2, EntriesStay DEF HistoryInv
<1>8. ASSUME NEW r \in ParamRuns, H!UpdateOrCreate(r) PROVE HistoryInv' /\ OldValueRight'
  BY <1>1, <1>8 DEF H!UpdateOrCreate
<1>. QED
  BY <1>1, <1>2, <1>3, <1>4, <1>6, <1>7, <1>8 DEF H!Next, H!Grow, H!RunFails, H!FetchParams

\* The invariant of the hyperparameters: what a run is about to write is of the block it
\* names, unless another writer has come in between.
THEOREM ParamInvariant == H!Spec => []ParamInv
<1>1. H!Init => ParamInv
  <2>. SUFFICES ASSUME H!Init PROVE ParamInv
    OBVIOUS
  <2>1. H!HyperparamTypeOK
    BY ParamNumbers DEF H!Init, H!HyperparamTypeOK, H!ParamBlocks
  <2>2. RecordOfOneBlock /\ HistoryInv /\ OldValueRight
    BY DEF H!Init, H!NoRecord, RecordOfOneBlock, H!RecordOfOneBlock, HistoryInv, Known,
       OldValueRight, H!OldValueRight
  <2>. QED
    BY <2>1, <2>2 DEF ParamInv
<1>2. ParamInv /\ [H!Next]_H!vars => ParamInv'
  <2>1. CASE H!Next
    BY <2>1, ParamTypes, RecordStaysOfOneBlock, HistoryStaysRight DEF ParamInv
  <2>2. CASE UNCHANGED H!vars
    BY <2>2 DEF ParamInv, H!vars, H!HyperparamTypeOK, RecordOfOneBlock, H!RecordOfOneBlock,
       HistoryInv, Known, OldValueRight, H!OldValueRight, H!ChainValue
  <2>. QED
    BY <2>1, <2>2
<1>. QED
  BY <1>1, <1>2, PTL DEF H!Spec

\* Value and block number of a hyperparameter's row belong together (RecordOfOneBlock),
\* although the daemon saves a row that a run may have replaced since it was read.
THEOREM RecordsAreOfOneBlock == H!Spec => []RecordOfOneBlock
  BY ParamInvariant, PTL DEF ParamInv

\* The daemon's history has the right old values (OldValueRight), unless it missed the
\* change before: however runs replace the row between its three statements.
THEOREM HistoryIsRight == H!Spec => []OldValueRight
  BY ParamInvariant, PTL DEF ParamInv
-----------------------------------------------------------------------------
(* Snapshot health. *)

HealthWork ==
    [phase : {"off", "count", "replace"}, end : 0..LastHealthBlock, left : SUBSET Netuids,
     found : SUBSET S!Rows, stale : BOOLEAN]

HealthTyped == S!HealthTypeOK /\ work \in [HealthRuns -> HealthWork]

Working(r) == work[r].phase # "off"

\* The subnets that an execution is about, and those that the table is about.
SubnetsOf(r) == work[r].left \cup {m.netuid : m \in work[r].found}
Published == {m.netuid : m \in health}

Comparable(A, B) == A \subseteq B \/ B \subseteq A
Covers(rows_, A) == \A n \in A, w \in S!Windows : \E m \in rows_ : m.netuid = n /\ m.window = w

\* What an execution has read: it is about the subnets that were stored when it began,
\* every one of which had a dumpable block by then.
Reading(r) ==
    /\ work[r].end \in S!HealthBlocks
    /\ SubnetsOf(r) # {} /\ SubnetsOf(r) \subseteq stored
    /\ \A n \in SubnetsOf(r) : \E d \in Dumpable[n] : d <= work[r].end
    /\ \A m \in work[r].found : m.of = r /\ m.end = work[r].end
    /\ Covers(work[r].found, SubnetsOf(r) \ work[r].left)
    /\ work[r].phase = "replace" => work[r].left = {}
    /\ work[r].stale => work[r].phase = "replace" /\ health # {}

ReadInv ==
    /\ latest > 0 => stored # {}
    /\ \A n \in stored : \E d \in Dumpable[n] : d <= latest
    /\ \A r \in HealthRuns : Working(r) => Reading(r)

\* As subnets are only added, executions have their older subnets in common, which is
\* what makes the unique constraint bite.
TableInv ==
    /\ Published \subseteq stored /\ Covers(health, Published)
    /\ \A r \in HealthRuns : Working(r) => Comparable(SubnetsOf(r), Published)
    /\ \A r, s \in HealthRuns :
          Working(r) /\ Working(s) => Comparable(SubnetsOf(r), SubnetsOf(s))
    /\ HealthOfOneRun

\* The blocks of a row's window that have no snapshot now.
MissingNow(m) ==
    {b \in S!HealthBlocks : /\ b \in Dumpable[m.netuid] \ have[m.netuid]
                            /\ m.end - m.window <= b /\ b <= m.end}

CountInv ==
    /\ \A r \in HealthRuns : \A m \in work[r].found : m.missing >= Cardinality(MissingNow(m))
    /\ \A m \in health : m.missing >= Cardinality(MissingNow(m))

HealthInv == HealthTyped /\ ReadInv /\ TableInv /\ CountInv

\* Counting inside the instanced module is counting here.
LEMMA SameCount == ASSUME NEW A PROVE S!Cardinality(A) = Cardinality(A)
  BY Zenon DEF S!Cardinality, Cardinality, S!IsFiniteSet, IsFiniteSet

\* Blocks and windows are numbers.
LEMMA HealthNumbers ==
    /\ LastHealthBlock \in Nat /\ Narrow \in Nat /\ Wide \in Nat
    /\ \A w \in S!Windows : w \in Nat
    /\ Narrow \in S!Windows
    /\ \A b \in S!HealthBlocks : b \in Nat /\ 1 <= b /\ b <= LastHealthBlock
    /\ S!HealthBlocks = 1..LastHealthBlock
    /\ \A n \in Netuids : Dumpable[n] \subseteq S!HealthBlocks
  BY ServicesAssumption DEF S!Windows, S!HealthBlocks

\* A set of blocks can be counted, and the part of a set has no greater count.
LEMMA BlocksCount ==
    ASSUME NEW A \in SUBSET S!HealthBlocks
    PROVE  /\ IsFiniteSet(A) /\ Cardinality(A) \in 0..LastHealthBlock
           /\ \A B \in SUBSET A : Cardinality(B) \in Nat /\ Cardinality(B) <= Cardinality(A)
<1>1. IsFiniteSet(S!HealthBlocks) /\ Cardinality(S!HealthBlocks) = LastHealthBlock
  <2>1. 1 \in Int /\ LastHealthBlock \in Int /\ LastHealthBlock >= 0
    BY HealthNumbers
  <2>2. /\ IsFiniteSet(1..LastHealthBlock)
        /\ Cardinality(1..LastHealthBlock)
             = IF 1 > LastHealthBlock THEN 0 ELSE LastHealthBlock - 1 + 1
    BY ONLY <2>1, FS_Interval
  <2>3. LastHealthBlock = IF 1 > LastHealthBlock THEN 0 ELSE LastHealthBlock - 1 + 1
    BY ONLY <2>1
  <2>. QED
    BY <2>2, <2>3, HealthNumbers, Zenon
<1>2. IsFiniteSet(A) /\ Cardinality(A) <= LastHealthBlock
  BY <1>1, FS_Subset
<1>3. Cardinality(A) \in Nat
  BY <1>2, FS_CardinalityType
<1>4. ASSUME NEW B \in SUBSET A PROVE Cardinality(B) \in Nat /\ Cardinality(B) <= Cardinality(A)
  BY <1>2, FS_Subset, FS_CardinalityType
<1>5. Cardinality(A) \in 0..LastHealthBlock
  BY <1>2, <1>3, HealthNumbers
<1>. QED
  BY <1>2, <1>4, <1>5, Zenon

\* What CountSubnet finds: one row for each window, of this execution, that counts the
\* blocks that are missing now.
LEMMA CountsAre ==
    ASSUME HealthTyped, ReadInv, NEW r \in HealthRuns, Working(r), NEW n \in work[r].left
    PROVE  /\ S!CountsOf(r, n) \subseteq S!Rows
           /\ \A m \in S!CountsOf(r, n) :
                 /\ m.netuid = n /\ m.of = r /\ m.end = work[r].end
                 /\ m.missing = Cardinality(MissingNow(m))
           /\ Covers(S!CountsOf(r, n), {n})
<1>1. n \in Netuids /\ work[r].end \in S!HealthBlocks
  BY DEF HealthTyped, HealthWork, ReadInv, Reading
<1>2. PICK d \in Dumpable[n] : d <= work[r].end
  BY DEF ReadInv, Reading, SubnetsOf
<1>3. \A w \in S!Windows : S!Expected(n, w, work[r].end) # {}
  <2>1. d \in Nat /\ work[r].end \in d..LastHealthBlock
    BY <1>1, <1>2, HealthNumbers
  <2>2. \A w \in {Narrow, Wide} : \E b \in Dumpable[n] : work[r].end - w <= b /\ b <= work[r].end
    BY <1>1, <1>2, <2>1, ServicesAssumption
  <2>. QED
    BY <2>2 DEF S!Expected, S!Windows
<1>4. ASSUME NEW m \in S!CountsOf(r, n)
      PROVE  /\ m \in S!Rows /\ m.netuid = n /\ m.of = r /\ m.end = work[r].end
             /\ m.missing = Cardinality(MissingNow(m))
  <2>1. PICK w \in S!Windows :
           m = [netuid |-> n, window |-> w, of |-> r, end |-> work[r].end,
                missing |-> Cardinality(S!Expected(n, w, work[r].end) \ have[n])]
    BY <1>4, SameCount DEF S!CountsOf
  <2>2. S!Expected(n, w, work[r].end) \ have[n] = MissingNow(m)
    BY <1>1, <2>1, HealthNumbers DEF S!Expected, MissingNow
  <2>3. MissingNow(m) \in SUBSET S!HealthBlocks
    BY DEF MissingNow
  <2>4. Cardinality(MissingNow(m)) \in 0..LastHealthBlock
    BY <2>3, BlocksCount
  <2>. QED
    BY <1>1, <2>1, <2>2, <2>4 DEF S!Rows
<1>5. ASSUME NEW w \in S!Windows PROVE \E m \in S!CountsOf(r, n) : m.netuid = n /\ m.window = w
  <2>. DEFINE m == [netuid |-> n, window |-> w, of |-> r, end |-> work[r].end,
                    missing |-> Cardinality(S!Expected(n, w, work[r].end) \ have[n])]
  <2>1. m \in S!CountsOf(r, n)
    BY <1>3, SameCount DEF S!CountsOf
  <2>. QED
    BY <2>1
<1>. QED
  BY <1>4, <1>5 DEF Covers

\* Snapshots are only added: fewer are missing later on.
LEMMA FewerAreMissing ==
    ASSUME HealthTyped, \A n \in Netuids : have[n] \subseteq have'[n],
           NEW m \in S!Rows, m.missing >= Cardinality(MissingNow(m))
    PROVE  m.missing >= Cardinality(MissingNow(m)')
<1>1. MissingNow(m) \in SUBSET S!HealthBlocks
  BY DEF MissingNow
<1>2. m.netuid \in Netuids /\ m.missing \in Nat
  BY HealthNumbers DEF S!Rows
<1>3. MissingNow(m)' \in SUBSET MissingNow(m)
  BY <1>2 DEF MissingNow
<1>4. Cardinality(MissingNow(m)) \in Nat
  BY <1>1, BlocksCount, HealthNumbers
<1>5. Cardinality(MissingNow(m)') \in Nat /\ Cardinality(MissingNow(m)') <= Cardinality(MissingNow(m))
  BY <1>1, <1>3, BlocksCount
<1>. QED
  BY <1>2, <1>4, <1>5
\* Until an execution goes on, what it has read stays what it is.
LEMMA SameWork ==
    ASSUME NEW r \in HealthRuns, work'[r] = work[r]
    PROVE  SubnetsOf(r)' = SubnetsOf(r) /\ Working(r)' = Working(r)
  BY DEF SubnetsOf, Working

\* A sync or a missed block: executions and table stay, snapshots are added.
LEMMA ChainGoesOn ==
    ASSUME HealthInv, HealthTyped', UNCHANGED <<health, work>>,
           latest <= latest', latest' > 0 => stored' # {}, stored \subseteq stored',
           \A n \in Netuids : have[n] \subseteq have'[n],
           \A n \in stored' \ stored : \E d \in Dumpable[n] : d <= latest'
    PROVE  HealthInv'
<1>1. /\ \A r \in HealthRuns : SubnetsOf(r)' = SubnetsOf(r) /\ Working(r)' = Working(r)
      /\ Published' = Published
  BY DEF SubnetsOf, Working, Published
<1>2. ReadInv'
  <2>1. \A n \in stored' : \E d \in Dumpable[n] : d <= latest'
    <3>1. ASSUME NEW n \in stored PROVE \E d \in Dumpable[n] : d <= latest'
      <4>1. PICK d \in Dumpable[n] : d <= latest
        BY DEF HealthInv, ReadInv, Reading
      <4>2. d \in Nat /\ latest \in Nat /\ latest' \in Nat
        BY HealthNumbers DEF HealthInv, HealthTyped, S!HealthTypeOK
      <4>. QED
        BY <4>1, <4>2
    <3>. QED
      BY <3>1
  <2>2. ASSUME NEW r \in HealthRuns, Working(r) PROVE Reading(r)'
    <3>1. Reading(r)
      BY <2>2 DEF HealthInv, ReadInv
    <3>2. SubnetsOf(r)' = SubnetsOf(r) /\ work'[r] = work[r] /\ health' = health
      BY <1>1
    <3>3. Covers(work[r].found, SubnetsOf(r) \ work[r].left)'
      BY <3>1, <3>2 DEF Reading, Covers
    <3>. QED
      BY <3>1, <3>2, <3>3 DEF Reading
  <2>. QED
    BY <1>1, <2>1, <2>2 DEF ReadInv
<1>3. TableInv'
  BY <1>1 DEF HealthInv, TableInv, HealthOfOneRun, S!HealthOfOneRun
<1>4. CountInv'
  <2>1. /\ \A r \in HealthRuns : work[r].found \subseteq S!Rows
        /\ health \subseteq S!Rows
    BY DEF HealthInv, HealthTyped, S!HealthTypeOK
  <2>2. ASSUME NEW m \in S!Rows, m.missing >= Cardinality(MissingNow(m))
        PROVE  m.missing >= Cardinality(MissingNow(m)')
    BY <2>2, FewerAreMissing DEF HealthInv
  <2>. QED
    BY <2>1, <2>2 DEF HealthInv, CountInv, MissingNow
<1>. QED
  BY <1>2, <1>3, <1>4 DEF HealthInv

\* A sync: one snapshot more.
LEMMA SyncSnapshotKeeps ==
    ASSUME HealthInv, NEW n \in Netuids, NEW b \in S!HealthBlocks, S!SyncSnapshot(n, b)
    PROVE  HealthInv'
<1>1. /\ latest \in 0..LastHealthBlock /\ stored \subseteq Netuids
      /\ have \in [Netuids -> SUBSET S!HealthBlocks]
      /\ b \in Dumpable[n] /\ b \in 1..LastHealthBlock
  BY HealthNumbers DEF HealthInv, HealthTyped, S!HealthTypeOK, S!SyncSnapshot
<1>2. /\ latest' \in 0..LastHealthBlock /\ latest <= latest' /\ b <= latest'
      /\ stored' = stored \cup {n}
      /\ have' \in [Netuids -> SUBSET S!HealthBlocks]
      /\ \A k \in Netuids : have[k] \subseteq have'[k]
      /\ UNCHANGED <<health, work>>
  BY <1>1, HealthNumbers DEF S!SyncSnapshot
<1>3. HealthTyped'
  BY <1>1, <1>2 DEF HealthInv, HealthTyped, S!HealthTypeOK
<1>4. \A k \in stored' \ stored : \E d \in Dumpable[k] : d <= latest'
  BY <1>1, <1>2
<1>. QED
  BY <1>2, <1>3, <1>4, ChainGoesOn

\* A block without snapshots: it is the newest one.
LEMMA MissBlockKeeps == ASSUME HealthInv, S!MissBlock PROVE HealthInv'
<1>1. latest \in 0..LastHealthBlock
  BY DEF HealthInv, HealthTyped, S!HealthTypeOK
<1>2. /\ latest' \in 0..LastHealthBlock /\ latest <= latest'
      /\ stored' = stored /\ have' = have /\ UNCHANGED <<health, work>> /\ latest > 0
  BY <1>1, HealthNumbers DEF S!MissBlock
<1>3. HealthTyped' /\ stored # {}
  BY <1>2 DEF HealthInv, HealthTyped, S!HealthTypeOK, ReadInv, Reading
<1>. QED
  BY <1>2, <1>3, ChainGoesOn

\* The execution's first read: all the subnets there are, of which the table has some.
LEMMA BeginHealthKeeps ==
    ASSUME HealthInv, NEW r \in HealthRuns, S!BeginHealth(r) PROVE HealthInv'
<1>1. /\ latest \in 1..LastHealthBlock /\ stored \subseteq Netuids /\ stored # {}
      /\ \A n \in stored : \E d \in Dumpable[n] : d <= latest
      /\ UNCHANGED <<latest, stored, have, health>>
  BY HealthNumbers DEF HealthInv, HealthTyped, S!HealthTypeOK, ReadInv, Reading, S!BeginHealth
<1>2. /\ work'[r].phase = "count" /\ work'[r].end = latest /\ work'[r].left = stored
      /\ work'[r].found = {} /\ ~work'[r].stale
      /\ \A s \in HealthRuns \ {r} : work'[s] = work[s]
      /\ work' \in [HealthRuns -> HealthWork]
  <2>. DEFINE W == [S!Off EXCEPT !.phase = "count", !.end = latest, !.left = stored]
  <2>1. /\ W.phase = "count" /\ W.end = latest /\ W.left = stored /\ W.found = {} /\ ~W.stale
        /\ W \in HealthWork
    <3>1. W.phase = "count" /\ W.end = latest /\ W.left = stored /\ W.found = {}
      BY DEF S!Off
    <3>2. W.stale = FALSE
      BY DEF S!Off
    <3>3. W \in HealthWork
      <4>1. latest \in 0..LastHealthBlock
        BY <1>1, HealthNumbers
      <4>2. S!Off \in HealthWork
        BY HealthNumbers DEF HealthWork, S!Off
      <4>. QED
        BY <1>1, <4>1, <4>2 DEF HealthWork
    <3>. QED
      BY <3>1, <3>2, <3>3
  <2>2. work' = [work EXCEPT ![r] = W] /\ work \in [HealthRuns -> HealthWork]
    BY DEF HealthInv, HealthTyped, S!BeginHealth
  <2>. HIDE DEF W
  <2>. QED
    BY <2>1, <2>2
<1>3. /\ SubnetsOf(r)' = stored /\ Working(r)' /\ Published' = Published
      /\ \A s \in HealthRuns \ {r} : SubnetsOf(s)' = SubnetsOf(s) /\ Working(s)' = Working(s)
  BY <1>1, <1>2, SameWork DEF SubnetsOf, Working, Published
<1>4. HealthTyped'
  BY <1>1, <1>2 DEF HealthInv, HealthTyped, S!HealthTypeOK
<1>5. ReadInv'
  <2>1. latest \in S!HealthBlocks
    BY <1>1, HealthNumbers
  <2>. QED
    BY <1>1, <1>2, <1>3, <2>1 DEF HealthInv, ReadInv, Reading, Covers
<1>6. TableInv'
  <2>1. /\ Published \subseteq stored
        /\ \A s \in HealthRuns \ {r} : Working(s) => SubnetsOf(s) \subseteq stored
    BY DEF HealthInv, TableInv, ReadInv, Reading
  <2>. QED
    BY <1>1, <1>3, <2>1 DEF HealthInv, TableInv, Comparable, HealthOfOneRun, S!HealthOfOneRun
<1>7. CountInv'
  BY <1>1, <1>2 DEF HealthInv, CountInv, MissingNow
<1>. QED
  BY <1>4, <1>5, <1>6, <1>7 DEF HealthInv

\* One subnet is counted: it goes from those that are left to those found.
LEMMA CountSubnetKeeps ==
    ASSUME HealthInv, NEW r \in HealthRuns, NEW n \in Netuids, S!CountSubnet(r, n)
    PROVE  HealthInv'
<1>1. /\ Working(r) /\ work[r].phase = "count" /\ n \in work[r].left
      /\ UNCHANGED <<latest, stored, have, health>>
      /\ work[r] \in HealthWork
  BY DEF S!CountSubnet, Working, HealthInv, HealthTyped
<1>2. /\ S!CountsOf(r, n) \subseteq S!Rows
      /\ \A m \in S!CountsOf(r, n) :
            /\ m.netuid = n /\ m.of = r /\ m.end = work[r].end
            /\ m.missing = Cardinality(MissingNow(m))
      /\ Covers(S!CountsOf(r, n), {n})
  BY <1>1, CountsAre DEF HealthInv
<1>. HIDE DEF S!CountsOf
<1>3. /\ work'[r] = [work[r] EXCEPT !.left = work[r].left \ {n},
                                    !.found = work[r].found \cup S!CountsOf(r, n)]
      /\ \A s \in HealthRuns \ {r} : work'[s] = work[s]
      /\ work' \in [HealthRuns -> HealthWork]
  BY <1>1, <1>2 DEF HealthInv, HealthTyped, HealthWork, S!CountSubnet
<1>4. /\ work'[r].phase = "count" /\ work'[r].end = work[r].end /\ work'[r].stale = work[r].stale
      /\ work'[r].left = work[r].left \ {n}
      /\ work'[r].found = work[r].found \cup S!CountsOf(r, n)
  BY <1>1, <1>3 DEF HealthWork
<1>5. /\ SubnetsOf(r)' = SubnetsOf(r) /\ Working(r)' /\ Published' = Published
      /\ \A s \in HealthRuns \ {r} : SubnetsOf(s)' = SubnetsOf(s) /\ Working(s)' = Working(s)
  <2>1. {m.netuid : m \in S!CountsOf(r, n)} = {n}
    BY <1>2, HealthNumbers DEF Covers
  <2>2. {m.netuid : m \in work[r].found \cup S!CountsOf(r, n)}
          = {m.netuid : m \in work[r].found} \cup {m.netuid : m \in S!CountsOf(r, n)}
    OBVIOUS
  <2>3. SubnetsOf(r)' = SubnetsOf(r)
    BY <1>1, <1>4, <2>1, <2>2 DEF SubnetsOf
  <2>. QED
    BY <1>1, <1>3, <1>4, <2>3, SameWork DEF Working, Published
<1>6. HealthTyped'
  <2>1. work'[r].found \subseteq S!Rows
    BY <1>2, <1>4 DEF HealthInv, HealthTyped, S!HealthTypeOK
  <2>. QED
    BY <1>1, <1>3, <2>1 DEF HealthInv, HealthTyped, S!HealthTypeOK
<1>7. ReadInv'
  <2>1. Covers(work'[r].found, SubnetsOf(r) \ work'[r].left)
    <3>1. Covers(work[r].found, SubnetsOf(r) \ work[r].left)
      BY <1>1 DEF HealthInv, ReadInv, Reading
    <3>. QED
      BY <1>1, <1>2, <1>4, <3>1 DEF Covers
  <2>2. \A m \in work'[r].found : m.of = r /\ m.end = work[r].end
    BY <1>1, <1>2, <1>4 DEF HealthInv, ReadInv, Reading
  <2>3. ~work[r].stale
    BY <1>1 DEF HealthInv, ReadInv, Reading
  <2>4. Reading(r)'
    <3>1. Reading(r)
      BY <1>1 DEF HealthInv, ReadInv
    <3>2. Covers(work[r].found, SubnetsOf(r) \ work[r].left)'
      BY <1>5, <2>1 DEF Covers
    <3>. QED
      BY <1>1, <1>4, <1>5, <2>2, <2>3, <3>1, <3>2 DEF Reading
  <2>5. ASSUME NEW s \in HealthRuns \ {r}, Working(s) PROVE Reading(s)'
    <3>1. Reading(s)
      BY <2>5 DEF HealthInv, ReadInv
    <3>2. work'[s] = work[s] /\ SubnetsOf(s)' = SubnetsOf(s)
      BY <1>3, <1>5
    <3>3. Covers(work[s].found, SubnetsOf(s) \ work[s].left)'
      BY <3>1, <3>2 DEF Reading, Covers
    <3>. QED
      BY <1>1, <3>1, <3>2, <3>3 DEF Reading
  <2>. QED
    BY <1>1, <1>5, <2>4, <2>5 DEF HealthInv, ReadInv
<1>8. TableInv'
  BY <1>1, <1>5 DEF HealthInv, TableInv, HealthOfOneRun, S!HealthOfOneRun
<1>9. CountInv'
  <2>1. \A m \in work'[r].found : m.missing >= Cardinality(MissingNow(m))
    <3>1. ASSUME NEW m \in S!CountsOf(r, n) PROVE m.missing >= Cardinality(MissingNow(m))
      <4>1. MissingNow(m) \in SUBSET S!HealthBlocks
        BY DEF MissingNow
      <4>2. Cardinality(MissingNow(m)) \in Nat
        BY <4>1, BlocksCount, HealthNumbers
      <4>. QED
        BY <1>2, <4>2
    <3>. QED
      BY <1>4, <3>1 DEF HealthInv, CountInv
  <2>2. \A m : MissingNow(m)' = MissingNow(m)
    BY <1>1 DEF MissingNow
  <2>. QED
    BY <1>1, <1>3, <2>1, <2>2 DEF HealthInv, CountInv
<1>. QED
  BY <1>6, <1>7, <1>8, <1>9 DEF HealthInv
\* The transaction of an execution that has counted every subnet begins.
LEMMA BeginReplaceKeeps ==
    ASSUME HealthInv, NEW r \in HealthRuns, S!BeginReplace(r) PROVE HealthInv'
<1>1. /\ Working(r) /\ work[r].phase = "count" /\ work[r].left = {} /\ work[r] \in HealthWork
      /\ UNCHANGED <<latest, stored, have, health>>
  BY DEF S!BeginReplace, Working, HealthInv, HealthTyped
<1>2. /\ work'[r] = [work[r] EXCEPT !.phase = "replace", !.stale = FALSE]
      /\ \A s \in HealthRuns \ {r} : work'[s] = work[s]
      /\ work' \in [HealthRuns -> HealthWork]
  BY <1>1 DEF HealthInv, HealthTyped, HealthWork, S!BeginReplace
<1>3. /\ work'[r].phase = "replace" /\ ~work'[r].stale /\ work'[r].end = work[r].end
      /\ work'[r].left = {} /\ work'[r].found = work[r].found
  BY <1>1, <1>2 DEF HealthWork
<1>4. /\ Working(r)' /\ SubnetsOf(r)' = SubnetsOf(r) /\ Published' = Published
      /\ \A s \in HealthRuns \ {r} : SubnetsOf(s)' = SubnetsOf(s) /\ Working(s)' = Working(s)
  BY <1>1, <1>2, <1>3, SameWork DEF Working, SubnetsOf, Published
<1>5. HealthTyped'
  BY <1>1, <1>2, <1>3 DEF HealthInv, HealthTyped, S!HealthTypeOK
<1>6. ReadInv'
  <2>1. Reading(r)'
    BY <1>1, <1>3, <1>4 DEF HealthInv, ReadInv, Reading, Covers
  <2>2. ASSUME NEW s \in HealthRuns \ {r}, Working(s) PROVE Reading(s)'
    BY <1>1, <1>2, <1>4, <2>2 DEF HealthInv, ReadInv, Reading, Covers
  <2>. QED
    BY <1>1, <1>4, <2>1, <2>2 DEF HealthInv, ReadInv
<1>7. TableInv'
  BY <1>1, <1>4 DEF HealthInv, TableInv, HealthOfOneRun, S!HealthOfOneRun
<1>8. CountInv'
  BY <1>1, <1>2, <1>3 DEF HealthInv, CountInv, MissingNow
<1>. QED
  BY <1>5, <1>6, <1>7, <1>8 DEF HealthInv

\* An execution whose transaction began before another one replaced the table meets a
\* row of it: they have a subnet in common.
LEMMA StaleMeetsRow ==
    ASSUME HealthInv, NEW r \in HealthRuns, Working(r), work[r].stale
    PROVE  S!Conflict(r)
<1>1. /\ health # {} /\ work[r].left = {} /\ SubnetsOf(r) # {}
      /\ Covers(work[r].found, SubnetsOf(r)) /\ Covers(health, Published)
      /\ Comparable(SubnetsOf(r), Published)
  <2>1. Reading(r)
    BY DEF HealthInv, ReadInv
  <2>2. health # {} /\ work[r].left = {} /\ SubnetsOf(r) # {}
    BY <2>1 DEF Reading
  <2>3. Covers(work[r].found, SubnetsOf(r))
    BY <2>1, <2>2 DEF Reading, Covers
  <2>4. Covers(health, Published) /\ Comparable(SubnetsOf(r), Published)
    BY DEF HealthInv, TableInv
  <2>. QED
    BY <2>2, <2>3, <2>4
<1>2. PICK n \in SubnetsOf(r) : n \in Published
  BY <1>1 DEF Comparable, Published
<1>3. PICK m \in work[r].found : m.netuid = n /\ m.window = Narrow
  BY <1>1, <1>2, HealthNumbers DEF Covers
<1>4. PICK k \in health : k.netuid = n /\ k.window = Narrow
  BY <1>1, <1>2, HealthNumbers DEF Covers
<1>5. <<n, Narrow>> \in S!Keys(work[r].found) /\ <<n, Narrow>> \in S!Keys(health)
  BY <1>3, <1>4 DEF S!Keys
<1>. QED
  BY <1>5 DEF S!Conflict

\* The execution that replaces the table is one whose DELETE saw all of it.
LEMMA ReplaceKeeps == ASSUME HealthInv, NEW r \in HealthRuns, S!Replace(r) PROVE HealthInv'
<1>1. Working(r) /\ work[r].phase = "replace" /\ work[r].left = {} /\ work[r] \in HealthWork
  BY DEF S!Replace, Working, HealthInv, HealthTyped, ReadInv, Reading
<1>2. ~work[r].stale
  BY <1>1, StaleMeetsRow DEF S!Replace
<1>3. health' = work[r].found /\ UNCHANGED <<latest, stored, have>>
  BY <1>2 DEF S!Replace
<1>4. ~Working(r)' /\ work'[r].found = {} /\ ~work'[r].stale
  BY DEF S!Replace, S!Off, Working
<1>5. ASSUME NEW s \in HealthRuns \ {r}
      PROVE  /\ work'[s] \in HealthWork
             /\ work'[s].phase = work[s].phase /\ work'[s].end = work[s].end
             /\ work'[s].left = work[s].left /\ work'[s].found = work[s].found
             /\ work'[s].stale => work'[s].phase = "replace" \/ work[s].stale
             /\ SubnetsOf(s)' = SubnetsOf(s) /\ Working(s)' = Working(s)
  <2>1. work[s] \in HealthWork
    BY DEF HealthInv, HealthTyped
  <2>2. CASE work[s].phase = "replace"
    <3>1. work'[s] = [work[s] EXCEPT !.stale = TRUE]
      BY <2>2 DEF S!Replace
    <3>. QED
      BY <2>1, <2>2, <3>1 DEF HealthWork, SubnetsOf, Working
  <2>3. CASE work[s].phase # "replace"
    <3>1. work'[s] = work[s]
      BY <2>3 DEF S!Replace
    <3>. QED
      BY <2>1, <3>1 DEF SubnetsOf, Working
  <2>. QED
    BY <2>2, <2>3
<1>6. Published' = SubnetsOf(r)
  BY <1>1, <1>3 DEF Published, SubnetsOf
<1>7. HealthTyped'
  <2>1. S!Off \in HealthWork
    BY HealthNumbers DEF HealthWork, S!Off
  <2>2. work' \in [HealthRuns -> HealthWork]
    <3>1. \A s \in HealthRuns : work'[s] \in HealthWork
      BY <1>5, <2>1 DEF S!Replace
    <3>2. work' = [s \in HealthRuns |-> work'[s]]
      BY DEF S!Replace
    <3>. QED
      BY <3>1, <3>2
  <2>3. health' \subseteq S!Rows /\ \A s \in HealthRuns : work'[s].found \subseteq S!Rows
    BY <1>3, <1>4, <1>5 DEF HealthInv, HealthTyped, S!HealthTypeOK
  <2>. QED
    BY <1>3, <2>2, <2>3 DEF HealthInv, HealthTyped, S!HealthTypeOK
<1>8. ReadInv'
  <2>1. health' # {}
    BY <1>1, <1>3, <1>6 DEF HealthInv, ReadInv, Reading, Published
  <2>2. ASSUME NEW s \in HealthRuns \ {r}, Working(s) PROVE Reading(s)'
    <3>1. Reading(s)
      BY <2>2 DEF HealthInv, ReadInv
    <3>. QED
      BY <1>3, <1>5, <2>1, <3>1 DEF Reading, Covers
  <2>. QED
    BY <1>3, <1>4, <1>5, <2>2 DEF HealthInv, ReadInv
<1>9. TableInv'
  <2>1. Published' \subseteq stored' /\ Covers(health', Published')
    BY <1>1, <1>3, <1>6 DEF HealthInv, ReadInv, Reading, Covers
  <2>2. \A s \in HealthRuns : Working(s)' => Comparable(SubnetsOf(s)', Published')
    BY <1>1, <1>4, <1>5, <1>6 DEF HealthInv, TableInv
  <2>3. \A s, t \in HealthRuns :
           Working(s)' /\ Working(t)' => Comparable(SubnetsOf(s)', SubnetsOf(t)')
    BY <1>4, <1>5 DEF HealthInv, TableInv
  <2>4. HealthOfOneRun'
    <3>1. \A m \in work[r].found : m.of = r /\ m.end = work[r].end
      BY <1>1 DEF HealthInv, ReadInv, Reading
    <3>. QED
      BY <1>3, <3>1 DEF HealthOfOneRun, S!HealthOfOneRun
  <2>. QED
    BY <2>1, <2>2, <2>3, <2>4 DEF TableInv, Covers, Comparable
<1>10. CountInv'
  <2>1. \A m : MissingNow(m)' = MissingNow(m)
    BY <1>3 DEF MissingNow
  <2>2. \A s \in HealthRuns : \A m \in work'[s].found : m.missing >= Cardinality(MissingNow(m))
    BY <1>4, <1>5 DEF HealthInv, CountInv
  <2>3. \A m \in health' : m.missing >= Cardinality(MissingNow(m))
    BY <1>3 DEF HealthInv, CountInv
  <2>. QED
    BY <2>1, <2>2, <2>3 DEF CountInv
<1>. QED
  BY <1>7, <1>8, <1>9, <1>10 DEF HealthInv

\* An execution that fails leaves the table as it is.
LEMMA HealthFailsKeeps == ASSUME HealthInv, NEW r \in HealthRuns, S!HealthFails(r) PROVE HealthInv'
<1>1. /\ UNCHANGED <<latest, stored, have, health>>
      /\ work' = [work EXCEPT ![r] = S!Off] /\ work \in [HealthRuns -> HealthWork]
  BY DEF S!HealthFails, HealthInv, HealthTyped
<1>2. /\ S!Off \in HealthWork /\ S!Off.phase = "off" /\ S!Off.found = {}
  BY HealthNumbers DEF HealthWork, S!Off
<1>3. /\ ~Working(r)' /\ work'[r].found = {}
      /\ \A s \in HealthRuns \ {r} : work'[s] = work[s]
      /\ work' \in [HealthRuns -> HealthWork]
  BY <1>1, <1>2 DEF Working
<1>4. /\ Published' = Published
      /\ \A s \in HealthRuns \ {r} : SubnetsOf(s)' = SubnetsOf(s) /\ Working(s)' = Working(s)
  BY <1>1, <1>3, SameWork DEF Published
<1>5. HealthTyped'
  BY <1>1, <1>3 DEF HealthInv, HealthTyped, S!HealthTypeOK
<1>6. ReadInv'
  <2>1. ASSUME NEW s \in HealthRuns \ {r}, Working(s) PROVE Reading(s)'
    BY <1>1, <1>3, <1>4, <2>1 DEF HealthInv, ReadInv, Reading, Covers
  <2>. QED
    BY <1>1, <1>3, <1>4, <2>1 DEF HealthInv, ReadInv
<1>7. TableInv'
  BY <1>1, <1>3, <1>4 DEF HealthInv, TableInv, HealthOfOneRun, S!HealthOfOneRun
<1>8. CountInv'
  BY <1>1, <1>3 DEF HealthInv, CountInv, MissingNow
<1>. QED
  BY <1>5, <1>6, <1>7, <1>8 DEF HealthInv

\* The invariant of the task: what executions have read, how their subnets and those of
\* the table compare, and that no row counts too little.
THEOREM HealthInvariant == S!Spec => []HealthInv
<1>1. S!Init => HealthInv
  <2>. SUFFICES ASSUME S!Init PROVE HealthInv
    OBVIOUS
  <2>1. S!Off \in HealthWork /\ S!Off.phase = "off" /\ S!Off.found = {}
    BY HealthNumbers DEF HealthWork, S!Off
  <2>2. \A r \in HealthRuns : ~Working(r) /\ work[r].found = {}
    BY <2>1 DEF S!Init, Working
  <2>3. HealthTyped
    BY <2>1, HealthNumbers DEF HealthTyped, S!HealthTypeOK, S!Init
  <2>4. ReadInv
    BY <2>2 DEF ReadInv, S!Init
  <2>5. TableInv
    BY <2>2 DEF TableInv, S!Init, Published, Covers, HealthOfOneRun, S!HealthOfOneRun
  <2>6. CountInv
    BY <2>2 DEF CountInv, S!Init
  <2>. QED
    BY <2>3, <2>4, <2>5, <2>6 DEF HealthInv
<1>2. HealthInv /\ [S!Next]_(S!vars) => HealthInv'
  <2>. SUFFICES ASSUME HealthInv, [S!Next]_(S!vars) PROVE HealthInv'
    OBVIOUS
  <2>1. ASSUME NEW n \in Netuids, NEW b \in S!HealthBlocks, S!SyncSnapshot(n, b) PROVE HealthInv'
    BY <2>1, SyncSnapshotKeeps
  <2>2. CASE S!MissBlock
    BY <2>2, MissBlockKeeps
  <2>3. ASSUME NEW r \in HealthRuns, S!BeginHealth(r) PROVE HealthInv'
    BY <2>3, BeginHealthKeeps
  <2>4. ASSUME NEW r \in HealthRuns, NEW n \in Netuids, S!CountSubnet(r, n) PROVE HealthInv'
    BY <2>4, CountSubnetKeeps
  <2>5. ASSUME NEW r \in HealthRuns, S!BeginReplace(r) PROVE HealthInv'
    BY <2>5, BeginReplaceKeeps
  <2>6. ASSUME NEW r \in HealthRuns, S!Replace(r) PROVE HealthInv'
    BY <2>6, ReplaceKeeps
  <2>7. ASSUME NEW r \in HealthRuns, S!HealthFails(r) PROVE HealthInv'
    BY <2>7, HealthFailsKeeps
  <2>8. CASE UNCHANGED S!vars
    <3>1. UNCHANGED <<latest, stored, have, health, work>>
      BY <2>8 DEF S!vars
    <3>2. HealthTyped' /\ latest \in Nat
      BY <3>1, HealthNumbers DEF HealthInv, HealthTyped, S!HealthTypeOK
    <3>3. latest' > 0 => stored' # {}
      BY <3>1 DEF HealthInv, ReadInv
    <3>. QED
      BY <3>1, <3>2, <3>3, ChainGoesOn
  <2>. QED
    BY <2>1, <2>2, <2>3, <2>4, <2>5, <2>6, <2>7, <2>8 DEF S!Next
<1>. QED
  BY <1>1, <1>2, PTL DEF S!Spec

\* The table of missing snapshots is of one execution, although any number of them
\* delete and insert side by side with no lock: the unique constraint refuses the rest.
THEOREM HealthIsOfOneRun == S!Spec => []HealthOfOneRun
<1>1. HealthInv => HealthOfOneRun
  BY DEF HealthInv, TableInv
<1>. QED
  BY <1>1, HealthInvariant, PTL

\* A block without a snapshot is counted, whatever is synced while the counts are read.
THEOREM HealthIsNeverUndercounted == S!Spec => []NeverUndercounted
<1>1. HealthInv => NeverUndercounted
  BY SameCount DEF HealthInv, CountInv, MissingNow, NeverUndercounted, S!NeverUndercounted
<1>. QED
  BY <1>1, HealthInvariant, PTL
-----------------------------------------------------------------------------
(* Notifications. *)

Turns == 1..8

\* Some handler is for the item.
HasHandler(e) == e.kind \in DOMAIN N!Patterns \/ e.wrapped \/ e.kind = "sudo"

SwapTurn == turn # 0 /\ N!Order[turn] = "coldkey_swap"

\* Dispatched items are few enough, and what is dispatched is part of them.
ItemsInv ==
    /\ N!NotificationTypeOK
    /\ Cardinality(items) <= MaxItems

\* What subnets hear, or are to hear, are swaps of their owners.
OwnerInv ==
    /\ turn # 0 => \A n \in Netuids : <<n, owners[n]>> \in ownedBy
    /\ fanout # {} => SwapTurn
    /\ \A p \in fanout \cup heardBy :
          p[2].success /\ p[2].kind = "swap" /\ <<p[1], p[2].signer>> \in ownedBy

\* What URLs have heard comes from handlers that had their turn, and all of the groups of
\* those that are through is heard or known to be unheard.
HeardInv ==
    /\ \A p \in heard :
          /\ p[2] \in items /\ p[2].success /\ p[1] \in UrlsOf[N!HandlerOf(p[2])]
          /\ \E k \in Turns : /\ N!HandlerOf(p[2]) = N!Order[k]
                              /\ turn = 0 \/ k < turn \/ (k = turn /\ SwapTurn)
    /\ \A e \in items : \A k \in Turns :
          e.success /\ N!HandlerOf(e) = N!Order[k] /\ (turn = 0 \/ k < turn)
          => e \in unheard \cup N!Delivered

\* The swaps are announced all or none, and counted when they were.
SwapsInv ==
    /\ announced # 0 => SwapTurn
    /\ SwapTurn => \/ N!Group("coldkey_swap") \subseteq N!Delivered
                   \/ announced = 0 /\ N!Group("coldkey_swap") \cap N!Delivered = {}

\* No item is counted twice, and none that has not been delivered.
TotalInv ==
    /\ total + announced <= Cardinality(N!Delivered)
    /\ ~raised => total + announced = Cardinality(N!Delivered)

NotifyInv == ItemsInv /\ OwnerInv /\ HeardInv /\ SwapsInv /\ TotalInv

\* Every handler has one turn.
LEMMA TurnsAre ==
    /\ Len(N!Order) = 8
    /\ \A j, k \in Turns : N!Order[j] = N!Order[k] => j = k
    /\ N!Order[2] = "coldkey_swap"
<1>1. /\ Len(N!Order) = 8
      /\ N!Order[1] = "admin_utils" /\ N!Order[2] = "coldkey_swap" /\ N!Order[3] = "dissolution"
      /\ N!Order[4] = "registration" /\ N!Order[5] = "sudo" /\ N!Order[6] = "cleanup"
      /\ N!Order[7] = "owner_change" /\ N!Order[8] = "completed"
  BY DEF N!Order
<1>2. \A k \in Turns : k = 1 \/ k = 2 \/ k = 3 \/ k = 4 \/ k = 5 \/ k = 6 \/ k = 7 \/ k = 8
  BY DEF Turns
<1>. HIDE DEF Turns
<1>3. ASSUME NEW j \in Turns, NEW k \in Turns, N!Order[j] = N!Order[k] PROVE j = k
  BY <1>1, <1>2, <1>3
<1>. QED
  BY <1>1, <1>3

\* Who is for an item has a turn; swaps go to the handler of swaps only.
LEMMA HandlersAre ==
    ASSUME NEW e
    PROVE  /\ HasHandler(e) => \E k \in Turns : N!HandlerOf(e) = N!Order[k]
           /\ N!HandlerOf(e) = "coldkey_swap" => e.kind = "swap"
           /\ N!HandlerOf(e) # "none" =>
                 \/ \E k \in DOMAIN N!Patterns : e.kind = k /\ N!HandlerOf(e) = N!Patterns[k]
                 \/ /\ N!HandlerOf(e) = "sudo" /\ e.kind \notin DOMAIN N!Patterns
                    /\ e.wrapped \/ e.kind = "sudo"
<1>1. /\ N!Order[1] = "admin_utils" /\ N!Order[2] = "coldkey_swap" /\ N!Order[3] = "dissolution"
      /\ N!Order[4] = "registration" /\ N!Order[5] = "sudo" /\ N!Order[6] = "cleanup"
      /\ N!Order[7] = "owner_change" /\ N!Order[8] = "completed"
      /\ {1, 2, 3, 4, 5, 6, 7, 8} \subseteq Turns
  BY DEF N!Order, Turns
<1>2. DOMAIN N!Patterns = {"admin", "swap", "dissolve", "register", "cleaned", "crowned", "added"}
  BY DEF N!Patterns
<1>3. /\ N!Patterns["admin"] = "admin_utils" /\ N!Patterns["swap"] = "coldkey_swap"
      /\ N!Patterns["dissolve"] = "dissolution" /\ N!Patterns["register"] = "registration"
      /\ N!Patterns["cleaned"] = "cleanup" /\ N!Patterns["crowned"] = "owner_change"
      /\ N!Patterns["added"] = "completed"
  BY DEF N!Patterns
<1>4. CASE e.kind \in DOMAIN N!Patterns
  <2>1. N!HandlerOf(e) = N!Patterns[e.kind]
    BY <1>4 DEF N!HandlerOf
  <2>2. \E k \in Turns : N!HandlerOf(e) = N!Order[k]
    BY <1>1, <1>2, <1>3, <1>4, <2>1
  <2>3. N!HandlerOf(e) = "coldkey_swap" => e.kind = "swap"
    BY <1>2, <1>3, <1>4, <2>1
  <2>. QED
    BY <1>4, <2>1, <2>2, <2>3
<1>5. CASE e.kind \notin DOMAIN N!Patterns
  <2>1. CASE e.wrapped \/ e.kind = "sudo"
    <3>1. N!HandlerOf(e) = "sudo"
      BY <1>5, <2>1 DEF N!HandlerOf
    <3>. QED
      BY <1>1, <1>5, <2>1, <3>1
  <2>2. CASE ~(e.wrapped \/ e.kind = "sudo")
    <3>1. N!HandlerOf(e) = "none"
      BY <1>5, <2>2 DEF N!HandlerOf
    <3>. QED
      BY <1>5, <2>2, <3>1 DEF HasHandler
  <2>. QED
    BY <2>1, <2>2
<1>. QED
  BY <1>4, <1>5

\* Counting inside the instanced module is counting here.
LEMMA SameItemCount == ASSUME NEW A PROVE N!Cardinality(A) = Cardinality(A)
  BY Zenon DEF N!Cardinality, Cardinality, N!IsFiniteSet, IsFiniteSet

\* What is delivered when a group goes to the URLs in ok.
LEMMA DeliveredGrows ==
    ASSUME NEW ok, NEW G, heard' = heard \cup (ok \X G)
    PROVE  N!Delivered' = N!Delivered \cup (IF ok = {} THEN {} ELSE G)
<1>1. N!Delivered' = N!Delivered \cup {p[2] : p \in ok \X G}
  BY DEF N!Delivered
<1>2. {p[2] : p \in ok \X G} = IF ok = {} THEN {} ELSE G
  <2>1. CASE ok = {}
    BY <2>1
  <2>2. CASE ok # {}
    <3>1. PICK u \in ok : TRUE
      BY <2>2
    <3>2. \A e \in G : <<u, e>> \in ok \X G /\ <<u, e>>[2] = e
      BY <3>1
    <3>3. \A p \in ok \X G : p[2] \in G
      OBVIOUS
    <3>4. {p[2] : p \in ok \X G} = G
      BY <3>2, <3>3
    <3>. QED
      BY <2>2, <3>4
  <2>. QED
    BY <2>1, <2>2
<1>. QED
  BY <1>1, <1>2

\* A group that has not been delivered yet adds its size to the delivered items when a
\* URL takes it.
LEMMA DeliveredCount ==
    ASSUME NEW ok, NEW G \in SUBSET items, items \subseteq Items, N!Delivered \subseteq items,
           G \cap N!Delivered = {}, heard' = heard \cup (ok \X G)
    PROVE  /\ N!Sent(ok, G) \in Nat /\ Cardinality(N!Delivered) \in Nat
           /\ Cardinality(N!Delivered') = Cardinality(N!Delivered) + N!Sent(ok, G)
<1>1. /\ IsFiniteSet(items) /\ IsFiniteSet(G) /\ IsFiniteSet(N!Delivered)
  BY ServicesAssumption, FS_Subset
<1>2. Cardinality(G) \in Nat /\ Cardinality(N!Delivered) \in Nat
  BY <1>1, FS_CardinalityType
<1>3. CASE ok = {}
  <2>1. N!Delivered' = N!Delivered
    BY <1>3, DeliveredGrows
  <2>2. N!Sent(ok, G) = 0
    BY <1>3 DEF N!Sent
  <2>3. Cardinality(N!Delivered') = Cardinality(N!Delivered)
    BY <2>1, Zenon
  <2>. QED
    BY <1>2, <2>2, <2>3
<1>4. CASE ok # {}
  <2>1. N!Delivered' = N!Delivered \cup G
    BY <1>4, DeliveredGrows
  <2>2. N!Sent(ok, G) = Cardinality(G)
    BY <1>4, SameItemCount DEF N!Sent
  <2>3. Cardinality(N!Delivered \cup G)
          = Cardinality(N!Delivered) + Cardinality(G) - Cardinality(N!Delivered \cap G)
    BY <1>1, FS_Union
  <2>4. Cardinality(N!Delivered \cap G) = 0
    <3>1. N!Delivered \cap G = {}
      OBVIOUS
    <3>. QED
      BY <3>1, FS_EmptySet, Zenon
  <2>5. Cardinality(N!Delivered') = Cardinality(N!Delivered \cup G)
    BY <2>1, Zenon
  <2>. QED
    BY <1>2, <2>2, <2>3, <2>4, <2>5
<1>. QED
  BY <1>3, <1>4
\* The types of the dispatch, and what follows from them at once.
LEMMA NotifyTypes ==
    ASSUME NotifyInv
    PROVE  /\ owners \in [Netuids -> Signers] /\ webhooks \subseteq Netuids \X Urls
           /\ ownedBy \subseteq Netuids \X Signers
           /\ items \subseteq Items /\ turn \in 0..8 /\ (turn # 0 => turn \in Turns)
           /\ fanout \subseteq Netuids \X Items /\ announced \in Nat /\ announced <= MaxItems
           /\ heard \subseteq Urls \X Items /\ heardBy \subseteq Netuids \X Items
           /\ unheard \subseteq Items /\ raised \in BOOLEAN
           /\ total \in Nat /\ total <= MaxItems
           /\ N!Delivered \subseteq items /\ MaxItems \in Nat
<1>1. N!Delivered \subseteq items
  BY DEF NotifyInv, HeardInv, N!Delivered
<1>2. MaxItems \in Nat
  BY ServicesAssumption
<1>. QED
  BY <1>1, <1>2, TurnsAre DEF NotifyInv, ItemsInv, N!NotificationTypeOK, Turns

\* Parts of what is dispatched are few enough.
LEMMA PartsAreFew ==
    ASSUME NotifyInv, NEW A \in SUBSET items
    PROVE  Cardinality(A) \in Nat /\ Cardinality(A) <= MaxItems
<1>1. IsFiniteSet(items) /\ MaxItems \in Nat
  BY NotifyTypes, ServicesAssumption, FS_Subset
<1>2. IsFiniteSet(A) /\ Cardinality(A) <= Cardinality(items)
  BY <1>1, FS_Subset
<1>3. Cardinality(A) \in Nat /\ Cardinality(items) \in Nat
  BY <1>1, <1>2, FS_CardinalityType
<1>. QED
  BY <1>1, <1>2, <1>3 DEF NotifyInv, ItemsInv

\* After a turn, the handlers that are through are those before it and the one of the turn.
LEMMA AfterIs ==
    ASSUME turn \in Turns
    PROVE  /\ N!AfterTurn \in 0..8
           /\ \A k \in Turns : (N!AfterTurn = 0 \/ k < N!AfterTurn) <=> (k < turn \/ k = turn)
<1>1. N!AfterTurn = IF turn = 8 THEN 0 ELSE turn + 1
  BY TurnsAre DEF N!AfterTurn
<1>. QED
  BY <1>1 DEF Turns

\* A handler's turn is over, and its group heard or known to be unheard.
LEMMA TurnPasses ==
    ASSUME NotifyInv, turn \in Turns, turn' = N!AfterTurn, UNCHANGED items, announced' = 0,
           \A p \in heard' :
              /\ p[2] \in items /\ p[2].success /\ p[1] \in UrlsOf[N!HandlerOf(p[2])]
              /\ \E k \in Turns : N!HandlerOf(p[2]) = N!Order[k] /\ (k < turn \/ k = turn),
           \A e \in items : \A k \in Turns :
              e.success /\ N!HandlerOf(e) = N!Order[k] /\ (k < turn \/ k = turn)
              => e \in unheard' \cup N!Delivered'
    PROVE  HeardInv' /\ SwapsInv'
<1>1. \A k \in Turns : (turn' = 0 \/ k < turn') <=> (k < turn \/ k = turn)
  BY AfterIs
<1>2. HeardInv'
  <2>1. ASSUME NEW p \in heard'
        PROVE  /\ p[2] \in items' /\ p[2].success /\ p[1] \in UrlsOf[N!HandlerOf(p[2])]
               /\ \E k \in Turns : N!HandlerOf(p[2]) = N!Order[k] /\ (turn' = 0 \/ k < turn')
    BY <1>1
  <2>2. ASSUME NEW e \in items', NEW k \in Turns,
               e.success, N!HandlerOf(e) = N!Order[k], turn' = 0 \/ k < turn'
        PROVE  e \in unheard' \cup N!Delivered'
    BY <1>1, <2>2
  <2>. QED
    BY <2>1, <2>2 DEF HeardInv
<1>3. SwapsInv'
  <2>1. ASSUME SwapTurn', NEW e \in N!Group("coldkey_swap")', e \in N!Delivered' PROVE FALSE
    <3>1. PICK p \in heard' : e = p[2]
      BY <2>1 DEF N!Delivered
    <3>2. PICK k \in Turns : N!HandlerOf(e) = N!Order[k] /\ (turn' = 0 \/ k < turn')
      BY <1>1, <3>1
    <3>3. turn' # 0 /\ N!Order[turn'] = "coldkey_swap" /\ N!HandlerOf(e) = "coldkey_swap"
      BY <2>1 DEF SwapTurn, N!Group
    <3>4. turn' \in Turns
      BY <3>3, AfterIs DEF Turns
    <3>5. k = turn'
      BY <3>2, <3>3, <3>4, TurnsAre
    <3>6. k < turn' /\ k \in Nat
      BY <3>2, <3>3 DEF Turns
    <3>. QED
      BY <3>5, <3>6
  <2>. QED
    BY <2>1 DEF SwapsInv
<1>. QED
  BY <1>2, <1>3

\* The group of the handler whose turn it is has not been delivered.
LEMMA GroupIsNew ==
    ASSUME NotifyInv, turn \in Turns, ~SwapTurn
    PROVE  N!Group(N!Order[turn]) \cap N!Delivered = {} /\ announced = 0 /\ fanout = {}
<1>1. announced = 0 /\ fanout = {} /\ turn # 0
  BY DEF NotifyInv, SwapsInv, OwnerInv, Turns
<1>2. ASSUME NEW e \in N!Group(N!Order[turn]), e \in N!Delivered PROVE FALSE
  <2>1. PICK p \in heard : e = p[2]
    BY <1>2 DEF N!Delivered
  <2>2. PICK k \in Turns : N!HandlerOf(e) = N!Order[k] /\ k < turn
    BY <1>1, <2>1 DEF NotifyInv, HeardInv
  <2>3. N!HandlerOf(e) = N!Order[turn]
    BY DEF N!Group
  <2>4. k = turn
    BY <2>2, <2>3, TurnsAre
  <2>. QED
    BY <2>2, <2>4 DEF Turns
<1>. QED
  BY <1>1, <1>2

\* A handler's message: its group, which nobody has heard yet, goes to its URLs.
LEMMA NotifyChannelKeeps ==
    ASSUME NotifyInv, NEW ok \in SUBSET Urls, N!NotifyChannel(ok) PROVE NotifyInv'
<1>. DEFINE h == N!Order[turn]
            G == N!Group(h)
<1>1. /\ turn \in Turns /\ ~SwapTurn /\ turn # 0 /\ ok \subseteq UrlsOf[h]
      /\ heard' = heard \cup (ok \X G)
      /\ unheard' = IF ok = {} THEN unheard \cup G ELSE unheard
      /\ total' = total + N!Sent(ok, G) /\ turn' = N!AfterTurn
      /\ UNCHANGED <<owners, webhooks, ownedBy, items, fanout, announced, heardBy, raised>>
  BY NotifyTypes DEF N!NotifyChannel, SwapTurn, N!db, N!route
<1>2. /\ G \subseteq items /\ \A e \in G : N!HandlerOf(e) = h /\ e.success
      /\ \A e \in items : e.success /\ N!HandlerOf(e) = h => e \in G
  BY DEF N!Group
<1>3. G \cap N!Delivered = {} /\ announced = 0 /\ fanout = {}
  BY <1>1, GroupIsNew
<1>. HIDE DEF G, h
<1>4. N!Delivered' = N!Delivered \cup (IF ok = {} THEN {} ELSE G)
  BY <1>1, DeliveredGrows
<1>5. HeardInv' /\ SwapsInv'
  <2>1. ASSUME NEW p \in heard'
        PROVE  /\ p[2] \in items /\ p[2].success /\ p[1] \in UrlsOf[N!HandlerOf(p[2])]
               /\ \E k \in Turns : N!HandlerOf(p[2]) = N!Order[k] /\ (k < turn \/ k = turn)
    <3>1. CASE p \in heard
      BY <1>1, <3>1 DEF NotifyInv, HeardInv
    <3>2. CASE p \in ok \X G
      <4>1. p[1] \in ok /\ p[2] \in G
        BY <3>2
      <4>. QED
        BY <1>1, <1>2, <4>1 DEF h
    <3>. QED
      BY <1>1, <3>1, <3>2
  <2>2. ASSUME NEW e \in items, NEW k \in Turns,
               e.success, N!HandlerOf(e) = N!Order[k], k < turn \/ k = turn
        PROVE  e \in unheard' \cup N!Delivered'
    <3>1. CASE k < turn
      BY <1>1, <1>4, <2>2, <3>1 DEF NotifyInv, HeardInv
    <3>2. CASE k = turn
      BY <1>1, <1>2, <1>4, <2>2, <3>2 DEF h
    <3>. QED
      BY <2>2, <3>1, <3>2
  <2>. QED
    BY <1>1, <1>3, <2>1, <2>2, TurnPasses
<1>6. N!Delivered' \subseteq items
  BY <1>2, <1>4, NotifyTypes
<1>7. TotalInv' /\ total' \in Nat /\ total' <= MaxItems
  <2>1. /\ N!Sent(ok, G) \in Nat /\ Cardinality(N!Delivered) \in Nat
        /\ Cardinality(N!Delivered') = Cardinality(N!Delivered) + N!Sent(ok, G)
    BY <1>1, <1>2, <1>3, NotifyTypes, DeliveredCount
  <2>2. total \in Nat /\ total <= Cardinality(N!Delivered)
        /\ (~raised => total = Cardinality(N!Delivered))
    BY <1>3, NotifyTypes DEF NotifyInv, TotalInv
  <2>3. Cardinality(N!Delivered') \in Nat /\ Cardinality(N!Delivered') <= MaxItems
    BY <1>6, PartsAreFew
  <2>. QED
    BY <1>1, <1>3, <2>1, <2>2, <2>3, NotifyTypes DEF TotalInv
<1>8. ItemsInv'
  <2>1. turn' \in 0..8
    BY <1>1, AfterIs
  <2>2. heard' \subseteq Urls \X Items /\ unheard' \subseteq Items
    BY <1>1, <1>2, NotifyTypes
  <2>. QED
    BY <1>1, <1>7, <2>1, <2>2, NotifyTypes, TurnsAre DEF NotifyInv, ItemsInv, N!NotificationTypeOK
<1>9. OwnerInv'
  BY <1>1, <1>3 DEF NotifyInv, OwnerInv
<1>. QED
  BY <1>5, <1>7, <1>8, <1>9 DEF NotifyInv
\* A new block: nothing of the one before is left.
LEMMA DispatchKeeps ==
    ASSUME NotifyInv, NEW block \in SUBSET Items, N!Cardinality(block) <= MaxItems,
           N!Dispatch(block)
    PROVE  NotifyInv'
<1>1. /\ turn = 0 /\ items' = block /\ turn' = 1
      /\ heard' = {} /\ heardBy' = {} /\ unheard' = {} /\ raised' = FALSE /\ total' = 0
      /\ ownedBy' = {<<n, owners[n]>> : n \in Netuids}
      /\ UNCHANGED <<owners, webhooks, fanout, announced>>
  BY DEF N!Dispatch, N!route
<1>2. announced = 0 /\ fanout = {}
  BY <1>1 DEF NotifyInv, SwapsInv, OwnerInv, SwapTurn
<1>3. N!Delivered' = {} /\ Cardinality({}) = 0
  BY <1>1, FS_EmptySet DEF N!Delivered
<1>4. ItemsInv'
  <2>1. Cardinality(items') <= MaxItems
    BY <1>1, SameItemCount
  <2>2. /\ owners' \in [Netuids -> Signers] /\ webhooks' \subseteq Netuids \X Urls
        /\ ownedBy' \subseteq Netuids \X Signers
    BY <1>1, NotifyTypes
  <2>. QED
    <3>1. raised' \in BOOLEAN /\ MaxItems \in Nat
      BY <1>1, ServicesAssumption
    <3>2. /\ items' \subseteq Items /\ turn' \in 0..8 /\ fanout' \subseteq Netuids \X Items
          /\ announced' \in 0..MaxItems /\ heard' \subseteq Urls \X Items
          /\ heardBy' \subseteq Netuids \X Items /\ unheard' \subseteq Items
          /\ total' \in 0..MaxItems
      BY <1>1, <1>2, <3>1
    <3>. QED
      BY <2>1, <2>2, <3>1, <3>2, TurnsAre DEF ItemsInv, N!NotificationTypeOK
<1>5. OwnerInv'
  BY <1>1, <1>2 DEF OwnerInv
<1>6. HeardInv'
  BY <1>1 DEF HeardInv, Turns
<1>7. SwapsInv'
  <2>1. ~SwapTurn'
    <3>1. 1 \in Turns /\ 2 \in Turns
      BY DEF Turns
    <3>. QED
      BY <1>1, <3>1, TurnsAre DEF SwapTurn
  <2>. QED
    BY <1>1, <1>2, <2>1 DEF SwapsInv
<1>8. TotalInv'
  <2>1. Cardinality(N!Delivered') = 0
    BY <1>3, Zenon
  <2>. QED
    BY <1>1, <1>2, <2>1 DEF TotalInv
<1>. QED
  BY <1>4, <1>5, <1>6, <1>7, <1>8 DEF NotifyInv

\* The swaps that are announced have not been before, and go to their owners' subnets.
LEMMA AnnounceSwapsKeeps ==
    ASSUME NotifyInv, NEW ok \in SUBSET Urls, NEW lookups \in SUBSET Signers,
           N!AnnounceSwaps(ok, lookups)
    PROVE  NotifyInv'
<1>. DEFINE G == N!Group("coldkey_swap")
<1>1. /\ turn # 0 /\ turn \in Turns /\ N!Order[turn] = "coldkey_swap" /\ SwapTurn
      /\ ~N!Announced /\ ok \subseteq UrlsOf["coldkey_swap"]
      /\ heard' = heard \cup (ok \X G)
      /\ unheard' = IF ok = {} THEN unheard \cup G ELSE unheard
      /\ announced' = N!Sent(ok, G)
      /\ fanout' = {p \in Netuids \X G : p[2].signer \in lookups /\ p[1] \in N!OwnedSubnets(p[2].signer)}
      /\ UNCHANGED <<owners, webhooks, ownedBy, items, turn, heardBy, raised, total>>
  BY NotifyTypes DEF N!AnnounceSwaps, SwapTurn, N!db
<1>2. /\ G \subseteq items /\ \A e \in G : N!HandlerOf(e) = "coldkey_swap" /\ e.success
      /\ N!Group("coldkey_swap")' = G
  BY <1>1 DEF N!Group
<1>3. G \cap N!Delivered = {} /\ announced = 0
  <2>1. ~(G \subseteq N!Delivered)
    BY <1>1 DEF N!Announced, N!Delivered
  <2>. QED
    BY <1>1, <2>1 DEF NotifyInv, SwapsInv
<1>. HIDE DEF G
<1>4. N!Delivered' = N!Delivered \cup (IF ok = {} THEN {} ELSE G)
  BY <1>1, DeliveredGrows
<1>5. /\ N!Sent(ok, G) \in Nat /\ Cardinality(N!Delivered) \in Nat
      /\ Cardinality(N!Delivered') = Cardinality(N!Delivered) + N!Sent(ok, G)
  BY <1>1, <1>2, <1>3, NotifyTypes, DeliveredCount
<1>6. TotalInv' /\ announced' \in Nat /\ announced' <= MaxItems
  <2>1. total \in Nat /\ total <= Cardinality(N!Delivered)
        /\ (~raised => total = Cardinality(N!Delivered))
    BY <1>3, NotifyTypes DEF NotifyInv, TotalInv
  <2>2. N!Delivered' \subseteq items
    BY <1>2, <1>4, NotifyTypes
  <2>3. Cardinality(N!Delivered') \in Nat /\ Cardinality(N!Delivered') <= MaxItems
    BY <2>2, PartsAreFew
  <2>. QED
    BY <1>1, <1>5, <2>1, <2>3, NotifyTypes DEF TotalInv
<1>7. ItemsInv'
  <2>1. heard' \subseteq Urls \X Items /\ unheard' \subseteq Items /\ fanout' \subseteq Netuids \X Items
    BY <1>1, <1>2, NotifyTypes
  <2>. QED
    BY <1>1, <1>6, <2>1, NotifyTypes, TurnsAre DEF NotifyInv, ItemsInv, N!NotificationTypeOK
<1>8. OwnerInv'
  <2>1. ASSUME NEW p \in fanout'
        PROVE  p[2].success /\ p[2].kind = "swap" /\ <<p[1], p[2].signer>> \in ownedBy
    <3>1. p[1] \in Netuids /\ p[2] \in G /\ p[1] \in N!OwnedSubnets(p[2].signer)
      BY <1>1
    <3>2. owners[p[1]] = p[2].signer
      BY <3>1 DEF N!OwnedSubnets
    <3>3. p[2].success /\ p[2].kind = "swap"
      BY <1>2, <3>1, HandlersAre
    <3>. QED
      BY <1>1, <3>1, <3>2, <3>3 DEF NotifyInv, OwnerInv
  <2>2. SwapTurn'
    BY <1>1 DEF SwapTurn
  <2>. QED
    BY <1>1, <2>1, <2>2 DEF NotifyInv, OwnerInv
<1>9. HeardInv'
  <2>1. ASSUME NEW p \in heard'
        PROVE  /\ p[2] \in items /\ p[2].success /\ p[1] \in UrlsOf[N!HandlerOf(p[2])]
               /\ \E k \in Turns : N!HandlerOf(p[2]) = N!Order[k] /\ (k < turn \/ k = turn)
    <3>1. CASE p \in heard
      BY <1>1, <3>1 DEF NotifyInv, HeardInv
    <3>2. CASE p \in ok \X G
      <4>1. p[1] \in ok /\ p[2] \in G
        BY <3>2
      <4>. QED
        BY <1>1, <1>2, <4>1
    <3>. QED
      BY <1>1, <3>1, <3>2
  <2>2. ASSUME NEW e \in items, NEW k \in Turns,
               e.success, N!HandlerOf(e) = N!Order[k], k < turn
        PROVE  e \in unheard' \cup N!Delivered'
    BY <1>1, <1>4, <2>2 DEF NotifyInv, HeardInv
  <2>3. SwapTurn'
    BY <1>1 DEF SwapTurn
  <2>. QED
    BY <1>1, <2>1, <2>2, <2>3 DEF HeardInv
<1>10. SwapsInv'
  <2>1. SwapTurn'
    BY <1>1 DEF SwapTurn
  <2>2. CASE ok = {}
    <3>1. announced' = 0 /\ N!Delivered' = N!Delivered
      BY <1>1, <1>4, <2>2 DEF N!Sent
    <3>. QED
      BY <1>2, <1>3, <2>1, <3>1 DEF SwapsInv
  <2>3. CASE ok # {}
    <3>1. G \subseteq N!Delivered'
      BY <1>4, <2>3
    <3>. QED
      BY <1>2, <2>1, <3>1 DEF SwapsInv
  <2>. QED
    BY <2>2, <2>3
<1>. QED
  BY <1>6, <1>7, <1>8, <1>9, <1>10 DEF NotifyInv

\* A subnet's webhooks hear what the lookup has found for them.
LEMMA PostToSubnetKeeps ==
    ASSUME NotifyInv, NEW n \in Netuids, NEW ok \in SUBSET Urls, N!PostToSubnet(n, ok)
    PROVE  NotifyInv'
<1>1. /\ heardBy' = heardBy \cup (IF ok = {} THEN {} ELSE {n} \X N!Subnets(n))
      /\ fanout' = {p \in fanout : p[1] # n}
      /\ N!Subnets(n) # {}
      /\ UNCHANGED <<owners, webhooks, ownedBy, items, turn, announced, heard, unheard, raised, total>>
  BY DEF N!PostToSubnet, N!db
<1>2. SwapTurn /\ SwapTurn'
  BY <1>1 DEF N!Subnets, NotifyInv, OwnerInv, SwapTurn
<1>3. ASSUME NEW p \in heardBy', p \notin heardBy
      PROVE  \E q \in fanout : p[1] = q[1] /\ p[2] = q[2] /\ p = <<n, q[2]>>
  <2>1. p \in {n} \X N!Subnets(n)
    BY <1>1, <1>3
  <2>2. p[1] = n /\ p[2] \in N!Subnets(n) /\ p = <<n, p[2]>>
    BY <2>1
  <2>. QED
    BY <2>2 DEF N!Subnets
<1>4. OwnerInv'
  <2>1. \A p \in fanout \cup heardBy :
           p[2].success /\ p[2].kind = "swap" /\ <<p[1], p[2].signer>> \in ownedBy
    BY DEF NotifyInv, OwnerInv
  <2>2. \A p \in fanout' \cup heardBy' :
           p[2].success /\ p[2].kind = "swap" /\ <<p[1], p[2].signer>> \in ownedBy
    <3>1. ASSUME NEW p \in heardBy', p \notin heardBy
          PROVE  p[2].success /\ p[2].kind = "swap" /\ <<p[1], p[2].signer>> \in ownedBy
      <4>1. PICK q \in fanout : p[1] = q[1] /\ p[2] = q[2]
        BY <1>3, <3>1
      <4>. QED
        BY <2>1, <4>1
    <3>2. fanout' \subseteq fanout
      BY <1>1
    <3>. QED
      BY <2>1, <3>1, <3>2
  <2>. QED
    BY <1>1, <1>2, <2>2 DEF NotifyInv, OwnerInv
<1>5. ItemsInv'
  <2>1. fanout' \subseteq Netuids \X Items
    BY <1>1, NotifyTypes
  <2>2. heardBy' \subseteq Netuids \X Items
    <3>1. \A q \in fanout : q[2] \in Items
      BY NotifyTypes
    <3>2. ASSUME NEW p \in heardBy', p \notin heardBy PROVE p \in Netuids \X Items
      BY <1>3, <3>1, <3>2
    <3>. QED
      BY <3>2, NotifyTypes
  <2>. QED
    BY <1>1, <2>1, <2>2 DEF NotifyInv, ItemsInv, N!NotificationTypeOK
<1>6. N!Delivered' = N!Delivered /\ N!Group("coldkey_swap")' = N!Group("coldkey_swap")
  BY <1>1 DEF N!Delivered, N!Group
<1>7. HeardInv' /\ SwapsInv' /\ TotalInv'
  <2>1. HeardInv' /\ SwapsInv'
    BY <1>1, <1>2, <1>6 DEF NotifyInv, HeardInv, SwapsInv
  <2>2. Cardinality(N!Delivered') = Cardinality(N!Delivered)
    BY <1>6, Zenon
  <2>. QED
    BY <1>1, <2>1, <2>2 DEF NotifyInv, TotalInv
<1>. QED
  BY <1>4, <1>5, <1>7 DEF NotifyInv

\* The turn of the swaps is over: every one was heard, or no URL took the message.
LEMMA SwapsDoneKeeps == ASSUME NotifyInv, N!SwapsDone PROVE NotifyInv'
<1>1. /\ turn # 0 /\ turn \in Turns /\ N!Order[turn] = "coldkey_swap" /\ fanout = {} /\ N!Announced
      /\ total' = total + announced /\ announced' = 0 /\ turn' = N!AfterTurn
      /\ UNCHANGED <<owners, webhooks, ownedBy, items, fanout, heard, heardBy, unheard, raised>>
  BY NotifyTypes DEF N!SwapsDone, N!db
<1>2. N!Delivered' = N!Delivered
  BY <1>1 DEF N!Delivered
<1>3. HeardInv' /\ SwapsInv'
  <2>1. ASSUME NEW p \in heard'
        PROVE  /\ p[2] \in items /\ p[2].success /\ p[1] \in UrlsOf[N!HandlerOf(p[2])]
               /\ \E k \in Turns : N!HandlerOf(p[2]) = N!Order[k] /\ (k < turn \/ k = turn)
    BY <1>1 DEF NotifyInv, HeardInv
  <2>2. ASSUME NEW e \in items, NEW k \in Turns,
               e.success, N!HandlerOf(e) = N!Order[k], k < turn \/ k = turn
        PROVE  e \in unheard' \cup N!Delivered'
    <3>1. CASE k < turn
      BY <1>1, <1>2, <2>2, <3>1 DEF NotifyInv, HeardInv
    <3>2. CASE k = turn
      <4>1. e \in N!Group("coldkey_swap")
        BY <1>1, <2>2, <3>2 DEF N!Group
      <4>. QED
        BY <1>1, <1>2, <4>1 DEF N!Announced, N!Delivered
    <3>. QED
      BY <2>2, <3>1, <3>2
  <2>. QED
    BY <1>1, <2>1, <2>2, TurnPasses
<1>4. TotalInv' /\ total' \in Nat /\ total' <= MaxItems
  <2>1. Cardinality(N!Delivered) \in Nat /\ Cardinality(N!Delivered) <= MaxItems
    BY NotifyTypes, PartsAreFew
  <2>2. Cardinality(N!Delivered') = Cardinality(N!Delivered)
    BY <1>2, Zenon
  <2>. QED
    BY <1>1, <2>1, <2>2, NotifyTypes DEF NotifyInv, TotalInv
<1>5. ItemsInv'
  <2>1. turn' \in 0..8
    BY <1>1, AfterIs
  <2>. QED
    BY <1>1, <1>4, <2>1, NotifyTypes, TurnsAre DEF NotifyInv, ItemsInv, N!NotificationTypeOK
<1>6. OwnerInv'
  BY <1>1 DEF NotifyInv, OwnerInv
<1>. QED
  BY <1>3, <1>4, <1>5, <1>6 DEF NotifyInv

\* A handler that raises loses what it has not sent, and the count of what it has.
LEMMA HandlerRaisesKeeps == ASSUME NotifyInv, N!HandlerRaises PROVE NotifyInv'
<1>1. /\ turn # 0 /\ turn \in Turns /\ turn' = N!AfterTurn
      /\ unheard' = unheard \cup {e \in N!Group(N!Order[turn]) : \A u \in Urls : <<u, e>> \notin heard}
      /\ raised' = TRUE /\ fanout' = {} /\ announced' = 0
      /\ UNCHANGED <<owners, webhooks, ownedBy, items, heard, heardBy, total>>
  BY NotifyTypes DEF N!HandlerRaises, N!db, N!TurnAfterRaise
<1>2. N!Delivered' = N!Delivered
  BY <1>1 DEF N!Delivered
<1>3. HeardInv' /\ SwapsInv'
  <2>1. ASSUME NEW p \in heard'
        PROVE  /\ p[2] \in items /\ p[2].success /\ p[1] \in UrlsOf[N!HandlerOf(p[2])]
               /\ \E k \in Turns : N!HandlerOf(p[2]) = N!Order[k] /\ (k < turn \/ k = turn)
    BY <1>1 DEF NotifyInv, HeardInv
  <2>2. ASSUME NEW e \in items, NEW k \in Turns,
               e.success, N!HandlerOf(e) = N!Order[k], k < turn \/ k = turn
        PROVE  e \in unheard' \cup N!Delivered'
    <3>1. CASE k < turn
      BY <1>1, <1>2, <2>2, <3>1 DEF NotifyInv, HeardInv
    <3>2. CASE k = turn
      <4>1. e \in N!Group(N!Order[turn])
        BY <1>1, <2>2, <3>2 DEF N!Group
      <4>2. CASE \E u \in Urls : <<u, e>> \in heard
        <5>1. e \in N!Delivered
          BY <4>2 DEF N!Delivered
        <5>. QED
          BY <1>2, <5>1
      <4>3. CASE \A u \in Urls : <<u, e>> \notin heard
        BY <1>1, <4>1, <4>3
      <4>. QED
        BY <4>2, <4>3
    <3>. QED
      BY <2>2, <3>1, <3>2
  <2>. QED
    BY <1>1, <2>1, <2>2, TurnPasses
<1>4. TotalInv'
  <2>1. Cardinality(N!Delivered) \in Nat
    BY NotifyTypes, PartsAreFew
  <2>2. Cardinality(N!Delivered') = Cardinality(N!Delivered)
    BY <1>2, Zenon
  <2>. QED
    BY <1>1, <2>1, <2>2, NotifyTypes DEF NotifyInv, TotalInv
<1>5. ItemsInv'
  <2>1. turn' \in 0..8
    BY <1>1, AfterIs
  <2>2. unheard' \subseteq Items
    BY <1>1, NotifyTypes DEF N!Group
  <2>. QED
    BY <1>1, <2>1, <2>2, NotifyTypes, TurnsAre DEF NotifyInv, ItemsInv, N!NotificationTypeOK
<1>6. OwnerInv'
  BY <1>1 DEF NotifyInv, OwnerInv
<1>. QED
  BY <1>3, <1>4, <1>5, <1>6 DEF NotifyInv

\* Owners and webhooks change: the dispatch is where it was, with more owners to know of.
LEMMA EditKeeps ==
    ASSUME NotifyInv, UNCHANGED <<items, turn, fanout, announced, heard, heardBy, unheard, raised, total>>,
           owners' \in [Netuids -> Signers], webhooks' \subseteq Netuids \X Urls,
           ownedBy' \subseteq Netuids \X Signers, ownedBy \subseteq ownedBy',
           \A n \in Netuids : owners'[n] = owners[n] \/ <<n, owners'[n]>> \in ownedBy'
    PROVE  NotifyInv'
<1>1. ItemsInv'
  BY NotifyTypes, TurnsAre DEF NotifyInv, ItemsInv, N!NotificationTypeOK
<1>2. OwnerInv'
  <2>1. turn' # 0 => \A n \in Netuids : <<n, owners'[n]>> \in ownedBy'
    <3>1. turn # 0 => \A n \in Netuids : <<n, owners[n]>> \in ownedBy
      BY DEF NotifyInv, OwnerInv
    <3>. QED
      BY <3>1
  <2>2. SwapTurn' = SwapTurn
    BY DEF SwapTurn
  <2>. QED
    BY <2>1, <2>2 DEF NotifyInv, OwnerInv
<1>3. /\ N!Delivered' = N!Delivered /\ N!Group("coldkey_swap")' = N!Group("coldkey_swap")
      /\ SwapTurn' = SwapTurn
  BY DEF N!Delivered, N!Group, SwapTurn
<1>4. HeardInv' /\ SwapsInv'
  BY <1>3 DEF NotifyInv, HeardInv, SwapsInv
<1>5. TotalInv'
  <2>1. Cardinality(N!Delivered') = Cardinality(N!Delivered)
    BY <1>3, Zenon
  <2>. QED
    BY <2>1 DEF NotifyInv, TotalInv
<1>. QED
  BY <1>1, <1>2, <1>4, <1>5 DEF NotifyInv

\* The invariant of the dispatch, the types of its state included.
THEOREM NotifyInvariant == N!Spec => []NotifyInv
<1>1. N!Init => NotifyInv
  <2>. SUFFICES ASSUME NEW s \in Signers, N!InitWith(s) PROVE NotifyInv
    BY DEF N!Init
  <2>1. N!Delivered = {} /\ ~SwapTurn /\ items = {}
    BY DEF N!InitWith, N!Delivered, SwapTurn
  <2>2. Cardinality(N!Delivered) = 0 /\ Cardinality(items) = 0
    BY <2>1, FS_EmptySet, Zenon
  <2>3. ItemsInv
    <3>1. raised \in BOOLEAN /\ MaxItems \in Nat
      BY ServicesAssumption DEF N!InitWith
    <3>2. owners \in [Netuids -> Signers] /\ webhooks = {} /\ ownedBy = {} /\ items = {}
      BY DEF N!InitWith
    <3>3. /\ turn \in 0..8 /\ fanout = {} /\ announced \in 0..MaxItems /\ heard = {}
          /\ heardBy = {} /\ unheard = {} /\ total \in 0..MaxItems
      BY <3>1 DEF N!InitWith
    <3>. QED
      BY <2>2, <3>1, <3>2, <3>3, TurnsAre DEF ItemsInv, N!NotificationTypeOK
  <2>4. OwnerInv /\ HeardInv /\ SwapsInv
    BY <2>1 DEF OwnerInv, HeardInv, SwapsInv, N!InitWith
  <2>5. TotalInv
    BY <2>2 DEF TotalInv, N!InitWith
  <2>. QED
    BY <2>3, <2>4, <2>5 DEF NotifyInv
<1>2. NotifyInv /\ [N!Next]_(N!vars) => NotifyInv'
  <2>. SUFFICES ASSUME NotifyInv, [N!Next]_(N!vars) PROVE NotifyInv'
    OBVIOUS
  <2>1. ASSUME NEW block \in SUBSET Items, N!Cardinality(block) <= MaxItems, N!Dispatch(block)
        PROVE  NotifyInv'
    BY <2>1, DispatchKeeps
  <2>2. ASSUME NEW ok \in SUBSET Urls, N!NotifyChannel(ok) PROVE NotifyInv'
    BY <2>2, NotifyChannelKeeps
  <2>3. ASSUME NEW ok \in SUBSET Urls, NEW lookups \in SUBSET Signers, N!AnnounceSwaps(ok, lookups)
        PROVE  NotifyInv'
    BY <2>3, AnnounceSwapsKeeps
  <2>4. ASSUME NEW n \in Netuids, NEW ok \in SUBSET Urls, N!PostToSubnet(n, ok) PROVE NotifyInv'
    BY <2>4, PostToSubnetKeeps
  <2>5. CASE N!SwapsDone
    BY <2>5, SwapsDoneKeeps
  <2>6. CASE N!HandlerRaises
    BY <2>6, HandlerRaisesKeeps
  <2>7. ASSUME NEW n \in Netuids, NEW s \in Signers, N!ChangeOwner(n, s) PROVE NotifyInv'
    <3>1. /\ owners' = [owners EXCEPT ![n] = s] /\ ownedBy' = ownedBy \cup {<<n, s>>}
          /\ webhooks' = webhooks
          /\ UNCHANGED <<items, turn, fanout, announced, heard, heardBy, unheard, raised, total>>
      BY <2>7 DEF N!ChangeOwner, N!route, N!result
    <3>2. \A k \in Netuids : owners'[k] = owners[k] \/ <<k, owners'[k]>> \in ownedBy'
      BY <3>1, NotifyTypes
    <3>. QED
      BY <3>1, <3>2, NotifyTypes, EditKeeps
  <2>8. ASSUME NEW n \in Netuids, NEW u \in Urls, N!EditWebhook(n, u) PROVE NotifyInv'
    <3>1. /\ owners' = owners /\ ownedBy' = ownedBy /\ webhooks' \subseteq Netuids \X Urls
          /\ UNCHANGED <<items, turn, fanout, announced, heard, heardBy, unheard, raised, total>>
      BY <2>8, NotifyTypes DEF N!EditWebhook, N!route, N!result
    <3>. QED
      BY <3>1, NotifyTypes, EditKeeps
  <2>9. CASE UNCHANGED N!vars
    BY <2>9, NotifyTypes, EditKeeps DEF N!vars, N!db, N!route, N!result
  <2>. QED
    BY <2>1, <2>2, <2>3, <2>4, <2>5, <2>6, <2>7, <2>8, <2>9 DEF N!Next
<1>. QED
  BY <1>1, <1>2, PTL DEF N!Spec

\* Items get to the channels of their own handler, swaps to those of subnets that the
\* signer owned at some time of the dispatch, however owners and webhooks change.
THEOREM ChannelsAreRight == N!Spec => []RightChannel
<1>1. ASSUME NotifyInv PROVE RightChannel
  <2>1. ASSUME NEW p \in heard
        PROVE  p[2].success /\
          \/ \E k \in DOMAIN N!Patterns : p[2].kind = k /\ p[1] \in UrlsOf[N!Patterns[k]]
          \/ /\ p[1] \in UrlsOf["sudo"] /\ p[2].kind \notin DOMAIN N!Patterns
             /\ p[2].wrapped \/ p[2].kind = "sudo"
    <3>1. /\ p[2].success /\ p[1] \in UrlsOf[N!HandlerOf(p[2])]
          /\ \E k \in Turns : N!HandlerOf(p[2]) = N!Order[k]
      BY <1>1 DEF NotifyInv, HeardInv
    <3>2. \A k \in Turns : N!Order[k] # "none"
      BY DEF N!Order, Turns
    <3>. QED
      BY <3>1, <3>2, HandlersAre
  <2>2. ASSUME NEW p \in heardBy
        PROVE  p[2].success /\ p[2].kind = "swap" /\ <<p[1], p[2].signer>> \in ownedBy
    BY <1>1 DEF NotifyInv, OwnerInv
  <2>. QED
    BY <2>1, <2>2 DEF RightChannel, N!RightChannel
<1>. QED
  BY <1>1, NotifyInvariant, PTL

\* No item is lost between the handlers, whichever of them raise, and the dispatch's
\* count is exact when none did.
THEOREM NothingIsSwallowed == N!Spec => []NothingSwallowed
<1>1. ASSUME NotifyInv PROVE NothingSwallowed
  <2>. SUFFICES ASSUME turn = 0
                PROVE  /\ \A e \in items :
                             e.success /\ (e.kind \in DOMAIN N!Patterns \/ e.wrapped \/ e.kind = "sudo")
                             => e \in unheard \cup N!Delivered
                       /\ total <= Cardinality(N!Delivered)
                       /\ ~raised => total = Cardinality(N!Delivered)
    BY SameItemCount DEF NothingSwallowed, N!NothingSwallowed
  <2>1. ASSUME NEW e \in items, e.success, HasHandler(e) PROVE e \in unheard \cup N!Delivered
    BY <1>1, <2>1, HandlersAre DEF NotifyInv, HeardInv
  <2>2. announced = 0
    BY <1>1 DEF NotifyInv, SwapsInv, SwapTurn
  <2>3. Cardinality(N!Delivered) \in Nat /\ total \in Nat
    BY <1>1, NotifyTypes, PartsAreFew
  <2>. QED
    BY <1>1, <2>1, <2>2, <2>3 DEF NotifyInv, TotalInv, HasHandler
<1>. QED
  BY <1>1, NotifyInvariant, PTL

-----------------------------------------------------------------------------
(* Queues. *)

\* What is in one of two sequences is in both together.
LEMMA InConcat ==
    ASSUME NEW R, NEW u \in Seq(R), NEW v \in Seq(R)
    PROVE  u \o v \in Seq(R) /\ Q!ToSet(u) \cup Q!ToSet(v) \subseteq Q!ToSet(u \o v)
<1>. DEFINE a == Len(u)
            b == Len(v)
            w == u \o v
<1>1. /\ a \in Nat /\ b \in Nat /\ DOMAIN u = 1..a /\ DOMAIN v = 1..b
      /\ w \in Seq(R) /\ Len(w) = a + b
      /\ \A i \in 1..(a + b) : w[i] = IF i <= a THEN u[i] ELSE v[i - a]
  BY ConcatProperties, LenProperties
<1>2. DOMAIN w = 1..(a + b)
  BY <1>1, LenProperties
<1>. HIDE DEF a, b, w
<1>3. ASSUME NEW i \in 1..a PROVE i \in 1..(a + b) /\ w[i] = u[i]
  BY <1>1
<1>4. ASSUME NEW i \in 1..b PROVE a + i \in 1..(a + b) /\ w[a + i] = v[i]
  <2>1. a + i \in 1..(a + b) /\ ~(a + i <= a) /\ (a + i) - a = i
    BY <1>1
  <2>2. w[a + i] = v[(a + i) - a]
    BY <1>1, <2>1
  <2>. QED
    BY <2>1, <2>2
<1>5. Q!ToSet(u) \cup Q!ToSet(v) \subseteq Q!ToSet(w)
  <2>1. ASSUME NEW x \in Q!ToSet(u) PROVE x \in Q!ToSet(w)
    <3>1. PICK i \in 1..a : x = u[i]
      BY <1>1 DEF Q!ToSet
    <3>. QED
      BY <1>2, <1>3, <3>1 DEF Q!ToSet
  <2>2. ASSUME NEW x \in Q!ToSet(v) PROVE x \in Q!ToSet(w)
    <3>1. PICK i \in 1..b : x = v[i]
      BY <1>1 DEF Q!ToSet
    <3>. QED
      BY <1>2, <1>4, <3>1 DEF Q!ToSet
  <2>. QED
    BY <2>1, <2>2
<1>. QED
  BY <1>1, <1>5 DEF w

Queues == {"source", "dest"}

\* What is in the lists, with the workers and with the command has been sent, and the
\* task that was pushed and not removed is the first of those to move.
QueueInv ==
    /\ sent \subseteq Tasks /\ done \subseteq sent /\ flushed \subseteq sent
    /\ source \in Seq(sent) /\ dest \in Seq(sent) /\ snapshot \in Seq(sent)
    /\ running \subseteq sent \X Queues
    /\ half # {} => snapshot # <<>> /\ half = {Head(snapshot)}
    /\ kills \in 0..MaxKills /\ moves \in 0..MaxMoves

\* A list without the first occurrence of a task.
LEMMA RemovedFirst ==
    ASSUME NEW R, NEW list \in Seq(R), NEW t
    PROVE  Q!RemoveFirst(list, t) \in Seq(R)
<1>. DEFINE U == {i \in 1..Len(list) : list[i] = t}
<1>1. CASE U = {}
  <2>1. ~\E i \in 1..Len(list) : list[i] = t
    BY <1>1
  <2>. QED
    BY <2>1 DEF Q!RemoveFirst
<1>2. CASE U # {}
  <2>1. U \in SUBSET Nat
    OBVIOUS
  <2>2. PICK m \in U : \A y \in U : m <= y
    BY <1>2, <2>1, SmallestExists
  <2>3. PICK i \in U : i = Q!Min(U) /\ \A y \in U : i <= y
    BY <2>2 DEF Q!Min
  <2>4. Q!RemoveFirst(list, t) = SubSeq(list, 1, i - 1) \o SubSeq(list, i + 1, Len(list))
    BY <1>2, <2>3 DEF Q!RemoveFirst, Q!SelectInSeq, Q!RemoveAt
  <2>5. /\ SubSeq(list, 1, i - 1) \in Seq(R)
        /\ SubSeq(list, i + 1, Len(list)) \in Seq(R)
    <3>1. /\ i - 1 \in Int /\ i + 1 \in Int /\ Len(list) \in Int
          /\ \A k \in 1..(i - 1) : list[k] \in R
          /\ \A k \in (i + 1)..Len(list) : list[k] \in R
      <4>1. Len(list) \in Nat /\ i \in 1..Len(list) /\ \A k \in 1..Len(list) : list[k] \in R
        BY <2>3
      <4>2. 1..(i - 1) \subseteq 1..Len(list) /\ (i + 1)..Len(list) \subseteq 1..Len(list)
        BY <4>1
      <4>. QED
        BY <4>1, <4>2
    <3>. QED
      BY <3>1, SubSeqProperties
  <2>. QED
    BY <2>4, <2>5, ConcatProperties
<1>. QED
  BY <1>1, <1>2

\* A list that is not empty gives its last task and keeps the others.
LEMMA FrontAndLast ==
    ASSUME NEW R, NEW list \in Seq(R), list # <<>>
    PROVE  Q!Front(list) \in Seq(R) /\ Q!Last(list) \in R
<1>1. Len(list) \in 1..Len(list)
  OBVIOUS
<1>. QED
  BY <1>1, SubSeqProperties DEF Q!Front, Q!Last

\* What is in a list.
LEMMA InList == ASSUME NEW R, NEW list \in Seq(R) PROVE Q!ToSet(list) \subseteq R
BY DEF Q!ToSet

\* Tasks in lists, with workers and with the command have been sent, and what the
\* command has pushed and not removed is the first task it has to move.
THEOREM QueueInvariant == Q!Spec => []QueueInv
<1>1. Q!Init => QueueInv
  BY ServicesAssumption DEF Q!Init, QueueInv
<1>2. QueueInv /\ [Q!Next]_(Q!vars) => QueueInv'
  <2>. SUFFICES ASSUME QueueInv, [Q!Next]_(Q!vars) PROVE QueueInv'
    OBVIOUS
  <2>0. MaxKills \in Nat /\ MaxMoves \in Nat
    BY ServicesAssumption
  <2>1. ASSUME NEW t \in Tasks, Q!Send(t) PROVE QueueInv'
    <3>1. /\ sent' = sent \cup {t} /\ source' = <<t>> \o source
          /\ UNCHANGED <<dest, running, done, snapshot, half, kills, moves, flushed>>
      BY <2>1 DEF Q!Send
    <3>2. Seq(sent) \subseteq Seq(sent')
      BY <3>1
    <3>3. source' \in Seq(sent')
      <4>1. <<t>> \in Seq(sent') /\ source \in Seq(sent')
        BY <3>1, <3>2 DEF QueueInv
      <4>. QED
        BY <3>1, <4>1, ConcatProperties
    <3>. QED
      BY <3>1, <3>2, <3>3 DEF QueueInv
  <2>2. CASE Q!TakeSource
    <3>1. /\ source # <<>> /\ source' = Q!Front(source)
          /\ running' = running \cup {<<Q!Last(source), "source">>}
          /\ UNCHANGED <<dest, sent, done, snapshot, half, kills, moves, flushed>>
      BY <2>2 DEF Q!TakeSource, Q!Begin
    <3>2. Q!Front(source) \in Seq(sent) /\ Q!Last(source) \in sent
      BY <3>1, FrontAndLast DEF QueueInv
    <3>. QED
      BY <3>1, <3>2 DEF QueueInv, Queues
  <2>3. CASE Q!TakeDest
    <3>1. /\ dest # <<>> /\ dest' = Q!Front(dest)
          /\ running' = running \cup {<<Q!Last(dest), "dest">>}
          /\ UNCHANGED <<source, sent, done, snapshot, half, kills, moves, flushed>>
      BY <2>3 DEF Q!TakeDest, Q!Begin
    <3>2. Q!Front(dest) \in Seq(sent) /\ Q!Last(dest) \in sent
      BY <3>1, FrontAndLast DEF QueueInv
    <3>. QED
      BY <3>1, <3>2 DEF QueueInv, Queues
  <2>4. ASSUME NEW p \in Tasks \X Queues, Q!Acknowledge(p) PROVE QueueInv'
    BY <2>4 DEF Q!Acknowledge, QueueInv
  <2>5. ASSUME NEW p \in Tasks \X Queues, NEW alive \in BOOLEAN, Q!Redeliver(p, alive) PROVE QueueInv'
    <3>1. /\ p \in running /\ kills < MaxKills /\ kills' = kills + 1
          /\ running' \subseteq running
          /\ source' = source \/ source' = Append(source, p[1])
          /\ dest' = dest \/ dest' = Append(dest, p[1])
          /\ UNCHANGED <<sent, done, snapshot, half, moves, flushed>>
      BY <2>5 DEF Q!Redeliver, Q!Requeued
    <3>2. p[1] \in sent
      BY <3>1 DEF QueueInv
    <3>3. \A list \in Seq(sent) : Append(list, p[1]) \in Seq(sent)
      BY <3>2
    <3>4. source' \in Seq(sent) /\ dest' \in Seq(sent)
      BY <3>1, <3>3 DEF QueueInv
    <3>. QED
      BY <2>0, <3>1, <3>4 DEF QueueInv
  <2>6. CASE Q!ReadQueue
    BY <2>0, <2>6 DEF Q!ReadQueue, QueueInv
  <2>7. CASE Q!PushTask
    <3>1. /\ snapshot # <<>> /\ half' = {Head(snapshot)} /\ dest' = Append(dest, Head(snapshot))
          /\ UNCHANGED <<source, running, sent, done, snapshot, kills, moves, flushed>>
      BY <2>7 DEF Q!PushTask, Q!FirstCommand
    <3>2. Head(snapshot) \in sent
      BY <3>1 DEF QueueInv
    <3>3. dest' \in Seq(sent)
      BY <3>1, <3>2 DEF QueueInv
    <3>. QED
      BY <3>1, <3>3 DEF QueueInv
  <2>8. CASE Q!RemoveTask
    <3>1. /\ snapshot # <<>> /\ half' = {} /\ snapshot' = Tail(snapshot)
          /\ source' = Q!RemoveFirst(source, Head(snapshot))
          /\ UNCHANGED <<dest, running, sent, done, kills, moves, flushed>>
      BY <2>8 DEF Q!RemoveTask, Q!SecondCommand, QueueInv
    <3>2. source' \in Seq(sent)
      BY <3>1, RemovedFirst DEF QueueInv
    <3>3. snapshot' \in Seq(sent)
      BY <3>1 DEF QueueInv
    <3>. QED
      BY <3>1, <3>2, <3>3 DEF QueueInv
  <2>9. CASE Q!KillMove
    BY <2>0, <2>9 DEF Q!KillMove, QueueInv
  <2>10. CASE Q!FlushQueue
    <3>1. Q!ToSet(source) \subseteq sent /\ Q!ToSet(dest) \subseteq sent
      BY InList DEF QueueInv
    <3>2. /\ flushed' \in {flushed \cup Q!ToSet(source), flushed \cup Q!ToSet(dest)}
          /\ source' \in {source, <<>>} /\ dest' \in {dest, <<>>}
          /\ UNCHANGED <<running, sent, done, snapshot, half, kills, moves>>
      BY <2>10 DEF Q!FlushQueue
    <3>3. flushed' \subseteq sent
      BY <3>1, <3>2 DEF QueueInv
    <3>4. source' \in Seq(sent) /\ dest' \in Seq(sent)
      <4>1. source \in Seq(sent) /\ dest \in Seq(sent) /\ <<>> \in Seq(sent)
        BY DEF QueueInv
      <4>. QED
        BY <3>2, <4>1, Zenon
    <3>. QED
      BY <3>2, <3>3, <3>4 DEF QueueInv
  <2>11. CASE UNCHANGED Q!vars
    BY <2>11 DEF Q!vars, QueueInv
  <2>. QED
    BY <2>1, <2>2, <2>3, <2>4, <2>5, <2>6, <2>7, <2>8, <2>9, <2>10, <2>11 DEF Q!Next, Q!Work, Queues
<1>. QED
  BY <1>1, <1>2, PTL DEF Q!Spec

\* Its types.
LEMMA QueueTypes == ASSUME QueueInv PROVE Q!QueueTypeOK
<1>1. Seq(sent) \subseteq Seq(Tasks)
  BY DEF QueueInv
<1>2. half \subseteq Tasks /\ Q!Cardinality(half) <= 1
  <2>0. ASSUME NEW A PROVE Q!Cardinality(A) = Cardinality(A)
    BY Zenon DEF Q!Cardinality, Cardinality
  <2>1. CASE half = {}
    <3>1. Q!Cardinality({}) = 0
      BY <2>0, FS_EmptySet
    <3>. QED
      BY <2>1, <3>1
  <2>2. CASE half # {}
    <3>1. Head(snapshot) \in Tasks /\ half = {Head(snapshot)}
      BY <2>2 DEF QueueInv
    <3>2. Q!Cardinality({Head(snapshot)}) = 1
      BY <2>0, FS_Singleton
    <3>. QED
      BY <3>1, <3>2
  <2>. QED
    BY <2>1, <2>2
<1>3. running \subseteq Tasks \X {"source", "dest"}
  BY DEF QueueInv, Queues
<1>. QED
  BY <1>1, <1>2, <1>3 DEF QueueInv, Q!QueueTypeOK

\* The tasks with workers that took them from a list.
With(queue) == {t \in sent : <<t, queue>> \in running}

\* The tasks that have got to the second list, and on from there, or are through.
Reached == Q!ToSet(dest) \cup With("dest") \cup done \cup flushed

\* No task is lost between the lists, with a worker or with the command: one that is not
\* through is in a list or with a worker.
NothingLost == sent \subseteq Q!ToSet(source) \cup With("source") \cup Reached

\* What the command has pushed and not removed need not be in the source list any more.
PushedInv == half \subseteq Reached

\* What pushing and popping do to the tasks in a list.
LEMMA ListParts ==
    ASSUME NEW R, NEW list \in Seq(R)
    PROVE  /\ \A t \in R : Q!ToSet(Append(list, t)) = Q!ToSet(list) \cup {t}
           /\ \A t \in R : Q!ToSet(list) \cup {t} \subseteq Q!ToSet(<<t>> \o list)
           /\ list # <<>> => Q!ToSet(list) \subseteq Q!ToSet(Q!Front(list)) \cup {Q!Last(list)}
<1>. DEFINE n == Len(list)
<1>0. n \in Nat /\ DOMAIN list = 1..n
  OBVIOUS
<1>1. ASSUME NEW t \in R PROVE Q!ToSet(Append(list, t)) = Q!ToSet(list) \cup {t}
  <2>1. /\ DOMAIN Append(list, t) = 1..(n + 1) /\ Append(list, t)[n + 1] = t
        /\ \A i \in 1..n : Append(list, t)[i] = list[i]
    OBVIOUS
  <2>. DEFINE l == Append(list, t)
  <2>. HIDE DEF l, n
  <2>2. 1..(n + 1) = 1..n \cup {n + 1}
    BY <1>0
  <2>. QED
    BY <1>0, <2>1, <2>2 DEF Q!ToSet, l
<1>2. ASSUME NEW t \in R PROVE Q!ToSet(list) \cup {t} \subseteq Q!ToSet(<<t>> \o list)
  <2>1. /\ <<t>> \in Seq(R) /\ Len(<<t>>) = 1 /\ <<t>>[1] = t
    OBVIOUS
  <2>. DEFINE l == <<t>> \o list
  <2>2. /\ l \in Seq(R) /\ Len(l) = 1 + n
        /\ \A i \in 1..(1 + n) : l[i] = IF i <= 1 THEN t ELSE list[i - 1]
    BY <2>1, ConcatProperties
  <2>3. DOMAIN l = 1..(1 + n)
    BY <2>2, LenProperties
  <2>. HIDE DEF l, n
  <2>4. 1 \in DOMAIN l /\ l[1] = t
    BY <1>0, <2>2, <2>3
  <2>5. ASSUME NEW i \in 1..n PROVE i + 1 \in DOMAIN l /\ l[i + 1] = list[i]
    <3>1. i + 1 \in 1..(1 + n) /\ ~(i + 1 <= 1) /\ (i + 1) - 1 = i
      BY <1>0
    <3>2. l[i + 1] = list[(i + 1) - 1]
      BY <2>2, <3>1
    <3>. QED
      BY <2>3, <3>1, <3>2
  <2>6. Q!ToSet(list) \cup {t} \subseteq Q!ToSet(l)
    BY <1>0, <2>4, <2>5 DEF Q!ToSet
  <2>. QED
    BY <2>6 DEF l
<1>3. ASSUME list # <<>>
      PROVE  Q!ToSet(list) \subseteq Q!ToSet(Q!Front(list)) \cup {Q!Last(list)}
  <2>. DEFINE l == SubSeq(list, 1, n - 1)
  <2>1. n # 0
    BY <1>3
  <2>2. n - 1 \in Int /\ \A i \in 1..(n - 1) : list[i] \in R
    BY <1>0
  <2>3. /\ l \in Seq(R) /\ Len(l) = n - 1 /\ \A i \in 1..(n - 1) : l[i] = list[i]
    BY <1>0, <2>1, <2>2, SubSeqProperties
  <2>4. DOMAIN l = 1..(n - 1)
    BY <2>3, LenProperties
  <2>. HIDE DEF l, n
  <2>5. 1..n = 1..(n - 1) \cup {n}
    BY <1>0, <2>1
  <2>6. Q!ToSet(list) \subseteq Q!ToSet(l) \cup {list[n]}
    BY <1>0, <2>3, <2>4, <2>5 DEF Q!ToSet
  <2>. QED
    BY <2>6 DEF l, n, Q!Front, Q!Last
<1>. QED
  BY <1>1, <1>2, <1>3

\* LREM of one task leaves all the others.
LEMMA RemovedKeepsOthers ==
    ASSUME NEW R, NEW list \in Seq(R), NEW t
    PROVE  Q!ToSet(list) \ {t} \subseteq Q!ToSet(Q!RemoveFirst(list, t))
<1>. DEFINE U == {i \in 1..Len(list) : list[i] = t}
            n == Len(list)
<1>0. n \in Nat /\ DOMAIN list = 1..n /\ \A k \in 1..n : list[k] \in R
  OBVIOUS
<1>1. CASE U = {}
  <2>1. ~\E i \in 1..Len(list) : list[i] = t
    BY <1>1
  <2>. QED
    BY <2>1 DEF Q!RemoveFirst
<1>2. CASE U # {}
  <2>1. U \in SUBSET Nat
    OBVIOUS
  <2>2. PICK m \in U : \A y \in U : m <= y
    BY <1>2, <2>1, SmallestExists
  <2>3. PICK i \in U : i = Q!Min(U) /\ \A y \in U : i <= y
    BY <2>2 DEF Q!Min
  <2>. DEFINE a == SubSeq(list, 1, i - 1)
              b == SubSeq(list, i + 1, n)
  <2>4. Q!RemoveFirst(list, t) = a \o b
    BY <1>2, <2>3 DEF Q!RemoveFirst, Q!SelectInSeq, Q!RemoveAt
  <2>5. i \in 1..n /\ list[i] = t
    BY <2>3
  <2>. HIDE DEF n
  <2>6. /\ i - 1 \in Int /\ i + 1 \in Int /\ n \in Int
        /\ \A k \in 1..(i - 1) : list[k] \in R
        /\ \A k \in (i + 1)..n : list[k] \in R
    <3>1. 1..(i - 1) \subseteq 1..n /\ (i + 1)..n \subseteq 1..n
      BY <1>0, <2>5
    <3>. QED
      BY <1>0, <2>5, <3>1
  <2>7. /\ a \in Seq(R) /\ Len(a) = i - 1 /\ \A k \in 1..(i - 1) : a[k] = list[k]
    <3>1. /\ a \in Seq(R) /\ Len(a) = IF 1 <= i - 1 THEN (i - 1) - 1 + 1 ELSE 0
          /\ \A k \in 1..((i - 1) - 1 + 1) : a[k] = list[1 + k - 1]
      BY <2>6, SubSeqProperties
    <3>. QED
      BY <2>5, <3>1
  <2>8. /\ b \in Seq(R) /\ Len(b) = n - i /\ \A k \in 1..(n - i) : b[k] = list[i + k]
    <3>1. /\ b \in Seq(R) /\ Len(b) = IF i + 1 <= n THEN n - (i + 1) + 1 ELSE 0
          /\ \A k \in 1..(n - (i + 1) + 1) : b[k] = list[(i + 1) + k - 1]
      BY <2>6, SubSeqProperties
    <3>2. \A k \in 1..(n - i) : k \in 1..(n - (i + 1) + 1) /\ (i + 1) + k - 1 = i + k
      BY <1>0, <2>5
    <3>3. Len(b) = n - i
      BY <1>0, <2>5, <3>1
    <3>. QED
      BY <3>1, <3>2, <3>3
  <2>. HIDE DEF a, b, U
  <2>9. /\ DOMAIN a = 1..(i - 1) /\ DOMAIN b = 1..(n - i)
    BY <2>7, <2>8, LenProperties
  <2>10. a \o b \in Seq(R) /\ Q!ToSet(a) \cup Q!ToSet(b) \subseteq Q!ToSet(a \o b)
    BY <2>7, <2>8, InConcat
  <2>11. ASSUME NEW k \in 1..n, list[k] # t PROVE list[k] \in Q!ToSet(a) \cup Q!ToSet(b)
    <3>1. CASE k < i
      <4>1. k \in 1..(i - 1)
        BY <2>5, <3>1
      <4>2. a[k] = list[k]
        BY <2>7, <4>1
      <4>. QED
        BY <2>9, <4>1, <4>2 DEF Q!ToSet
    <3>2. CASE k > i
      <4>1. k - i \in 1..(n - i) /\ i + (k - i) = k
        BY <1>0, <2>5, <3>2
      <4>2. b[k - i] = list[k]
        BY <2>8, <4>1
      <4>. QED
        BY <2>9, <4>1, <4>2 DEF Q!ToSet
    <3>3. k # i
      BY <2>5, <2>11
    <3>. QED
      BY <1>0, <2>5, <3>1, <3>2, <3>3
  <2>12. Q!ToSet(list) \ {t} \subseteq Q!ToSet(a \o b)
    BY <1>0, <2>10, <2>11 DEF Q!ToSet
  <2>. QED
    BY <2>4, <2>10, <2>12
<1>. QED
  BY <1>1, <1>2

\* A task leaves a list for a worker, for the other list, or because it was flushed.
LEMMA NothingLostSteps ==
    ASSUME QueueInv, NothingLost, PushedInv, [Q!Next]_(Q!vars)
    PROVE  NothingLost' /\ PushedInv'
<1>0. /\ source \in Seq(sent) /\ dest \in Seq(sent) /\ snapshot \in Seq(sent)
      /\ running \subseteq sent \X Queues
      /\ (half # {} => snapshot # <<>> /\ half = {Head(snapshot)})
  BY DEF QueueInv
<1>1. ASSUME NEW t \in Tasks, Q!Send(t) PROVE NothingLost' /\ PushedInv'
  <2>1. /\ sent' = sent \cup {t} /\ source' = <<t>> \o source
        /\ UNCHANGED <<dest, running, done, half, flushed>>
    BY <1>1 DEF Q!Send
  <2>2. source \in Seq(sent')
    BY <1>0, <2>1
  <2>3. Q!ToSet(source) \cup {t} \subseteq Q!ToSet(source')
    BY <2>1, <2>2, ListParts
  <2>4. Q!ToSet(dest') = Q!ToSet(dest)
    BY <2>1
  <2>. QED
    BY <2>1, <2>3, <2>4 DEF NothingLost, PushedInv, Reached, With
<1>2. CASE Q!TakeSource
  <2>1. /\ source # <<>> /\ source' = Q!Front(source)
        /\ running' = running \cup {<<Q!Last(source), "source">>}
        /\ UNCHANGED <<dest, sent, done, half, flushed>>
    BY <1>2 DEF Q!TakeSource, Q!Begin
  <2>2. Q!ToSet(source) \subseteq Q!ToSet(source') \cup {Q!Last(source)}
    BY <1>0, <2>1, ListParts
  <2>3. Q!ToSet(dest') = Q!ToSet(dest)
    BY <2>1
  <2>4. /\ Q!Last(source) \in sent
        /\ With("source") \cup {Q!Last(source)} \subseteq With("source")'
        /\ With("dest") \subseteq With("dest")'
    <3>1. Q!Last(source) \in sent
      BY <1>0, <2>1, FrontAndLast
    <3>. QED
      BY <2>1, <3>1 DEF With
  <2>. QED
    BY <2>1, <2>2, <2>3, <2>4 DEF NothingLost, PushedInv, Reached
<1>3. CASE Q!TakeDest
  <2>1. /\ dest # <<>> /\ dest' = Q!Front(dest)
        /\ running' = running \cup {<<Q!Last(dest), "dest">>}
        /\ UNCHANGED <<source, sent, done, half, flushed>>
    BY <1>3 DEF Q!TakeDest, Q!Begin
  <2>2. Q!ToSet(dest) \subseteq Q!ToSet(dest') \cup {Q!Last(dest)}
    BY <1>0, <2>1, ListParts
  <2>3. Q!ToSet(source') = Q!ToSet(source)
    BY <2>1
  <2>4. /\ With("dest") \cup {Q!Last(dest)} \subseteq With("dest")'
        /\ With("source") \subseteq With("source")'
    <3>1. Q!Last(dest) \in sent
      BY <1>0, <2>1, FrontAndLast
    <3>. QED
      BY <2>1, <3>1 DEF With
  <2>. QED
    BY <2>1, <2>2, <2>3, <2>4 DEF NothingLost, PushedInv, Reached
<1>4. ASSUME NEW p \in Tasks \X Queues, Q!Acknowledge(p) PROVE NothingLost' /\ PushedInv'
  <2>1. /\ p \in running /\ running' = running \ {p} /\ done' = done \cup {p[1]}
        /\ UNCHANGED <<source, dest, sent, half, flushed>>
    BY <1>4 DEF Q!Acknowledge
  <2>2. Q!ToSet(source') = Q!ToSet(source) /\ Q!ToSet(dest') = Q!ToSet(dest)
    BY <2>1
  <2>3. \A q \in Queues : With(q) \subseteq With(q)' \cup {p[1]}
    BY <2>1 DEF With
  <2>. QED
    BY <2>1, <2>2, <2>3 DEF NothingLost, PushedInv, Reached, Queues
<1>5. ASSUME NEW p \in Tasks \X Queues, NEW alive \in BOOLEAN, Q!Redeliver(p, alive)
      PROVE  NothingLost' /\ PushedInv'
  <2>1. /\ p \in running /\ running \ {p} \subseteq running' /\ running' \subseteq running
        /\ source' = IF p[2] = "source" THEN Append(source, p[1]) ELSE source
        /\ dest' = IF p[2] = "dest" THEN Append(dest, p[1]) ELSE dest
        /\ UNCHANGED <<sent, done, half, flushed>>
    BY <1>5 DEF Q!Redeliver, Q!Requeued
  <2>2. p[1] \in sent /\ p[2] \in Queues /\ p = <<p[1], p[2]>>
    BY <1>0, <2>1
  <2>3. /\ Q!ToSet(source) \subseteq Q!ToSet(source') /\ Q!ToSet(dest) \subseteq Q!ToSet(dest')
        /\ p[2] = "source" => p[1] \in Q!ToSet(source')
        /\ p[2] = "dest" => p[1] \in Q!ToSet(dest')
    BY <1>0, <2>1, <2>2, ListParts
  <2>4. \A q \in Queues : With(q) \subseteq With(q)' \cup (IF p[2] = q THEN {p[1]} ELSE {})
    BY <2>1, <2>2 DEF With
  <2>5. /\ With("source") \subseteq With("source")' \cup Q!ToSet(source')
        /\ With("dest") \subseteq With("dest")' \cup Q!ToSet(dest')
    BY <2>3, <2>4 DEF Queues
  <2>6. UNCHANGED <<sent, done, half, flushed>>
    BY <2>1
  <2>7. Reached \subseteq Reached'
    BY <2>3, <2>5, <2>6 DEF Reached
  <2>. QED
    BY <2>3, <2>5, <2>6, <2>7 DEF NothingLost, PushedInv
<1>6. CASE Q!ReadQueue \/ Q!KillMove
  <2>1. UNCHANGED <<source, dest, running, sent, done, flushed>> /\ half' \subseteq half
    BY <1>6 DEF Q!ReadQueue, Q!KillMove
  <2>2. Q!ToSet(source') = Q!ToSet(source) /\ Q!ToSet(dest') = Q!ToSet(dest)
    BY <2>1
  <2>. QED
    BY <2>1, <2>2 DEF NothingLost, PushedInv, Reached, With
<1>7. CASE Q!PushTask
  <2>1. /\ snapshot # <<>> /\ half' = {Head(snapshot)} /\ dest' = Append(dest, Head(snapshot))
        /\ UNCHANGED <<source, running, sent, done, flushed>>
    BY <1>7 DEF Q!PushTask, Q!FirstCommand
  <2>2. Head(snapshot) \in sent
    BY <1>0, <2>1
  <2>3. Q!ToSet(dest') = Q!ToSet(dest) \cup {Head(snapshot)}
    BY <1>0, <2>1, <2>2, ListParts
  <2>4. Q!ToSet(source') = Q!ToSet(source)
    BY <2>1
  <2>. QED
    BY <2>1, <2>3, <2>4 DEF NothingLost, PushedInv, Reached, With
<1>8. CASE Q!RemoveTask
  <2>1. /\ half = {Head(snapshot)} /\ half' = {}
        /\ source' = Q!RemoveFirst(source, Head(snapshot))
        /\ UNCHANGED <<dest, running, sent, done, flushed>>
    BY <1>0, <1>8 DEF Q!RemoveTask, Q!SecondCommand
  <2>2. Q!ToSet(source) \ half \subseteq Q!ToSet(source')
    BY <1>0, <2>1, RemovedKeepsOthers
  <2>3. Q!ToSet(dest') = Q!ToSet(dest)
    BY <2>1
  <2>4. half \subseteq Reached /\ Reached' = Reached
    BY <2>1, <2>3 DEF PushedInv, Reached, With
  <2>. QED
    BY <2>1, <2>2, <2>4 DEF NothingLost, PushedInv, With
<1>9. CASE Q!FlushQueue
  <2>1. /\ UNCHANGED <<running, sent, done, half>>
        /\ \/ flushed' = flushed \cup Q!ToSet(source) /\ UNCHANGED dest
           \/ flushed' = flushed \cup Q!ToSet(dest) /\ UNCHANGED source
    BY <1>9 DEF Q!FlushQueue
  <2>2. /\ UNCHANGED dest => Q!ToSet(dest') = Q!ToSet(dest)
        /\ UNCHANGED source => Q!ToSet(source') = Q!ToSet(source)
    OBVIOUS
  <2>. QED
    BY <2>1, <2>2 DEF NothingLost, PushedInv, Reached, With
<1>10. CASE UNCHANGED Q!vars
  <2>1. UNCHANGED <<source, dest, running, sent, done, half, flushed>>
    BY <1>10 DEF Q!vars
  <2>2. Q!ToSet(source') = Q!ToSet(source) /\ Q!ToSet(dest') = Q!ToSet(dest)
    BY <2>1
  <2>. QED
    BY <2>1, <2>2 DEF NothingLost, PushedInv, Reached, With
<1>. QED
  BY <1>1, <1>2, <1>3, <1>4, <1>5, <1>6, <1>7, <1>8, <1>9, <1>10 DEF Q!Next, Q!Work, Queues

\* Whenever workers and the command are killed and whatever is delivered again: a task
\* that was sent is through, or in a list, or with a worker.
THEOREM NoTaskIsLost == Q!Spec => [](NothingLost /\ PushedInv)
<1>1. Q!Init => NothingLost /\ PushedInv
  BY DEF Q!Init, NothingLost, PushedInv
<1>. QED
  BY <1>1, NothingLostSteps, QueueInvariant, PTL DEF Q!Spec

\* The tasks with a worker.
Running == {t \in Tasks : \E p \in running : p[1] = t}

\* A list is one of its tasks.
LEMMA ListOfItsTasks == ASSUME NEW R, NEW list \in Seq(R) PROVE list \in Seq(Q!ToSet(list))
<1>1. /\ DOMAIN list = 1..Len(list) /\ Len(list) \in Nat
      /\ list = [i \in 1..Len(list) |-> list[i]]
  OBVIOUS
<1>2. \A i \in 1..Len(list) : list[i] \in Q!ToSet(list)
  BY <1>1 DEF Q!ToSet
<1>. QED
  BY <1>1, <1>2

\* Pushing and popping move nothing but the task itself.
LEMMA ListTasks ==
    ASSUME NEW R, NEW list \in Seq(R)
    PROVE  /\ \A t \in R : Q!ToSet(<<t>> \o list) = Q!ToSet(list) \cup {t}
           /\ list # <<>> =>
                /\ Q!ToSet(Q!Front(list)) \subseteq Q!ToSet(list)
                /\ Q!Last(list) \in Q!ToSet(list)
                /\ Q!ToSet(list) = Q!ToSet(Q!Front(list)) \cup {Q!Last(list)}
           /\ \A t : /\ Q!ToSet(list) \ {t} \subseteq Q!ToSet(Q!RemoveFirst(list, t))
                    /\ Q!ToSet(Q!RemoveFirst(list, t)) \subseteq Q!ToSet(list)
<1>. DEFINE T == Q!ToSet(list)
<1>0. list \in Seq(T) /\ T \subseteq R
  BY ListOfItsTasks, InList
<1>1. ASSUME NEW t \in R PROVE Q!ToSet(<<t>> \o list) = T \cup {t}
  <2>1. T \cup {t} \subseteq Q!ToSet(<<t>> \o list)
    BY <1>1, ListParts
  <2>2. <<t>> \in Seq(T \cup {t}) /\ list \in Seq(T \cup {t})
    <3>. HIDE DEF T
    <3>. QED
      BY <1>0
  <2>3. <<t>> \o list \in Seq(T \cup {t})
    <3>. HIDE DEF T
    <3>. QED
      BY <2>2, ConcatProperties
  <2>4. Q!ToSet(<<t>> \o list) \subseteq T \cup {t}
    BY <2>3, InList
  <2>. QED
    BY <2>1, <2>4
<1>2. ASSUME list # <<>>
      PROVE  Q!ToSet(Q!Front(list)) \subseteq T /\ Q!Last(list) \in T
  <2>1. Q!Front(list) \in Seq(T) /\ Q!Last(list) \in T
    BY <1>0, <1>2, FrontAndLast
  <2>. QED
    BY <2>1, InList
<1>3. list # <<>> => T \subseteq Q!ToSet(Q!Front(list)) \cup {Q!Last(list)}
  BY ListParts
<1>4. ASSUME NEW t
      PROVE  T \ {t} \subseteq Q!ToSet(Q!RemoveFirst(list, t)) /\ Q!ToSet(Q!RemoveFirst(list, t)) \subseteq T
  <2>1. Q!RemoveFirst(list, t) \in Seq(T)
    BY <1>0, RemovedFirst
  <2>. QED
    BY <2>1, InList, RemovedKeepsOthers
<1>. QED
  BY <1>1, <1>2, <1>3, <1>4

\* A worker takes a task.
LEMMA TakenIsRunning ==
    ASSUME NEW t \in Tasks, NEW queue, running' = running \cup {<<t, queue>>}
    PROVE  Running' = Running \cup {t}
<1>. DEFINE p == <<t, queue>>
<1>1. p[1] = t /\ running' = running \cup {p}
  OBVIOUS
<1>. HIDE DEF p
<1>. QED
  BY <1>1 DEF Running

\* Each command on the lists, and each worker's step, is one of the delivery's or none.
LEMMA QueueStepDelivers ==
    ASSUME QueueInv, PushedInv, [Q!Next]_(Q!vars)
    PROVE  [D!Next]_(D!vars)
<1>. DEFINE T(list) == Q!ToSet(list)
<1>0. /\ source \in Seq(sent) /\ dest \in Seq(sent) /\ snapshot \in Seq(sent)
      /\ sent \subseteq Tasks /\ running \subseteq sent \X Queues
      /\ T(source) \subseteq sent /\ T(dest) \subseteq sent
      /\ \A p \in running : p[1] \in sent /\ p[1] \in Running
      /\ Pending = T(source) \cup T(dest) \cup Running
      /\ Pending' = T(source)' \cup T(dest)' \cup Running'
  BY InList DEF QueueInv, Pending, Running
<1>1. ASSUME UNCHANGED <<sent, done, flushed>>, Pending' = Pending
      PROVE  UNCHANGED D!vars
  BY <1>1 DEF D!vars
<1>2. ASSUME NEW t \in Tasks, Q!Send(t) PROVE D!Next
  <2>1. /\ t \notin sent /\ sent' = sent \cup {t} /\ source' = <<t>> \o source
        /\ UNCHANGED <<dest, running, done, flushed>>
    BY <1>2 DEF Q!Send
  <2>2. source \in Seq(Tasks)
    BY <1>0
  <2>3. T(source') = T(source) \cup {t}
    BY <2>1, <2>2, ListTasks
  <2>4. Pending' = Pending \cup {t}
    BY <1>0, <2>1, <2>3 DEF Running
  <2>5. D!Send(t)
    BY <2>1, <2>4 DEF D!Send
  <2>. QED
    BY <2>5 DEF D!Next
<1>3. CASE Q!TakeSource
  <2>1. /\ source # <<>> /\ source' = Q!Front(source)
        /\ running' = running \cup {<<Q!Last(source), "source">>}
        /\ UNCHANGED <<dest, sent, done, flushed>>
    BY <1>3 DEF Q!TakeSource, Q!Begin
  <2>2. T(source) = T(source') \cup {Q!Last(source)}
    BY <1>0, <2>1, ListTasks
  <2>3. Running' = Running \cup {Q!Last(source)}
    BY <1>0, <2>1, <2>2, TakenIsRunning
  <2>4. Pending' = Pending
    BY <1>0, <2>1, <2>2, <2>3
  <2>. QED
    BY <1>1, <2>1, <2>4
<1>4. CASE Q!TakeDest
  <2>1. /\ dest # <<>> /\ dest' = Q!Front(dest)
        /\ running' = running \cup {<<Q!Last(dest), "dest">>}
        /\ UNCHANGED <<source, sent, done, flushed>>
    BY <1>4 DEF Q!TakeDest, Q!Begin
  <2>2. T(dest) = T(dest') \cup {Q!Last(dest)}
    BY <1>0, <2>1, ListTasks
  <2>3. Running' = Running \cup {Q!Last(dest)}
    BY <1>0, <2>1, <2>2, TakenIsRunning
  <2>4. Pending' = Pending
    BY <1>0, <2>1, <2>2, <2>3
  <2>. QED
    BY <1>1, <2>1, <2>4
<1>5. ASSUME NEW p \in Tasks \X Queues, Q!Acknowledge(p) PROVE D!Next
  <2>1. /\ p \in running /\ running' = running \ {p} /\ done' = done \cup {p[1]}
        /\ UNCHANGED <<source, dest, sent, flushed>>
    BY <1>5 DEF Q!Acknowledge
  <2>2. Running' \subseteq Running /\ Running \ {p[1]} \subseteq Running'
    BY <2>1 DEF Running
  <2>3. Pending' \subseteq Pending /\ Pending \ {p[1]} \subseteq Pending'
    BY <1>0, <2>1, <2>2
  <2>4. p[1] \in Pending /\ p[1] \in Tasks
    BY <1>0, <2>1
  <2>5. D!Finish(p[1])
    BY <2>1, <2>3, <2>4 DEF D!Finish
  <2>. QED
    BY <2>4, <2>5 DEF D!Next
<1>6. ASSUME NEW p \in Tasks \X Queues, NEW alive \in BOOLEAN, Q!Redeliver(p, alive)
      PROVE  UNCHANGED D!vars
  <2>1. /\ p \in running /\ running' \in {running, running \ {p}}
        /\ UNCHANGED <<sent, done, flushed>>
        /\ \/ source' = Append(source, p[1]) /\ UNCHANGED dest
           \/ dest' = Append(dest, p[1]) /\ UNCHANGED source
    BY <1>6 DEF Q!Redeliver, Q!Requeued, Queues
  <2>2. p[1] \in sent /\ p[1] \in Running
    BY <1>0, <2>1
  <2>3. T(source') \cup T(dest') = T(source) \cup T(dest) \cup {p[1]}
    <3>1. /\ T(Append(source, p[1])) = T(source) \cup {p[1]}
          /\ T(Append(dest, p[1])) = T(dest) \cup {p[1]}
      BY <1>0, <2>2, ListParts
    <3>2. CASE source' = Append(source, p[1]) /\ UNCHANGED dest
      BY <3>1, <3>2
    <3>3. CASE dest' = Append(dest, p[1]) /\ UNCHANGED source
      BY <3>1, <3>3
    <3>. QED
      BY <2>1, <3>2, <3>3
  <2>4. Running' \subseteq Running /\ Running \ {p[1]} \subseteq Running'
    BY <2>1 DEF Running
  <2>5. Pending' = Pending
    BY <1>0, <2>2, <2>3, <2>4
  <2>. QED
    BY <1>1, <2>1, <2>5
<1>7. CASE Q!ReadQueue \/ Q!KillMove
  <2>1. UNCHANGED <<source, dest, running, sent, done, flushed>>
    BY <1>7 DEF Q!ReadQueue, Q!KillMove
  <2>2. Pending' = Pending
    BY <2>1 DEF Pending
  <2>. QED
    BY <1>1, <2>1, <2>2
<1>8. CASE Q!PushTask
  <2>1. /\ snapshot # <<>> /\ dest' = Append(dest, Head(snapshot))
        /\ UNCHANGED <<source, running, sent, done, flushed>>
    BY <1>8 DEF Q!PushTask, Q!FirstCommand
  <2>2. Head(snapshot) \in sent
    BY <1>0, <2>1
  <2>3. T(dest') = T(dest) \cup {Head(snapshot)}
    BY <1>0, <2>1, <2>2, ListParts
  <2>4. Pending' = Pending \cup {Head(snapshot)}
    BY <1>0, <2>1, <2>3 DEF Running
  <2>5. D!Repeat(Head(snapshot)) /\ Head(snapshot) \in Tasks
    BY <1>0, <2>1, <2>2, <2>4 DEF D!Repeat
  <2>. QED
    BY <2>5 DEF D!Next
<1>9. CASE Q!RemoveTask
  <2>. DEFINE t == Head(snapshot)
  <2>1. /\ half = {t} /\ source' = Q!RemoveFirst(source, t)
        /\ UNCHANGED <<dest, running, sent, done, flushed>>
    BY <1>9 DEF Q!RemoveTask, Q!SecondCommand, QueueInv
  <2>2. T(source) \ {t} \subseteq T(source') /\ T(source') \subseteq T(source)
    BY <1>0, <2>1, ListTasks
  <2>3. T(dest') = T(dest) /\ Running' = Running
    BY <2>1 DEF Running
  <2>4. Pending' \subseteq Pending /\ Pending \ {t} \subseteq Pending'
    BY <1>0, <2>2, <2>3
  <2>5. t \in Reached
    BY <2>1 DEF PushedInv
  <2>6. CASE t \in T(dest) \cup With("dest")
    <3>1. t \in T(dest) \cup Running
      BY <1>0, <2>6 DEF With
    <3>2. t \in Pending /\ t \in Pending'
      BY <1>0, <2>3, <3>1
    <3>. QED
      BY <1>1, <2>1, <2>4, <3>2
  <2>7. CASE t \in done \cup flushed
    <3>1. t \in Tasks
      BY <2>7 DEF QueueInv
    <3>2. Pending' = Pending \/ Pending' = Pending \ {t}
      BY <2>4
    <3>3. CASE Pending' = Pending \ {t}
      <4>1. D!Forget({t})
        BY <2>1, <2>7, <3>3 DEF D!Forget
      <4>. QED
        BY <3>1, <4>1 DEF D!Next
    <3>. QED
      BY <1>1, <2>1, <3>2, <3>3
  <2>. QED
    BY <2>5, <2>6, <2>7 DEF Reached
<1>10. CASE Q!FlushQueue
  <2>1. PICK list \in {source, dest} :
          /\ flushed' = flushed \cup T(list) /\ UNCHANGED <<running, sent, done>>
          /\ \/ list = source /\ source' = <<>> /\ UNCHANGED dest
             \/ list = dest /\ dest' = <<>> /\ UNCHANGED source
    BY <1>10 DEF Q!FlushQueue
  <2>2. T(<<>>) = {}
    BY DEF Q!ToSet
  <2>3. Pending' \subseteq Pending /\ Pending \ T(list) \subseteq Pending'
    BY <1>0, <2>1, <2>2 DEF Running
  <2>4. D!Drop(T(list)) /\ T(list) \in SUBSET Tasks
    BY <1>0, <2>1, <2>3 DEF D!Drop
  <2>. QED
    BY <2>4 DEF D!Next
<1>11. CASE UNCHANGED Q!vars
  <2>1. UNCHANGED <<source, dest, running, sent, done, flushed>>
    BY <1>11 DEF Q!vars
  <2>2. Pending' = Pending
    BY <2>1 DEF Pending
  <2>. QED
    BY <1>1, <2>1, <2>2
<1>. QED
  BY <1>2, <1>3, <1>4, <1>5, <1>6, <1>7, <1>8, <1>9, <1>10, <1>11 DEF Q!Next, Q!Work, Queues

\* Queues deliver at least once: whatever is killed, between whichever commands, a task
\* is pending until a worker acknowledged it or an operator flushed it.
THEOREM QueuesDeliver == Q!Spec => D!Spec
<1>1. Q!Init => D!Init
  <2>. SUFFICES ASSUME Q!Init PROVE D!Init
    OBVIOUS
  <2>1. source = <<>> /\ dest = <<>> /\ running = {} /\ sent = {} /\ done = {} /\ flushed = {}
    BY DEF Q!Init
  <2>2. Pending = {}
    BY <2>1 DEF Pending, Q!ToSet
  <2>. QED
    BY <2>1, <2>2 DEF D!Init
<1>. QED
  BY <1>1, QueueStepDelivers, QueueInvariant, NoTaskIsLost, PTL DEF Q!Spec, D!Spec

-----------------------------------------------------------------------------
(* Metagraph files. *)

\* The files, their checkpoints and the runs, in every reachable state.
THEOREM FilesTypes == F!Spec => []F!FilesTypeOK
<1>. DEFINE R == {"sensor", "hourly"}
            Run == [active : BOOLEAN, left : SUBSET Files, marked : SUBSET Files]
<1>0. MaxCrashes \in Nat
  BY ServicesAssumption
<1>1. F!Init => F!FilesTypeOK
  BY <1>0 DEF F!Init, F!FilesTypeOK, F!Idle
<1>2. F!FilesTypeOK /\ [F!Next]_(F!vars) => F!FilesTypeOK'
  <2>. SUFFICES ASSUME F!FilesTypeOK, [F!Next]_(F!vars) PROVE F!FilesTypeOK'
    OBVIOUS
  <2>1. ASSUME NEW f \in Files, F!OpenFile(f) \/ F!WriteFile(f) PROVE F!FilesTypeOK'
    BY <2>1 DEF F!OpenFile, F!WriteFile, F!FilesTypeOK
  <2>2. ASSUME NEW r \in R, F!BeginRun(r), known' \subseteq Files PROVE F!FilesTypeOK'
    <3>1. [F!Idle EXCEPT !.active = TRUE, !.left = F!Unprocessed] \in Run
      BY DEF F!Idle, F!Unprocessed
    <3>. QED
      BY <2>2, <3>1 DEF F!BeginRun, F!FilesTypeOK
  <2>3. CASE F!SensorRun
    <3>1. known' \subseteq Files
      BY <2>3 DEF F!SensorRun, F!Sized
    <3>. QED
      BY <2>2, <2>3, <3>1 DEF F!SensorRun, F!FilesTypeOK
  <2>4. CASE F!HourlyRun
    BY <2>2, <2>4 DEF F!HourlyRun, F!FilesTypeOK
  <2>5. ASSUME NEW r \in R, F!MarkFile(r) \/ F!EndRun(r) \/ F!KillRun(r) PROVE F!FilesTypeOK'
    <3>1. F!Idle \in Run
      BY DEF F!Idle
    <3>2. run[r] \in Run /\ [run[r] EXCEPT !.marked = {}] \in Run
      BY DEF F!FilesTypeOK
    <3>3. run' = [run EXCEPT ![r] = F!Idle] \/ run' = [run EXCEPT ![r] = [run[r] EXCEPT !.marked = {}]]
      BY <2>5 DEF F!MarkFile, F!EndRun, F!KillRun
    <3>4. run' \in [R -> Run]
      BY <3>1, <3>2, <3>3 DEF F!FilesTypeOK
    <3>5. checkpoints' \subseteq Files /\ crashes' \in 0..MaxCrashes /\ UNCHANGED <<content, synced, known>>
      BY <1>0, <2>5, <3>2 DEF F!MarkFile, F!EndRun, F!KillRun, F!FilesTypeOK
    <3>. QED
      BY <3>4, <3>5 DEF F!FilesTypeOK
  <2>6. ASSUME NEW r \in R, NEW f \in Files, F!SkipFile(r, f) \/ F!SyncFile(r, f) PROVE F!FilesTypeOK'
    <3>1. /\ run[r] \in Run /\ [run[r] EXCEPT !.left = run[r].left \ {f}] \in Run
          /\ [run[r] EXCEPT !.left = run[r].left \ {f}, !.marked = {f}] \in Run
      BY DEF F!FilesTypeOK
    <3>2. \/ run' = [run EXCEPT ![r] = [run[r] EXCEPT !.left = run[r].left \ {f}]]
          \/ run' = [run EXCEPT ![r] = [run[r] EXCEPT !.left = run[r].left \ {f}, !.marked = {f}]]
      BY <2>6, <3>1 DEF F!SkipFile, F!SyncFile, F!FilesTypeOK
    <3>3. run' \in [R -> Run]
      BY <3>1, <3>2 DEF F!FilesTypeOK
    <3>4. synced' \subseteq Files /\ crashes' \in 0..MaxCrashes /\ UNCHANGED <<content, checkpoints, known>>
      BY <1>0, <2>6 DEF F!SkipFile, F!SyncFile, F!FilesTypeOK
    <3>. QED
      BY <3>3, <3>4 DEF F!FilesTypeOK
  <2>7. CASE UNCHANGED F!vars
    BY <2>7 DEF F!vars, F!FilesTypeOK
  <2>. QED
    BY <2>1, <2>3, <2>4, <2>5, <2>6, <2>7 DEF F!Next, F!FileStep
<1>. QED
  BY <1>1, <1>2, PTL DEF F!Spec

\* A file with a checkpoint has been synced, and only whole files have.
CheckpointsAreSynced ==
    /\ checkpoints \subseteq synced
    /\ \A f \in synced : content[f] = "whole"

\* The file a run is about to mark has been synced.
MarkedInv == \A r \in {"sensor", "hourly"} : run[r].marked \subseteq synced

\* Whichever runs overlap or are killed between a sync and its checkpoint.
THEOREM MarkedFilesAreSynced == F!Spec => [](CheckpointsAreSynced /\ MarkedInv)
<1>. DEFINE R == {"sensor", "hourly"}
            I == F!FilesTypeOK /\ CheckpointsAreSynced /\ MarkedInv
<1>1. F!Init => CheckpointsAreSynced /\ MarkedInv
  BY DEF F!Init, F!Idle, CheckpointsAreSynced, MarkedInv
<1>2. I /\ [F!Next]_(F!vars) => (CheckpointsAreSynced /\ MarkedInv)'
  <2>. SUFFICES ASSUME I, [F!Next]_(F!vars) PROVE (CheckpointsAreSynced /\ MarkedInv)'
    OBVIOUS
  <2>0. content \in [Files -> {"none", "partial", "whole"}] /\ synced \subseteq Files
        /\ run \in [R -> [active : BOOLEAN, left : SUBSET Files, marked : SUBSET Files]]
    BY DEF F!FilesTypeOK
  <2>1. ASSUME NEW f \in Files, F!OpenFile(f) \/ F!WriteFile(f)
        PROVE  (CheckpointsAreSynced /\ MarkedInv)'
    BY <2>0, <2>1 DEF F!OpenFile, F!WriteFile, CheckpointsAreSynced, MarkedInv
  <2>2. ASSUME NEW r \in R, F!BeginRun(r) \/ F!EndRun(r) \/ F!KillRun(r)
        PROVE  (CheckpointsAreSynced /\ MarkedInv)'
    <3>1. UNCHANGED <<content, checkpoints, synced>>
      BY <2>2 DEF F!BeginRun, F!EndRun, F!KillRun
    <3>2. \A q \in R : run'[q] = run[q] \/ run'[q].marked = {}
      <4>1. /\ F!Idle.marked = {}
            /\ [F!Idle EXCEPT !.active = TRUE, !.left = F!Unprocessed].marked = {}
        BY DEF F!Idle
      <4>2. \/ run' = [run EXCEPT ![r] = F!Idle]
            \/ run' = [run EXCEPT ![r] = [F!Idle EXCEPT !.active = TRUE, !.left = F!Unprocessed]]
        BY <2>2 DEF F!BeginRun, F!EndRun, F!KillRun
      <4>. QED
        BY <2>0, <4>1, <4>2
    <3>. QED
      BY <3>1, <3>2 DEF CheckpointsAreSynced, MarkedInv
  <2>3. CASE F!SensorRun \/ F!HourlyRun
    <3>1. CASE UNCHANGED <<content, checkpoints, synced, run>>
      BY <3>1 DEF CheckpointsAreSynced, MarkedInv
    <3>. QED
      BY <2>2, <2>3, <3>1 DEF F!SensorRun, F!HourlyRun
  <2>4. ASSUME NEW r \in R, NEW f \in Files, F!SkipFile(r, f)
        PROVE  (CheckpointsAreSynced /\ MarkedInv)'
    <3>1. UNCHANGED <<content, checkpoints, synced>>
      BY <2>4 DEF F!SkipFile
    <3>2. \A q \in R : run'[q].marked = run[q].marked
      BY <2>0, <2>4 DEF F!SkipFile
    <3>. QED
      BY <3>1, <3>2 DEF CheckpointsAreSynced, MarkedInv
  <2>5. ASSUME NEW r \in R, NEW f \in Files, F!SyncFile(r, f)
        PROVE  (CheckpointsAreSynced /\ MarkedInv)'
    <3>1. UNCHANGED <<content, checkpoints>> /\ content[f] = "whole" /\ synced' = synced \cup {f}
      BY <2>5 DEF F!SyncFile
    <3>2. \A q \in R : run'[q].marked = run[q].marked \/ run'[q].marked = {f}
      BY <2>0, <2>5 DEF F!SyncFile
    <3>. QED
      BY <3>1, <3>2 DEF CheckpointsAreSynced, MarkedInv
  <2>6. ASSUME NEW r \in R, F!MarkFile(r) PROVE (CheckpointsAreSynced /\ MarkedInv)'
    <3>1. UNCHANGED <<content, synced>> /\ checkpoints' = checkpoints \cup run[r].marked
      BY <2>6 DEF F!MarkFile
    <3>2. \A q \in R : run'[q].marked = run[q].marked \/ run'[q].marked = {}
      BY <2>0, <2>6 DEF F!MarkFile
    <3>. QED
      BY <3>1, <3>2 DEF CheckpointsAreSynced, MarkedInv
  <2>7. CASE UNCHANGED F!vars
    BY <2>7 DEF F!vars, CheckpointsAreSynced, MarkedInv
  <2>. QED
    BY <2>1, <2>2, <2>3, <2>4, <2>5, <2>6, <2>7 DEF F!Next, F!FileStep
<1>. QED
  BY <1>1, <1>2, FilesTypes, PTL DEF F!Spec

\* A file's way to its checkpoint is that of a task to its acknowledgement: begun, synced
\* by some run, and then marked; a run that syncs it once more changes nothing.
LEMMA FileStepDelivers ==
    ASSUME F!FilesTypeOK, CheckpointsAreSynced, MarkedInv, [F!Next]_(F!vars)
    PROVE  [E!Next]_(E!vars)
<1>. DEFINE R == {"sensor", "hourly"}
<1>0. /\ content \in [Files -> {"none", "partial", "whole"}]
      /\ checkpoints \subseteq synced /\ synced \subseteq Files
  BY DEF F!FilesTypeOK, CheckpointsAreSynced
<1>1. ASSUME UNCHANGED <<content, checkpoints, synced>> PROVE UNCHANGED E!vars
  BY <1>1 DEF E!vars, Begun
<1>2. ASSUME NEW f \in Files, F!OpenFile(f) PROVE E!Next
  <2>1. /\ content[f] = "none" /\ content' = [content EXCEPT ![f] = "partial"]
        /\ UNCHANGED <<checkpoints, synced>>
    BY <1>2 DEF F!OpenFile
  <2>2. f \notin Begun /\ Begun' = Begun \cup {f}
    BY <1>0, <2>1 DEF Begun
  <2>3. f \notin checkpoints
    BY <1>0, <2>1 DEF CheckpointsAreSynced
  <2>4. E!Send(f)
    BY <2>1, <2>2, <2>3 DEF E!Send
  <2>. QED
    BY <2>4 DEF E!Next
<1>3. ASSUME NEW f \in Files, F!WriteFile(f) PROVE UNCHANGED E!vars
  <2>1. /\ content[f] = "partial" /\ content' = [content EXCEPT ![f] = "whole"]
        /\ UNCHANGED <<checkpoints, synced>>
    BY <1>3 DEF F!WriteFile
  <2>2. Begun' = Begun
    BY <1>0, <2>1 DEF Begun
  <2>. QED
    BY <2>1, <2>2 DEF E!vars
<1>4. ASSUME NEW r \in R, NEW f \in Files, F!SyncFile(r, f) PROVE [E!Next]_(E!vars)
  <2>1. content[f] = "whole" /\ synced' = synced \cup {f} /\ UNCHANGED <<content, checkpoints>>
    BY <1>4 DEF F!SyncFile
  <2>2. f \in Begun /\ Begun' = Begun
    BY <2>1 DEF Begun
  <2>3. CASE f \in checkpoints
    <3>1. synced' = synced
      BY <1>0, <2>1, <2>3
    <3>. QED
      BY <1>1, <2>1, <3>1
  <2>4. CASE f \notin checkpoints
    <3>1. E!Finish(f)
      BY <2>1, <2>2, <2>4 DEF E!Finish
    <3>. QED
      BY <3>1 DEF E!Next
  <2>. QED
    BY <2>3, <2>4
<1>5. ASSUME NEW r \in R, F!MarkFile(r) PROVE E!Next
  <2>. DEFINE marks == run[r].marked
  <2>1. checkpoints' = checkpoints \cup marks /\ UNCHANGED <<content, synced>> /\ marks \subseteq synced
    BY <1>5 DEF F!MarkFile, MarkedInv
  <2>. HIDE DEF marks
  <2>2. Begun' = Begun
    BY <2>1 DEF Begun
  <2>3. (Begun \ checkpoints)' = (Begun \ checkpoints) \ marks
    BY <2>1, <2>2
  <2>4. E!Forget(marks) /\ marks \in SUBSET Files
    BY <1>0, <2>1, <2>2, <2>3 DEF E!Forget
  <2>. QED
    BY <2>4 DEF E!Next
<1>6. ASSUME NEW r \in R, \/ F!BeginRun(r) \/ F!EndRun(r) \/ F!KillRun(r)
                         \/ \E f \in Files : F!SkipFile(r, f)
      PROVE  UNCHANGED E!vars
  BY <1>1, <1>6 DEF F!BeginRun, F!EndRun, F!KillRun, F!SkipFile
<1>7. CASE F!SensorRun \/ F!HourlyRun
  BY <1>1, <1>6, <1>7 DEF F!SensorRun, F!HourlyRun
<1>8. CASE UNCHANGED F!vars
  BY <1>1, <1>8 DEF F!vars
<1>. QED
  BY <1>2, <1>3, <1>4, <1>5, <1>6, <1>7, <1>8 DEF F!Next, F!FileStep

\* Files, too, are delivered at least once: a file is among those that the next run looks
\* at until it is synced, although runs overlap, fail and are killed at any point.
THEOREM FilesDeliver == F!Spec => E!Spec
<1>1. F!Init => E!Init
  BY DEF F!Init, E!Init, Begun
<1>. QED
  BY <1>1, FileStepDelivers, FilesTypes, MarkedFilesAreSynced, PTL DEF F!Spec, E!Spec

\* Queues and files together.
THEOREM DeliveryAtLeastOnce == Q!Spec /\ F!Spec => DeliveredAtLeastOnce
BY QueuesDeliver, FilesDeliver DEF DeliveredAtLeastOnce

-----------------------------------------------------------------------------
\* The types of all services, each running by itself.
THEOREM ServicesTypes ==
    Spec /\ N!Spec /\ H!Spec /\ Q!Spec /\ S!Spec /\ F!Spec => []ServicesTypeOK
<1>1. /\ IInv => TypeOK
      /\ NotifyInv => N!NotificationTypeOK
      /\ ParamInv => H!HyperparamTypeOK
      /\ HealthInv => S!HealthTypeOK
  BY DEF IInv, NotifyInv, ItemsInv, ParamInv, HealthInv, HealthTyped
<1>2. QueueInv => Q!QueueTypeOK
  BY QueueTypes
<1>3. IInv /\ NotifyInv /\ ParamInv /\ QueueInv /\ HealthInv /\ F!FilesTypeOK
      => ServicesTypeOK
  BY <1>1, <1>2 DEF ServicesTypeOK
<1>. QED
  BY <1>3, Invariant, NotifyInvariant, ParamInvariant, QueueInvariant, HealthInvariant,
     FilesTypes, PTL
=============================================================================
