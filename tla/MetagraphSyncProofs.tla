------------------------- MODULE MetagraphSyncProofs -------------------------
(***************************************************************************)
(* What the metagraph tables hold, for any chain and any of the processes  *)
(* at work: dumps and weights are those of their block, the subnet row is  *)
(* that of one block, and a burn that was computed without a commit of     *)
(* another process in between counts the right neurons.                    *)
(***************************************************************************)
EXTENDS MetagraphSync, FiniteSetTheorems, WellFoundedInduction, TLAPS

Labels == {"off", "fetch", "commit", "burn", "emissions"}
ReadRows == [row : SubnetRows, keys : HotkeyTable, lean : BOOLEAN]

\* Where each process is: it has a block when it is at work, and it computes a burn
\* only for the start of an epoch.
PassInv ==
    /\ pc \in [Workers -> Labels] /\ todo \in [Workers -> SUBSET Blocks]
    /\ \A w \in Workers : pc[w] # "off" => todo[w] # {}
    /\ \A w \in Workers : w = "burns" => todo[w] \subseteq Starts
    /\ \A w \in Workers : pc[w] = "burn" => Position[At(w)] = "start"

LocalInv == PassInv /\ last \in 0..LastBlock /\ read \in [Workers -> ReadRows]

\* The blocks a process may begin a pass with.
Pass(w, range) == range \subseteq Blocks /\ (w = "burns" => range \subseteq Starts)

-----------------------------------------------------------------------------
(* The block a process is at. *)

\* A set of natural numbers has a least one: of the intervals below its elements, one is
\* minimal.
LEMMA LeastExists ==
    ASSUME NEW S \in SUBSET Nat, S # {}
    PROVE  \E x \in S : \A y \in S : x <= y
<1> DEFINE Below == {0..x : x \in S}
           R == StrictSubsetOrdering(Nat)
<1>1. Below # {} /\ Below \subseteq FiniteSubsetsOf(Nat)
  <2>1. \A x \in S : IsFiniteSet(0..x) /\ 0..x \in SUBSET Nat
    BY FS_Interval
  <2>. QED
    BY <2>1 DEF FiniteSubsetsOf
<1>2. IsWellFoundedOn(R, FiniteSubsetsOf(Nat))
  BY FS_StrictSubsetOrderingWellFounded
<1>. HIDE DEF Below
<1>3. PICK P \in Below : \A Q \in Below : ~(<<Q, P>> \in R)
  BY <1>1, <1>2, WFMin
<1>4. PICK x \in S : P = 0..x
  BY <1>3 DEF Below
<1>5. ASSUME NEW y \in S, ~(x <= y) PROVE FALSE
  <2>1. 0..y \in Below
    BY DEF Below
  <2>2. x \in 0..x /\ x \notin 0..y /\ 0..y \subseteq 0..x
    BY <1>5
  <2>3. <<0..y, 0..x>> \in R
    BY <2>2 DEF StrictSubsetOrdering
  <2>. QED
    BY <1>3, <1>4, <2>1, <2>3
<1>. QED
  BY <1>5

LEMMA SmallestIn ==
    ASSUME NEW S \in SUBSET Blocks, S # {}
    PROVE  Smallest(S) \in S
<1>1. \E x \in S : \A y \in S : x <= y
  BY LeastExists DEF Blocks
<1>. QED
  BY <1>1 DEF Smallest

LEMMA AtBlock ==
    ASSUME PassInv, NEW w \in Workers, pc[w] # "off"
    PROVE  At(w) \in todo[w] /\ At(w) \in Blocks
  BY SmallestIn DEF PassInv, At

LEMMA EntryLabel ==
    ASSUME NEW w, NEW range
    PROVE  /\ Entry(w, range) \in {"off", "fetch", "burn", "emissions"}
           /\ Entry(w, range) # "off" => range # {}
           /\ Entry(w, range) = "burn" => w = "burns"
  BY DEF Entry

\* Another block, or the end of the pass.
LEMMA ContinueKeeps ==
    ASSUME PassInv, NEW w \in Workers, NEW range, Pass(w, range), Continue(w, range)
    PROVE  PassInv'
<1>1. /\ pc' \in [Workers -> Labels] /\ todo' \in [Workers -> SUBSET Blocks]
      /\ \A v \in Workers : pc'[v] # "off" => todo'[v] # {}
      /\ \A v \in Workers : v = "burns" => todo'[v] \subseteq Starts
  BY EntryLabel DEF PassInv, Continue, Pass, Labels
<1>2. ASSUME NEW v \in Workers, pc'[v] = "burn" PROVE Position[Smallest(todo'[v])] = "start"
  <2>1. CASE v = w
    <3>1. todo'[w] = range /\ Entry(w, range) = "burn"
      BY <1>2, <2>1 DEF PassInv, Continue
    <3>2. range \subseteq Starts /\ range # {} /\ range \subseteq Blocks
      BY <3>1, EntryLabel DEF Pass
    <3>3. Smallest(range) \in range
      BY <3>2, SmallestIn
    <3>. QED
      BY <2>1, <3>1, <3>2, <3>3 DEF Starts
  <2>2. CASE v # w
    BY <1>2, <2>2 DEF PassInv, Continue, At
  <2>. QED
    BY <2>1, <2>2
<1>. QED
  BY <1>1, <1>2 DEF PassInv, At

\* The next step for the same block.
LEMMA NextStepKeeps ==
    ASSUME PassInv, NEW w \in Workers, pc[w] # "off", UNCHANGED todo,
           NEW label \in Labels, pc' = [pc EXCEPT ![w] = label],
           label = "burn" => Position[At(w)] = "start"
    PROVE  PassInv'
  BY DEF PassInv, Labels, At

LEMMA UnreadKeeps ==
    ASSUME LocalInv, NEW w \in Workers
    PROVE  [read EXCEPT ![w] = NothingRead] \in [Workers -> ReadRows]
  BY DEF LocalInv, ReadRows, NothingRead, NoSubnet, SubnetRows, HotkeyTable

\* What remains of a pass without its first block.
LEMMA RestIsPass ==
    ASSUME PassInv, NEW w \in Workers
    PROVE  Pass(w, todo[w] \ {At(w)}) /\ Pass(w, {})
  BY DEF PassInv, Pass

\* Leaving a step, a process stays where it may be.
LEMMA ProceedKeeps ==
    ASSUME LocalInv, NEW w \in Workers, NEW step, pc[w] # "off", Proceed(w, step)
    PROVE  /\ LocalInv'
           /\ \/ pc'[w] = Entry(w, todo[w] \ {At(w)})
              \/ todo' = todo /\ pc'[w] = After(w, step) /\ After(w, step) # "done"
           /\ \A v \in Workers \ {w} : pc'[v] = pc[v] /\ todo'[v] = todo[v]
<1>0. PassInv /\ read' \in [Workers -> ReadRows]
  BY UnreadKeeps DEF LocalInv, Proceed
<1>1. CASE After(w, step) = "done"
  <2>1. Continue(w, todo[w] \ {At(w)}) /\ last' = IF w = "live" THEN At(w) ELSE last
    BY <1>1 DEF Proceed
  <2>2. last' \in 0..LastBlock
    BY <1>0, <2>1, AtBlock, MetagraphAssumption DEF LocalInv, Blocks
  <2>3. PassInv'
    BY <1>0, <2>1, ContinueKeeps, RestIsPass
  <2>. QED
    BY <1>0, <2>1, <2>2, <2>3 DEF LocalInv, PassInv, Continue
<1>2. CASE After(w, step) # "done"
  <2>1. pc' = [pc EXCEPT ![w] = After(w, step)] /\ UNCHANGED <<todo, last>>
    BY <1>2 DEF Proceed
  <2>2. After(w, step) \in Labels /\ (After(w, step) = "burn" => Position[At(w)] = "start")
    BY <1>2 DEF After, Labels
  <2>3. PassInv'
    BY <1>0, <2>1, <2>2, NextStepKeeps
  <2>. QED
    BY <1>0, <1>2, <2>1, <2>3 DEF LocalInv, PassInv
<1>. QED
  BY <1>1, <1>2
-----------------------------------------------------------------------------
(* Types.  The types of the tables, and where the processes are. *)

Tables ==
    /\ head \in Blocks
    /\ coldkey \in HotkeyTable /\ uid \in NeuronTable
    /\ subnet \in SubnetRows
    /\ blocks \subseteq Numbers
    /\ dump \in DumpTable /\ snap \in SnapshotTable
    /\ weights \in WeightTable
    /\ burn \in BurnTable /\ emission \subseteq Numbers
    /\ lean \in BOOLEAN
    /\ interrupted \subseteq Workers

Typed == Tables /\ LocalInv

LEMMA TypedIsTypeOK == Typed => TypeOK
  BY DEF Typed, Tables, LocalInv, PassInv, Labels, TypeOK

\* A scan begins a pass with blocks of the chain.
LEMMA ScanLocal ==
    ASSUME Typed, NEW w \in Workers, Scan(w)
    PROVE  LocalInv'
<1>0. PassInv
  BY DEF Typed, LocalInv
<1>1. ASSUME NEW range, Begin(w, range), Pass(w, range) PROVE LocalInv'
  <2>1. PassInv'
    BY <1>0, <1>1, ContinueKeeps DEF Begin
  <2>. QED
    BY <1>1, <2>1 DEF Typed, LocalInv, Begin
<1>2. CASE w = "live" /\ PollHead
  <2> DEFINE from == IF last = 0 THEN head ELSE last + 1
             range == {b \in from..head : Dumpable(b) \/ Anchor[b] = b}
  <2>1. CASE Begin("live", range)
    <3>1. from \in Nat /\ from >= 1 /\ head \in Nat /\ head <= LastBlock
      BY MetagraphAssumption DEF Typed, Tables, LocalInv, Blocks
    <3>2. range \subseteq Blocks
      BY <3>1, MetagraphAssumption DEF Blocks
    <3>. QED
      BY <1>1, <1>2, <2>1, <3>2 DEF Pass
  <2>2. CASE /\ last' = head
             /\ UNCHANGED <<head, tables, derived, pc, todo, read, lean, interrupted>>
    BY <2>2, MetagraphAssumption DEF Typed, Tables, LocalInv, PassInv, At, Blocks
  <2>. QED
    BY <1>2, <2>1, <2>2 DEF PollHead
<1>3. CASE w = "gaps" /\ ScanGaps
  BY <1>1, <1>3 DEF ScanGaps, Missing, Pass
<1>4. CASE w = "history" /\ \E force \in BOOLEAN : ScanHistory(force)
  BY <1>1, <1>4 DEF ScanHistory, Pass, Starts
<1>5. CASE w = "burns" /\ ScanBurns
  BY <1>1, <1>5 DEF ScanBurns, Pass, Starts
<1>. QED
  BY <1>2, <1>3, <1>4, <1>5 DEF Scan

LEMMA FetchLocal ==
    ASSUME Typed, NEW w \in Workers, NEW partial \in BOOLEAN, Fetch(w, partial)
    PROVE  LocalInv'
<1>1. PassInv'
  BY NextStepKeeps DEF Fetch, Typed, LocalInv, Labels
<1>. QED
  BY <1>1 DEF Fetch, Typed, Tables, LocalInv, ReadRows

LEMMA StepLocal ==
    ASSUME Typed, NEW w \in Workers, Step(w)
    PROVE  LocalInv'
<1>0. LocalInv
  BY DEF Typed
<1>1. CASE FetchNothing(w)
  BY <1>0, <1>1, ProceedKeeps DEF FetchNothing
<1>2. CASE CommitSync(w)
  BY <1>0, <1>2, ProceedKeeps DEF CommitSync
<1>3. ASSUME NEW recovered, SyncBurn(w, recovered) PROVE LocalInv'
  BY <1>0, <1>3, ProceedKeeps DEF SyncBurn
<1>4. ASSUME NEW readable, NEW recovered, SyncEmissions(w, readable, recovered) PROVE LocalInv'
  BY <1>0, <1>4, ProceedKeeps DEF SyncEmissions
<1>. QED
  BY <1>1, <1>2, <1>3, <1>4, FetchLocal DEF Step

\* A failed or killed process goes on with another block, or with none.
LEMMA GiveUpLocal ==
    ASSUME Typed, NEW w \in Workers, Fail(w) \/ Restart(w)
    PROVE  LocalInv'
<1>0. LocalInv /\ PassInv /\ pc[w] # "off"
  BY DEF Typed, LocalInv, Fail, Restart
<1>1. PICK range : Pass(w, range) /\ Continue(w, range)
  BY <1>0, RestIsPass DEF Fail, Restart
<1>2. PassInv'
  BY <1>0, <1>1, ContinueKeeps
<1>3. last' \in 0..LastBlock
  BY <1>0, AtBlock, MetagraphAssumption DEF LocalInv, Fail, Restart, Blocks
<1>4. read' \in [Workers -> ReadRows]
  BY <1>0, UnreadKeeps DEF Fail, Restart
<1>. QED
  BY <1>2, <1>3, <1>4 DEF LocalInv

LEMMA CommitTables ==
    ASSUME Typed, NEW w \in Workers, CommitSync(w)
    PROVE  Tables'
<1> DEFINE b == At(w)
<1>0. b \in Blocks /\ b \in Numbers /\ Owner[b] \in Hotkeys \cup {None}
  BY AtBlock, MetagraphAssumption DEF Typed, LocalInv, CommitSync, Blocks, Numbers
<1>1. Filled(w) \in SubnetRows
  <2>1. Fetched(w) \in SubnetRows /\ read[w].lean \in BOOLEAN
    BY DEF Fetched, Typed, Tables, LocalInv, ReadRows
  <2>2. TempoAt[b] \in Nat
    BY <1>0, MetagraphAssumption
  <2>. QED
    BY <1>0, <2>1, <2>2 DEF Filled, SubnetRows
<1>2. subnet' \in SubnetRows
  BY <1>1 DEF CommitSync, SavedRow, Typed, Tables
<1>3. dump' \in DumpTable
  BY <1>0, <1>1 DEF CommitSync, DumpOf, DumpTable, SubnetRows, Typed, Tables
<1>4. coldkey' \in HotkeyTable
  BY <1>0, MetagraphAssumption DEF CommitSync, SavedKeys, HotkeyTable, Typed, Tables
<1>5. uid' \in NeuronTable
  <2>1. \A h \in Hotkeys : UidAt[b][h] \in ChainUids
    BY <1>0 DEF ChainUids
  <2>2. uid' = [h \in Hotkeys |-> IF h \in Registered(b) THEN UidAt[b][h] ELSE uid[h]]
    BY DEF CommitSync, SavedNeurons
  <2>. QED
    BY <2>1, <2>2 DEF NeuronTable, Typed, Tables
<1>6. snap' \in SnapshotTable
  BY <1>0 DEF CommitSync, SavedSnapshots, Registered, SnapshotTable, Typed, Tables
<1>7. weights' \in WeightTable
  <2>1. Linked(b) \subseteq Hotkeys \X Hotkeys
    BY DEF Linked, NeuronOf, Registered
  <2>. QED
    BY <1>0, <2>1 DEF CommitSync, WeightTable, Typed, Tables
<1>8. blocks' \subseteq Numbers /\ lean' \in BOOLEAN /\ interrupted' \subseteq Workers
  BY <1>0 DEF CommitSync, Busy, Typed, Tables, LocalInv, ReadRows
<1>. QED
  BY <1>2, <1>3, <1>4, <1>5, <1>6, <1>7, <1>8 DEF CommitSync, derived, Typed, Tables

LEMMA BurnTables ==
    ASSUME Typed, NEW w \in Workers, NEW recovered, SyncBurn(w, recovered)
    PROVE  Tables'
<1> DEFINE b == At(w)
<1>0. b \in Blocks /\ (Anchor[b] # None => Anchor[b] \in Numbers)
  BY AtBlock, MetagraphAssumption DEF Typed, LocalInv, SyncBurn
<1>1. BurnShares(b) \subseteq Hotkeys
  BY <1>0 DEF BurnShares, Typed, Tables, SnapshotTable
<1>2. CASE ~NoBurnFor(b) /\ AnchorRow(Anchor[b], recovered)
  <2> DEFINE alone == w # "burns" /\ w \notin interrupted
  <2>1. [src |-> b, shares |-> BurnShares(b), alone |-> alone]
          \in [src : Blocks \cup {0}, shares : SUBSET Hotkeys, alone : BOOLEAN]
    BY <1>0, <1>1
  <2>2. burn' = burn \/ burn' = [burn EXCEPT ![Anchor[b]] =
                                   [src |-> b, shares |-> BurnShares(b), alone |-> alone]]
    BY DEF SyncBurn
  <2>3. burn' \in BurnTable
    BY <2>1, <2>2 DEF BurnTable, Typed, Tables
  <2>4. blocks' \subseteq Numbers
    BY <1>0, <1>2 DEF SyncBurn, AnchorRow, Typed, Tables
  <2>. QED
    BY <2>3, <2>4 DEF SyncBurn, Typed, Tables
<1>3. CASE ~(~NoBurnFor(b) /\ AnchorRow(Anchor[b], recovered))
  BY <1>3 DEF SyncBurn, Typed, Tables
<1>. QED
  BY <1>2, <1>3

LEMMA EmissionTables ==
    ASSUME Typed, NEW w \in Workers, NEW readable, NEW recovered,
           SyncEmissions(w, readable, recovered)
    PROVE  Tables'
<1>0. At(w) \in Numbers
  BY AtBlock DEF Typed, LocalInv, SyncEmissions, Blocks, Numbers
<1>1. Placeholder \in SubnetRows
  BY DEF Placeholder, NoSubnet, SubnetRows
<1>. QED
  BY <1>0, <1>1 DEF SyncEmissions, AnchorRow, Typed, Tables

LEMMA TypedStep == Typed /\ [Next]_vars => Typed'
<1>. SUFFICES ASSUME Typed, [Next]_vars PROVE Typed'
  OBVIOUS
<1>1. ASSUME NEW w \in Workers, Scan(w) PROVE Typed'
  <2>1. UNCHANGED <<head, tables, derived, lean, interrupted>>
    BY <1>1 DEF Scan, PollHead, ScanGaps, ScanHistory, ScanBurns, Begin
  <2>. QED
    BY <1>1, <2>1, ScanLocal DEF Typed, Tables, tables, derived
<1>2. ASSUME NEW w \in Workers, Step(w) PROVE Typed'
  <2>1. CASE FetchNothing(w)
    BY <2>1, <1>2, StepLocal DEF FetchNothing, Typed, Tables, tables, derived
  <2>2. ASSUME NEW partial \in BOOLEAN, Fetch(w, partial) PROVE Typed'
    BY <2>2, <1>2, StepLocal DEF Fetch, Typed, Tables, tables, derived
  <2>. QED
    BY <1>2, <2>1, <2>2, StepLocal, CommitTables, BurnTables, EmissionTables DEF Step, Typed
<1>3. ASSUME NEW w \in Workers, Fail(w) \/ Restart(w) PROVE Typed'
  BY <1>3, GiveUpLocal DEF Fail, Restart, Typed, Tables, tables, derived
<1>4. CASE GrowChain
  BY <1>4, MetagraphAssumption DEF GrowChain, Typed, Tables, LocalInv, PassInv, At, tables, derived, local, Blocks
<1>5. ASSUME NEW b \in Blocks, Prune(b) PROVE Typed'
  BY <1>5 DEF Prune, Typed, Tables, LocalInv, PassInv, At, derived, local, SnapshotTable, Busy
<1>6. CASE UNCHANGED vars
  BY <1>6 DEF vars, tables, derived, local, Typed, Tables, LocalInv, PassInv, At
<1>. QED
  BY <1>1, <1>2, <1>3, <1>4, <1>5, <1>6 DEF Next

LEMMA TypedInit == Init => Typed
<1>. SUFFICES ASSUME Init PROVE Typed
  OBVIOUS
<1>1. head \in Blocks /\ 0 \in 0..LastBlock
  BY MetagraphAssumption DEF Init, Blocks
<1>2. subnet \in SubnetRows
  <2>1. NoSubnet \in SubnetRows
    BY DEF NoSubnet, SubnetRows
  <2>2. Earlier \subseteq SubnetRows
    BY MetagraphAssumption DEF SubnetRows
  <2>. QED
    BY <2>1, <2>2 DEF Init
<1>3. uid \in NeuronTable /\ coldkey \in HotkeyTable /\ burn \in BurnTable
  <2>1. NoBurn \in [src : Blocks \cup {0}, shares : SUBSET Hotkeys, alone : BOOLEAN]
    BY DEF NoBurn
  <2>2. uid \in NeuronTable
    BY DEF Init, NeuronTable
  <2>3. coldkey \in HotkeyTable
    BY DEF Init, HotkeyTable
  <2>4. burn \in BurnTable
    BY <2>1 DEF Init, BurnTable
  <2>. QED
    BY <2>2, <2>3, <2>4
<1>4. dump \in DumpTable /\ snap \in SnapshotTable /\ weights \in WeightTable
  BY DEF Init, DumpTable, SnapshotTable, WeightTable, NoDump
<1>5. PassInv
  BY DEF Init, PassInv, Labels
<1>6. read \in [Workers -> ReadRows]
  BY DEF Init, ReadRows, NothingRead, NoSubnet, SubnetRows, HotkeyTable
<1>. QED
  BY <1>1, <1>2, <1>3, <1>4, <1>5, <1>6 DEF Init, Typed, Tables, LocalInv

LEMMA AlwaysTyped == Spec => []Typed
  BY TypedInit, TypedStep, PTL DEF Spec

\* The tables have the right types in every reachable state, whatever the processes are at.
THEOREM TypeCorrect == Spec => []TypeOK
  BY AlwaysTyped, TypedIsTypeOK, PTL
-----------------------------------------------------------------------------
(* What the tables hold. *)

SnapInv == \A b \in Blocks : snap[b] \subseteq Registered(b)

Content == SnapInv /\ DumpIsOfItsBlock /\ WeightsLinkRight /\ RowOfOneBlock

\* Weights are linked by the uids of their own metagraph.
LEMMA LinkedRight ==
    ASSUME NEW b \in Blocks, NEW p \in Linked(b)
    PROVE  /\ p[1] \in Registered(b) /\ p[2] \in Registered(b)
           /\ <<UidAt[b][p[1]], UidAt[b][p[2]]>> \in WeightsAt[b]
<1>1. PICK q \in WeightsAt[b] : p \in NeuronOf(b, q[1]) \X NeuronOf(b, q[2])
  BY DEF Linked
<1>2. q \in Int \X Int
  BY MetagraphAssumption
<1>3. UidAt[b][p[1]] = q[1] /\ UidAt[b][p[2]] = q[2]
  BY <1>1 DEF NeuronOf
<1>. QED
  BY <1>1, <1>2, <1>3 DEF NeuronOf

\* A dump of a complete metagraph has the owner and the tempo of its block.
LEMMA FilledRight ==
    ASSUME Typed, NEW w \in Workers, CommitSync(w)
    PROVE  /\ Filled(w).stored /\ (read[w].lean \/ DumpOf(w) # NoDump)
           /\ Owner[At(w)] # None => Filled(w).owner = Owner[At(w)]
           /\ ~read[w].lean => Filled(w).tempo = TempoAt[At(w)] /\ Filled(w).registered
<1>1. At(w) \in Blocks
  BY AtBlock DEF Typed, LocalInv, CommitSync
<1>2. TempoAt[At(w)] # 0
  BY <1>1, MetagraphAssumption
<1>. QED
  BY <1>2 DEF Filled, DumpOf, NoDump

LEMMA CommitContent ==
    ASSUME Typed, Content, NEW w \in Workers, CommitSync(w)
    PROVE  Content'
<1> DEFINE b == At(w)
<1>0. b \in Blocks
  BY AtBlock DEF Typed, LocalInv, CommitSync
<1>1. /\ dump' = [dump EXCEPT ![b] = DumpOf(w)]
      /\ snap' = [snap EXCEPT ![b] = @ \cup Registered(b)]
      /\ lean' = (lean \/ read[w].lean)
      /\ subnet' = SavedRow(w)
  BY DEF CommitSync, SavedSnapshots
<1>2. snap'[b] = Registered(b) /\ \A c \in Blocks \ {b} : snap'[c] = snap[c]
  BY <1>0, <1>1 DEF Content, SnapInv, Typed, Tables, SnapshotTable
<1>3. SnapInv'
  BY <1>2 DEF Content, SnapInv, Registered
<1>4. dump'[b] = DumpOf(w) /\ \A c \in Blocks \ {b} : dump'[c] = dump[c]
  BY <1>0, <1>1 DEF Typed, Tables, DumpTable
<1>5. lean \in BOOLEAN /\ read[w].lean \in BOOLEAN
  BY DEF Typed, Tables, LocalInv, ReadRows
<1>6. DumpIsOfItsBlock'
  <2>. SUFFICES ASSUME NEW c \in Blocks, Dumped(c)'
                PROVE  /\ Owner[c] # None => dump'[c].owner = Owner[c]
                       /\ ~lean' => dump'[c].tempo = TempoAt[c]
                       /\ snap'[c] \subseteq Registered(c)
                       /\ Validators \cap Registered(c) \subseteq snap'[c]
    BY DEF DumpIsOfItsBlock, Registered
  <2>1. CASE c = b
    BY <1>1, <1>2, <1>4, <1>5, <2>1, FilledRight DEF DumpOf
  <2>2. CASE c # b
    BY <1>1, <1>2, <1>4, <1>5, <2>2 DEF Content, DumpIsOfItsBlock, Dumped
  <2>. QED
    BY <2>1, <2>2
<1>7. WeightsLinkRight'
  <2>. SUFFICES ASSUME NEW c \in Blocks, NEW p \in weights'[c]
                PROVE  /\ p[1] \in Registered(c) /\ p[2] \in Registered(c)
                       /\ <<UidAt[c][p[1]], UidAt[c][p[2]]>> \in WeightsAt[c]
    BY DEF WeightsLinkRight, Registered
  <2>1. p \in weights[c] \/ (c = b /\ p \in Linked(b))
    BY <1>0 DEF CommitSync, Typed, Tables, WeightTable
  <2>. QED
    BY <2>1, LinkedRight DEF Content, WeightsLinkRight
<1>8. RowOfOneBlock'
  <2>. SUFFICES ASSUME ~lean', subnet'.stored
                PROVE  \/ subnet' \in {Placeholder} \cup Earlier
                       \/ subnet'.registered /\ \E c \in Blocks :
                             /\ Dumped(c)' /\ subnet'.tempo = TempoAt[c]
                             /\ Owner[c] # None => subnet'.owner = Owner[c]
    BY DEF RowOfOneBlock
  <2>1. ~lean /\ ~read[w].lean /\ dump'[b] # NoDump
    BY <1>1, <1>4, <1>5, FilledRight
  <2>2. CASE subnet' = Filled(w)
    BY <1>0, <2>1, <2>2, FilledRight DEF Dumped
  <2>3. CASE subnet' = subnet
    <3>1. \A c \in Blocks : Dumped(c) => Dumped(c)'
      BY <1>4, <2>1 DEF Dumped, NoDump
    <3>. QED
      BY <2>1, <2>3, <3>1 DEF Content, RowOfOneBlock
  <2>. QED
    BY <1>1, <2>2, <2>3 DEF SavedRow
<1>. QED
  BY <1>3, <1>6, <1>7, <1>8 DEF Content

\* Steps that leave these tables alone.
LEMMA ContentUntouched ==
    ASSUME Content, UNCHANGED <<subnet, dump, snap, weights, lean>>
    PROVE  Content'
  BY DEF Content, SnapInv, DumpIsOfItsBlock, WeightsLinkRight, RowOfOneBlock, Dumped, Registered

LEMMA ContentStep == Typed /\ Content /\ [Next]_vars => Content'
<1>. SUFFICES ASSUME Typed, Content, [Next]_vars PROVE Content'
  OBVIOUS
<1>1. ASSUME NEW w \in Workers, Scan(w) PROVE Content'
  BY <1>1, ContentUntouched DEF Scan, PollHead, ScanGaps, ScanHistory, ScanBurns, Begin, tables
<1>2. ASSUME NEW w \in Workers, Step(w) PROVE Content'
  <2>1. ASSUME NEW readable, NEW recovered, SyncEmissions(w, readable, recovered) PROVE Content'
    <3>1. subnet' = subnet \/ subnet' = Placeholder
      BY <2>1 DEF SyncEmissions
    <3>2. UNCHANGED <<dump, snap, weights, lean>>
      BY <2>1 DEF SyncEmissions
    <3>3. RowOfOneBlock'
      BY <3>1, <3>2 DEF Content, RowOfOneBlock, Dumped
    <3>. QED
      BY <3>2, <3>3 DEF Content, SnapInv, DumpIsOfItsBlock, WeightsLinkRight, Dumped, Registered
  <2>2. CASE FetchNothing(w) \/ \E partial \in BOOLEAN : Fetch(w, partial)
    BY <2>2, ContentUntouched DEF FetchNothing, Fetch, tables
  <2>3. ASSUME NEW recovered, SyncBurn(w, recovered) PROVE Content'
    BY <2>3, ContentUntouched DEF SyncBurn
  <2>. QED
    BY <1>2, <2>1, <2>2, <2>3, CommitContent DEF Step
<1>3. ASSUME NEW w \in Workers, Fail(w) \/ Restart(w) PROVE Content'
  BY <1>3, ContentUntouched DEF Fail, Restart, tables
<1>4. CASE GrowChain \/ UNCHANGED vars
  BY <1>4, ContentUntouched DEF GrowChain, vars, tables
<1>5. ASSUME NEW b \in Blocks, Prune(b) PROVE Content'
  <2>1. /\ UNCHANGED <<subnet, dump, weights, lean>>
        /\ \A c \in Blocks : snap'[c] \subseteq snap[c] /\ Validators \cap snap[c] \subseteq snap'[c]
    BY <1>5 DEF Prune, Typed, Tables, SnapshotTable
  <2>. QED
    BY <2>1 DEF Content, SnapInv, DumpIsOfItsBlock, WeightsLinkRight, RowOfOneBlock, Dumped, Registered
<1>. QED
  BY <1>1, <1>2, <1>3, <1>4, <1>5 DEF Next

LEMMA ContentInit == Init => Content
  BY DEF Init, Content, SnapInv, DumpIsOfItsBlock, WeightsLinkRight, RowOfOneBlock, Dumped,
         NoSubnet

LEMMA AlwaysContent == Spec => []Content
  BY ContentInit, ContentStep, AlwaysTyped, PTL DEF Spec

\* Dumps are those of their blocks, for any chain and any processes.
THEOREM DumpsRight == Spec => []DumpIsOfItsBlock
<1>1. Content => DumpIsOfItsBlock
  BY DEF Content
<1>. QED
  BY <1>1, AlwaysContent, PTL

\* Weights connect the hotkeys that had the uids at their block.
THEOREM WeightsRight == Spec => []WeightsLinkRight
<1>1. Content => WeightsLinkRight
  BY DEF Content
<1>. QED
  BY <1>1, AlwaysContent, PTL

\* The subnet row holds the values of one block, however syncs overlap.
THEOREM RowRight == Spec => []RowOfOneBlock
<1>1. Content => RowOfOneBlock
  BY DEF Content
<1>. QED
  BY <1>1, AlwaysContent, PTL
-----------------------------------------------------------------------------
(* Burns.  A process that no commit has come in between has read the coldkeys that are   *)
(* there, and, when it has stored its dump, finds those and the snapshots of its block.  *)

KeysRead == \A w \in Workers : pc[w] = "commit" /\ w \notin interrupted => read[w].keys = coldkey

Fresh ==
    \A w \in Workers : w # "burns" /\ pc[w] = "burn" /\ w \notin interrupted =>
        /\ \A h \in Seen(At(w)) : coldkey[h] = ColdkeyAt[At(w)][h]
        /\ snap[At(w)] = Registered(At(w))

Alone == KeysRead /\ Fresh

\* A step of w to another block, or past its writes, while the others stay where they are.
Moved(w) ==
    /\ pc'[w] # "commit" /\ (pc'[w] = "burn" => w = "burns")
    /\ \A v \in Workers \ {w} : pc'[v] = pc[v] /\ todo'[v] = todo[v] /\ read'[v] = read[v]
    /\ interrupted \ {w} \subseteq interrupted'

LEMMA MovedKeeps ==
    ASSUME Alone, NEW w \in Workers, Moved(w), UNCHANGED <<coldkey, snap>>
    PROVE  Alone'
<1>1. KeysRead'
  BY DEF Alone, KeysRead, Moved
<1>2. Fresh'
  BY DEF Alone, Fresh, Moved, At, Seen, Registered
<1>. QED
  BY <1>1, <1>2 DEF Alone

LEMMA ContinueMoves ==
    ASSUME Typed, NEW w \in Workers, NEW range, Continue(w, range),
           read' = read \/ read' = [read EXCEPT ![w] = NothingRead],
           interrupted' = interrupted \/ interrupted' = interrupted \ {w}
    PROVE  Moved(w)
  BY EntryLabel DEF Typed, LocalInv, PassInv, Continue, Moved

LEMMA ProceedMoves ==
    ASSUME Typed, NEW w \in Workers, pc[w] # "off", NEW step, Proceed(w, step), step # "commit",
           interrupted' = interrupted \/ interrupted' = interrupted \ {w}
    PROVE  Moved(w)
<1>1. \/ pc'[w] = Entry(w, todo[w] \ {At(w)})
      \/ pc'[w] = After(w, step) /\ After(w, step) # "done"
  BY ProceedKeeps DEF Typed
<1>2. pc'[w] # "commit" /\ (pc'[w] = "burn" => w = "burns")
  BY <1>1, EntryLabel DEF After
<1>3. \A v \in Workers \ {w} : pc'[v] = pc[v] /\ todo'[v] = todo[v]
  BY ProceedKeeps DEF Typed
<1>4. \A v \in Workers \ {w} : read'[v] = read[v]
  BY DEF Proceed, Typed, LocalInv
<1>. QED
  BY <1>2, <1>3, <1>4 DEF Moved

\* A commit interrupts all others; the process itself leaves the coldkeys of its block.
LEMMA CommitAlone ==
    ASSUME Typed, Content, Alone, NEW w \in Workers, CommitSync(w)
    PROVE  Alone'
<1> DEFINE b == At(w)
<1>0. b \in Blocks /\ pc[w] = "commit" /\ Proceed(w, "commit")
  BY AtBlock DEF Typed, LocalInv, CommitSync
<1>1. /\ \/ pc'[w] = Entry(w, todo[w] \ {b})
         \/ todo' = todo /\ pc'[w] = After(w, "commit") /\ After(w, "commit") # "done"
      /\ \A v \in Workers \ {w} : pc'[v] = pc[v] /\ todo'[v] = todo[v]
  BY <1>0, ProceedKeeps DEF Typed
<1>2. \A v \in Workers \ {w} : pc[v] \in {"commit", "burn"} => v \in interrupted'
  BY DEF CommitSync, Busy
<1>3. pc'[w] # "commit"
  BY <1>1, EntryLabel DEF After
<1>4. KeysRead'
  BY <1>1, <1>2, <1>3 DEF KeysRead
<1>5. ASSUME w # "burns", pc'[w] = "burn", w \notin interrupted'
      PROVE  /\ todo'[w] = todo[w]
             /\ \A h \in Seen(b) : coldkey'[h] = ColdkeyAt[b][h]
             /\ snap'[b] = Registered(b)
  <2>1. todo' = todo /\ After(w, "commit") = "burn"
    BY <1>1, <1>5, EntryLabel
  <2>2. w \notin interrupted
    BY <1>5, <2>1 DEF After, CommitSync
  <2>3. read[w].keys = coldkey
    BY <1>0, <2>2 DEF Alone, KeysRead
  <2>4. Seen(b) \subseteq Hotkeys
    BY <1>0, MetagraphAssumption DEF Seen, Registered
  <2>5. \A h \in Seen(b) : coldkey'[h] = ColdkeyAt[b][h]
    BY <2>3, <2>4 DEF CommitSync, SavedKeys
  <2>6. snap'[b] = Registered(b)
    BY <1>0 DEF CommitSync, SavedSnapshots, Content, SnapInv, Typed, Tables, SnapshotTable
  <2>. QED
    BY <2>1, <2>5, <2>6
<1>6. Fresh'
  <2>. SUFFICES ASSUME NEW v \in Workers, v # "burns", pc'[v] = "burn", v \notin interrupted'
                PROVE  /\ \A h \in Seen(Smallest(todo'[v])) :
                             coldkey'[h] = ColdkeyAt[Smallest(todo'[v])][h]
                       /\ snap'[Smallest(todo'[v])] = Registered(Smallest(todo'[v]))
    BY DEF Fresh, At, Seen, Registered
  <2>1. v = w
    BY <1>1, <1>2
  <2>. QED
    BY <1>5, <2>1 DEF At
<1>. QED
  BY <1>4, <1>6 DEF Alone

LEMMA AloneStep == Typed /\ Content /\ Alone /\ [Next]_vars => Alone'
<1>. SUFFICES ASSUME Typed, Content, Alone, [Next]_vars PROVE Alone'
  OBVIOUS
<1>1. ASSUME NEW w \in Workers, Scan(w) PROVE Alone'
  <2>1. ASSUME NEW range, Begin(w, range) PROVE Alone'
    BY <2>1, ContinueMoves, MovedKeeps DEF Begin, tables
  <2>2. CASE UNCHANGED <<tables, pc, todo, read, interrupted>>
    BY <2>2 DEF Alone, KeysRead, Fresh, At, Seen, Registered, tables
  <2>. QED
    BY <1>1, <2>1, <2>2 DEF Scan, PollHead, ScanGaps, ScanHistory, ScanBurns
<1>2. ASSUME NEW w \in Workers, Step(w) PROVE Alone'
  <2>1. CASE FetchNothing(w)
    BY <2>1, ProceedMoves, MovedKeeps DEF FetchNothing, tables
  <2>2. ASSUME NEW partial \in BOOLEAN, Fetch(w, partial) PROVE Alone'
    <3>1. /\ read' = [read EXCEPT ![w] = [row |-> subnet, keys |-> coldkey, lean |-> partial]]
          /\ pc' = [pc EXCEPT ![w] = "commit"]
          /\ UNCHANGED <<coldkey, snap, todo, interrupted>>
      BY <2>2 DEF Fetch, tables
    <3>2. KeysRead'
      BY <3>1 DEF Typed, LocalInv, PassInv, Alone, KeysRead
    <3>3. Fresh'
      BY <3>1 DEF Typed, LocalInv, PassInv, Alone, Fresh, At, Seen, Registered
    <3>. QED
      BY <3>2, <3>3 DEF Alone
  <2>3. ASSUME NEW recovered, SyncBurn(w, recovered) PROVE Alone'
    BY <2>3, ProceedMoves, MovedKeeps DEF SyncBurn
  <2>4. ASSUME NEW readable, NEW recovered, SyncEmissions(w, readable, recovered) PROVE Alone'
    BY <2>4, ProceedMoves, MovedKeeps DEF SyncEmissions
  <2>. QED
    BY <1>2, <2>1, <2>2, <2>3, <2>4, CommitAlone DEF Step
<1>3. ASSUME NEW w \in Workers, Fail(w) \/ Restart(w) PROVE Alone'
  BY <1>3, ContinueMoves, MovedKeeps DEF Fail, Restart, tables
<1>4. CASE GrowChain \/ UNCHANGED vars
  <2>1. UNCHANGED <<coldkey, snap, pc, todo, read, interrupted>>
    BY <1>4 DEF GrowChain, vars, tables, local
  <2>. QED
    BY <2>1 DEF Alone, KeysRead, Fresh, At, Seen, Registered
<1>5. ASSUME NEW b \in Blocks, Prune(b) PROVE Alone'
  <2>1. \A v \in Workers : pc'[v] \in {"commit", "burn"} => v \in interrupted'
    BY <1>5, MetagraphAssumption DEF Prune, Busy, local
  <2>. QED
    BY <2>1 DEF Alone, KeysRead, Fresh
<1>. QED
  BY <1>1, <1>2, <1>3, <1>4, <1>5 DEF Next

\* A burn is computed from the dump and the snapshots of its own block.
LEMMA BurnStep == Typed /\ Content /\ Alone /\ BurnRightWhenAlone /\ [Next]_vars
                    => BurnRightWhenAlone'
<1>. SUFFICES ASSUME Typed, Content, Alone, BurnRightWhenAlone, [Next]_vars
              PROVE  BurnRightWhenAlone'
  OBVIOUS
<1>1. CASE burn' = burn
  BY <1>1 DEF BurnRightWhenAlone, Registered
<1>2. ASSUME NEW w \in Workers, NEW recovered, SyncBurn(w, recovered), ~NoBurnFor(At(w)),
             burn' = [burn EXCEPT ![Anchor[At(w)]] =
                        [src |-> At(w), shares |-> BurnShares(At(w)),
                         alone |-> w # "burns" /\ w \notin interrupted]]
      PROVE  BurnRightWhenAlone'
  <2> DEFINE b == At(w)
  <2>0. b \in Blocks /\ pc[w] = "burn" /\ Position[b] = "start"
    BY <1>2, AtBlock DEF Typed, LocalInv, PassInv, SyncBurn
  <2>1. Anchor[b] \in Numbers /\ Dumped(b)
    BY <1>2, <2>0, MetagraphAssumption DEF NoBurnFor
  <2>2. ASSUME Owner[b] # None, w # "burns", w \notin interrupted
        PROVE  BurnShares(b) = {h \in Registered(b) : ColdkeyAt[b][h] = ColdkeyAt[b][Owner[b]]}
    <3>1. dump[b].owner = Owner[b]
      BY <2>0, <2>1, <2>2 DEF Content, DumpIsOfItsBlock
    <3>2. snap[b] = Registered(b) /\ \A h \in Seen(b) : coldkey[h] = ColdkeyAt[b][h]
      BY <2>0, <2>2 DEF Alone, Fresh
    <3>. QED
      BY <2>2, <3>1, <3>2 DEF BurnShares, Seen
  <2>. SUFFICES ASSUME NEW m \in Numbers, burn'[m] # NoBurn
                PROVE  /\ Anchor[burn'[m].src] = m /\ Position[burn'[m].src] = "start"
                       /\ Owner[burn'[m].src] # None /\ burn'[m].alone =>
                            burn'[m].shares = {h \in Registered(burn'[m].src) :
                                ColdkeyAt[burn'[m].src][h] = ColdkeyAt[burn'[m].src][Owner[burn'[m].src]]}
    BY DEF BurnRightWhenAlone, Registered
  <2>3. CASE m = Anchor[b]
    <3>1. burn'[m] = [src |-> b, shares |-> BurnShares(b),
                      alone |-> w # "burns" /\ w \notin interrupted]
      BY <1>2, <2>1, <2>3 DEF Typed, Tables, BurnTable
    <3>2. burn'[m].src = b /\ burn'[m].shares = BurnShares(b)
      BY <3>1
    <3>3. burn'[m].alone => w # "burns" /\ w \notin interrupted
      <4>1. burn'[m].alone = (w # "burns" /\ w \notin interrupted)
        BY <3>1
      <4>. QED
        BY <4>1
    <3>. QED
      BY <2>0, <2>2, <2>3, <3>2, <3>3
  <2>4. CASE m # Anchor[b]
    <3>1. burn'[m] = burn[m]
      BY <1>2, <2>4 DEF Typed, Tables, BurnTable
    <3>. QED
      BY <3>1 DEF BurnRightWhenAlone
  <2>. QED
    BY <2>3, <2>4
<1>3. ASSUME NEW w \in Workers, NEW recovered, SyncBurn(w, recovered) PROVE BurnRightWhenAlone'
  BY <1>1, <1>2, <1>3 DEF SyncBurn
<1>4. ASSUME NEW w \in Workers, Scan(w) \/ Fail(w) \/ Restart(w) PROVE burn' = burn
  BY <1>4 DEF Scan, PollHead, ScanGaps, ScanHistory, ScanBurns, Begin, Fail, Restart, derived
<1>5. ASSUME NEW w \in Workers, Step(w) PROVE BurnRightWhenAlone'
  <2>1. CASE \/ FetchNothing(w) \/ CommitSync(w) \/ \E partial \in BOOLEAN : Fetch(w, partial)
             \/ \E readable, recovered \in BOOLEAN : SyncEmissions(w, readable, recovered)
    BY <1>1, <2>1 DEF FetchNothing, CommitSync, Fetch, SyncEmissions, derived
  <2>. QED
    BY <1>3, <1>5, <2>1 DEF Step
<1>6. CASE GrowChain \/ (\E b \in Blocks : Prune(b)) \/ UNCHANGED vars
  BY <1>1, <1>6 DEF GrowChain, Prune, vars, derived
<1>. QED
  BY <1>1, <1>4, <1>5, <1>6 DEF Next

LEMMA BurnInit == Init => Alone /\ BurnRightWhenAlone
  BY DEF Init, Alone, KeysRead, Fresh, BurnRightWhenAlone, NoBurn

\* A burn computed right after its dump, without a commit of another process in between,
\* counts exactly the neurons with the owner's coldkey at that block.
THEOREM BurnsRight == Spec => []BurnRightWhenAlone
<1>1. Spec => [](Alone /\ BurnRightWhenAlone)
  BY BurnInit, AloneStep, BurnStep, AlwaysTyped, AlwaysContent, PTL DEF Spec
<1>. QED
  BY <1>1, PTL
=============================================================================
