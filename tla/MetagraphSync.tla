---------------------------- MODULE MetagraphSync ----------------------------
(***************************************************************************)
(* Metagraph dumps, and the burn and emission rows derived from them.  The *)
(* sync_metagraph daemon ("live"), backfill_metagraph ("gaps"),            *)
(* historical_metagraph_backfill ("history") and backfill_burn_metrics     *)
(* ("burns") work on the same tables without a lock between them.  A sync  *)
(* reads rows, computes, and writes in one transaction; what another       *)
(* process commits in between is overwritten, or not, as the code's saves  *)
(* have it.  One subnet is modelled, next to the root subnet's meta epochs.*)
(* Row locks are held from a write to the commit, so that the order of     *)
(* commits is the order of writes; a deadlock is one of the failures.      *)
(***************************************************************************)
EXTENDS Integers, FiniteSets

CONSTANTS
    Workers,       \* those of the four processes that run
    Hotkeys, Coldkeys, Validators,
    LastBlock,     \* bound: the chain stops here
    MaxRunning,    \* bound: processes that run at the same time
    Position,      \* Position[b]: "start", "inside", "end", or "none" (not dumpable)
    Anchor,        \* Anchor[b]: first block of the root epoch of b, None before the first
    Owner,         \* the chain: Owner[b], the owner's hotkey, None if it reports none
    ColdkeyAt,     \* ColdkeyAt[b][h]
    UidAt,         \* UidAt[b][h], None if h is not registered at b
    WeightsAt,     \* WeightsAt[b]: pairs of uids
    TempoAt,       \* TempoAt[b]
    Earlier,       \* subnet rows that dumps before the first block may have left
    Lag, Lookback, \* 300 and --lookback
    Window,        \* DATA_RETENTION_DAYS, in blocks
    None

Blocks == 1..LastBlock
Numbers == 0..LastBlock       \* 0 stands for the anchor of the first blocks

ASSUME MetagraphAssumption ==
    /\ Workers \subseteq {"live", "gaps", "history", "burns"}
    /\ LastBlock \in Nat \ {0} /\ Lag \in Nat /\ Lookback \in Nat /\ Window \in Nat
    /\ MaxRunning \in Nat \ {0}
    /\ Validators \subseteq Hotkeys
    /\ Position \in [Blocks -> {"start", "inside", "end", "none"}]
    /\ Anchor \in [Blocks -> Numbers \cup {None}]
    /\ Owner \in [Blocks -> Hotkeys \cup {None}]
    /\ ColdkeyAt \in [Blocks -> [Hotkeys -> Coldkeys]]
    /\ WeightsAt \in [Blocks -> SUBSET (Int \X Int)]
    /\ TempoAt \in [Blocks -> Nat \ {0}]
    /\ Earlier \subseteq [stored : {TRUE}, owner : Hotkeys, tempo : Nat, registered : {TRUE}]
    /\ None \notin Hotkeys \cup Coldkeys \cup Numbers /\ None \notin Workers

VARIABLES
    head,          \* the chain's current block
    (* the database *)
    coldkey,       \* coldkey[h]: Hotkey rows, None: no such row
    uid,           \* uid[h]: Neuron rows of the subnet, None: no such row
    subnet,        \* the Subnet row
    blocks,        \* Block rows
    dump,          \* dump[b]: the MetagraphDump
    snap,          \* snap[b]: hotkeys with a NeuronSnapshot and its MechanismMetrics
    weights,       \* weights[b]: pairs of hotkeys
    burn,          \* burn[m]: the SubnetBurn of meta epoch m
    emission,      \* meta epochs with a SubnetEmission
    (* each process *)
    pc, todo,
    read,          \* the rows as the open transaction has read them
    last,          \* last_processed_block of the daemon
    (* what has been observed *)
    lean,          \* some metagraph came without its optional values
    interrupted    \* workers in the middle of a sync while something else was committed

tables == <<coldkey, uid, subnet, blocks, dump, snap, weights>>
derived == <<burn, emission>>
local == <<pc, todo, read, last>>
vars == <<head, tables, derived, local, lean, interrupted>>

NoSubnet == [stored |-> FALSE, owner |-> None, tempo |-> 0, registered |-> FALSE]
Placeholder == [NoSubnet EXCEPT !.stored = TRUE]
NoDump == [owner |-> None, tempo |-> 0]
NoBurn == [src |-> 0, shares |-> {}, alone |-> FALSE]
NothingRead == [row |-> NoSubnet, keys |-> [h \in Hotkeys |-> None], lean |-> FALSE]

Registered(b) == {h \in Hotkeys : UidAt[b][h] # None}
Seen(b) == Registered(b) \cup ({Owner[b]} \ {None})
Dumpable(b) == Position[b] # "none"
Starts == {b \in Blocks : Position[b] = "start"}
Dumped(b) == dump[b] # NoDump
Smallest(S) == CHOOSE x \in S : \A y \in S : x <= y

\* The tables.  Columns that no property tells apart are left out.
HotkeyTable == [Hotkeys -> Coldkeys \cup {None}]
ChainUids == UNION {{UidAt[b][h] : h \in Hotkeys} : b \in Blocks}
NeuronTable == [Hotkeys -> ChainUids \cup {None}]
SubnetRows == [stored : BOOLEAN, owner : Hotkeys \cup {None}, tempo : Nat, registered : BOOLEAN]
DumpTable == [Blocks -> [owner : Hotkeys \cup {None}, tempo : Nat]]
SnapshotTable == [Blocks -> SUBSET Hotkeys]
WeightTable == [Blocks -> SUBSET (Hotkeys \X Hotkeys)]
BurnTable == [Numbers -> [src : Blocks \cup {0}, shares : SUBSET Hotkeys, alone : BOOLEAN]]

TypeOK ==
    /\ head \in Blocks
    /\ coldkey \in HotkeyTable /\ uid \in NeuronTable
    /\ subnet \in SubnetRows
    /\ blocks \subseteq Numbers
    /\ dump \in DumpTable /\ snap \in SnapshotTable
    /\ weights \in WeightTable
    /\ burn \in BurnTable /\ emission \subseteq Numbers
    /\ pc \in [Workers -> {"off", "fetch", "commit", "burn", "emissions"}]
    /\ todo \in [Workers -> SUBSET Blocks]
    /\ last \in 0..LastBlock
    /\ lean \in BOOLEAN
    /\ interrupted \subseteq Workers

Init ==
    /\ head = 1
    /\ coldkey = [h \in Hotkeys |-> None]
    /\ uid = [h \in Hotkeys |-> None]
    /\ subnet \in {NoSubnet} \cup Earlier
    /\ blocks = {}
    /\ dump = [b \in Blocks |-> NoDump]
    /\ snap = [b \in Blocks |-> {}]
    /\ weights = [b \in Blocks |-> {}]
    /\ burn = [m \in Numbers |-> NoBurn]
    /\ emission = {}
    /\ pc = [w \in Workers |-> "off"]
    /\ todo = [w \in Workers |-> {}]
    /\ read = [w \in Workers |-> NothingRead]
    /\ last = 0
    /\ lean = FALSE
    /\ interrupted = {}

-----------------------------------------------------------------------------
(* How a process goes from block to block: todo[w] holds the blocks of its pass, the    *)
(* one it is at included.                                                              *)

At(w) == Smallest(todo[w])

\* Where w begins with the first of the blocks.
Entry(w, range) ==
    IF range = {} THEN "off"
    ELSE IF w = "burns" THEN "burn"
    ELSE IF Dumpable(Smallest(range)) THEN "fetch" ELSE "emissions"

\* The next step for the same block, if there is one.
After(w, step) ==
    IF step = "commit" /\ Position[At(w)] = "start" THEN "burn"
    ELSE IF w = "live" /\ step # "emissions" /\ Anchor[At(w)] = At(w) THEN "emissions"
    ELSE "done"

Continue(w, range) ==
    /\ todo' = [todo EXCEPT ![w] = range]
    /\ pc' = [pc EXCEPT ![w] = Entry(w, range)]

\* Leave the step, and the block when it was the last step for it.
Proceed(w, step) ==
    /\ read' = [read EXCEPT ![w] = NothingRead]
    /\ \/ /\ After(w, step) = "done"
          /\ Continue(w, todo[w] \ {At(w)})
          /\ last' = IF w = "live" THEN At(w) ELSE last
       \/ /\ After(w, step) # "done"
          /\ pc' = [pc EXCEPT ![w] = After(w, step)]
          /\ UNCHANGED <<todo, last>>

\* The workers, other than w, that are between their reads and their last write.
Busy(w) == {v \in Workers \ {w} : pc[v] \in {"commit", "burn"}}

Begin(w, range) ==
    /\ pc[w] = "off" /\ range # {}
    /\ Cardinality({v \in Workers : pc[v] # "off"}) < MaxRunning
    /\ Continue(w, range)
    /\ UNCHANGED <<head, tables, derived, read, last, lean, interrupted>>

\* The daemon polls; started afresh, it begins at the head.
PollHead ==
    LET from == IF last = 0 THEN head ELSE last + 1
        range == {b \in from..head : Dumpable(b) \/ Anchor[b] = b}
    IN  \/ Begin("live", range)
        \/ /\ pc["live"] = "off" /\ range = {} /\ last # head
           /\ last' = head
           /\ UNCHANGED <<head, tables, derived, pc, todo, read, lean, interrupted>>

\* Dumpable blocks of [head - 300 - lookback, head - 300] without a dump.
Missing == {b \in Blocks : /\ head - Lag - Lookback <= b /\ b <= head - Lag
                           /\ Dumpable(b) /\ ~Dumped(b)}

ScanGaps == Begin("gaps", Missing)

\* A pass of the historical backfill: epoch starts without a dump, or all of them.
ScanHistory(force) == Begin("history", {b \in Starts : b <= head /\ (force \/ ~Dumped(b))})

\* The burn backfill: epoch starts with snapshots.
ScanBurns == Begin("burns", {b \in Starts : snap[b] # {}})

\* An exception rolls the transaction back.  The daemon skips the block and polls
\* again, the backfills go on with the next one, the burn backfill ends.
Fail(w) ==
    /\ pc[w] # "off"
    /\ Continue(w, IF w \in {"live", "burns"} THEN {} ELSE todo[w] \ {At(w)})
    /\ last' = IF w = "live" THEN At(w) ELSE last
    /\ read' = [read EXCEPT ![w] = NothingRead]
    /\ interrupted' = interrupted \ {w}
    /\ UNCHANGED <<head, tables, derived, lean>>

\* Killed and started again: nothing of its progress is kept.
Restart(w) ==
    /\ pc[w] # "off"
    /\ Continue(w, {})
    /\ last' = IF w = "live" THEN 0 ELSE last
    /\ read' = [read EXCEPT ![w] = NothingRead]
    /\ interrupted' = interrupted \ {w}
    /\ UNCHANGED <<head, tables, derived, lean>>

-----------------------------------------------------------------------------
(* sync_metagraph_for_block *)

\* The chain has no metagraph of the subnet at this block.
FetchNothing(w) ==
    /\ pc[w] = "fetch"
    /\ Proceed(w, "fetch")
    /\ UNCHANGED <<head, tables, derived, lean, interrupted>>

\* The metagraph is there, with or without optional values; the transaction reads
\* the rows that it may have to change.
Fetch(w, partial) ==
    /\ pc[w] = "fetch"
    /\ read' = [read EXCEPT ![w] = [row |-> subnet, keys |-> coldkey, lean |-> partial]]
    /\ pc' = [pc EXCEPT ![w] = "commit"]
    /\ UNCHANGED <<head, tables, derived, todo, last, lean, interrupted>>

\* The Subnet object of the transaction: what get_or_create returned, which is the row
\* of another transaction when that has created it since, and the chain's values put in.
Fetched(w) == IF read[w].row.stored THEN read[w].row ELSE subnet

Filled(w) ==
    LET b == At(w)  row == Fetched(w) IN
    [stored |-> TRUE,
     owner |-> IF Owner[b] # None THEN Owner[b] ELSE row.owner,
     tempo |-> IF read[w].lean THEN row.tempo ELSE TempoAt[b],
     registered |-> row.registered \/ ~read[w].lean]

\* Faulty variant of SavedRow: only the fields that have changed are saved.
SavedFields(w) ==
    [f \in DOMAIN subnet |-> IF Filled(w)[f] # Fetched(w)[f] THEN Filled(w)[f] ELSE subnet[f]]

\* subnet.save() writes every column, those read before the other commits included.
SavedRow(w) == IF Filled(w) # Fetched(w) THEN Filled(w) ELSE subnet

\* Faulty variant of SavedKeys: the coldkey is only given to new hotkeys.
CreatedKeys(w) ==
    [h \in Hotkeys |-> IF h \in Seen(At(w)) /\ coldkey[h] = None
                       THEN ColdkeyAt[At(w)][h] ELSE coldkey[h]]

\* Hotkeys whose coldkey, as read, is not the chain's.
SavedKeys(w) ==
    [h \in Hotkeys |-> IF h \in Seen(At(w)) /\ read[w].keys[h] # ColdkeyAt[At(w)][h]
                       THEN ColdkeyAt[At(w)][h] ELSE coldkey[h]]

\* A Neuron row for every hotkey of the metagraph, with its uid there.
SavedNeurons(b) == [h \in Hotkeys |-> IF h \in Registered(b) THEN UidAt[b][h] ELSE uid[h]]

\* Its snapshot of the block with the metrics, written over one that is there.
SavedSnapshots(b) == [snap EXCEPT ![b] = @ \cup Registered(b)]

\* Faulty variant of NeuronOf: the uid is looked up among all neurons of the subnet.
NeuronByRow(b, u) == {h \in Hotkeys : IF h \in Registered(b) THEN UidAt[b][h] = u ELSE uid[h] = u}

\* _build_uid_to_neuron_map: only the neurons of this metagraph.
NeuronOf(b, u) == {h \in Registered(b) : UidAt[b][h] = u}

\* Weights by hotkey; a weight from or to an unknown uid is dropped.  Bonds and
\* collaterals are linked in the same way.
Linked(b) == UNION {NeuronOf(b, p[1]) \X NeuronOf(b, p[2]) : p \in WeightsAt[b]}

\* Faulty variant of DumpOf: the owner and tempo that the subnet has now.
DumpOfRow(w) == [owner |-> subnet'.owner, tempo |-> subnet'.tempo]

DumpOf(w) == [owner |-> Filled(w).owner, tempo |-> Filled(w).tempo]

\* Everything is written in one transaction; weights only by a full sync.
CommitSync(w) ==
    LET b == At(w) IN
    /\ pc[w] = "commit"
    /\ blocks' = blocks \cup {b}
    /\ subnet' = SavedRow(w)
    /\ coldkey' = SavedKeys(w)
    /\ uid' = SavedNeurons(b)
    /\ snap' = SavedSnapshots(b)
    /\ weights' = [weights EXCEPT ![b] = IF w = "history" THEN @ ELSE @ \cup Linked(b)]
    /\ dump' = [dump EXCEPT ![b] = DumpOf(w)]
    /\ lean' = (lean \/ read[w].lean)
    /\ interrupted' = IF Position[b] = "start" THEN interrupted \cup Busy(w)
                      ELSE (interrupted \cup Busy(w)) \ {w}
    /\ Proceed(w, "commit")
    /\ UNCHANGED <<head, derived>>

-----------------------------------------------------------------------------
(* BurnService *)

\* The neurons whose incentive counts as burn: those that now have the coldkey of the
\* owner that the dump recorded.
BurnShares(b) ==
    {h \in snap[b] : dump[b].owner # None /\ coldkey[h] = coldkey[dump[b].owner]}

\* meta_epoch_for_block: the anchor's Block row is there, or recovered from a provider.
AnchorRow(m, recovered) ==
    /\ m # None
    /\ m \in blocks \/ recovered
    /\ blocks' = blocks \cup {m}

\* Early returns of sync_burn, after which nothing is written.
NoBurnFor(b) ==
    \/ Anchor[b] = None \/ ~subnet.stored
    \/ ~Dumped(b) \/ snap[b] = {}

SyncBurn(w, recovered) ==
    LET b == At(w) IN
    /\ pc[w] = "burn"
    /\ \/ /\ ~NoBurnFor(b)
          /\ AnchorRow(Anchor[b], recovered)
          /\ burn' = [burn EXCEPT ![Anchor[b]] =
                        [src |-> b, shares |-> BurnShares(b),
                         alone |-> w # "burns" /\ w \notin interrupted]]
       \/ /\ NoBurnFor(b) \/ (Anchor[b] \notin blocks /\ ~recovered)
          /\ UNCHANGED <<burn, blocks>>
    /\ Proceed(w, "burn")
    /\ UNCHANGED <<head, coldkey, uid, subnet, dump, snap, weights, emission, lean>>
    /\ interrupted' = interrupted \ {w}

\* sync_subnet_emissions at an anchor: subnets that are not stored yet get a placeholder
\* row.  Nothing is written when the chain or the anchor cannot be read.
SyncEmissions(w, readable, recovered) ==
    LET m == At(w) IN
    /\ pc[w] = "emissions"
    /\ \/ /\ readable
          /\ AnchorRow(m, recovered)
          /\ subnet' = IF subnet.stored THEN subnet ELSE Placeholder
          /\ emission' = emission \cup {m}
       \/ /\ ~readable \/ (m \notin blocks /\ ~recovered)
          /\ UNCHANGED <<subnet, blocks, emission>>
    /\ Proceed(w, "emissions")
    /\ UNCHANGED <<head, coldkey, uid, dump, snap, weights, burn, lean, interrupted>>

-----------------------------------------------------------------------------
GrowChain ==
    /\ head < LastBlock
    /\ head' = head + 1
    /\ UNCHANGED <<tables, derived, local, lean, interrupted>>

\* Retention deletes snapshots older than its window, those of validators excepted,
\* with their metrics; the dumps and the burns stay.
Prune(b) ==
    /\ b < head - Window
    /\ snap[b] \ Validators # {}
    /\ snap' = [snap EXCEPT ![b] = @ \cap Validators]
    /\ interrupted' = interrupted \cup Busy(None)
    /\ UNCHANGED <<head, coldkey, uid, subnet, blocks, dump, weights, derived, local, lean>>

Scan(w) ==
    \/ w = "live" /\ PollHead
    \/ w = "gaps" /\ ScanGaps
    \/ w = "history" /\ \E force \in BOOLEAN : ScanHistory(force)
    \/ w = "burns" /\ ScanBurns

Step(w) ==
    \/ FetchNothing(w)
    \/ \E partial \in BOOLEAN : Fetch(w, partial)
    \/ CommitSync(w)
    \/ \E recovered \in BOOLEAN : SyncBurn(w, recovered)
    \/ \E readable, recovered \in BOOLEAN : SyncEmissions(w, readable, recovered)

Next ==
    \/ \E w \in Workers : Scan(w) \/ Step(w) \/ Fail(w) \/ Restart(w)
    \/ GrowChain
    \/ \E b \in Blocks : Prune(b)

Spec == Init /\ [][Next]_vars

-----------------------------------------------------------------------------
\* A dump records the owner and the tempo of its own block, and keeps a snapshot of
\* every validator, whatever other syncs have written to the subnet in the meantime.
\* (Values that the chain did not report are those of the subnet row.)
DumpIsOfItsBlock ==
    \A b \in Blocks : Dumped(b) =>
        /\ Owner[b] # None => dump[b].owner = Owner[b]
        /\ ~lean => dump[b].tempo = TempoAt[b]
        /\ snap[b] \subseteq Registered(b)
        /\ Validators \cap Registered(b) \subseteq snap[b]

\* Weights connect the hotkeys that had the uids at that block, although uids are
\* reused and the Neuron rows hold the uids of other blocks.
WeightsLinkRight ==
    \A b \in Blocks : \A p \in weights[b] :
        /\ p[1] \in Registered(b) /\ p[2] \in Registered(b)
        /\ <<UidAt[b][p[1]], UidAt[b][p[2]]>> \in WeightsAt[b]

\* As long as every metagraph has come complete, the subnet row holds the values of one
\* dumped block, or of dumps before these, never a mixture of two, although syncs read it
\* without a lock and write it later; a value once filled in is never lost.
RowOfOneBlock ==
    ~lean /\ subnet.stored =>
        \/ subnet \in {Placeholder} \cup Earlier
        \/ subnet.registered /\ \E b \in Blocks :
              Dumped(b) /\ subnet.tempo = TempoAt[b] /\ (Owner[b] # None => subnet.owner = Owner[b])

\* The burn of a meta epoch comes from an epoch start in it, and, when it was computed
\* right after the dump and nothing else was committed in between, counts exactly the
\* neurons that had the owner's coldkey at that block.
BurnRightWhenAlone ==
    \A m \in Numbers : burn[m] # NoBurn =>
        LET b == burn[m].src IN
        /\ Anchor[b] = m /\ Position[b] = "start"
        /\ Owner[b] # None /\ burn[m].alone =>
              burn[m].shares = {h \in Registered(b) : ColdkeyAt[b][h] = ColdkeyAt[b][Owner[b]]}

\* burn_service.py: "the same computation runs live and months later from
\* backfill_burn_metrics, and an ownership or coldkey change in between must not
\* rewrite history".
BurnHistoryKept ==
    [][\A m \in Numbers : burn[m] # NoBurn => burn'[m].shares = burn[m].shares]_burn
=============================================================================
