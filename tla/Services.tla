------------------------------- MODULE Services -------------------------------
(* The services beside the ingestion and the metagraph syncs whose safety is proved: *)
(* retention is extended, the others are instances.  Each has variables of its own.  *)
EXTENDS Retention, Sequences

CONSTANTS
    Items, MaxItems, Urls, UrlsOf, Netuids, Signers, MaxEdits,          \* notifications
    ParamRuns, LastParamBlock, Changes,                                 \* hyperparameters
    LastHealthBlock, Dumpable, Narrow, Wide, HealthRuns,                \* snapshot health
    Tasks, MaxKills, MaxMoves,                                          \* queues
    Files, MaxCrashes                                                   \* metagraph files

VARIABLES
    owners, webhooks, edits, ownedBy, items, turn, fanout, announced, heard, heardBy, unheard,
    raised, total,                                                      \* notifications
    tip, record, log, ingested, missed, step, copy, runAt,              \* hyperparameters
    latest, stored, have, health, work,                                 \* snapshot health
    source, dest, running, sent, done, snapshot, half, kills, moves, flushed,   \* queues
    content, checkpoints, synced, known, run, crashes                   \* metagraph files

N == INSTANCE NotificationRouting
H == INSTANCE HyperparamSync
S == INSTANCE SnapshotHealth WITH Subnets <- Netuids
Q == INSTANCE TaskQueues
F == INSTANCE MetagraphFiles WITH MetaRuns <- {"sensor", "hourly"}

\* Tasks that are in a list or with a worker.
Pending == Q!ToSet(source) \cup Q!ToSet(dest) \cup {t \in Tasks : \E p \in running : p[1] = t}

\* Files that have been begun.
Begun == {f \in Files : content[f] # "none"}

\* What the queues promise of tasks, and the checkpoints of files.
D == INSTANCE AtLeastOnce WITH pending <- Pending, dropped <- flushed
E == INSTANCE AtLeastOnce
     WITH Tasks <- Files, sent <- Begun, pending <- Begun \ checkpoints, done <- synced, dropped <- {}

\* Extrinsics are finitely many; blocks are numbers.  Windows are longer than the
\* distance of two dumpable blocks (50400 blocks and more, against 121): where a subnet
\* has a dumpable block, every window that ends there or later has one.
ASSUME ServicesAssumption ==
    /\ IsFiniteSet(Items)
    /\ MaxItems \in Nat /\ MaxEdits \in Nat
    /\ LastParamBlock \in Nat \ {0} /\ Changes \subseteq 1..LastParamBlock
    /\ MaxKills \in Nat /\ MaxMoves \in Nat /\ MaxCrashes \in Nat
    /\ LastHealthBlock \in Nat /\ Narrow \in Nat /\ Wide \in Nat
    /\ Dumpable \in [Netuids -> SUBSET (1..LastHealthBlock)]
    /\ \A n \in Netuids : \A d \in Dumpable[n] : \A end \in d..LastHealthBlock :
          \A w \in {Narrow, Wide} : \E b \in Dumpable[n] : end - w <= b /\ b <= end

-----------------------------------------------------------------------------
\* The properties, as the modules state them.

\* The types of all services.
ServicesTypeOK ==
    /\ TypeOK /\ N!NotificationTypeOK /\ H!HyperparamTypeOK /\ Q!QueueTypeOK
    /\ S!HealthTypeOK /\ F!FilesTypeOK

\* A webhook hears successful items of its handler's kind only, or swaps of its subnet's owner.
RightChannel == N!RightChannel

\* Every item with a handler has been heard when a block is through, or is known to be unheard.
NothingSwallowed == N!NothingSwallowed

\* Value and block number of a hyperparameter's row belong together.
RecordOfOneBlock == H!RecordOfOneBlock

\* The history of a hyperparameter has the right old values.
OldValueRight == H!OldValueRight

\* The table of missing snapshots is of one execution.
HealthOfOneRun == S!HealthOfOneRun

\* The table never says that fewer snapshots are missing than there are.
NeverUndercounted == S!NeverUndercounted

\* A task leaves the lists and the workers only when it is done or flushed, whatever is
\* killed between the two commands of a move; a file gets its checkpoint only when it is
\* synced, whichever runs overlap or are killed between a sync and its checkpoint.
DeliveredAtLeastOnce == D!Spec /\ E!Spec
=============================================================================
