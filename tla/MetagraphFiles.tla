---------------------------- MODULE MetagraphFiles ---------------------------
(***************************************************************************)
(* Metagraphs by way of files: one file per subnet and block, stored while *)
(* others read, and the Dagster job that syncs the files without a         *)
(* checkpoint of their own.  Runs of the sensor and of the hourly schedule *)
(* can overlap.                                                            *)
(***************************************************************************)
EXTENDS Integers, FiniteSets

CONSTANTS
    Files,        \* <<netuid, block>>
    MetaRuns,     \* "sensor" and "hourly" runs of the job
    MaxCrashes    \* bound: killed runs, and syncs that fail

VARIABLES
    content,      \* content[f]: "none", "partial" or "whole"
    checkpoints,  \* keys of IngestionCheckpoint
    synced,       \* files whose metagraph is in the tables
    known,        \* what the sensor's cursor has seen, as the files of that size
    run,          \* run[r]: files it still has to process, and the one it has just synced
    crashes

vars == <<content, checkpoints, synced, known, run, crashes>>

Idle == [active |-> FALSE, left |-> {}, marked |-> {}]
Sized == {f \in Files : content[f] = "whole"}

FilesTypeOK ==
    /\ content \in [Files -> {"none", "partial", "whole"}]
    /\ checkpoints \subseteq Files /\ synced \subseteq Files
    /\ known \subseteq Files
    /\ run \in [MetaRuns -> [active : BOOLEAN, left : SUBSET Files, marked : SUBSET Files]]
    /\ crashes \in 0..MaxCrashes

Init ==
    /\ content = [f \in Files |-> "none"]
    /\ checkpoints = {} /\ synced = {} /\ known = {}
    /\ run = [r \in MetaRuns |-> Idle]
    /\ crashes = 0

-----------------------------------------------------------------------------
\* store(): the file is opened, which empties it, and written.
OpenFile(f) ==
    /\ content[f] = "none"
    /\ content' = [content EXCEPT ![f] = "partial"]
    /\ UNCHANGED <<checkpoints, synced, known, run, crashes>>

WriteFile(f) ==
    /\ content[f] = "partial"
    /\ content' = [content EXCEPT ![f] = "whole"]
    /\ UNCHANGED <<checkpoints, synced, known, run, crashes>>

\* Faulty variant of Unprocessed: of the files that the cursor has not seen.
Unseen == {f \in Files : content[f] # "none"} \ (checkpoints \cup known)

Unprocessed == {f \in Files : content[f] # "none"} \ checkpoints

\* A run lists the files and leaves out those with a checkpoint.
BeginRun(r) ==
    /\ ~run[r].active /\ Unprocessed # {}
    /\ run' = [run EXCEPT ![r] = [Idle EXCEPT !.active = TRUE, !.left = Unprocessed]]
    /\ UNCHANGED <<content, checkpoints, synced, crashes>>

\* The sensor starts a run when the size has changed and none is in progress; one that
\* finds no file to process ends at once.
SensorRun ==
    /\ \A r \in MetaRuns : ~run[r].active
    /\ known # Sized /\ known' = Sized
    /\ \/ BeginRun("sensor")
       \/ /\ Unprocessed = {}
          /\ UNCHANGED <<content, checkpoints, synced, run, crashes>>

HourlyRun == BeginRun("hourly") /\ UNCHANGED known

\* An empty or malformed file, or a sync that fails: on to the next, without a checkpoint.
SkipFile(r, f) ==
    /\ f \in run[r].left /\ run[r].marked = {}
    /\ \/ content[f] = "partial" /\ UNCHANGED crashes
       \/ content[f] = "whole" /\ crashes < MaxCrashes /\ crashes' = crashes + 1
    /\ run' = [run EXCEPT ![r].left = @ \ {f}]
    /\ UNCHANGED <<content, checkpoints, synced, known>>

SyncFile(r, f) ==
    /\ f \in run[r].left /\ run[r].marked = {}
    /\ content[f] = "whole"
    /\ synced' = synced \cup {f}
    /\ run' = [run EXCEPT ![r].left = @ \ {f}, ![r].marked = {f}]
    /\ UNCHANGED <<content, checkpoints, known, crashes>>

\* The checkpoint; one that exists already is an error that is caught.
MarkFile(r) ==
    /\ run[r].marked # {}
    /\ checkpoints' = checkpoints \cup run[r].marked
    /\ run' = [run EXCEPT ![r].marked = {}]
    /\ UNCHANGED <<content, synced, known, crashes>>

EndRun(r) ==
    /\ run[r].active /\ run[r].left = {} /\ run[r].marked = {}
    /\ run' = [run EXCEPT ![r] = Idle]
    /\ UNCHANGED <<content, checkpoints, synced, known, crashes>>

KillRun(r) ==
    /\ run[r].active /\ crashes < MaxCrashes
    /\ run' = [run EXCEPT ![r] = Idle]
    /\ crashes' = crashes + 1
    /\ UNCHANGED <<content, checkpoints, synced, known>>

FileStep(r) == MarkFile(r) \/ EndRun(r) \/ \E f \in Files : SkipFile(r, f) \/ SyncFile(r, f)

Next ==
    \/ \E f \in Files : OpenFile(f) \/ WriteFile(f)
    \/ SensorRun \/ HourlyRun
    \/ \E r \in MetaRuns : FileStep(r) \/ KillRun(r)

Spec == Init /\ [][Next]_vars

(* Files are written to the end; the schedule comes round every hour, and runs go on.   *)
FairSpec ==
    /\ Spec
    /\ WF_vars(HourlyRun)
    /\ \A f \in Files : WF_vars(WriteFile(f))
    /\ \A r \in MetaRuns : WF_vars(FileStep(r))

-----------------------------------------------------------------------------
\* A file that has been begun is synced in the end, although a run may have found it half
\* written, the sensor does not look at it twice, and runs overlap or are killed.
FilesAreSynced == \A f \in Files : content[f] = "partial" ~> f \in synced
=============================================================================
