---------------------------- MODULE JsonlPipeline ----------------------------
(***************************************************************************)
(* Extrinsics by way of files: JSONL partitions, one per day, to which     *)
(* processes append, and the Dagster job that ingests them from a          *)
(* checkpoint, a line number over all partitions in the order of days.  A  *)
(* sensor starts the job when the size has changed, a schedule every hour. *)
(* A local file is locked by its writers only: a line is written in parts, *)
(* and the job reads partition after partition while that goes on.         *)
(***************************************************************************)
EXTENDS Integers, Sequences, SequencesExt

CONSTANTS
    Records,       \* lines that parse, by their extrinsic hash
    LastPartition, \* partitions are numbered in the order of their names
    Writers,       \* processes that append
    MaxFaults      \* bound: killed writers, killed runs, and removed partitions

ASSUME PipelineAssumption == LastPartition \in Nat \ {0} /\ MaxFaults \in Nat /\ "torn" \notin Records

Partitions == 1..LastPartition

\* What starts a run: at most one of each goes on at a time.
Jobs == {"sensor", "hourly"}

VARIABLES
    hashless,    \* the lines without an extrinsic hash: skipped
    fresh,       \* records that nobody has begun to append
    backend,     \* "local" or "storage": how lines are appended
    file,        \* file[p]: its lines, "torn" for one that does not parse
    created,     \* partitions whose local file exists
    partial,     \* partitions whose last line has no newline yet
    bytes,       \* bytes[p]: the size of the local file, two for a line, one for a part
    written,     \* lines for which append() has returned
    hand,        \* hand[w]: where writer w is in append(), and what it holds
    raced,       \* writers overlapped in append() of a storage, or one was killed
                 \* when it had deleted the file
    joined,      \* lines that were appended to the part left by a killed writer
    slipped,     \* lines that a run has met half written, or that were appended before
                 \* lines that have their numbers, or to a partition that a run has passed
    removed,     \* a partition has been removed: numbers have decreased
    checkpoint, extrinsics,
    cursor, keys,\* of the sensor: the size it knows, the run keys it has used
    job,         \* job[j]: where the run is, and what it has read
    faults

disk == <<hashless, backend, fresh, file, created, partial, bytes, written, hand, raced, joined>>
dagster == <<checkpoint, extrinsics, cursor, keys, job>>
vars == <<disk, slipped, removed, dagster, faults>>

NoHand == [partition |-> 0, line |-> "none", content |-> <<>>, phase |-> "off", clean |-> TRUE]
NoJob == [phase |-> "off", start |-> 0, todo |-> {}, count |-> 0, lines |-> {}]

\* The sum of the first p numbers of f.
SumUpto(f, p) ==
    LET sum[q \in {0} \cup Partitions] == IF q = 0 THEN 0 ELSE sum[q - 1] + f[q]
    IN  sum[p]

\* The lines in the partitions before p; their sizes, as the sensor adds them up.
Before(p) == SumUpto([q \in Partitions |-> Len(file[q])], p - 1)
Size == SumUpto(bytes, LastPartition)

Lines == UNION {ToSet(file[p]) : p \in Partitions}

PipelineTypeOK ==
    /\ file \in [Partitions -> Seq(Records \cup {"torn"})]
    /\ created \subseteq Partitions /\ partial \subseteq Partitions
    /\ bytes \in [Partitions -> Nat]
    /\ written \subseteq Records /\ joined \subseteq Records /\ slipped \subseteq Records
    /\ extrinsics \subseteq Records
    /\ checkpoint \in Nat /\ cursor \in Nat /\ keys \subseteq Nat
    /\ \A j \in Jobs : job[j].phase \in {"off", "requested", "reading", "read", "created"}
    /\ \A w \in Writers : hand[w].phase \in {"off", "open", "half", "read", "deleted"}

InitWith(kind, blank) ==
    /\ backend = kind /\ hashless = blank /\ fresh = Records
    /\ file = [p \in Partitions |-> <<>>] /\ bytes = [p \in Partitions |-> 0]
    /\ created = {} /\ partial = {}
    /\ written = {} /\ joined = {} /\ slipped = {} /\ raced = FALSE /\ removed = FALSE
    /\ hand = [w \in Writers |-> NoHand]
    /\ checkpoint = 0 /\ extrinsics = {}
    /\ cursor = 0 /\ keys = {}
    /\ job = [j \in Jobs |-> NoJob]
    /\ faults = 0

Init == \E kind \in {"local", "storage"}, blank \in SUBSET Records : InitWith(kind, blank)

-----------------------------------------------------------------------------
(* append() *)

Hold(w, p, x, read, at) ==
    hand' = [hand EXCEPT ![w] = [partition |-> p, line |-> x, content |-> read, phase |-> at, clean |-> TRUE]]

\* Opening a local file creates it.
OpenFile(w, p, x) ==
    /\ backend = "local" /\ x \in fresh /\ hand[w].phase = "off"
    /\ fresh' = fresh \ {x}
    /\ Hold(w, p, x, <<>>, "open")
    /\ created' = created \cup {p}
    /\ UNCHANGED <<hashless, backend, file, partial, bytes, written, raced, joined,
                   slipped, removed, dagster, faults>>

\* A later partition has lines already, or a run that goes on to one has passed p.
Late(p) ==
    \E q \in Partitions :
        q > p /\ (file[q] # <<>> \/ \E j \in Jobs : q \in job[j].todo /\ p \notin job[j].todo)

\* The lock is taken and the first part of the line reaches the file: it does not parse
\* unless only the newline is missing.  A part that is there already is continued.
BeginLine(w, seen) ==
    LET p == hand[w].partition
        clean == p \notin partial IN
    /\ hand[w].phase = "open" /\ seen \in {"torn", hand[w].line}
    /\ \A v \in Writers : hand[v].phase = "half" => hand[v].partition # p
    /\ file' = [file EXCEPT ![p] = IF clean THEN Append(@, seen) ELSE Append(Front(@), "torn")]
    /\ hand' = [hand EXCEPT ![w].phase = "half", ![w].clean = clean]
    /\ partial' = partial \cup {p}
    /\ bytes' = [bytes EXCEPT ![p] = @ + 1]
    /\ slipped' = slipped \cup (IF Late(p) THEN {hand[w].line} ELSE {})
    /\ UNCHANGED <<hashless, backend, fresh, created, written, raced, joined, removed, dagster, faults>>

\* flush: the rest of the line, with its newline.
EndLine(w) ==
    LET p == hand[w].partition
        x == hand[w].line IN
    /\ hand[w].phase = "half"
    /\ file' = [file EXCEPT ![p] = Append(Front(@), IF hand[w].clean THEN x ELSE "torn")]
    /\ partial' = partial \ {p}
    /\ bytes' = [bytes EXCEPT ![p] = @ + 1]
    /\ written' = written \cup {x}
    /\ joined' = IF hand[w].clean THEN joined ELSE joined \cup {x}
    /\ hand' = [hand EXCEPT ![w] = NoHand]
    /\ UNCHANGED <<hashless, backend, fresh, created, raced, slipped, removed, dagster, faults>>

\* append() with another storage: read the content, delete the file, save it again.
ReadContent(w, p, x) ==
    /\ backend = "storage" /\ x \in fresh /\ hand[w].phase = "off"
    /\ fresh' = fresh \ {x}
    /\ Hold(w, p, x, Append(file[p], x), "read")
    /\ raced' = (raced \/ \E v \in Writers : hand[v].partition = p)
    /\ UNCHANGED <<hashless, backend, file, created, partial, bytes, written, joined,
                   slipped, removed, dagster, faults>>

DeleteFile(w) ==
    /\ hand[w].phase = "read"
    /\ file' = [file EXCEPT ![hand[w].partition] = <<>>]
    /\ hand' = [hand EXCEPT ![w].phase = "deleted"]
    /\ UNCHANGED <<hashless, backend, fresh, created, partial, bytes, written, raced, joined,
                   slipped, removed, dagster, faults>>

\* Faulty variant of SavedContent: without what the file had.
SavedLine(w) == <<hand[w].line>>

SavedContent(w) == hand[w].content

\* A file that is there again is overwritten, or the content goes to another name.
SaveFile(w, elsewhere) ==
    LET p == hand[w].partition IN
    /\ hand[w].phase = "deleted"
    /\ elsewhere => file[p] # <<>>
    /\ file' = [file EXCEPT ![p] = IF elsewhere THEN @ ELSE SavedContent(w)]
    /\ written' = written \cup {hand[w].line}
    /\ hand' = [hand EXCEPT ![w] = NoHand]
    /\ UNCHANGED <<hashless, backend, fresh, created, partial, bytes, raced, joined,
                   slipped, removed, dagster, faults>>

\* The system releases the lock; a part of a line stays.
KillWriter(w) ==
    /\ hand[w].phase # "off" /\ faults < MaxFaults
    /\ hand' = [hand EXCEPT ![w] = NoHand]
    /\ raced' = (raced \/ hand[w].phase = "deleted")
    /\ faults' = faults + 1
    /\ UNCHANGED <<hashless, backend, fresh, file, created, partial, bytes, written, joined,
                   slipped, removed, dagster>>

\* An operator removes a partition that is no longer wanted, nor written to.
RemovePartition(p) ==
    /\ backend = "local" /\ p \in created /\ faults < MaxFaults
    /\ \A w \in Writers : hand[w].partition # p
    /\ file' = [file EXCEPT ![p] = <<>>]
    /\ created' = created \ {p}
    /\ partial' = partial \ {p}
    /\ bytes' = [bytes EXCEPT ![p] = 0]
    /\ written' = written \ ToSet(file[p])
    /\ removed' = TRUE
    /\ faults' = faults + 1
    /\ UNCHANGED <<hashless, backend, fresh, hand, raced, joined, slipped, dagster>>

-----------------------------------------------------------------------------
(* The job and its sensor.  It reads the local files. *)

SetJob(j, state) == job' = [job EXCEPT ![j] = state]

\* Every minute, unless a run is in progress: has the size changed?
SensorTick ==
    /\ backend = "local"
    /\ \A j \in Jobs : job[j].phase = "off"
    /\ cursor # Size
    /\ cursor' = Size
    /\ IF Size > cursor
       THEN /\ keys' = keys \cup {Size}
            /\ IF Size \in keys THEN UNCHANGED job ELSE SetJob("sensor", [NoJob EXCEPT !.phase = "requested"])
       ELSE /\ SetJob("sensor", [NoJob EXCEPT !.phase = "requested"])
            /\ UNCHANGED keys
    /\ UNCHANGED <<disk, slipped, removed, checkpoint, extrinsics, faults>>

\* Faulty variant of HourlyTick: not when the sensor knows the size.
HourlyIfChanged ==
    /\ backend = "local" /\ cursor # Size
    /\ job["hourly"].phase = "off"
    /\ SetJob("hourly", [NoJob EXCEPT !.phase = "requested"])
    /\ UNCHANGED <<disk, slipped, removed, checkpoint, extrinsics, cursor, keys, faults>>

\* Every hour, whatever else runs.
HourlyTick ==
    /\ backend = "local"
    /\ job["hourly"].phase = "off"
    /\ SetJob("hourly", [NoJob EXCEPT !.phase = "requested"])
    /\ UNCHANGED <<disk, slipped, removed, checkpoint, extrinsics, cursor, keys, faults>>

\* A run that reads the files there are, from line start on.
Reading(start) == [NoJob EXCEPT !.phase = "reading", !.start = start, !.todo = created]

BeginRead(j) ==
    /\ job[j].phase = "requested"
    /\ SetJob(j, Reading(checkpoint))
    /\ UNCHANGED <<disk, slipped, removed, checkpoint, extrinsics, cursor, keys, faults>>

\* The line that a writer will complete at the end of p.
Half(p) ==
    {hand[w].line : w \in {v \in Writers : hand[v].phase = "half" /\ hand[v].partition = p
                                             /\ hand[v].clean /\ Last(file[p]) = "torn"}}

\* The next partition, without a lock, up to what is its end by then.  All lines are counted,
\* those that do not parse are skipped.  A run fails on a file that is gone.
ReadPartition(j, p) ==
    LET unread == {i \in DOMAIN file[p] : job[j].count + i > job[j].start} IN
    /\ job[j].phase = "reading" /\ p \in job[j].todo /\ \A q \in job[j].todo : p <= q
    /\ IF p \in created
       THEN SetJob(j, [job[j] EXCEPT !.todo = @ \ {p}, !.count = @ + Len(file[p]),
                                     !.lines = @ \cup ({file[p][i] : i \in unread} \ {"torn"})])
       ELSE SetJob(j, NoJob)
    /\ slipped' = slipped \cup (IF Len(file[p]) \in unread THEN Half(p) ELSE {})
    /\ UNCHANGED <<disk, removed, checkpoint, extrinsics, cursor, keys, faults>>

\* All partitions are read.  With fewer lines than the checkpoint says, from the start again.
EndRead(j) ==
    /\ job[j].phase = "reading" /\ job[j].todo = {}
    /\ \/ /\ job[j].count < job[j].start
          /\ checkpoint' = 0
          /\ SetJob(j, Reading(0))
       \/ /\ job[j].count >= job[j].start /\ job[j].lines = {}
          /\ checkpoint' = IF job[j].start = job[j].count THEN checkpoint ELSE job[j].count
          /\ SetJob(j, NoJob)
       \/ /\ job[j].count >= job[j].start /\ job[j].lines # {} /\ job[j].lines \subseteq hashless
          /\ SetJob(j, NoJob)
          /\ UNCHANGED checkpoint
       \/ /\ job[j].count >= job[j].start /\ ~(job[j].lines \subseteq hashless)
          /\ SetJob(j, [job[j] EXCEPT !.phase = "read"])
          /\ UNCHANGED checkpoint
    /\ UNCHANGED <<disk, slipped, removed, extrinsics, cursor, keys, faults>>

CreateRows(j) ==
    /\ job[j].phase = "read"
    /\ extrinsics' = extrinsics \cup (job[j].lines \ hashless)
    /\ SetJob(j, [job[j] EXCEPT !.phase = "created"])
    /\ UNCHANGED <<disk, slipped, removed, checkpoint, cursor, keys, faults>>

\* Faulty variant of NextCheckpoint: the number of lines there are by now.
CheckpointNow(j) == Before(LastPartition + 1)

\* The number of lines that the run has counted.
NextCheckpoint(j) == job[j].count

SaveCheckpoint(j) ==
    /\ job[j].phase = "created"
    /\ checkpoint' = NextCheckpoint(j)
    /\ SetJob(j, NoJob)
    /\ UNCHANGED <<disk, slipped, removed, extrinsics, cursor, keys, faults>>

KillJob(j) ==
    /\ job[j].phase # "off" /\ faults < MaxFaults
    /\ SetJob(j, NoJob)
    /\ faults' = faults + 1
    /\ UNCHANGED <<disk, slipped, removed, checkpoint, extrinsics, cursor, keys>>

JobStep(j) ==
    \/ BeginRead(j) \/ (\E p \in Partitions : ReadPartition(j, p)) \/ EndRead(j)
    \/ CreateRows(j) \/ SaveCheckpoint(j)

WriterStep(w) ==
    \/ \E p \in Partitions, x \in Records : OpenFile(w, p, x) \/ ReadContent(w, p, x)
    \/ \E seen \in Records \cup {"torn"} : BeginLine(w, seen)
    \/ EndLine(w)
    \/ DeleteFile(w) \/ \E elsewhere \in BOOLEAN : SaveFile(w, elsewhere)
    \/ KillWriter(w)

Next ==
    \/ \E w \in Writers : WriterStep(w)
    \/ \E p \in Partitions : RemovePartition(p)
    \/ SensorTick \/ HourlyTick
    \/ \E j \in Jobs : JobStep(j) \/ KillJob(j)

Spec == Init /\ [][Next]_vars

-----------------------------------------------------------------------------
\* A line for which append() has returned stays in its file.  With a local file this holds
\* at any time, except for a line that a killed writer's part has spoiled; with a storage
\* when nobody is in append(), unless writers overlapped or one was killed after deleting.
AppendedIsKept ==
    /\ backend = "local" => written \ joined \subseteq Lines
    /\ backend = "storage" /\ ~raced /\ (\A w \in Writers : hand[w].phase = "off") => written \subseteq Lines

\* Runs overlap, are killed and save checkpoints in any order, read lines that are being
\* written and partitions that grow behind them: still no record before the checkpoint is
\* without a row but those that were half written when a run met them, and those that were
\* appended behind a run or to another day than the newest, unless a partition is removed.
CheckpointCovers ==
    ~removed /\ backend = "local" =>
        \A p \in Partitions : \A i \in DOMAIN file[p] :
            Before(p) + i <= checkpoint => file[p][i] \in {"torn"} \cup hashless \cup extrinsics \cup slipped

\* The records behind the checkpoint.
Unread ==
    UNION {{file[p][i] : i \in {k \in DOMAIN file[p] : Before(p) + k > checkpoint}} : p \in Partitions}

\* No record waits behind the checkpoint for ever, even when the sensor has dropped the
\* request for it because the size had been seen before, or its run was killed.
WaitingAreRead ==
    \A x \in Records :
        backend = "local" /\ x \in Unread \ (hashless \cup extrinsics) ~> x \notin Unread \/ x \in extrinsics
=============================================================================
