------------------------------ MODULE TaskQueues -----------------------------
(***************************************************************************)
(* A Celery queue on Redis, its workers and the move_tasks command.  Lists *)
(* are pushed at the front and popped at the back.  A worker acknowledges  *)
(* late: the tasks of one that is killed are put back.  move_tasks reads   *)
(* the whole list, then moves task by task with two commands, without a    *)
(* transaction, while the workers go on.                                   *)
(***************************************************************************)
EXTENDS Integers, Sequences, FiniteSets, SequencesExt

CONSTANTS
    Tasks,        \* messages that are ever sent to the source queue
    MaxKills,     \* bound: killed workers and killed commands
    MaxMoves      \* bound: executions of move_tasks

VARIABLES
    source, dest, \* the lists
    running,      \* unacknowledged tasks: <<task, queue>>
    sent, done,   \* tasks sent; tasks acknowledged
    snapshot,     \* what the command has read and not moved yet
    half,         \* the task that it has pushed and not removed
    kills, moves,
    flushed       \* tasks deleted by flush_queue

vars == <<source, dest, running, sent, done, snapshot, half, kills, moves, flushed>>


QueueTypeOK ==
    /\ source \in Seq(Tasks) /\ dest \in Seq(Tasks) /\ snapshot \in Seq(Tasks)
    /\ running \subseteq Tasks \X {"source", "dest"}
    /\ sent \subseteq Tasks /\ done \subseteq sent
    /\ half \subseteq Tasks /\ Cardinality(half) <= 1
    /\ kills \in 0..MaxKills /\ moves \in 0..MaxMoves
    /\ flushed \subseteq sent

Init ==
    /\ source = <<>> /\ dest = <<>> /\ running = {}
    /\ sent = {} /\ done = {} /\ flushed = {}
    /\ snapshot = <<>> /\ half = {}
    /\ kills = 0 /\ moves = 0

-----------------------------------------------------------------------------
Send(t) ==
    /\ t \notin sent
    /\ source' = <<t>> \o source
    /\ sent' = sent \cup {t}
    /\ UNCHANGED <<dest, running, done, snapshot, half, kills, moves, flushed>>

Begin(t, queue) ==
    /\ <<t, queue>> \notin running
    /\ running' = running \cup {<<t, queue>>}

\* BRPOP from either list.
TakeSource ==
    /\ source # <<>> /\ Begin(Last(source), "source")
    /\ source' = Front(source)
    /\ UNCHANGED <<dest, sent, done, snapshot, half, kills, moves, flushed>>

TakeDest ==
    /\ dest # <<>> /\ Begin(Last(dest), "dest")
    /\ dest' = Front(dest)
    /\ UNCHANGED <<source, sent, done, snapshot, half, kills, moves, flushed>>

\* Acknowledged after it has run, failed or met the time limit: acks_late.
Acknowledge(p) ==
    /\ p \in running
    /\ running' = running \ {p}
    /\ done' = done \cup {p[1]}
    /\ UNCHANGED <<source, dest, sent, snapshot, half, kills, moves, flushed>>

\* Faulty variant of Requeued: the task of a lost worker is acknowledged.
RequeuedNever(queue, t, list, name) == list

\* reject_on_worker_lost: put back to the list that the task came from; at which end of
\* it makes no difference to the properties.
Requeued(queue, t, list, name) == IF queue = name THEN Append(list, t) ELSE list

\* A killed worker, or one whose task runs for longer than the broker waits.
Redeliver(p, alive) ==
    /\ p \in running /\ kills < MaxKills
    /\ running' = IF alive THEN running ELSE running \ {p}
    /\ source' = Requeued(p[2], p[1], source, "source")
    /\ dest' = Requeued(p[2], p[1], dest, "dest")
    /\ kills' = kills + 1
    /\ UNCHANGED <<sent, done, snapshot, half, moves, flushed>>

-----------------------------------------------------------------------------
\* move_tasks reads the list, front to back.
ReadQueue ==
    /\ snapshot = <<>> /\ half = {} /\ source # <<>> /\ moves < MaxMoves
    /\ snapshot' = source
    /\ moves' = moves + 1
    /\ UNCHANGED <<source, dest, running, sent, done, half, kills, flushed>>

\* Faulty variant of FirstCommand: the task leaves its queue first.
RemoveFirstCommand(t) == source' = RemoveFirst(source, t) /\ UNCHANGED dest

\* RPUSH, whether the task is still in the source queue or not, and LREM.
FirstCommand(t) == dest' = Append(dest, t) /\ UNCHANGED source
SecondCommand(t) == source' = RemoveFirst(source, t) /\ UNCHANGED dest

PushTask ==
    /\ snapshot # <<>> /\ half = {}
    /\ FirstCommand(Head(snapshot))
    /\ half' = {Head(snapshot)}
    /\ UNCHANGED <<running, sent, done, snapshot, kills, moves, flushed>>

RemoveTask ==
    /\ half # {}
    /\ SecondCommand(Head(snapshot))
    /\ half' = {}
    /\ snapshot' = Tail(snapshot)
    /\ UNCHANGED <<running, sent, done, kills, moves, flushed>>

KillMove ==
    /\ snapshot # <<>> /\ kills < MaxKills
    /\ snapshot' = <<>> /\ half' = {}
    /\ kills' = kills + 1
    /\ UNCHANGED <<source, dest, running, sent, done, moves, flushed>>

\* flush_queue deletes the named list as it is when the command comes.
FlushQueue ==
    /\ \/ source # <<>> /\ flushed' = flushed \cup ToSet(source) /\ source' = <<>> /\ UNCHANGED dest
       \/ dest # <<>> /\ flushed' = flushed \cup ToSet(dest) /\ dest' = <<>> /\ UNCHANGED source
    /\ UNCHANGED <<running, sent, done, snapshot, half, kills, moves>>

Work == TakeSource \/ TakeDest \/ \E p \in Tasks \X {"source", "dest"} : Acknowledge(p)

Next ==
    \/ \E t \in Tasks : Send(t)
    \/ Work
    \/ \E p \in Tasks \X {"source", "dest"} , alive \in BOOLEAN : Redeliver(p, alive)
    \/ ReadQueue \/ PushTask \/ RemoveTask \/ KillMove \/ FlushQueue

Spec == Init /\ [][Next]_vars

(* Workers take whatever there is, and come to an end with it, as tasks have a time     *)
(* limit; they can be killed again and again, but here only MaxKills times.              *)
FairSpec == Spec /\ WF_vars(Work)

-----------------------------------------------------------------------------
\* Everything sent is done in the end, unless it was flushed: no task is lost between the
\* two lists or with a worker, whenever the command or a worker is killed.
SentIsDone == \A t \in Tasks : t \in sent ~> t \in done \cup flushed
=============================================================================
