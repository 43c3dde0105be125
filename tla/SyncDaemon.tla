------------------------------ MODULE SyncDaemon ------------------------------
(***************************************************************************)
(* The loop of the sync_extrinsics and sync_metagraph daemons: open a      *)
(* provider, read the head of the chain, handle the blocks up to it, wait. *)
(* Every failure goes through one ProviderReconnectBackoff, which doubles  *)
(* the delay and logs one error per outage.  What handling a block does is *)
(* left out: it succeeds, finds nothing to store, or raises.               *)
(***************************************************************************)
EXTENDS Integers

CONSTANTS
    InitialDelay,  \* BITTENSOR_RECONNECT_INITIAL_DELAY_SECONDS
    MaxDelay,      \* BITTENSOR_RECONNECT_MAX_DELAY_SECONDS
    AlertAfter,    \* BITTENSOR_RECONNECT_ALERT_AFTER_ATTEMPTS
    PollInterval,  \* BITTENSOR_SECONDS_PER_BLOCK
    AttemptCap,    \* bound: attempts are counted up to here
    MaxBlock       \* bound: the chain stops growing at this block

\* ProviderReconnectBackoff.__init__ refuses other values.
ASSUME BackoffAssumption ==
    /\ InitialDelay \in Nat
    /\ MaxDelay \in Nat /\ MaxDelay >= InitialDelay
    /\ AlertAfter \in Nat \ {0}
    /\ PollInterval \in Nat
    /\ AttemptCap \in Nat /\ AttemptCap > AlertAfter
    /\ MaxBlock \in Nat \ {0}

Blocks == 1..MaxBlock

VARIABLES
    head,          \* the newest block of the chain
    reachable,     \* whether the head of the chain can be read
    (* the daemon *)
    pc,
    shutdown,      \* _shutdown, set by SIGTERM or SIGINT
    connected,     \* provider is not None
    attempt,       \* _attempt of the backoff
    delay,         \* _delay_seconds of the backoff
    remaining,     \* seconds left in wait()
    last,          \* last_processed_block, -1 for None
    target,        \* the head the current range of blocks goes up to
    (* what has been observed of this process *)
    alerts,        \* error-level log records since the head was last read (0, 1, many)
    first,         \* the block before the first one handled
    handled        \* handled[b]: times block b was handled (0, 1, many)

env == <<head, reachable>>
backoff == <<attempt, delay, alerts>>
progress == <<last, target, first, handled>>
vars == <<env, pc, shutdown, connected, backoff, remaining, progress>>

Lesser(m, n) == IF m <= n THEN m ELSE n
More(n) == IF n = 0 THEN 1 ELSE 2

TypeOK ==
    /\ head \in Blocks
    /\ reachable \in BOOLEAN
    /\ pc \in {"top", "head", "blocks", "wait", "stopped"}
    /\ shutdown \in BOOLEAN
    /\ connected \in BOOLEAN
    /\ attempt \in 0..AttemptCap
    /\ delay \in InitialDelay..MaxDelay
    /\ remaining \in Nat
    /\ last \in -1..MaxBlock
    /\ target \in 0..MaxBlock
    /\ alerts \in 0..2
    /\ first \in -1..MaxBlock
    /\ handled \in [Blocks -> 0..2]

\* The state of a process that has just been started.
Fresh ==
    [pc |-> "top", shutdown |-> FALSE, connected |-> FALSE, attempt |-> 0,
     delay |-> InitialDelay, remaining |-> 0, last |-> -1, target |-> 0,
     alerts |-> 0, first |-> -1, handled |-> [b \in Blocks |-> 0]]

Init ==
    /\ head = 1
    /\ reachable = TRUE
    /\ pc = Fresh.pc /\ shutdown = Fresh.shutdown /\ connected = Fresh.connected
    /\ attempt = Fresh.attempt /\ delay = Fresh.delay /\ alerts = Fresh.alerts
    /\ remaining = Fresh.remaining
    /\ last = Fresh.last /\ target = Fresh.target
    /\ first = Fresh.first /\ handled = Fresh.handled

-----------------------------------------------------------------------------
(* ProviderReconnectBackoff *)

Wait(seconds) ==
    /\ pc' = "wait"
    /\ remaining' = seconds

\* record_failure: log, double the delay, return the one to wait now.
RecordFailure ==
    /\ attempt' = Lesser(attempt + 1, AttemptCap)
    /\ alerts' = IF attempt + 1 = AlertAfter THEN More(alerts) ELSE alerts
    /\ delay' = Lesser(delay * 2, MaxDelay)
    /\ Wait(delay)

\* record_recovery: the next failure begins an outage.
RecordRecovery ==
    /\ attempt' = 0
    /\ delay' = InitialDelay

\* One slice of wait().
Slice ==
    /\ pc = "wait" /\ ~shutdown /\ remaining > 0
    /\ remaining' = remaining - 1
    /\ UNCHANGED <<env, pc, shutdown, connected, backoff, progress>>

WaitOver ==
    /\ pc = "wait"
    /\ shutdown \/ remaining = 0
    /\ pc' = "top"
    /\ remaining' = 0
    /\ UNCHANGED <<env, shutdown, connected, backoff, progress>>

-----------------------------------------------------------------------------
(* The loop. *)

Stop ==
    /\ pc = "top" /\ shutdown
    /\ pc' = "stopped"
    /\ connected' = FALSE
    /\ UNCHANGED <<env, shutdown, backoff, remaining, progress>>

\* The provider of an earlier round is still open.
KeepProvider ==
    /\ pc = "top" /\ ~shutdown /\ connected
    /\ pc' = "head"
    /\ UNCHANGED <<env, shutdown, connected, backoff, remaining, progress>>

\* Faulty variant of Connect: a handshake is taken for the end of the outage.
ConnectRecovers ==
    /\ pc = "top" /\ ~shutdown /\ ~connected
    /\ connected' = TRUE
    /\ pc' = "head"
    /\ RecordRecovery
    /\ UNCHANGED <<env, shutdown, alerts, remaining, progress>>

\* A handshake may succeed although the chain cannot be read: the outage state stays.
Connect ==
    /\ pc = "top" /\ ~shutdown /\ ~connected
    /\ connected' = TRUE
    /\ pc' = "head"
    /\ UNCHANGED <<env, shutdown, backoff, remaining, progress>>

\* Faulty variant of ConnectFails: retried although shutdown was requested.
ConnectForever ==
    /\ pc = "top" /\ ~connected
    /\ RecordFailure
    /\ UNCHANGED <<env, shutdown, connected, progress>>

ConnectFails ==
    /\ pc = "top" /\ ~shutdown /\ ~connected
    /\ RecordFailure
    /\ UNCHANGED <<env, shutdown, connected, progress>>

\* Faulty variant of ReadHead: always starts from the head.
ReadHeadOnly ==
    LET after == head - 1 IN
    /\ pc = "head"
    /\ reachable
    /\ RecordRecovery /\ alerts' = 0
    /\ last' = after
    /\ first' = IF last = -1 THEN after ELSE first
    /\ pc' = "blocks" /\ target' = head
    /\ UNCHANGED <<env, shutdown, connected, remaining, handled>>

\* get_current_block succeeded: start from the head, or go on after last.
ReadHead ==
    LET after == IF last = -1 THEN head - 1 ELSE last IN
    /\ pc = "head"
    /\ reachable
    /\ RecordRecovery /\ alerts' = 0
    /\ last' = after
    /\ first' = IF last = -1 THEN after ELSE first
    /\ IF head <= after
       THEN Wait(PollInterval) /\ UNCHANGED target
       ELSE pc' = "blocks" /\ target' = head /\ UNCHANGED remaining
    /\ UNCHANGED <<env, shutdown, connected, handled>>

ReadHeadFails ==
    /\ pc = "head"
    /\ connected' = FALSE
    /\ RecordFailure
    /\ UNCHANGED <<env, shutdown, progress>>

Advance ==
    /\ pc = "blocks" /\ ~shutdown /\ last < target
    /\ last' = last + 1
    /\ handled' = [handled EXCEPT ![last + 1] = More(@)]
    /\ UNCHANGED <<env, shutdown, target, first>>

\* The block is stored, unavailable, or has nothing to be dumped.
HandleBlock ==
    /\ Advance
    /\ UNCHANGED <<pc, connected, backoff, remaining>>

\* Any other exception: reconnect and skip the block.
HandleBlockFails ==
    /\ Advance
    /\ connected' = FALSE
    /\ RecordFailure

RangeDone ==
    /\ pc = "blocks"
    /\ shutdown \/ last = target
    /\ Wait(PollInterval)
    /\ UNCHANGED <<env, shutdown, connected, backoff, progress>>

Daemon ==
    \/ Slice \/ WaitOver \/ Stop
    \/ KeepProvider \/ Connect \/ ConnectFails
    \/ ReadHead \/ ReadHeadFails
    \/ HandleBlock \/ HandleBlockFails \/ RangeDone

Signal ==
    /\ pc # "stopped" /\ ~shutdown
    /\ shutdown' = TRUE
    /\ UNCHANGED <<env, pc, connected, backoff, remaining, progress>>

\* docker starts the daemon again after it stopped or died.
Restart ==
    /\ pc' = Fresh.pc /\ shutdown' = Fresh.shutdown /\ connected' = Fresh.connected
    /\ attempt' = Fresh.attempt /\ delay' = Fresh.delay /\ alerts' = Fresh.alerts
    /\ remaining' = Fresh.remaining
    /\ last' = Fresh.last /\ target' = Fresh.target
    /\ first' = Fresh.first /\ handled' = Fresh.handled
    /\ UNCHANGED env

GrowChain ==
    /\ head < MaxBlock
    /\ head' = head + 1
    /\ UNCHANGED <<reachable, pc, shutdown, connected, backoff, remaining, progress>>

Outage ==
    /\ reachable' = ~reachable
    /\ UNCHANGED <<head, pc, shutdown, connected, backoff, remaining, progress>>

Next == Daemon \/ Signal \/ Restart \/ GrowChain \/ Outage

Spec == Init /\ [][Next]_vars

\* The process is scheduled, and its clock runs.
FairSpec == Spec /\ WF_vars(Daemon)

-----------------------------------------------------------------------------
\* settings.py: "The failure at ALERT_AFTER_ATTEMPTS is logged at error level
\* once per outage": since the head was last read, exactly one error record from
\* that attempt on and none before, however often the provider is reopened in
\* between and refuses the head again.
OneAlertPerOutage == alerts = (IF attempt >= AlertAfter THEN 1 ELSE 0)

\* One run of the daemon handles a contiguous range of blocks, each once:
\* neither a failed block, a reconnect nor an unchanged head repeats or skips one.
EachBlockOnce ==
    \A b \in Blocks : handled[b] = IF first < b /\ b <= last THEN 1 ELSE 0

\* After a signal the daemon stops, also out of the longest wait and during an
\* outage (unless it is killed and started again first).
StopsOnSignal == shutdown ~> (pc = "stopped" \/ ~shutdown)

\* An outage that does not end is reported: the error record is logged and not
\* forgotten (unless the daemon is restarted again and again).
OutageIsReported ==
    (<>[](~reachable /\ pc # "stopped") /\ <>[][~Restart]_vars) => <>[](alerts = 1 \/ shutdown)
=============================================================================
