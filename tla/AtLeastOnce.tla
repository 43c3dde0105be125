----------------------------- MODULE AtLeastOnce -----------------------------
(***************************************************************************)
(* What late acknowledgement promises about work that is handed over: a    *)
(* task stays pending, somewhere, until it has been done or was dropped on *)
(* purpose.  It may become pending again, and be done again.               *)
(***************************************************************************)
CONSTANT Tasks

VARIABLES
    sent,          \* tasks handed over
    pending,       \* tasks that somebody will still see
    done,          \* tasks that have been done at least once
    dropped        \* tasks given up on purpose

vars == <<sent, pending, done, dropped>>

Init ==
    /\ sent = {} /\ pending = {}
    /\ done = {} /\ dropped = {}

Send(t) ==
    /\ t \notin sent
    /\ sent' = sent \cup {t}
    /\ pending' = pending \cup {t}
    /\ UNCHANGED <<done, dropped>>

\* Done, and no longer pending unless it is pending elsewhere.
Finish(t) ==
    /\ t \in pending
    /\ done' = done \cup {t}
    /\ pending \ {t} \subseteq pending' /\ pending' \subseteq pending
    /\ UNCHANGED <<sent, dropped>>

\* What is through need not stay pending.
Forget(S) ==
    /\ S \subseteq done \cup dropped
    /\ pending' = pending \ S
    /\ UNCHANGED <<sent, done, dropped>>

\* Delivered again.
Repeat(t) ==
    /\ t \in sent
    /\ pending' = pending \cup {t}
    /\ UNCHANGED <<sent, done, dropped>>

Drop(S) ==
    /\ S \subseteq pending
    /\ dropped' = dropped \cup S
    /\ pending \ S \subseteq pending' /\ pending' \subseteq pending
    /\ UNCHANGED <<sent, done>>

Next ==
    \/ \E t \in Tasks : Send(t) \/ Finish(t) \/ Repeat(t)
    \/ \E S \in SUBSET Tasks : Forget(S) \/ Drop(S)

Spec == Init /\ [][Next]_vars
=============================================================================
