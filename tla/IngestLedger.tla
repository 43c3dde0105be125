---------------------------- MODULE IngestLedger ----------------------------
(***************************************************************************)
(* What extrinsic ingestion promises, whatever its processes do: a block   *)
(* enters the table as a whole, its rows never change afterwards, and      *)
(* nothing about an extrinsic is published before the extrinsic is stored. *)
(***************************************************************************)
EXTENDS Integers

CONSTANTS
    MaxBlock,      \* bound: the chain stops growing at this block
    Hashes,        \* extrinsic hashes
    ExtsOf         \* ExtsOf[b]: the set of extrinsics of block b

VARIABLES
    head,          \* the newest block of the chain
    rows,          \* rows[h]: the block h is stored under, 0 if none
    published      \* <<block, hash>> pairs notified or entered in the history

vars == <<head, rows, published>>

Init ==
    /\ head = 1
    /\ rows = [h \in Hashes |-> 0]
    /\ published = {}

Grow ==
    /\ head < MaxBlock
    /\ head' = head + 1
    /\ UNCHANGED <<rows, published>>

\* Every extrinsic of b that has no row yet gets one, in one step.
Store(b) ==
    /\ b <= head
    /\ rows' = [h \in Hashes |-> IF h \in ExtsOf[b] /\ rows[h] = 0 THEN b ELSE rows[h]]
    /\ UNCHANGED <<head, published>>

Publish(b, S) ==
    /\ \A h \in S : rows[h] # 0
    /\ published' = published \cup {<<b, h>> : h \in S}
    /\ UNCHANGED <<head, rows>>

Next ==
    \/ Grow
    \/ \E b \in 1..MaxBlock :
         \/ Store(b)
         \/ \E S \in SUBSET ExtsOf[b] : Publish(b, S)

Spec == Init /\ [][Next]_vars
=============================================================================
