------------------------------ MODULE BlockWalk ------------------------------
(***************************************************************************)
(* What a sync daemon promises about the order of blocks: it starts right  *)
(* before a head of the chain and from there takes up one block after the  *)
(* other, none twice, none jumped over, none the chain does not have, and  *)
(* leaves a block only to pass it; only a process that died forgets where  *)
(* it was.                                                                 *)
(***************************************************************************)
EXTENDS Integers

CONSTANT MaxBlock  \* bound: the chain stops growing at this block

VARIABLES
    head,          \* the newest block of the chain
    last,          \* the last block passed, -1 for none
    current        \* the block taken up, 0 between blocks

vars == <<head, last, current>>

Init ==
    /\ head = 1
    /\ last = -1
    /\ current = 0

Grow ==
    /\ head < MaxBlock
    /\ head' = head + 1
    /\ UNCHANGED <<last, current>>

\* The first head seen is the next block to take up.
Begin ==
    /\ last = -1 /\ current = 0
    /\ last' = head - 1
    /\ UNCHANGED <<head, current>>

Take ==
    /\ last # -1 /\ last < head /\ current = 0
    /\ current' = last + 1
    /\ UNCHANGED <<head, last>>

\* The block is passed, whether storing it succeeded or failed.
Pass ==
    /\ current # 0
    /\ last' = current
    /\ current' = 0
    /\ UNCHANGED head

\* The position is kept in memory only.
Forget ==
    /\ last' = -1 /\ current' = 0
    /\ UNCHANGED head

Next == Grow \/ Begin \/ Take \/ Pass \/ Forget

Spec == Init /\ [][Next]_vars
=============================================================================
