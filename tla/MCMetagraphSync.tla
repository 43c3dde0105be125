--------------------------- MODULE MCMetagraphSync ---------------------------
(* Two dumps for MetagraphSync: an epoch start, whose meta epoch began before, and a   *)
(* later block that begins one.  In between h1 sells the subnet to h3, coldkey c1 is    *)
(* swapped for c2, and h3 takes the uid of h2.                                         *)
EXTENDS MetagraphSync, TLC

CONSTANTS h1, h2, h3, c1, c2

Positions == (1 :> "start") @@ (2 :> "end")
Anchors == (1 :> 0) @@ (2 :> 2)
Owners == (1 :> h1) @@ (2 :> h3)
Keys == (1 :> ((h1 :> c1) @@ (h2 :> c1) @@ (h3 :> c2))) @@ (2 :> ((h1 :> c2) @@ (h2 :> c2) @@ (h3 :> c2)))
Swapless == [b \in Blocks |-> Keys[1]]
Uids == (1 :> ((h1 :> 0) @@ (h2 :> 1) @@ (h3 :> None))) @@ (2 :> ((h1 :> 0) @@ (h2 :> None) @@ (h3 :> 1)))
Sets == (1 :> {<<0, 1>>}) @@ (2 :> {<<0, 1>>, <<1, 5>>})
Tempos == (1 :> 1) @@ (2 :> 2)
Sold == {[stored |-> TRUE, owner |-> h1, tempo |-> 2, registered |-> TRUE]}
=============================================================================
