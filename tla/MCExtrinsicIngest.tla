-------------------------- MODULE MCExtrinsicIngest --------------------------
(* Small chains for ExtrinsicIngest. *)
EXTENDS ExtrinsicIngest, TLC

CONSTANTS x1, x2, x3, tempo     \* three extrinsics, one hyperparameter

\* Two blocks, both changing the hyperparameter; the second has two extrinsics.
RaceExts == (1 :> <<x1>>) @@ (2 :> <<x2, x3>>)

\* A third block repeats the hash of the first.
ThreeExts == RaceExts @@ (3 :> <<x1>>)

\* Bound: the daemon has the third block to itself, whatever backfills have run before.
ThirdBlockAlone == head <= 2 \/ \A p \in Backfills : pc[p] = "off"

\* Two blocks of one extrinsic each.
PlainExts == (1 :> <<x1>>) @@ (2 :> <<x2>>)

TwoChanges == (x1 :> tempo) @@ (x2 :> tempo) @@ (x3 :> None)
NoChange == (x1 :> None) @@ (x2 :> None) @@ (x3 :> None)
=============================================================================
