------------------------------ MODULE TilePipe ------------------------------
(***************************************************************************)
(* What the three baby-core programs of one Tensix promise each other: a  *)
(* pipeline of two bounded rings.  The reader fills a tile of the input   *)
(* ring only when the ring has a slot its consumer has released; compute  *)
(* moves a tile on only when it has arrived and the output ring has room; *)
(* the writer drains tiles in order.  Every tile goes through once.       *)
(***************************************************************************)
EXTENDS Naturals

CONSTANTS Depth,    \* slots of each ring (TT_CB_DEPTH)
          NTiles    \* tiles of the launch

VARIABLES filled,   \* tiles the reader has published
          taken,    \* input slots compute has released
          made,     \* tiles compute has published
          drained   \* output slots the writer has released

vars == <<filled, taken, made, drained>>

Init == filled = 0 /\ taken = 0 /\ made = 0 /\ drained = 0

Fill == /\ filled < NTiles
        /\ filled < taken + Depth
        /\ filled' = filled + 1
        /\ UNCHANGED <<taken, made, drained>>

Make == /\ made < filled
        /\ made = taken
        /\ made < drained + Depth
        /\ made' = made + 1
        /\ UNCHANGED <<filled, taken, drained>>

Release == /\ taken < made
           /\ taken' = taken + 1
           /\ UNCHANGED <<filled, made, drained>>

Drain == /\ drained < made
         /\ drained' = drained + 1
         /\ UNCHANGED <<filled, taken, made>>

Next == Fill \/ Make \/ Release \/ Drain

Spec == Init /\ [][Next]_vars
=============================================================================
