------------------------------ MODULE MCWSPush ------------------------------
EXTENDS WSPush, TLC
CONSTANTS c1, c2, c3, d1, d2, x1, x2, x3
WantsOf == c1 :> {d1} @@ c2 :> {d1, d2}
Doms == x1 :> d1 @@ x2 :> d1 @@ x3 :> d2
=============================================================================
