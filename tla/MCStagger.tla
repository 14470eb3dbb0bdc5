------------------------------- MODULE MCStagger -------------------------------
(* The stagger gate on small instances.                                    *)
EXTENDS Stagger, TLC

CONSTANTS i1, i2, i3, d1, a, b

Plain(n) == [prefix |-> "//", name |-> n]
Spelled(n) == [prefix |-> "@//", name |-> n]

(* i1 and i2 share one target, i2, i3 and d1 the other.                    *)
Chain == i1 :> {Plain(a)} @@ i2 :> {Plain(a), Plain(b)} @@ i3 :> {Plain(b)} @@ d1 :> {Plain(b)}

TwoSpellings == i1 :> {Plain(a)} @@ i2 :> {Spelled(a)}
=============================================================================
