------------------------------ MODULE MCRegistry ------------------------------
(* The registry on small instances.                                        *)
EXTENDS Registry, TLC

CONSTANTS z1, z2, i1, i2, p1, q1, t1, s1

Invocation1 == z1 :> i1
Invocation2 == z1 :> i1 @@ z2 :> i2
Pid1        == z1 :> p1
ReusedPid   == z1 :> p1 @@ z2 :> p1
Tail1       == z1 :> t1
SharedTail  == z1 :> t1 @@ z2 :> t1
=============================================================================
