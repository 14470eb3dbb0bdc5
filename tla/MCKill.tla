-------------------------------- MODULE MCKill --------------------------------
(* Kill requests on small instances.                                       *)
EXTENDS Kill, TLC

CONSTANTS z1, i1, p1, t1, s1, k1

Invocation1 == z1 :> i1
Pid1        == z1 :> p1
Tail1       == z1 :> t1
=============================================================================
