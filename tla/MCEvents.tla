------------------------------- MODULE MCEvents -------------------------------
(* The event stream on small instances.                                    *)
EXTENDS Events, TLC

CONSTANTS z1, i1, p1, q1, t1, s1, w1

Invocation1 == z1 :> i1
Pid1        == z1 :> p1
Tail1       == z1 :> t1
=============================================================================
