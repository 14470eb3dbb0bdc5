----------------------------- MODULE MCAdmission -----------------------------
(* The admission engine on small instances.                                *)
EXTENDS AdmissionPromise, TLC

CONSTANTS i1, i2, h1, r1, o1, b1

(* A discovered build holds both ids back while its target is warm.        *)
SharedTarget == {b1} \X Ids

Calm == [cpu |-> 0, ramOver |-> FALSE]
Busy == [cpu |-> 1, ramOver |-> FALSE]
CalmAndBusy == {Calm, Busy}

IdSymmetry == Permutations(Ids)
=============================================================================
