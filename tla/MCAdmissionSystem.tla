-------------------------- MODULE MCAdmissionSystem --------------------------
(* The engine with two wrappers.                                           *)
EXTENDS AdmissionSystem, AdmissionPromise, TLC

CONSTANTS i1, i2, h1, h2, r1, r2, terminal, reaper, o1

Handle2 == i1 :> h1 @@ i2 :> h2
Free2   == i1 :> r1 @@ i2 :> r2

(* A poll of i2 may find the target of i1 warm, not the other way around.  *)
Overlap1 == {<<i1, i2>>}
=============================================================================
