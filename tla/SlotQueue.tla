------------------------------ MODULE SlotQueue ------------------------------
(***************************************************************************)
(* What the admission engine promises, without gates, handlers, channels   *)
(* or locks: requests wait in the order they arrived, the one that came    *)
(* first is the next to be granted, at most Slots ids hold a slot, and a   *)
(* request may leave the line at any place (denied, released, collected).  *)
(*                                                                         *)
(* The line is a strict order on the waiting ids rather than a sequence:   *)
(* <<i, j>> \in ahead says that i arrived before j.                        *)
(***************************************************************************)
EXTENDS Integers, FiniteSets

CONSTANTS Ids, Slots

VARIABLES waiting, ahead, holders

qvars == <<waiting, ahead, holders>>

Init == waiting = {} /\ ahead = {} /\ holders = {}

Without(i) == {e \in ahead : e[1] # i /\ e[2] # i}

Join(i) ==
  /\ i \notin waiting
  /\ waiting' = waiting \cup {i}
  /\ ahead' = ahead \cup (waiting \X {i})
  /\ UNCHANGED holders

Leave(i) ==
  /\ i \in waiting
  /\ waiting' = waiting \ {i}
  /\ ahead' = Without(i)
  /\ UNCHANGED holders

Grant(i) ==
  /\ i \in waiting
  /\ \A j \in waiting : <<j, i>> \notin ahead
  /\ i \in holders \/ Cardinality(holders) < Slots
  /\ waiting' = waiting \ {i}
  /\ ahead' = Without(i)
  /\ holders' = holders \cup {i}

Free(i) ==
  /\ i \in holders
  /\ holders' = holders \ {i}
  /\ UNCHANGED <<waiting, ahead>>

Next == \E i \in Ids : Join(i) \/ Leave(i) \/ Grant(i) \/ Free(i)

Spec == Init /\ [][Next]_qvars
=============================================================================
