------------------------------ MODULE StaggerProofs ------------------------------
(***************************************************************************)
(* The stagger gate spaces the builds of a herd, for any number of         *)
(* requests, strays and targets and any length of the window.              *)
(***************************************************************************)
EXTENDS Stagger, TLAPS, WellFoundedInduction

(* A request whose window is not over has a record, and the record is as   *)
(* old as its admission: sweeps take only what counts no more.             *)
RecordsTrue ==
  \A j \in Ids :
    /\ recent[j] = None => since[j] = Window
    /\ recent[j] # None => since[j] = recent[j]

StaggerInv == StaggerTypeOK /\ RecordsTrue

LEMMA AgeGrows ==
  ASSUME NEW a \in -1 .. Window \cup {None}
  PROVE  /\ Older(a) \in -1 .. Window \cup {None}
         /\ a \in 0 .. Window => Older(a) \in 0 .. Window
         /\ (a = None) <=> (Older(a) = None)
         /\ a = Window => Older(a) = Window
BY StaggerAssumption DEF Older

LEMMA SweptType ==
  ASSUME StaggerInv
  PROVE  /\ Swept \in [Ids -> 0 .. Window \cup {None}]
         /\ \A j \in Ids : /\ Swept[j] = None => since[j] = Window
                           /\ Swept[j] # None => since[j] = Swept[j]
BY StaggerAssumption DEF StaggerInv, StaggerTypeOK, RecordsTrue, Swept

LEMMA StaggerInvInit == Init => StaggerInv
BY StaggerAssumption DEF Init, StaggerInv, StaggerTypeOK, RecordsTrue

LEMMA StaggerInvStep == StaggerInv /\ [Next]_vars => StaggerInv'
<1> SUFFICES ASSUME StaggerInv, [Next]_vars PROVE StaggerInv'
  OBVIOUS
<1> USE StaggerAssumption
<1>1. CASE \E i \in Ids : Arrive(i) \/ Leave(i)
  BY <1>1 DEF Arrive, Leave, StaggerInv, StaggerTypeOK, RecordsTrue
<1>2. CASE (\E i \in Ids : TryHeld(i)) \/ Sweep
  <2>1. recent' = Swept /\ UNCHANGED <<place, started, since>>
    BY <1>2 DEF TryHeld, Sweep
  <2> QED
    BY <2>1, SweptType DEF StaggerInv, StaggerTypeOK, RecordsTrue
<1>3. ASSUME NEW i \in Ids, Admit(i) PROVE StaggerInv'
  <2>1. /\ recent' = [Swept EXCEPT ![i] = 0]
        /\ since' = [since EXCEPT ![i] = 0]
        /\ place' = [place EXCEPT ![i] = "in"]
        /\ started' = started
    BY <1>3 DEF Admit
  <2>2. StaggerTypeOK'
    BY <2>1, SweptType DEF StaggerInv, StaggerTypeOK
  <2>3. ASSUME NEW j \in Ids
        PROVE  /\ recent'[j] = None => since'[j] = Window
               /\ recent'[j] # None => since'[j] = recent'[j]
    <3>1. CASE j = i
      BY <3>1, <2>1, SweptType DEF StaggerInv, StaggerTypeOK
    <3>2. CASE j # i
      <4>1. recent'[j] = Swept[j] /\ since'[j] = since[j]
        BY <3>2, <2>1, SweptType DEF StaggerInv, StaggerTypeOK
      <4> QED BY <4>1, SweptType
    <3> QED BY <3>1, <3>2
  <2> QED BY <2>2, <2>3 DEF StaggerInv, RecordsTrue
<1>4. CASE \E d \in Strays : StrayStarts(d) \/ StrayEnds(d)
  BY <1>4 DEF StrayStarts, StrayEnds, StaggerInv, StaggerTypeOK, RecordsTrue
<1>5. CASE Tick
  <2>1. StaggerTypeOK'
    <3>1. recent' \in [Ids -> 0 .. Window \cup {None}]
      <4>1. \A i \in Ids : recent[i] \in 0 .. Window \cup {None}
        BY DEF StaggerInv, StaggerTypeOK
      <4>2. \A i \in Ids : Older(recent[i]) \in 0 .. Window \cup {None}
        BY <4>1 DEF Older
      <4> QED
        BY <1>5, <4>2 DEF Tick
    <3>2. started' \in [Strays -> -1 .. Window \cup {None}]
      <4>1. \A d \in Strays : started[d] \in -1 .. Window \cup {None}
        BY DEF StaggerInv, StaggerTypeOK
      <4>2. \A d \in Strays : Older(started[d]) \in -1 .. Window \cup {None}
        BY <4>1, AgeGrows
      <4> QED
        BY <1>5, <4>2 DEF Tick
    <3>3. since' \in [Ids -> 0 .. Window]
      <4>1. \A i \in Ids : since[i] \in 0 .. Window
        BY DEF StaggerInv, StaggerTypeOK
      <4>2. \A i \in Ids : Older(since[i]) \in 0 .. Window
        BY <4>1 DEF Older
      <4> QED
        BY <1>5, <4>2 DEF Tick
    <3> QED
      BY <1>5, <3>1, <3>2, <3>3 DEF Tick, StaggerInv, StaggerTypeOK
  <2>2. ASSUME NEW j \in Ids
        PROVE  /\ recent'[j] = None => since'[j] = Window
               /\ recent'[j] # None => since'[j] = recent'[j]
    <3>1. recent'[j] = Older(recent[j]) /\ since'[j] = Older(since[j])
      BY <1>5 DEF Tick
    <3>2. recent[j] \in 0 .. Window \cup {None} /\ since[j] \in 0 .. Window
      BY DEF StaggerInv, StaggerTypeOK
    <3>3. /\ recent[j] = None => since[j] = Window
          /\ recent[j] # None => since[j] = recent[j]
      BY DEF StaggerInv, RecordsTrue
    <3>4. CASE recent[j] = None
      <4>1. Older(recent[j]) = None /\ Older(since[j]) = Window
        BY <3>3, <3>4 DEF Older
      <4> QED
        BY <3>1, <4>1
    <3>5. CASE recent[j] # None
      <4>1. Older(recent[j]) # None
        BY <3>2, <3>5, AgeGrows
      <4>2. Older(since[j]) = Older(recent[j])
        BY <3>3, <3>5
      <4> QED
        BY <3>1, <4>1, <4>2
    <3> QED
      BY <3>4, <3>5
  <2> QED BY <2>1, <2>2 DEF StaggerInv, RecordsTrue
<1>6. CASE UNCHANGED vars
  BY <1>6 DEF vars, StaggerInv, StaggerTypeOK, RecordsTrue
<1> QED
  BY <1>1, <1>2, <1>3, <1>4, <1>5, <1>6 DEF Next

LEMMA StaggerInvariant == Spec => []StaggerInv
BY StaggerInvInit, StaggerInvStep, PTL DEF Spec

(* Every variable of the gate keeps its type.                              *)
THEOREM StaggerTypeCorrect == Spec => []StaggerTypeOK
BY StaggerInvariant, PTL DEF StaggerInv

(* A request that another one's window holds is not admitted.              *)
LEMMA WindowHolds ==
  ASSUME StaggerInv, NEW i \in Ids, NEW j \in Ids \ {i}, Overlaps(i, j), ~Holds(i)
  PROVE  since[j] = Window
<1>1. Remaining(recent[j]) \in Windows(i)
  BY DEF Windows
<1>2. ~(Remaining(recent[j]) > 0)
  BY <1>1 DEF Holds
<1> QED
  BY <1>2, StaggerAssumption DEF Remaining, StaggerInv, StaggerTypeOK, RecordsTrue

(* The first build of a herd has a whole window's head start, whatever is  *)
(* released, swept or admitted again.                                      *)
THEOREM HerdsSpaced == Spec => HerdSpaced
<1>1. StaggerInv /\ [Next]_vars =>
        [\A i \in Ids : place[i] = "held" /\ place'[i] = "in" =>
           \A j \in Ids \ {i} : Overlaps(i, j) => since[j] = Window]_vars
  <2> SUFFICES ASSUME StaggerInv, Next,
                      NEW i \in Ids, place[i] = "held", place'[i] = "in",
                      NEW j \in Ids \ {i}, Overlaps(i, j)
               PROVE  since[j] = Window
    BY DEF vars
  <2>1. Admit(i)
    BY DEF Next, Arrive, TryHeld, Admit, Leave, Sweep, StrayStarts, StrayEnds, Tick,
           StaggerInv, StaggerTypeOK
  <2> QED
    BY <2>1, WindowHolds DEF Admit
<1> QED
  BY <1>1, StaggerInvariant, PTL DEF Spec, HerdSpaced
-----------------------------------------------------------------------------
(***************************************************************************)
(* The hold.  Hold(i) is chosen as the longest of the windows; that there  *)
(* is one follows from their bound.                                        *)
(***************************************************************************)
LEMMA LongestExists ==
  ASSUME NEW n \in Nat, NEW S, S \subseteq 0 .. n, S # {}
  PROVE  \E w \in S : \A v \in S : v <= w
<1> DEFINE T == {n - v : v \in S}
<1>1. T \subseteq Nat /\ T # {}
  <2>1. \A v \in S : n - v \in Nat
    <3> TAKE v \in S
    <3>1. v \in 0 .. n
      OBVIOUS
    <3> QED
      BY <3>1
  <2>2. PICK v \in S : TRUE
    OBVIOUS
  <2>3. n - v \in T
    OBVIOUS
  <2> QED
    BY <2>1, <2>3
<1>2. PICK x \in T : \A y \in T : ~(<<y, x>> \in OpToRel(<, Nat))
  BY <1>1, NatLessThanWellFounded, WFMin
<1>3. \A y \in T : ~(y < x)
  BY <1>1, <1>2 DEF OpToRel
<1>4. PICK w \in S : x = n - w
  OBVIOUS
<1>5. ASSUME NEW v \in S PROVE v <= w
  <2>1. ~(n - v < n - w)
    BY <1>3, <1>4
  <2>2. v \in Int /\ w \in Int
    OBVIOUS
  <2> QED
    BY <2>1, <2>2
<1> QED
  BY <1>5

LEMMA WindowsBounded == ASSUME NEW i \in Ids PROVE Windows(i) \subseteq 0 .. Window /\ 0 \in Windows(i)
BY StaggerAssumption DEF Windows, Remaining

LEMMA HoldIsLongest ==
  ASSUME NEW i \in Ids
  PROVE  Hold(i) \in Windows(i) /\ Hold(i) \in 0 .. Window /\ \A v \in Windows(i) : v <= Hold(i)
<1>1. \E w \in Windows(i) : \A v \in Windows(i) : v <= w
  BY WindowsBounded, LongestExists, StaggerAssumption
<1>2. Hold(i) \in Windows(i) /\ \A v \in Windows(i) : v <= Hold(i)
  BY <1>1 DEF Hold
<1> QED
  BY <1>2, WindowsBounded

(* The retry timer is set to the right time (TimerIsEnough): when it fires *)
(* every window that held the request back is over, and not before.        *)
THEOREM TimersAreEnough == Spec => []TimerIsEnough
<1>1. ASSUME StaggerInv, NEW i \in Ids, NEW j \in Ids \ {i}, Overlaps(i, j)
      PROVE  since[j] + Hold(i) >= Window
  <2>1. Remaining(recent[j]) \in Windows(i)
    BY <1>1 DEF Windows
  <2>2. Remaining(recent[j]) <= Hold(i) /\ Hold(i) \in 0 .. Window
    BY <2>1, HoldIsLongest
  <2>3. since[j] \in 0 .. Window
    BY <1>1 DEF StaggerInv, StaggerTypeOK
  <2>4. CASE recent[j] = None
    BY <1>1, <2>2, <2>3, <2>4, StaggerAssumption DEF StaggerInv, RecordsTrue
  <2>5. CASE recent[j] # None
    <3>1. since[j] = recent[j]
      BY <1>1, <2>5 DEF StaggerInv, RecordsTrue
    <3>2. Remaining(recent[j]) = Window - since[j]
      BY <2>3, <2>5, <3>1 DEF Remaining
    <3> QED
      BY <2>2, <2>3, <3>2, StaggerAssumption
  <2> QED
    BY <2>4, <2>5
<1>2. ASSUME StaggerInv, NEW i \in Ids, Hold(i) > 0
      PROVE  \/ \E j \in Ids \ {i} : Overlaps(i, j) /\ since[j] + Hold(i) = Window
             \/ \E d \in Strays : Overlaps(i, d) /\ started[d] # None /\ started[d] + Hold(i) = Window
  <2>1. Hold(i) \in Windows(i)
    BY HoldIsLongest
  <2>2. ASSUME NEW a, Remaining(a) = Hold(i) PROVE a # None /\ a \in 0 .. Window /\ a + Hold(i) = Window
    BY <1>2, <2>2, StaggerAssumption DEF Remaining
  <2>3. CASE \E j \in Ids \ {i} : Overlaps(i, j) /\ Remaining(recent[j]) = Hold(i)
    <3>1. PICK j \in Ids \ {i} : Overlaps(i, j) /\ Remaining(recent[j]) = Hold(i)
      BY <2>3
    <3>2. since[j] = recent[j] /\ recent[j] + Hold(i) = Window
      BY <1>2, <2>2, <3>1 DEF StaggerInv, RecordsTrue
    <3> QED
      BY <3>1, <3>2
  <2>4. CASE \E d \in Strays : Overlaps(i, d) /\ Remaining(started[d]) = Hold(i)
    BY <2>2, <2>4
  <2> QED
    BY <1>2, <2>1, <2>3, <2>4 DEF Windows
<1>3. StaggerInv => TimerIsEnough
  BY <1>1, <1>2 DEF TimerIsEnough
<1> QED
  BY <1>3, StaggerInvariant, PTL
=============================================================================
