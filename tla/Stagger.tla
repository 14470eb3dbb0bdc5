--------------------------------- MODULE Stagger --------------------------------
(***************************************************************************)
(* The stagger gate with its clock (internal/admission/gates.go): of two   *)
(* builds with a common target the second is held back for a window, so    *)
(* that it finds the cache of the first warm.  The engine tries the gate   *)
(* and records an admission in one critical section; module Admission has  *)
(* the engine around it, with windows that end at any time.                *)
(***************************************************************************)
EXTENDS Integers

CONSTANTS
  None,      \* no record
  Ids,       \* invocation ids of requests
  Strays,    \* builds the registry knows that the engine did not admit
  Window,    \* the length of the window in ticks
  Names,     \* the names of targets
  TargetsOf  \* the target patterns of requests and strays

(* A pattern is a name after the prefix of the main repository, which may  *)
(* be spelled with an @.                                                   *)
Patterns == [prefix : {"//", "@//"}, name : Names]

ASSUME StaggerAssumption ==
  /\ None \notin Int
  /\ Ids \cap Strays = {}
  /\ Window \in Nat \ {0}
  /\ TargetsOf \in [Ids \cup Strays -> SUBSET Patterns]

(* toSet: the prefix with the @ is cut off.                                *)
Normalized(p) == [p EXCEPT !.prefix = IF @ = "@//" THEN "" ELSE @]
toSet(b) == {Normalized(p) : p \in TargetsOf[b]}
Overlaps(a, b) == toSet(a) \cap toSet(b) # {}

VARIABLES
  place,   \* where a request stands: out, held, in
  recent,  \* how long ago it was admitted, as the gate remembers
  started, \* how long ago a stray started, by the registry's time
  since    \* how long ago a request was admitted, up to the window

vars == <<place, recent, started, since>>

Init ==
  /\ place = [i \in Ids |-> "out"]
  /\ recent = [i \in Ids |-> None]
  /\ started = [d \in Strays |-> None]
  /\ since = [i \in Ids |-> Window]

(* Every variable keeps its type.                                          *)
StaggerTypeOK ==
  /\ place \in [Ids -> {"out", "held", "in"}]
  /\ recent \in [Ids -> 0 .. Window \cup {None}]
  /\ started \in [Strays -> -1 .. Window \cup {None}]
  /\ since \in [Ids -> 0 .. Window]

-----------------------------------------------------------------------------
(* What remains of the window of a record of some age; a start time ahead  *)
(* of the clock counts for nothing.                                        *)
Remaining(age) == IF age # None /\ age \in 0 .. Window THEN Window - age ELSE 0

(* The remaining windows of the builds that share a target with a request, *)
(* but for its own earlier admission.                                      *)
Windows(i) ==
  {Remaining(recent[j]) : j \in {k \in Ids \ {i} : Overlaps(i, k)}}
    \cup {Remaining(started[d]) : d \in {e \in Strays : Overlaps(i, e)}} \cup {0}

BugHold(i) ==
  LET some == Windows(i) \ {0} IN
  IF some = {} THEN 0 ELSE CHOOSE w \in some : \A v \in some : w <= v
Hold(i) == CHOOSE w \in Windows(i) : \A v \in Windows(i) : v <= w
Holds(i) == \E w \in Windows(i) : w > 0

(* Try and runGC delete the records whose window is over.                  *)
BugSwept == [i \in Ids |-> IF recent[i] # None /\ 2 * recent[i] >= Window THEN None ELSE recent[i]]
Swept == [i \in Ids |-> IF recent[i] = Window THEN None ELSE recent[i]]

Arrive(i) ==
  /\ place[i] = "out"
  /\ place' = [place EXCEPT ![i] = "held"]
  /\ UNCHANGED <<recent, started, since>>

(* A failed Try leaves the request held; the engine tries again after Hold *)
(* or at any other event.                                                  *)
TryHeld(i) ==
  /\ place[i] = "held" /\ Holds(i)
  /\ recent' = Swept
  /\ UNCHANGED <<place, started, since>>

Admit(i) ==
  /\ place[i] = "held" /\ ~Holds(i)
  /\ place' = [place EXCEPT ![i] = "in"]
  /\ recent' = [Swept EXCEPT ![i] = 0]
  /\ since' = [since EXCEPT ![i] = 0]
  /\ UNCHANGED started

(* Release keeps the record.                                               *)
Leave(i) ==
  /\ place[i] # "out"
  /\ place' = [place EXCEPT ![i] = "out"]
  /\ UNCHANGED <<recent, started, since>>

Sweep ==
  /\ recent' = Swept
  /\ UNCHANGED <<place, started, since>>

(* A start time read from another clock may be ahead.                      *)
StrayStarts(d) ==
  /\ started[d] = None
  /\ \E a \in {-1, 0} : started' = [started EXCEPT ![d] = a]
  /\ UNCHANGED <<place, recent, since>>

StrayEnds(d) ==
  /\ started[d] # None
  /\ started' = [started EXCEPT ![d] = None]
  /\ UNCHANGED <<place, recent, since>>

BugOlder(a) == IF a = None THEN a ELSE a + 1
Older(a) == IF a = None \/ a = Window THEN a ELSE a + 1

Tick ==
  /\ recent' = [i \in Ids |-> Older(recent[i])]
  /\ started' = [d \in Strays |-> Older(started[d])]
  /\ since' = [i \in Ids |-> Older(since[i])]
  /\ UNCHANGED place

Next ==
  \/ \E i \in Ids : Arrive(i) \/ TryHeld(i) \/ Admit(i) \/ Leave(i)
  \/ \E d \in Strays : StrayStarts(d) \/ StrayEnds(d)
  \/ Sweep \/ Tick

Spec == Init /\ [][Next]_vars

-----------------------------------------------------------------------------
(* The first build of a herd has a whole window's head start: no request   *)
(* is admitted within the window of another with a common target, whatever *)
(* was released, swept or admitted again in between.                       *)
HerdSpaced ==
  [][\A i \in Ids : place[i] = "held" /\ place'[i] = "in" =>
       \A j \in Ids \ {i} : Overlaps(i, j) => since[j] = Window]_vars

(* The hold is what the retry timer is set to: when it is over every       *)
(* window that held the request is, so that a retry is not in vain, and    *)
(* some window lasts until then.                                           *)
TimerIsEnough ==
  \A i \in Ids :
    /\ \A j \in Ids \ {i} : Overlaps(i, j) => since[j] + Hold(i) >= Window
    /\ Hold(i) > 0 =>
         \/ \E j \in Ids \ {i} : Overlaps(i, j) /\ since[j] + Hold(i) = Window
         \/ \E d \in Strays : Overlaps(i, d) /\ started[d] # None /\ started[d] + Hold(i) = Window

-----------------------------------------------------------------------------
(* A claim of the code's comments that the code does not keep.             *)
(* gates.go:248: toSet canonicalizes the prefix @// to //.  So two builds  *)
(* of one target are staggered however they spell it.                      *)
SameTarget(i, j) == \E p \in TargetsOf[i], q \in TargetsOf[j] : p.name = q.name
SpellingsSpaced ==
  [][\A i \in Ids : place[i] = "held" /\ place'[i] = "in" =>
       \A j \in Ids \ {i} : SameTarget(i, j) => since[j] = Window]_vars
=============================================================================
