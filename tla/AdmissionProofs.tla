---------------------------- MODULE AdmissionProofs ----------------------------
(***************************************************************************)
(* Theorems about the admission engine, for every number of ids, handlers, *)
(* releasers and operators, every policy and every load.                   *)
(***************************************************************************)
EXTENDS Admission, FiniteSetTheorems, SequenceTheorems, TLAPS

(* A handler that is past attach() holds a waiter.                         *)
HandlersAttached ==
  \A h \in Handlers : pc[h] # "idle" => attached[h] \in Waiters

TypeInv == TypeOK /\ HandlersAttached

LEMMA TypeInit == Init => TypeInv
<1> SUFFICES ASSUME Init PROVE TypeInv
  OBVIOUS
<1> USE DEF Init
<1>1. mu \in Procs \cup {None} /\ pc \in [Procs -> PCs]
  BY DEF PCs
<1>2. queue \in Seq(Waiters) /\ held \in SUBSET Ids
  OBVIOUS
<1>3. wstate \in [Waiters -> QueuedStates \cup {"admitted", "done"}]
  OBVIOUS
<1>4. sample \in Sample /\ recentlyAdmitted \in Nat
  BY DEF Sample
<1>5. HandlersAttached
  BY DEF HandlersAttached, Procs
<1>6. /\ byID \in [Ids -> Waiters \cup {None}]
      /\ ch \in [Waiters -> {"none", "allow", "deny"}]
      /\ attached \in [Handlers -> Waiters \cup {None}]
      /\ reply \in [Handlers -> {"none", "allow", "queue", "deny"}]
      /\ releasing \in [Releasers -> Ids \cup {None}]
      /\ warm \in SUBSET (Others \cup Ids) /\ timers \in SUBSET Ids
      /\ paused \in BOOLEAN /\ draining \in BOOLEAN
  OBVIOUS
<1> QED
  BY <1>1, <1>2, <1>3, <1>4, <1>5, <1>6 DEF TypeInv, TypeOK

(* A new waiter object of an id is a waiter that nothing else points to.   *)
LEMMA FreshWaiter ==
  ASSUME NEW i \in Ids, FreeWaiters(i) # {}, NEW w, w = CHOOSE x \in FreeWaiters(i) : TRUE
  PROVE  w \in Waiters /\ IdOf(w) = i /\ ~Reachable(w)
<1>1. w \in FreeWaiters(i)
  OBVIOUS
<1> QED
  BY <1>1 DEF FreeWaiters, Waiters, IdOf

(* A process that leaves schedule() is back at its own code.               *)
LEMMA AfterScheduleType ==
  ASSUME NEW p \in Procs
  PROVE  AfterSchedule(p) \in PCs /\ (p \notin Handlers => AfterSchedule(p) = "idle")
BY DEF AfterSchedule, PCs

(* Which process is what: the goroutines that are not handlers.            *)
LEMMA ProcessKinds ==
  /\ Handlers \subseteq Procs /\ Releasers \subseteq Procs /\ Operators \subseteq Procs
  /\ {"load", "timer", "gc"} \subseteq Procs
  /\ \A p \in Procs \ Handlers : p \in Releasers \cup Operators \cup Services
  /\ \A p \in Releasers \cup Operators \cup {"load", "timer", "gc"} : p \notin Handlers
  /\ \A p \in Operators \cup {"load", "timer", "gc"} : p \notin Releasers
BY ConstantsAssumption DEF Procs, Services

(* Every step keeps the types.                                             *)
LEMMA TypeStep ==
  ASSUME TypeInv, [Next]_vars
  PROVE  TypeInv'
<1> USE ProcessKinds DEF TypeInv, TypeOK, HandlersAttached, PCs, QueuedStates,
        procVars, waiterVars, indexVars, policyVars, loadVars
<1>1. ASSUME NEW h \in Handlers, NEW i \in Ids, AttachNew(h, i)
      PROVE  TypeInv'
  BY <1>1, FreshWaiter, AppendProperties DEF AttachNew
<1>2. ASSUME NEW h \in Handlers, NEW i \in Ids, AttachKnown(h, i)
      PROVE  TypeInv'
  BY <1>2 DEF AttachKnown
<1>3. ASSUME NEW h \in Handlers, FastPathTake(h) \/ Receive(h)
      PROVE  TypeInv'
  <2>1. Take(h) /\ pc[h] # "idle"
    BY <1>3 DEF FastPathTake, Receive
  <2>2. attached[h] \in Waiters /\ ch[attached[h]] \in {"allow", "deny"}
    BY <2>1 DEF Take
  <2> QED
    BY <2>1, <2>2 DEF Take
<1>4. ASSUME NEW h \in Handlers, FastPathMiss(h) \/ PollEnds(h)
      PROVE  TypeInv'
  BY <1>4 DEF FastPathMiss, PollEnds
<1>5. ASSUME NEW h \in Handlers, Detach(h)
      PROVE  TypeInv'
  BY <1>5 DEF Detach
<1>6. ASSUME NEW r \in Releasers, NEW i \in Ids, ReleaseForget(r, i)
      PROVE  TypeInv'
  BY <1>6 DEF ReleaseForget, ForgetId
<1>7. ASSUME NEW r \in Releasers, ReleaseGates(r)
      PROVE  TypeInv'
  BY <1>7 DEF ReleaseGates, FreeSlot
<1>8. ASSUME NEW p \in Procs, ScheduleSkip(p) \/ ScheduleEmpty(p)
      PROVE  TypeInv'
  BY <1>8, AfterScheduleType DEF ScheduleSkip, ScheduleEmpty, Scheduling
<1>9. ASSUME NEW p \in Procs, ScheduleEnter(p)
      PROVE  TypeInv'
  BY <1>9 DEF ScheduleEnter
<1>10. ASSUME NEW p \in Procs, SchedulePopStale(p)
      PROVE  TypeInv'
  BY <1>10, HeadTailProperties DEF SchedulePopStale
<1>11. ASSUME NEW p \in Procs, ScheduleDeny(p)
      PROVE  TypeInv'
  BY <1>11, HeadTailProperties DEF ScheduleDeny, DropDenied, HeadQueued, Deliver, Waiters, IdOf
<1>12. ASSUME NEW p \in Procs, ScheduleAdmit(p)
      PROVE  TypeInv'
  BY <1>12, HeadTailProperties DEF ScheduleAdmit, AdmitHead, HeadQueued, Deliver, Waiters, IdOf
<1>13. ASSUME NEW p \in Procs, ScheduleHold(p)
      PROVE  TypeInv'
  BY <1>13, HeadTailProperties, AfterScheduleType DEF ScheduleHold, HoldHead, Armed, HeadQueued, Waiters, IdOf, Scheduling
<1>14. CASE GCEnter \/ GCExit
  BY <1>14 DEF GCEnter, GCExit
<1>15. CASE GCDrop
  BY <1>15 DEF GCDrop, DropAt, StaleAt, Waiters, IdOf
<1>16. ASSUME NEW w \in Waiters, GraceElapses(w)
      PROVE  TypeInv'
  BY <1>16 DEF GraceElapses
<1>17. ASSUME NEW o \in Operators, Pause(o) \/ Drain(o) \/ Resume(o)
      PROVE  TypeInv'
  BY <1>17 DEF Pause, Drain, Resume, SetPolicy
<1>18. ASSUME NEW s \in Samples, LoadSample(s)
      PROVE  TypeInv'
  BY <1>18, ConstantsAssumption DEF LoadSample
<1>19. CASE LoadReset
  BY <1>19 DEF LoadReset
<1>20. ASSUME NEW i \in Ids, TimerFires(i)
      PROVE  TypeInv'
  BY <1>20 DEF TimerFires
<1>21. ASSUME NEW b \in Others \cup Ids, BuildSeen(b) \/ WindowPasses(b)
      PROVE  TypeInv'
  BY <1>21 DEF BuildSeen, WindowPasses
<1>22. CASE UNCHANGED vars
  BY <1>22 DEF vars
<1> QED
  BY <1>1, <1>2, <1>3, <1>4, <1>5, <1>6, <1>7, <1>8, <1>9, <1>10, <1>11, <1>12, <1>13, <1>14, <1>15, <1>16, <1>17, <1>18, <1>19, <1>20, <1>21, <1>22
     DEF Next, Attach, Handle, Schedule, GCQueued, Environment

(* The types of the engine's state, and that a handler past attach() holds *)
(* a waiter.                                                               *)
LEMMA TypeInvariance == Spec => []TypeInv
<1>1. TypeInv /\ UNCHANGED vars => TypeInv'
  BY TypeStep
<1> QED
  BY TypeInit, TypeStep, <1>1, PTL DEF Spec

(* Every variable of the engine keeps its type (TypeOK).                   *)
THEOREM TypeCorrect == Spec => []TypeOK
BY TypeInvariance, PTL DEF TypeInv

-----------------------------------------------------------------------------
(***************************************************************************)
(* The index.  Only attach(), Release, the three dequeuing branches of     *)
(* schedule(), gcQueued() and the grace period touch what IndexOK is about.*)
(***************************************************************************)
LEMMA IndexInit == Init => IndexOK
BY ConstantsAssumption DEF Init, IndexOK, Queued, QueuedStates, Waiters

(* Steps that leave the queue, the index and the waiters' states alone.    *)
LEMMA IndexFrame ==
  ASSUME IndexOK, UNCHANGED <<queue, byID, wstate>>
  PROVE  IndexOK'
BY DEF IndexOK, Queued

(* The state of a waiter may change among the queued ones.                 *)
LEMMA IndexRequeue ==
  ASSUME TypeOK, IndexOK, NEW w \in Waiters, Queued(w),
         NEW s \in QueuedStates, wstate' = [wstate EXCEPT ![w] = s],
         UNCHANGED <<queue, byID>>
  PROVE  IndexOK'
BY DEF IndexOK, TypeOK, Queued, QueuedStates

(* Taking the head off a queue leaves the other elements in place.         *)
LEMMA TailElements ==
  ASSUME NEW S, NEW q \in Seq(S), q # <<>>
  PROVE  /\ Head(q) \in S /\ Tail(q) \in Seq(S)
         /\ \A n \in DOMAIN Tail(q) : n + 1 \in DOMAIN q /\ Tail(q)[n] = q[n + 1]
         /\ \A n \in DOMAIN q : n = 1 \/ (n - 1 \in DOMAIN Tail(q) /\ Tail(q)[n - 1] = q[n])
         /\ Head(q) = q[1] /\ 1 \in DOMAIN q
BY HeadTailProperties

LEMMA TailKeeps ==
  ASSUME NEW S, NEW q \in Seq(S), q # <<>>, NEW n \in DOMAIN q, q[n] # Head(q)
  PROVE  \E m \in DOMAIN Tail(q) : Tail(q)[m] = q[n]
<1>1. n # 1
  BY TailElements
<1>2. n - 1 \in DOMAIN Tail(q) /\ Tail(q)[n - 1] = q[n]
  BY <1>1, TailElements
<1> QED
  BY <1>2

LEMMA TailInjective ==
  ASSUME NEW S, NEW q \in Seq(S), q # <<>>,
         \A m, n \in DOMAIN q : q[m] = q[n] => m = n
  PROVE  \A m, n \in DOMAIN Tail(q) : Tail(q)[m] = Tail(q)[n] => m = n
<1> TAKE m, n \in DOMAIN Tail(q)
<1>1. m + 1 \in DOMAIN q /\ n + 1 \in DOMAIN q
  BY TailElements
<1>2. Tail(q)[m] = q[m + 1] /\ Tail(q)[n] = q[n + 1]
  BY TailElements
<1>3. m \in Nat /\ n \in Nat
  BY HeadTailProperties
<1> QED
  BY <1>1, <1>2, <1>3

(* A queued waiter leaves the engine: refused by a drain, or collected.    *)
LEMMA IndexDrop ==
  ASSUME TypeOK, IndexOK, NEW w \in Waiters, Queued(w),
         wstate' = [wstate EXCEPT ![w] = "done"],
         byID' = [byID EXCEPT ![IdOf(w)] = None],
         \A n \in DOMAIN queue :
           queue[n] # w => \E m \in DOMAIN queue' : queue'[m] = queue[n],
         \A m, n \in DOMAIN queue' : queue'[m] = queue'[n] => m = n
  PROVE  IndexOK'
<1>1. \A v \in Waiters : wstate'[v] = IF v = w THEN "done" ELSE wstate[v]
  BY DEF TypeOK
<1>2. \A v \in Waiters : IdOf(v) \in Ids
  BY DEF Waiters, IdOf
<1>3. \A j \in Ids : byID'[j] = IF j = IdOf(w) THEN None ELSE byID[j]
  BY <1>2 DEF TypeOK
<1>4. byID[IdOf(w)] = w
  BY DEF IndexOK, Queued, QueuedStates
<1>5. \A j \in Ids : byID'[j] # None => IdOf(byID'[j]) = j /\ wstate'[byID'[j]] # "done"
  BY <1>1, <1>2, <1>3, <1>4 DEF IndexOK, TypeOK
<1>6. \A v \in Waiters : wstate'[v] # "done" => byID'[IdOf(v)] = v
  BY <1>1, <1>2, <1>3, <1>4 DEF IndexOK
<1>7. \A v \in Waiters : Queued(v)' => \E n \in DOMAIN queue' : queue'[n] = v
  BY <1>1 DEF IndexOK, Queued, QueuedStates
<1> QED
  BY <1>5, <1>6, <1>7 DEF IndexOK

LEMMA IndexStep ==
  ASSUME TypeInv, IndexOK, [Next]_vars
  PROVE  IndexOK'
<1> USE DEF TypeInv
<1>1. ASSUME NEW h \in Handlers, NEW i \in Ids, AttachNew(h, i)
      PROVE  IndexOK'
  <2> DEFINE w == CHOOSE x \in FreeWaiters(i) : TRUE
  <2>1. w \in Waiters /\ IdOf(w) = i /\ ~Reachable(w)
    BY <1>1, FreshWaiter DEF AttachNew
  <2>2. /\ byID[i] = None /\ byID' = [byID EXCEPT ![i] = w]
        /\ queue' = Append(queue, w) /\ wstate' = [wstate EXCEPT ![w] = "polled"]
    BY <1>1 DEF AttachNew
  <2> HIDE DEF w
  <2>3. /\ DOMAIN queue' = DOMAIN queue \cup {Len(queue) + 1}
        /\ queue'[Len(queue) + 1] = w /\ Len(queue) + 1 \notin DOMAIN queue
        /\ \A n \in DOMAIN queue : queue'[n] = queue[n] /\ queue[n] # w
    BY <2>1, <2>2, AppendProperties DEF TypeOK, Reachable
  <2>4. \A v \in Waiters : v # w /\ wstate[v] # "done" => IdOf(v) # i
    BY <2>1, <2>2, ConstantsAssumption DEF IndexOK
  <2>5. \A j \in Ids : byID[j] # w
    BY <2>1, ConstantsAssumption DEF IndexOK, Reachable
  <2>6. \A v \in Waiters : wstate'[v] = IF v = w THEN "polled" ELSE wstate[v]
    BY <2>2 DEF TypeOK
  <2>7. \A j \in Ids : byID'[j] = IF j = i THEN w ELSE byID[j]
    BY <2>2 DEF TypeOK
  <2>8. \A j \in Ids : byID'[j] # None => IdOf(byID'[j]) = j /\ wstate'[byID'[j]] # "done"
    BY <2>1, <2>5, <2>6, <2>7 DEF IndexOK, TypeOK
  <2>9. \A v \in Waiters : wstate'[v] # "done" => byID'[IdOf(v)] = v
    <3> TAKE v \in Waiters
    <3>1. IdOf(v) \in Ids
      BY DEF Waiters, IdOf
    <3> QED
      BY <2>1, <2>4, <2>6, <2>7, <3>1 DEF IndexOK
  <2>10. \A v \in Waiters : Queued(v)' => \E n \in DOMAIN queue' : queue'[n] = v
    BY <2>1, <2>3, <2>6 DEF IndexOK, Queued
  <2>11. \A m, n \in DOMAIN queue' : queue'[m] = queue'[n] => m = n
    BY <2>3 DEF IndexOK
  <2> QED
    BY <2>8, <2>9, <2>10, <2>11 DEF IndexOK
<1>2. ASSUME NEW h \in Handlers, NEW i \in Ids, AttachKnown(h, i)
      PROVE  IndexOK'
  BY <1>2, IndexFrame, IndexRequeue DEF AttachKnown, TypeOK, QueuedStates, indexVars
<1>3. ASSUME NEW h \in Handlers, Detach(h)
      PROVE  IndexOK'
  <2>1. attached[h] \in Waiters
    BY <1>3 DEF Detach, HandlersAttached
  <2> QED
    BY <1>3, <2>1, IndexFrame, IndexRequeue DEF Detach, QueuedStates, indexVars
<1>4. ASSUME NEW r \in Releasers, NEW i \in Ids, ReleaseForget(r, i)
      PROVE  IndexOK'
  <2>1. \A j \in Ids : byID'[j] = IF j = i THEN None ELSE byID[j]
    BY <1>4 DEF ReleaseForget, ForgetId, TypeOK
  <2>2. \A v \in Waiters : wstate'[v] = IF v = byID[i] THEN "done" ELSE wstate[v]
    BY <1>4 DEF ReleaseForget, ForgetId
  <2>3. queue' = queue
    BY <1>4 DEF ReleaseForget, ForgetId
  <2>4. \A j \in Ids : byID[j] \in Waiters \cup {None}
    BY DEF TypeOK
  <2>5. \A v \in Waiters : IdOf(v) \in Ids
    BY DEF Waiters, IdOf
  <2> QED
    BY <2>1, <2>2, <2>3, <2>4, <2>5 DEF IndexOK, Queued, QueuedStates
<1>5. ASSUME NEW p \in Procs, SchedulePopStale(p)
      PROVE  IndexOK'
  <2>1. queue # <<>> /\ ~Queued(Head(queue)) /\ queue' = Tail(queue)
    BY <1>5 DEF SchedulePopStale, HeadQueued
  <2>2. UNCHANGED <<wstate, byID>>
    BY <1>5 DEF SchedulePopStale, waiterVars
  <2>3. \A v \in Waiters : Queued(v) => \E n \in DOMAIN queue' : queue'[n] = v
    <3> TAKE v \in Waiters
    <3> HAVE Queued(v)
    <3>1. PICK n \in DOMAIN queue : queue[n] = v
      BY DEF IndexOK
    <3> QED
      BY <2>1, <3>1, TailKeeps DEF TypeOK
  <2>4. \A m, n \in DOMAIN queue' : queue'[m] = queue'[n] => m = n
    BY <2>1, TailInjective DEF IndexOK, TypeOK
  <2> QED
    BY <2>2, <2>3, <2>4 DEF IndexOK, Queued
<1>6. ASSUME NEW p \in Procs, ScheduleDeny(p)
      PROVE  IndexOK'
  <2>1. queue # <<>> /\ Queued(Head(queue)) /\ queue' = Tail(queue)
    BY <1>6 DEF ScheduleDeny, DropDenied, HeadQueued
  <2>2. Head(queue) \in Waiters
    BY <2>1, TailElements DEF TypeOK
  <2>3. \A n \in DOMAIN queue : queue[n] # Head(queue) =>
          \E m \in DOMAIN queue' : queue'[m] = queue[n]
    BY <2>1, TailElements, ZenonT(30) DEF TypeOK
  <2>4. \A m, n \in DOMAIN queue' : queue'[m] = queue'[n] => m = n
    BY <2>1, TailInjective DEF IndexOK, TypeOK
  <2> QED
    BY <1>6, <2>1, <2>2, <2>3, <2>4, IndexDrop DEF ScheduleDeny, DropDenied
<1>7. ASSUME NEW p \in Procs, ScheduleAdmit(p)
      PROVE  IndexOK'
  <2> DEFINE w == Head(queue)
  <2>1. queue # <<>> /\ Queued(w) /\ queue' = Tail(queue) /\ byID' = byID
    BY <1>7 DEF ScheduleAdmit, AdmitHead, HeadQueued
  <2>2. w \in Waiters
    BY <2>1, TailElements DEF TypeOK
  <2>3. \A v \in Waiters : wstate'[v] = IF v = w THEN "admitted" ELSE wstate[v]
    BY <1>7 DEF ScheduleAdmit, AdmitHead, TypeOK
  <2>4. \A v \in Waiters : Queued(v)' => \E n \in DOMAIN queue' : queue'[n] = v
    <3> TAKE v \in Waiters
    <3> HAVE Queued(v)'
    <3>1. Queued(v) /\ v # w
      BY <2>3 DEF Queued, QueuedStates
    <3>2. PICK n \in DOMAIN queue : queue[n] = v
      BY <3>1 DEF IndexOK
    <3> QED
      BY <2>1, <3>1, <3>2, TailKeeps DEF TypeOK
  <2>5. \A m, n \in DOMAIN queue' : queue'[m] = queue'[n] => m = n
    BY <2>1, TailInjective DEF IndexOK, TypeOK
  <2> QED
    BY <2>1, <2>2, <2>3, <2>4, <2>5 DEF IndexOK, TypeOK, Queued, QueuedStates
<1>8. CASE GCDrop
  <2>1. PICK n \in StaleAt :
          /\ wstate' = [wstate EXCEPT ![queue[n]] = "done"]
          /\ byID' = [byID EXCEPT ![IdOf(queue[n])] = None]
          /\ queue' = [m \in 1..(Len(queue) - 1) |->
                         IF m < n THEN queue[m] ELSE queue[m + 1]]
    BY <1>8 DEF GCDrop, DropAt
  <2>2. queue[n] \in Waiters /\ Queued(queue[n]) /\ n \in 1..Len(queue) /\ Len(queue) \in Nat
    BY <2>1 DEF StaleAt, TypeOK, Queued, QueuedStates
  <2>3. \A m \in DOMAIN queue : queue[m] # queue[n] =>
          \E k \in DOMAIN queue' : queue'[k] = queue[m]
    <3> TAKE m \in DOMAIN queue
    <3> HAVE queue[m] # queue[n]
    <3>1. m \in 1..Len(queue) /\ m # n
      BY DEF TypeOK
    <3>2. CASE m < n
      <4>1. m \in DOMAIN queue' /\ queue'[m] = queue[m]
        BY <2>1, <2>2, <3>1, <3>2
      <4> QED
        BY <4>1
    <3>3. CASE m > n
      <4>1. m - 1 \in DOMAIN queue' /\ queue'[m - 1] = queue[m]
        BY <2>1, <2>2, <3>1, <3>3
      <4> QED
        BY <4>1
    <3> QED
      BY <2>2, <3>1, <3>2, <3>3
  <2>4. \A m, k \in DOMAIN queue' : queue'[m] = queue'[k] => m = k
    BY <2>1, <2>2 DEF IndexOK, TypeOK
  <2> QED
    BY <2>1, <2>2, <2>3, <2>4, IndexDrop
<1>9. ASSUME NEW w \in Waiters, GraceElapses(w)
      PROVE  IndexOK'
  BY <1>9, IndexRequeue DEF GraceElapses, Queued, QueuedStates, indexVars
<1>10. ASSUME UNCHANGED <<queue, byID, wstate>>
       PROVE  IndexOK'
  BY <1>10, IndexFrame
<1>11. ASSUME NEW h \in Handlers,
              FastPathTake(h) \/ Receive(h) \/ FastPathMiss(h) \/ PollEnds(h)
       PROVE  UNCHANGED <<queue, byID, wstate>>
  BY <1>11 DEF FastPathTake, Receive, FastPathMiss, PollEnds, Take, indexVars, waiterVars
<1>12. ASSUME NEW r \in Releasers, ReleaseGates(r)
       PROVE  UNCHANGED <<queue, byID, wstate>>
  BY <1>12 DEF ReleaseGates, FreeSlot, indexVars, waiterVars
<1>13. ASSUME NEW p \in Procs,
              ScheduleSkip(p) \/ ScheduleEnter(p) \/ ScheduleHold(p) \/ ScheduleEmpty(p)
       PROVE  UNCHANGED <<queue, byID, wstate>>
  BY <1>13 DEF ScheduleSkip, ScheduleEnter, ScheduleHold, HoldHead, ScheduleEmpty, indexVars, waiterVars
<1>14. ASSUME NEW o \in Operators, Pause(o) \/ Drain(o) \/ Resume(o)
       PROVE  UNCHANGED <<queue, byID, wstate>>
  BY <1>14 DEF Pause, Drain, Resume, SetPolicy, indexVars, waiterVars
<1>15. ASSUME GCEnter \/ GCExit \/ LoadReset \/ (\E s \in Samples : LoadSample(s))
                \/ (\E i \in Ids : TimerFires(i))
                \/ (\E b \in Others \cup Ids : BuildSeen(b) \/ WindowPasses(b))
       PROVE  UNCHANGED <<queue, byID, wstate>>
  BY <1>15 DEF GCEnter, GCExit, LoadReset, LoadSample, TimerFires, BuildSeen, WindowPasses,
               indexVars, waiterVars
<1>16. CASE UNCHANGED vars
  BY <1>16, IndexFrame DEF vars, indexVars, waiterVars
<1> QED
  BY <1>1, <1>2, <1>3, <1>4, <1>5, <1>6, <1>7, <1>8, <1>9, <1>10, <1>11, <1>12, <1>13,
     <1>14, <1>15, <1>16
     DEF Next, Attach, Handle, Schedule, GCQueued, Environment

(* Engine.byID and Engine.queue agree (IndexOK) in every reachable state.  *)
THEOREM IndexCorrect == Spec => []IndexOK
<1>1. TypeInv /\ IndexOK /\ UNCHANGED vars => IndexOK'
  BY IndexStep
<1> QED
  BY TypeInvariance, IndexInit, IndexStep, <1>1, PTL DEF Spec

-----------------------------------------------------------------------------
(***************************************************************************)
(* The semaphore.  Only ScheduleAdmit and ReleaseGates touch held, and the *)
(* first does so in the state in which it has seen a free slot.            *)
(***************************************************************************)
HeldBounded == IsFiniteSet(held) /\ SlotBound

LEMMA HeldFrame ==
  ASSUME [Next]_vars,
         \A p \in Procs : ~ScheduleAdmit(p), \A r \in Releasers : ~ReleaseGates(r)
  PROVE  held' = held
<1>1. \A h \in Handlers, i \in Ids : Attach(h, i) => held' = held
  BY DEF Attach, AttachNew, AttachKnown
<1>2. \A h \in Handlers : Handle(h) => held' = held
  BY DEF Handle, FastPathTake, FastPathMiss, Receive, PollEnds, Detach, Take
<1>3. \A r \in Releasers, i \in Ids : ReleaseForget(r, i) => held' = held
  BY DEF ReleaseForget, ForgetId
<1>4. \A p \in Procs : Schedule(p) => held' = held
  BY DEF Schedule, ScheduleSkip, ScheduleEnter, SchedulePopStale, ScheduleDeny, DropDenied,
         ScheduleHold, HoldHead, ScheduleEmpty
<1>5. GCQueued \/ Environment \/ LoadReset => held' = held
  BY DEF GCQueued, GCEnter, GCDrop, DropAt, GCExit, Environment, GraceElapses, BuildSeen,
         WindowPasses, LoadReset
<1>6. /\ \A o \in Operators : Pause(o) \/ Drain(o) \/ Resume(o) => held' = held
      /\ \A s \in Samples : LoadSample(s) => held' = held
      /\ \A i \in Ids : TimerFires(i) => held' = held
  BY DEF Pause, Drain, Resume, SetPolicy, LoadSample, TimerFires
<1> QED
  BY <1>1, <1>2, <1>3, <1>4, <1>5, <1>6 DEF Next, vars

LEMMA HeldStep ==
  ASSUME TypeOK, HeldBounded, [Next]_vars
  PROVE  HeldBounded'
<1>1. Slots \in Nat /\ Cardinality(held) \in Nat
  BY ConstantsAssumption, FS_CardinalityType DEF Slots, HeldBounded
<1>2. ASSUME NEW p \in Procs, ScheduleAdmit(p)
      PROVE  HeldBounded'
  <2> DEFINE i == IdOf(Head(queue))
  <2>1. held' = held \cup {i}
    BY <1>2 DEF ScheduleAdmit, AdmitHead
  <2>2. i \in held \/ Cardinality(held) < Slots
    BY <1>2 DEF ScheduleAdmit, AdmitHead, GatesAdmit, SemaphoreTry
  <2>3. IsFiniteSet(held') /\ Cardinality(held') =
          IF i \in held THEN Cardinality(held) ELSE Cardinality(held) + 1
    BY <2>1, FS_AddElement DEF HeldBounded
  <2> QED
    BY <1>1, <2>2, <2>3 DEF HeldBounded, SlotBound
<1>3. ASSUME NEW r \in Releasers, ReleaseGates(r)
      PROVE  HeldBounded'
  <2>1. held' \subseteq held
    BY <1>3 DEF ReleaseGates, FreeSlot
  <2>2. IsFiniteSet(held') /\ Cardinality(held') <= Cardinality(held)
    BY <2>1, FS_Subset DEF HeldBounded
  <2>3. Cardinality(held') \in Nat
    BY <2>2, FS_CardinalityType
  <2> QED
    BY <1>1, <2>2, <2>3 DEF HeldBounded, SlotBound
<1>4. CASE held' = held
  BY <1>4 DEF HeldBounded, SlotBound
<1> QED
  BY <1>2, <1>3, <1>4, HeldFrame

LEMMA HeldInit == Init => HeldBounded
BY ConstantsAssumption, FS_EmptySet DEF Init, HeldBounded, SlotBound, Slots

LEMMA HeldInvariance == Spec => []HeldBounded
<1>1. TypeInv /\ HeldBounded /\ [Next]_vars => HeldBounded'
  BY HeldStep DEF TypeInv
<1> QED
  BY TypeInvariance, HeldInit, <1>1, PTL DEF Spec

(* The semaphore never counts more builds than its limit (SlotBound).      *)
THEOREM SlotsBounded == Spec => []SlotBound
BY HeldInvariance, PTL DEF HeldBounded

-----------------------------------------------------------------------------
(***************************************************************************)
(* No slot leaks: IndexOK tells that the waiter a drain, a collection or a *)
(* Release takes out of byID is the one its id points to, so the slot of   *)
(* an admitted waiter is only lost sight of by a Release that frees it.    *)
(***************************************************************************)
Backed(i)  == byID[i] # None /\ wstate[byID[i]] = "admitted"
Freeing(i) == \E r \in Releasers : pc[r] = "gates" /\ releasing[r] = i

LEMMA LeakSplit ==
  /\ NoLeakedSlot <=> \A i \in held : Backed(i) \/ Freeing(i)
  /\ NoLeakedSlot' <=> \A i \in held' : Backed(i)' \/ Freeing(i)'
BY DEF NoLeakedSlot, Backed, Freeing

LEMMA LeakFrame ==
  ASSUME NoLeakedSlot, held' \subseteq held,
         \A i \in held : Backed(i) => Backed(i)',
         \A i \in held' : Freeing(i) => Freeing(i)'
  PROVE  NoLeakedSlot'
BY DEF NoLeakedSlot, Backed, Freeing

LEMMA LeakStep ==
  ASSUME TypeInv, IndexOK, NoLeakedSlot, [Next]_vars
  PROVE  NoLeakedSlot'
<1> USE DEF TypeInv
<1>1. ASSUME NEW h \in Handlers, NEW i \in Ids, AttachNew(h, i)
      PROVE  NoLeakedSlot'
  <2> DEFINE w == CHOOSE x \in FreeWaiters(i) : TRUE
  <2>1. w \in Waiters /\ IdOf(w) = i /\ ~Reachable(w)
    BY <1>1, FreshWaiter DEF AttachNew
  <2>2. /\ byID[i] = None /\ byID' = [byID EXCEPT ![i] = w]
        /\ wstate' = [wstate EXCEPT ![w] = "polled"] /\ held' = held
        /\ pc' = [pc EXCEPT ![h] = "kick"] /\ releasing' = releasing
    BY <1>1 DEF AttachNew
  <2> HIDE DEF w
  <2>3. \A j \in Ids : byID[j] # w
    BY <2>1, ConstantsAssumption DEF IndexOK, Reachable
  <2>4. \A j \in held : Backed(j) => Backed(j)'
    BY <2>1, <2>2, <2>3 DEF Backed, TypeOK
  <2>5. \A j \in held' : Freeing(j) => Freeing(j)'
    BY <2>2, ProcessKinds DEF Freeing, TypeOK
  <2> QED
    BY <2>2, <2>4, <2>5, LeakFrame
<1>2. ASSUME NEW h \in Handlers, NEW i \in Ids, AttachKnown(h, i)
      PROVE  NoLeakedSlot'
  <2>1. \A j \in held : Backed(j) => Backed(j)'
    BY <1>2 DEF AttachKnown, Backed, TypeOK, indexVars, Queued, QueuedStates
  <2>2. held' = held /\ \A j \in held' : Freeing(j) => Freeing(j)'
    BY <1>2, ProcessKinds DEF AttachKnown, Freeing, TypeOK
  <2> QED
    BY <2>1, <2>2, LeakFrame
<1>3. ASSUME NEW h \in Handlers, Detach(h)
      PROVE  NoLeakedSlot'
  <2>1. \A j \in held : Backed(j) => Backed(j)'
    BY <1>3 DEF Detach, Backed, TypeOK, indexVars, Queued, QueuedStates
  <2>2. held' = held /\ \A j \in held' : Freeing(j) => Freeing(j)'
    BY <1>3, ProcessKinds DEF Detach, Freeing, TypeOK
  <2> QED
    BY <2>1, <2>2, LeakFrame
<1>4. ASSUME NEW r \in Releasers, NEW i \in Ids, ReleaseForget(r, i)
      PROVE  NoLeakedSlot'
  <2>1. /\ pc[r] = "idle" /\ pc' = [pc EXCEPT ![r] = "gates"]
        /\ releasing' = [releasing EXCEPT ![r] = i] /\ held' = held
        /\ byID' = [byID EXCEPT ![i] = None]
        /\ wstate' = [w \in Waiters |-> IF w = byID[i] THEN "done" ELSE wstate[w]]
    BY <1>4 DEF ReleaseForget, ForgetId
  <2>2. Freeing(i)'
    BY <2>1, ProcessKinds DEF Freeing, TypeOK
  <2>3. \A j \in Ids : Freeing(j) => Freeing(j)'
    BY <2>1, ProcessKinds DEF Freeing, TypeOK
  <2>4. \A j \in Ids : j # i /\ Backed(j) => Backed(j)'
    BY <2>1 DEF Backed, TypeOK, IndexOK
  <2> QED
    BY <2>1, <2>2, <2>3, <2>4, LeakSplit DEF TypeOK
<1>5. ASSUME NEW r \in Releasers, ReleaseGates(r)
      PROVE  NoLeakedSlot'
  <2>1. /\ pc[r] = "gates" /\ pc' = [pc EXCEPT ![r] = "kick"]
        /\ releasing' = [releasing EXCEPT ![r] = None]
        /\ held' = held \ {releasing[r]} /\ UNCHANGED <<byID, wstate>>
    BY <1>5 DEF ReleaseGates, FreeSlot, indexVars, waiterVars
  <2>2. \A j \in held' : Freeing(j) => Freeing(j)'
    BY <2>1, ProcessKinds DEF Freeing, TypeOK
  <2>3. \A j \in held : Backed(j) => Backed(j)'
    BY <2>1 DEF Backed
  <2> QED
    BY <2>1, <2>2, <2>3, LeakFrame
<1>6. ASSUME NEW w \in Waiters, Queued(w), wstate' = [wstate EXCEPT ![w] = "done"],
             byID' = [byID EXCEPT ![IdOf(w)] = None], UNCHANGED <<held, pc, releasing>>
      PROVE  NoLeakedSlot'
  <2>1. byID[IdOf(w)] = w
    BY <1>6 DEF IndexOK, Queued, QueuedStates
  <2>2. \A j \in held : Backed(j) => Backed(j)'
    BY <1>6, <2>1 DEF Backed, TypeOK, Queued, QueuedStates, IndexOK
  <2>3. \A j \in held' : Freeing(j) => Freeing(j)'
    BY <1>6 DEF Freeing
  <2> QED
    BY <1>6, <2>2, <2>3, LeakFrame
<1>7. ASSUME NEW p \in Procs, ScheduleDeny(p)
      PROVE  NoLeakedSlot'
  <2>1. queue # <<>> /\ Queued(Head(queue))
    BY <1>7 DEF ScheduleDeny, DropDenied, HeadQueued
  <2>2. Head(queue) \in Waiters
    BY <2>1, TailElements DEF TypeOK
  <2> QED
    BY <1>6, <1>7, <2>1, <2>2 DEF ScheduleDeny, DropDenied, procVars
<1>8. CASE GCDrop
  <2>1. PICK n \in StaleAt :
          /\ wstate' = [wstate EXCEPT ![queue[n]] = "done"]
          /\ byID' = [byID EXCEPT ![IdOf(queue[n])] = None]
    BY <1>8 DEF GCDrop, DropAt
  <2>2. queue[n] \in Waiters /\ Queued(queue[n])
    BY DEF StaleAt, TypeOK, Queued, QueuedStates
  <2> QED
    BY <1>6, <1>8, <2>1, <2>2 DEF GCDrop, DropAt, procVars
<1>9. ASSUME NEW p \in Procs, ScheduleAdmit(p)
      PROVE  NoLeakedSlot'
  <2>1. queue # <<>> /\ Queued(Head(queue))
    BY <1>9 DEF ScheduleAdmit, AdmitHead, HeadQueued
  <2>2. PICK w \in Waiters : w = Head(queue)
    BY <2>1, TailElements DEF TypeOK
  <2>3. /\ Queued(w) /\ wstate' = [wstate EXCEPT ![w] = "admitted"]
        /\ held' = held \cup {IdOf(w)} /\ UNCHANGED <<byID, pc, releasing>>
    BY <1>9, <2>1, <2>2 DEF ScheduleAdmit, AdmitHead, procVars
  <2>4. byID[IdOf(w)] = w
    BY <2>3 DEF IndexOK, Queued, QueuedStates
  <2>5. Backed(IdOf(w))'
    <3>1. w # None /\ wstate'[w] = "admitted"
      BY <2>3, ConstantsAssumption DEF TypeOK
    <3> QED
      BY <2>3, <2>4, <3>1 DEF Backed
  <2>6. \A j \in held : Backed(j) => Backed(j)'
    BY <2>3 DEF Backed, TypeOK
  <2>7. \A j \in held : Freeing(j) => Freeing(j)'
    BY <2>3 DEF Freeing
  <2> QED
    BY <2>3, <2>5, <2>6, <2>7, LeakSplit
<1>10. ASSUME NEW w \in Waiters, GraceElapses(w)
       PROVE  NoLeakedSlot'
  <2>1. \A j \in held : Backed(j) => Backed(j)'
    BY <1>10 DEF GraceElapses, Backed, TypeOK, indexVars
  <2>2. held' = held /\ \A j \in held' : Freeing(j) => Freeing(j)'
    BY <1>10 DEF GraceElapses, Freeing, procVars
  <2> QED
    BY <2>1, <2>2, LeakFrame
<1>11. ASSUME UNCHANGED <<byID, wstate, held, releasing>>,
              \A r \in Releasers : pc[r] = "gates" => pc'[r] = "gates"
       PROVE  NoLeakedSlot'
  <2>1. \A j \in held : (Backed(j) => Backed(j)') /\ (Freeing(j) => Freeing(j)')
    BY <1>11 DEF Backed, Freeing
  <2> QED
    BY <1>11, <2>1, LeakFrame
<1>12. ASSUME NEW h \in Handlers,
              FastPathTake(h) \/ Receive(h) \/ FastPathMiss(h) \/ PollEnds(h)
       PROVE  NoLeakedSlot'
  BY <1>11, <1>12, ProcessKinds
     DEF FastPathTake, Receive, FastPathMiss, PollEnds, Take, indexVars, waiterVars, TypeOK
<1>13. ASSUME NEW p \in Procs,
              \/ ScheduleSkip(p) \/ ScheduleEnter(p) \/ SchedulePopStale(p)
              \/ ScheduleHold(p) \/ ScheduleEmpty(p)
       PROVE  NoLeakedSlot'
  <2>1. UNCHANGED <<byID, wstate, held, releasing>>
    BY <1>13 DEF ScheduleSkip, ScheduleEnter, SchedulePopStale, ScheduleHold, HoldHead, ScheduleEmpty,
                 indexVars, waiterVars, procVars
  <2>2. pc' = pc \/ (pc[p] = "kick" /\ pc' = [pc EXCEPT ![p] = AfterSchedule(p)])
    BY <1>13 DEF ScheduleSkip, ScheduleEnter, SchedulePopStale, ScheduleHold, HoldHead, ScheduleEmpty,
                 Scheduling, procVars
  <2> QED
    BY <1>11, <2>1, <2>2, ProcessKinds DEF TypeOK
<1>14. ASSUME NEW o \in Operators, Pause(o) \/ Drain(o) \/ Resume(o)
       PROVE  NoLeakedSlot'
  BY <1>11, <1>14, ProcessKinds DEF Pause, Drain, Resume, SetPolicy, indexVars, waiterVars, TypeOK
<1>15. ASSUME LoadReset \/ (\E s \in Samples : LoadSample(s)) \/ (\E i \in Ids : TimerFires(i))
       PROVE  NoLeakedSlot'
  BY <1>11, <1>15, ProcessKinds DEF LoadReset, LoadSample, TimerFires, indexVars, waiterVars, TypeOK
<1>16. ASSUME GCEnter \/ GCExit \/ (\E b \in Others \cup Ids : BuildSeen(b) \/ WindowPasses(b))
       PROVE  NoLeakedSlot'
  BY <1>11, <1>16 DEF GCEnter, GCExit, BuildSeen, WindowPasses, indexVars, waiterVars, procVars
<1>17. CASE UNCHANGED vars
  BY <1>11, <1>17 DEF vars, indexVars, waiterVars, procVars
<1> QED
  BY <1>1, <1>2, <1>3, <1>4, <1>5, <1>7, <1>8, <1>9, <1>10, <1>12, <1>13, <1>14, <1>15,
     <1>16, <1>17
     DEF Next, Attach, Handle, Schedule, GCQueued, Environment

(* A held slot belongs to an admitted waiter that Release will find, or to *)
(* a Release on its way (NoLeakedSlot): nothing else can strand it.        *)
THEOREM SlotsNotLeaked == Spec => []NoLeakedSlot
<1>1. Init => NoLeakedSlot
  BY DEF Init, NoLeakedSlot
<1>2. TypeInv /\ IndexOK /\ NoLeakedSlot /\ [Next]_vars => NoLeakedSlot'
  BY LeakStep
<1> QED
  BY TypeInvariance, IndexCorrect, <1>1, <1>2, PTL DEF Spec
-----------------------------------------------------------------------------
(***************************************************************************)
(* A waiter gets its one verdict when it leaves the queue: until then its  *)
(* channel is empty.                                                       *)
(***************************************************************************)
NoVerdictYet == \A w \in Waiters : Queued(w) => ch[w] = "none"

LEMMA NoVerdictInit == Init => NoVerdictYet
BY DEF Init, NoVerdictYet, Queued, QueuedStates

(* Steps that put no waiter in the queue and no verdict into a channel.    *)
LEMMA NoVerdictFrame ==
  ASSUME NoVerdictYet,
         \A w \in Waiters : Queued(w)' => Queued(w) /\ ch'[w] \in {ch[w], "none"}
  PROVE  NoVerdictYet'
BY DEF NoVerdictYet

LEMMA NoVerdictStep ==
  ASSUME TypeInv, NoVerdictYet, [Next]_vars
  PROVE  NoVerdictYet'
<1> USE DEF TypeInv, TypeOK, HandlersAttached, QueuedStates
<1>1. ASSUME NEW h \in Handlers, NEW i \in Ids, AttachNew(h, i)
      PROVE  NoVerdictYet'
  <2>1. PICK u \in Waiters : /\ wstate' = [wstate EXCEPT ![u] = "polled"]
                             /\ ch' = [ch EXCEPT ![u] = "none"]
    BY <1>1, FreshWaiter DEF AttachNew
  <2> QED
    BY <2>1 DEF NoVerdictYet, Queued
<1>2. ASSUME NEW h \in Handlers, NEW i \in Ids, AttachKnown(h, i)
      PROVE  NoVerdictYet'
  BY <1>2, NoVerdictFrame DEF AttachKnown, Queued
<1>3. ASSUME NEW h \in Handlers, FastPathTake(h) \/ Receive(h)
      PROVE  NoVerdictYet'
  BY <1>3, NoVerdictFrame DEF FastPathTake, Receive, Take, Queued
<1>4. ASSUME NEW h \in Handlers, FastPathMiss(h) \/ PollEnds(h) \/ Detach(h)
      PROVE  NoVerdictYet'
  BY <1>4, NoVerdictFrame DEF FastPathMiss, PollEnds, Detach, waiterVars, Queued
<1>5. ASSUME NEW r \in Releasers, ReleaseGates(r) \/ \E i \in Ids : ReleaseForget(r, i)
      PROVE  NoVerdictYet'
  BY <1>5, NoVerdictFrame DEF ReleaseGates, FreeSlot, ReleaseForget, ForgetId, waiterVars, Queued
<1>6. ASSUME NEW p \in Procs, ScheduleDeny(p) \/ ScheduleAdmit(p)
      PROVE  NoVerdictYet'
  <2>1. PICK u \in Waiters : u = Head(queue)
    BY <1>6, TailElements DEF ScheduleDeny, DropDenied, ScheduleAdmit, AdmitHead, HeadQueued
  <2>2. /\ wstate' = [wstate EXCEPT ![u] = "done"] \/ wstate' = [wstate EXCEPT ![u] = "admitted"]
        /\ \A w \in Waiters : w # u => ch'[w] = ch[w]
    BY <1>6, <2>1 DEF ScheduleDeny, DropDenied, ScheduleAdmit, AdmitHead, Deliver
  <2> QED
    BY <2>2, NoVerdictFrame DEF Queued
<1>7. ASSUME NEW p \in Procs,
             ScheduleSkip(p) \/ ScheduleEnter(p) \/ SchedulePopStale(p) \/ ScheduleHold(p) \/ ScheduleEmpty(p)
      PROVE  NoVerdictYet'
  BY <1>7, NoVerdictFrame DEF ScheduleSkip, ScheduleEnter, SchedulePopStale, ScheduleHold, HoldHead,
     ScheduleEmpty, waiterVars, Queued
<1>8. CASE GCDrop
  BY <1>8, NoVerdictFrame DEF GCDrop, DropAt, Queued
<1>9. CASE GCEnter \/ GCExit \/ Environment
  BY <1>9, NoVerdictFrame DEF GCEnter, GCExit, Environment, GraceElapses, BuildSeen, WindowPasses,
     waiterVars, Queued
<1>10. CASE \/ \E o \in Operators : Pause(o) \/ Drain(o) \/ Resume(o)
            \/ LoadReset \/ (\E s \in Samples : LoadSample(s)) \/ (\E i \in Ids : TimerFires(i))
  BY <1>10, NoVerdictFrame DEF Pause, Drain, Resume, SetPolicy, LoadReset, LoadSample, TimerFires,
     waiterVars, Queued
<1>11. CASE UNCHANGED vars
  BY <1>11, NoVerdictFrame DEF vars, waiterVars, Queued
<1> QED
  BY <1>1, <1>2, <1>3, <1>4, <1>5, <1>6, <1>7, <1>8, <1>9, <1>10, <1>11
     DEF Next, Attach, Handle, Schedule, GCQueued

LEMMA NoVerdictInvariance == Spec => []NoVerdictYet
<1>1. TypeInv /\ NoVerdictYet /\ [Next]_vars => NoVerdictYet'
  BY NoVerdictStep
<1> QED
  BY TypeInvariance, NoVerdictInit, <1>1, PTL DEF Spec
================================================================================
