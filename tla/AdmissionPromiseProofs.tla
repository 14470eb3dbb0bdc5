------------------------ MODULE AdmissionPromiseProofs ------------------------
(***************************************************************************)
(* The admission engine implements SlotQueue, for every number of clients  *)
(* and every policy.  The proof looks at the queue as an order on waiters  *)
(* (Before) instead of positions: every action either keeps the queued     *)
(* waiters and their order, or appends one, or takes one out.              *)
(***************************************************************************)
EXTENDS AdmissionPromise, AdmissionProofs

Before(v, w) ==
  \E m, n \in DOMAIN queue : m < n /\ queue[m] = v /\ queue[n] = w

WaitingView == {i \in Ids : \E v \in Waiters : Queued(v) /\ IdOf(v) = i}
AheadView == {e \in Ids \X Ids : \E v, w \in Waiters :
                /\ Before(v, w) /\ Queued(v) /\ Queued(w)
                /\ e[1] = IdOf(v) /\ e[2] = IdOf(w)}

Inv == TypeInv /\ IndexOK /\ HeldBounded

LEMMA InvInvariance == Spec => []Inv
BY TypeInvariance, IndexCorrect, HeldInvariance, PTL DEF Inv

LEMMA InvStep == Inv /\ [Next]_vars => Inv'
BY TypeStep, IndexStep, HeldStep DEF Inv, TypeInv

(* The refinement mapping in terms of Queued and Before.                   *)
LEMMA LineView == TypeOK /\ IndexOK => Waiting = WaitingView /\ Ahead = AheadView
<1> SUFFICES ASSUME TypeOK, IndexOK PROVE Waiting = WaitingView /\ Ahead = AheadView
  OBVIOUS
<1>1. \A n \in DOMAIN queue : queue[n] \in Waiters
  BY DEF TypeOK
<1>2. \A v \in Waiters : Queued(v) => \E n \in DOMAIN queue : queue[n] = v
  BY DEF IndexOK
<1>3. Waiting = WaitingView
  BY <1>1, <1>2 DEF Waiting, WaitingView
<1>4. Ahead = AheadView
  BY <1>1 DEF Ahead, AheadView, Before
<1> QED
  BY <1>3, <1>4

LEMMA LineViewNext ==
  Inv' => Waiting' = WaitingView' /\ Ahead' = AheadView'
<1>1. Inv => Waiting = WaitingView /\ Ahead = AheadView
  BY LineView DEF Inv, TypeInv
<1>2. (Inv => Waiting = WaitingView /\ Ahead = AheadView)'
  BY <1>1, PTL
<1> QED
  BY <1>2

(* An id has at most one queued waiter.                                    *)
LEMMA OneQueued ==
  ASSUME IndexOK, NEW v \in Waiters, NEW w \in Waiters,
         Queued(v), Queued(w), IdOf(v) = IdOf(w)
  PROVE  v = w
BY DEF IndexOK, Queued, QueuedStates

(* Nobody joins or leaves.                                                 *)
LEMMA LineKept ==
  ASSUME Inv, Inv',
         \A v \in Waiters : Queued(v)' <=> Queued(v),
         \A v, w \in Waiters : Queued(v) /\ Queued(w) => (Before(v, w)' <=> Before(v, w))
  PROVE  Waiting' = Waiting /\ Ahead' = Ahead
<1>1. WaitingView' = WaitingView
  BY DEF WaitingView
<1>2. AheadView' = AheadView
  BY DEF AheadView
<1> QED
  BY <1>1, <1>2, LineView, LineViewNext DEF Inv, TypeInv

(* One queued waiter leaves the line.                                      *)
LEMMA LineLeft ==
  ASSUME Inv, Inv', NEW u \in Waiters, Queued(u),
         \A v \in Waiters : Queued(v)' <=> Queued(v) /\ v # u,
         \A v, w \in Waiters :
           Queued(v) /\ Queued(w) /\ v # u /\ w # u => (Before(v, w)' <=> Before(v, w))
  PROVE  /\ IdOf(u) \in Waiting
         /\ Waiting' = Waiting \ {IdOf(u)}
         /\ Ahead' = {e \in Ahead : e[1] # IdOf(u) /\ e[2] # IdOf(u)}
<1>1. \A v \in Waiters : Queued(v) /\ IdOf(v) = IdOf(u) => v = u
  BY OneQueued DEF Inv
<1>2. IdOf(u) \in Ids
  BY DEF Waiters, IdOf
<1>3. IdOf(u) \in WaitingView
  BY <1>2 DEF WaitingView
<1>4. WaitingView' = WaitingView \ {IdOf(u)}
  BY <1>1 DEF WaitingView
<1>5. AheadView' = {e \in AheadView : e[1] # IdOf(u) /\ e[2] # IdOf(u)}
  <2>1. ASSUME NEW e \in Ids \X Ids
        PROVE  e \in AheadView' <=> e \in AheadView /\ e[1] # IdOf(u) /\ e[2] # IdOf(u)
    BY <1>1 DEF AheadView
  <2> QED
    BY <2>1 DEF AheadView
<1> QED
  BY <1>3, <1>4, <1>5, LineView, LineViewNext DEF Inv, TypeInv

(* One waiter joins at the end of the line.                                *)
LEMMA LineJoined ==
  ASSUME Inv, Inv', NEW u \in Waiters, ~Queued(u),
         \A v \in Waiters : Queued(v) => IdOf(v) # IdOf(u),
         \A v \in Waiters : Queued(v)' <=> Queued(v) \/ v = u,
         \A v, w \in Waiters : Queued(v) /\ Queued(w) => (Before(v, w)' <=> Before(v, w)),
         \A v \in Waiters : Queued(v) => Before(v, u)',
         \A v \in Waiters : ~Before(u, v)'
  PROVE  /\ IdOf(u) \notin Waiting
         /\ Waiting' = Waiting \cup {IdOf(u)}
         /\ Ahead' = Ahead \cup (Waiting \X {IdOf(u)})
<1>1. IdOf(u) \in Ids
  BY DEF Waiters, IdOf
<1>2. IdOf(u) \notin WaitingView
  BY DEF WaitingView
<1>3. WaitingView' = WaitingView \cup {IdOf(u)}
  BY <1>1 DEF WaitingView
<1>4. AheadView' = AheadView \cup (WaitingView \X {IdOf(u)})
  <2>1. ASSUME NEW e \in Ids \X Ids, e \in AheadView'
        PROVE  e \in AheadView \cup (WaitingView \X {IdOf(u)})
    <3>1. PICK v \in Waiters, w \in Waiters :
            Before(v, w)' /\ Queued(v)' /\ Queued(w)' /\ e[1] = IdOf(v) /\ e[2] = IdOf(w)
      BY <2>1 DEF AheadView
    <3>2. v # u /\ Queued(v)
      BY <3>1
    <3>3. CASE w = u
      BY <2>1, <3>1, <3>2, <3>3 DEF WaitingView
    <3>4. CASE w # u
      BY <2>1, <3>1, <3>2, <3>4 DEF AheadView
    <3> QED
      BY <3>3, <3>4
  <2>2. AheadView \subseteq AheadView'
    BY DEF AheadView
  <2>3. ASSUME NEW i \in WaitingView
        PROVE  <<i, IdOf(u)>> \in AheadView'
    BY <1>1 DEF AheadView, WaitingView
  <2> QED
    BY <2>1, <2>2, <2>3 DEF AheadView
<1> QED
  BY <1>2, <1>3, <1>4, LineView, LineViewNext DEF Inv, TypeInv

-----------------------------------------------------------------------------
(* Steps that leave the queue alone and no queued waiter's being so.       *)
LEMMA Aside ==
  ASSUME Inv, Inv', UNCHANGED <<queue, held>>,
         \A v \in Waiters : Queued(v)' <=> Queued(v)
  PROVE  UNCHANGED <<Waiting, Ahead, held>>
BY LineKept DEF Before

(* The order after the element at place n is taken out of the queue.       *)
LEMMA TakenOut ==
  ASSUME TypeOK, IndexOK, NEW n \in DOMAIN queue,
         queue' = [m \in 1..(Len(queue) - 1) |-> IF m < n THEN queue[m] ELSE queue[m + 1]],
         NEW v, NEW w, v # queue[n], w # queue[n]
  PROVE  Before(v, w)' <=> Before(v, w)
<1>1. Len(queue) \in Nat /\ DOMAIN queue = 1..Len(queue) /\ DOMAIN queue' = 1..(Len(queue) - 1)
  BY DEF TypeOK
<1>2. ASSUME Before(v, w)' PROVE Before(v, w)
  <2>1. PICK k \in DOMAIN queue', m \in DOMAIN queue' : k < m /\ queue'[k] = v /\ queue'[m] = w
    BY <1>2 DEF Before
  <2> DEFINE up(a) == IF a < n THEN a ELSE a + 1
  <2>2. /\ up(k) \in DOMAIN queue /\ up(m) \in DOMAIN queue /\ up(k) < up(m)
        /\ queue[up(k)] = v /\ queue[up(m)] = w
    BY <1>1, <2>1
  <2> QED
    BY <2>2 DEF Before
<1>3. ASSUME Before(v, w) PROVE Before(v, w)'
  <2>1. PICK k \in DOMAIN queue, m \in DOMAIN queue : k < m /\ queue[k] = v /\ queue[m] = w
    BY <1>3 DEF Before
  <2> DEFINE down(a) == IF a < n THEN a ELSE a - 1
  <2>2. k # n /\ m # n
    BY <2>1
  <2>3. /\ down(k) \in DOMAIN queue' /\ down(m) \in DOMAIN queue' /\ down(k) < down(m)
        /\ queue'[down(k)] = v /\ queue'[down(m)] = w
    BY <1>1, <2>1, <2>2
  <2> QED
    BY <2>3 DEF Before
<1> QED
  BY <1>2, <1>3

(* Popping the head takes out the element at place 1.                      *)
LEMMA TailTakesOut ==
  ASSUME TypeOK, queue # <<>>, queue' = Tail(queue)
  PROVE  /\ 1 \in DOMAIN queue /\ Head(queue) = queue[1] /\ Head(queue) \in Waiters
         /\ queue' = [m \in 1..(Len(queue) - 1) |-> IF m < 1 THEN queue[m] ELSE queue[m + 1]]
<1>1. queue \in Seq(Waiters) /\ Tail(queue) \in Seq(Waiters)
  BY HeadTailProperties DEF TypeOK
<1>2. Len(Tail(queue)) = Len(queue) - 1 /\ Len(queue) \in Nat
  BY <1>1, HeadTailProperties
<1>3. Tail(queue) = [m \in 1..(Len(queue) - 1) |-> queue[m + 1]]
  <2> DEFINE t == [m \in 1..(Len(queue) - 1) |-> queue[m + 1]]
  <2>1. Len(queue) > 0 /\ \A m \in 1..(Len(queue) - 1) : queue[m + 1] \in Waiters
    BY <1>1, <1>2, EmptySeq
  <2>2. t \in Seq(Waiters) /\ Len(t) = Len(queue) - 1
    BY <1>2, <2>1, IsASeq
  <2>3. \A m \in 1..Len(t) : t[m] = Tail(queue)[m]
    BY <1>1, <1>2, <2>2, HeadTailProperties
  <2> QED
    BY <1>1, <1>2, <2>2, <2>3, SeqEqual
<1>4. \A m \in 1..(Len(queue) - 1) : ~(m < 1)
  BY <1>2
<1> QED
  BY <1>1, <1>3, <1>4, TailElements

(* SlotQueue counts with the Cardinality of its own instance of FiniteSets. *)
LEMMA SameCardinality == Promise!Cardinality(held) = Cardinality(held)
BY DEF Promise!Cardinality, Cardinality

LEMMA PromiseStep ==
  ASSUME Inv, [Next]_vars
  PROVE  [Promise!Next]_<<Waiting, Ahead, held>>
<1> USE DEF Inv, TypeInv
<1>0. Inv'
  BY InvStep
<1>1. ASSUME NEW h \in Handlers, NEW i \in Ids, AttachNew(h, i)
      PROVE  Promise!Join(i)
  <2>1. PICK u \in Waiters : u = CHOOSE x \in FreeWaiters(i) : TRUE
    BY <1>1, FreshWaiter DEF AttachNew
  <2>2. IdOf(u) = i /\ ~Reachable(u)
    BY <1>1, <2>1, FreshWaiter DEF AttachNew
  <2>3. /\ byID[i] = None /\ queue' = Append(queue, u) /\ held' = held
        /\ wstate' = [wstate EXCEPT ![u] = "polled"]
    BY <1>1, <2>1 DEF AttachNew
  <2>4. \A v \in Waiters : wstate[v] # "done" => IdOf(v) # i
    BY <2>3, ConstantsAssumption DEF IndexOK
  <2>5. ~Queued(u) /\ \A v \in Waiters : Queued(v) => IdOf(v) # IdOf(u)
    BY <2>2, <2>4 DEF Queued, QueuedStates
  <2>6. \A v \in Waiters : Queued(v)' <=> Queued(v) \/ v = u
    BY <2>3 DEF Queued, QueuedStates, TypeOK
  <2>7. /\ Len(queue) \in Nat /\ DOMAIN queue = 1..Len(queue)
        /\ DOMAIN queue' = 1..(Len(queue) + 1) /\ queue'[Len(queue) + 1] = u
        /\ \A n \in DOMAIN queue : queue'[n] = queue[n] /\ queue[n] # u
    BY <2>2, <2>3, AppendProperties DEF TypeOK, Reachable
  <2>8. ASSUME NEW v \in Waiters, NEW w \in Waiters, Queued(v), Queued(w)
        PROVE  Before(v, w)' <=> Before(v, w)
    <3>1. v # u /\ w # u
      BY <2>5, <2>8
    <3>2. ASSUME Before(v, w)' PROVE Before(v, w)
      BY <2>7, <3>1, <3>2 DEF Before
    <3>3. ASSUME Before(v, w) PROVE Before(v, w)'
      BY <2>7, <3>3 DEF Before
    <3> QED
      BY <3>2, <3>3
  <2>9. ASSUME NEW v \in Waiters, Queued(v)
        PROVE  Before(v, u)'
    <3>1. PICK n \in DOMAIN queue : queue[n] = v
      BY <2>9 DEF IndexOK
    <3>2. n \in DOMAIN queue' /\ Len(queue) + 1 \in DOMAIN queue' /\ n < Len(queue) + 1
      BY <2>7
    <3> QED
      BY <2>7, <3>1, <3>2 DEF Before
  <2>10. ASSUME NEW v \in Waiters
         PROVE  ~Before(u, v)'
    <3>1. \A n \in DOMAIN queue' : queue'[n] = u => n = Len(queue) + 1
      BY <2>7
    <3> QED
      BY <2>7, <3>1 DEF Before
  <2>11. /\ i \notin Waiting /\ Waiting' = Waiting \cup {i}
         /\ Ahead' = Ahead \cup (Waiting \X {i})
    BY <1>0, <2>2, <2>5, <2>6, <2>8, <2>9, <2>10, LineJoined
  <2> QED
    BY <2>3, <2>11 DEF Promise!Join
<1>2. ASSUME NEW h \in Handlers, NEW i \in Ids, AttachKnown(h, i)
      PROVE  UNCHANGED <<Waiting, Ahead, held>>
  <2>1. \A v \in Waiters : Queued(v)' <=> Queued(v)
    BY <1>2 DEF AttachKnown, Queued, QueuedStates, TypeOK
  <2> QED
    BY <1>0, <1>2, <2>1, Aside DEF AttachKnown, indexVars
<1>3. ASSUME NEW h \in Handlers, Detach(h)
      PROVE  UNCHANGED <<Waiting, Ahead, held>>
  <2>1. \A v \in Waiters : Queued(v)' <=> Queued(v)
    BY <1>3 DEF Detach, Queued, QueuedStates, TypeOK
  <2> QED
    BY <1>0, <1>3, <2>1, Aside DEF Detach, indexVars
<1>4. ASSUME NEW w \in Waiters, GraceElapses(w)
      PROVE  UNCHANGED <<Waiting, Ahead, held>>
  <2>1. \A v \in Waiters : Queued(v)' <=> Queued(v)
    BY <1>4 DEF GraceElapses, Queued, QueuedStates, TypeOK
  <2> QED
    BY <1>0, <1>4, <2>1, Aside DEF GraceElapses, indexVars
<1>5. ASSUME NEW r \in Releasers, NEW i \in Ids, ReleaseForget(r, i)
      PROVE  Promise!Leave(i) \/ UNCHANGED <<Waiting, Ahead, held>>
  <2>1. /\ UNCHANGED <<queue, held>>
        /\ \A v \in Waiters : wstate'[v] = IF v = byID[i] THEN "done" ELSE wstate[v]
    BY <1>5 DEF ReleaseForget, ForgetId
  <2>2. CASE byID[i] \in Waiters /\ Queued(byID[i])
    <3>1. PICK u \in Waiters : u = byID[i]
      BY <2>2
    <3>2. IdOf(u) = i /\ Queued(u)
      BY <2>2, <3>1, ConstantsAssumption DEF IndexOK
    <3>3. \A v \in Waiters : Queued(v)' <=> Queued(v) /\ v # u
      BY <2>1, <3>1 DEF Queued, QueuedStates
    <3>4. \A v, w \in Waiters : Before(v, w)' <=> Before(v, w)
      BY <2>1 DEF Before
    <3>5. /\ i \in Waiting /\ Waiting' = Waiting \ {i}
          /\ Ahead' = {e \in Ahead : e[1] # i /\ e[2] # i}
      BY <1>0, <3>2, <3>3, <3>4, LineLeft
    <3> QED
      BY <2>1, <3>5 DEF Promise!Leave, Promise!Without
  <2>3. CASE ~(byID[i] \in Waiters /\ Queued(byID[i]))
    <3>1. \A v \in Waiters : Queued(v)' <=> Queued(v)
      BY <2>1, <2>3 DEF Queued, QueuedStates
    <3> QED
      BY <1>0, <2>1, <3>1, Aside
  <2> QED
    BY <2>2, <2>3
<1>6. ASSUME NEW r \in Releasers, ReleaseGates(r)
      PROVE  (\E i \in Ids : Promise!Free(i)) \/ UNCHANGED <<Waiting, Ahead, held>>
  <2>1. UNCHANGED <<queue, wstate>> /\ held' = held \ {releasing[r]}
    BY <1>6 DEF ReleaseGates, FreeSlot, indexVars, waiterVars
  <2>2. UNCHANGED <<Waiting, Ahead>>
    BY <2>1 DEF Waiting, Ahead, Queued
  <2>3. CASE releasing[r] \in held
    BY <2>1, <2>2, <2>3 DEF Promise!Free, TypeOK
  <2>4. CASE releasing[r] \notin held
    BY <2>1, <2>2, <2>4
  <2> QED
    BY <2>3, <2>4
<1>7. ASSUME NEW p \in Procs, SchedulePopStale(p)
      PROVE  UNCHANGED <<Waiting, Ahead, held>>
  <2>1. /\ queue # <<>> /\ ~Queued(Head(queue)) /\ queue' = Tail(queue)
        /\ UNCHANGED <<wstate, held>>
    BY <1>7 DEF SchedulePopStale, HeadQueued, waiterVars
  <2>2. \A v \in Waiters : Queued(v)' <=> Queued(v)
    BY <2>1 DEF Queued
  <2>3. ASSUME NEW v \in Waiters, NEW w \in Waiters, Queued(v), Queued(w)
        PROVE  Before(v, w)' <=> Before(v, w)
    <3>1. v # queue[1] /\ w # queue[1]
      BY <2>1, <2>3, TailTakesOut
    <3> QED
      BY <2>1, <3>1, TailTakesOut, TakenOut
  <2> QED
    BY <1>0, <2>1, <2>2, <2>3, LineKept
(* A queued waiter at place n leaves the queue for another state.          *)
<1>8. ASSUME NEW n \in DOMAIN queue, Queued(queue[n]), NEW x \in {"admitted", "done"},
             wstate' = [wstate EXCEPT ![queue[n]] = x],
             queue' = [m \in 1..(Len(queue) - 1) |-> IF m < n THEN queue[m] ELSE queue[m + 1]]
      PROVE  /\ IdOf(queue[n]) \in Waiting
             /\ Waiting' = Waiting \ {IdOf(queue[n])}
             /\ Ahead' = {e \in Ahead : e[1] # IdOf(queue[n]) /\ e[2] # IdOf(queue[n])}
  <2>1. PICK u \in Waiters : u = queue[n]
    BY DEF TypeOK
  <2>2. Queued(u) /\ \A v \in Waiters : Queued(v)' <=> Queued(v) /\ v # u
    BY <1>8, <2>1 DEF Queued, QueuedStates, TypeOK
  <2>3. \A v, w \in Waiters : v # u /\ w # u => (Before(v, w)' <=> Before(v, w))
    BY <1>8, <2>1, TakenOut
  <2> QED
    BY <1>0, <2>1, <2>2, <2>3, LineLeft
<1>9. ASSUME NEW p \in Procs, ScheduleDeny(p)
      PROVE  \E i \in Ids : Promise!Leave(i)
  <2>1. /\ queue # <<>> /\ Queued(Head(queue)) /\ queue' = Tail(queue) /\ held' = held
        /\ wstate' = [wstate EXCEPT ![Head(queue)] = "done"]
    BY <1>9 DEF ScheduleDeny, DropDenied, HeadQueued
  <2>2. IdOf(queue[1]) \in Ids
    BY <2>1, TailTakesOut DEF Waiters, IdOf
  <2> QED
    BY <1>8, <2>1, <2>2, TailTakesOut DEF Promise!Leave, Promise!Without
<1>10. ASSUME NEW p \in Procs, ScheduleAdmit(p)
       PROVE  \E i \in Ids : Promise!Grant(i)
  <2>1. /\ queue # <<>> /\ Queued(Head(queue)) /\ queue' = Tail(queue)
        /\ wstate' = [wstate EXCEPT ![Head(queue)] = "admitted"]
        /\ held' = held \cup {IdOf(Head(queue))}
        /\ SemaphoreTry(IdOf(Head(queue)))
    BY <1>10 DEF ScheduleAdmit, AdmitHead, HeadQueued, GatesAdmit
  <2>2. IdOf(queue[1]) \in Ids
    BY <2>1, TailTakesOut DEF Waiters, IdOf
  <2>3. \A j \in Waiting : <<j, IdOf(queue[1])>> \notin Ahead
    <3>1. ASSUME NEW m \in DOMAIN queue, NEW n \in DOMAIN queue, m < n,
                 Queued(queue[n]), IdOf(queue[n]) = IdOf(queue[1])
          PROVE  FALSE
      <4>1. queue[n] \in Waiters /\ queue[1] \in Waiters /\ 1 \in DOMAIN queue
        BY <2>1, TailTakesOut DEF TypeOK
      <4>2. queue[n] = queue[1]
        BY <2>1, <3>1, <4>1, OneQueued, TailTakesOut
      <4> QED
        BY <3>1, <4>1, <4>2 DEF IndexOK, TypeOK
    <3> QED
      BY <3>1 DEF Ahead
  <2> QED
    <3> PICK i \in Ids : i = IdOf(queue[1])
      BY <2>2
    <3>1. Head(queue) = queue[1] /\ 1 \in DOMAIN queue
      BY <2>1, TailTakesOut
    <3>2. held' = held \cup {i} /\ (i \in held \/ Cardinality(held) < Slots)
      BY <2>1, <3>1 DEF SemaphoreTry
    <3>3. /\ i \in Waiting /\ Waiting' = Waiting \ {i}
          /\ Ahead' = {e \in Ahead : e[1] # i /\ e[2] # i}
      BY <1>8, <2>1, <3>1, TailTakesOut
    <3>4. \A j \in Waiting : <<j, i>> \notin Ahead
      BY <2>3
    <3>5. Promise!Grant(i)
      BY <3>2, <3>3, <3>4, SameCardinality DEF Promise!Grant, Promise!Without
    <3> QED
      BY <3>5
<1>11. CASE GCDrop
  <2>1. PICK n \in StaleAt : DropAt(n)
    BY <1>11 DEF GCDrop
  <2>2. n \in DOMAIN queue /\ Queued(queue[n]) /\ IdOf(queue[n]) \in Ids /\ held' = held
    BY <2>1 DEF StaleAt, Queued, QueuedStates, TypeOK, Waiters, IdOf, DropAt
  <2>3. Promise!Leave(IdOf(queue[n]))
    BY <1>8, <2>1, <2>2 DEF DropAt, Promise!Leave, Promise!Without
  <2> QED
    BY <2>2, <2>3 DEF Promise!Next
<1>12. ASSUME UNCHANGED <<queue, wstate, held>>
       PROVE  UNCHANGED <<Waiting, Ahead, held>>
  BY <1>12 DEF Waiting, Ahead, Queued
<1>13. ASSUME NEW h \in Handlers,
              FastPathTake(h) \/ Receive(h) \/ FastPathMiss(h) \/ PollEnds(h)
       PROVE  UNCHANGED <<queue, wstate, held>>
  BY <1>13 DEF FastPathTake, Receive, FastPathMiss, PollEnds, Take, indexVars, waiterVars
<1>14. ASSUME NEW p \in Procs,
              ScheduleSkip(p) \/ ScheduleEnter(p) \/ ScheduleHold(p) \/ ScheduleEmpty(p)
       PROVE  UNCHANGED <<queue, wstate, held>>
  BY <1>14 DEF ScheduleSkip, ScheduleEnter, ScheduleHold, HoldHead, ScheduleEmpty,
               indexVars, waiterVars
<1>15. ASSUME NEW o \in Operators, Pause(o) \/ Drain(o) \/ Resume(o)
       PROVE  UNCHANGED <<queue, wstate, held>>
  BY <1>15 DEF Pause, Drain, Resume, SetPolicy, indexVars, waiterVars
<1>16. ASSUME GCEnter \/ GCExit \/ LoadReset \/ (\E s \in Samples : LoadSample(s))
                \/ (\E i \in Ids : TimerFires(i))
                \/ (\E b \in Others \cup Ids : BuildSeen(b) \/ WindowPasses(b))
       PROVE  UNCHANGED <<queue, wstate, held>>
  BY <1>16 DEF GCEnter, GCExit, LoadReset, LoadSample, TimerFires, BuildSeen, WindowPasses,
               indexVars, waiterVars
<1>17. CASE UNCHANGED vars
  BY <1>12, <1>17 DEF vars, indexVars, waiterVars
<1> HIDE DEF Inv, TypeInv
<1>18. CASE Next
  <2>1. CASE \E h \in Handlers, i \in Ids : Attach(h, i)
    BY <1>1, <1>2, <2>1 DEF Attach, Promise!Next
  <2>2. CASE \E h \in Handlers : Handle(h)
    BY <1>3, <1>12, <1>13, <2>2 DEF Handle
  <2>3. CASE (\E r \in Releasers, i \in Ids : ReleaseForget(r, i))
               \/ (\E r \in Releasers : ReleaseGates(r))
    BY <1>5, <1>6, <2>3 DEF Promise!Next
  <2>4. CASE \E p \in Procs : Schedule(p)
    BY <1>7, <1>9, <1>10, <1>12, <1>14, <2>4 DEF Schedule, Promise!Next
  <2>5. CASE GCQueued
    BY <1>11, <1>12, <1>16, <2>5 DEF GCQueued
  <2>6. CASE \/ LoadReset \/ (\E s \in Samples : LoadSample(s))
             \/ (\E i \in Ids : TimerFires(i))
             \/ (\E o \in Operators : Pause(o) \/ Drain(o) \/ Resume(o))
    BY <1>12, <1>15, <1>16, <2>6
  <2>7. CASE Environment
    BY <1>4, <1>12, <1>16, <2>7 DEF Environment
  <2> QED
    BY <1>18, <2>1, <2>2, <2>3, <2>4, <2>5, <2>6, <2>7 DEF Next
<1> QED
  BY <1>17, <1>18

(* The engine implements SlotQueue (KeepsPromise): arrivals are served in  *)
(* order, whatever the gates, the handlers, the collector and concurrent   *)
(* releases do.                                                            *)
THEOREM EngineKeepsPromise == Spec => KeepsPromise
<1>1. Init => Promise!Init
  BY DEF Init, Promise!Init, Waiting, Ahead
<1>2. Inv /\ [Next]_vars => [Promise!Next]_<<Waiting, Ahead, held>>
  BY PromiseStep
<1> QED
  BY InvInvariance, <1>1, <1>2, PTL DEF Spec, KeepsPromise, Promise!Spec, Promise!qvars
-----------------------------------------------------------------------------
(***************************************************************************)
(* Wake-ups.  Whoever changes what a gate may answer, or adds a waiter, is *)
(* on its way to schedule() until a schedule() has looked at the result:   *)
(* so when nobody is on its way, the last schedule() found the queue empty *)
(* or left its head held, with a timer unless it was for want of a slot.   *)
(* Those who drop a held head without calling schedule(), the collector    *)
(* and the grace period, need no wake-up: a slot is free to every waiter   *)
(* or to none, and a timer armed for the old head wakes the new one.       *)
(***************************************************************************)
Coming    == \E p \in Procs : pc[p] \in {"kick", "gates", "reset"}
AnyQueued == \E w \in Waiters : Queued(w)

WakeInv ==
  ~Coming /\ ~paused /\ AnyQueued =>
    ~draining /\ (Cardinality(held) < Slots => timers # {})

(* Nobody is queued behind an empty queue.                                 *)
LEMMA EmptyLine == IndexOK /\ queue = <<>> => ~AnyQueued
BY DEF IndexOK, AnyQueued

LEMMA ComesNow ==
  ASSUME NEW p \in Procs, pc'[p] \in {"kick", "gates", "reset"}
  PROVE  WakeInv'
BY DEF WakeInv, Coming

(* Steps of those who are not on their way and change no gate.             *)
LEMMA WakeFrame ==
  ASSUME WakeInv, Coming => Coming', AnyQueued' => AnyQueued,
         UNCHANGED <<paused, draining, held, timers>>
  PROVE  WakeInv'
BY DEF WakeInv

LEMMA WakeStep ==
  ASSUME Inv, WakeInv, [Next]_vars
  PROVE  WakeInv'
<1> USE ProcessKinds DEF Inv, TypeInv, procVars, waiterVars, indexVars, policyVars, loadVars
<1>0. pc \in [Procs -> PCs]
  BY DEF TypeOK
<1>1. ASSUME NEW h \in Handlers, NEW i \in Ids, Attach(h, i)
      PROVE  WakeInv'
  BY <1>0, <1>1, ComesNow DEF Attach, AttachNew, AttachKnown
<1>2. ASSUME NEW r \in Releasers,
             ReleaseGates(r) \/ \E i \in Ids : ReleaseForget(r, i)
      PROVE  WakeInv'
  BY <1>0, <1>2, ComesNow DEF ReleaseGates, FreeSlot, ReleaseForget, ForgetId
<1>3. ASSUME NEW p \in Procs,
             ScheduleEnter(p) \/ SchedulePopStale(p) \/ ScheduleDeny(p) \/ ScheduleAdmit(p)
      PROVE  WakeInv'
  BY <1>0, <1>3, ComesNow DEF ScheduleEnter, SchedulePopStale, ScheduleDeny, DropDenied,
     ScheduleAdmit, AdmitHead, Scheduling
<1>4. ASSUME NEW o \in Operators, Pause(o) \/ Drain(o) \/ Resume(o)
      PROVE  WakeInv'
  BY <1>0, <1>4, ComesNow DEF Pause, Drain, Resume, SetPolicy
<1>5. CASE LoadReset \/ (\E s \in Samples : LoadSample(s)) \/ (\E i \in Ids : TimerFires(i))
  BY <1>0, <1>5, ComesNow DEF LoadReset, LoadSample, TimerFires
<1>6. ASSUME NEW p \in Procs, ScheduleSkip(p)
      PROVE  WakeInv'
  <2>1. (paused \/ queue = <<>>) /\ UNCHANGED <<queue, wstate, paused>>
    BY <1>6 DEF ScheduleSkip
  <2>2. AnyQueued' => AnyQueued
    BY <2>1 DEF AnyQueued, Queued
  <2> QED
    BY <2>1, <2>2, EmptyLine DEF WakeInv
<1>7. ASSUME NEW p \in Procs, ScheduleEmpty(p)
      PROVE  WakeInv'
  <2>1. queue = <<>> /\ wstate' = wstate
    BY <1>7 DEF ScheduleEmpty
  <2>2. AnyQueued' => AnyQueued
    BY <2>1 DEF AnyQueued, Queued
  <2> QED
    BY <2>1, <2>2, EmptyLine DEF WakeInv
(* The head is held, by want of a slot or with a timer.                    *)
<1>8. ASSUME NEW p \in Procs, ScheduleHold(p)
      PROVE  WakeInv'
  <2>1. ~draining /\ UNCHANGED <<draining, held>> /\ timers' = Armed(IdOf(Head(queue)))
    BY <1>8 DEF ScheduleHold, HoldHead
  <2>2. Cardinality(held) < Slots => timers' # {}
    BY <2>1 DEF Armed, SemaphoreTry
  <2> QED
    BY <2>1, <2>2 DEF WakeInv
(* A handler stands elsewhere before and after its own steps.              *)
<1>9. ASSUME NEW h \in Handlers, Handle(h)
      PROVE  WakeInv'
  <2>1. pc[h] \in {"fast", "select", "reply"}
    BY <1>9 DEF Handle, FastPathTake, FastPathMiss, Receive, PollEnds, Detach
  <2>2. /\ \A p \in Procs : p # h => pc'[p] = pc[p]
        /\ UNCHANGED <<paused, draining, held, timers>>
    BY <1>0, <1>9 DEF Handle, FastPathTake, FastPathMiss, Receive, PollEnds, Detach, Take
  <2>3. \A w \in Waiters : Queued(w)' => Queued(w)
    BY <1>9 DEF Handle, FastPathTake, FastPathMiss, Receive, PollEnds, Detach, Take,
                Queued, QueuedStates, TypeOK
  <2> QED
    BY <2>1, <2>2, <2>3, WakeFrame DEF Coming, AnyQueued
<1>10. CASE GCQueued \/ Environment
  <2>1. UNCHANGED <<pc, paused, draining, held, timers>>
    BY <1>10 DEF GCQueued, GCEnter, GCDrop, DropAt, GCExit, Environment, GraceElapses,
                 BuildSeen, WindowPasses
  <2>2. \A w \in Waiters : Queued(w)' => Queued(w)
    <3>1. CASE GCDrop
      BY <3>1 DEF GCDrop, DropAt, Queued, QueuedStates, TypeOK
    <3>2. CASE GCEnter \/ GCExit
      BY <3>2 DEF GCEnter, GCExit, Queued
    <3>3. CASE \E w \in Waiters : GraceElapses(w)
      BY <3>3 DEF GraceElapses, Queued, QueuedStates, TypeOK
    <3>4. CASE \E b \in Others \cup Ids : BuildSeen(b) \/ WindowPasses(b)
      BY <3>4 DEF BuildSeen, WindowPasses, Queued
    <3> QED
      BY <1>10, <3>1, <3>2, <3>3, <3>4 DEF GCQueued, Environment
  <2> QED
    BY <2>1, <2>2, WakeFrame DEF Coming, AnyQueued
<1>11. CASE UNCHANGED vars
  BY <1>11, WakeFrame DEF vars, Coming, AnyQueued, Queued
<1> QED
  BY <1>1, <1>2, <1>3, <1>4, <1>5, <1>6, <1>7, <1>8, <1>9, <1>10, <1>11 DEF Next, Schedule

LEMMA WakeInvariance == Spec => [](Inv /\ WakeInv)
<1>1. Init => WakeInv
  BY DEF Init, WakeInv, AnyQueued, Queued, QueuedStates
<1>2. Inv /\ WakeInv /\ [Next]_vars => WakeInv'
  BY WakeStep
<1> QED
  BY InvInvariance, <1>1, <1>2, PTL DEF Spec

(* A queued waiter holds no slot unless a Release is about to free it.     *)
LEMMA QueuedHoldsNoSlot ==
  ASSUME TypeOK, IndexOK, NoLeakedSlot, ~Coming,
         NEW w \in Waiters, Queued(w)
  PROVE  IdOf(w) \notin held
<1>1. byID[IdOf(w)] = w /\ wstate[w] # "admitted"
  BY DEF IndexOK, Queued, QueuedStates
<1> QED
  BY <1>1, ProcessKinds DEF NoLeakedSlot, Coming

(* No wake-up is lost (NoLostWakeup): at rest, a waiter at the front whose *)
(* gates would admit it has a retry timer to wake it, whoever arrived,     *)
(* left, paused or was collected before.                                   *)
THEOREM WakeupsNotLost == Spec => []NoLostWakeup
<1>1. ASSUME Inv, WakeInv, NoLeakedSlot PROVE NoLostWakeup
  <2> SUFFICES ASSUME Quiet, ~paused, ~draining,
                      NEW w \in Waiters, Foremost(w), GatesAdmit(IdOf(w))
               PROVE  timers # {}
    BY DEF NoLostWakeup
  <2>1. ~Coming /\ Queued(w)
    BY DEF Quiet, Coming, Foremost
  <2>2. Cardinality(held) < Slots
    BY <1>1, <2>1, QueuedHoldsNoSlot DEF Inv, TypeInv, GatesAdmit, SemaphoreTry
  <2> QED
    BY <1>1, <2>1, <2>2 DEF WakeInv, AnyQueued
<1> QED
  BY <1>1, WakeInvariance, SlotsNotLeaked, PTL

(* A drain denies everyone (DrainLeavesNobody): no waiter is left in the   *)
(* queue of a draining engine at rest, not even one that arrived while the *)
(* drain was going on.                                                     *)
THEOREM DrainsEmpty == Spec => []DrainLeavesNobody
<1>1. WakeInv => DrainLeavesNobody
  BY DEF WakeInv, DrainLeavesNobody, Quiet, Coming, AnyQueued
<1> QED
  BY <1>1, WakeInvariance, PTL
-----------------------------------------------------------------------------
(***************************************************************************)
(* The operator's switches are set under mu, and schedule() looks at them  *)
(* under mu before it goes on: nobody is inside schedule() while paused.   *)
(* Engine.mu in the hands of "gc" is the collector's, which never stands   *)
(* at schedule().                                                          *)
(***************************************************************************)
LockInv == pc["gc"] = "idle" /\ (paused => mu \in {None, "gc"})

LEMMA LockStep ==
  ASSUME TypeInv, LockInv, [Next]_vars
  PROVE  LockInv'
<1> USE ProcessKinds DEF TypeInv, TypeOK, procVars, policyVars
<1>0. "gc" \notin Handlers \cup Releasers \cup Operators \cup {"load", "timer"}
  BY ConstantsAssumption DEF Services
<1>1. ASSUME NEW h \in Handlers, NEW i \in Ids, Attach(h, i)
      PROVE  LockInv'
  BY <1>0, <1>1 DEF Attach, AttachNew, AttachKnown, LockInv
<1>2. ASSUME NEW h \in Handlers, Handle(h)
      PROVE  LockInv'
  BY <1>0, <1>2 DEF Handle, FastPathTake, FastPathMiss, Receive, PollEnds, Detach, Take, LockInv
<1>3. ASSUME NEW r \in Releasers, ReleaseGates(r) \/ \E i \in Ids : ReleaseForget(r, i)
      PROVE  LockInv'
  BY <1>0, <1>3 DEF ReleaseGates, FreeSlot, ReleaseForget, ForgetId, LockInv
<1>4. ASSUME NEW p \in Procs, Schedule(p)
      PROVE  LockInv'
  <2>1. p # "gc"
    BY <1>4 DEF Schedule, ScheduleSkip, ScheduleEnter, SchedulePopStale, ScheduleDeny, DropDenied,
       ScheduleAdmit, AdmitHead, ScheduleHold, HoldHead, ScheduleEmpty, Scheduling, LockInv
  <2>2. CASE ScheduleEnter(p)
    BY <2>2 DEF ScheduleEnter, LockInv
  <2>3. CASE ScheduleSkip(p) \/ ScheduleHold(p) \/ ScheduleEmpty(p)
    BY <2>1, <2>3 DEF ScheduleSkip, ScheduleHold, HoldHead, ScheduleEmpty, LockInv
  <2>4. CASE SchedulePopStale(p) \/ ScheduleDeny(p) \/ ScheduleAdmit(p)
    BY <2>4 DEF SchedulePopStale, ScheduleDeny, DropDenied, ScheduleAdmit, AdmitHead, LockInv
  <2> QED
    BY <1>4, <2>2, <2>3, <2>4 DEF Schedule
<1>5. CASE GCQueued
  BY <1>5 DEF GCQueued, GCEnter, GCDrop, DropAt, GCExit, LockInv
<1>6. ASSUME NEW o \in Operators, Pause(o) \/ Drain(o) \/ Resume(o)
      PROVE  LockInv'
  BY <1>0, <1>6 DEF Pause, Drain, Resume, SetPolicy, Unlocked, LockInv
<1>7. CASE LoadReset \/ (\E s \in Samples : LoadSample(s)) \/ (\E i \in Ids : TimerFires(i))
  BY <1>7 DEF LoadReset, LoadSample, TimerFires, LockInv
<1>8. CASE Environment
  BY <1>8 DEF Environment, GraceElapses, BuildSeen, WindowPasses, LockInv
<1>9. CASE UNCHANGED vars
  BY <1>9 DEF vars, LockInv
<1> QED
  BY <1>1, <1>2, <1>3, <1>4, <1>5, <1>6, <1>7, <1>8, <1>9 DEF Next

LEMMA LockInvariance == Spec => []LockInv
<1>1. Init => LockInv
  BY ProcessKinds DEF Init, LockInv
<1>2. TypeInv /\ LockInv /\ [Next]_vars => LockInv'
  BY LockStep
<1> QED
  BY TypeInvariance, <1>1, <1>2, PTL DEF Spec

(* A pause holds everyone (PauseHolds): while the engine is paused no      *)
(* queued waiter is admitted or gets a verdict, also not from a schedule() *)
(* that was already on its way.                                            *)
THEOREM PausesHold == Spec => PauseHolds
<1>1. ASSUME TypeInv, NoVerdictYet, NoVerdictYet', LockInv, [Next]_vars, paused,
             NEW w \in Waiters, Queued(w)
      PROVE  wstate'[w] # "admitted" /\ ch'[w] = ch[w]
  <2> USE DEF TypeInv, TypeOK
  <2>1. \A p \in Procs : ~Scheduling(p)
    BY <1>1, ConstantsAssumption DEF LockInv, Scheduling
  <2>2. CASE \E p \in Procs : Schedule(p)
    <3>1. UNCHANGED <<wstate, ch>>
      BY <2>1, <2>2 DEF Schedule, ScheduleSkip, ScheduleEnter, SchedulePopStale, ScheduleDeny, DropDenied,
         ScheduleAdmit, AdmitHead, ScheduleHold, HoldHead, ScheduleEmpty, waiterVars
    <3> QED
      BY <1>1, <3>1 DEF Queued, QueuedStates
  <2>3. CASE \E h \in Handlers : Handle(h)
    <3>1. wstate'[w] # "admitted"
      BY <1>1, <2>3, SMTT(20) DEF Handle, FastPathTake, FastPathMiss, Receive, PollEnds, Detach, Take,
         waiterVars, Queued, QueuedStates
    <3>2. ch'[w] \in {ch[w], "none"}
      <4>1. CASE \E h \in Handlers : Take(h)
        <5>1. PICK h \in Handlers : ch' = [ch EXCEPT ![attached[h]] = "none"]
          BY <4>1 DEF Take
        <5> QED
          BY <5>1
      <4>2. CASE ch' = ch
        BY <4>2
      <4> QED
        BY <2>3, <4>1, <4>2
           DEF Handle, FastPathTake, FastPathMiss, Receive, PollEnds, Detach, waiterVars
    <3> QED
      BY <1>1, <3>1, <3>2 DEF NoVerdictYet
  <2>4. CASE \E h \in Handlers, i \in Ids : Attach(h, i)
    <3>1. PICK h \in Handlers, i \in Ids : Attach(h, i)
      BY <2>4
    <3>2. CASE AttachNew(h, i)
      <4>1. PICK u : /\ wstate' = [wstate EXCEPT ![u] = "polled"]
                     /\ ch' = [ch EXCEPT ![u] = "none"]
        BY <3>2 DEF AttachNew
      <4> QED
        BY <1>1, <4>1 DEF NoVerdictYet, Queued, QueuedStates
    <3>3. CASE AttachKnown(h, i)
      BY <1>1, <3>3 DEF AttachKnown, Queued, QueuedStates
    <3> QED
      BY <3>1, <3>2, <3>3 DEF Attach
  <2>5. CASE \E r \in Releasers : ReleaseGates(r) \/ \E i \in Ids : ReleaseForget(r, i)
    BY <1>1, <2>5 DEF ReleaseGates, FreeSlot, ReleaseForget, ForgetId, waiterVars, Queued, QueuedStates
  <2>6. CASE GCQueued
    BY <1>1, <2>6 DEF GCQueued, GCEnter, GCDrop, DropAt, GCExit, waiterVars, Queued, QueuedStates
  <2>7. CASE Environment
    BY <1>1, <2>7 DEF Environment, GraceElapses, BuildSeen, WindowPasses, waiterVars, Queued, QueuedStates
  <2>8. CASE \/ \E o \in Operators : Pause(o) \/ Drain(o) \/ Resume(o)
             \/ LoadReset \/ (\E s \in Samples : LoadSample(s)) \/ (\E i \in Ids : TimerFires(i))
             \/ UNCHANGED vars
    BY <1>1, <2>8 DEF Pause, Drain, Resume, SetPolicy, LoadReset, LoadSample, TimerFires, vars,
       waiterVars, Queued, QueuedStates
  <2> QED
    BY <1>1, <2>2, <2>3, <2>4, <2>5, <2>6, <2>7, <2>8 DEF Next
<1>2. TypeInv /\ NoVerdictYet /\ NoVerdictYet' /\ LockInv /\ [Next]_vars =>
        [paused => \A w \in Waiters :
           Queued(w) => wstate'[w] # "admitted" /\ ch'[w] = ch[w]]_vars
  BY <1>1
<1> QED
  BY <1>2, TypeInvariance, NoVerdictInvariance, LockInvariance, PTL DEF Spec, PauseHolds
===============================================================================
