------------------------------ MODULE Admission ------------------------------
(***************************************************************************)
(* The admission engine of internal/admission: a FIFO queue of waiters     *)
(* behind the gate chain Semaphore -> TokenBucket -> Stagger.              *)
(*                                                                         *)
(* The module describes the engine alone, with clients that may POST any   *)
(* invocation id and release any invocation id at any moment.  Goroutines  *)
(* are processes: the handlers of POST /admission, the callers of Release, *)
(* and one process each for the operator's pause/drain/resume requests,    *)
(* the load sampler, the retry timers and the queue GC.  A critical        *)
(* section under Engine.mu is one action, except the loops of schedule()   *)
(* and gcQueued(), which take one action per iteration while mu is held:   *)
(* the gates have mutexes of their own, so a Release may free a slot in    *)
(* the middle of a schedule().                                             *)
(*                                                                         *)
(* An operator named Bug... is no part of the specification: it is a wrong *)
(* version of the definition after it, by which a property is shown to     *)
(* notice the mistake.                                                     *)
(***************************************************************************)
EXTENDS Integers, Sequences, FiniteSets

CONSTANTS
  Ids,            \* invocation ids
  Gens,           \* names for the successive waiter objects of one id
  Handlers,       \* goroutines serving POST /admission
  Releasers,      \* goroutines calling Engine.Release
  Operators,      \* goroutines serving pause, resume and drain requests
  Others,         \* builds the registry shows that never asked for admission
  Overlap,        \* pairs <<b, i>>: build b and id i share a target pattern
  MaxConcurrent,  \* Policy.MaxConcurrent
  CPUHighWater,   \* Policy.CPUHighWater in units of rampPerHead, 0 disables
  Samples,        \* the load samples the probe may return
  None            \* nil

(* The goroutines of which there is one. *)
Services == {"load", "timer", "gc"}
Procs    == Handlers \cup Releasers \cup Operators \cup Services

(* A waiter object is named by its id and a generation: after Release or   *)
(* GC forgot an id, the next poll of that id allocates a new object while  *)
(* the old one may still sit in the queue or in a handler.                 *)
Waiters == Ids \X Gens
IdOf(w) == w[1]

(* NewSemaphore: a limit below 1 becomes 1. *)
Slots == IF MaxConcurrent < 1 THEN 1 ELSE MaxConcurrent

Sample == [cpu : Nat, ramOver : BOOLEAN]

ASSUME ConstantsAssumption ==
  /\ MaxConcurrent \in Int
  /\ CPUHighWater \in Nat
  /\ Samples \subseteq Sample
  /\ Gens # {}
  /\ None \notin Waiters \cup Ids \cup Procs
  /\ Handlers \cap (Releasers \cup Operators \cup Services) = {}
  /\ Releasers \cap (Operators \cup Services) = {}
  /\ Operators \cap Services = {}

VARIABLES
  mu,               \* the process inside a loop under Engine.mu, or None
  pc,               \* where each process stands
  attached,         \* the waiter a handler holds a pointer to
  reply,            \* the verdict a handler is about to return
  releasing,        \* the id a Release call is freeing
  queue,            \* Engine.queue
  byID,             \* Engine.byID
  wstate,           \* waiter.state, connected and lastDetach
  ch,               \* waiter.ch, the one-slot verdict channel
  held,             \* Semaphore.held
  paused, draining, \* the operator's switches
  recentlyAdmitted, \* admissions since the last load sample (it is counted
                    \* only when CPUHighWater is set: nothing reads it else)
  sample,           \* the load sample the TokenBucket uses
  warm,             \* builds younger than the StaggerWindow
  timers            \* ids with an armed retry timer

procVars   == <<mu, pc, attached, reply, releasing>>
waiterVars == <<wstate, ch>>
indexVars  == <<queue, byID>>
policyVars == <<paused, draining>>
loadVars   == <<recentlyAdmitted, sample>>
vars == <<procVars, waiterVars, indexVars, policyVars, loadVars, held, warm, timers>>

Init ==
  /\ mu = None
  /\ pc = [p \in Procs |-> "idle"]
  /\ attached = [h \in Handlers |-> None]
  /\ reply = [h \in Handlers |-> "none"]
  /\ releasing = [r \in Releasers |-> None]
  /\ queue = <<>>
  /\ byID = [i \in Ids |-> None]
  /\ wstate = [w \in Waiters |-> "done"]
  /\ ch = [w \in Waiters |-> "none"]
  /\ held = {}
  /\ paused = FALSE
  /\ draining = FALSE
  /\ recentlyAdmitted = 0
  /\ sample = [cpu |-> 0, ramOver |-> FALSE]
  /\ warm = {}
  /\ timers = {}

Unlocked == mu = None

(* The engine reads connected and lastDetach only of a waiter that is      *)
(* still wsQueued, so one variable holds all three fields: "polled" (some  *)
(* handler is connected), "detached" (none is, and queuedGCGrace has not   *)
(* passed), "stale" (none is, and it has), "admitted" and "done".          *)
QueuedStates == {"polled", "detached", "stale"}
Queued(w) == wstate[w] \in QueuedStates

(***************************************************************************)
(* Engine.attach: find the waiter of the id, or allocate one at the tail.  *)
(* A waiter object is free for reuse once neither the engine nor a handler *)
(* can reach it.                                                           *)
(***************************************************************************)
Reachable(w) ==
  \/ byID[IdOf(w)] = w
  \/ \E n \in DOMAIN queue : queue[n] = w
  \/ \E h \in Handlers : attached[h] = w
FreeWaiters(i) == {w \in {i} \X Gens : ~Reachable(w)}

AttachNew(h, i) ==
  /\ Unlocked
  /\ pc[h] = "idle"
  /\ byID[i] = None
  /\ FreeWaiters(i) # {}
  /\ LET w == CHOOSE x \in FreeWaiters(i) : TRUE IN
       /\ byID' = [byID EXCEPT ![i] = w]
       /\ queue' = Append(queue, w)
       /\ wstate' = [wstate EXCEPT ![w] = "polled"]
       /\ ch' = [ch EXCEPT ![w] = "none"]
       /\ attached' = [attached EXCEPT ![h] = w]
  /\ pc' = [pc EXCEPT ![h] = "kick"]
  /\ UNCHANGED <<mu, reply, releasing, policyVars, loadVars, held, warm, timers>>

AttachKnown(h, i) ==
  /\ Unlocked
  /\ pc[h] = "idle"
  /\ byID[i] # None
  /\ attached' = [attached EXCEPT ![h] = byID[i]]
  /\ wstate' = IF Queued(byID[i]) THEN [wstate EXCEPT ![byID[i]] = "polled"]
                                  ELSE wstate
  /\ pc' = [pc EXCEPT ![h] = "kick"]
  /\ UNCHANGED <<mu, reply, releasing, indexVars, ch, policyVars, loadVars,
                 held, warm, timers>>

Attach(h, i) == AttachNew(h, i) \/ AttachKnown(h, i)

(***************************************************************************)
(* The long poll of Engine.Admit: a non-blocking receive, then a select    *)
(* over the verdict channel, the poll timer and the client's connection.   *)
(* When several are ready, select picks any of them.                       *)
(***************************************************************************)
Take(h) ==
  /\ ch[attached[h]] # "none"
  /\ reply' = [reply EXCEPT ![h] = ch[attached[h]]]
  /\ ch' = [ch EXCEPT ![attached[h]] = "none"]
  /\ pc' = [pc EXCEPT ![h] = "reply"]
  /\ UNCHANGED <<mu, attached, releasing, wstate, indexVars, policyVars,
                 loadVars, held, warm, timers>>

FastPathTake(h) == pc[h] = "fast" /\ Take(h)

FastPathMiss(h) ==
  /\ pc[h] = "fast"
  /\ ch[attached[h]] = "none"
  /\ pc' = [pc EXCEPT ![h] = "select"]
  /\ UNCHANGED <<mu, attached, reply, releasing, waiterVars, indexVars,
                 policyVars, loadVars, held, warm, timers>>

Receive(h) == pc[h] = "select" /\ Take(h)

(* The poll timer fired, or the client's connection went away. *)
PollEnds(h) ==
  /\ pc[h] = "select"
  /\ reply' = [reply EXCEPT ![h] = "queue"]
  /\ pc' = [pc EXCEPT ![h] = "reply"]
  /\ UNCHANGED <<mu, attached, releasing, waiterVars, indexVars, policyVars,
                 loadVars, held, warm, timers>>

(* The deferred Engine.detach, after which the verdict is written out.  It *)
(* touches neither the gates nor the queue.                                *)
Detach(h) ==
  /\ Unlocked
  /\ pc[h] = "reply"
  /\ wstate' = IF Queued(attached[h])
                 THEN [wstate EXCEPT ![attached[h]] = "detached"] ELSE wstate
  /\ attached' = [attached EXCEPT ![h] = None]
  /\ reply' = [reply EXCEPT ![h] = "none"]
  /\ pc' = [pc EXCEPT ![h] = "idle"]
  /\ UNCHANGED <<mu, releasing, ch, indexVars, policyVars, loadVars, held,
                 warm, timers>>

(***************************************************************************)
(* Engine.Release: forget the id under mu, free the gates after unlocking  *)
(* (only the semaphore keeps occupancy), then schedule().  The three steps *)
(* of two calls, and an attach of the same id, interleave freely.          *)
(***************************************************************************)
ForgetId(r, i) ==
  /\ Unlocked
  /\ pc[r] = "idle"
  /\ byID' = [byID EXCEPT ![i] = None]
  /\ timers' = timers \ {i}
  /\ releasing' = [releasing EXCEPT ![r] = i]
  /\ pc' = [pc EXCEPT ![r] = "gates"]
  /\ UNCHANGED <<mu, attached, reply, queue, ch, policyVars, loadVars, held,
                 warm>>

ReleaseForget(r, i) ==
  /\ ForgetId(r, i)
  /\ wstate' = [w \in Waiters |-> IF w = byID[i] THEN "done" ELSE wstate[w]]

FreeSlot(r) ==
  /\ pc[r] = "gates"
  /\ held' = held \ {releasing[r]}
  /\ releasing' = [releasing EXCEPT ![r] = None]
  /\ pc' = [pc EXCEPT ![r] = "kick"]
  /\ UNCHANGED <<mu, attached, reply, waiterVars, indexVars, policyVars,
                 sample, warm, timers>>

BugReleaseCredits(r) == FreeSlot(r) /\ recentlyAdmitted' = recentlyAdmitted - 1

ReleaseGates(r) == FreeSlot(r) /\ UNCHANGED recentlyAdmitted

(***************************************************************************)
(* The gates' Try.  A semaphore refusal asks for no retry (the release     *)
(* wakes the queue); the other two gates ask for one.                      *)
(***************************************************************************)
BugSemaphoreTry(i) == i \in held \/ Cardinality(held) <= Slots

SemaphoreTry(i) == i \in held \/ Cardinality(held) < Slots

BucketTry ==
  /\ CPUHighWater > 0 => sample.cpu + recentlyAdmitted < CPUHighWater
  /\ ~sample.ramOver

(* Only builds that share a target with some id can hold anyone back.      *)
Staggering == {b \in Others \cup Ids : \E i \in Ids : <<b, i>> \in Overlap}
StaggerTry(i) == \A b \in warm \ {i} : <<b, i>> \notin Overlap

GatesAdmit(i) == SemaphoreTry(i) /\ BucketTry /\ StaggerTry(i)

(***************************************************************************)
(* Engine.schedule, run by any process standing at "kick".                 *)
(***************************************************************************)
AfterSchedule(p) == IF p \in Handlers THEN "fast" ELSE "idle"

(* Lines 232-238: paused, or nobody waits. *)
ScheduleSkip(p) ==
  /\ Unlocked
  /\ pc[p] = "kick"
  /\ paused \/ queue = <<>>
  /\ pc' = [pc EXCEPT ![p] = AfterSchedule(p)]
  /\ UNCHANGED <<mu, attached, reply, releasing, waiterVars, indexVars,
                 policyVars, loadVars, held, warm, timers>>

BugEnterPaused(p) ==
  /\ Unlocked
  /\ pc[p] = "kick"
  /\ queue # <<>>
  /\ mu' = p
  /\ UNCHANGED <<pc, attached, reply, releasing, waiterVars, indexVars,
                 policyVars, loadVars, held, warm, timers>>

ScheduleEnter(p) ==
  /\ Unlocked
  /\ pc[p] = "kick"
  /\ ~paused /\ queue # <<>>
  /\ mu' = p
  /\ UNCHANGED <<pc, attached, reply, releasing, waiterVars, indexVars,
                 policyVars, loadVars, held, warm, timers>>

Scheduling(p) == mu = p /\ pc[p] = "kick"
HeadQueued == queue # <<>> /\ Queued(Head(queue))
BugDeliverIfPolled(w, v) ==
  [ch EXCEPT ![w] = IF wstate[w] = "polled" THEN v ELSE @]

Deliver(w, v) == [ch EXCEPT ![w] = IF @ = "none" THEN v ELSE @]

SchedulePopStale(p) ==
  /\ Scheduling(p)
  /\ queue # <<>> /\ ~HeadQueued
  /\ queue' = Tail(queue)
  /\ UNCHANGED <<procVars, waiterVars, byID, policyVars, loadVars, held, warm,
                 timers>>

DropDenied(p) ==
  /\ Scheduling(p)
  /\ HeadQueued /\ draining
  /\ wstate' = [wstate EXCEPT ![Head(queue)] = "done"]
  /\ queue' = Tail(queue)
  /\ byID' = [byID EXCEPT ![IdOf(Head(queue))] = None]
  /\ UNCHANGED <<procVars, policyVars, loadVars, held, warm, timers>>

BugDenySilently(p) == DropDenied(p) /\ UNCHANGED ch

ScheduleDeny(p) == DropDenied(p) /\ ch' = Deliver(Head(queue), "deny")

AdmitHead(p) ==
  /\ Scheduling(p)
  /\ HeadQueued /\ ~draining
  /\ GatesAdmit(IdOf(Head(queue)))
  /\ held' = held \cup {IdOf(Head(queue))}
  /\ warm' = warm \cup ({IdOf(Head(queue))} \cap Staggering)
  /\ wstate' = [wstate EXCEPT ![Head(queue)] = "admitted"]
  /\ recentlyAdmitted' = IF CPUHighWater > 0 THEN recentlyAdmitted + 1
                                            ELSE recentlyAdmitted
  /\ ch' = Deliver(Head(queue), "allow")
  /\ queue' = Tail(queue)
  /\ UNCHANGED <<procVars, policyVars, sample, timers>>

BugAdmitForgets(p) ==
  AdmitHead(p) /\ byID' = [byID EXCEPT ![IdOf(Head(queue))] = None]

(* The admitted waiter stays in byID, for the re-poll that drains its      *)
(* verdict and for Release.                                                *)
ScheduleAdmit(p) == AdmitHead(p) /\ UNCHANGED byID

(* armRetryTimer.                                                          *)
BugArmed(i) == timers

Armed(i) == IF SemaphoreTry(i) THEN timers \cup {i} ELSE timers

HoldHead(p) ==
  /\ Scheduling(p)
  /\ HeadQueued /\ ~draining
  /\ ~GatesAdmit(IdOf(Head(queue)))
  /\ timers' = Armed(IdOf(Head(queue)))
  /\ mu' = None
  /\ pc' = [pc EXCEPT ![p] = AfterSchedule(p)]
  /\ UNCHANGED <<attached, reply, releasing, waiterVars, byID, policyVars,
                 loadVars, held, warm>>

BugHoldRotates(p) == HoldHead(p) /\ queue' = Append(Tail(queue), Head(queue))

(* The head is not skipped.                                                *)
ScheduleHold(p) == HoldHead(p) /\ UNCHANGED queue

ScheduleEmpty(p) ==
  /\ Scheduling(p)
  /\ queue = <<>>
  /\ mu' = None
  /\ pc' = [pc EXCEPT ![p] = AfterSchedule(p)]
  /\ UNCHANGED <<attached, reply, releasing, waiterVars, indexVars, policyVars,
                 loadVars, held, warm, timers>>

Schedule(p) ==
  \/ ScheduleSkip(p) \/ ScheduleEnter(p)
  \/ SchedulePopStale(p) \/ ScheduleDeny(p) \/ ScheduleAdmit(p)
  \/ ScheduleHold(p) \/ ScheduleEmpty(p)

(***************************************************************************)
(* Engine.gcQueued.  It reads the clock once, drops every stale waiter in  *)
(* one pass under mu, and does not call schedule().                        *)
(***************************************************************************)
BugStaleAt == {n \in DOMAIN queue : wstate[queue[n]] \in {"detached", "stale"}}

StaleAt == {n \in DOMAIN queue : wstate[queue[n]] = "stale"}

GCEnter ==
  /\ Unlocked
  /\ StaleAt # {}
  /\ mu' = "gc"
  /\ UNCHANGED <<pc, attached, reply, releasing, waiterVars, indexVars,
                 policyVars, loadVars, held, warm, timers>>

DropAt(n) ==
  /\ mu = "gc"
  /\ \A m \in StaleAt : n <= m
  /\ wstate' = [wstate EXCEPT ![queue[n]] = "done"]
  /\ queue' = [m \in 1..(Len(queue) - 1) |->
                  IF m < n THEN queue[m] ELSE queue[m + 1]]
  /\ UNCHANGED <<procVars, ch, policyVars, loadVars, held, warm, timers>>

BugGCDrop == \E n \in StaleAt : DropAt(n) /\ UNCHANGED byID

GCDrop ==
  \E n \in StaleAt :
    DropAt(n) /\ byID' = [byID EXCEPT ![IdOf(queue[n])] = None]

GCExit ==
  /\ mu = "gc"
  /\ StaleAt = {}
  /\ mu' = None
  /\ UNCHANGED <<pc, attached, reply, releasing, waiterVars, indexVars,
                 policyVars, loadVars, held, warm, timers>>

(* queuedGCGrace has passed since the last detach of w.  A handler polls   *)
(* for at most PollSeconds = 25s, less than the grace of 30s, so a handler *)
(* that outlives another one on the same waiter refreshes lastDetach in    *)
(* time: the grace cannot run out while some handler still polls w.        *)
GraceElapses(w) ==
  /\ mu # "gc"
  /\ wstate[w] = "detached"
  /\ \A h \in Handlers : attached[h] # w
  /\ wstate' = [wstate EXCEPT ![w] = "stale"]
  /\ UNCHANGED <<procVars, ch, indexVars, policyVars, loadVars, held, warm,
                 timers>>

(***************************************************************************)
(* SetPaused(true), SetDraining(true), Resume; then schedule().            *)
(***************************************************************************)
BugSetPolicy(o, p, d) ==
  /\ Unlocked
  /\ pc[o] = "idle"
  /\ paused' = p
  /\ draining' = d
  /\ UNCHANGED <<procVars, waiterVars, indexVars, loadVars, held, warm, timers>>

SetPolicy(o, p, d) ==
  /\ Unlocked
  /\ pc[o] = "idle"
  /\ paused' = p
  /\ draining' = d
  /\ pc' = [pc EXCEPT ![o] = "kick"]
  /\ UNCHANGED <<mu, attached, reply, releasing, waiterVars, indexVars,
                 loadVars, held, warm, timers>>

Pause(o)  == SetPolicy(o, TRUE, draining)
Drain(o)  == SetPolicy(o, paused, TRUE)
Resume(o) == SetPolicy(o, FALSE, FALSE)

(***************************************************************************)
(* onLoadSample: the bucket takes the sample under its own mutex, then the *)
(* debit is reset under mu, then schedule().                               *)
(***************************************************************************)
LoadSample(s) ==
  /\ pc["load"] = "idle"
  /\ sample' = s
  /\ pc' = [pc EXCEPT !["load"] = "reset"]
  /\ UNCHANGED <<mu, attached, reply, releasing, waiterVars, indexVars,
                 policyVars, recentlyAdmitted, held, warm, timers>>

BugLoadReset ==
  /\ Unlocked
  /\ pc["load"] = "reset"
  /\ recentlyAdmitted' = recentlyAdmitted - 1
  /\ pc' = [pc EXCEPT !["load"] = "kick"]
  /\ UNCHANGED <<mu, attached, reply, releasing, waiterVars, indexVars,
                 policyVars, sample, held, warm, timers>>

LoadReset ==
  /\ Unlocked
  /\ pc["load"] = "reset"
  /\ recentlyAdmitted' = 0
  /\ pc' = [pc EXCEPT !["load"] = "kick"]
  /\ UNCHANGED <<mu, attached, reply, releasing, waiterVars, indexVars,
                 policyVars, sample, held, warm, timers>>

(* The callback of a retry timer: untrack it under mu, then schedule(). A  *)
(* fired timer that still waits for mu counts as armed.                    *)
TimerFires(i) ==
  /\ Unlocked
  /\ pc["timer"] = "idle"
  /\ i \in timers
  /\ timers' = timers \ {i}
  /\ pc' = [pc EXCEPT !["timer"] = "kick"]
  /\ UNCHANGED <<mu, attached, reply, releasing, waiterVars, indexVars,
                 policyVars, loadVars, held, warm>>

(* The registry reports a build that just started (SnapshotActive), and a  *)
(* build's StaggerWindow passes.                                           *)
BuildSeen(b) ==
  /\ b \in Staggering \ warm
  /\ warm' = warm \cup {b}
  /\ UNCHANGED <<procVars, waiterVars, indexVars, policyVars, loadVars, held,
                 timers>>

WindowPasses(b) ==
  /\ b \in warm
  /\ warm' = warm \ {b}
  /\ UNCHANGED <<procVars, waiterVars, indexVars, policyVars, loadVars, held,
                 timers>>

Handle(h) ==
  \/ FastPathTake(h) \/ FastPathMiss(h)
  \/ Receive(h) \/ PollEnds(h) \/ Detach(h)

GCQueued == GCEnter \/ GCDrop \/ GCExit

Environment ==
  \/ \E w \in Waiters : GraceElapses(w)
  \/ \E b \in Others \cup Ids : BuildSeen(b) \/ WindowPasses(b)

Next ==
  \/ \E h \in Handlers, i \in Ids : Attach(h, i)
  \/ \E h \in Handlers : Handle(h)
  \/ \E r \in Releasers, i \in Ids : ReleaseForget(r, i)
  \/ \E r \in Releasers : ReleaseGates(r)
  \/ \E p \in Procs : Schedule(p)
  \/ GCQueued
  \/ \E o \in Operators : Pause(o) \/ Drain(o) \/ Resume(o)
  \/ \E s \in Samples : LoadSample(s)
  \/ LoadReset
  \/ \E i \in Ids : TimerFires(i)
  \/ Environment

Spec == Init /\ [][Next]_vars

-----------------------------------------------------------------------------
(* Types of the variables. *)
PCs == {"idle", "kick", "fast", "select", "reply", "gates", "reset"}
TypeOK ==
  /\ mu \in Procs \cup {None}
  /\ pc \in [Procs -> PCs]
  /\ attached \in [Handlers -> Waiters \cup {None}]
  /\ reply \in [Handlers -> {"none", "allow", "queue", "deny"}]
  /\ releasing \in [Releasers -> Ids \cup {None}]
  /\ queue \in Seq(Waiters)
  /\ byID \in [Ids -> Waiters \cup {None}]
  /\ wstate \in [Waiters -> QueuedStates \cup {"admitted", "done"}]
  /\ ch \in [Waiters -> {"none", "allow", "deny"}]
  /\ held \in SUBSET Ids
  /\ paused \in BOOLEAN /\ draining \in BOOLEAN
  /\ recentlyAdmitted \in Nat
  /\ sample \in Sample
  /\ warm \in SUBSET (Others \cup Ids)
  /\ timers \in SUBSET Ids

(* The semaphore never counts more builds than its limit, whatever the     *)
(* order of schedule(), Release and re-polls of the same id.               *)
SlotBound == Cardinality(held) <= Slots

(* Engine.byID and Engine.queue agree: byID points only at live waiters of *)
(* the right id, every queued waiter is the one its id is indexed under,   *)
(* stands in the queue, and stands there once.                             *)
IndexOK ==
  /\ \A i \in Ids : byID[i] # None =>
       IdOf(byID[i]) = i /\ wstate[byID[i]] # "done"
  /\ \A w \in Waiters : wstate[w] # "done" => byID[IdOf(w)] = w
  /\ \A w \in Waiters : Queued(w) => \E n \in DOMAIN queue : queue[n] = w
  /\ \A m, n \in DOMAIN queue : queue[m] = queue[n] => m = n

(* No slot leaks: a held slot belongs to an admitted waiter that a later   *)
(* Release will find, or a Release already on its way is about to free it. *)
NoLeakedSlot ==
  \A i \in held :
    \/ byID[i] # None /\ wstate[byID[i]] = "admitted"
    \/ \E r \in Releasers : pc[r] = "gates" /\ releasing[r] = i
=============================================================================
