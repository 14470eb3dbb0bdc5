-------------------------- MODULE AdmissionSystemProofs --------------------------
(***************************************************************************)
(* The engine with its wrappers and safety nets, for any number of them:   *)
(* every admitted build has a slot of its own, so that there are never     *)
(* more than Slots, and no ALLOW is lost on its way to the wrapper.        *)
(***************************************************************************)
EXTENDS AdmissionSystem, AdmissionPromiseProofs

(* A step of the system is a step of the engine, or leaves it alone.       *)
LEMMA SystemStepsEngine ==
  ASSUME TypeOK, [SysNext]_sysVars
  PROVE  [Next]_vars
<1>1. \A i \in Ids : HandlerOf[i] \in Handlers /\ ReleaserOf[i] \in Releasers
  BY SystemAssumption
<1>2. TerminalLoop \in Releasers /\ ReaperLoop \in Releasers
  BY SystemAssumption
<1>3. ASSUME NEW i \in Ids,
             Serve(i) \/ Answer(i) \/ ReleaseServed(i) \/ ReaperReleases(i) \/ TerminalRelease(i)
      PROVE  Next
  BY <1>1, <1>2, <1>3 DEF Next, Handle, Serve, Answer, AnswerLost, AnswerAllow, AnswerQueue, AnswerDeny,
     ReleaseServed, ReaperReleases, TerminalRelease
<1>4. ASSUME NEW i \in Ids,
             \/ Post(i) \/ CurlFails(i) \/ GiveUp(i) \/ BuildEnds(i) \/ ReleaseLost(i)
             \/ Killed(i) \/ ReaperSpares(i) \/ TerminalEvent(i)
      PROVE  UNCHANGED vars
  BY <1>4 DEF Post, CurlFails, GiveUp, BuildEnds, ReleaseLost, Killed, ReaperSpares, TerminalEvent, Report
<1>5. ReaperScan => UNCHANGED vars
  BY DEF ReaperScan
<1>6. ASSUME Inside PROVE Next
  <2>1. CASE \E i \in Ids : Polling(i)
    BY <1>1, <2>1 DEF Polling, Next, Handle
  <2>2. CASE \E w \in Waiters : GraceRunsOut(w)
    BY <2>2 DEF GraceRunsOut, Next, Environment
  <2>3. CASE \E b \in Others \cup {i \in Ids : bazel[i] = "running"} : BuildSeen(b)
    BY <2>3 DEF Next, Environment
  <2>4. CASE \E b \in warm : WindowPasses(b)
    BY <2>4 DEF Next, Environment, TypeOK
  <2> QED
    BY <1>6, <2>1, <2>2, <2>3, <2>4 DEF Inside, Next
<1> QED
  BY <1>3, <1>4, <1>5, <1>6 DEF SysNext, Reaper, sysVars

-----------------------------------------------------------------------------
SysInv == TypeInv /\ IndexOK /\ HeldBounded /\ SysTypeOK

LEMMA SysInvInit == SysInit => SysInv
BY TypeInit, IndexInit, HeldInit DEF SysInit, SysInv, SysTypeOK, TypeInv

LEMMA SysTypeStep ==
  ASSUME SysInv, [SysNext]_sysVars
  PROVE  SysInv'
<1>1. TypeInv' /\ IndexOK' /\ HeldBounded'
  BY SystemStepsEngine, TypeStep, IndexStep, HeldStep DEF SysInv, TypeInv
<1> USE DEF SysInv, SysTypeOK, wrapperVars, netVars
<1>2. ASSUME NEW i \in Ids, Post(i) \/ Serve(i) \/ Answer(i) \/ CurlFails(i) \/ GiveUp(i)
      PROVE  SysTypeOK'
  BY <1>1, <1>2 DEF TypeInv, Post, Serve, Answer, AnswerLost, AnswerAllow, AnswerQueue, AnswerDeny,
     StartBuild, CurlFails, GiveUp
<1>3. ASSUME NEW i \in Ids, BuildEnds(i) \/ ReleaseServed(i) \/ ReleaseLost(i) \/ Killed(i)
      PROVE  SysTypeOK'
  BY <1>1, <1>3 DEF TypeInv, BuildEnds, ReleaseServed, ReleaseLost, Killed
<1>4. ASSUME NEW i \in Ids, Reaper(i) \/ TerminalEvent(i) \/ TerminalRelease(i)
      PROVE  SysTypeOK'
  BY <1>1, <1>4 DEF TypeInv, Reaper, ReaperSpares, ReaperReleases, TerminalEvent, Report, TerminalRelease
<1>5. CASE ReaperScan
  BY <1>1, <1>5 DEF TypeInv, ReaperScan
<1>6. CASE UNCHANGED <<wrapperVars, netVars>>
  BY <1>1, <1>6 DEF TypeInv
<1> QED
  BY <1>1, <1>2, <1>3, <1>4, <1>5, <1>6 DEF SysNext, sysVars

LEMMA SysInvariance == SysSpec => []SysInv
<1>1. SysInv /\ [SysNext]_sysVars => SysInv'
  BY SysTypeStep
<1> QED
  BY SysInvInit, <1>1, PTL DEF SysSpec

(* The system's engine behaves as the engine alone does, so that all that  *)
(* is proved about Spec holds among wrappers, reaper and terminal loop.    *)
THEOREM SystemImplementsEngine == SysSpec => Spec
<1>1. SysInit => Init
  BY DEF SysInit
<1>2. SysInv /\ [SysNext]_sysVars => [Next]_vars
  BY SystemStepsEngine DEF SysInv, TypeInv
<1> QED
  BY <1>1, <1>2, SysInvariance, PTL DEF SysSpec, Spec

(* Every variable of the system keeps its type (SysTypeOK).                *)
THEOREM SystemTypeCorrect == SysSpec => []SysTypeOK
BY SysInvariance, PTL DEF SysInv

-----------------------------------------------------------------------------
(***************************************************************************)
(* Who frees a slot.  A wrapper's own release, the reaper's and that of    *)
(* the terminal loop all start when the build is over for the wrapper.     *)
(***************************************************************************)
Over(i) == phase[i] \in {"release", "exited"}

ReleasedAreOver ==
  /\ \A r \in Releasers : releasing[r] # None => Over(releasing[r])
  /\ \A i \in reported : bazel[i] = "ended"
  /\ \A i \in Ids : bazel[i] = "ended" => Over(i)
  /\ \A i \in Ids : bazel[i] = "running" => phase[i] \in {"building", "exited"}
  /\ \A i \in granted : phase[i] = "building" \/ Over(i)

(* What the engine does by itself: it starts no release, and a slot is     *)
(* freed only by one, an ALLOW is given only with a slot.                  *)
Effects ==
  /\ attached' = attached
  /\ \A r \in Releasers : releasing'[r] \in {releasing[r], None}
  /\ \A i \in held : i \in held' \/ \E r \in Releasers : releasing[r] = i
  /\ \A h \in Handlers :
       reply'[h] = "allow" =>
         reply[h] = "allow" \/ (attached[h] \in Waiters /\ ch[attached[h]] = "allow")
  /\ \A w \in Waiters : ch'[w] = "allow" => ch[w] = "allow" \/ IdOf(w) \in held'

LEMMA InsideEffects ==
  ASSUME TypeInv, Inside
  PROVE  Effects
<1> USE DEF TypeInv, TypeOK, HandlersAttached, Effects, procVars, waiterVars, indexVars, policyVars,
            loadVars
<1>1. ASSUME NEW i \in Ids, Polling(i) PROVE Effects
  <2> DEFINE h == HandlerOf[i]
  <2>1. h \in Handlers
    BY SystemAssumption
  <2>2. CASE (pc[h] = "fast" \/ pc[h] = "select") /\ Take(h)
    <3>1. attached[h] \in Waiters
      BY <2>1, <2>2
    <3> QED
      BY <2>1, <2>2, <3>1 DEF Take
  <2>3. CASE FastPathMiss(h)
    BY <2>1, <2>3 DEF FastPathMiss
  <2>4. CASE PollEnds(h)
    BY <2>1, <2>4 DEF PollEnds
  <2> QED
    BY <1>1, <2>2, <2>3, <2>4 DEF Polling, FastPathTake, Receive
<1>2. ASSUME NEW r \in Releasers, ReleaseGates(r) PROVE Effects
  BY <1>2 DEF ReleaseGates, FreeSlot
<1>3. ASSUME NEW p \in Procs, ScheduleDeny(p) \/ ScheduleAdmit(p) PROVE Effects
  <2>1. Head(queue) \in Waiters
    BY <1>3, TailElements DEF ScheduleDeny, DropDenied, ScheduleAdmit, AdmitHead, HeadQueued
  <2> QED
    BY <1>3, <2>1 DEF ScheduleDeny, DropDenied, ScheduleAdmit, AdmitHead, Deliver
<1>4. ASSUME NEW p \in Procs,
             ScheduleSkip(p) \/ ScheduleEnter(p) \/ SchedulePopStale(p) \/ ScheduleHold(p) \/ ScheduleEmpty(p)
      PROVE  Effects
  BY <1>4 DEF ScheduleSkip, ScheduleEnter, SchedulePopStale, ScheduleHold, HoldHead, ScheduleEmpty
<1>5. CASE GCQueued
  BY <1>5 DEF GCQueued, GCEnter, GCDrop, DropAt, GCExit
<1>6. CASE \E o \in Operators : Pause(o) \/ Drain(o) \/ Resume(o)
  BY <1>6 DEF Pause, Drain, Resume, SetPolicy
<1>7. CASE LoadReset \/ (\E s \in Samples : LoadSample(s)) \/ (\E i \in Ids : TimerFires(i))
  BY <1>7 DEF LoadReset, LoadSample, TimerFires
<1>8. CASE (\E w \in Waiters : GraceRunsOut(w)) \/ (\E b : BuildSeen(b) \/ WindowPasses(b))
  BY <1>8 DEF GraceRunsOut, GraceElapses, BuildSeen, WindowPasses
<1> QED
  BY <1>1, <1>2, <1>3, <1>4, <1>5, <1>6, <1>7, <1>8 DEF Inside, Schedule

-----------------------------------------------------------------------------
(* The steps of a wrapper and of its safety nets that leave the engine     *)
(* alone, and those that start a release.                                  *)
Outside(i) ==
  \/ Post(i) \/ CurlFails(i) \/ GiveUp(i) \/ BuildEnds(i) \/ ReleaseLost(i)
  \/ Killed(i) \/ ReaperSpares(i) \/ TerminalEvent(i)

Freed(r, i) ==
  /\ releasing' = [releasing EXCEPT ![r] = i]
  /\ Over(i)'
  /\ UNCHANGED <<attached, reply, ch, held, bazel, granted, reported>>

LEMMA OverStays ==
  ASSUME SysInv, [SysNext]_sysVars, NEW i \in Ids, Over(i)
  PROVE  Over(i)'
<1> USE DEF Over, SysInv, SysTypeOK, wrapperVars, netVars
<1>1. ASSUME NEW j \in Ids, Post(j) \/ Serve(j) \/ Answer(j) \/ CurlFails(j) \/ GiveUp(j)
      PROVE  Over(i)'
  BY <1>1 DEF Post, Serve, Answer, AnswerLost, AnswerAllow, AnswerQueue, AnswerDeny,
     StartBuild, CurlFails, GiveUp
<1>2. ASSUME NEW j \in Ids, BuildEnds(j) \/ ReleaseServed(j) \/ ReleaseLost(j) \/ Killed(j)
      PROVE  Over(i)'
  BY <1>2 DEF BuildEnds, ReleaseServed, ReleaseLost, Killed
<1>3. CASE phase' = phase
  BY <1>3
<1> QED
  BY <1>1, <1>2, <1>3 DEF SysNext, sysVars, Reaper, ReaperSpares, ReaperReleases, TerminalEvent, Report,
     TerminalRelease, ReaperScan

(* A release is started for a build that is over.                          *)
LEMMA ReleaseStarts ==
  ASSUME SysInv, ReleasedAreOver, NEW i \in Ids,
         ReleaseServed(i) \/ ReaperReleases(i) \/ TerminalRelease(i)
  PROVE  \E r \in Releasers : Freed(r, i)
<1>1. ReleaserOf[i] \in Releasers /\ ReaperLoop \in Releasers /\ TerminalLoop \in Releasers
  BY SystemAssumption
<1>2. events \subseteq reported /\ phase \in [Ids -> {"start", "waiting", "retry", "building", "release", "exited"}]
  BY DEF SysInv, SysTypeOK
<1> USE DEF ReleaseForget, ForgetId, Freed, Over, wrapperVars
<1>3. CASE ReleaseServed(i)
  BY <1>1, <1>2, <1>3 DEF ReleaseServed, netVars
<1>4. CASE ReaperReleases(i)
  BY <1>1, <1>4 DEF ReaperReleases
<1>5. CASE TerminalRelease(i)
  BY <1>1, <1>2, <1>5 DEF TerminalRelease, ReleasedAreOver
<1> QED
  BY <1>3, <1>4, <1>5

LEMMA OverInit == SysInit => ReleasedAreOver
BY DEF SysInit, Init, ReleasedAreOver

LEMMA OverStep ==
  ASSUME SysInv, ReleasedAreOver, [SysNext]_sysVars
  PROVE  ReleasedAreOver'
<1> USE DEF SysInv, SysTypeOK, TypeInv, TypeOK
<1>1. \A i \in Ids : Over(i) => Over(i)'
  BY OverStays
<1>2. \A i \in Ids : bazel[i] = "ended" => Over(i)
  BY DEF ReleasedAreOver
<1>3. ASSUME NEW i \in Ids, Outside(i)
      PROVE  ReleasedAreOver'
  BY <1>1, <1>3 DEF Outside, Post, CurlFails, GiveUp, BuildEnds, ReleaseLost, Killed, ReaperSpares,
     TerminalEvent, Report, StartBuild, ReleasedAreOver, Over, vars, procVars, wrapperVars, netVars
<1>4. ASSUME NEW i \in Ids, Serve(i) \/ Answer(i)
      PROVE  ReleasedAreOver'
  <2>1. releasing' = releasing /\ reported' = reported
    BY <1>4 DEF Serve, Attach, AttachNew, AttachKnown, Answer, AnswerLost, AnswerAllow, AnswerQueue,
       AnswerDeny, Detach, netVars
  <2> QED
    BY <1>1, <1>4, <2>1 DEF Serve, Answer, AnswerLost, AnswerAllow, AnswerQueue, AnswerDeny, StartBuild,
       ReleasedAreOver, Over, wrapperVars
<1>5. ASSUME NEW i \in Ids, ReleaseServed(i) \/ ReaperReleases(i) \/ TerminalRelease(i)
      PROVE  ReleasedAreOver'
  <2>1. PICK r \in Releasers : Freed(r, i)
    BY <1>5, ReleaseStarts
  <2>2. \A j \in Ids : phase'[j] = phase[j] \/ phase'[j] = "exited"
    BY <1>5 DEF ReleaseServed, ReaperReleases, TerminalRelease, wrapperVars
  <2>3. \A q \in Releasers : (releasing[q] # None => Over(releasing[q]))'
    <3>1. \A q \in Releasers : releasing'[q] = IF q = r THEN i ELSE releasing[q]
      BY <2>1 DEF Freed
    <3>2. \A q \in Releasers : releasing[q] # None => phase'[releasing[q]] \in {"release", "exited"}
      BY <1>1 DEF ReleasedAreOver, Over
    <3>3. ASSUME NEW q \in Releasers, releasing'[q] # None PROVE phase'[releasing'[q]] \in {"release", "exited"}
      BY <2>1, <3>1, <3>2, <3>3 DEF Freed, Over
    <3> QED
      BY <3>3 DEF Over
  <2>4. \A j \in Ids : phase[j] = "building" \/ Over(j) => phase'[j] = "building" \/ Over(j)'
    BY <2>2 DEF Over
  <2> QED
    BY <1>1, <2>1, <2>2, <2>3, <2>4 DEF Freed, ReleasedAreOver
<1>6. CASE Inside /\ UNCHANGED <<wrapperVars, netVars>>
  BY <1>1, <1>6, InsideEffects DEF Effects, ReleasedAreOver, Over, wrapperVars, netVars
<1>7. CASE ReaperScan \/ UNCHANGED sysVars
  BY <1>7 DEF ReaperScan, sysVars, vars, procVars, wrapperVars, netVars, ReleasedAreOver, Over
<1> QED
  BY <1>3, <1>4, <1>5, <1>6, <1>7 DEF SysNext, Outside, Reaper

-----------------------------------------------------------------------------
(***************************************************************************)
(* A verdict ALLOW on its way to a wrapper whose build is not over, and    *)
(* the build it starts, are backed by the slot it was given.               *)
(***************************************************************************)
OwnHandlers ==
  \A i \in Ids : attached[HandlerOf[i]] # None => IdOf(attached[HandlerOf[i]]) = i

AllowsBacked ==
  \A i \in Ids : ~Over(i) =>
    /\ reply[HandlerOf[i]] = "allow" => i \in held
    /\ \A w \in Waiters : IdOf(w) = i /\ ch[w] = "allow" => i \in held

SlotsInv == OwnHandlers /\ AllowsBacked /\ AdmittedHoldsSlot

LEMMA SlotsInit == SysInit => SlotsInv
BY SystemAssumption DEF SysInit, Init, SlotsInv, OwnHandlers, AllowsBacked, AdmittedHoldsSlot, Admitted

LEMMA SlotsStep ==
  ASSUME SysInv, ReleasedAreOver, SlotsInv, [SysNext]_sysVars
  PROVE  SlotsInv'
<1> USE DEF SysInv, SysTypeOK, TypeInv, TypeOK
<1>1. /\ \A i \in Ids : Over(i) => Over(i)'
      /\ \A i \in Ids : Admitted(i) => ~Over(i)
  BY OverStays DEF Admitted, Over
<1>2. \A i \in Ids : HandlerOf[i] \in Handlers /\ \A j \in Ids \ {i} : HandlerOf[j] # HandlerOf[i]
  BY SystemAssumption
<1>3. ASSUME UNCHANGED <<attached, reply, ch, held>>,
             \A i \in Ids : Admitted(i)' => Admitted(i)
      PROVE  SlotsInv'
  BY <1>1, <1>3 DEF SlotsInv, OwnHandlers, AllowsBacked, AdmittedHoldsSlot
<1>4. ASSUME NEW i \in Ids, Outside(i)
      PROVE  SlotsInv'
  <2>1. UNCHANGED <<attached, reply, ch, held, granted>>
    BY <1>4 DEF Outside, Post, CurlFails, GiveUp, BuildEnds, ReleaseLost, Killed, ReaperSpares,
       TerminalEvent, Report, vars, procVars, waiterVars, wrapperVars
  <2>2. CASE CurlFails(i) \/ GiveUp(i)
    <3>1. AdmittedHoldsSlot'
      BY <2>1, <2>2 DEF CurlFails, GiveUp, StartBuild, ReleasedAreOver, Over, SlotsInv, AdmittedHoldsSlot,
         Admitted
    <3> QED
      BY <1>1, <2>1, <3>1 DEF SlotsInv, OwnHandlers, AllowsBacked
  <2>3. CASE ~CurlFails(i) /\ ~GiveUp(i)
    <3>1. \A j \in Ids : Admitted(j)' => Admitted(j)
      BY <1>4, <2>1, <2>3 DEF Outside, Post, BuildEnds, ReleaseLost, Killed, ReaperSpares,
         TerminalEvent, Report, wrapperVars, Admitted
    <3> QED
      BY <1>3, <2>1, <3>1
  <2> QED
    BY <2>2, <2>3
<1>5. ASSUME NEW i \in Ids, Serve(i)
      PROVE  SlotsInv'
  <2>1. UNCHANGED <<reply, held, phase, granted>>
    BY <1>5 DEF Serve, Attach, AttachNew, AttachKnown
  <2>2. attached'[HandlerOf[i]] # None => IdOf(attached'[HandlerOf[i]]) = i
    <3>1. CASE AttachNew(HandlerOf[i], i)
      BY <1>2, <3>1, FreshWaiter DEF AttachNew
    <3>2. CASE AttachKnown(HandlerOf[i], i)
      BY <1>2, <3>2 DEF AttachKnown, IndexOK
    <3> QED
      BY <1>5, <3>1, <3>2 DEF Serve, Attach
  <2>3. \A j \in Ids \ {i} : attached'[HandlerOf[j]] = attached[HandlerOf[j]]
    BY <1>2, <1>5 DEF Serve, Attach, AttachNew, AttachKnown
  <2>4. \A w \in Waiters : ch'[w] = "allow" => ch[w] = "allow"
    BY <1>5, ZenonT(30) DEF Serve, Attach, AttachNew, AttachKnown
  <2> QED
    BY <1>1, <2>1, <2>2, <2>3, <2>4 DEF SlotsInv, OwnHandlers, AllowsBacked, AdmittedHoldsSlot, Admitted, Over
<1>6. ASSUME NEW i \in Ids, Answer(i)
      PROVE  SlotsInv'
  <2>1. /\ Detach(HandlerOf[i]) /\ UNCHANGED <<ch, held>>
        /\ attached' = [attached EXCEPT ![HandlerOf[i]] = None]
        /\ reply' = [reply EXCEPT ![HandlerOf[i]] = "none"]
    BY <1>6 DEF Answer, AnswerLost, AnswerAllow, AnswerQueue, AnswerDeny, Detach
  <2>2. OwnHandlers' /\ AllowsBacked'
    BY <1>1, <1>2, <2>1 DEF SlotsInv, OwnHandlers, AllowsBacked
  <2>3. CASE AnswerAllow(i)
    <3>1. i \in held
      BY <2>3 DEF AnswerAllow, SlotsInv, AllowsBacked, Over
    <3> QED
      BY <2>1, <2>2, <2>3, <3>1 DEF AnswerAllow, StartBuild, SlotsInv, AdmittedHoldsSlot, Admitted
  <2>4. CASE AnswerLost(i) \/ AnswerQueue(i) \/ AnswerDeny(i)
    BY <2>1, <2>2, <2>4 DEF AnswerLost, AnswerQueue, AnswerDeny, wrapperVars, SlotsInv, AdmittedHoldsSlot,
       Admitted
  <2> QED
    BY <1>6, <2>3, <2>4 DEF Answer
<1>7. ASSUME NEW i \in Ids, ReleaseServed(i) \/ ReaperReleases(i) \/ TerminalRelease(i)
      PROVE  SlotsInv'
  <2>1. UNCHANGED <<attached, reply, ch, held>>
    BY <1>7, ReleaseStarts DEF Freed
  <2>2. \A j \in Ids : Admitted(j)' => Admitted(j)
    BY <1>7 DEF ReleaseServed, ReaperReleases, TerminalRelease, wrapperVars, Admitted
  <2> QED
    BY <1>3, <2>1, <2>2
<1>8. CASE Inside /\ UNCHANGED <<wrapperVars, netVars>>
  <2>1. Effects
    BY <1>8, InsideEffects
  <2>2. \A i \in Ids : ~Over(i) /\ i \in held => i \in held'
    BY <2>1, ConstantsAssumption DEF Effects, ReleasedAreOver
  <2>3. UNCHANGED <<phase, granted>>
    BY <1>8 DEF wrapperVars
  <2>4. ASSUME NEW i \in Ids, ~Over(i)
        PROVE  /\ reply'[HandlerOf[i]] = "allow" => i \in held'
               /\ \A w \in Waiters : IdOf(w) = i /\ ch'[w] = "allow" => i \in held'
    <3>1. attached[HandlerOf[i]] \in Waiters => IdOf(attached[HandlerOf[i]]) = i
      BY ConstantsAssumption DEF SlotsInv, OwnHandlers
    <3>2. reply'[HandlerOf[i]] = "allow" => i \in held
      BY <1>2, <2>1, <2>4, <3>1 DEF Effects, SlotsInv, AllowsBacked
    <3> QED
      BY <2>1, <2>2, <2>4, <3>2 DEF Effects, SlotsInv, AllowsBacked
  <2> QED
    BY <1>1, <2>1, <2>2, <2>3, <2>4
       DEF Effects, SlotsInv, OwnHandlers, AllowsBacked, AdmittedHoldsSlot, Admitted, Over
<1>9. CASE ReaperScan \/ UNCHANGED sysVars
  BY <1>3, <1>9 DEF ReaperScan, sysVars, vars, procVars, waiterVars, wrapperVars, Admitted
<1> QED
  BY <1>4, <1>5, <1>6, <1>7, <1>8, <1>9 DEF SysNext, Outside, Reaper

LEMMA SlotsInvariance == SysSpec => [](SysInv /\ ReleasedAreOver /\ SlotsInv)
<1>1. SysInv /\ ReleasedAreOver /\ [SysNext]_sysVars => ReleasedAreOver'
  BY OverStep
<1>2. SysInv /\ ReleasedAreOver /\ SlotsInv /\ [SysNext]_sysVars => SlotsInv'
  BY SlotsStep
<1> QED
  BY SysInvariance, OverInit, SlotsInit, <1>1, <1>2, PTL DEF SysSpec

(* Each admitted build of a live wrapper has a slot of its own, whatever   *)
(* its release, the reaper and the terminal loop free (AdmittedHoldsSlot). *)
THEOREM AdmittedHaveSlots == SysSpec => []AdmittedHoldsSlot
BY SlotsInvariance, PTL DEF SlotsInv

(* There are never more admitted builds than slots, for any number of      *)
(* wrappers (AdmittedBuildsBounded).                                       *)
THEOREM AdmittedAreBounded == SysSpec => []AdmittedBuildsBounded
<1>1. SysInv /\ SlotsInv => AdmittedBuildsBounded
  <2> SUFFICES ASSUME SysInv, SlotsInv PROVE AdmittedBuildsBounded
    OBVIOUS
  <2> DEFINE admitted == {i \in Ids : Admitted(i)}
  <2>1. admitted \subseteq held
    BY DEF SlotsInv, AdmittedHoldsSlot
  <2>2. /\ IsFiniteSet(held) /\ IsFiniteSet(admitted) /\ Cardinality(admitted) <= Cardinality(held)
    BY <2>1, FS_Subset DEF SysInv, HeldBounded
  <2>3. Cardinality(admitted) \in Nat /\ Cardinality(held) \in Nat /\ Slots \in Nat
    BY <2>2, FS_CardinalityType, ConstantsAssumption DEF Slots
  <2> QED
    BY <2>2, <2>3 DEF SysInv, HeldBounded, SlotBound, AdmittedBuildsBounded
<1> QED
  BY SlotsInvariance, <1>1, PTL

-----------------------------------------------------------------------------
(***************************************************************************)
(* A wrapper that has not been answered has an idle handler, or its        *)
(* request is being served, and only a handler about to answer holds a     *)
(* verdict.  NoVerdictYet comes from the engine's own proofs.              *)
(***************************************************************************)
VerdictIsLast == \A h \in Handlers : reply[h] # "none" => pc[h] = "reply"

OneRequest ==
  \A i \in Ids :
    /\ phase[i] \in {"start", "retry"} => i \notin sent /\ pc[HandlerOf[i]] = "idle"
    /\ phase[i] = "waiting" /\ i \in sent => pc[HandlerOf[i]] = "idle"

Unanswered(i) == phase[i] \in {"start", "waiting", "retry"}
AllowKept ==
  \A i \in Ids :
    Unanswered(i) /\ byID[i] # None /\ wstate[byID[i]] = "admitted" =>
      \/ ch[byID[i]] = "allow"
      \/ phase[i] = "waiting" /\ reply[HandlerOf[i]] = "allow"

VerdictInv == VerdictIsLast /\ OneRequest /\ AllowKept

(* Where a waiter that is admitted after a step was before it: just        *)
(* admitted, or admitted and its verdict unread, or read by its handler.   *)
AllowFrom(i, w) ==
  \/ ch'[w] = "allow"
  \/ wstate[w] = "admitted" /\ ch'[w] = ch[w]
  \/ /\ wstate[w] = "admitted" /\ pc[HandlerOf[i]] \in {"fast", "select"}
     /\ reply'[HandlerOf[i]] = ch[w]

Deliveries ==
  /\ \A h \in Handlers : pc[h] = "idle" => pc'[h] = "idle"
  /\ \A h \in Handlers : reply[h] = "allow" => reply'[h] = "allow"
  /\ \A i \in Ids :
       byID'[i] # None /\ wstate'[byID'[i]] = "admitted" =>
         byID'[i] = byID[i] /\ AllowFrom(i, byID[i])

Steady ==
  /\ UNCHANGED <<reply, byID, ch>>
  /\ \A w \in Waiters : wstate'[w] = wstate[w] \/ (Queued(w) /\ Queued(w)')
  /\ \A h \in Handlers : pc'[h] = pc[h] \/ pc[h] \in {"kick", "fast"}

LEMMA SteadyDelivers ==
  ASSUME TypeInv, VerdictIsLast, Steady
  PROVE  Deliveries /\ VerdictIsLast'
<1>1. \A i \in Ids : byID[i] # None => byID[i] \in Waiters
  BY DEF TypeInv, TypeOK
<1>2. Deliveries
  BY <1>1 DEF Steady, Deliveries, AllowFrom, Queued, QueuedStates
<1> QED
  BY <1>2 DEF Steady, VerdictIsLast

LEMMA InsideDelivers ==
  ASSUME SysInv, OwnHandlers, NoVerdictYet, VerdictIsLast, Inside
  PROVE  Deliveries /\ VerdictIsLast'
<1> USE DEF SysInv, TypeInv, TypeOK, HandlersAttached, procVars, waiterVars, indexVars, policyVars, loadVars
<1>1. \A i \in Ids : HandlerOf[i] \in Handlers
  BY SystemAssumption
<1>2. \A h \in Handlers : h \notin Releasers \cup Operators \cup Services
  BY ConstantsAssumption
<1>3. \A i \in Ids : byID[i] # None => byID[i] \in Waiters /\ IdOf(byID[i]) = i
  BY DEF IndexOK
<1>4. ASSUME NEW i \in Ids, Polling(i)
      PROVE  Deliveries /\ VerdictIsLast'
  <2> DEFINE h == HandlerOf[i]
  <2>1. h \in Handlers
    BY <1>1
  <2>2. CASE (pc[h] = "fast" \/ pc[h] = "select") /\ Take(h)
    <3>1. attached[h] \in Waiters /\ IdOf(attached[h]) = i
      BY <2>1, <2>2, ConstantsAssumption DEF OwnHandlers
    <3> DEFINE w == attached[h]
    <3>a. /\ UNCHANGED <<wstate, byID>> /\ ch' = [ch EXCEPT ![w] = "none"]
          /\ reply' = [reply EXCEPT ![h] = ch[w]] /\ pc' = [pc EXCEPT ![h] = "reply"]
      BY <2>2 DEF Take
    <3> HIDE DEF w
    <3>2. VerdictIsLast'
      BY <2>1, <3>a DEF VerdictIsLast, Procs
    <3>3. ASSUME NEW j \in Ids, byID'[j] # None, wstate'[byID'[j]] = "admitted"
          PROVE  byID'[j] = byID[j] /\ AllowFrom(j, byID[j])
      <4>1. byID'[j] = byID[j] /\ wstate[byID[j]] = "admitted"
        BY <2>2, <3>3 DEF Take
      <4>2. CASE byID[j] # attached[h]
        BY <1>3, <2>2, <3>3, <4>1, <4>2 DEF Take, AllowFrom
      <4>3. CASE byID[j] = attached[h]
        <5>1. j = i
          BY <1>3, <3>1, <3>3, <4>1, <4>3
        <5> QED
          BY <2>1, <2>2, <3>1, <4>1, <4>3, <5>1 DEF Take, AllowFrom
      <4> QED
        BY <4>2, <4>3
    <3> QED
      BY <2>1, <2>2, <3>2, <3>3 DEF Take, Deliveries, VerdictIsLast
  <2>3. CASE FastPathMiss(h)
    <3>1. Steady
      BY <2>1, <2>3 DEF FastPathMiss, Steady
    <3> QED
      BY <3>1, SteadyDelivers
  <2>4. CASE PollEnds(h)
    <3>1. reply[h] = "none" /\ pc[h] = "select"
      BY <2>1, <2>4 DEF PollEnds, VerdictIsLast
    <3>2. VerdictIsLast'
      BY <2>1, <2>4 DEF PollEnds, VerdictIsLast, Procs
    <3>3. /\ UNCHANGED <<wstate, ch, byID>> /\ reply' = [reply EXCEPT ![h] = "queue"]
          /\ pc' = [pc EXCEPT ![h] = "reply"]
      BY <2>4 DEF PollEnds
    <3>4. \A g \in Handlers : (pc[g] = "idle" => pc'[g] = "idle") /\ (reply[g] = "allow" => reply'[g] = "allow")
      BY <2>1, <3>1, <3>3 DEF Procs
    <3>5. \A j \in Ids : byID'[j] # None /\ wstate'[byID'[j]] = "admitted" =>
            byID'[j] = byID[j] /\ AllowFrom(j, byID[j])
      BY <3>3 DEF AllowFrom
    <3> QED
      BY <3>2, <3>4, <3>5 DEF Deliveries
  <2> QED
    BY <1>4, <2>2, <2>3, <2>4 DEF Polling, FastPathTake, Receive
<1>5. ASSUME NEW p \in Procs, ScheduleDeny(p) \/ ScheduleAdmit(p)
      PROVE  Deliveries /\ VerdictIsLast'
  <2> DEFINE w == Head(queue)
  <2>1. w \in Waiters /\ Queued(w)
    BY <1>5, TailElements DEF ScheduleDeny, DropDenied, ScheduleAdmit, AdmitHead, HeadQueued
  <2>2. byID[IdOf(w)] = w /\ ch[w] = "none"
    BY <2>1 DEF NoVerdictYet, IndexOK, Queued, QueuedStates
  <2> HIDE DEF w
  <2>3. CASE ScheduleDeny(p)
    <3>1. /\ wstate' = [wstate EXCEPT ![w] = "done"] /\ byID' = [byID EXCEPT ![IdOf(w)] = None]
          /\ ch' = [ch EXCEPT ![w] = "deny"] /\ UNCHANGED <<pc, reply>>
      BY <2>1, <2>2, <2>3 DEF w, ScheduleDeny, DropDenied, Deliver
    <3> QED
      BY <1>3, <2>1, <2>2, <3>1 DEF Deliveries, AllowFrom, VerdictIsLast, Queued, QueuedStates
  <2>4. CASE ScheduleAdmit(p)
    <3>1. /\ wstate' = [wstate EXCEPT ![w] = "admitted"]
          /\ ch' = [ch EXCEPT ![w] = "allow"] /\ UNCHANGED <<pc, reply, byID>>
      BY <2>1, <2>2, <2>4 DEF w, ScheduleAdmit, AdmitHead, Deliver
    <3> QED
      BY <1>3, <2>1, <2>2, <3>1 DEF Deliveries, AllowFrom, VerdictIsLast, Queued, QueuedStates
  <2> QED
    BY <1>5, <2>3, <2>4
<1>6. CASE GCDrop
  <2>1. PICK n \in StaleAt : DropAt(n) /\ byID' = [byID EXCEPT ![IdOf(queue[n])] = None]
    BY <1>6 DEF GCDrop
  <2>2. queue[n] \in Waiters /\ wstate' = [wstate EXCEPT ![queue[n]] = "done"] /\ UNCHANGED <<pc, reply, ch>>
    BY <2>1 DEF StaleAt, DropAt
  <2> QED
    BY <1>3, <2>1, <2>2 DEF Deliveries, AllowFrom, VerdictIsLast, Queued, QueuedStates
<1>7. ASSUME NEW p \in Procs,
             ScheduleSkip(p) \/ ScheduleEnter(p) \/ SchedulePopStale(p) \/ ScheduleHold(p) \/ ScheduleEmpty(p)
      PROVE  Steady
  BY <1>7 DEF ScheduleSkip, ScheduleEnter, SchedulePopStale, ScheduleHold, HoldHead, ScheduleEmpty, Scheduling, Steady, Procs
<1>8. ASSUME \/ \E r \in Releasers : ReleaseGates(r)
             \/ \E o \in Operators : Pause(o) \/ Drain(o) \/ Resume(o)
             \/ LoadReset \/ (\E s \in Samples : LoadSample(s)) \/ (\E i \in Ids : TimerFires(i))
      PROVE  Steady
  <2>1. \A h \in Handlers : pc'[h] = pc[h]
    BY <1>2, <1>8 DEF ReleaseGates, FreeSlot, Pause, Drain, Resume, SetPolicy, LoadReset, LoadSample,
       TimerFires, Services, Procs
  <2> QED
    BY <1>8, <2>1 DEF ReleaseGates, FreeSlot, Pause, Drain, Resume, SetPolicy, LoadReset, LoadSample,
       TimerFires, Steady
<1>9. ASSUME \/ GCEnter \/ GCExit
             \/ \E w \in Waiters : GraceRunsOut(w)
             \/ \E b : BuildSeen(b) \/ WindowPasses(b)
      PROVE  Steady
  BY <1>9 DEF GCEnter, GCExit, GraceRunsOut, GraceElapses, BuildSeen, WindowPasses, Steady, Queued, QueuedStates
<1> QED
  BY <1>4, <1>5, <1>6, <1>7, <1>8, <1>9, SteadyDelivers DEF Inside, Schedule, GCQueued

-----------------------------------------------------------------------------
LEMMA VerdictInit == SysInit => VerdictInv
BY SystemAssumption
   DEF SysInit, Init, VerdictInv, VerdictIsLast, OneRequest, AllowKept, Procs, Queued, QueuedStates

LEMMA VerdictStep ==
  ASSUME SysInv, OwnHandlers, NoVerdictYet, VerdictInv, [SysNext]_sysVars
  PROVE  VerdictInv'
<1> USE DEF SysInv, SysTypeOK, TypeInv, TypeOK, VerdictInv
<1>1. \A i \in Ids : HandlerOf[i] \in Handlers /\ \A j \in Ids \ {i} : HandlerOf[j] # HandlerOf[i]
  BY SystemAssumption
<1>2. \A i \in Ids : byID[i] # None => byID[i] \in Waiters /\ IdOf(byID[i]) = i
  BY DEF IndexOK
<1>3. ASSUME NEW i \in Ids, Post(i)
      PROVE  VerdictInv'
  BY <1>3 DEF Post, vars, procVars, waiterVars, indexVars, VerdictIsLast, OneRequest,
     AllowKept, Unanswered, Queued
<1>4. ASSUME NEW i \in Ids, CurlFails(i) \/ GiveUp(i) \/ BuildEnds(i) \/ ReleaseLost(i) \/ Killed(i)
      PROVE  VerdictInv'
  <2>1. UNCHANGED <<pc, reply, wstate, ch, byID>>
    BY <1>4 DEF CurlFails, GiveUp, BuildEnds, ReleaseLost, Killed, vars, procVars, waiterVars, indexVars
  <2>2. /\ \A j \in Ids : phase'[j] = phase[j] \/ phase'[j] \in {"building", "release", "exited"}
        /\ sent' \subseteq sent
    BY <1>4 DEF CurlFails, GiveUp, BuildEnds, ReleaseLost, Killed, StartBuild
  <2> QED
    BY <2>1, <2>2 DEF VerdictIsLast, OneRequest, AllowKept, Unanswered
<1>5. ASSUME NEW i \in Ids, Serve(i)
      PROVE  VerdictInv'
  <2> DEFINE h == HandlerOf[i]
  <2>1. /\ h \in Handlers /\ pc[h] = "idle" /\ reply' = reply /\ pc' = [pc EXCEPT ![h] = "kick"]
        /\ sent' = sent \ {i} /\ phase' = phase /\ i \in sent
    BY <1>1, <1>5 DEF Serve, Attach, AttachNew, AttachKnown
  <2>2. VerdictIsLast' /\ OneRequest'
    BY <1>1, <2>1 DEF VerdictIsLast, OneRequest
  <2>3. CASE AttachNew(h, i)
    <3>1. PICK w \in Waiters :
            /\ IdOf(w) = i /\ byID' = [byID EXCEPT ![i] = w]
            /\ wstate' = [wstate EXCEPT ![w] = "polled"] /\ ch' = [ch EXCEPT ![w] = "none"]
      BY <2>3, FreshWaiter DEF AttachNew
    <3>2. AllowKept'
      BY <1>2, <2>1, <3>1 DEF AllowKept, Unanswered
    <3> QED
      BY <2>2, <3>2
  <2>4. CASE AttachKnown(h, i)
    <3>1. /\ byID[i] \in Waiters /\ UNCHANGED <<byID, ch>>
          /\ wstate' = IF Queued(byID[i]) THEN [wstate EXCEPT ![byID[i]] = "polled"] ELSE wstate
      BY <1>2, <2>4 DEF AttachKnown, indexVars
    <3>2. AllowKept'
      BY <1>2, <2>1, <3>1 DEF AllowKept, Unanswered, Queued, QueuedStates
    <3> QED
      BY <2>2, <3>2
  <2> QED
    BY <1>5, <2>3, <2>4 DEF Serve, Attach
<1>6. ASSUME NEW i \in Ids, Answer(i)
      PROVE  VerdictInv'
  <2> DEFINE h == HandlerOf[i]
  <2>1. /\ h \in Handlers /\ pc[h] = "reply" /\ UNCHANGED <<byID, ch, sent>>
        /\ pc' = [pc EXCEPT ![h] = "idle"] /\ reply' = [reply EXCEPT ![h] = "none"]
        /\ wstate' = IF Queued(attached[h]) THEN [wstate EXCEPT ![attached[h]] = "detached"] ELSE wstate
    BY <1>1, <1>6 DEF Answer, AnswerLost, AnswerAllow, AnswerQueue, AnswerDeny, Detach, indexVars, wrapperVars
  <2>2. attached[h] \in Waiters
    BY <2>1 DEF HandlersAttached
  <2>3. /\ \A j \in Ids \ {i} : phase'[j] = phase[j]
        /\ \/ phase'[i] \in {"building", "exited"}
           \/ phase'[i] = phase[i] /\ phase[i] # "waiting"
           \/ phase'[i] = "retry" /\ phase[i] = "waiting" /\ reply[h] # "allow"
    BY <1>6 DEF Answer, AnswerLost, AnswerAllow, AnswerQueue, AnswerDeny, StartBuild, wrapperVars
  <2>4. VerdictIsLast'
    BY <2>1 DEF VerdictIsLast
  <2>5. OneRequest'
    BY <1>1, <2>1, <2>3 DEF OneRequest, Procs
  <2>6. ASSUME NEW j \in Ids, Unanswered(j)', byID'[j] # None, wstate'[byID'[j]] = "admitted"
        PROVE  ch'[byID'[j]] = "allow" \/ (phase'[j] = "waiting" /\ reply'[HandlerOf[j]] = "allow")
    <3>1. byID'[j] = byID[j] /\ byID[j] \in Waiters
      BY <1>2, <2>1, <2>6
    <3>2. wstate[byID[j]] = "admitted" /\ ch'[byID[j]] = ch[byID[j]]
      BY <2>1, <2>2, <2>6, <3>1
    <3>3. CASE j # i
      <4>1. phase'[j] = phase[j] /\ reply'[HandlerOf[j]] = reply[HandlerOf[j]]
        BY <1>1, <2>1, <2>3, <3>3
      <4> QED
        BY <2>6, <3>1, <3>2, <4>1 DEF AllowKept, Unanswered
    <3>4. CASE j = i
      <4>1. Unanswered(i) /\ ~(phase[i] = "waiting" /\ reply[h] = "allow")
        BY <2>3, <2>6, <3>4 DEF Unanswered
      <4> QED
        BY <2>6, <3>1, <3>2, <3>4, <4>1 DEF AllowKept
    <3> QED
      BY <3>3, <3>4
  <2>7. AllowKept'
    BY <2>6 DEF AllowKept, Unanswered
  <2> QED
    BY <2>4, <2>5, <2>7
<1>7. ASSUME NEW i \in Ids, ReleaseServed(i) \/ ReaperReleases(i) \/ TerminalRelease(i)
      PROVE  VerdictInv'
  <2>1. PICK r \in Releasers : ReleaseForget(r, i)
    BY <1>7, SystemAssumption DEF ReleaseServed, ReaperReleases, TerminalRelease
  <2>2. /\ byID' = [byID EXCEPT ![i] = None] /\ UNCHANGED <<reply, ch>>
        /\ wstate' = [w \in Waiters |-> IF w = byID[i] THEN "done" ELSE wstate[w]]
    BY <2>1 DEF ReleaseForget, ForgetId
  <2>3. \A h \in Handlers : pc'[h] = pc[h]
    BY <2>1, ConstantsAssumption DEF ReleaseForget, ForgetId
  <2>4. /\ \A j \in Ids : phase'[j] = phase[j] \/ phase'[j] = "exited"
        /\ sent' = sent
    BY <1>7 DEF ReleaseServed, ReaperReleases, TerminalRelease, wrapperVars
  <2>5. VerdictIsLast' /\ OneRequest'
    BY <1>1, <2>2, <2>3, <2>4 DEF VerdictIsLast, OneRequest
  <2>6. AllowKept'
    BY <1>1, <1>2, <2>2, <2>4 DEF AllowKept, Unanswered
  <2> QED
    BY <2>5, <2>6
<1>8. CASE Inside /\ UNCHANGED <<wrapperVars, netVars>>
  <2>1. Deliveries /\ VerdictIsLast'
    BY <1>8, InsideDelivers
  <2>2. phase' = phase /\ sent' = sent
    BY <1>8 DEF wrapperVars
  <2>3. OneRequest'
    BY <1>1, <2>1, <2>2 DEF Deliveries, OneRequest
  <2>4. ASSUME NEW i \in Ids, Unanswered(i), byID'[i] # None, wstate'[byID'[i]] = "admitted"
        PROVE  \/ ch'[byID'[i]] = "allow"
               \/ phase[i] = "waiting" /\ reply'[HandlerOf[i]] = "allow"
    <3>1. byID'[i] = byID[i] /\ AllowFrom(i, byID[i])
      BY <2>1, <2>4 DEF Deliveries
    <3>2. CASE wstate[byID[i]] = "admitted" /\ ch'[byID[i]] = ch[byID[i]]
      BY <1>1, <2>1, <2>4, <3>1, <3>2 DEF AllowKept, Deliveries
    <3>3. CASE /\ wstate[byID[i]] = "admitted" /\ pc[HandlerOf[i]] \in {"fast", "select"}
               /\ reply'[HandlerOf[i]] = ch[byID[i]]
      <4>1. reply[HandlerOf[i]] = "none"
        BY <1>1, <3>3 DEF VerdictIsLast
      <4>2. phase[i] = "waiting"
        BY <2>4, <3>3 DEF OneRequest, Unanswered
      <4> QED
        BY <2>4, <3>1, <3>3, <4>1, <4>2 DEF AllowKept
    <3> QED
      BY <3>1, <3>2, <3>3 DEF AllowFrom
  <2>5. AllowKept'
    BY <2>2, <2>4 DEF AllowKept, Unanswered
  <2> QED
    BY <2>1, <2>3, <2>5
<1>9. CASE UNCHANGED <<vars, wrapperVars>>
  BY <1>9 DEF vars, procVars, waiterVars, indexVars, wrapperVars, VerdictIsLast, OneRequest,
     AllowKept, Unanswered
<1>10. ASSUME NEW i \in Ids, ReaperSpares(i) \/ TerminalEvent(i)
       PROVE  VerdictInv'
  BY <1>9, <1>10 DEF ReaperSpares, TerminalEvent, Report
<1> QED
  BY <1>3, <1>4, <1>5, <1>6, <1>7, <1>8, <1>9, <1>10 DEF SysNext, Reaper, ReaperScan, sysVars

LEMMA VerdictInvariance == SysSpec => []VerdictInv
<1>1. SysInv /\ SlotsInv /\ NoVerdictYet /\ VerdictInv /\ [SysNext]_sysVars => VerdictInv'
  BY VerdictStep DEF SlotsInv
<1> QED
  BY SlotsInvariance, SystemImplementsEngine, NoVerdictInvariance, VerdictInit, <1>1, PTL DEF SysSpec

(* An ALLOW is never lost between two polls: until its wrapper has read    *)
(* it, the verdict is in its waiter's channel or in the hands of the       *)
(* handler that is about to write it (AllowNotLost).                       *)
THEOREM AllowsAreKept == SysSpec => []AllowNotLost
<1>1. VerdictInv => AllowNotLost
  BY DEF VerdictInv, AllowKept, AllowNotLost, Unanswered
<1> QED
  BY VerdictInvariance, <1>1, PTL

-----------------------------------------------------------------------------
(***************************************************************************)
(* A place in the line.  A waiter that nobody polls any more belongs to a  *)
(* wrapper that does not poll again, provided that wrappers re-poll before *)
(* queuedGCGrace runs out; and before its first poll a wrapper has no      *)
(* waiter at all.                                                          *)
(***************************************************************************)
StaleGaveUp == \A w \in Waiters : wstate[w] = "stale" => ~Unanswered(IdOf(w))
StartsUnknown == \A i \in Ids : phase[i] = "start" => byID[i] = None
PlaceInv == StaleGaveUp /\ StartsUnknown

(* The id is forgotten only for a reason.                                  *)
ForgottenFor(i) ==
  byID[i] # None /\ byID'[i] = None => phase[i] \notin {"waiting", "retry"} \/ draining

(* A wrapper that has its answer does not start over.                      *)
LEMMA AnswersStay ==
  ASSUME SysInv, [SysNext]_sysVars, NEW i \in Ids
  PROVE  /\ Unanswered(i)' => Unanswered(i)
         /\ phase'[i] = "start" => phase[i] = "start"
<1> USE DEF Unanswered, SysInv, SysTypeOK, wrapperVars, netVars
<1>1. ASSUME NEW j \in Ids,
             Post(j) \/ Serve(j) \/ Answer(j) \/ CurlFails(j) \/ GiveUp(j) \/ BuildEnds(j)
               \/ ReleaseServed(j) \/ ReleaseLost(j) \/ Killed(j)
      PROVE  /\ Unanswered(i)' => Unanswered(i)
             /\ phase'[i] = "start" => phase[i] = "start"
  BY <1>1 DEF Post, Serve, Answer, AnswerLost, AnswerAllow, AnswerQueue, AnswerDeny,
     StartBuild, CurlFails, GiveUp, BuildEnds, ReleaseServed, ReleaseLost, Killed
<1>2. CASE phase' = phase
  BY <1>2
<1> QED
  BY <1>1, <1>2 DEF SysNext, sysVars, Reaper, ReaperSpares, ReaperReleases, TerminalEvent, Report,
     TerminalRelease, ReaperScan

(* Steps that make no waiter stale, and find none for who has not begun.   *)
LEMMA PlaceFrame ==
  ASSUME SysInv, PlaceInv, [SysNext]_sysVars,
         \A w \in Waiters : wstate'[w] = "stale" => wstate[w] = "stale",
         \A i \in Ids : byID[i] = None /\ phase[i] = "start" => byID'[i] = None
  PROVE  PlaceInv'
<1>1. \A w \in Waiters : IdOf(w) \in Ids
  BY DEF Waiters, IdOf
<1>2. StaleGaveUp'
  BY <1>1, AnswersStay DEF PlaceInv, StaleGaveUp
<1>3. StartsUnknown'
  BY AnswersStay DEF PlaceInv, StartsUnknown
<1> QED
  BY <1>2, <1>3 DEF PlaceInv

LEMMA PlaceStep ==
  ASSUME PromptRepoll, SysInv, ReleasedAreOver, VerdictInv, PlaceInv, [SysNext]_sysVars
  PROVE  PlaceInv' /\ \A i \in Ids : ForgottenFor(i)
<1> USE DEF SysInv, SysTypeOK, TypeInv, TypeOK, HandlersAttached, QueuedStates
<1>1. ASSUME UNCHANGED <<byID, wstate>>
      PROVE  PlaceInv' /\ \A i \in Ids : ForgottenFor(i)
  BY <1>1, PlaceFrame DEF ForgottenFor
<1>2. ASSUME NEW i \in Ids, Outside(i)
      PROVE  UNCHANGED <<byID, wstate>>
  BY <1>2 DEF Outside, Post, CurlFails, GiveUp, BuildEnds, ReleaseLost, Killed, ReaperSpares,
     TerminalEvent, Report, vars, waiterVars, indexVars
<1>3. ASSUME NEW i \in Ids, Serve(i)
      PROVE  PlaceInv' /\ \A j \in Ids : ForgottenFor(j)
  <2>1. HandlerOf[i] \in Handlers /\ phase[i] # "start"
    BY <1>3, SystemAssumption DEF Serve, VerdictInv, OneRequest
  <2>2. CASE AttachNew(HandlerOf[i], i)
    <3>1. PICK u \in Waiters : /\ byID' = [byID EXCEPT ![i] = u]
                               /\ wstate' = [wstate EXCEPT ![u] = "polled"]
      BY <2>2, FreshWaiter DEF AttachNew
    <3>2. u # None
      BY ConstantsAssumption
    <3> QED
      BY <2>1, <3>1, <3>2, PlaceFrame DEF ForgottenFor
  <2>3. CASE AttachKnown(HandlerOf[i], i)
    BY <2>3, PlaceFrame DEF AttachKnown, indexVars, ForgottenFor
  <2> QED
    BY <1>3, <2>2, <2>3 DEF Serve, Attach
<1>4. ASSUME NEW i \in Ids, Answer(i)
      PROVE  PlaceInv' /\ \A j \in Ids : ForgottenFor(j)
  <2>1. Detach(HandlerOf[i])
    BY <1>4 DEF Answer, AnswerLost, AnswerAllow, AnswerQueue, AnswerDeny
  <2> QED
    BY <2>1, PlaceFrame DEF Detach, indexVars, ForgottenFor
<1>5. ASSUME NEW i \in Ids, ReleaseServed(i) \/ ReaperReleases(i) \/ TerminalRelease(i)
      PROVE  PlaceInv' /\ \A j \in Ids : ForgottenFor(j)
  <2>1. PICK r \in Releasers : ReleaseForget(r, i)
    BY <1>5, SystemAssumption DEF ReleaseServed, ReaperReleases, TerminalRelease
  <2>2. /\ byID' = [byID EXCEPT ![i] = None]
        /\ wstate' = [w \in Waiters |-> IF w = byID[i] THEN "done" ELSE wstate[w]]
    BY <2>1 DEF ReleaseForget, ForgetId
  <2>3. phase[i] \notin {"waiting", "retry"}
    BY <1>5 DEF ReleaseServed, ReaperReleases, TerminalRelease, ReleasedAreOver, Over
  <2> QED
    BY <2>2, <2>3, PlaceFrame DEF ForgottenFor
<1>6. ASSUME NEW p \in Procs, ScheduleDeny(p)
      PROVE  PlaceInv' /\ \A j \in Ids : ForgottenFor(j)
  BY <1>6, PlaceFrame DEF ScheduleDeny, DropDenied, ForgottenFor
<1>7. ASSUME NEW p \in Procs, ScheduleAdmit(p)
      PROVE  PlaceInv' /\ \A j \in Ids : ForgottenFor(j)
  BY <1>7, PlaceFrame DEF ScheduleAdmit, AdmitHead, ForgottenFor
<1>8. CASE GCDrop
  <2>1. PICK n \in StaleAt : DropAt(n) /\ byID' = [byID EXCEPT ![IdOf(queue[n])] = None]
    BY <1>8 DEF GCDrop
  <2>2. queue[n] \in Waiters /\ ~Unanswered(IdOf(queue[n]))
    BY <2>1 DEF StaleAt, PlaceInv, StaleGaveUp
  <2> QED
    BY <2>1, <2>2, PlaceFrame DEF DropAt, ForgottenFor, Unanswered
<1>9. ASSUME NEW w \in Waiters, GraceRunsOut(w)
      PROVE  PlaceInv' /\ \A j \in Ids : ForgottenFor(j)
  <2>1. /\ wstate' = [wstate EXCEPT ![w] = "stale"] /\ byID' = byID /\ wstate[w] = "detached"
        /\ phase[IdOf(w)] \notin {"waiting", "retry"}
    BY <1>9 DEF GraceRunsOut, GraceElapses, indexVars
  <2>2. IdOf(w) \in Ids /\ byID[IdOf(w)] = w /\ w # None
    <3>1. IdOf(w) \in Ids
      BY DEF Waiters, IdOf
    <3>2. byID[IdOf(w)] = w
      BY <2>1 DEF IndexOK
    <3>3. w # None
      BY ConstantsAssumption
    <3> QED
      BY <3>1, <3>2, <3>3
  <2>3. ~Unanswered(IdOf(w))
    BY <2>1, <2>2 DEF Unanswered, PlaceInv, StartsUnknown
  <2>4. StaleGaveUp'
    <3>1. ASSUME NEW v \in Waiters, wstate'[v] = "stale" PROVE ~Unanswered(IdOf(v))
      BY <2>1, <2>3, <3>1 DEF PlaceInv, StaleGaveUp
    <3>2. \A v \in Waiters : IdOf(v) \in Ids
      BY DEF Waiters, IdOf
    <3> QED
      BY <3>1, <3>2, AnswersStay DEF StaleGaveUp
  <2>5. StartsUnknown'
    BY <2>1, AnswersStay DEF PlaceInv, StartsUnknown
  <2> QED
    BY <2>1, <2>4, <2>5 DEF PlaceInv, ForgottenFor
<1>10. ASSUME Inside, \A p \in Procs : ~ScheduleDeny(p) /\ ~ScheduleAdmit(p), ~GCDrop,
              \A w \in Waiters : ~GraceRunsOut(w)
       PROVE  UNCHANGED <<byID, wstate>>
  BY <1>10 DEF Inside, Polling, FastPathTake, FastPathMiss, Receive, PollEnds, Take, ReleaseGates, FreeSlot,
     Schedule, ScheduleSkip, ScheduleEnter, ScheduleHold, HoldHead, SchedulePopStale, ScheduleEmpty, GCQueued,
     GCEnter, GCExit, Pause, Drain, Resume, SetPolicy, LoadReset, LoadSample, TimerFires, BuildSeen,
     WindowPasses, waiterVars, indexVars
<1> HIDE DEF SysInv, SysTypeOK, TypeInv, TypeOK, HandlersAttached, QueuedStates
<1>11. CASE Inside
  BY <1>1, <1>6, <1>7, <1>8, <1>9, <1>10, <1>11
<1>12. CASE UNCHANGED sysVars
  BY <1>1, <1>12 DEF sysVars, vars, waiterVars, indexVars
<1>13. CASE ReaperScan
  BY <1>1, <1>13 DEF ReaperScan, vars, waiterVars, indexVars
<1> QED
  BY <1>1, <1>2, <1>3, <1>4, <1>5, <1>11, <1>12, <1>13 DEF SysNext, Outside, Reaper

(* A wrapper that polls in time keeps its place (KeepsPlace): neither the  *)
(* collector nor the release, the reaper or a terminal event of another    *)
(* build makes the engine forget it; only a drain does.                    *)
THEOREM PlacesAreKept ==
  ASSUME PromptRepoll
  PROVE  SysSpec => KeepsPlace
<1>1. SysInit => PlaceInv
  BY DEF SysInit, Init, PlaceInv, StaleGaveUp, StartsUnknown
<1>2. SysInv /\ ReleasedAreOver /\ VerdictInv /\ PlaceInv /\ [SysNext]_sysVars => PlaceInv'
  BY PlaceStep
<1>3. SysInv /\ ReleasedAreOver /\ VerdictInv /\ PlaceInv /\ [SysNext]_sysVars =>
        [\A i \in Ids : byID[i] # None /\ byID'[i] = None =>
           \/ phase[i] \notin {"waiting", "retry"}
           \/ draining]_sysVars
  BY PlaceStep DEF ForgottenFor
<1> QED
  BY SlotsInvariance, VerdictInvariance, <1>1, <1>2, <1>3, PTL DEF SysSpec, KeepsPlace

(* All that is proved about the engine holds among its clients, too.       *)
THEOREM SystemKeepsPromise ==
  SysSpec => KeepsPromise /\ []NoLostWakeup /\ []DrainLeavesNobody /\ PauseHolds
BY SystemImplementsEngine, EngineKeepsPromise, WakeupsNotLost, DrainsEmpty, PausesHold, PTL
=============================================================================
