--------------------------- MODULE AdmissionSystem ---------------------------
(***************************************************************************)
(* The admission engine together with its clients and its safety nets: the *)
(* tools/bazel wrappers that poll, build and release, the PID reaper, and  *)
(* the loop that releases the slots of builds the registry saw finish.     *)
(*                                                                         *)
(* A wrapper mints one invocation id, so wrappers are named by Ids, and    *)
(* each has at most one POST /admission and one POST /admission/release    *)
(* in the broker.                                                          *)
(***************************************************************************)
EXTENDS Admission

CONSTANTS
  HandlerOf,     \* the goroutine that serves the polls of a wrapper
  ReleaserOf,    \* the goroutine that serves its release
  TerminalLoop,  \* runTerminalRelease
  ReaperLoop,    \* runReaper
  Flaky,         \* wrappers that may be killed, lose their connection or give up
  HubWired,      \* TRUE: Run was given the hub's terminal events
  PromptRepoll   \* TRUE: a wrapper re-polls before queuedGCGrace runs out

ASSUME SystemAssumption ==
  /\ HandlerOf \in [Ids -> Handlers]
  /\ ReleaserOf \in [Ids -> Releasers \ {TerminalLoop, ReaperLoop}]
  /\ \A i, j \in Ids : i # j => HandlerOf[i] # HandlerOf[j] /\ ReleaserOf[i] # ReleaserOf[j]
  /\ {TerminalLoop, ReaperLoop} \subseteq Releasers
  /\ TerminalLoop # ReaperLoop
  /\ Flaky \subseteq Ids
  /\ HubWired \in BOOLEAN
  /\ PromptRepoll \in BOOLEAN

VARIABLES
  phase,     \* where the wrapper's script stands; "exited" also when killed
  sent,      \* wrappers whose POST /admission the broker has not accepted yet
  granted,   \* wrappers that build because they received ALLOW
  bazel,     \* the bazel child of the wrapper
  reap,      \* the ids the reaper still has to probe in this round
  reported,  \* builds the registry reported terminal to the hub
  events     \* of those, the ones the terminal-release loop has yet to handle

wrapperVars == <<phase, sent, granted, bazel>>
netVars     == <<reap, reported, events>>
sysVars     == <<vars, wrapperVars, netVars>>

SysInit ==
  /\ Init
  /\ phase = [i \in Ids |-> "start"]
  /\ sent = {}
  /\ granted = {}
  /\ bazel = [i \in Ids |-> "none"]
  /\ reap = {}
  /\ reported = {}
  /\ events = {}

(***************************************************************************)
(* The wrapper.                                                            *)
(***************************************************************************)
(* The first poll, or the next one after a 202. *)
Post(i) ==
  /\ phase[i] \in {"start", "retry"}
  /\ phase' = [phase EXCEPT ![i] = "waiting"]
  /\ sent' = sent \cup {i}
  /\ UNCHANGED <<vars, granted, bazel, netVars>>

(* The broker accepts the request, maybe long after the wrapper gave up.   *)
Serve(i) ==
  /\ i \in sent
  /\ Attach(HandlerOf[i], i)
  /\ sent' = sent \ {i}
  /\ UNCHANGED <<phase, granted, bazel, netVars>>

StartBuild(i) ==
  /\ phase' = [phase EXCEPT ![i] = "building"]
  /\ bazel' = [bazel EXCEPT ![i] = "running"]

(* The handler returns; curl is still there to read the answer, or not.    *)
AnswerLost(i) ==
  /\ phase[i] # "waiting"
  /\ Detach(HandlerOf[i])
  /\ UNCHANGED <<wrapperVars, netVars>>

AnswerAllow(i) ==
  /\ phase[i] = "waiting"
  /\ reply[HandlerOf[i]] = "allow"
  /\ Detach(HandlerOf[i])
  /\ StartBuild(i)
  /\ granted' = granted \cup {i}
  /\ UNCHANGED <<sent, netVars>>

AnswerQueue(i) ==
  /\ phase[i] = "waiting"
  /\ reply[HandlerOf[i]] = "queue"
  /\ Detach(HandlerOf[i])
  /\ phase' = [phase EXCEPT ![i] = "retry"]
  /\ UNCHANGED <<sent, granted, bazel, netVars>>

AnswerDeny(i) ==
  /\ phase[i] = "waiting"
  /\ reply[HandlerOf[i]] = "deny"
  /\ Detach(HandlerOf[i])
  /\ phase' = [phase EXCEPT ![i] = "exited"]
  /\ UNCHANGED <<sent, granted, bazel, netVars>>

Answer(i) == AnswerLost(i) \/ AnswerAllow(i) \/ AnswerQueue(i) \/ AnswerDeny(i)

(* Fail-open: curl failed or timed out, with the request lost, still on    *)
(* its way or already being served.                                        *)
CurlFails(i) ==
  /\ i \in Flaky
  /\ phase[i] = "waiting"
  /\ StartBuild(i)
  /\ sent' \in {sent, sent \ {i}}
  /\ UNCHANGED <<vars, granted, netVars>>

(* Fail-open: this 202 was the last of max_attempts.                       *)
GiveUp(i) ==
  /\ i \in Flaky
  /\ phase[i] = "retry"
  /\ StartBuild(i)
  /\ UNCHANGED <<vars, sent, granted, netVars>>

BuildEnds(i) ==
  /\ bazel[i] = "running"
  /\ bazel' = [bazel EXCEPT ![i] = "ended"]
  /\ phase' = IF phase[i] = "building" THEN [phase EXCEPT ![i] = "release"]
                                       ELSE phase
  /\ UNCHANGED <<vars, sent, granted, netVars>>

(* release(): its failure is ignored.                                      *)
ReleaseServed(i) ==
  /\ phase[i] = "release"
  /\ ReleaseForget(ReleaserOf[i], i)
  /\ phase' = [phase EXCEPT ![i] = "exited"]
  /\ UNCHANGED <<sent, granted, bazel, netVars>>

ReleaseLost(i) ==
  /\ phase[i] = "release"
  /\ phase' = [phase EXCEPT ![i] = "exited"]
  /\ UNCHANGED <<vars, sent, granted, bazel, netVars>>

(* kill -9, or Ctrl-C before the EXIT trap is set.  The bazel child of a   *)
(* killed wrapper runs on.                                                 *)
Killed(i) ==
  /\ i \in Flaky
  /\ phase[i] # "exited"
  /\ phase' = [phase EXCEPT ![i] = "exited"]
  /\ UNCHANGED <<vars, sent, granted, bazel, netVars>>

(***************************************************************************)
(* reapDeadPIDs: collect the admitted ids under mu, then probe one pid     *)
(* after the other and Release the dead ones.  A dead wrapper stays dead,  *)
(* so the probe and the start of the Release are one step.                 *)
(***************************************************************************)
BugScanDelivered ==
  /\ Unlocked
  /\ pc[ReaperLoop] = "idle" /\ reap = {}
  /\ reap' = {i \in Ids : byID[i] # None /\ wstate[byID[i]] = "admitted" /\ ch[byID[i]] = "none"}
  /\ UNCHANGED <<vars, wrapperVars, reported, events>>

ReaperScan ==
  /\ Unlocked
  /\ pc[ReaperLoop] = "idle" /\ reap = {}
  /\ reap' = {i \in Ids : byID[i] # None /\ wstate[byID[i]] = "admitted"}
  /\ UNCHANGED <<vars, wrapperVars, reported, events>>

ReaperSpares(i) ==
  /\ pc[ReaperLoop] = "idle" /\ i \in reap
  /\ phase[i] # "exited"
  /\ reap' = reap \ {i}
  /\ UNCHANGED <<vars, wrapperVars, reported, events>>

BugReapAny(i) ==
  /\ i \in reap
  /\ ReleaseForget(ReaperLoop, i)
  /\ reap' = reap \ {i}
  /\ UNCHANGED <<wrapperVars, reported, events>>

ReaperReleases(i) ==
  /\ i \in reap
  /\ phase[i] = "exited"
  /\ ReleaseForget(ReaperLoop, i)
  /\ reap' = reap \ {i}
  /\ UNCHANGED <<wrapperVars, reported, events>>

Reaper(i) == ReaperSpares(i) \/ ReaperReleases(i)

(***************************************************************************)
(* The registry broadcasts a terminal event when it learns that the build  *)
(* is over; the hub may drop the subscription, and then no event arrives   *)
(* any more.                                                               *)
(***************************************************************************)
Report(i) ==
  /\ HubWired
  /\ i \notin reported
  /\ reported' = reported \cup {i}
  /\ events' \in {events, events \cup {i}}
  /\ UNCHANGED <<vars, wrapperVars, reap>>

BugTerminalEvent(i) == bazel[i] = "running" /\ Report(i)

TerminalEvent(i) == bazel[i] = "ended" /\ Report(i)

TerminalRelease(i) ==
  /\ i \in events
  /\ ReleaseForget(TerminalLoop, i)
  /\ events' = events \ {i}
  /\ UNCHANGED <<wrapperVars, reap, reported>>

(***************************************************************************)
(* The steps of the engine that no client takes part in.                   *)
(***************************************************************************)
Polling(i) == FastPathTake(HandlerOf[i]) \/ FastPathMiss(HandlerOf[i])
                \/ Receive(HandlerOf[i]) \/ PollEnds(HandlerOf[i])

(* With PromptRepoll a wrapper that is about to poll again, or whose poll  *)
(* is on its way, does so before the grace of its waiter runs out.         *)
GraceRunsOut(w) ==
  /\ PromptRepoll => phase[IdOf(w)] \notin {"waiting", "retry"}
  /\ GraceElapses(w)

Inside ==
  \/ \E i \in Ids : Polling(i)
  \/ \E r \in Releasers : ReleaseGates(r)
  \/ \E p \in Procs : Schedule(p)
  \/ GCQueued
  \/ \E o \in Operators : Pause(o) \/ Drain(o) \/ Resume(o)
  \/ \E s \in Samples : LoadSample(s)
  \/ LoadReset
  \/ \E i \in Ids : TimerFires(i)
  \/ \E w \in Waiters : GraceRunsOut(w)
  \/ \E b \in Others \cup {i \in Ids : bazel[i] = "running"} : BuildSeen(b)
  \/ \E b \in warm : WindowPasses(b)

SysNext ==
  \/ \E i \in Ids :
       \/ Post(i) \/ Serve(i) \/ Answer(i) \/ CurlFails(i) \/ GiveUp(i)
       \/ BuildEnds(i) \/ ReleaseServed(i) \/ ReleaseLost(i) \/ Killed(i)
       \/ Reaper(i) \/ TerminalEvent(i) \/ TerminalRelease(i)
  \/ ReaperScan
  \/ Inside /\ UNCHANGED <<wrapperVars, netVars>>

SysSpec == SysInit /\ [][SysNext]_sysVars

(***************************************************************************)
(* Fairness: every goroutine and every wrapper keeps running, builds end   *)
(* and the grace and stagger windows pass.  Go's mutex does not starve a   *)
(* waiter, so a goroutine that competes for Engine.mu is strongly fair;    *)
(* being sequential, it has one formula for all its steps.  Kills, lost    *)
(* requests, requests of operators and terminal events are not fair, and a *)
(* release is not needed either: the reaper is.                            *)
(***************************************************************************)
Engine(A) == A /\ UNCHANGED <<wrapperVars, netVars>>
Frees(i)  == ReleaseGates(ReleaserOf[i]) \/ Schedule(ReleaserOf[i])

ClientFairness ==
  /\ \A i \in Ids :
       /\ WF_sysVars(Post(i) \/ BuildEnds(i) \/ ReleaseLost(i))
       /\ SF_sysVars(\/ Serve(i) \/ Answer(i)
                     \/ Engine(Polling(i) \/ Schedule(HandlerOf[i])))
  /\ SF_sysVars(\E i \in Ids : Engine(Frees(i)))
  /\ SF_sysVars(\/ ReaperScan \/ \E i \in Ids : Reaper(i)
                \/ Engine(ReleaseGates(ReaperLoop) \/ Schedule(ReaperLoop)))
  /\ SF_sysVars(Engine(GCQueued))
  /\ SF_sysVars(\E o \in Operators : Engine(Schedule(o)))
  /\ \A w \in Waiters : WF_sysVars(Engine(GraceRunsOut(w)))

FairSpec == SysSpec /\ ClientFairness

-----------------------------------------------------------------------------
(* Every variable keeps its type.                                          *)
SysTypeOK ==
  /\ TypeOK
  /\ phase \in [Ids -> {"start", "waiting", "retry", "building", "release", "exited"}]
  /\ sent \in SUBSET Ids
  /\ granted \in SUBSET Ids
  /\ bazel \in [Ids -> {"none", "running", "ended"}]
  /\ reap \in SUBSET Ids
  /\ reported \in SUBSET Ids
  /\ events \in SUBSET reported

(* A wrapper that builds because it was told ALLOW.                        *)
Admitted(i) == phase[i] = "building" /\ i \in granted

(* The broker's purpose: never more admitted builds than slots, as long as *)
(* the wrappers are not killed under their builds.  Release, the terminal  *)
(* events and the reaper, in any order, never free the slot of a live one. *)
AdmittedBuildsBounded == Cardinality({i \in Ids : Admitted(i)}) <= Slots

(* Each admitted build has a slot of its own.                              *)
AdmittedHoldsSlot == \A i \in Ids : Admitted(i) => i \in held

(* An ALLOW is not lost: the slot of a wrapper that still polls is backed  *)
(* by a verdict in its waiter's channel, or in the answer its handler is   *)
(* about to write (the race of schedule() against the end of the poll).    *)
AllowNotLost ==
  \A i \in Ids :
    phase[i] \in {"waiting", "retry"} /\ byID[i] # None
      /\ wstate[byID[i]] = "admitted" =>
      \/ ch[byID[i]] = "allow"
      \/ phase[i] = "waiting" /\ reply[HandlerOf[i]] = "allow"

(* A wrapper that keeps polling keeps its place: once it was queued it is  *)
(* not forgotten before it is answered.                                    *)
KeepsPlace ==
  [][\A i \in Ids : byID[i] # None /\ byID'[i] = None =>
       \/ phase[i] \notin {"waiting", "retry"}
       \/ draining]_sysVars

(* Every wrapper that polls is answered: it builds, is denied or dies.     *)
(* Nobody ahead of it can wedge the line for ever: builds end, the slots   *)
(* of the dead are reaped and the dead in the queue are collected.  Only a *)
(* pause may hold it; a drain denies it.                                   *)
EveryPollerAnswered ==
  \A i \in Ids : phase[i] = "waiting" ~>
    phase[i] \in {"building", "release", "exited"} \/ paused

(* The slot of a wrapper that is gone is freed, even when its release was  *)
(* lost, the hub dropped the engine's subscription, or the slot was only   *)
(* granted after the wrapper died.                                         *)
DeadSlotsFreed ==
  \A i \in Ids : phase[i] = "exited" /\ i \in held ~> i \notin held
=============================================================================
