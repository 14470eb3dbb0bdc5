--------------------------------- MODULE Ingest ---------------------------------
(***************************************************************************)
(* How the daemon follows the builds of one worktree through the file of   *)
(* build events that each bazel truncates in place and writes anew: the    *)
(* manager that starts and stops tailers (internal/bep/manager.go), the    *)
(* tailer and the supervisor that restarts it when the file shrinks        *)
(* (internal/bep/tailer.go), and the stream it folds the events into       *)
(* (internal/bep/dispatch.go).                                             *)
(*                                                                         *)
(* Files, offsets and sizes are counted in events.  Of the registry there  *)
(* is the record each stream makes under its invocation id, which is the   *)
(* number of the build, and whether discovery lists a process.             *)
(***************************************************************************)
EXTENDS Metrics

CONSTANTS
  Last,     \* the number of builds in the worktree
  Tailers,  \* tailer goroutines
  Off,      \* no tailer
  CountsOf, \* the runner counts of a build
  Outcomes, \* which builds may fail together
  Past,     \* the ratios of earlier builds of the worktree, newest first
  Trailing, \* how many ratios an alert looks back
  Prompt,   \* the pollers are fast against builds; see Ahead, Gone and Read
  MetricsMayFail,
  MayRestart

ASSUME IngestAssumption ==
  /\ Last \in Nat
  /\ Off \notin Tailers
  /\ CountsOf \in [1 .. Last -> Counts]
  /\ Outcomes \subseteq [1 .. Last -> BOOLEAN]
  /\ Past \in Seq(0 .. 100)
  /\ Trailing \in Nat \ {0}
  /\ Prompt \in BOOLEAN
  /\ MetricsMayFail \in BOOLEAN
  /\ MayRestart \in BOOLEAN

Builds == 1 .. Last
Script == <<"Started", "Pattern", "TestResult", "Finished", "BuildMetrics", "LastMessage">>

(* What a stream has folded of its file: the id of the last Started, whose *)
(* results the row adds up and whose BuildMetrics it has, whose target     *)
(* patterns, what Finished said.                                           *)
Stream == [id : 0 .. Last, from : SUBSET Builds, measured : 0 .. Last, targets : 0 .. Last,
           success : BOOLEAN, finish : BOOLEAN, bound : BOOLEAN, finalized : BOOLEAN]
Fresh == [id |-> 0, from |-> {}, measured |-> 0, targets |-> 0,
          success |-> FALSE, finish |-> FALSE, bound |-> FALSE, finalized |-> FALSE]

(* A row of the metrics table.                                             *)
Row == [from : SUBSET Builds, measured : 0 .. Last, alert : Alerts]
NoRow == [from |-> {}, measured |-> 0, alert |-> "none"]

(* resetState: the patterns stay.                                          *)
BugReset(s) == [Fresh EXCEPT !.targets = s.targets, !.from = s.from]
BugResetKeepsEnd(s) == [Fresh EXCEPT !.targets = s.targets, !.finalized = s.finalized]
Reset(s) == [Fresh EXCEPT !.targets = s.targets]

Session == [at : {"off", "opening", "reading", "ending"}, pos : 0 .. Len(Script),
            offset : 0 .. Len(Script), read : 0 .. Last, restart : BOOLEAN, cancelled : BOOLEAN]
Closed == [at |-> "off", pos |-> 0, offset |-> 0, read |-> 0, restart |-> FALSE, cancelled |-> FALSE]

VARIABLES
  file,      \* whose events the file has, and how many of them
  bazel,     \* the client: none, launched, writing its events
  fails,     \* which builds fail
  listed,    \* discovery has a running record of the client
  forgotten, \* its record was called gone by a restart and stays gone
  reg,       \* the records under invocation ids
  targets,   \* whose target patterns a record shows
  rows,      \* the metrics rows
  told,      \* the builds whose metrics were broadcast
  halting,   \* the daemon was told to shut down
  tails,     \* the tailer in the manager's map
  idle,      \* idleSince: absent, set, set longer ago than the grace
  session,   \* the tailers
  stream     \* what they have folded

world == <<file, bazel, fails>>
registry == <<listed, forgotten, reg, targets>>
metrics == <<rows, told>>
manager == <<tails, idle, halting>>
vars == <<world, registry, metrics, manager, session, stream>>

Init ==
  /\ file = [build |-> 0, size |-> 0]
  /\ bazel = "none"
  /\ fails \in Outcomes
  /\ listed = FALSE /\ forgotten = FALSE
  /\ reg = [b \in Builds |-> "absent"]
  /\ targets = [b \in Builds |-> 0]
  /\ rows = [b \in Builds |-> NoRow]
  /\ told = {}
  /\ tails = Off /\ idle = "no" /\ halting = FALSE
  /\ session = [t \in Tailers |-> Closed]
  /\ stream = [t \in Tailers |-> Fresh]

(* A record adrift runs, but is in no worktree.                            *)
Running == {"running", "adrift"}
Terminal == {"finished", "failed", "gone"}

(* Every variable keeps its type.                                          *)
IngestTypeOK ==
  /\ file \in [build : 0 .. Last, size : 0 .. Len(Script)]
  /\ bazel \in {"none", "launched", "writing"}
  /\ fails \in [Builds -> BOOLEAN]
  /\ listed \in BOOLEAN /\ forgotten \in BOOLEAN
  /\ reg \in [Builds -> {"absent"} \cup Running \cup Terminal]
  /\ targets \in [Builds -> 0 .. Last]
  /\ rows \in [Builds -> Row]
  /\ told \in SUBSET Builds
  /\ halting \in BOOLEAN
  /\ tails \in Tailers \cup {Off}
  /\ idle \in {"no", "counting", "elapsed"}
  /\ session \in [Tailers -> Session]
  /\ stream \in [Tailers -> Stream]

-----------------------------------------------------------------------------
(* A session that has read events of an earlier build than the file's.     *)
Stale(t) ==
  session[t].at = "reading" /\ session[t].offset > 0 /\ session[t].read # file.build

(* The supervisor looks four times a second: it sees the truncation before *)
(* the next build has written as much as the last one.                     *)
Ahead == Prompt => \A t \in Tailers : Stale(t) => file.size + 1 < session[t].offset

(* One bazel runs in a worktree at a time.                                 *)
Launch ==
  /\ bazel = "none" /\ file.build < Last
  /\ bazel' = "launched"
  /\ forgotten' = FALSE
  /\ UNCHANGED <<file, fails, listed, reg, targets, metrics, manager, session, stream>>

Truncate ==
  /\ bazel = "launched"
  /\ file' = [build |-> file.build + 1, size |-> 0]
  /\ bazel' = "writing"
  /\ UNCHANGED <<fails, registry, metrics, manager, session, stream>>

Write ==
  /\ bazel = "writing" /\ file.size < Len(Script)
  /\ Ahead
  /\ file' = [file EXCEPT !.size = @ + 1]
  /\ UNCHANGED <<bazel, fails, registry, metrics, manager, session, stream>>

(* It exits, or is killed anywhere.                                        *)
Exit ==
  /\ bazel # "none"
  /\ bazel' = "none"
  /\ UNCHANGED <<file, fails, registry, metrics, manager, session, stream>>

(* A reconcile pass of the discovery.                                      *)
Discover ==
  /\ listed' = (bazel # "none" /\ ~forgotten)
  /\ UNCHANGED <<world, forgotten, reg, targets, metrics, manager, session, stream>>

-----------------------------------------------------------------------------
(* finalize() of a stream: the metrics row, the verdict, the broadcasts.   *)
BugVerdict(s) == IF ~s.finish THEN "unknown" ELSE IF s.success THEN "finished" ELSE "failed"
Verdict(s) == IF s.finish /\ ~s.success THEN "failed" ELSE "finished"

Finalizes(s) == s.id # 0 /\ ~s.finalized

(* RecentRatiosForWorktree: of the other builds, newest first.             *)
RatioOf(m) == IF m = 0 THEN None ELSE CacheHitRatio(CountsOf[m])
Rated(but) == {b \in Builds \ {but} : RatioOf(rows[b].measured) # None}
BugRecent(but) ==
  LET newer(k) == Cardinality({b \in Rated(0) : b > k})
      n == Cardinality(Rated(0))
      all == [j \in 1 .. n + Len(Past) |->
                IF j > n THEN Past[j - n]
                ELSE RatioOf(rows[CHOOSE b \in Rated(0) : newer(b) = j - 1].measured)]
  IN SubSeq(all, 1, IF Len(all) < Trailing THEN Len(all) ELSE Trailing)
Recent(but) ==
  LET newer(k) == Cardinality({b \in Rated(but) : b > k})
      n == Cardinality(Rated(but))
      all == [j \in 1 .. n + Len(Past) |->
                IF j > n THEN Past[j - n]
                ELSE RatioOf(rows[CHOOSE b \in Rated(but) : newer(b) = j - 1].measured)]
  IN SubSeq(all, 1, IF Len(all) < Trailing THEN Len(all) ELSE Trailing)

AlertOf(s) ==
  LET ratio == RatioOf(s.measured) IN
  IF ratio = None THEN "none"
  ELSE EvaluateAlert(ratio, Processes(CountsOf[s.measured]), Recent(s.id))

RowOf(s) == [from |-> s.from, measured |-> s.measured, alert |-> AlertOf(s)]

Finalize(s) ==
  IF ~Finalizes(s) THEN UNCHANGED <<reg, metrics>>
  ELSE /\ \/ rows' = [rows EXCEPT ![s.id] = RowOf(s)]
          \/ MetricsMayFail /\ UNCHANGED rows
       /\ reg' = [reg EXCEPT ![s.id] = IF @ \in Terminal THEN @ ELSE Verdict(s)]
       /\ told' = told \cup {s.id}

(* pushCommandTargets, when bound.                                         *)
Shown(id, whose) == [targets EXCEPT ![id] = IF whose = 0 THEN @ ELSE whose]

(* The first Started binds the stream and makes the record; a later one,   *)
(* of a stream that missed a truncation, only renames the row.             *)
Started(t, b) ==
  LET s == stream[t] IN
  /\ stream' = [stream EXCEPT ![t] = [s EXCEPT !.id = b, !.bound = TRUE]]
  /\ IF s.bound THEN UNCHANGED <<reg, targets>>
     ELSE /\ reg' = [reg EXCEPT ![b] = IF @ = "absent" THEN "running" ELSE @]
          /\ targets' = Shown(b, s.targets)
  /\ UNCHANGED metrics

Pattern(t, b) ==
  LET s == stream[t] IN
  /\ stream' = [stream EXCEPT ![t].targets = b]
  /\ IF ~s.bound THEN UNCHANGED <<reg, targets>>
     ELSE /\ reg' = [reg EXCEPT ![s.id] = IF @ = "absent" THEN "adrift" ELSE @]
          /\ targets' = Shown(s.id, b)
  /\ UNCHANGED metrics

TestResult(t, b) ==
  /\ stream' = [stream EXCEPT ![t].from = @ \cup {b}]
  /\ UNCHANGED <<reg, targets, metrics>>

BugFinished(t, b) ==
  LET s == [stream[t] EXCEPT !.from = @ \cup {b}, !.finish = TRUE, !.success = ~fails[b]] IN
  /\ Finalize(s)
  /\ stream' = [stream EXCEPT ![t] = [s EXCEPT !.finalized = @ \/ Finalizes(s)]]
  /\ UNCHANGED targets
Finished(t, b) ==
  /\ stream' = [stream EXCEPT ![t].from = @ \cup {b}, ![t].finish = TRUE, ![t].success = ~fails[b]]
  /\ UNCHANGED <<reg, targets, metrics>>

(* ExtractMetrics replaces what an earlier event brought.                  *)
BuildMetrics(t, b) ==
  /\ stream' = [stream EXCEPT ![t].measured = b]
  /\ UNCHANGED <<reg, targets, metrics>>

LastMessage(t) ==
  /\ Finalize(stream[t])
  /\ stream' = [stream EXCEPT ![t].finalized = @ \/ Finalizes(stream[t])]
  /\ UNCHANGED targets

Dispatch(t, event, b) ==
  \/ event = "Started" /\ Started(t, b)
  \/ event = "Pattern" /\ Pattern(t, b)
  \/ event = "TestResult" /\ TestResult(t, b)
  \/ event = "Finished" /\ Finished(t, b)
  \/ event = "BuildMetrics" /\ BuildMetrics(t, b)
  \/ event = "LastMessage" /\ LastMessage(t)

-----------------------------------------------------------------------------
Open(t) ==
  /\ session[t].at = "opening"
  /\ session' = [session EXCEPT ![t] =
       [Closed EXCEPT !.at = "reading", !.cancelled = session[t].cancelled]]
  /\ UNCHANGED <<world, registry, metrics, manager, stream>>

(* One line of the file; the select may take it although the context is    *)
(* done.  A prompt tailer does not, and its supervisor restarts a stale    *)
(* session before it reads on.                                             *)
Read(t) ==
  LET k == session[t].pos + 1 IN
  /\ session[t].at = "reading" /\ k <= file.size
  /\ Prompt => ~Stale(t) /\ ~session[t].cancelled
  /\ session' = [session EXCEPT ![t].pos = k, ![t].offset = k, ![t].read = file.build]
  /\ Dispatch(t, Script[k], file.build)
  /\ UNCHANGED <<world, listed, forgotten, manager>>

(* The tail library may notice by itself that the file shrank.             *)
Rewind(t) ==
  /\ session[t].at = "reading" /\ session[t].pos > file.size
  /\ session' = [session EXCEPT ![t].pos = 0]
  /\ UNCHANGED <<world, registry, metrics, manager, stream>>

Supervise(t) ==
  /\ session[t].at = "reading" /\ ~session[t].restart /\ ~session[t].cancelled
  /\ file.size < session[t].offset
  /\ session' = [session EXCEPT ![t].restart = TRUE]
  /\ UNCHANGED <<world, registry, metrics, manager, stream>>

(* runOneTail returns; whatever the file reached is finalized.             *)
BugReturn(t) ==
  /\ session[t].at = "reading"
  /\ \/ /\ session[t].cancelled
        /\ session' = [session EXCEPT ![t].at = "ending"]
        /\ Finalize(stream[t])
     \/ /\ session[t].restart /\ ~session[t].cancelled
        /\ session' = [session EXCEPT ![t] = [Closed EXCEPT !.at = "opening"]]
        /\ UNCHANGED <<reg, metrics>>
  /\ stream' = [stream EXCEPT ![t] = Reset(@)]
  /\ UNCHANGED <<world, listed, forgotten, targets, manager>>
Return(t) ==
  /\ session[t].at = "reading"
  /\ \/ /\ session[t].cancelled
        /\ session' = [session EXCEPT ![t].at = "ending"]
     \/ /\ session[t].restart /\ ~session[t].cancelled
        /\ session' = [session EXCEPT ![t] = [Closed EXCEPT !.at = "opening"]]
  /\ Finalize(stream[t])
  /\ stream' = [stream EXCEPT ![t] = Reset(@)]
  /\ UNCHANGED <<world, listed, forgotten, targets, manager>>

(* The goroutine of the tailer deletes the worktree's entry of the map,    *)
(* even if a later tailer stands there.                                    *)
Delete(t) ==
  /\ session[t].at = "ending"
  /\ session' = [session EXCEPT ![t] = Closed]
  /\ stream' = [stream EXCEPT ![t] = Fresh]
  /\ tails' = Off
  /\ UNCHANGED <<world, registry, metrics, idle, halting>>

Follow(t) == Open(t) \/ Read(t) \/ Supervise(t) \/ Return(t) \/ Delete(t)

-----------------------------------------------------------------------------
(* The manager's tick, once a second.                                      *)
Active == listed \/ \E b \in Builds : reg[b] = "running"

(* A cancelled tailer is gone before the next tick.                        *)
Gone == Prompt => \A t \in Tailers : ~session[t].cancelled

BugWatch ==
  /\ Active /\ idle' = "no"
  /\ \E t \in Tailers :
       /\ session[t].at = "off"
       /\ session' = [session EXCEPT ![t].at = "opening"]
       /\ tails' = t
Watch ==
  /\ Active /\ idle' = "no"
  /\ IF tails # Off THEN UNCHANGED <<tails, session>>
     ELSE \E t \in Tailers :
            /\ session[t].at = "off"
            /\ session' = [session EXCEPT ![t].at = "opening"]
            /\ tails' = t

Idle ==
  /\ ~Active /\ tails # Off /\ idle = "no"
  /\ idle' = "counting"
  /\ UNCHANGED <<tails, session>>

Stop ==
  /\ ~Active /\ tails # Off /\ idle = "elapsed"
  /\ session' = [session EXCEPT ![tails].cancelled = TRUE]
  /\ tails' = Off /\ idle' = "no"

Reconcile ==
  /\ Gone
  /\ Watch \/ Idle \/ Stop
  /\ UNCHANGED <<world, registry, metrics, halting, stream>>

(* In the 30 seconds of the grace a prompt tailer reads all there is.      *)
GraceElapses ==
  /\ idle = "counting"
  /\ Prompt => \A t \in Tailers :
       session[t].at = "off" \/ (session[t].at = "reading" /\ ~Stale(t) /\ session[t].pos = file.size)
  /\ idle' = "elapsed"
  /\ UNCHANGED <<world, registry, metrics, tails, halting, session, stream>>

(* SIGTERM: the context of every tailer is done, and each may still        *)
(* finalize what it has before the daemon exits.                           *)
Shutdown ==
  /\ MayRestart /\ \E t \in Tailers : session[t].at # "off"
  /\ halting' = TRUE /\ idle' = "no"
  /\ session' = [t \in Tailers |-> [session[t] EXCEPT !.cancelled = session[t].at # "off"]]
  /\ UNCHANGED <<world, registry, metrics, tails, stream>>

(* The daemon ends, or crashes, and starts again: what ran is called gone, *)
(* and discovery leaves it so.                                             *)
Restart ==
  /\ MayRestart
  /\ listed' = FALSE
  /\ forgotten' = (forgotten \/ listed)
  /\ reg' = [b \in Builds |-> IF reg[b] \in Running THEN "gone" ELSE reg[b]]
  /\ tails' = Off /\ idle' = "no" /\ halting' = FALSE
  /\ session' = [t \in Tailers |-> Closed]
  /\ stream' = [t \in Tailers |-> Fresh]
  /\ UNCHANGED <<world, targets, metrics>>

(* What bazel does while the daemon ends is as if it did so afterwards.    *)
Next ==
  \/ /\ ~halting
     /\ \/ Launch \/ Truncate \/ Write \/ Exit
        \/ Discover \/ Reconcile \/ GraceElapses \/ Shutdown
  \/ \E t \in Tailers : Follow(t) \/ Rewind(t)
  \/ Restart

Spec == Init /\ [][Next]_vars

(* The tickers tick and the goroutines run on; bazel may never go on.      *)
Fairness ==
  /\ WF_vars(~halting /\ Reconcile)
  /\ \A t \in Tailers : WF_vars(Follow(t))

FairSpec == Spec /\ Fairness

-----------------------------------------------------------------------------
(* The metrics row of a build has no results of another build, wherever    *)
(* builds break off and whenever tailers restart.  A record may show the   *)
(* targets of an earlier build, but of no later one.                       *)
RowIsOneBuild ==
  \A b \in Builds :
    /\ rows[b].from \subseteq {b} /\ rows[b].measured \in {0, b}
    /\ targets[b] <= b

(* The row of a large enough build says that its cache broke if more than  *)
(* half of the last builds before it hit the cache by more than Delta      *)
(* better, and only if half of them did, also when the file is read again. *)
Earlier(b) == {c \in 1 .. b - 1 : RatioOf(rows[c].measured) # None}
Baseline(b) ==
  {c \in Earlier(b) : Cardinality({d \in Earlier(b) : d > c}) < Trailing}
    \cup {-j : j \in {k \in DOMAIN Past : k + Cardinality(Earlier(b)) <= Trailing}}
Better(b) ==
  {c \in Baseline(b) :
    (IF c > 0 THEN RatioOf(rows[c].measured) ELSE Past[-c]) > RatioOf(b) + Delta}
AlertIsJustified ==
  \A b \in Builds :
    rows[b].measured = b /\ RatioOf(b) # None /\ Processes(CountsOf[b]) >= MinProcs =>
      LET better == 2 * Cardinality(Better(b))
          all == Cardinality(Baseline(b))
      IN /\ better > all => rows[b].alert = "cache_busting_suspected"
         /\ rows[b].alert = "cache_busting_suspected" => better >= all

(* No build is called failed that does not fail, and none is called        *)
(* finished that still has events to come, but by a daemon that ends.      *)
Over(b) == b < file.build \/ (b = file.build /\ (bazel # "writing" \/ file.size = Len(Script)))
EndIsOwn ==
  [][\A b \in Builds : reg'[b] # reg[b] =>
       /\ reg'[b] = "failed" => fails[b] /\ (Over(b) \/ halting)
       /\ reg'[b] = "finished" => Over(b) \/ halting]_vars

(* The manager has every tailer at work in its map, or has told it to end. *)
OneTailer ==
  \A t \in Tailers : session[t].at # "off" => session[t].cancelled \/ tails = t

(* A build whose record runs and whose last event was written is not left  *)
(* running, also if the next build truncates the file before it is read,   *)
(* as long as the daemon is up.                                            *)
Complete == file.build > 0 /\ file.size = Len(Script)
Unreported ==
  {b \in Builds : reg[b] = "running" /\ (b < file.build \/ (b = file.build /\ Complete))}
CompletedReported == []<>(Unreported = {} \/ halting)

(* A complete stream in a watched worktree is read to its end, and its     *)
(* metrics are broadcast, unless the next build or a crash is faster.      *)
StreamNotMissed ==
  Complete /\ tails # Off ~> file.build \in told \/ ~Complete \/ tails = Off
=============================================================================
