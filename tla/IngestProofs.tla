------------------------------ MODULE IngestProofs ------------------------------
(***************************************************************************)
(* What the rows and the verdicts of a worktree's builds say is of the     *)
(* build they name, for any number of builds, tailers, restarts and        *)
(* shutdowns, as long as the pollers are prompt.                           *)
(***************************************************************************)
EXTENDS Ingest, SequenceTheorems, FiniteSetTheorems, TLAPS

LEMMA ScriptFacts ==
  /\ Len(Script) = 6
  /\ \A k \in 1 .. 6 : /\ Script[k] = "Started" <=> k = 1
                       /\ Script[k] = "LastMessage" => k = 6
BY DEF Script

(* A stream with some of its fields changed.                               *)
LEMMA StreamChanged ==
  ASSUME NEW s \in Stream, NEW b \in 0 .. Last, NEW f \in SUBSET Builds, NEW p \in BOOLEAN
  PROVE  /\ [s EXCEPT !.targets = b] \in Stream
         /\ [s EXCEPT !.measured = b] \in Stream
         /\ [s EXCEPT !.id = b, !.bound = TRUE] \in Stream
         /\ [s EXCEPT !.from = f] \in Stream
         /\ [s EXCEPT !.from = f, !.finish = TRUE, !.success = p] \in Stream
         /\ [s EXCEPT !.finalized = p] \in Stream
<1>1. TRUE \in BOOLEAN
  OBVIOUS
<1> QED
  BY <1>1, Zenon DEF Stream

LEMMA SessionChanged ==
  ASSUME NEW n \in Session
  PROVE  /\ \A k \in 0 .. Len(Script) :
              /\ [n EXCEPT !.pos = k] \in Session
              /\ \A b \in 0 .. Last : [n EXCEPT !.pos = k, !.offset = k, !.read = b] \in Session
         /\ \A c \in BOOLEAN :
              /\ [n EXCEPT !.cancelled = c] \in Session
              /\ [n EXCEPT !.at = "reading", !.cancelled = c] \in Session
         /\ [n EXCEPT !.restart = TRUE] \in Session
         /\ [n EXCEPT !.at = "opening"] \in Session
         /\ [n EXCEPT !.at = "ending"] \in Session
<1>1. TRUE \in BOOLEAN
  OBVIOUS
<1> QED
  BY <1>1, Zenon DEF Session

LEMMA RecordsTyped ==
  /\ Fresh \in Stream
  /\ Closed \in Session
  /\ NoRow \in Row
  /\ \A s \in Stream : Reset(s) \in Stream
<1>1. Last \in Nat
  BY IngestAssumption
<1>2. Fresh \in Stream
  BY <1>1 DEF Fresh, Stream, Builds
<1>3. Closed \in Session
  BY <1>1, ScriptFacts DEF Closed, Session
<1>4. NoRow \in Row
  BY <1>1 DEF NoRow, Row, Alerts, Builds
<1>5. \A s \in Stream : Reset(s) \in Stream
  <2>1. ASSUME NEW s \in Stream PROVE s.targets \in 0 .. Last
    BY DEF Stream
  <2>2. FALSE \in BOOLEAN
    OBVIOUS
  <2> QED
    BY <1>2, <2>1, <2>2, StreamChanged DEF Reset
<1> QED
  BY <1>2, <1>3, <1>4, <1>5

LEMMA IngestTypeInit == Init => IngestTypeOK
<1> SUFFICES ASSUME Init PROVE IngestTypeOK
  OBVIOUS
<1>1. Last \in Nat /\ fails \in [Builds -> BOOLEAN]
  BY IngestAssumption DEF Init, Builds
<1>2. session \in [Tailers -> Session] /\ stream \in [Tailers -> Stream] /\ rows \in [Builds -> Row]
  BY RecordsTyped DEF Init
<1>3. file \in [build : 0 .. Last, size : 0 .. Len(Script)]
  BY <1>1, ScriptFacts DEF Init
<1> QED
  BY <1>1, <1>2, <1>3 DEF Init, IngestTypeOK

LEMMA AlertTyped == ASSUME NEW s \in Stream PROVE AlertOf(s) \in Alerts
BY DEF AlertOf, EvaluateAlert, Alerts

LEMMA FinalizeTyped ==
  ASSUME IngestTypeOK, NEW s \in Stream, Finalize(s)
  PROVE  /\ reg' \in [Builds -> {"absent"} \cup Running \cup Terminal]
         /\ rows' \in [Builds -> Row]
         /\ told' \in SUBSET Builds
<1>1. CASE ~Finalizes(s)
  BY <1>1 DEF Finalize, metrics, IngestTypeOK
<1>2. CASE Finalizes(s)
  <2>1. s.id \in Builds
    BY <1>2, IngestAssumption DEF Finalizes, Stream, Builds
  <2>2. RowOf(s) \in Row
    BY AlertTyped DEF RowOf, Row, Stream
  <2>3. Verdict(s) \in Terminal
    BY DEF Verdict, Terminal
  <2> QED
    BY <1>2, <2>1, <2>2, <2>3, SMTT(20) DEF Finalize, IngestTypeOK
<1> QED
  BY <1>1, <1>2

(* What a stream does with an event.                                       *)
LEMMA DispatchTyped ==
  ASSUME IngestTypeOK, NEW t \in Tailers, NEW e, NEW b \in Builds, Dispatch(t, e, b)
  PROVE  /\ stream' \in [Tailers -> Stream]
         /\ reg' \in [Builds -> {"absent"} \cup Running \cup Terminal]
         /\ targets' \in [Builds -> 0 .. Last]
         /\ rows' \in [Builds -> Row]
         /\ told' \in SUBSET Builds
<1> DEFINE s == stream[t]
<1>1. s \in Stream /\ Last \in Nat /\ b \in 0 .. Last
  BY IngestAssumption DEF IngestTypeOK, Builds
<1>. HIDE DEF s
<1>2. CASE Started(t, b)
  <2>1. [s EXCEPT !.id = b, !.bound = TRUE] \in Stream
    BY <1>1, StreamChanged, Zenon
  <2>2. Shown(b, s.targets) \in [Builds -> 0 .. Last]
    BY <1>1 DEF Shown, Stream, IngestTypeOK
  <2> QED
    BY <1>1, <1>2, <2>1, <2>2 DEF s, Started, IngestTypeOK, metrics, Running
<1>3. CASE Pattern(t, b)
  <2>1. [s EXCEPT !.targets = b] \in Stream
    BY <1>1, StreamChanged, Zenon
  <2>2. Shown(s.id, b) \in [Builds -> 0 .. Last]
    BY <1>1 DEF Shown, Stream, IngestTypeOK
  <2> QED
    BY <1>1, <1>3, <2>1, <2>2 DEF s, Pattern, IngestTypeOK, metrics, Running
<1>4. CASE TestResult(t, b) \/ Finished(t, b) \/ BuildMetrics(t, b)
  <2>1. /\ [s EXCEPT !.from = @ \cup {b}] \in Stream
        /\ [s EXCEPT !.from = @ \cup {b}, !.finish = TRUE, !.success = ~fails[b]] \in Stream
        /\ [s EXCEPT !.measured = b] \in Stream
    <3>1. s.from \cup {b} \in SUBSET Builds /\ (~fails[b]) \in BOOLEAN
      BY <1>1 DEF Stream
    <3> QED
      BY <1>1, <3>1, StreamChanged, Zenon
  <2> QED
    BY <1>4, <2>1, ZenonT(30) DEF s, TestResult, Finished, BuildMetrics, IngestTypeOK, metrics
<1>5. CASE LastMessage(t)
  <2>1. [s EXCEPT !.finalized = @ \/ Finalizes(s)] \in Stream
    <3>1. (s.finalized \/ Finalizes(s)) \in BOOLEAN
      BY <1>1 DEF Stream, Finalizes
    <3> QED
      BY <1>1, <3>1, StreamChanged, Zenon
  <2> QED
    BY <1>1, <1>5, <2>1, FinalizeTyped DEF s, LastMessage, IngestTypeOK
<1> QED
  BY <1>2, <1>3, <1>4, <1>5 DEF Dispatch

(* Only a build that began has events, and one that may begin is next.     *)
FileOK ==
  /\ bazel = "launched" => file.build < Last
  /\ bazel = "writing" \/ file.size > 0 => file.build > 0

LEMMA FileInit == Init => FileOK
BY DEF Init, FileOK

LEMMA FileStep == IngestTypeOK /\ FileOK /\ [Next]_vars => FileOK'
<1> SUFFICES ASSUME IngestTypeOK, FileOK, [Next]_vars PROVE FileOK'
  OBVIOUS
<1>0. Last \in Nat /\ Len(Script) = 6
  BY IngestAssumption, ScriptFacts
<1>1. CASE UNCHANGED world
  BY <1>1 DEF FileOK, world
<1>2. CASE Launch \/ Truncate \/ Write \/ Exit
  BY <1>0, <1>2 DEF FileOK, IngestTypeOK, Launch, Truncate, Write, Exit
<1>3. UNCHANGED world \/ Launch \/ Truncate \/ Write \/ Exit
  BY DEF Next, vars, Discover, Reconcile, GraceElapses, Shutdown, Restart, Follow, Open, Read, Rewind,
     Supervise, Return, Delete
<1> QED
  BY <1>1, <1>2, <1>3

LEMMA IngestTypeStep == IngestTypeOK /\ FileOK /\ [Next]_vars => IngestTypeOK'
<1> SUFFICES ASSUME IngestTypeOK, FileOK, [Next]_vars PROVE IngestTypeOK'
  OBVIOUS
<1>0. /\ Last \in Nat /\ Len(Script) = 6 /\ Closed \in Session /\ Fresh \in Stream
      /\ \A t \in Tailers : session[t] \in Session /\ stream[t] \in Stream
  BY IngestAssumption, ScriptFacts, RecordsTyped DEF IngestTypeOK
<1>1. CASE UNCHANGED vars
  BY <1>1 DEF IngestTypeOK, vars, world, registry, metrics, manager
<1>2. CASE Launch \/ Truncate \/ Write \/ Exit \/ Discover
  <2>1. file' \in [build : 0 .. Last, size : 0 .. Len(Script)]
    BY <1>0, <1>2 DEF IngestTypeOK, FileOK, Launch, Truncate, Write, Exit, Discover, world
  <2> QED
    BY <1>2, <2>1 DEF IngestTypeOK, Launch, Truncate, Write, Exit, Discover, world, registry,
       metrics, manager
<1>3. CASE Reconcile
  <2>1. session' \in [Tailers -> Session]
    <3>1. CASE Watch
      <4>1. \A t \in Tailers : [session[t] EXCEPT !.at = "opening"] \in Session
        BY <1>0, SessionChanged, Zenon
      <4> QED
        BY <3>1, <4>1 DEF Watch, IngestTypeOK
    <3>2. CASE Idle
      BY <3>2 DEF Idle, IngestTypeOK
    <3>3. CASE Stop
      <4>1. tails \in Tailers /\ [session[tails] EXCEPT !.cancelled = TRUE] \in Session
        BY <1>0, <3>3, SessionChanged DEF Stop, IngestTypeOK
      <4> QED
        BY <3>3, <4>1 DEF Stop, IngestTypeOK
    <3> QED
      BY <1>3, <3>1, <3>2, <3>3 DEF Reconcile
  <2> QED
    BY <1>3, <2>1 DEF Reconcile, Watch, Idle, Stop, IngestTypeOK, world, registry, metrics
<1>4. CASE GraceElapses
  BY <1>4 DEF GraceElapses, IngestTypeOK, world, registry, metrics
<1>5. CASE Shutdown
  <2>1. ASSUME NEW t \in Tailers
        PROVE  [session[t] EXCEPT !.cancelled = session[t].at # "off"] \in Session
    <3>1. (session[t].at # "off") \in BOOLEAN
      OBVIOUS
    <3> QED
      BY <1>0, <3>1, SessionChanged, Zenon
  <2>2. session' \in [Tailers -> Session]
    BY <1>5, <2>1 DEF Shutdown
  <2> QED
    BY <1>5, <2>2 DEF Shutdown, IngestTypeOK, world, registry, metrics
<1>6. CASE Restart
  BY <1>0, <1>6 DEF Restart, IngestTypeOK, world, registry, metrics, Running, Terminal
<1>7. ASSUME NEW t \in Tailers, Open(t) PROVE IngestTypeOK'
  <2>1. [Closed EXCEPT !.at = "reading", !.cancelled = session[t].cancelled] \in Session
    <3>1. session[t].cancelled \in BOOLEAN
      BY <1>0 DEF Session
    <3> QED
      BY <1>0, <3>1, SessionChanged, Zenon
  <2> QED
    BY <1>7, <2>1 DEF Open, IngestTypeOK, world, registry, metrics, manager
<1>8. ASSUME NEW t \in Tailers, Read(t) PROVE IngestTypeOK'
  <2>1. file.build \in 0 .. Last /\ file.size \in 0 .. 6
    BY <1>0 DEF IngestTypeOK
  <2>2. PICK k \in 1 .. 6 : k = session[t].pos + 1
    BY <1>0, <1>8, <2>1 DEF Read, Session
  <2>3. file.build \in Builds
    BY <1>0, <1>8, <2>1, <2>2 DEF Read, FileOK, Builds, Session
  <2>4. [session[t] EXCEPT !.pos = k, !.offset = k, !.read = file.build] \in Session
    <3>1. k \in 0 .. Len(Script)
      BY <1>0
    <3> QED
      BY <1>0, <2>1, <3>1, SessionChanged, Zenon
  <2>5. session' \in [Tailers -> Session]
    BY <1>8, <2>2, <2>4 DEF Read, IngestTypeOK
  <2>6. Dispatch(t, Script[k], file.build)
    BY <1>8, <2>2 DEF Read
  <2> QED
    BY <1>8, <2>3, <2>5, <2>6, DispatchTyped DEF Read, IngestTypeOK, world, manager
<1>9. ASSUME NEW t \in Tailers, Rewind(t) \/ Supervise(t) PROVE IngestTypeOK'
  <2>1. 0 \in 0 .. Len(Script)
    BY <1>0
  <2>2. [session[t] EXCEPT !.pos = 0] \in Session /\ [session[t] EXCEPT !.restart = TRUE] \in Session
    BY <1>0, <2>1, SessionChanged, Zenon
  <2> QED
    BY <1>9, <2>2 DEF Rewind, Supervise, IngestTypeOK, world, registry, metrics, manager
<1>10. ASSUME NEW t \in Tailers, Return(t) PROVE IngestTypeOK'
  <2>1. /\ [session[t] EXCEPT !.at = "ending"] \in Session
        /\ [Closed EXCEPT !.at = "opening"] \in Session
    BY <1>0, SessionChanged, Zenon
  <2>2. session' \in [Tailers -> Session]
    BY <1>10, <2>1 DEF Return, IngestTypeOK
  <2>3. stream' \in [Tailers -> Stream]
    BY <1>0, <1>10, RecordsTyped DEF Return, IngestTypeOK
  <2> QED
    BY <1>0, <1>10, <2>2, <2>3, FinalizeTyped DEF Return, IngestTypeOK, world, manager
<1>11. ASSUME NEW t \in Tailers, Delete(t) PROVE IngestTypeOK'
  BY <1>0, <1>11 DEF Delete, IngestTypeOK, world, registry, metrics
<1> QED
  BY <1>1, <1>2, <1>3, <1>4, <1>5, <1>6, <1>7, <1>8, <1>9, <1>10, <1>11 DEF Next, Follow

(* Every variable of the ingest keeps its type.                            *)
THEOREM IngestTypeCorrect == Spec => []IngestTypeOK
<1>1. Init => IngestTypeOK /\ FileOK
  BY IngestTypeInit, FileInit
<1>2. IngestTypeOK /\ FileOK /\ [Next]_vars => (IngestTypeOK /\ FileOK)'
  BY IngestTypeStep, FileStep
<1> QED
  BY <1>1, <1>2, PTL DEF Spec

-----------------------------------------------------------------------------
(* A stream that has folded nothing since it was reset.                    *)
Empty(s) == s.id = 0 /\ s.from = {} /\ s.measured = 0 /\ ~s.bound /\ ~s.finish

(* A stream that has folded events: all of one build, which has a record;  *)
(* when it lags behind a truncation, that build is over.                   *)
Following(t) ==
  LET n == session[t]
      s == stream[t]
      b == n.read
  IN /\ b \in 1 .. file.build /\ s.id = b /\ s.bound
     /\ s.from \subseteq {b} /\ s.measured \in {0, b}
     /\ s.finish => (s.success <=> ~fails[b])
     /\ reg[b] \in {"running"} \cup Terminal
     /\ b = file.build => n.pos = n.offset /\ n.offset <= file.size
     /\ n.restart => b < file.build
     /\ n.cancelled /\ ~halting => reg[b] \in Terminal

TailerOK(t) ==
  LET n == session[t] IN
  /\ n.at = "off" => ~n.cancelled
  /\ n.at = "ending" => n.cancelled
  /\ n.offset = 0 => n.pos = 0 /\ ~n.restart
  /\ IF n.at = "reading" /\ n.offset > 0 THEN Following(t) ELSE Empty(stream[t])
  /\ stream[t].targets <= file.build

(* A tailer that was told to end is never beside one that was not.         *)
AllOrNone ==
  (\E t \in Tailers : session[t].cancelled)
    => \A u \in Tailers : session[u].at # "off" => session[u].cancelled

(* The tailer in the map is at work.                                       *)
MapOK == tails # Off => session[tails].at # "off"

IngestInv ==
  /\ IngestTypeOK /\ FileOK
  /\ \A t \in Tailers : TailerOK(t)
  /\ RowIsOneBuild
  /\ \A b \in Builds : reg[b] # "adrift"
  /\ OneTailer /\ AllOrNone /\ MapOK

LEMMA IngestInvInit == Init => IngestInv
<1> SUFFICES ASSUME Init PROVE IngestInv
  OBVIOUS
<1>1. /\ Last \in Nat
      /\ \A t \in Tailers : session[t] = Closed /\ stream[t] = Fresh
      /\ \A b \in Builds : rows[b] = NoRow /\ targets[b] = 0 /\ reg[b] # "adrift"
      /\ file.build = 0 /\ tails = Off
  BY IngestAssumption DEF Init
<1>2. RowIsOneBuild
  BY <1>1 DEF RowIsOneBuild, NoRow, Builds
<1> QED
  BY <1>1, <1>2, IngestTypeInit, FileInit DEF IngestInv, TailerOK, Closed, Fresh, Empty, OneTailer, AllOrNone, MapOK

(* The records of builds only move on, and so does the file.               *)
RegGrows ==
  \A b \in Builds :
    \/ reg'[b] = reg[b]
    \/ reg[b] = "absent" /\ reg'[b] = "running"
    \/ reg[b] = "running" /\ reg'[b] \in Terminal

FileGrows ==
  /\ fails' = fails
  /\ \/ file'.build > file.build
     \/ file'.build = file.build /\ file'.size >= file.size

(* What the steps of others leave true of a tailer.                        *)
LEMMA TailerKept ==
  ASSUME IngestInv, IngestTypeOK', FileGrows, RegGrows, halting' \in {halting, TRUE},
         NEW t \in Tailers, session'[t] = session[t], stream'[t] = stream[t]
  PROVE  TailerOK(t)'
<1>1. TailerOK(t) /\ IngestTypeOK /\ session[t] \in Session /\ stream[t] \in Stream
  BY DEF IngestInv, IngestTypeOK
<1>2. /\ file.build \in 0 .. Last /\ file.size \in Int
      /\ file'.build \in 0 .. Last /\ file'.size \in Int /\ Last \in Nat
  BY IngestAssumption, ScriptFacts DEF IngestInv, IngestTypeOK
<1>3. file.build <= file'.build
  BY <1>2 DEF FileGrows
<1>4. ASSUME Following(t) PROVE Following(t)'
  <2>1. session[t].read \in Builds /\ session[t].offset \in Int
    BY <1>1, <1>2, <1>4, ScriptFacts DEF Following, Builds, Session
  <2>2. reg'[session[t].read] = reg[session[t].read] \/ reg'[session[t].read] \in Terminal
    BY <1>4, <2>1 DEF Following, RegGrows, Terminal
  <2>3. fails' = fails
    BY DEF FileGrows
  <2> DEFINE b == session[t].read
  <2>4. /\ b \in 1 .. file'.build
        /\ b = file'.build => session[t].pos = session[t].offset /\ session[t].offset <= file'.size
        /\ session[t].restart => b < file'.build
    BY <1>2, <1>3, <1>4, <2>1 DEF Following, FileGrows
  <2>5. /\ reg'[b] \in {"running"} \cup Terminal
        /\ session[t].cancelled /\ ~halting' => reg'[b] \in Terminal
    BY <1>4, <2>2 DEF Following, IngestInv, IngestTypeOK
  <2>6. stream[t].finish => (stream[t].success <=> ~fails'[b])
    BY <1>4, <2>3 DEF Following
  <2>7. /\ stream[t].id = b /\ stream[t].bound
        /\ stream[t].from \subseteq {b} /\ stream[t].measured \in {0, b}
    BY <1>4 DEF Following
  <2> HIDE DEF b
  <2>8. session'[t].read = b
    BY DEF b
  <2> QED
    BY <2>4, <2>5, <2>6, <2>7, <2>8 DEF Following
<1>5. stream[t].targets \in Int
  BY <1>1, <1>2 DEF Stream
<1> QED
  BY <1>1, <1>2, <1>3, <1>4, <1>5 DEF TailerOK

(* Finalizing a stream: records move on, and its row is of one build.      *)
LEMMA FinalizeKeeps ==
  ASSUME IngestInv, NEW s \in Stream, Finalize(s), targets' = targets,
         s.id # 0 => /\ reg[s.id] \in {"running"} \cup Terminal
                     /\ s.from \subseteq {s.id} /\ s.measured \in {0, s.id}
  PROVE  RegGrows /\ RowIsOneBuild'
<1>1. CASE ~Finalizes(s)
  BY <1>1 DEF Finalize, metrics, RegGrows, IngestInv, RowIsOneBuild
<1>2. CASE Finalizes(s)
  <2>1. s.id \in Builds
    BY <1>2, IngestAssumption DEF Finalizes, Stream, Builds
  <2>2. Verdict(s) \in Terminal
    BY DEF Verdict, Terminal
  <2>3. RegGrows
    <3>1. reg' = [reg EXCEPT ![s.id] = IF @ \in Terminal THEN @ ELSE Verdict(s)]
      BY <1>2 DEF Finalize
    <3>2. reg[s.id] = "running" \/ reg[s.id] \in Terminal
      BY <1>2 DEF Finalizes
    <3> QED
      BY <2>1, <2>2, <3>1, <3>2 DEF RegGrows, IngestInv, IngestTypeOK
  <2>4. RowOf(s).from \subseteq {s.id} /\ RowOf(s).measured \in {0, s.id}
    BY <1>2 DEF Finalizes, RowOf
  <2>5. RowIsOneBuild'
    <3>1. rows' = rows \/ rows' = [rows EXCEPT ![s.id] = RowOf(s)]
      BY <1>2 DEF Finalize
    <3>2. rows \in [Builds -> Row] /\ RowIsOneBuild
      BY DEF IngestInv, IngestTypeOK
    <3> QED
      BY <2>1, <2>4, <3>1, <3>2 DEF RowIsOneBuild
  <2> QED
    BY <2>3, <2>5
<1> QED
  BY <1>1, <1>2

(* What bazel, discovery and the clock do.                                 *)
LEMMA WorldStep ==
  ASSUME IngestInv, IngestTypeOK', FileOK',
         Launch \/ Truncate \/ Write \/ Exit \/ Discover \/ GraceElapses
  PROVE  IngestInv'
<1>1. file.build \in Int /\ file.size \in Int
  BY DEF IngestInv, IngestTypeOK
<1>2. FileGrows
  BY <1>1 DEF Launch, Truncate, Write, Exit, Discover, GraceElapses, FileGrows, world, IngestInv, IngestTypeOK
<1>3. UNCHANGED <<reg, targets, rows, session, stream, halting, tails>>
  BY DEF Launch, Truncate, Write, Exit, Discover, GraceElapses, world, registry, metrics, manager
<1>4. ASSUME NEW t \in Tailers PROVE TailerOK(t)'
  BY <1>2, <1>3, TailerKept DEF RegGrows
<1> QED
  BY <1>3, <1>4 DEF IngestInv, RowIsOneBuild, OneTailer, AllOrNone, MapOK

(* The manager starts a tailer only when none is left that it told to end, *)
(* and stops one only when no build of the worktree runs.                  *)
LEMMA ReconcileStep ==
  ASSUME Prompt, IngestInv, IngestTypeOK', FileOK', Reconcile
  PROVE  IngestInv'
<1>1. /\ UNCHANGED <<file, fails, reg, targets, rows, stream, halting>>
      /\ FileGrows /\ RegGrows
      /\ \A t \in Tailers : TailerOK(t) /\ session[t] \in Session
      /\ session \in [Tailers -> Session]
  BY DEF Reconcile, world, registry, metrics, IngestInv, IngestTypeOK, FileGrows, RegGrows
<1>2. RowIsOneBuild'
  BY <1>1 DEF IngestInv, RowIsOneBuild
<1>3. ASSUME NEW t \in Tailers, session'[t] = session[t] PROVE TailerOK(t)'
  BY <1>1, <1>3, TailerKept
<1>4. CASE UNCHANGED <<tails, session>>
  BY <1>1, <1>2, <1>3, <1>4 DEF IngestInv, OneTailer, AllOrNone, MapOK
<1>5. ASSUME NEW t \in Tailers, Watch, tails = Off, session[t].at = "off", tails' = t,
             session' = [session EXCEPT ![t].at = "opening"]
      PROVE  IngestInv'
  <2>1. \A u \in Tailers : ~session[u].cancelled
    BY DEF Reconcile, Gone
  <2>2. \A u \in Tailers : session[u].at = "off"
    BY <1>5, <2>1, IngestAssumption DEF IngestInv, OneTailer
  <2>3. /\ session'[t] = [session[t] EXCEPT !.at = "opening"]
        /\ \A u \in Tailers \ {t} : session'[u] = session[u]
    BY <1>1, <1>5
  <2>4. TailerOK(t)'
    BY <1>1, <1>5, <2>3 DEF TailerOK, Session, Empty
  <2> QED
    BY <1>1, <1>2, <1>3, <1>5, <2>1, <2>2, <2>3, <2>4 DEF IngestInv, OneTailer, AllOrNone, MapOK, Session
<1>6. ASSUME NEW t \in Tailers, tails = t, Stop PROVE IngestInv'
  <2>1. /\ session' = [session EXCEPT ![t].cancelled = TRUE]
        /\ tails' = Off
        /\ \A b \in Builds : reg[b] # "running"
        /\ session[t].at # "off"
    BY <1>6 DEF Stop, Active, IngestInv, MapOK
  <2>2. /\ session'[t] = [session[t] EXCEPT !.cancelled = TRUE]
        /\ \A u \in Tailers \ {t} : session'[u] = session[u]
    BY <1>1, <2>1
  <2>3. /\ session'[t].cancelled
        /\ session'[t].at = session[t].at /\ session'[t].read = session[t].read
        /\ session'[t].pos = session[t].pos /\ session'[t].offset = session[t].offset
        /\ session'[t].restart = session[t].restart
    BY <1>1, <2>2 DEF Session
  <2>4. ASSUME Following(t) PROVE Following(t)'
    <3>1. session[t].read \in Builds
      BY <1>1, <2>4, IngestAssumption DEF Following, Builds, IngestInv, IngestTypeOK
    <3> QED
      BY <1>1, <2>1, <2>3, <2>4, <3>1 DEF Following
  <2>5. TailerOK(t)'
    BY <1>1, <2>1, <2>3, <2>4 DEF TailerOK
  <2>6. ASSUME NEW u \in Tailers
        PROVE  session'[u].at = session[u].at /\ (session[u].at # "off" => session'[u].cancelled)
    BY <1>6, <2>2, <2>3 DEF IngestInv, OneTailer
  <2> QED
    BY <1>1, <1>2, <1>3, <2>1, <2>2, <2>5, <2>6 DEF IngestInv, OneTailer, AllOrNone, MapOK
<1>7. Stop => tails \in Tailers
  BY DEF Stop, IngestInv, IngestTypeOK
<1> QED
  BY <1>4, <1>5, <1>6, <1>7 DEF Reconcile, Watch, Idle

(* What a step of a tailer at work leaves true of the manager.             *)
LEMMA StaysAtWork ==
  ASSUME IngestInv, NEW t \in Tailers, tails' = tails,
         session[t].at # "off", session'[t].at # "off", session'[t].cancelled = session[t].cancelled,
         \A u \in Tailers \ {t} : session'[u] = session[u]
  PROVE  OneTailer' /\ AllOrNone' /\ MapOK'
<1>1. \A u \in Tailers : /\ session'[u].cancelled = session[u].cancelled
                         /\ session'[u].at = "off" <=> session[u].at = "off"
  OBVIOUS
<1>2. tails \in Tailers \cup {Off}
  BY DEF IngestInv, IngestTypeOK
<1> QED
  BY <1>1, <1>2 DEF IngestInv, OneTailer, AllOrNone, MapOK

(* No record goes adrift when records only move on.                        *)
LEMMA NotAdrift ==
  ASSUME IngestInv, RegGrows, NEW b \in Builds
  PROVE  reg'[b] # "adrift"
BY DEF IngestInv, RegGrows, Terminal

LEMMA ShutdownStep ==
  ASSUME IngestInv, IngestTypeOK', FileOK', Shutdown
  PROVE  IngestInv'
<1>1. /\ UNCHANGED <<file, fails, reg, targets, rows, tails, stream>> /\ halting'
      /\ session' = [t \in Tailers |-> [session[t] EXCEPT !.cancelled = session[t].at # "off"]]
  BY DEF Shutdown, world, registry, metrics
<1>2. ASSUME NEW t \in Tailers
      PROVE  /\ session'[t].cancelled <=> session[t].at # "off"
             /\ session'[t].at = session[t].at /\ session'[t].read = session[t].read
             /\ session'[t].pos = session[t].pos /\ session'[t].offset = session[t].offset
             /\ session'[t].restart = session[t].restart
  <2>1. session[t] \in Session
    BY DEF IngestInv, IngestTypeOK
  <2> QED
    BY <1>1, <2>1 DEF Session
<1>3. ASSUME NEW t \in Tailers PROVE TailerOK(t)'
  <2>1. TailerOK(t)
    BY DEF IngestInv
  <2>2. ASSUME Following(t) PROVE Following(t)'
    BY <1>1, <1>2, <2>2 DEF Following
  <2> QED
    BY <1>1, <1>2, <2>1, <2>2 DEF TailerOK
<1>4. tails \in Tailers \cup {Off}
  BY DEF IngestInv, IngestTypeOK
<1> QED
  BY <1>1, <1>2, <1>3, <1>4, ZenonT(30) DEF IngestInv, RowIsOneBuild, OneTailer, AllOrNone, MapOK

LEMMA RestartStep ==
  ASSUME IngestInv, IngestTypeOK', FileOK', Restart
  PROVE  IngestInv'
<1>1. /\ UNCHANGED <<targets, rows>> /\ tails' = Off
      /\ \A t \in Tailers : session'[t] = Closed /\ stream'[t] = Fresh
      /\ \A b \in Builds : reg'[b] # "adrift"
  BY DEF Restart, metrics, Running
<1>2. file'.build >= 0
  BY DEF Restart, world, IngestInv, IngestTypeOK
<1> QED
  BY <1>1, <1>2 DEF IngestInv, RowIsOneBuild, OneTailer, AllOrNone, MapOK, TailerOK, Closed, Fresh, Empty

(* Steps that only change a session.                                       *)
LEMMA SessionStep ==
  ASSUME IngestInv, IngestTypeOK', FileOK', NEW t \in Tailers, Open(t) \/ Rewind(t) \/ Supervise(t)
  PROVE  IngestInv'
<1>1. /\ UNCHANGED <<file, fails, reg, targets, rows, tails, halting, stream>>
      /\ FileGrows /\ RegGrows
      /\ session[t] \in Session /\ session \in [Tailers -> Session] /\ TailerOK(t)
      /\ file.build \in Int /\ file.size \in Nat
  BY ScriptFacts DEF Open, Rewind, Supervise, world, registry, metrics, manager, FileGrows, RegGrows, IngestInv,
     IngestTypeOK
<1>2. /\ \A u \in Tailers \ {t} : session'[u] = session[u]
      /\ session[t].at # "off" /\ session'[t].at # "off" /\ session'[t].cancelled = session[t].cancelled
  <2>1. CASE Open(t)
    BY <1>1, <2>1 DEF Open, Session, Closed
  <2>2. CASE Rewind(t) \/ Supervise(t)
    BY <1>1, <2>2 DEF Rewind, Supervise, Session
  <2> QED
    BY <2>1, <2>2
<1>3. TailerOK(t)'
  <2>1. CASE Open(t)
    BY <1>1, <2>1 DEF Open, TailerOK, Closed, Empty, Session
  <2>2. CASE Rewind(t) \/ Supervise(t)
    <3>1. /\ session[t].at = "reading" /\ session'[t].at = "reading"
          /\ session'[t].offset = session[t].offset /\ session'[t].read = session[t].read
          /\ session[t].pos \in Nat /\ session[t].offset \in Nat
          /\ \/ session'[t].pos = session[t].pos /\ session'[t].restart /\ file.size < session[t].offset
             \/ session[t].pos > file.size /\ session'[t].pos = 0 /\ session'[t].restart = session[t].restart
      BY <1>1, <2>2, ScriptFacts DEF Rewind, Supervise, Session
    <3>2. CASE session[t].offset = 0
      BY <1>1, <1>2, <3>1, <3>2 DEF TailerOK, Empty
    <3>3. CASE session[t].offset > 0
      <4>1. Following(t)
        BY <1>1, <3>1, <3>3 DEF TailerOK
      <4>2. session[t].read < file.build
        BY <1>1, <3>1, <3>3, <4>1 DEF Following
      <4>3. Following(t)'
        BY <1>1, <1>2, <3>1, <4>1, <4>2 DEF Following
      <4> QED
        BY <1>1, <1>2, <3>1, <3>3, <4>3 DEF TailerOK
    <3> QED
      BY <3>1, <3>2, <3>3
  <2> QED
    BY <2>1, <2>2
<1>4. ASSUME NEW u \in Tailers \ {t} PROVE TailerOK(u)'
  BY <1>1, <1>2, TailerKept
<1>5. OneTailer' /\ AllOrNone' /\ MapOK'
  BY <1>1, <1>2, StaysAtWork
<1> QED
  BY <1>1, <1>3, <1>4, <1>5 DEF IngestInv, RowIsOneBuild

(* A tailer reads the first event of a file, or a later one of the same.   *)
LEMMA ReadStep ==
  ASSUME Prompt, IngestInv, IngestTypeOK', FileOK', NEW t \in Tailers, Read(t)
  PROVE  IngestInv'
<1> DEFINE b == file.build
           k == session[t].pos + 1
           s == stream[t]
<1>1. /\ UNCHANGED <<file, fails, tails, halting>> /\ FileGrows
      /\ session[t].at = "reading" /\ k <= file.size /\ ~Stale(t) /\ ~session[t].cancelled
      /\ session' = [session EXCEPT ![t].pos = k, ![t].offset = k, ![t].read = b]
      /\ Dispatch(t, Script[k], b)
  BY DEF Read, world, manager, FileGrows, IngestInv, IngestTypeOK
<1>2. /\ session[t] \in Session /\ session \in [Tailers -> Session] /\ s \in Stream /\ TailerOK(t)
      /\ file.size \in 0 .. 6 /\ k \in 1 .. 6 /\ stream \in [Tailers -> Stream]
      /\ session[t].offset \in Nat /\ session[t].pos \in Nat /\ s.targets \in Int
  <2>1. /\ session[t] \in Session /\ session \in [Tailers -> Session] /\ s \in Stream /\ TailerOK(t)
        /\ stream \in [Tailers -> Stream] /\ file.size \in 0 .. 6
    BY ScriptFacts DEF IngestInv, IngestTypeOK
  <2>2. session[t].offset \in 0 .. 6 /\ session[t].pos \in 0 .. 6
    BY <2>1, ScriptFacts DEF Session
  <2>3. s.targets \in Int
    BY <2>1, IngestAssumption DEF Stream
  <2> QED
    BY <1>1, <2>1, <2>2, <2>3
<1>3. b \in Builds /\ b \in 1 .. Last
  BY <1>1, <1>2 DEF IngestInv, IngestTypeOK, FileOK, Builds
<1>4. /\ session'[t].at = "reading" /\ ~session'[t].cancelled
      /\ session'[t].pos = k /\ session'[t].offset = k /\ session'[t].read = b
      /\ session'[t].restart = session[t].restart /\ session'[t].cancelled = session[t].cancelled
      /\ \A u \in Tailers \ {t} : session'[u] = session[u]
  BY <1>1, <1>2 DEF Session
<1>5. \A u \in Tailers \ {t} : stream'[u] = stream[u]
  BY <1>1, <1>2 DEF Dispatch, Started, Pattern, TestResult, Finished, BuildMetrics, LastMessage
<1>6. \/ session[t].offset = 0 /\ k = 1 /\ Empty(s) /\ ~session[t].restart
      \/ /\ session[t].offset > 0 /\ Following(t) /\ session[t].read = b
         /\ k > 1 /\ ~session[t].restart
  BY <1>1, <1>2 DEF TailerOK, Following, Stale
<1> HIDE DEF k, s, b
<1>7. /\ RegGrows /\ RowIsOneBuild'
      /\ stream'[t].id = b /\ stream'[t].bound /\ stream'[t].from \subseteq {b}
      /\ stream'[t].measured \in {0, b} /\ stream'[t].targets <= b
      /\ stream'[t].finish => (stream'[t].success <=> ~fails[b])
      /\ reg'[b] \in {"running"} \cup Terminal
  <2>1. CASE Script[k] = "Started" /\ Started(t, b)
    <3>1. Empty(s) /\ s.targets <= b
      BY <1>2, <1>6, <2>1, ScriptFacts DEF TailerOK, s, b
    <3>2. stream'[t] = [s EXCEPT !.id = b, !.bound = TRUE]
      BY <1>2, <2>1 DEF Started, s
    <3>3. reg' = [reg EXCEPT ![b] = IF @ = "absent" THEN "running" ELSE @]
      BY <2>1, <3>1 DEF Started, Empty, s
    <3>4. targets' = [targets EXCEPT ![b] = IF s.targets = 0 THEN @ ELSE s.targets] /\ rows' = rows
      BY <2>1, <3>1 DEF Started, Empty, s, Shown, metrics
    <3>5. RowIsOneBuild'
      BY <1>3, <3>1, <3>4 DEF RowIsOneBuild, IngestInv, IngestTypeOK
    <3>6. RegGrows /\ reg'[b] \in {"running"} \cup Terminal
      BY <1>3, <3>3 DEF RegGrows, IngestInv, IngestTypeOK, Running
    <3> QED
      BY <1>2, <3>1, <3>2, <3>5, <3>6 DEF Stream, Empty
  <2>2. CASE Script[k] # "Started"
    <3>1. Following(t) /\ session[t].read = b
      BY <1>2, <1>6, <2>2, ScriptFacts
    <3>2. /\ s.id = b /\ s.bound /\ s.from \subseteq {b} /\ s.measured \in {0, b}
          /\ s.finish => (s.success <=> ~fails[b])
          /\ reg[b] \in {"running"} \cup Terminal
      BY <3>1 DEF Following, s
    <3>3. s.targets <= b
      BY <1>2 DEF TailerOK, s, b
    <3>4. CASE Pattern(t, b)
      <4>1. stream'[t] = [s EXCEPT !.targets = b] /\ reg' = reg /\ rows' = rows
        BY <1>2, <1>3, <3>2, <3>4 DEF Pattern, s, metrics, Terminal, IngestInv, IngestTypeOK
      <4>2. targets' = [targets EXCEPT ![b] = IF b = 0 THEN @ ELSE b]
        BY <3>2, <3>4 DEF Pattern, s, Shown
      <4>3. RowIsOneBuild'
        BY <1>3, <4>1, <4>2 DEF RowIsOneBuild, IngestInv, IngestTypeOK
      <4> QED
        BY <1>2, <1>3, <3>2, <4>1, <4>3 DEF Stream, RegGrows
    <3>5. CASE TestResult(t, b) \/ BuildMetrics(t, b)
      <4>1. /\ UNCHANGED <<reg, targets, rows>>
            /\ stream'[t] = [s EXCEPT !.from = @ \cup {b}] \/ stream'[t] = [s EXCEPT !.measured = b]
        BY <1>2, <3>5 DEF TestResult, BuildMetrics, s, metrics
      <4> QED
        BY <1>2, <3>2, <3>3, <4>1 DEF Stream, RegGrows, RowIsOneBuild, IngestInv
    <3>6. CASE Finished(t, b)
      <4>1. /\ UNCHANGED <<reg, targets, rows>>
            /\ stream'[t] = [s EXCEPT !.from = @ \cup {b}, !.finish = TRUE, !.success = ~fails[b]]
        BY <1>2, <3>6 DEF Finished, s, metrics
      <4> QED
        BY <1>2, <3>2, <3>3, <4>1 DEF Stream, RegGrows, RowIsOneBuild, IngestInv
    <3>7. CASE LastMessage(t)
      <4>1. RegGrows /\ RowIsOneBuild'
        BY <1>2, <3>2, <3>7, FinalizeKeeps DEF LastMessage, s
      <4>2. stream'[t] = [s EXCEPT !.finalized = @ \/ Finalizes(s)]
        BY <1>2, <3>7 DEF LastMessage, s
      <4>3. reg'[b] \in {"running"} \cup Terminal
        BY <1>3, <3>2, <4>1 DEF RegGrows
      <4> QED
        BY <1>2, <3>2, <3>3, <4>1, <4>2, <4>3 DEF Stream
    <3> QED
      BY <1>1, <2>2, <3>4, <3>5, <3>6, <3>7 DEF Dispatch
  <2> QED
    BY <1>1, <2>1, <2>2 DEF Dispatch
<1>8. TailerOK(t)'
  BY <1>1, <1>2, <1>3, <1>4, <1>6, <1>7 DEF TailerOK, Following, b
<1>9. ASSUME NEW u \in Tailers \ {t} PROVE TailerOK(u)'
  BY <1>1, <1>4, <1>5, <1>7, TailerKept
<1>10. OneTailer' /\ AllOrNone' /\ MapOK'
  BY <1>1, <1>4, StaysAtWork
<1> QED
  BY <1>7, <1>8, <1>9, <1>10, NotAdrift DEF IngestInv

(* What runOneTail reached is finalized, and the stream begins anew.       *)
LEMMA ReturnStep ==
  ASSUME IngestInv, IngestTypeOK', FileOK', NEW t \in Tailers, Return(t)
  PROVE  IngestInv'
<1>1. /\ UNCHANGED <<file, fails, tails, halting, targets>> /\ FileGrows
      /\ session[t].at = "reading" /\ Finalize(stream[t])
      /\ stream' = [stream EXCEPT ![t] = Reset(@)]
      /\ session[t] \in Session /\ session \in [Tailers -> Session] /\ TailerOK(t)
      /\ stream[t] \in Stream /\ stream \in [Tailers -> Stream]
  BY DEF Return, world, manager, FileGrows, IngestInv, IngestTypeOK
<1>2. /\ \A u \in Tailers \ {t} : session'[u] = session[u] /\ stream'[u] = stream[u]
      /\ Empty(stream'[t]) /\ stream'[t].targets = stream[t].targets
  BY <1>1 DEF Return, Reset, Fresh, Empty
<1>3. \/ session[t].cancelled /\ session'[t] = [session[t] EXCEPT !.at = "ending"]
      \/ ~session[t].cancelled /\ session'[t] = [Closed EXCEPT !.at = "opening"]
  BY <1>1 DEF Return
<1>4. /\ session'[t].at # "off" /\ session'[t].at # "reading"
      /\ session'[t].at = "ending" => session'[t].cancelled
      /\ session'[t].cancelled = session[t].cancelled
      /\ session'[t].offset = 0 => session'[t].pos = 0 /\ ~session'[t].restart
  BY <1>1, <1>3, ZenonT(30) DEF Session, Closed, TailerOK
<1>5. stream[t].id # 0 =>
        /\ reg[stream[t].id] \in {"running"} \cup Terminal
        /\ stream[t].from \subseteq {stream[t].id} /\ stream[t].measured \in {0, stream[t].id}
  BY <1>1 DEF TailerOK, Following, Empty
<1>6. RegGrows /\ RowIsOneBuild'
  BY <1>1, <1>5, FinalizeKeeps
<1>7. TailerOK(t)'
  BY <1>1, <1>2, <1>4 DEF TailerOK
<1>8. ASSUME NEW u \in Tailers \ {t} PROVE TailerOK(u)'
  BY <1>1, <1>2, <1>6, TailerKept
<1>9. OneTailer' /\ AllOrNone' /\ MapOK'
  BY <1>1, <1>2, <1>4, StaysAtWork
<1> QED
  BY <1>6, <1>7, <1>8, <1>9, NotAdrift DEF IngestInv

(* The entry a tailer deletes is its own: when it ends, all others do.     *)
LEMMA DeleteStep ==
  ASSUME IngestInv, IngestTypeOK', FileOK', NEW t \in Tailers, Delete(t)
  PROVE  IngestInv'
<1>1. /\ UNCHANGED <<file, fails, reg, targets, rows, halting>> /\ FileGrows /\ RegGrows
      /\ session[t].at = "ending" /\ TailerOK(t) /\ file.build >= 0
      /\ tails' = Off /\ session'[t] = Closed /\ stream'[t] = Fresh
      /\ \A u \in Tailers \ {t} : session'[u] = session[u] /\ stream'[u] = stream[u]
  BY DEF Delete, world, registry, metrics, FileGrows, RegGrows, IngestInv, IngestTypeOK
<1>2. TailerOK(t)'
  BY <1>1 DEF TailerOK, Closed, Fresh, Empty
<1>3. ASSUME NEW u \in Tailers \ {t} PROVE TailerOK(u)'
  BY <1>1, TailerKept
<1>4. \A u \in Tailers \ {t} : session[u].at # "off" => session[u].cancelled
  BY <1>1 DEF TailerOK, IngestInv, AllOrNone
<1>5. OneTailer' /\ AllOrNone' /\ MapOK'
  BY <1>1, <1>4 DEF OneTailer, AllOrNone, MapOK, Closed
<1> QED
  BY <1>1, <1>2, <1>3, <1>5 DEF IngestInv, RowIsOneBuild

LEMMA IngestInvStep ==
  ASSUME Prompt
  PROVE  IngestInv /\ [Next]_vars => IngestInv'
<1> SUFFICES ASSUME IngestInv, [Next]_vars PROVE IngestInv'
  OBVIOUS
<1>1. IngestTypeOK' /\ FileOK'
  BY IngestTypeStep, FileStep DEF IngestInv
<1>2. CASE UNCHANGED vars
  BY <1>2 DEF vars, world, registry, metrics, manager, IngestInv, IngestTypeOK, FileOK, TailerOK,
     Following, RowIsOneBuild, OneTailer, AllOrNone, MapOK
<1>3. CASE Next
  BY <1>1, <1>3, WorldStep, ReconcileStep, ShutdownStep, RestartStep, SessionStep, ReadStep, ReturnStep,
     DeleteStep DEF Next, Follow
<1> QED
  BY <1>2, <1>3

LEMMA IngestInvariant == ASSUME Prompt PROVE Spec => []IngestInv
<1>1. IngestInv /\ [Next]_vars => IngestInv'
  BY IngestInvStep
<1> QED
  BY <1>1, IngestInvInit, PTL DEF Spec

(* No row mixes builds, and no record shows targets of a later build.      *)
THEOREM RowsAreOneBuild == ASSUME Prompt PROVE Spec => []RowIsOneBuild
BY IngestInvariant, PTL DEF IngestInv

(* However often builds end and begin, the manager knows every tailer.     *)
THEOREM TailersAreKnown == ASSUME Prompt PROVE Spec => []OneTailer
BY IngestInvariant, PTL DEF IngestInv

-----------------------------------------------------------------------------
(* The verdict of a stream is of a build that is over.                     *)
LEMMA VerdictIsOwn ==
  ASSUME IngestInv, NEW s \in Stream, Finalize(s), NEW b \in Builds, reg'[b] # reg[b],
         Finalizes(s) /\ s.id = b /\ reg[b] \notin Terminal => Over(b) \/ halting,
         s.id = b /\ s.finish => (s.success <=> ~fails[b])
  PROVE  /\ reg'[b] = "failed" => fails[b] /\ (Over(b) \/ halting)
         /\ reg'[b] = "finished" => Over(b) \/ halting
<1>1. reg' = [reg EXCEPT ![s.id] = IF @ \in Terminal THEN @ ELSE Verdict(s)] /\ Finalizes(s)
  BY DEF Finalize
<1>2. s.id = b /\ reg[b] \notin Terminal /\ reg'[b] = Verdict(s)
  BY <1>1 DEF IngestInv, IngestTypeOK
<1>3. Verdict(s) = "failed" => s.finish /\ ~s.success
  BY DEF Verdict
<1> QED
  BY <1>1, <1>2, <1>3

(* A build is called failed or finished on its own events, when it has no  *)
(* more to come or the daemon ends.                                        *)
THEOREM EndsAreOwn == ASSUME Prompt PROVE Spec => EndIsOwn
<1>1. IngestInv /\ [Next]_vars =>
        [\A b \in Builds : reg'[b] # reg[b] =>
           /\ reg'[b] = "failed" => fails[b] /\ (Over(b) \/ halting)
           /\ reg'[b] = "finished" => Over(b) \/ halting]_vars
  <2> SUFFICES ASSUME IngestInv, Next, NEW b \in Builds, reg'[b] # reg[b]
               PROVE  /\ reg'[b] = "failed" => fails[b] /\ (Over(b) \/ halting)
                      /\ reg'[b] = "finished" => Over(b) \/ halting
    OBVIOUS
  <2>1. CASE Restart
    BY <2>1 DEF Restart
  <2>2. ASSUME NEW t \in Tailers, Return(t)
        PROVE  /\ reg'[b] = "failed" => fails[b] /\ (Over(b) \/ halting)
               /\ reg'[b] = "finished" => Over(b) \/ halting
    <3>1. /\ session[t].at = "reading" /\ Finalize(stream[t]) /\ stream[t] \in Stream /\ TailerOK(t)
          /\ session[t].cancelled \/ session[t].restart
      BY <2>2 DEF Return, IngestInv, IngestTypeOK
    <3>2. stream[t].id = b => Following(t) /\ session[t].read = b
      BY <3>1 DEF TailerOK, Following, Empty, Builds
    <3>3. stream[t].id = b /\ reg[b] \notin Terminal => Over(b) \/ halting
      BY <3>1, <3>2 DEF Following, Over
    <3> QED
      BY <3>1, <3>2, <3>3, VerdictIsOwn DEF Following
  <2>3. ASSUME NEW t \in Tailers, Read(t)
        PROVE  /\ reg'[b] = "failed" => fails[b] /\ (Over(b) \/ halting)
               /\ reg'[b] = "finished" => Over(b) \/ halting
    <3> DEFINE k == session[t].pos + 1
    <3>1. CASE Started(t, file.build) \/ Pattern(t, file.build)
      BY <3>1 DEF Started, Pattern, IngestInv, IngestTypeOK
    <3>2. CASE TestResult(t, file.build) \/ Finished(t, file.build) \/ BuildMetrics(t, file.build)
      BY <3>2 DEF TestResult, Finished, BuildMetrics
    <3>3. CASE Script[k] = "LastMessage" /\ LastMessage(t)
      <4>1. /\ session[t].at = "reading" /\ ~Stale(t) /\ k <= file.size /\ TailerOK(t)
            /\ Finalize(stream[t]) /\ stream[t] \in Stream /\ session[t].pos \in 0 .. 6
            /\ session[t].offset \in 0 .. 6 /\ file.size \in 0 .. 6
        BY <2>3, <3>3, ScriptFacts DEF Read, LastMessage, IngestInv, IngestTypeOK, Session
      <4>2. k = 6
        BY <3>3, <4>1, ScriptFacts
      <4>3. Following(t) /\ session[t].read = file.build
        BY <4>1, <4>2 DEF TailerOK, Stale
      <4>4. Over(file.build) /\ stream[t].id = file.build
        BY <4>1, <4>2, <4>3, ScriptFacts DEF Over, Following
      <4> QED
        BY <4>1, <4>3, <4>4, VerdictIsOwn DEF Following
    <3> QED
      BY <2>3, <3>1, <3>2, <3>3 DEF Read, Dispatch
  <2>4. CASE UNCHANGED reg
    BY <2>4
  <2> QED
    BY <2>1, <2>2, <2>3, <2>4 DEF Next, Follow, Launch, Truncate, Write, Exit, Discover, Reconcile,
       GraceElapses, Shutdown, Open, Rewind, Supervise, Delete, registry
<1> QED
  BY <1>1, IngestInvariant, PTL DEF Spec, EndIsOwn

-----------------------------------------------------------------------------
(* The ratios of a history, and which of them are at most x, below it,     *)
(* above it.                                                               *)
History == Seq(0 .. 100)
UpTo(s, x) == {j \in DOMAIN s : s[j] <= x}
Below(s, x) == {j \in DOMAIN s : s[j] < x}
Above(s, x) == {j \in DOMAIN s : s[j] > x}

LEMMA Entries ==
  ASSUME NEW s \in History
  PROVE  /\ DOMAIN s = 1 .. Len(s) /\ Len(s) \in Nat
         /\ \A j \in DOMAIN s : s[j] \in 0 .. 100 /\ s[j] \in Nat /\ s[j] <= 100
<1>1. DOMAIN s = 1 .. Len(s) /\ Len(s) \in Nat
  BY DEF History
<1>2. \A S, q : q \in Seq(S) => \A j \in 1 .. Len(q) : q[j] \in S
  OBVIOUS
<1>3. \A j \in 1 .. Len(s) : s[j] \in 0 .. 100
  BY <1>2 DEF History
<1>4. \A v \in 0 .. 100 : v \in Nat /\ v <= 100
  OBVIOUS
<1> QED
  BY <1>1, <1>3, <1>4

LEMMA Counted ==
  ASSUME NEW s \in History, NEW x \in Int
  PROVE  /\ IsFiniteSet(DOMAIN s) /\ Cardinality(DOMAIN s) = Len(s) /\ Len(s) \in Nat
         /\ IsFiniteSet(UpTo(s, x)) /\ Cardinality(UpTo(s, x)) \in Nat
         /\ IsFiniteSet(Below(s, x)) /\ Cardinality(Below(s, x)) \in Nat
         /\ IsFiniteSet(Above(s, x)) /\ Cardinality(Above(s, x)) \in Nat
         /\ Cardinality(UpTo(s, x)) + Cardinality(Above(s, x)) = Len(s)
<1>1. DOMAIN s = 1 .. Len(s) /\ Len(s) \in Nat
  BY Entries
<1>2. IsFiniteSet(DOMAIN s) /\ Cardinality(DOMAIN s) = Len(s)
  <2>1. IsFiniteSet(1 .. Len(s)) /\ Cardinality(1 .. Len(s)) = IF 1 > Len(s) THEN 0 ELSE Len(s) - 1 + 1
    BY <1>1, FS_Interval
  <2> QED
    BY <1>1, <2>1
<1>3. UpTo(s, x) \subseteq DOMAIN s /\ Below(s, x) \subseteq DOMAIN s /\ Above(s, x) \subseteq DOMAIN s
  BY DEF UpTo, Below, Above
<1>4. IsFiniteSet(UpTo(s, x)) /\ IsFiniteSet(Below(s, x)) /\ IsFiniteSet(Above(s, x))
  BY <1>2, <1>3, FS_Subset
<1>5. \A j \in DOMAIN s : s[j] \in Int
  BY Entries
<1>6. Above(s, x) = DOMAIN s \ UpTo(s, x) /\ DOMAIN s \cap UpTo(s, x) = UpTo(s, x)
  BY <1>5 DEF UpTo, Above
<1>7. Cardinality(Above(s, x)) = Len(s) - Cardinality(UpTo(s, x))
  BY <1>2, <1>6, FS_Difference, ZenonT(30)
<1> QED
  BY <1>1, <1>2, <1>4, <1>7, FS_CardinalityType

(* A history has a k-th smallest ratio: the smallest that k of its ratios  *)
(* do not exceed.                                                          *)
LEMMA RankedFacts ==
  ASSUME NEW s \in History, NEW k \in 1 .. Len(s)
  PROVE  /\ Ranked(s, k) \in Nat
         /\ Cardinality(Below(s, Ranked(s, k))) < k
         /\ k <= Cardinality(UpTo(s, Ranked(s, k)))
<1> DEFINE Good == {v \in Nat : k <= Cardinality(UpTo(s, v))}
<1>k. k \in Nat /\ 0 < k /\ k <= Len(s)
  BY Entries
<1>c. \A x \in Int : Cardinality(UpTo(s, x)) \in Nat /\ Cardinality(Below(s, x)) \in Nat
  BY Counted
<1>1. 100 \in Good
  <2>1. \A j \in DOMAIN s : s[j] <= 100
    BY Entries
  <2>2. UpTo(s, 100) = DOMAIN s
    BY <2>1 DEF UpTo
  <2>3. Cardinality(DOMAIN s) = Len(s)
    BY Entries, Counted
  <2> QED
    BY <1>k, <2>2, <2>3
<1>2. PICK v \in Good : \A w \in Good : <<w, v>> \notin OpToRel(<, Nat)
  BY <1>1, NatLessThanWellFounded, WFMin
<1>3. v \in Nat /\ \A w \in Nat : w < v => Cardinality(UpTo(s, w)) < k
  <2>1. \A w \in Nat : w < v => w \notin Good
    BY <1>2 DEF OpToRel
  <2> QED
    BY <1>k, <1>c, <2>1
<1>4. Cardinality(Below(s, v)) < k
  <2>1. CASE v = 0
    <3>1. Below(s, 0) = {}
      BY Entries DEF Below
    <3> QED
      BY <1>k, <2>1, <3>1, FS_EmptySet
  <2>2. CASE v > 0
    <3>1. v - 1 \in Nat /\ Cardinality(UpTo(s, v - 1)) < k
      BY <1>3, <2>2
    <3>2. Below(s, v) = UpTo(s, v - 1)
      BY <1>3, Entries DEF Below, UpTo
    <3> QED
      BY <3>1, <3>2
  <2> QED
    BY <1>3, <2>1, <2>2
<1>5. k <= Cardinality(UpTo(s, v))
  BY <1>2
<1>6. PICK j \in DOMAIN s : s[j] = v
  <2>1. CASE \A j \in DOMAIN s : s[j] # v
    <3>1. UpTo(s, v) = Below(s, v)
      BY <1>3, <2>1, Entries DEF UpTo, Below
    <3> QED
      BY <1>k, <1>c, <1>3, <1>4, <1>5, <3>1
  <2> QED
    BY <2>1
<1>7. \E x \in {s[i] : i \in DOMAIN s} : Cardinality(Below(s, x)) < k /\ k <= Cardinality(UpTo(s, x))
  BY <1>4, <1>5, <1>6
<1>8. /\ Ranked(s, k) \in {s[i] : i \in DOMAIN s}
      /\ Cardinality(Below(s, Ranked(s, k))) < k
      /\ k <= Cardinality(UpTo(s, Ranked(s, k)))
  BY <1>7 DEF Ranked, Below, UpTo
<1> QED
  BY <1>8, Entries

(* The k-th smallest ratio exceeds x if fewer than k ratios are at most x, *)
(* and only then.                                                          *)
LEMMA RankedAbove ==
  ASSUME NEW s \in History, NEW k \in 1 .. Len(s), NEW x \in Int
  PROVE  Ranked(s, k) > x <=> Cardinality(UpTo(s, x)) < k
<1> DEFINE r == Ranked(s, k)
<1>1. /\ r \in Nat /\ Cardinality(Below(s, r)) < k /\ k <= Cardinality(UpTo(s, r))
      /\ k \in Nat
  BY RankedFacts, Entries
<1> HIDE DEF r
<1>2. /\ IsFiniteSet(UpTo(s, x)) /\ Cardinality(UpTo(s, x)) \in Nat
      /\ IsFiniteSet(Below(s, r)) /\ Cardinality(Below(s, r)) \in Nat
      /\ Cardinality(UpTo(s, r)) \in Nat
  <2>1. r \in Int
    BY <1>1
  <2> QED
    BY <2>1, Counted
<1>3. CASE r > x
  <2>1. UpTo(s, x) \subseteq Below(s, r)
    BY <1>1, <1>3, Entries DEF UpTo, Below
  <2>2. Cardinality(UpTo(s, x)) <= Cardinality(Below(s, r))
    BY <1>2, <2>1, FS_Subset
  <2> QED
    BY <1>1, <1>2, <1>3, <2>2 DEF r
<1>4. CASE r <= x
  <2>1. UpTo(s, r) \subseteq UpTo(s, x)
    BY <1>1, <1>4, Entries DEF UpTo
  <2>2. Cardinality(UpTo(s, r)) <= Cardinality(UpTo(s, x))
    BY <1>2, <2>1, FS_Subset
  <2> QED
    BY <1>1, <1>2, <1>4, <2>2 DEF r
<1> QED
  BY <1>1, <1>3, <1>4

(* The median exceeds x if more than half of the ratios do, and only if    *)
(* half of them do.                                                        *)
LEMMA MedianMajority ==
  ASSUME NEW s \in History, s # <<>>, NEW x \in Int
  PROVE  /\ TwiceMedian(s) \in Nat
         /\ 2 * Cardinality(Above(s, x)) > Len(s) => TwiceMedian(s) > 2 * x
         /\ TwiceMedian(s) > 2 * x => 2 * Cardinality(Above(s, x)) >= Len(s)
<1> DEFINE n == Len(s)
           low == Cardinality(UpTo(s, x))
           high == Cardinality(Above(s, x))
<1>1. n \in Nat \ {0}
  BY EmptySeq DEF History
<1>2. low \in Nat /\ high \in Nat /\ low + high = n
  BY Counted
<1>3. \A k \in 1 .. n : Ranked(s, k) \in Nat /\ (Ranked(s, k) > x <=> low < k)
  BY RankedFacts, RankedAbove
<1> HIDE DEF low, high, n
<1>4. CASE n % 2 = 1
  <2>1. PICK m \in Nat : n = 2 * m + 1 /\ n \div 2 = m /\ m + 1 \in 1 .. n
    BY <1>1, <1>4
  <2> DEFINE r == Ranked(s, m + 1)
  <2>2. TwiceMedian(s) = 2 * r
    BY <1>4, <2>1 DEF TwiceMedian, n
  <2>3. r \in Nat /\ (r > x <=> low < m + 1)
    BY <1>3, <2>1
  <2> HIDE DEF r
  <2> QED
    BY <1>2, <2>1, <2>2, <2>3 DEF high, n
<1>5. CASE n % 2 # 1
  <2>1. PICK m \in Nat : n = 2 * m /\ n \div 2 = m /\ m \in 1 .. n /\ m + 1 \in 1 .. n
    BY <1>1, <1>5
  <2> DEFINE r == Ranked(s, m)
             q == Ranked(s, m + 1)
  <2>2. TwiceMedian(s) = r + q
    BY <1>5, <2>1 DEF TwiceMedian, n
  <2>3. r \in Nat /\ (r > x <=> low < m) /\ q \in Nat /\ (q > x <=> low < m + 1)
    BY <1>3, <2>1
  <2> HIDE DEF r, q
  <2> QED
    BY <1>2, <2>1, <2>2, <2>3 DEF high, n
<1> QED
  BY <1>4, <1>5

(* The alert of a large enough build goes by the majority of its history.  *)
LEMMA AlertByMajority ==
  ASSUME NEW s \in History, NEW r \in Int, NEW p \in Int, p >= MinProcs
  PROVE  /\ 2 * Cardinality(Above(s, r + Delta)) > Len(s)
              => EvaluateAlert(r, p, s) = "cache_busting_suspected"
         /\ EvaluateAlert(r, p, s) = "cache_busting_suspected"
              => 2 * Cardinality(Above(s, r + Delta)) >= Len(s)
<1>1. ~(p < MinProcs) /\ Delta \in Nat /\ r + Delta \in Int
  BY MetricsAssumption
<1>2. CASE s = <<>>
  <2>1. Len(s) = 0 /\ Above(s, r + Delta) = {}
    BY <1>2, Entries DEF Above
  <2>2. EvaluateAlert(r, p, s) # "cache_busting_suspected"
    BY <1>2 DEF EvaluateAlert
  <2>3. Cardinality(Above(s, r + Delta)) = 0
    BY <2>1, FS_EmptySet
  <2>4. ~(2 * Cardinality(Above(s, r + Delta)) > Len(s))
    BY <2>1, <2>3
  <2> QED
    BY <2>2, <2>4
<1>3. CASE s # <<>>
  <2> DEFINE m == TwiceMedian(s)
             high == Cardinality(Above(s, r + Delta))
  <2>1. /\ m \in Nat
        /\ 2 * high > Len(s) => m > 2 * (r + Delta)
        /\ m > 2 * (r + Delta) => 2 * high >= Len(s)
    BY <1>1, <1>3, MedianMajority
  <2>2. EvaluateAlert(r, p, s) = "cache_busting_suspected" <=> 2 * r < m - 2 * Delta
    BY <1>1, <1>3 DEF EvaluateAlert
  <2> HIDE DEF m, high
  <2>3. 2 * r < m - 2 * Delta <=> m > 2 * (r + Delta)
    BY <1>1, <2>1
  <2> QED
    BY <2>1, <2>2, <2>3 DEF high
<1> QED
  BY <1>2, <1>3

(* Builds are ranked by how many of a set are newer.                       *)
Newer(R, c) == Cardinality({d \in R : d > c})

LEMMA Ranks ==
  ASSUME NEW R, R \subseteq Builds
  PROVE  /\ IsFiniteSet(R) /\ Cardinality(R) \in Nat
         /\ \A c \in R : Newer(R, c) \in 0 .. Cardinality(R) - 1
         /\ \A c, d \in R : Newer(R, c) = Newer(R, d) => c = d
         /\ \A j \in 0 .. Cardinality(R) - 1 : \E c \in R : Newer(R, c) = j
<1> DEFINE n == Cardinality(R)
           f == [c \in R |-> Newer(R, c)]
<1>1. IsFiniteSet(R) /\ n \in Nat /\ R \subseteq Int
  <2>1. IsFiniteSet(1 .. Last) /\ R \subseteq 1 .. Last /\ R \subseteq Int
    BY FS_Interval, IngestAssumption DEF Builds
  <2>2. IsFiniteSet(R)
    BY <2>1, FS_Subset
  <2> QED
    BY <2>1, <2>2, FS_CardinalityType
<1>2. \A c \in Int : IsFiniteSet({d \in R : d > c}) /\ Newer(R, c) \in Nat
  <2> TAKE c \in Int
  <2>1. {d \in R : d > c} \subseteq R
    OBVIOUS
  <2>2. IsFiniteSet({d \in R : d > c})
    BY <1>1, <2>1, FS_Subset
  <2> QED
    BY <2>2, FS_CardinalityType DEF Newer
<1>3. ASSUME NEW c \in R, NEW d \in Int, d < c
      PROVE  Newer(R, c) < Newer(R, d)
  <2> DEFINE up == {e \in R : e > c}
  <2>1. c \in Int /\ c \notin up /\ IsFiniteSet(up)
    BY <1>1, <1>2
  <2>2. up \cup {c} \subseteq {e \in R : e > d}
    <3>1. \A e \in R : e > c => e > d
      BY <1>1, <1>3
    <3>2. c > d
      BY <1>1, <1>3
    <3> QED
      BY <3>1, <3>2
  <2>3. Cardinality(up \cup {c}) = Cardinality(up) + 1
    BY <2>1, FS_AddElement
  <2>4. Cardinality(up \cup {c}) <= Cardinality({e \in R : e > d})
    BY <1>2, <2>2, FS_Subset
  <2>5. Newer(R, c) \in Nat /\ Newer(R, d) \in Nat
    BY <1>2, <2>1
  <2> QED
    BY <2>3, <2>4, <2>5 DEF Newer
<1>4. ASSUME NEW c \in R PROVE Newer(R, c) \in 0 .. n - 1
  <2>1. {e \in R : e > c} \subseteq R \ {c}
    BY <1>1
  <2>2. IsFiniteSet(R \ {c}) /\ Cardinality(R \ {c}) = n - 1
    BY <1>1, FS_RemoveElement
  <2>3. Newer(R, c) <= n - 1
    BY <2>1, <2>2, FS_Subset DEF Newer
  <2>4. Newer(R, c) \in Nat
    BY <1>1, <1>2
  <2> QED
    BY <1>1, <2>3, <2>4
<1>5. ASSUME NEW c \in R, NEW d \in R, Newer(R, c) = Newer(R, d) PROVE c = d
  <2>1. c \in Int /\ d \in Int
    BY <1>1
  <2>4. Newer(R, c) \in Nat
    BY <1>2, <2>1
  <2>2. c < d => Newer(R, d) < Newer(R, c)
    BY <1>3, <2>1
  <2>3. d < c => Newer(R, c) < Newer(R, d)
    BY <1>3, <2>1
  <2> QED
    BY <1>5, <2>1, <2>2, <2>3, <2>4
<1>6. f \in Injection(R, 0 .. n - 1)
  BY <1>4, <1>5 DEF Injection, IsInjective
<1>7. IsFiniteSet(0 .. n - 1) /\ Cardinality(0 .. n - 1) = n
  <2>1. /\ IsFiniteSet(0 .. n - 1)
        /\ Cardinality(0 .. n - 1) = IF 0 > n - 1 THEN 0 ELSE n - 1 - 0 + 1
    BY <1>1, FS_Interval, SMTT(20)
  <2> QED
    BY <1>1, <2>1
<1>8. f \in Surjection(R, 0 .. n - 1)
  BY <1>6, <1>7, FS_Injection
<1>9. \A j \in 0 .. n - 1 : \E c \in R : Newer(R, c) = j
  BY <1>8 DEF Surjection
<1> QED
  BY <1>1, <1>4, <1>5, <1>9

-----------------------------------------------------------------------------
(* A ratio is in hundredths.                                               *)
LEMMA PartOfAHundred ==
  ASSUME NEW a \in Nat, NEW d \in Nat, a <= d, d > 0
  PROVE  (100 * a) \div d \in 0 .. 100
<1> DEFINE q == (100 * a) \div d
<1>1. q \in Int /\ d * q <= 100 * a /\ 100 * a < d * (q + 1)
  OBVIOUS
<1> HIDE DEF q
<1>2. q <= 100
  <2> SUFFICES ASSUME q >= 101 PROVE FALSE
    BY <1>1
  <2>1. d * q >= d * 101
    BY <1>1
  <2> QED
    BY <1>1, <2>1
<1>3. q >= 0
  <2> SUFFICES ASSUME q + 1 <= 0 PROVE FALSE
    BY <1>1
  <2>1. d * (q + 1) <= 0
    BY <1>1
  <2> QED
    BY <1>1, <2>1
<1> QED
  BY <1>1, <1>2, <1>3 DEF q

LEMMA RatioTyped ==
  ASSUME NEW m \in 0 .. Last, RatioOf(m) # None
  PROVE  m \in Builds /\ RatioOf(m) \in 0 .. 100 /\ Processes(CountsOf[m]) \in Int
<1>1. m \in 1 .. Last /\ RatioOf(m) = CacheHitRatio(CountsOf[m])
  BY IngestAssumption DEF RatioOf
<1> DEFINE c == CountsOf[m]
<1>2. c \in Counts
  BY <1>1, IngestAssumption
<1> HIDE DEF c
<1>3. c.total \in Nat /\ c.internal \in Nat /\ c.disk \in Nat /\ Executed(c) \in Nat
  BY <1>2 DEF Counts, Executed
<1>4. c.disk + Executed(c) # 0 /\ CacheHitRatio(c) = (100 * c.disk) \div (c.disk + Executed(c))
  BY <1>1 DEF CacheHitRatio, c
<1>5. CacheHitRatio(c) \in 0 .. 100
  <2> DEFINE d == c.disk + Executed(c)
  <2>1. d \in Nat /\ d > 0 /\ c.disk \in Nat /\ c.disk <= d
    BY <1>3, <1>4
  <2>2. CacheHitRatio(c) = (100 * c.disk) \div d
    BY <1>4
  <2> HIDE DEF d
  <2> QED
    BY <2>1, <2>2, PartOfAHundred
<1>6. Processes(c) \in Int
  BY <1>3 DEF Processes
<1> QED
  BY <1>1, <1>5, <1>6 DEF c, Builds

LEMMA SequenceOf ==
  ASSUME NEW S, NEW k \in Nat, NEW f \in [1 .. k -> S]
  PROVE  f \in Seq(S) /\ Len(f) = k
<1>1. f \in Seq(S) /\ DOMAIN f = 1 .. k
  OBVIOUS
<1>2. Len(f) \in Nat /\ DOMAIN f = 1 .. Len(f)
  BY <1>1, LenProperties
<1> QED
  BY <1>1, <1>2

(* The history of a build: its rated rows, newest first, then the past,    *)
(* as far as an alert looks back.                                          *)
LEMMA RecentIs ==
  ASSUME NEW b \in Builds, rows \in [Builds -> Row]
  PROVE  LET R == Rated(b)
             n == Cardinality(R)
         IN /\ Recent(b) \in History /\ n \in Nat
            /\ Len(Recent(b)) = IF n + Len(Past) < Trailing THEN n + Len(Past) ELSE Trailing
            /\ \A c \in R : Newer(R, c) < Trailing
                              => Recent(b)[Newer(R, c) + 1] = RatioOf(rows[c].measured)
            /\ \A j \in 1 .. Len(Past) : n + j <= Trailing => Recent(b)[n + j] = Past[j]
<1> DEFINE R == Rated(b)
           n == Cardinality(R)
           pick(j) == CHOOSE c \in R : Newer(R, c) = j - 1
           all == [j \in 1 .. n + Len(Past) |->
                     IF j > n THEN Past[j - n] ELSE RatioOf(rows[pick(j)].measured)]
           len == IF n + Len(Past) < Trailing THEN n + Len(Past) ELSE Trailing
<1>1. /\ R \subseteq Builds
      /\ \A c \in R : RatioOf(rows[c].measured) \in 0 .. 100
  <2>1. R \subseteq Builds /\ \A c \in R : RatioOf(rows[c].measured) # None
    BY DEF Rated
  <2>2. \A c \in Builds : rows[c].measured \in 0 .. Last
    BY DEF Row
  <2> QED
    BY <2>1, <2>2, RatioTyped
<1>2. /\ n \in Nat
      /\ \A c \in R : Newer(R, c) \in 0 .. n - 1
      /\ \A c, d \in R : Newer(R, c) = Newer(R, d) => c = d
      /\ \A j \in 0 .. n - 1 : \E c \in R : Newer(R, c) = j
  BY <1>1, Ranks
<1>3. Trailing \in Nat /\ Trailing > 0 /\ Len(Past) \in Nat /\ \A j \in 1 .. Len(Past) : Past[j] \in 0 .. 100
  <2>1. Past \in History /\ Trailing \in Nat \ {0}
    BY IngestAssumption DEF History
  <2>2. /\ DOMAIN Past = 1 .. Len(Past) /\ Len(Past) \in Nat
        /\ \A j \in DOMAIN Past : Past[j] \in 0 .. 100
    BY <2>1, Entries
  <2>3. Trailing \in Nat /\ Trailing > 0
    BY <2>1
  <2>4. \A j \in 1 .. Len(Past) : Past[j] \in 0 .. 100
    BY <2>2, Zenon
  <2> QED
    BY <2>2, <2>3, <2>4, Zenon
<1>4. \A j \in 1 .. n : pick(j) \in R /\ Newer(R, pick(j)) = j - 1
  <2> TAKE j \in 1 .. n
  <2>1. j - 1 \in 0 .. n - 1
    BY <1>2
  <2>2. \E c \in R : Newer(R, c) = j - 1
    BY <1>2, <2>1
  <2> QED
    BY <2>2
<1>5. Recent(b) = SubSeq(all, 1, IF Len(all) < Trailing THEN Len(all) ELSE Trailing)
  BY DEF Recent, Newer
<1> HIDE DEF R, n, pick
<1>6. n + Len(Past) \in Nat
  BY <1>2, <1>3
<1>7. \A j \in 1 .. n + Len(Past) : all[j] \in 0 .. 100
  <2> TAKE j \in 1 .. n + Len(Past)
  <2>1. CASE j > n
    <3>1. j - n \in 1 .. Len(Past)
      BY <1>2, <1>3, <2>1
    <3> QED
      BY <1>3, <2>1, <3>1
  <2>2. CASE ~(j > n)
    <3>1. j \in 1 .. n
      BY <1>2, <2>2
    <3> QED
      BY <1>1, <1>4, <2>2, <3>1
  <2> QED
    BY <2>1, <2>2
<1>8. all \in Seq(0 .. 100) /\ Len(all) = n + Len(Past)
  <2> DEFINE k == n + Len(Past)
             ratios == 0 .. 100
  <2>1. k \in Nat /\ all \in [1 .. k -> ratios]
    BY <1>6, <1>7
  <2> HIDE DEF all, k, ratios
  <2>2. all \in Seq(ratios) /\ Len(all) = k
    BY <2>1, SequenceOf
  <2> QED
    BY <2>2 DEF k, ratios
<1>9. /\ \A c \in R : all[Newer(R, c) + 1] = RatioOf(rows[c].measured)
      /\ \A j \in 1 .. Len(Past) : all[n + j] = Past[j]
  <2>1. ASSUME NEW c \in R PROVE all[Newer(R, c) + 1] = RatioOf(rows[c].measured)
    <3> DEFINE j == Newer(R, c) + 1
    <3>1. j \in 1 .. n /\ ~(j > n) /\ j \in 1 .. n + Len(Past) /\ j - 1 = Newer(R, c)
      BY <1>2, <1>3
    <3> HIDE DEF j
    <3>2. pick(j) = c
      BY <1>2, <1>4, <3>1
    <3>3. all[j] = RatioOf(rows[c].measured)
      BY <3>1, <3>2
    <3> QED
      BY <3>3 DEF j
  <2>2. ASSUME NEW j \in 1 .. Len(Past) PROVE all[n + j] = Past[j]
    <3>1. n + j \in 1 .. n + Len(Past) /\ n + j > n /\ (n + j) - n = j
      BY <1>2, <1>3
    <3> QED
      BY <3>1
  <2> QED
    BY <2>1, <2>2
<1> HIDE DEF all
<1>10. len \in 0 .. Len(all) /\ len \in Nat /\ Recent(b) = SubSeq(all, 1, len)
  BY <1>3, <1>5, <1>6, <1>8
<1> HIDE DEF len
<1>11. /\ Recent(b) \in Seq(0 .. 100)
       /\ Len(Recent(b)) = len
       /\ \A j \in 1 .. len : Recent(b)[j] = all[j]
  BY <1>8, <1>10, SubSeqProperties
<1>12. ASSUME NEW c \in R, Newer(R, c) < Trailing
       PROVE  Recent(b)[Newer(R, c) + 1] = RatioOf(rows[c].measured)
  <2>1. Newer(R, c) + 1 \in 1 .. len
    BY <1>2, <1>3, <1>12 DEF len
  <2> QED
    BY <1>9, <1>11, <2>1
<1>13. ASSUME NEW j \in 1 .. Len(Past), n + j <= Trailing
       PROVE  Recent(b)[n + j] = Past[j]
  <2>1. n + j \in 1 .. len
    BY <1>2, <1>3, <1>13 DEF len
  <2> QED
    BY <1>9, <1>11, <2>1
<1> QED
  BY <1>2, <1>11, <1>12, <1>13 DEF R, n, len, History

(* When no later build has a row, the baseline of a build is its history,  *)
(* and the better builds of the one are the better ratios of the other.    *)
LEMMA SameMajority ==
  ASSUME NEW b \in Builds, rows \in [Builds -> Row], Rated(b) = Earlier(b)
  PROVE  /\ Recent(b) \in History
         /\ Cardinality(Baseline(b)) = Len(Recent(b))
         /\ Cardinality(Better(b)) = Cardinality(Above(Recent(b), RatioOf(b) + Delta))
<1> DEFINE E == Earlier(b)
           n == Cardinality(E)
           s == Recent(b)
           at(e) == IF e > 0 THEN Newer(E, e) + 1 ELSE n - e
           value(e) == IF e > 0 THEN RatioOf(rows[e].measured) ELSE Past[-e]
           x == RatioOf(b) + Delta
           old == {c \in E : Newer(E, c) < Trailing}
           past == {j \in DOMAIN Past : j + n <= Trailing}
<1>1. /\ E \subseteq Builds /\ \A c \in E : c \in Int /\ c > 0
  BY IngestAssumption DEF Earlier, Builds
<1>2. /\ n \in Nat
      /\ \A c \in E : Newer(E, c) \in 0 .. n - 1
      /\ \A c, d \in E : Newer(E, c) = Newer(E, d) => c = d
      /\ \A j \in 0 .. n - 1 : \E c \in E : Newer(E, c) = j
  BY <1>1, Ranks
<1>3. /\ s \in History
      /\ Len(s) = IF n + Len(Past) < Trailing THEN n + Len(Past) ELSE Trailing
      /\ \A c \in E : Newer(E, c) < Trailing => s[Newer(E, c) + 1] = RatioOf(rows[c].measured)
      /\ \A j \in 1 .. Len(Past) : n + j <= Trailing => s[n + j] = Past[j]
  BY RecentIs
<1>4. Baseline(b) = old \cup {-j : j \in past}
  BY DEF Baseline, Newer
<1>5. Better(b) = {e \in Baseline(b) : value(e) > x}
  BY DEF Better
<1>6. /\ Trailing \in Nat /\ Trailing > 0
      /\ DOMAIN Past = 1 .. Len(Past) /\ Len(Past) \in Nat
  <2>1. Past \in History /\ Trailing \in Nat \ {0}
    BY IngestAssumption DEF History
  <2>2. DOMAIN Past = 1 .. Len(Past) /\ Len(Past) \in Nat
    BY <2>1, Entries
  <2> QED
    BY <2>1, <2>2
<1>7. DOMAIN s = 1 .. Len(s) /\ Len(s) \in Nat
  BY <1>3, Entries
<1> HIDE DEF E, n, s, x
<1>8. ASSUME NEW e \in Baseline(b)
      PROVE  \/ e \in old /\ e \in E /\ e > 0 /\ e \in Int
             \/ e \in Int /\ -e \in 1 .. Len(Past) /\ n - e <= Trailing /\ ~(e > 0)
  <2>1. CASE e \in old
    BY <1>1, <2>1
  <2>2. ASSUME NEW j \in past, e = -j
        PROVE  e \in Int /\ -e \in 1 .. Len(Past) /\ n - e <= Trailing /\ ~(e > 0)
    BY <1>2, <1>6, <2>2
  <2> QED
    BY <1>4, <1>8, <2>1, <2>2
<1>9. ASSUME NEW e \in Baseline(b)
      PROVE  at(e) \in DOMAIN s /\ s[at(e)] = value(e)
  <2>1. ASSUME e \in old, e \in E, e > 0
        PROVE  at(e) \in DOMAIN s /\ s[at(e)] = value(e)
    <3>1. Newer(E, e) \in 0 .. n - 1 /\ Newer(E, e) < Trailing /\ at(e) = Newer(E, e) + 1
      BY <1>2, <2>1
    <3>2. at(e) \in 1 .. Len(s)
      BY <1>2, <1>3, <1>6, <3>1
    <3>3. s[at(e)] = value(e)
      BY <1>3, <2>1, <3>1
    <3> QED
      BY <1>7, <3>2, <3>3
  <2>2. ASSUME e \in Int, -e \in 1 .. Len(Past), n - e <= Trailing, ~(e > 0)
        PROVE  at(e) \in DOMAIN s /\ s[at(e)] = value(e)
    <3> DEFINE j == -e
    <3>1. j \in 1 .. Len(Past) /\ n + j <= Trailing /\ at(e) = n + j /\ value(e) = Past[j]
      BY <1>2, <1>6, <2>2
    <3> HIDE DEF j, at, value
    <3>2. n + j \in 1 .. Len(s)
      BY <1>2, <1>3, <1>6, <3>1
    <3>3. s[n + j] = Past[j]
      BY <1>3, <3>1
    <3> QED
      BY <1>7, <3>1, <3>2, <3>3
  <2> QED
    BY <1>8, <2>1, <2>2
<1>10. ASSUME NEW e \in Baseline(b), NEW d \in Baseline(b), at(e) = at(d)
       PROVE  e = d
  <2>1. /\ \/ e \in E /\ e > 0 /\ at(e) = Newer(E, e) + 1 /\ Newer(E, e) \in 0 .. n - 1
           \/ e \in Int /\ e < 0 /\ at(e) = n - e
        /\ \/ d \in E /\ d > 0 /\ at(d) = Newer(E, d) + 1 /\ Newer(E, d) \in 0 .. n - 1
           \/ d \in Int /\ d < 0 /\ at(d) = n - d
    BY <1>2, <1>6, <1>8
  <2> HIDE DEF at
  <2> QED
    BY <1>2, <1>10, <2>1
<1>11. ASSUME NEW i \in DOMAIN s
       PROVE  \E e \in Baseline(b) : at(e) = i
  <2>1. CASE i <= n
    <3>1. i - 1 \in 0 .. n - 1 /\ i - 1 < Trailing
      BY <1>2, <1>3, <1>6, <1>7, <2>1
    <3>2. PICK c \in E : Newer(E, c) = i - 1
      BY <1>2, <3>1
    <3>3. c \in Baseline(b)
      BY <1>4, <3>1, <3>2
    <3>4. at(c) = i
      BY <1>1, <1>7, <3>2
    <3> QED
      BY <3>3, <3>4
  <2>2. CASE i > n
    <3> DEFINE j == i - n
    <3>1. j \in past /\ j \in Int /\ j > 0 /\ n + j = i
      BY <1>2, <1>3, <1>6, <1>7, <2>2
    <3>2. -j \in Baseline(b)
      BY <1>4, <3>1
    <3>3. at(-j) = i
      BY <1>2, <3>1
    <3> QED
      BY <3>2, <3>3
  <2> QED
    BY <1>2, <1>7, <2>1, <2>2
<1>12. IsFiniteSet(DOMAIN s) /\ Cardinality(DOMAIN s) = Len(s)
  <2>1. /\ IsFiniteSet(1 .. Len(s))
        /\ Cardinality(1 .. Len(s)) = IF 1 > Len(s) THEN 0 ELSE Len(s) - 1 + 1
    BY <1>7, FS_Interval
  <2> QED
    BY <1>7, <2>1
<1> HIDE DEF at, value, old, past
<1>13. ASSUME NEW S, S \subseteq Baseline(b), NEW T, T \subseteq DOMAIN s,
              \A e \in Baseline(b) : e \in S <=> at(e) \in T
       PROVE  Cardinality(S) = Cardinality(T)
  <2> DEFINE f == [e \in S |-> at(e)]
  <2>1. f \in [S -> T]
    BY <1>13
  <2>2. \A e, d \in S : f[e] = f[d] => e = d
    BY <1>10, <1>13
  <2>3. \A i \in T : \E e \in S : f[e] = i
    <3> TAKE i \in T
    <3>1. PICK e \in Baseline(b) : at(e) = i
      BY <1>11, <1>13
    <3>2. e \in S
      BY <1>13, <3>1
    <3> QED
      BY <3>1, <3>2
  <2>4. f \in Injection(S, T) /\ f \in Surjection(S, T)
    <3> HIDE DEF f
    <3> QED
      BY <2>1, <2>2, <2>3 DEF Injection, IsInjective, Surjection
  <2>5. IsFiniteSet(T)
    BY <1>12, <1>13, FS_Subset
  <2> QED
    BY <2>4, <2>5, FS_Injection
<1>14. Cardinality(Baseline(b)) = Len(s)
  BY <1>9, <1>12, <1>13
<1>15. Cardinality(Better(b)) = Cardinality(Above(s, x))
  <2>1. Better(b) \subseteq Baseline(b) /\ Above(s, x) \subseteq DOMAIN s
    BY <1>5 DEF Above
  <2>2. \A e \in Baseline(b) : e \in Better(b) <=> at(e) \in Above(s, x)
    BY <1>5, <1>9 DEF Above
  <2> QED
    BY <1>13, <2>1, <2>2
<1> QED
  BY <1>3, <1>14, <1>15 DEF s, x

-----------------------------------------------------------------------------
(* A tailer starts only when no other is left.                             *)
Sole == \A t, u \in Tailers : session[t].at # "off" /\ session[u].at # "off" => t = u

(* Only builds that have begun have rows, and none after the one a tailer  *)
(* reads: a build's row is made when no later one is.                      *)
RowsBegun == \A b \in Builds : rows[b].measured # 0 => b <= file.build
NoLaterRow ==
  \A t \in Tailers : session[t].at = "reading" /\ session[t].offset > 0 =>
    \A b \in Builds : rows[b].measured # 0 => b <= session[t].read

AlertInv == Sole /\ RowsBegun /\ NoLaterRow /\ AlertIsJustified

LEMMA AlertInvInit == Init => AlertInv
<1> SUFFICES ASSUME Init PROVE AlertInv
  OBVIOUS
<1>1. /\ \A t \in Tailers : session[t] = Closed
      /\ \A b \in Builds : rows[b] = NoRow /\ b # 0
  BY IngestAssumption DEF Init, Builds
<1> QED
  BY <1>1 DEF AlertInv, Sole, RowsBegun, NoLaterRow, AlertIsJustified, Closed, NoRow

LEMMA SoleStep ==
  ASSUME Prompt, IngestInv, Sole, [Next]_vars
  PROVE  Sole'
<1>1. session \in [Tailers -> Session] /\ Off \notin Tailers
  BY IngestAssumption DEF IngestInv, IngestTypeOK
<1>2. ASSUME \A t \in Tailers : session'[t].at # "off" => session[t].at # "off"
      PROVE  Sole'
  BY <1>2 DEF Sole
<1>3. ASSUME UNCHANGED session PROVE Sole'
  BY <1>3 DEF Sole
<1>4. ASSUME Reconcile PROVE Sole'
  <2>1. ASSUME NEW t \in Tailers, tails = Off, session' = [session EXCEPT ![t].at = "opening"]
        PROVE  Sole'
    <3>1. \A u \in Tailers : session[u].at = "off"
      BY <1>1, <1>4, <2>1 DEF Reconcile, Gone, IngestInv, OneTailer
    <3>2. \A u \in Tailers : u # t => session'[u].at = "off"
      BY <1>1, <2>1, <3>1
    <3> QED
      BY <3>2 DEF Sole
  <2>2. ASSUME Stop PROVE Sole'
    <3>1. \A t \in Tailers : session'[t].at = session[t].at
      BY <1>1, <2>2 DEF Stop, Session
    <3> QED
      BY <1>2, <3>1
  <2> QED
    BY <1>3, <1>4, <2>1, <2>2 DEF Reconcile, Watch, Idle
<1>5. ASSUME NEW t \in Tailers, Open(t) \/ Read(t) \/ Supervise(t) \/ Return(t) \/ Delete(t) \/ Rewind(t)
      PROVE  Sole'
  <2>1. session[t].at # "off" /\ \A u \in Tailers : u # t => session'[u] = session[u]
    BY <1>1, <1>5 DEF Open, Read, Supervise, Return, Delete, Rewind
  <2> QED
    BY <1>2, <2>1
<1>6. ASSUME Shutdown PROVE Sole'
  <2>1. \A t \in Tailers : session'[t].at = session[t].at
    BY <1>1, <1>6 DEF Shutdown, Session
  <2> QED
    BY <1>2, <2>1
<1>7. ASSUME Restart PROVE Sole'
  <2>1. \A t \in Tailers : session'[t].at = "off"
    BY <1>7 DEF Restart, Closed
  <2> QED
    BY <2>1 DEF Sole
<1> QED
  BY <1>3, <1>4, <1>5, <1>6, <1>7 DEF Next, Follow, vars, Launch, Truncate, Write, Exit, Discover, GraceElapses

(* The alert of one build, and what it depends on.                         *)
Justified(b) ==
  rows[b].measured = b /\ RatioOf(b) # None /\ Processes(CountsOf[b]) >= MinProcs =>
    LET better == 2 * Cardinality(Better(b))
        all == Cardinality(Baseline(b))
    IN /\ better > all => rows[b].alert = "cache_busting_suspected"
       /\ rows[b].alert = "cache_busting_suspected" => better >= all

LEMMA SameBaseline ==
  ASSUME NEW b \in Builds, \A c \in 1 .. b - 1 : rows'[c] = rows[c]
  PROVE  Baseline(b)' = Baseline(b) /\ Better(b)' = Better(b)
<1>1. Earlier(b)' = Earlier(b)
  BY DEF Earlier
<1>2. Baseline(b)' = Baseline(b)
  BY <1>1 DEF Baseline
<1>3. \A c \in Baseline(b) : c > 0 => rows'[c] = rows[c]
  <2>1. \A c \in Baseline(b) : c \in Earlier(b) \/ \E j \in DOMAIN Past : c = -j
    BY DEF Baseline
  <2>2. \A j \in DOMAIN Past : ~(-j > 0)
    <3>1. Past \in History
      BY IngestAssumption DEF History
    <3>2. DOMAIN Past = 1 .. Len(Past) /\ Len(Past) \in Nat
      BY <3>1, Entries
    <3> QED
      BY <3>2
  <2>3. \A c \in Earlier(b) : rows'[c] = rows[c]
    BY DEF Earlier
  <2> QED
    BY <2>1, <2>2, <2>3
<1>4. Better(b)' = Better(b)
  BY <1>2, <1>3 DEF Better
<1> QED
  BY <1>2, <1>4

(* The row of a build is judged against the rows of the builds before it.  *)
LEMMA RowIsJustified ==
  ASSUME IngestInv, NEW b \in Builds, NEW s \in Stream, s.id = b, s.measured \in {0, b},
         \A c \in Builds : rows[c].measured # 0 => c <= b,
         rows' = [rows EXCEPT ![b] = RowOf(s)]
  PROVE  Justified(b)'
<1> SUFFICES ASSUME rows'[b].measured = b, RatioOf(b) # None, Processes(CountsOf[b]) >= MinProcs
             PROVE  /\ 2 * Cardinality(Better(b)') > Cardinality(Baseline(b)')
                         => rows'[b].alert = "cache_busting_suspected"
                    /\ rows'[b].alert = "cache_busting_suspected"
                         => 2 * Cardinality(Better(b)') >= Cardinality(Baseline(b)')
  BY DEF Justified
<1>1. /\ rows \in [Builds -> Row] /\ b \in Int /\ b > 0 /\ b \in 0 .. Last
      /\ \A c \in Builds : c \in Int
  BY IngestAssumption DEF IngestInv, IngestTypeOK, Builds
<1>2. rows'[b] = RowOf(s) /\ \A c \in Builds \ {b} : rows'[c] = rows[c]
  BY <1>1
<1>3. s.measured = b /\ rows'[b].alert = AlertOf(s)
  BY <1>2 DEF RowOf
<1>4. rows'[b].alert = EvaluateAlert(RatioOf(b), Processes(CountsOf[b]), Recent(b))
  BY <1>3 DEF AlertOf
<1>5. Rated(b) = Earlier(b)
  <2>1. RatioOf(0) = None
    BY DEF RatioOf
  <2>2. \A c \in Builds : RatioOf(rows[c].measured) # None => c <= b
    BY <2>1
  <2>3. \A c : c \in Builds \ {b} /\ c <= b <=> c \in 1 .. b - 1
    BY <1>1, IngestAssumption DEF Builds
  <2> QED
    BY <2>2, <2>3 DEF Rated, Earlier
<1>6. /\ Recent(b) \in History
      /\ Cardinality(Baseline(b)) = Len(Recent(b))
      /\ Cardinality(Better(b)) = Cardinality(Above(Recent(b), RatioOf(b) + Delta))
  BY <1>1, <1>5, SameMajority
<1>7. RatioOf(b) \in 0 .. 100 /\ Processes(CountsOf[b]) \in Int
  BY <1>1, RatioTyped
<1>8. Baseline(b)' = Baseline(b) /\ Better(b)' = Better(b)
  <2>1. \A c \in 1 .. b - 1 : c \in Builds \ {b}
    BY <1>1, IngestAssumption DEF Builds
  <2> QED
    BY <1>2, <2>1, SameBaseline
<1>9. RatioOf(b) \in Int
  BY <1>7
<1>10. /\ 2 * Cardinality(Above(Recent(b), RatioOf(b) + Delta)) > Len(Recent(b))
            => rows'[b].alert = "cache_busting_suspected"
       /\ rows'[b].alert = "cache_busting_suspected"
            => 2 * Cardinality(Above(Recent(b), RatioOf(b) + Delta)) >= Len(Recent(b))
  BY <1>4, <1>6, <1>7, <1>9, AlertByMajority
<1> QED
  BY <1>6, <1>8, <1>10

(* A finalized stream changes no row but its own, of which no later build  *)
(* has one yet.                                                            *)
LEMMA FinalizeAlert ==
  ASSUME IngestInv, AlertInv, NEW t \in Tailers, Finalize(stream[t]), stream[t].id # 0,
         session[t].at = "reading"
  PROVE  /\ AlertIsJustified' /\ stream[t].id = session[t].read /\ session[t].offset > 0
         /\ \A b \in Builds : rows'[b].measured # 0 => rows[b].measured # 0 \/ b = session[t].read
<1> DEFINE s == stream[t]
           b == session[t].read
<1>1. /\ Following(t) /\ session[t].offset > 0 /\ s \in Stream
      /\ rows \in [Builds -> Row]
  BY DEF IngestInv, IngestTypeOK, TailerOK, Empty
<1>2. b \in Builds /\ s.id = b /\ s.measured \in {0, b}
  BY <1>1, IngestAssumption DEF Following, IngestInv, IngestTypeOK, Builds
<1>3. \A c \in Builds : rows[c].measured # 0 => c <= b
  BY <1>1 DEF AlertInv, NoLaterRow
<1>4. \A c \in Builds : Justified(c)
  BY DEF AlertInv, AlertIsJustified, Justified
<1>5. rows' = rows \/ rows' = [rows EXCEPT ![b] = RowOf(s)]
  BY <1>2 DEF Finalize, metrics
<1> HIDE DEF s, b
<1>6. CASE rows' = rows
  <2>1. \A c \in Builds : Justified(c)'
    <3> TAKE c \in Builds
    <3>1. Baseline(c)' = Baseline(c) /\ Better(c)' = Better(c)
      BY <1>6, SameBaseline
    <3> QED
      BY <1>4, <1>6, <3>1 DEF Justified
  <2> QED
    BY <1>1, <1>2, <1>6, <2>1 DEF AlertIsJustified, Justified, s, b
<1>7. CASE rows' = [rows EXCEPT ![b] = RowOf(s)]
  <2>1. \A c \in Builds \ {b} : rows'[c] = rows[c]
    BY <1>1, <1>7
  <2>2. ASSUME NEW c \in Builds PROVE Justified(c)'
    <3>1. CASE c = b
      <4>1. \A e \in Builds : rows[e].measured # 0 => e <= c
        BY <1>3, <3>1
      <4>2. s.id = c /\ s.measured \in {0, c} /\ rows' = [rows EXCEPT ![c] = RowOf(s)]
        BY <1>2, <1>7, <3>1
      <4> QED
        BY <1>1, <4>1, <4>2, RowIsJustified
    <3>2. CASE c # b /\ rows[c].measured = 0
      <4>1. rows'[c].measured # c
        BY <2>1, <3>2, IngestAssumption DEF Builds
      <4> QED
        BY <4>1 DEF Justified
    <3>3. CASE c # b /\ rows[c].measured # 0
      <4>1. \A e \in 1 .. c - 1 : rows'[e] = rows[e]
        <5>1. c <= b
          BY <1>3, <3>3
        <5>2. \A e \in 1 .. c - 1 : e \in Builds \ {b}
          BY <1>2, <5>1, IngestAssumption DEF Builds
        <5> QED
          BY <2>1, <5>2
      <4>2. Baseline(c)' = Baseline(c) /\ Better(c)' = Better(c)
        BY <4>1, SameBaseline
      <4>3. rows'[c] = rows[c]
        BY <2>1, <3>3
      <4> QED
        BY <1>4, <4>2, <4>3 DEF Justified
    <3> QED
      BY <3>1, <3>2, <3>3
  <2>3. \A c \in Builds : rows'[c].measured # 0 => rows[c].measured # 0 \/ c = b
    BY <2>1
  <2> QED
    BY <1>1, <1>2, <2>2, <2>3 DEF AlertIsJustified, Justified, s, b
<1> QED
  BY <1>5, <1>6, <1>7

(* A step that makes no row keeps the alerts.                              *)
LEMMA AlertKept ==
  ASSUME IngestInv, AlertInv, rows' = rows
  PROVE  AlertIsJustified'
<1>1. \A b \in Builds : Baseline(b)' = Baseline(b) /\ Better(b)' = Better(b)
  BY SameBaseline
<1> QED
  BY <1>1 DEF AlertInv, AlertIsJustified

LEMMA AlertInvStep ==
  ASSUME Prompt, IngestInv, AlertInv, [Next]_vars
  PROVE  AlertInv'
<1>1. /\ session \in [Tailers -> Session] /\ file \in [build : 0 .. Last, size : 0 .. Len(Script)]
      /\ stream \in [Tailers -> Stream] /\ \A b \in Builds : b \in Int
      /\ file.build \in Int /\ Last \in Int
  BY IngestAssumption DEF IngestInv, IngestTypeOK, Builds
<1>2. Sole'
  BY SoleStep DEF AlertInv
<1>3. ASSUME UNCHANGED <<rows, session>>, file' = file \/ file'.build = file.build \/ file'.build = file.build + 1
      PROVE  AlertInv'
  <2>1. RowsBegun'
    BY <1>1, <1>3 DEF AlertInv, RowsBegun
  <2> QED
    BY <1>2, <1>3, <2>1, AlertKept DEF AlertInv, NoLaterRow
<1>4. ASSUME UNCHANGED <<rows, file>>,
             \A t \in Tailers : session'[t].at = "reading" /\ session'[t].offset > 0 =>
               session[t].at = "reading" /\ session[t].offset > 0 /\ session'[t].read = session[t].read
      PROVE  AlertInv'
  <2>1. NoLaterRow'
    BY <1>4 DEF AlertInv, NoLaterRow
  <2> QED
    BY <1>2, <1>4, <2>1, AlertKept DEF AlertInv, RowsBegun
<1>5. ASSUME Launch \/ Truncate \/ Write \/ Exit \/ Discover \/ GraceElapses
      PROVE  AlertInv'
  <2>1. UNCHANGED <<rows, session>>
    BY <1>5 DEF Launch, Truncate, Write, Exit, Discover, GraceElapses, metrics
  <2>2. file' = file \/ file'.build = file.build \/ file'.build = file.build + 1
    BY <1>1, <1>5 DEF Launch, Truncate, Write, Exit, Discover, GraceElapses, world
  <2> QED
    BY <1>3, <2>1, <2>2
<1>6. ASSUME Reconcile PROVE AlertInv'
  <2>1. UNCHANGED <<rows, file>>
    BY <1>6 DEF Reconcile, world, metrics
  <2>2. ASSUME NEW t \in Tailers, session'[t].at = "reading", session'[t].offset > 0
        PROVE  session[t].at = "reading" /\ session[t].offset > 0 /\ session'[t].read = session[t].read
    <3>1. CASE session' = session
      BY <2>2, <3>1
    <3>2. ASSUME NEW u \in Tailers, session' = [session EXCEPT ![u].at = "opening"]
          PROVE  session'[t] = session[t]
      <4>1. session'[u].at = "opening"
        BY <1>1, <3>2 DEF Session
      <4>2. t # u
        BY <2>2, <4>1
      <4> QED
        BY <1>1, <3>2, <4>2
    <3>3. ASSUME session' = [session EXCEPT ![tails].cancelled = TRUE]
          PROVE  /\ session'[t].at = session[t].at /\ session'[t].offset = session[t].offset
                 /\ session'[t].read = session[t].read
      BY <1>1, <3>3 DEF Session
    <3>4. \/ session' = session
          \/ \E u \in Tailers : session' = [session EXCEPT ![u].at = "opening"]
          \/ session' = [session EXCEPT ![tails].cancelled = TRUE]
      BY <1>6 DEF Reconcile, Watch, Idle, Stop
    <3> QED
      BY <2>2, <3>1, <3>2, <3>3, <3>4
  <2> QED
    BY <1>4, <2>1, <2>2
<1>7. ASSUME Shutdown PROVE AlertInv'
  <2>1. UNCHANGED <<rows, file>>
    BY <1>7 DEF Shutdown, world, metrics
  <2>2. ASSUME NEW t \in Tailers, session'[t].at = "reading", session'[t].offset > 0
        PROVE  session[t].at = "reading" /\ session[t].offset > 0 /\ session'[t].read = session[t].read
    BY <1>1, <1>7, <2>2 DEF Shutdown, Session
  <2> QED
    BY <1>4, <2>1, <2>2
<1>8. ASSUME Restart PROVE AlertInv'
  <2>1. UNCHANGED <<rows, file>> /\ \A t \in Tailers : session'[t].at = "off"
    BY <1>8 DEF Restart, world, metrics, Closed
  <2> QED
    BY <1>4, <2>1
<1>9. ASSUME NEW t \in Tailers, Open(t) \/ Supervise(t) \/ Delete(t) \/ Rewind(t)
      PROVE  AlertInv'
  <2>1. UNCHANGED <<rows, file>>
    BY <1>9 DEF Open, Supervise, Delete, Rewind, world, metrics
  <2>2. ASSUME NEW u \in Tailers, session'[u].at = "reading", session'[u].offset > 0
        PROVE  session[u].at = "reading" /\ session[u].offset > 0 /\ session'[u].read = session[u].read
    <3>1. CASE u # t
      BY <1>1, <1>9, <2>2, <3>1 DEF Open, Supervise, Delete, Rewind
    <3>2. CASE u = t
      <4>1. CASE Open(t)
        <5>1. session'[t].offset = 0
          BY <1>1, <4>1 DEF Open, Closed
        <5> QED
          BY <2>2, <3>2, <5>1
      <4>2. CASE Delete(t)
        <5>1. session'[t].at = "off"
          BY <1>1, <4>2 DEF Delete, Closed
        <5> QED
          BY <2>2, <3>2, <5>1
      <4>3. CASE Supervise(t) \/ Rewind(t)
        BY <1>1, <2>2, <3>2, <4>3, ZenonT(30) DEF Supervise, Rewind, Session
      <4> QED
        BY <1>9, <4>1, <4>2, <4>3
    <3> QED
      BY <3>1, <3>2
  <2> QED
    BY <1>4, <2>1, <2>2
<1>10. ASSUME NEW t \in Tailers, session[t].at = "reading", file' = file, AlertIsJustified',
              \A b \in Builds : rows'[b].measured # 0 => rows[b].measured # 0 \/ b = session[t].read,
              session[t].read <= file.build,
              \A u \in Tailers : u # t => session'[u].at = session[u].at,
              session'[t].at = "reading" /\ session'[t].offset > 0 => session'[t].read = file.build
       PROVE  AlertInv'
  <2>1. RowsBegun'
    BY <1>10 DEF AlertInv, RowsBegun
  <2>2. NoLaterRow'
    <3> SUFFICES ASSUME NEW u \in Tailers, session'[u].at = "reading", session'[u].offset > 0,
                        NEW b \in Builds, rows'[b].measured # 0
                 PROVE  b <= session'[u].read
      BY DEF NoLaterRow
    <3>1. u = t
      BY <1>10 DEF AlertInv, Sole
    <3>2. b <= file.build
      BY <1>10, <2>1 DEF RowsBegun
    <3> QED
      BY <1>10, <3>1, <3>2
  <2> QED
    BY <1>2, <1>10, <2>1, <2>2 DEF AlertInv
<1>11. ASSUME NEW t \in Tailers, Return(t) PROVE AlertInv'
  <2>1. /\ session[t].at = "reading" /\ file' = file /\ Finalize(stream[t])
        /\ session'[t].at # "reading"
        /\ \A u \in Tailers : u # t => session'[u] = session[u]
    BY <1>1, <1>11 DEF Return, world, Closed, Session
  <2>2. CASE stream[t].id = 0
    <3>1. rows' = rows
      BY <2>1, <2>2 DEF Finalize, Finalizes, metrics
    <3> QED
      BY <1>4, <2>1, <3>1
  <2>3. CASE stream[t].id # 0
    <3>1. /\ AlertIsJustified'
          /\ \A b \in Builds : rows'[b].measured # 0 => rows[b].measured # 0 \/ b = session[t].read
          /\ session[t].offset > 0
      BY <2>1, <2>3, FinalizeAlert
    <3>2. session[t].read <= file.build
      BY <1>1, <2>1, <3>1 DEF IngestInv, TailerOK, Following
    <3> QED
      BY <1>10, <2>1, <3>1, <3>2
  <2> QED
    BY <2>2, <2>3
<1>12. ASSUME NEW t \in Tailers, Read(t) PROVE AlertInv'
  <2>1. /\ session[t].at = "reading" /\ file' = file
        /\ session'[t].read = file.build
        /\ Dispatch(t, Script[session[t].pos + 1], file.build)
        /\ \A u \in Tailers : u # t => session'[u] = session[u]
    BY <1>1, <1>12 DEF Read, world, Session
  <2>2. session'[t].read = file.build /\ session[t].read \in Int
    BY <1>1, <2>1 DEF Session
  <2>3. CASE rows' = rows
    <3>1. NoLaterRow'
      <4> SUFFICES ASSUME NEW u \in Tailers, session'[u].at = "reading", session'[u].offset > 0,
                          NEW b \in Builds, rows[b].measured # 0
                   PROVE  b <= session'[u].read
        BY <2>3 DEF NoLaterRow
      <4>1. u = t
        BY <2>1 DEF AlertInv, Sole
      <4> QED
        BY <2>1, <4>1 DEF AlertInv, RowsBegun
    <3>2. RowsBegun'
      BY <2>1, <2>3 DEF AlertInv, RowsBegun
    <3> QED
      BY <1>2, <2>3, <3>1, <3>2, AlertKept DEF AlertInv
  <2>4. CASE rows' # rows
    <3>1. Finalize(stream[t]) /\ stream[t].id # 0
      BY <2>1, <2>4 DEF Dispatch, Started, Pattern, TestResult, Finished, BuildMetrics, LastMessage,
         Finalize, Finalizes, metrics
    <3>2. /\ AlertIsJustified'
          /\ \A b \in Builds : rows'[b].measured # 0 => rows[b].measured # 0 \/ b = session[t].read
          /\ session[t].offset > 0
      BY <2>1, <3>1, FinalizeAlert
    <3>3. session[t].read <= file.build
      BY <1>1, <2>1, <3>2 DEF IngestInv, TailerOK, Following
    <3> QED
      BY <1>10, <2>1, <3>2, <3>3
  <2> QED
    BY <2>3, <2>4
<1>13. CASE UNCHANGED vars
  BY <1>3, <1>13 DEF vars, world, metrics
<1> QED
  BY <1>5, <1>6, <1>7, <1>8, <1>9, <1>11, <1>12, <1>13 DEF Next, Follow

(* The alert of every row goes by the majority of the builds before it,    *)
(* whenever the tailers restart and whatever is read twice.                *)
THEOREM AlertsAreJustified == ASSUME Prompt PROVE Spec => []AlertIsJustified
<1>1. IngestInv /\ AlertInv /\ [Next]_vars => AlertInv'
  BY AlertInvStep
<1>2. AlertInv => AlertIsJustified
  BY DEF AlertInv
<1> QED
  BY <1>1, <1>2, AlertInvInit, IngestInvariant, PTL DEF Spec
=============================================================================
