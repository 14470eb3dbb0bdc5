------------------------------- MODULE KillProofs -------------------------------
(***************************************************************************)
(* What a kill request answers is true of the build it was asked to kill,  *)
(* and processes that took over a pid are spared, for any number of        *)
(* requests, reconcile passes, processes and pids.                         *)
(***************************************************************************)
EXTENDS Kill, RegistryProofs

Climbing == {"probe", "signal", "grace", "force", "settle"}
Working == Climbing \cup {"guard"}

(* A pid belongs to a bazel or to another process, not to both.            *)
PidsExclusive == \A p \in Pids : BazelAt(p) # {} => other[p] = "none"

(* A request at work on a pid has no answer yet, and its victim had the    *)
(* pid; past the guard no stranger can have it, if pids are reused slowly. *)
RequestOK(k) ==
  /\ kpc[k] # "idle" => outcome[k] = None
  /\ kpc[k] \in {"freshen", "pass"} => victim[k] = None /\ wanted[k] \in Keys
  /\ kpc[k] \in Working =>
       /\ pid[k] \in Pids
       /\ victim[k] # None => PidOf[victim[k]] = pid[k] /\ process[victim[k]] # "unborn"
  /\ outcome[k] \in Dead /\ victim[k] # None => process[victim[k]] = "dead"
  /\ SlowReuse /\ kpc[k] \in Climbing /\ expect[k] => other[pid[k]] # "ours"

KillInv == KillTypeOK /\ PidsExclusive /\ \A k \in Killers : RequestOK(k)

(* A step by which processes end, and none starts.                         *)
Fading ==
  /\ TypeOK'
  /\ \A z \in Bazels : process'[z] = process[z] \/ (process[z] = "live" /\ process'[z] = "dead")
  /\ other' \in [Pids -> {"none", "ours", "foreign"}]
  /\ \A p \in Pids : other'[p] \in {other[p], "none"}

LEMMA KillInitInv == KillInit => KillInv
BY TypeInit, Kinds DEF KillInit, KillInv, KillTypeOK, PidsExclusive, RequestOK, BazelAt, Live, Init,
   Places, Dead, Refused, Working, Climbing

LEMMA FadingExclusive ==
  ASSUME KillInv, Fading
  PROVE  PidsExclusive'
BY DEF KillInv, KillTypeOK, TypeOK, Fading, PidsExclusive, BazelAt, Live

(* What a step of another request or of a process leaves alone.            *)
LEMMA RequestKept ==
  ASSUME KillInv, Fading, NEW j \in Killers,
         kpc'[j] = kpc[j], wanted'[j] = wanted[j], pid'[j] = pid[j], expect'[j] = expect[j],
         victim'[j] = victim[j], outcome'[j] = outcome[j]
  PROVE  RequestOK(j)'
<1>1. RequestOK(j)
  BY DEF KillInv
<1>2. victim[j] \in Bazels \cup {None} /\ process \in [Bazels -> {"unborn", "live", "dead"}]
  BY DEF KillInv, KillTypeOK, TypeOK
<1>3. victim[j] # None =>
        /\ process[victim[j]] # "unborn" => process'[victim[j]] # "unborn"
        /\ process[victim[j]] = "dead" => process'[victim[j]] = "dead"
  BY <1>2 DEF Fading
<1>4. pid[j] \in Pids /\ other[pid[j]] # "ours" => other'[pid[j]] # "ours"
  BY DEF Fading
<1> QED
  BY <1>1, <1>3, <1>4 DEF RequestOK, Working

-----------------------------------------------------------------------------
(* An answer, and a step up the ladder.                                    *)
LEMMA AnswerKeeps ==
  ASSUME KillInv, Fading, exe' = exe, NEW k \in Killers, NEW o \in Dead \cup Refused, Answer(k, o),
         o \in Dead /\ victim[k] # None => process'[victim[k]] = "dead"
  PROVE  KillInv'
<1>1. KillTypeOK'
  BY DEF KillInv, KillTypeOK, Fading, Answer, Places
<1>2. ASSUME NEW j \in Killers PROVE RequestOK(j)'
  <2>1. CASE j = k
    BY <2>1 DEF KillInv, KillTypeOK, Answer, RequestOK, Working, Climbing
  <2>2. CASE j # k
    BY <2>2, RequestKept DEF KillInv, KillTypeOK, Answer
  <2> QED
    BY <2>1, <2>2
<1> QED
  BY <1>1, <1>2, FadingExclusive DEF KillInv

LEMMA ClimbKeeps ==
  ASSUME KillInv, Fading, exe' = exe, NEW k \in Killers, kpc[k] \in Working,
         NEW p \in Climbing, Climb(k, p),
         SlowReuse /\ expect[k] => other'[pid[k]] # "ours"
  PROVE  KillInv'
<1>1. KillTypeOK'
  BY DEF KillInv, KillTypeOK, Fading, Climb, Places, Climbing
<1>2. kpc'[k] = p /\ UNCHANGED <<pid, expect, victim, outcome>>
  BY DEF KillInv, KillTypeOK, Climb
<1>3. RequestOK(k)'
  <2>1. RequestOK(k) /\ kpc[k] # "idle" /\ victim[k] \in Bazels \cup {None}
    BY DEF KillInv, KillTypeOK, Working, Climbing
  <2>2. victim[k] # None /\ process[victim[k]] # "unborn" => process'[victim[k]] # "unborn"
    BY <2>1 DEF Fading, KillInv, KillTypeOK, TypeOK
  <2>3. outcome[k] = None /\ None \notin Dead
    BY <2>1, KillAssumption DEF RequestOK
  <2> QED
    BY <1>2, <2>1, <2>2, <2>3 DEF RequestOK, Working, Climbing
<1>4. ASSUME NEW j \in Killers, j # k PROVE RequestOK(j)'
  BY <1>4, RequestKept DEF KillInv, KillTypeOK, Climb
<1> QED
  BY <1>1, <1>3, <1>4, FadingExclusive DEF KillInv

-----------------------------------------------------------------------------
(* No process starts or ends.                                              *)
LEMMA QuietFades ==
  ASSUME KillTypeOK, UNCHANGED <<builds, store, out, sending, passVars, process, other>>
  PROVE  Fading
BY DEF KillTypeOK, TypeOK, Fading, passVars

LEMMA SignalFades ==
  ASSUME KillTypeOK, NEW k \in Killers, pid[k] \in Pids, Signal(k), Untouched
  PROVE  Fading /\ (other[pid[k]] # "ours" => other'[pid[k]] # "ours")
<1>1. CASE UNCHANGED <<process, other>>
  BY <1>1, QuietFades DEF Untouched
<1>2. CASE /\ process' = [z \in Bazels |-> IF z \in BazelAt(pid[k]) THEN "dead" ELSE process[z]]
           /\ other' = [other EXCEPT ![pid[k]] = IF @ = "ours" THEN "none" ELSE @]
  BY <1>2 DEF Untouched, KillTypeOK, TypeOK, Fading, BazelAt, Live, passVars
<1> QED
  BY <1>1, <1>2 DEF Signal

(* If nobody has the pid, the build that had it is dead.                   *)
LEMMA NobodyMeansDead ==
  ASSUME KillInv, NEW k \in Killers, kpc[k] \in Working, Nobody(pid[k]), victim[k] # None
  PROVE  process[victim[k]] = "dead"
BY DEF KillInv, KillTypeOK, TypeOK, RequestOK, Nobody, BazelAt, Live

LEMMA AskKeeps ==
  ASSUME KillInv, NEW k \in Killers, NEW b \in Keys, Ask(k, b)
  PROVE  KillInv'
<1>1. Fading /\ exe' = exe
  BY QuietFades DEF Ask, KillInv, vars
<1>2. KillTypeOK'
  BY <1>1 DEF KillInv, KillTypeOK, Fading, Ask, Places
<1>3. RequestOK(k)'
  BY KillAssumption DEF Ask, KillInv, KillTypeOK, RequestOK, Working, Climbing
<1>4. ASSUME NEW j \in Killers, j # k PROVE RequestOK(j)'
  BY <1>1, <1>4, RequestKept DEF KillInv, KillTypeOK, Ask
<1> QED
  BY <1>1, <1>2, <1>3, <1>4, FadingExclusive DEF KillInv

LEMMA FreshenKeeps ==
  ASSUME KillInv, NEW k \in Killers, Freshen(k)
  PROVE  KillInv'
<1>1. k \in Passes
  BY KillAssumption
<1>2. TypeOK'
  BY <1>1, TypeStep DEF KillInv, KillTypeOK, Freshen, Next, Quiet, Reconcile
<1>3. Fading /\ exe' = exe
  BY <1>2 DEF Fading, Freshen, Scan, KillInv, KillTypeOK, TypeOK, vars
<1>4. KillTypeOK'
  BY <1>3 DEF KillInv, KillTypeOK, Fading, Freshen, Climb, Places
<1>5. RequestOK(k)'
  <2>1. RequestOK(k) /\ kpc[k] = "freshen" /\ kpc'[k] = "pass"
        /\ UNCHANGED <<wanted, victim, outcome>>
    BY DEF KillInv, KillTypeOK, Freshen, Climb
  <2> QED
    BY <2>1, KillAssumption DEF RequestOK, Working, Climbing
<1>6. ASSUME NEW j \in Killers, j # k PROVE RequestOK(j)'
  BY <1>3, <1>6, RequestKept DEF KillInv, KillTypeOK, Freshen, Climb
<1> QED
  BY <1>3, <1>4, <1>5, <1>6, FadingExclusive DEF KillInv

LEMMA LookupKeeps ==
  ASSUME KillInv, NEW k \in Killers, Lookup(k)
  PROVE  KillInv'
<1> DEFINE b == builds[wanted[k]]
<1>1. Fading /\ exe' = exe
  BY QuietFades DEF Lookup, Untouched, KillInv
<1>2. CASE Answer(k, "not_found") \/ Answer(k, "no_pid")
  BY <1>1, <1>2, AnswerKeeps DEF Dead, Refused
<1>3. CASE Known(b) /\ b.pid # None /\ Found(k, b)
  <2>1. wanted[k] \in Keys /\ b.pid \in Pids
    <3>1. wanted[k] \in Keys \cup {None} /\ builds \in [Keys -> Build]
      BY DEF KillInv, KillTypeOK, TypeOK
    <3>2. wanted[k] \in Keys
      BY DEF KillInv, Lookup, RequestOK
    <3> QED
      BY <3>1, <3>2, <1>3 DEF Build
  <2>2. KillTypeOK'
    BY <1>1, <1>3, <2>1 DEF KillInv, KillTypeOK, Fading, Found, Places, BazelAt, Live
  <2>3. RequestOK(k)'
    <3>1. /\ RequestOK(k) /\ kpc[k] = "pass" /\ victim[k] = None /\ outcome[k] = None
      BY DEF Lookup, KillInv, RequestOK
    <3>2. /\ kpc'[k] = "guard" /\ pid'[k] = b.pid /\ outcome' = outcome
          /\ process' = process
      BY <1>3 DEF Found, Lookup, KillInv, KillTypeOK
    <3>3. victim'[k] = None \/ victim'[k] \in BazelAt(b.pid)
      BY <1>3, <3>1 DEF Found, KillInv, KillTypeOK
    <3> QED
      BY <3>1, <3>2, <3>3, <2>1, KillAssumption DEF RequestOK, Working, Climbing, BazelAt, Live
  <2>4. ASSUME NEW j \in Killers, j # k PROVE RequestOK(j)'
    BY <1>1, <1>3, <2>4, RequestKept DEF KillInv, KillTypeOK, Found
  <2> QED
    BY <1>1, <2>2, <2>3, <2>4, FadingExclusive DEF KillInv
<1> QED
  BY <1>2, <1>3 DEF Lookup

LEMMA GuardKeeps ==
  ASSUME KillInv, NEW k \in Killers, Guard(k)
  PROVE  KillInv'
<1>1. Fading /\ exe' = exe /\ other' = other /\ process' = process
  BY QuietFades DEF Guard, Untouched, KillInv
<1>2. kpc[k] = "guard" /\ kpc[k] \in Working /\ pid[k] \in Pids
  BY DEF Guard, KillInv, RequestOK, Working
<1>3. CASE (~expect[k] \/ BazelAt(pid[k]) # {}) /\ Climb(k, "probe")
  <2>1. expect[k] => other[pid[k]] # "ours"
    BY <1>2, <1>3 DEF KillInv, PidsExclusive
  <2> QED
    BY <1>1, <1>2, <1>3, <2>1, ClimbKeeps DEF Climbing
<1>4. CASE Nobody(pid[k]) /\ Answer(k, "already_gone")
  BY <1>1, <1>2, <1>4, NobodyMeansDead, AnswerKeeps DEF Dead
<1>5. CASE Answer(k, "error")
  BY <1>1, <1>5, AnswerKeeps DEF Dead, Refused
<1> QED
  BY <1>3, <1>4, <1>5 DEF Guard

(* The places past the guard.                                              *)
LEMMA LadderKeeps ==
  ASSUME KillInv, NEW k \in Killers,
         Probe(k) \/ Interrupt(k) \/ GraceEnds(k) \/ Kill(k) \/ Settle(k)
  PROVE  KillInv'
<1>1. /\ kpc[k] \in Climbing /\ kpc[k] \in Working /\ pid[k] \in Pids
      /\ SlowReuse /\ expect[k] => other[pid[k]] # "ours"
  BY DEF Probe, Interrupt, GraceEnds, Kill, Settle, KillInv, RequestOK, Working, Climbing
<1>2. Fading /\ exe' = exe /\ (other[pid[k]] # "ours" => other'[pid[k]] # "ours")
  BY <1>1, SignalFades, QuietFades
     DEF Probe, Interrupt, GraceEnds, Kill, Settle, Untouched, KillInv
<1>3. ASSUME NEW p \in Climbing, Climb(k, p) PROVE KillInv'
  BY <1>1, <1>2, <1>3, ClimbKeeps
<1>4. ASSUME NEW o \in Dead, Answer(k, o), Nobody(pid[k]), UNCHANGED process PROVE KillInv'
  BY <1>1, <1>2, <1>4, NobodyMeansDead, AnswerKeeps
<1>5. ASSUME Answer(k, "error") PROVE KillInv'
  BY <1>2, <1>5, AnswerKeeps DEF Dead, Refused
<1>6. CASE Probe(k)
  BY <1>3, <1>4, <1>6 DEF Probe, Dead, Climbing
<1>7. CASE Interrupt(k)
  BY <1>3, <1>7 DEF Interrupt, Climbing
<1>8. CASE GraceEnds(k)
  BY <1>3, <1>4, <1>8 DEF GraceEnds, Dead, Climbing
<1>9. CASE Kill(k)
  BY <1>3, <1>4, <1>5, <1>9 DEF Kill, Dead, Climbing
<1>10. CASE Settle(k)
  BY <1>4, <1>5, <1>10 DEF Settle, Dead
<1> QED
  BY <1>6, <1>7, <1>8, <1>9, <1>10

-----------------------------------------------------------------------------
(* Steps that no request takes leave every request as it is.               *)
LEMMA AsideKeeps ==
  ASSUME KillInv, Fading, exe' \in [Keys -> BOOLEAN], UNCHANGED killVars
  PROVE  KillInv'
<1>1. KillTypeOK'
  BY DEF KillInv, KillTypeOK, Fading, killVars
<1>2. ASSUME NEW j \in Killers PROVE RequestOK(j)'
  BY <1>2, RequestKept DEF killVars
<1> QED
  BY <1>1, <1>2, FadingExclusive DEF KillInv

LEMMA StartsKeeps ==
  ASSUME KillInv, NEW z \in Bazels, MayTake(PidOf[z]), Starts(z), UNCHANGED <<exe, other, killVars>>
  PROVE  KillInv'
<1>1. TypeOK'
  BY TypeStep DEF KillInv, KillTypeOK, Next, Quiet
<1>2. KillTypeOK'
  BY <1>1 DEF KillInv, KillTypeOK, killVars
<1>3. process' = [process EXCEPT ![z] = "live"] /\ process[z] = "unborn" /\ process \in [Bazels -> {"unborn", "live", "dead"}]
  BY DEF Starts, KillInv, KillTypeOK, TypeOK
<1>4. PidsExclusive'
  BY <1>3 DEF KillInv, PidsExclusive, BazelAt, Live, MayTake
<1>5. ASSUME NEW j \in Killers PROVE RequestOK(j)'
  <2>1. RequestOK(j) /\ victim[j] \in Bazels \cup {None}
    BY DEF KillInv, KillTypeOK
  <2>2. \A y \in Bazels : process[y] # "unborn" => process'[y] = process[y]
    BY <1>3
  <2> QED
    BY <2>1, <2>2 DEF RequestOK, killVars
<1> QED
  BY <1>2, <1>4, <1>5 DEF KillInv

LEMMA RegistryKeeps ==
  ASSUME KillInv, RegistryStep
  PROVE  KillInv'
<1>1. Killers \subseteq Passes /\ other' = other /\ UNCHANGED killVars
  BY KillAssumption DEF RegistryStep
<1>2. exe' \in [Keys -> BOOLEAN]
  <2>1. exe \in [Keys -> BOOLEAN]
    BY DEF KillInv, KillTypeOK
  <2>2. CASE exe' = exe
    BY <2>1, <2>2
  <2>3. CASE \E g \in Passes, z \in Bazels : MergeExe(g, z)
    BY <2>1, <2>3 DEF MergeExe
  <2> QED
    BY <1>1, <2>2, <2>3 DEF RegistryStep, Tick, PassStep
<1>3. CASE \E g \in Passes : Tick(g)
  <2>1. Reconcile(CHOOSE g \in Passes : Tick(g)) /\ process' = process
    BY <1>3 DEF Tick, PassStep, MergeExe, Reconcile, Scan, Merge, SkipUnresolved, Reap
  <2>2. TypeOK'
    BY <1>3, <2>1, TypeStep DEF KillInv, KillTypeOK, Next, Quiet
  <2> QED
    BY <1>1, <1>2, <2>1, <2>2, AsideKeeps DEF Fading, KillInv, KillTypeOK
<1>4. CASE \/ \E g \in Goroutines : Persist(g) \/ Broadcast(g)
           \/ \E g \in Requests, z \in Bazels : Register(g, z) \/ Deregister(g, z)
           \/ \E z \in Bazels : BepStarted(z) \/ BepFinalize(z)
  <2>1. TypeOK'
    BY <1>4, TypeStep DEF KillInv, KillTypeOK, Next, Quiet
  <2>2. process' = process
    BY <1>4 DEF Persist, Broadcast, Register, Deregister, BepStarted, BepFinalize
  <2> QED
    BY <1>1, <1>2, <2>1, <2>2, AsideKeeps DEF Fading, KillInv, KillTypeOK
<1>5. ASSUME NEW z \in Bazels, Ends(z) PROVE KillInv'
  <2>1. TypeOK'
    BY <1>5, TypeStep DEF KillInv, KillTypeOK, Next, Quiet
  <2>2. Fading
    BY <1>1, <1>5, <2>1 DEF Fading, Ends, KillInv, KillTypeOK, TypeOK
  <2> QED
    BY <1>1, <1>2, <2>2, AsideKeeps
<1>6. ASSUME NEW z \in Bazels, MayTake(PidOf[z]), Starts(z), exe' = exe PROVE KillInv'
  BY <1>1, <1>6, StartsKeeps
<1>7. \/ \E g \in Passes : Tick(g)
      \/ \E g \in Goroutines : Persist(g) \/ Broadcast(g)
      \/ \E g \in Requests, z \in Bazels : Register(g, z) \/ Deregister(g, z)
      \/ \E z \in Bazels : BepStarted(z) \/ BepFinalize(z)
      \/ \E z \in Bazels : Ends(z)
      \/ \E z \in Bazels : MayTake(PidOf[z]) /\ Starts(z) /\ exe' = exe
  BY <1>1 DEF RegistryStep, Tick
<1> QED
  BY <1>3, <1>4, <1>5, <1>6, <1>7

LEMMA OtherKeeps ==
  ASSUME KillInv, NEW p \in Pids, OtherStarts(p) \/ OtherEnds(p)
  PROVE  KillInv'
<1>1. TypeOK' /\ UNCHANGED <<process, exe, killVars>>
  BY DEF OtherStarts, OtherEnds, KillInv, KillTypeOK, TypeOK, vars, passVars
<1>2. CASE OtherEnds(p)
  <2>1. Fading
    BY <1>1, <1>2 DEF OtherEnds, Fading, KillInv, KillTypeOK, TypeOK
  <2> QED
    BY <1>1, <2>1, AsideKeeps DEF KillInv, KillTypeOK
<1>3. CASE OtherStarts(p)
  <2>1. PICK o \in {"ours", "foreign"} : other' = [other EXCEPT ![p] = o]
    BY <1>3 DEF OtherStarts
  <2>2. KillTypeOK'
    BY <1>1, <2>1 DEF KillInv, KillTypeOK, killVars
  <2>3. PidsExclusive'
    BY <1>1, <1>3, <2>1 DEF OtherStarts, MayTake, KillInv, KillTypeOK, PidsExclusive, BazelAt, Live
  <2>4. ASSUME NEW j \in Killers PROVE RequestOK(j)'
    <3>1. RequestOK(j) /\ (SlowReuse /\ kpc[j] \in Climbing => pid[j] # p)
      BY <1>3 DEF OtherStarts, MayTake, AtWork, KillInv, Climbing
    <3>2. pid[j] \in Pids /\ pid[j] # p => other'[pid[j]] = other[pid[j]]
      BY <2>1 DEF KillInv, KillTypeOK
    <3> QED
      BY <1>1, <3>1, <3>2 DEF RequestOK, killVars, Working
  <2> QED
    BY <2>2, <2>3, <2>4 DEF KillInv
<1> QED
  BY <1>2, <1>3

LEMMA KillRestartKeeps ==
  ASSUME KillInv, KillRestart
  PROVE  KillInv'
<1>1. TypeOK' /\ process' = process /\ other' = other
  BY TypeStep DEF KillRestart, Restart, KillInv, KillTypeOK, Next
<1>2. KillTypeOK'
  BY <1>1 DEF KillRestart, KillInv, KillTypeOK, Places
<1>3. PidsExclusive'
  BY <1>1 DEF KillInv, PidsExclusive, BazelAt, Live
<1>4. ASSUME NEW j \in Killers PROVE RequestOK(j)'
  BY KillAssumption DEF KillRestart, RequestOK, Working, Climbing
<1> QED
  BY <1>2, <1>3, <1>4 DEF KillInv

LEMMA KillStep ==
  ASSUME KillInv, [KillNext]_kvars
  PROVE  KillInv'
<1>1. CASE KillNext
  BY <1>1, RegistryKeeps, AskKeeps, FreshenKeeps, LookupKeeps, GuardKeeps, LadderKeeps, OtherKeeps,
     KillRestartKeeps DEF KillNext, Ladder
<1>2. CASE UNCHANGED kvars
  BY <1>2, QuietFades, AsideKeeps DEF kvars, vars, KillInv, KillTypeOK
<1> QED
  BY <1>1, <1>2

LEMMA KillInvariant == KillSpec => []KillInv
<1>1. KillInv /\ [KillNext]_kvars => KillInv'
  BY KillStep
<1> QED
  BY KillInitInv, <1>1, PTL DEF KillSpec

(* Every variable of the kill handler keeps its type (KillTypeOK).         *)
THEOREM KillTypeCorrect == KillSpec => []KillTypeOK
BY KillInvariant, PTL DEF KillInv

(* A request that answers that the build is dead is right about the build  *)
(* whose pid it read (KilledMeansDead).                                    *)
THEOREM KilledBuildsAreDead == KillSpec => []KilledMeansDead
<1>1. KillInv => KilledMeansDead
  BY DEF KillInv, RequestOK, KilledMeansDead
<1> QED
  BY KillInvariant, <1>1, PTL

(* With the executable's path known, no stranger is signalled, provided    *)
(* that no pid is taken over during a request (StrangersSpared).           *)
THEOREM StrangersAreSpared == SlowReuse /\ KillSpec => StrangersSpared
<1>1. SlowReuse /\ KillInv =>
        [\A k \in Killers :
           (Interrupt(k) \/ Kill(k)) /\ expect[k] => other[pid[k]] # "ours"]_kvars
  BY DEF KillInv, RequestOK, Interrupt, Kill, Climbing
<1>2. CASE SlowReuse
  <2>1. KillInv =>
        [\A k \in Killers :
           (Interrupt(k) \/ Kill(k)) /\ expect[k] => other[pid[k]] # "ours"]_kvars
    BY <1>1, <1>2
  <2> QED
    BY KillInvariant, <2>1, PTL DEF StrangersSpared
<1> QED
  BY <1>2

-----------------------------------------------------------------------------
(* A pid belongs to at most one bazel, so a signal ends one at most.       *)
OneOwner == \A y, z \in Live : PidOf[y] = PidOf[z] => y = z

RefineInv == KillInv /\ OneOwner

LEMMA SignalEndsOne ==
  ASSUME RefineInv, NEW k \in Killers, Signal(k), Untouched
  PROVE  [Next]_vars
<1>1. CASE UNCHANGED process
  BY <1>1 DEF Untouched, vars
<1>2. CASE process' = [z \in Bazels |-> IF z \in BazelAt(pid[k]) THEN "dead" ELSE process[z]]
  <2>1. CASE BazelAt(pid[k]) = {}
    <3>1. process' = process
      BY <1>2, <2>1 DEF RefineInv, KillInv, KillTypeOK, TypeOK
    <3> QED
      BY <1>1, <3>1
  <2>2. ASSUME NEW z \in BazelAt(pid[k]) PROVE Ends(z)
    <3>1. z \in Bazels /\ process[z] = "live" /\ \A y \in BazelAt(pid[k]) : y = z
      BY <2>2 DEF BazelAt, Live, RefineInv, OneOwner
    <3>2. process' = [process EXCEPT ![z] = "dead"]
      BY <1>2, <2>2, <3>1 DEF RefineInv, KillInv, KillTypeOK, TypeOK
    <3> QED
      BY <3>1, <3>2 DEF Ends, Untouched
  <2> QED
    BY <2>1, <2>2 DEF Next, Quiet, BazelAt, Live
<1> QED
  BY <1>1, <1>2 DEF Signal

(* Every step of a kill request is a step of the registry or none.         *)
LEMMA LadderRefines ==
  ASSUME RefineInv, NEW k \in Killers, Ladder(k)
  PROVE  [Next]_vars
<1>1. k \in Passes
  BY KillAssumption
<1>2. CASE Freshen(k)
  BY <1>1, <1>2 DEF Freshen, Next, Quiet, Reconcile
<1>3. ASSUME Untouched, UNCHANGED process PROVE UNCHANGED vars
  BY <1>3 DEF Untouched, vars
<1>4. CASE Lookup(k) \/ Guard(k) \/ Probe(k) \/ GraceEnds(k) \/ Settle(k)
  BY <1>3, <1>4 DEF Lookup, Guard, Probe, GraceEnds, Settle
<1>5. CASE Interrupt(k) \/ Kill(k)
  BY <1>3, <1>5, SignalEndsOne DEF Interrupt, Kill
<1> QED
  BY <1>2, <1>4, <1>5 DEF Ladder

LEMMA StepRefines ==
  ASSUME RefineInv, [KillNext]_kvars
  PROVE  [Next]_vars
<1>1. ASSUME NEW g \in Passes, PassStep(g) \/ Scan(g) PROVE Reconcile(g)
  BY <1>1 DEF PassStep, MergeExe, Reconcile
<1>2. CASE RegistryStep
  <2>1. CASE \E g \in Passes : PassStep(g) \/ Scan(g)
    BY <1>1, <2>1 DEF Next, Quiet
  <2>2. CASE \/ \E g \in Goroutines : Persist(g) \/ Broadcast(g)
             \/ \E g \in Requests, z \in Bazels : Register(g, z) \/ Deregister(g, z)
             \/ \E z \in Bazels : BepStarted(z) \/ BepFinalize(z) \/ Ends(z)
             \/ \E z \in Bazels : MayTake(PidOf[z]) /\ Starts(z)
    BY <2>2 DEF Next, Quiet
  <2> QED
    BY <1>2, <2>1, <2>2, KillAssumption DEF RegistryStep, Tick
<1>3. ASSUME NEW k \in Killers, NEW b \in Keys, Ask(k, b) PROVE [Next]_vars
  BY <1>3 DEF Ask
<1>4. ASSUME NEW p \in Pids, OtherStarts(p) \/ OtherEnds(p) PROVE [Next]_vars
  BY <1>4 DEF OtherStarts, OtherEnds
<1>5. CASE KillRestart
  BY <1>5 DEF KillRestart, Next
<1>6. CASE UNCHANGED kvars
  BY <1>6 DEF kvars
<1> QED
  BY <1>2, <1>3, <1>4, <1>5, <1>6, LadderRefines DEF KillNext

LEMMA OwnerStep ==
  ASSUME TypeOK, OneOwner, [Next]_vars
  PROVE  OneOwner'
<1>1. ASSUME NEW z \in Bazels, Starts(z) PROVE OneOwner'
  <2>1. \A y \in Bazels : process'[y] = "live" => y = z \/ process[y] = "live"
    BY <1>1 DEF Starts, TypeOK
  <2> QED
    BY <1>1, <2>1 DEF Starts, OneOwner, Live
<1>2. ASSUME NEW z \in Bazels, Ends(z) PROVE OneOwner'
  BY <1>2 DEF Ends, OneOwner, Live, TypeOK
<1>3. CASE UNCHANGED process
  BY <1>3 DEF OneOwner, Live
<1> QED
  BY <1>1, <1>2, <1>3 DEF Next, Quiet, Persist, Broadcast, Register, Deregister, BepStarted, BepFinalize,
     Reconcile, Scan, Merge, SkipUnresolved, Reap, Restart, vars

(* Kill requests, their signals and the processes that take over pids do   *)
(* to the registry only what its own steps may do to it.                   *)
THEOREM KillRefinesRegistry == KillSpec => Spec
<1>1. KillInit => Init /\ OneOwner
  BY DEF KillInit, Init, OneOwner, Live
<1>2. RefineInv /\ [KillNext]_kvars => [Next]_vars /\ OneOwner'
  BY StepRefines, OwnerStep DEF RefineInv, KillInv, KillTypeOK
<1> QED
  BY <1>1, <1>2, KillInvariant, PTL DEF KillSpec, Spec, RefineInv

(* With kills going on, too, an end is final, and an end on disk is the    *)
(* end that is reported (EndsOnce, StoredEndIsFinal).                      *)
THEOREM KillsKeepEnds == KillSpec => EndsOnce /\ []StoredEndIsFinal
BY KillRefinesRegistry, EndsStay, StoredEndsFinal, PTL
=============================================================================
