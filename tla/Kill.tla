---------------------------------- MODULE Kill ----------------------------------
(***************************************************************************)
(* POST /builds/{id}/kill (internal/discovery/killer.go) and the ladder of *)
(* signals it climbs (internal/discovery/kill.go), beside the registry.    *)
(*                                                                         *)
(* A request first runs a reconcile pass of its own, then reads the record *)
(* and works on the pid it read.  Neither the read nor the signals hold a  *)
(* lock, so the process may exit, and its pid pass to another process,     *)
(* between any two steps.  A kill never changes the record: the next       *)
(* reconcile pass finds out.                                               *)
(***************************************************************************)
EXTENDS Registry

CONSTANTS
  Killers,   \* the passes that belong to kill requests
  SlowReuse  \* no pid is taken over while a request is at work on it

(* What a request may answer: the build is dead, or why it was not killed. *)
Dead == {"sigint", "sigkill", "already_gone"}
Refused == {"not_found", "no_pid", "error"}

ASSUME KillAssumption ==
  /\ Killers \subseteq Passes
  /\ SlowReuse \in BOOLEAN
  /\ None \notin Dead \cup Refused

VARIABLES
  exe,     \* discovery recorded the path of the build's executable
  other,   \* the process, not a bazel, that has a pid: ours, another user's
  kpc,     \* where a request stands
  wanted,  \* the key it asks for
  force,   \* it skips the graceful signal
  pid,     \* the pid it read
  expect,  \* it read the path of an executable too
  victim,  \* the bazel that had the pid when it read it
  outcome  \* its answer

killVars == <<kpc, wanted, force, pid, expect, victim, outcome>>
kvars == <<vars, exe, other, killVars>>

KillInit ==
  /\ Init
  /\ exe = [b \in Keys |-> FALSE]
  /\ other = [p \in Pids |-> "none"]
  /\ kpc = [k \in Killers |-> "idle"]
  /\ wanted = [k \in Killers |-> None]
  /\ force = [k \in Killers |-> FALSE]
  /\ pid = [k \in Killers |-> None]
  /\ expect = [k \in Killers |-> FALSE]
  /\ victim = [k \in Killers |-> None]
  /\ outcome = [k \in Killers |-> None]

Places == {"idle", "freshen", "pass", "guard", "probe", "signal", "grace", "force", "settle"}

(* Every variable keeps its type.                                          *)
KillTypeOK ==
  /\ TypeOK
  /\ exe \in [Keys -> BOOLEAN]
  /\ other \in [Pids -> {"none", "ours", "foreign"}]
  /\ kpc \in [Killers -> Places]
  /\ wanted \in [Killers -> Keys \cup {None}]
  /\ force \in [Killers -> BOOLEAN]
  /\ pid \in [Killers -> Pids \cup {None}]
  /\ expect \in [Killers -> BOOLEAN]
  /\ victim \in [Killers -> Bazels \cup {None}]
  /\ outcome \in [Killers -> Dead \cup Refused \cup {None}]

-----------------------------------------------------------------------------
(* Who has a pid: a bazel, another process or nobody.                      *)
BazelAt(p) == {z \in Live : PidOf[z] = p}
Nobody(p) == BazelAt(p) = {} /\ other[p] = "none"

AtWork(p) == \E k \in Killers : kpc[k] \notin {"idle", "freshen", "pass"} /\ pid[k] = p
MayTake(p) == other[p] = "none" /\ BazelAt(p) = {} /\ ~(SlowReuse /\ AtWork(p))

(* At the end of a request its variables are cleared, but for the answer.  *)
Answer(k, o) ==
  /\ kpc' = [kpc EXCEPT ![k] = "idle"]
  /\ outcome' = [outcome EXCEPT ![k] = o]
  /\ pid' = [pid EXCEPT ![k] = None]
  /\ wanted' = [wanted EXCEPT ![k] = None]
  /\ force' = [force EXCEPT ![k] = FALSE]
  /\ expect' = [expect EXCEPT ![k] = FALSE]
  /\ UNCHANGED victim

Climb(k, place) ==
  /\ kpc' = [kpc EXCEPT ![k] = place]
  /\ UNCHANGED <<wanted, force, pid, expect, victim, outcome>>

(* A signal reaches whoever has the pid, unless it is another user's; the  *)
(* receiver may end at once, later or, but for SIGKILL, never.             *)
Signal(k) ==
  \/ UNCHANGED <<process, other>>
  \/ /\ process' = [z \in Bazels |-> IF z \in BazelAt(pid[k]) THEN "dead" ELSE process[z]]
     /\ other' = [other EXCEPT ![pid[k]] = IF @ = "ours" THEN "none" ELSE @]

Untouched == UNCHANGED <<builds, store, out, sending, passVars, exe>>

-----------------------------------------------------------------------------
Ask(k, b) ==
  /\ kpc[k] = "idle" /\ Ready(k)
  /\ kpc' = [kpc EXCEPT ![k] = "freshen"]
  /\ wanted' = [wanted EXCEPT ![k] = b]
  /\ \E f \in BOOLEAN : force' = [force EXCEPT ![k] = f]
  /\ outcome' = [outcome EXCEPT ![k] = None]
  /\ victim' = [victim EXCEPT ![k] = None]
  /\ UNCHANGED <<vars, exe, other, pid, expect>>

(* The pass it runs; without the list of processes there is no pass.       *)
Freshen(k) ==
  /\ kpc[k] = "freshen"
  /\ \/ Scan(k)
     \/ UNCHANGED vars
  /\ Climb(k, "pass")
  /\ UNCHANGED <<exe, other>>

(* FindByInvocationID; a record that ended is found like any other.        *)
Found(k, b) ==
  /\ kpc' = [kpc EXCEPT ![k] = "guard"]
  /\ pid' = [pid EXCEPT ![k] = b.pid]
  /\ expect' = [expect EXCEPT ![k] = exe[wanted[k]]]
  /\ \/ BazelAt(b.pid) = {} /\ UNCHANGED victim
     \/ \E z \in BazelAt(b.pid) : victim' = [victim EXCEPT ![k] = z]
  /\ UNCHANGED <<wanted, force, outcome>>

Lookup(k) ==
  LET b == builds[wanted[k]] IN
  /\ kpc[k] = "pass" /\ pass[k] = "idle" /\ Ready(k)
  /\ \/ ~Known(b) /\ Answer(k, "not_found")
     \/ Known(b) /\ b.pid = None /\ Answer(k, "no_pid")
     \/ Known(b) /\ b.pid # None /\ Found(k, b)
  /\ Untouched
  /\ UNCHANGED <<process, other>>

(* The executable at the pid must be the recorded one, if there is one; a  *)
(* bazel that took over the pid passes.                                    *)
BugGuard(k) ==
  /\ kpc[k] = "guard"
  /\ Climb(k, "probe")
  /\ Untouched
  /\ UNCHANGED <<process, other>>
Guard(k) ==
  /\ kpc[k] = "guard"
  /\ \/ (~expect[k] \/ BazelAt(pid[k]) # {}) /\ Climb(k, "probe")
     \/ expect[k] /\ Nobody(pid[k]) /\ Answer(k, "already_gone")
     \/ expect[k] /\ other[pid[k]] # "none" /\ Answer(k, "error")
  /\ Untouched
  /\ UNCHANGED <<process, other>>

Probe(k) ==
  /\ kpc[k] = "probe"
  /\ IF Nobody(pid[k]) THEN Answer(k, "already_gone")
     ELSE Climb(k, IF force[k] THEN "force" ELSE "signal")
  /\ Untouched
  /\ UNCHANGED <<process, other>>

(* SIGINT to the process group and SIGTERM to the process.                 *)
Interrupt(k) ==
  /\ kpc[k] = "signal"
  /\ Signal(k)
  /\ Climb(k, "grace")
  /\ Untouched

(* waitGone: the pid is free, or time is up, the client hung up, or the    *)
(* pid went to another user.                                               *)
BugGraceEnds(k) ==
  /\ kpc[k] = "grace"
  /\ Answer(k, "sigint")
  /\ Untouched
  /\ UNCHANGED <<process, other>>
GraceEnds(k) ==
  /\ kpc[k] = "grace"
  /\ \/ Nobody(pid[k]) /\ Answer(k, "sigint")
     \/ Climb(k, "force")
  /\ Untouched
  /\ UNCHANGED <<process, other>>

(* SIGKILL, and what the system answers: no such process, not permitted.   *)
Kill(k) ==
  /\ kpc[k] = "force"
  /\ \/ Nobody(pid[k]) /\ Answer(k, "sigkill") /\ UNCHANGED <<process, other>>
     \/ other[pid[k]] = "foreign" /\ Answer(k, "error") /\ UNCHANGED <<process, other>>
     \/ ~Nobody(pid[k]) /\ other[pid[k]] # "foreign" /\ Signal(k) /\ Climb(k, "settle")
  /\ Untouched

BugSettle(k) ==
  /\ kpc[k] = "settle"
  /\ Nobody(pid[k]) /\ Answer(k, "sigkill")
  /\ Untouched
  /\ UNCHANGED <<process, other>>
Settle(k) ==
  /\ kpc[k] = "settle"
  /\ \/ Nobody(pid[k]) /\ Answer(k, "sigkill")
     \/ Answer(k, "error")
  /\ Untouched
  /\ UNCHANGED <<process, other>>

Ladder(k) ==
  \/ Freshen(k) \/ Lookup(k) \/ Guard(k) \/ Probe(k)
  \/ Interrupt(k) \/ GraceEnds(k) \/ Kill(k) \/ Settle(k)

-----------------------------------------------------------------------------
(* Other processes take over pids and leave them.                          *)
OtherStarts(p) ==
  /\ MayTake(p)
  /\ \E o \in {"ours", "foreign"} : other' = [other EXCEPT ![p] = o]
  /\ UNCHANGED <<vars, exe, killVars>>

OtherEnds(p) ==
  /\ other[p] # "none"
  /\ other' = [other EXCEPT ![p] = "none"]
  /\ UNCHANGED <<vars, exe, killVars>>

(* The steps of the registry; a merge brings the path of the executable.   *)
MergeExe(g, z) ==
  /\ Merge(g, z)
  /\ exe' = [b \in Keys |-> exe[b] \/ \E c \in out'[g] : c.key = b]

PassStep(g) ==
  \/ \E z \in Bazels : MergeExe(g, z)
  \/ (Reap(g) \/ (\E z \in Bazels : SkipUnresolved(g, z))) /\ UNCHANGED exe

Tick(g) == PassStep(g) \/ (Scan(g) /\ UNCHANGED exe)

RegistryStep ==
  /\ \/ \E g \in Passes \ Killers : Tick(g)
     \/ \E g \in Killers : PassStep(g)
     \/ /\ \/ \E g \in Goroutines : Persist(g) \/ Broadcast(g)
           \/ \E g \in Requests, z \in Bazels : Register(g, z) \/ Deregister(g, z)
           \/ \E z \in Bazels : BepStarted(z) \/ BepFinalize(z) \/ Ends(z)
           \/ \E z \in Bazels : MayTake(PidOf[z]) /\ Starts(z)
        /\ UNCHANGED exe
  /\ UNCHANGED <<other, killVars>>

(* With the daemon its requests end; the paths are not in the store.       *)
KillRestart ==
  /\ Restart
  /\ exe' = [b \in Keys |-> FALSE]
  /\ kpc' = [k \in Killers |-> "idle"]
  /\ wanted' = [k \in Killers |-> None]
  /\ force' = [k \in Killers |-> FALSE]
  /\ pid' = [k \in Killers |-> None]
  /\ expect' = [k \in Killers |-> FALSE]
  /\ victim' = [k \in Killers |-> None]
  /\ outcome' = [k \in Killers |-> None]
  /\ UNCHANGED other

KillNext ==
  \/ RegistryStep
  \/ \E k \in Killers : (\E b \in Keys : Ask(k, b)) \/ Ladder(k)
  \/ \E p \in Pids : OtherStarts(p) \/ OtherEnds(p)
  \/ KillRestart

KillSpec == KillInit /\ [][KillNext]_kvars

(* Goroutines run on, timers fire and the ticker starts pass after pass.   *)
KillFairness ==
  /\ \A g \in Goroutines : WF_kvars(Persist(g) /\ UNCHANGED <<exe, other, killVars>>)
  /\ \A g \in Goroutines : WF_kvars(Broadcast(g) /\ UNCHANGED <<exe, other, killVars>>)
  /\ \A g \in Passes \ Killers : WF_kvars(Tick(g) /\ UNCHANGED <<other, killVars>>)
  /\ \A k \in Killers : WF_kvars(PassStep(k) /\ UNCHANGED <<other, killVars>>)
  /\ \A k \in Killers : WF_kvars(Ladder(k))

FairKillSpec == KillSpec /\ KillFairness

-----------------------------------------------------------------------------
(* An answer that the build was killed, or was gone already, is true of    *)
(* the process the build was when its record was read, whatever exits,     *)
(* ignores its signals, hands its pid on or belongs to another user.       *)
KilledMeansDead ==
  \A k \in Killers :
    outcome[k] \in Dead /\ victim[k] # None => process[victim[k]] = "dead"

(* A process that is no bazel and took over the pid of a build is never    *)
(* signalled, as long as the path of the build's executable is known.      *)
StrangersSpared ==
  [][\A k \in Killers :
       (Interrupt(k) \/ Kill(k)) /\ expect[k] => other[pid[k]] # "ours"]_kvars

(* Every request is answered: also one whose build ignores all signals.    *)
KillAnswered == \A k \in Killers : kpc[k] # "idle" ~> kpc[k] = "idle"
=============================================================================
