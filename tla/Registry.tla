-------------------------------- MODULE Registry --------------------------------
(***************************************************************************)
(* The registry of builds (internal/registry/registry.go) with its mirror  *)
(* in the store (internal/store/store.go) and the goroutines that change   *)
(* it: HTTP handlers, the tailers of BEP files, and the reconcile passes   *)
(* of the discovery (internal/discovery/reconcile.go).                     *)
(*                                                                         *)
(* A mutation changes the map under the write lock in one step; the lock   *)
(* is released before the copy it made is persisted and broadcast, so      *)
(* those are steps of their own.                                           *)
(***************************************************************************)

CONSTANTS
  None,        \* no pid
  Bazels,      \* the bazel client processes there will ever be
  Ids,         \* invocation ids
  Pids,        \* process ids, which a later process may reuse
  IdOf,        \* the invocation id of a process
  PidOf,       \* its pid
  TailOf,      \* the tailer of the BEP file it writes
  Requests,    \* goroutines that serve /register and /deregister
  Tails,       \* BEP tailers
  Passes,      \* goroutines that run ReconcileOnce: the ticker, a kill request
  Unresolved,  \* processes whose working directory may fail to resolve
  StoreMayFail,
  MayRestart

(* The key "pid-<pid>" of a build without invocation id is the pid itself. *)
Keys == Ids \cup Pids
Goroutines == Requests \cup Tails \cup Passes

ASSUME RegistryAssumption ==
  /\ None \notin Keys
  /\ Ids \cap Pids = {}
  /\ IdOf \in [Bazels -> Ids]
  /\ PidOf \in [Bazels -> Pids]
  /\ TailOf \in [Bazels -> Tails]
  /\ Requests \cap Tails = {} /\ Requests \cap Passes = {} /\ Tails \cap Passes = {}
  /\ Unresolved \subseteq Bazels
  /\ StoreMayFail \in BOOLEAN
  /\ MayRestart \in BOOLEAN

(* Nothing in the daemon sets the states queued, killed and unknown.       *)
Terminal == {"finished", "failed", "gone"}
IsTerminal(b) == b.state \in Terminal

Build == [pid    : Pids \cup {None},
          state  : {"absent", "running"} \cup Terminal,
          source : {"none", "registered", "discovered"}]
Absent == [pid |-> None, state |-> "absent", source |-> "none"]
Known(b) == b.state # "absent"

(* A copy of a build on its way to the store and to the hub.               *)
Copy == [key : Keys, build : Build]
Nothing == [key |-> None, build |-> Absent]

VARIABLES
  builds,   \* the map, Absent where it has no entry
  store,    \* the rows of the builds table
  out,      \* the copies a goroutine has yet to persist
  sending,  \* the copy it has persisted and has yet to broadcast
  pass,     \* where a reconcile pass stands
  scan,     \* the processes of its scan it has yet to merge
  seen,     \* the pids it has merged
  process   \* life of the bazel processes

passVars == <<pass, scan, seen>>
vars == <<builds, store, out, sending, passVars, process>>

Init ==
  /\ builds = [k \in Keys |-> Absent]
  /\ store = [k \in Keys |-> Absent]
  /\ out = [g \in Goroutines |-> {}]
  /\ sending = [g \in Goroutines |-> Nothing]
  /\ pass = [g \in Passes |-> "idle"]
  /\ scan = [g \in Passes |-> {}]
  /\ seen = [g \in Passes |-> {}]
  /\ process = [z \in Bazels |-> "unborn"]

(* Every variable keeps its type.                                          *)
TypeOK ==
  /\ builds \in [Keys -> Build]
  /\ store \in [Keys -> Build]
  /\ out \in [Goroutines -> SUBSET Copy]
  /\ sending \in [Goroutines -> Copy \cup {Nothing}]
  /\ pass \in [Passes -> {"idle", "merging"}]
  /\ scan \in [Passes -> SUBSET Bazels]
  /\ seen \in [Passes -> SUBSET Pids]
  /\ process \in [Bazels -> {"unborn", "live", "dead"}]

-----------------------------------------------------------------------------
(* A goroutine is done with one mutation before it starts the next.        *)
Ready(g) == out[g] = {} /\ sending[g] = Nothing

(* The write-locked half of a mutation of one build.                       *)
Commit(g, k, b) ==
  /\ builds' = [builds EXCEPT ![k] = b]
  /\ out' = [out EXCEPT ![g] = {[key |-> k, build |-> b]}]
  /\ UNCHANGED <<store, sending>>

(* persist and broadcastBuild of the copies, one after the other; a reap   *)
(* made them in map order, which is any order.                             *)
Written(c) == store' = [store EXCEPT ![c.key] = c.build]

Persist(g) ==
  /\ sending[g] = Nothing
  /\ \E c \in out[g] :
       /\ \/ Written(c)
          \/ StoreMayFail /\ UNCHANGED store
       /\ out' = [out EXCEPT ![g] = @ \ {c}]
       /\ sending' = [sending EXCEPT ![g] = c]
  /\ UNCHANGED <<builds, passVars, process>>

Broadcast(g) ==
  /\ sending[g] # Nothing
  /\ sending' = [sending EXCEPT ![g] = Nothing]
  /\ UNCHANGED <<builds, store, out, passVars, process>>

-----------------------------------------------------------------------------
(* POST /register; the client may not know the pid of its bazel yet.       *)
BugRegistered(b, p) ==
  [pid |-> IF p = None THEN b.pid ELSE p, state |-> "running", source |-> "registered"]
Registered(b, p) ==
  [pid    |-> IF p = None THEN b.pid ELSE p,
   state  |-> IF IsTerminal(b) THEN b.state ELSE "running",
   source |-> "registered"]

Register(g, z) ==
  /\ Ready(g)
  /\ process[z] # "unborn"
  /\ \E p \in {None, PidOf[z]} : Commit(g, IdOf[z], Registered(builds[IdOf[z]], p))
  /\ UNCHANGED <<passVars, process>>

(* POST /deregister, DELETE /builds/<id>: a no-op for an unknown or        *)
(* terminal build.                                                         *)
Deregister(g, z) ==
  LET b == builds[IdOf[z]] IN
  /\ Ready(g)
  /\ b.state = "running"
  /\ \E st \in {"finished", "failed"} : Commit(g, IdOf[z], [b EXCEPT !.state = st])
  /\ UNCHANGED <<passVars, process>>

-----------------------------------------------------------------------------
(* Upsert: the entry for a pid (None: unknown) and an id (None: unknown).  *)
(* If several entries have the pid, map order picks one of them.           *)
Entries(p, i) ==
  LET samePid == {k \in Keys : p # None /\ builds[k].pid = p} IN
  IF samePid # {} THEN samePid ELSE {IF i = None THEN p ELSE i}

(* What Upsert makes of an entry, given a pid and a state.                 *)
Merged(b, p, st) ==
  [pid    |-> IF p = None THEN b.pid ELSE p,
   state  |-> IF st \in Terminal /\ ~IsTerminal(b) THEN st
              ELSE IF Known(b) THEN b.state ELSE "running",
   source |-> IF Known(b) THEN b.source ELSE "discovered"]

Upsert(g, p, i, st) ==
  \E k \in Entries(p, i) : Commit(g, k, Merged(builds[k], p, st))

(* The BEP tailer binds the build, or pushes its command and targets.      *)
BepStarted(z) ==
  /\ Ready(TailOf[z])
  /\ process[z] # "unborn"
  /\ Upsert(TailOf[z], None, IdOf[z], "running")
  /\ UNCHANGED <<passVars, process>>

(* finalize() at the last message of the stream, which is bound by then.   *)
BepFinalize(z) ==
  /\ Ready(TailOf[z])
  /\ process[z] # "unborn"
  /\ Known(builds[IdOf[z]])
  /\ \E st \in {"finished", "failed"} : Upsert(TailOf[z], None, IdOf[z], st)
  /\ UNCHANGED <<passVars, process>>

-----------------------------------------------------------------------------
(* ReconcileOnce: scan the processes, merge each, reap what is missing.    *)
Live == {z \in Bazels : process[z] = "live"}

BugScan(g) ==
  /\ pass[g] = "idle" /\ Ready(g)
  /\ pass' = [pass EXCEPT ![g] = "merging"]
  /\ scan' = [scan EXCEPT ![g] = Live]
  /\ UNCHANGED <<builds, store, out, sending, seen, process>>

Scan(g) ==
  /\ pass[g] = "idle" /\ Ready(g)
  /\ pass' = [pass EXCEPT ![g] = "merging"]
  /\ scan' = [scan EXCEPT ![g] = Live]
  /\ seen' = [seen EXCEPT ![g] = {}]
  /\ UNCHANGED <<builds, store, out, sending, process>>

Merge(g, z) ==
  /\ z \in scan[g] /\ Ready(g)
  /\ scan' = [scan EXCEPT ![g] = @ \ {z}]
  /\ seen' = [seen EXCEPT ![g] = @ \cup {PidOf[z]}]
  /\ Upsert(g, PidOf[z], None, "running")
  /\ UNCHANGED <<pass, process>>

(* The working directory cannot be read, or it is in no worktree.          *)
SkipUnresolved(g, z) ==
  /\ z \in scan[g] \cap Unresolved /\ Ready(g)
  /\ scan' = [scan EXCEPT ![g] = @ \ {z}]
  /\ UNCHANGED <<builds, store, out, sending, pass, seen, process>>

(* ReapMissingDiscovered.                                                  *)
BugMissing(g) ==
  {k \in Keys : /\ builds[k].state = "running" /\ builds[k].source = "discovered"
                /\ builds[k].pid \notin seen[g]}
Missing(g) ==
  {k \in Keys : /\ builds[k].state = "running" /\ builds[k].source = "discovered"
                /\ builds[k].pid # None /\ builds[k].pid \notin seen[g]}
BugGone(k) == [builds[k] EXCEPT !.state = "unknown"]
Gone(k) == [builds[k] EXCEPT !.state = "gone"]

Reap(g) ==
  /\ pass[g] = "merging" /\ scan[g] = {} /\ Ready(g)
  /\ pass' = [pass EXCEPT ![g] = "idle"]
  /\ builds' = [k \in Keys |-> IF k \in Missing(g) THEN Gone(k) ELSE builds[k]]
  /\ out' = [out EXCEPT ![g] = {[key |-> k, build |-> Gone(k)] : k \in Missing(g)}]
  /\ UNCHANGED <<store, sending, scan, seen, process>>

Reconcile(g) == Scan(g) \/ (\E z \in Bazels : Merge(g, z) \/ SkipUnresolved(g, z)) \/ Reap(g)

-----------------------------------------------------------------------------
(* The daemon stops at any point and starts again: HydrateFromStore takes  *)
(* the rows and calls the ones that were running gone.                     *)
BugHydrated(b) == IF Known(b) THEN [b EXCEPT !.state = "gone"] ELSE b
Hydrated(b) == IF b.state = "running" THEN [b EXCEPT !.state = "gone"] ELSE b

Restart ==
  /\ MayRestart
  /\ builds' = [k \in Keys |-> Hydrated(store[k])]
  /\ out' = [g \in Goroutines |-> {}]
  /\ sending' = [g \in Goroutines |-> Nothing]
  /\ pass' = [g \in Passes |-> "idle"]
  /\ scan' = [g \in Passes |-> {}]
  /\ seen' = [g \in Passes |-> {}]
  /\ UNCHANGED <<store, process>>

(* A pid belongs to at most one live process.                              *)
Starts(z) ==
  /\ process[z] = "unborn"
  /\ \A y \in Live : PidOf[y] # PidOf[z]
  /\ process' = [process EXCEPT ![z] = "live"]
  /\ UNCHANGED <<builds, store, out, sending, passVars>>

Ends(z) ==
  /\ process[z] = "live"
  /\ process' = [process EXCEPT ![z] = "dead"]
  /\ UNCHANGED <<builds, store, out, sending, passVars>>

(* The steps that no subscriber of the hub notices.                        *)
Quiet ==
  \/ \E g \in Goroutines : Persist(g)
  \/ \E g \in Requests, z \in Bazels : Register(g, z) \/ Deregister(g, z)
  \/ \E z \in Bazels : BepStarted(z) \/ BepFinalize(z)
  \/ \E g \in Passes : Reconcile(g)
  \/ \E z \in Bazels : Starts(z) \/ Ends(z)

Next == Quiet \/ (\E g \in Goroutines : Broadcast(g)) \/ Restart

Spec == Init /\ [][Next]_vars

(* Goroutines run on, and the ticker starts pass after pass.               *)
Fairness ==
  /\ \A g \in Goroutines : WF_vars(Persist(g)) /\ WF_vars(Broadcast(g))
  /\ \A g \in Passes : WF_vars(Reconcile(g))

FairSpec == Spec /\ Fairness

-----------------------------------------------------------------------------
(* What clients were told of an end, stays told: while the daemon lives no *)
(* build is forgotten and no ended build changes its state, whoever        *)
(* registers, merges, finalizes or reaps it.                               *)
EndsOnce ==
  [][Restart \/ \A k \in Keys :
       /\ Known(builds[k]) => Known(builds'[k])
       /\ IsTerminal(builds[k]) => builds'[k].state = builds[k].state]_vars

(* Whatever end the store has on disk is the end the registry reports,     *)
(* also after any number of restarts, lost writes and overtaking writers:  *)
(* no restart can turn a failed build into a finished one or revive it.    *)
StoredEndIsFinal ==
  \A k \in Keys : IsTerminal(store[k]) => builds[k].state = store[k].state

(* A reap calls a build gone only if its process ended, or runs with a     *)
(* working directory that the pass could not resolve, as long as only one  *)
(* goroutine reconciles.                                                   *)
GoneMeansVanished ==
  [][Restart \/ \A k \in Keys :
       builds[k].state = "running" /\ builds'[k].state = "gone"
         => \E z \in Bazels :
              /\ PidOf[z] = builds[k].pid
              /\ process[z] = "dead" \/ (process[z] = "live" /\ z \in Unresolved)]_vars

(* A discovered build whose process is gone does not stay running, unless  *)
(* a process takes over the pid or a client registers it after all.        *)
Ghost(k) ==
  /\ builds[k].state = "running" /\ builds[k].source = "discovered"
  /\ builds[k].pid # None
  /\ \A z \in Live : PidOf[z] # builds[k].pid
GhostsVanish == \A k \in Keys : Ghost(k) ~> ~Ghost(k)

-----------------------------------------------------------------------------
(* A claim of the code's comments that the code does not keep.             *)
(* registry.go:219: after a restart, discovery re-adds every live build.   *)
LiveBuildsReAdded ==
  [][\A g \in Passes : Reap(g) =>
       \A z \in Live : PidOf[z] \in seen[g] =>
         \E k \in Keys : builds'[k].pid = PidOf[z] /\ ~IsTerminal(builds'[k])]_vars
=============================================================================
