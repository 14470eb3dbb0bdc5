----------------------------- MODULE RegistryProofs -----------------------------
(***************************************************************************)
(* Theorems about the registry, for every number of builds, pids, clients, *)
(* tailers and reconcile passes.                                           *)
(***************************************************************************)
EXTENDS Registry, TLAPS

(* The goroutines are of one kind each, and their writes have a place.     *)
LEMMA Kinds ==
  /\ Requests \subseteq Goroutines /\ Tails \subseteq Goroutines /\ Passes \subseteq Goroutines
  /\ \A z \in Bazels : IdOf[z] \in Keys /\ PidOf[z] \in Pids /\ PidOf[z] \in Keys
                       /\ TailOf[z] \in Goroutines
  /\ None \notin Keys
BY RegistryAssumption DEF Goroutines, Keys

LEMMA TypeInit == Init => TypeOK
BY DEF Init, TypeOK, Absent, Build, Nothing, Copy

(* Writing one build keeps the types.                                      *)
LEMMA CommitType ==
  ASSUME TypeOK, NEW g \in Goroutines, NEW k \in Keys, NEW b \in Build, Commit(g, k, b)
  PROVE  (builds \in [Keys -> Build] /\ store \in [Keys -> Build]
          /\ out \in [Goroutines -> SUBSET Copy] /\ sending \in [Goroutines -> Copy \cup {Nothing}])'
BY DEF TypeOK, Commit, Copy

(* Upsert writes some entry, and what it writes is a build.                *)
LEMMA UpsertCommits ==
  ASSUME TypeOK, NEW g \in Goroutines, NEW p \in Pids \cup {None}, NEW i \in Ids \cup {None},
         p # None \/ i # None, NEW st \in {"running"} \cup Terminal, Upsert(g, p, i, st)
  PROVE  \E k \in Keys, b \in Build :
           Commit(g, k, b) /\ Known(b) /\ (IsTerminal(builds[k]) => b.state = builds[k].state)
<1>1. PICK k \in Entries(p, i) : Commit(g, k, Merged(builds[k], p, st))
  BY DEF Upsert
<1>2. k \in Keys
  <2>1. CASE {j \in Keys : p # None /\ builds[j].pid = p} # {}
    BY <1>1, <2>1 DEF Entries
  <2>2. CASE {j \in Keys : p # None /\ builds[j].pid = p} = {}
    <3>1. k = IF i = None THEN p ELSE i
      BY <1>1, <2>2 DEF Entries
    <3> QED
      BY <3>1 DEF Keys
  <2> QED
    BY <2>1, <2>2
<1>3. builds[k] \in Build
  BY <1>2 DEF TypeOK
<1>4. Merged(builds[k], p, st) \in Build
  BY <1>3 DEF Build, Merged, Terminal, IsTerminal, Known
<1>5. IsTerminal(builds[k]) => Merged(builds[k], p, st).state = builds[k].state
  BY DEF Merged, IsTerminal, Known, Terminal
<1>6. Known(Merged(builds[k], p, st))
  BY DEF Merged, Known, Terminal
<1> QED
  BY <1>1, <1>2, <1>4, <1>5, <1>6

(* A mutation of one build commits a build that keeps an end it has.       *)
Mutation(g) ==
  \E k \in Keys, b \in Build :
    Commit(g, k, b) /\ Known(b) /\ (IsTerminal(builds[k]) => b.state = builds[k].state)

LEMMA RequestMutates ==
  ASSUME TypeOK, NEW g \in Requests, NEW z \in Bazels, Register(g, z) \/ Deregister(g, z)
  PROVE  Mutation(g) /\ UNCHANGED <<passVars, process>>
<1> DEFINE i == IdOf[z]
<1>1. i \in Keys /\ builds[i] \in Build /\ PidOf[z] \in Pids
  BY Kinds DEF TypeOK
<1>2. ASSUME Register(g, z) PROVE Mutation(g)
  <2>1. PICK p \in {None, PidOf[z]} : Commit(g, i, Registered(builds[i], p))
    BY <1>2 DEF Register
  <2>2. Registered(builds[i], p) \in Build
    BY <1>1 DEF Registered, Build, IsTerminal, Terminal
  <2>3. /\ IsTerminal(builds[i]) => Registered(builds[i], p).state = builds[i].state
        /\ Known(Registered(builds[i], p))
    BY DEF Registered, Known, IsTerminal, Terminal
  <2> QED
    BY <1>1, <2>1, <2>2, <2>3 DEF Mutation
<1>3. ASSUME Deregister(g, z) PROVE Mutation(g)
  <2>1. PICK st \in {"finished", "failed"} : Commit(g, i, [builds[i] EXCEPT !.state = st])
    BY <1>3 DEF Deregister
  <2>2. [builds[i] EXCEPT !.state = st] \in Build
    BY <1>1 DEF Build, Terminal
  <2>3. ~IsTerminal(builds[i]) /\ Known([builds[i] EXCEPT !.state = st])
    BY <1>1, <1>3 DEF Deregister, IsTerminal, Terminal, Known, Build
  <2> QED
    BY <1>1, <2>1, <2>2, <2>3 DEF Mutation
<1> QED
  BY <1>2, <1>3 DEF Register, Deregister

LEMMA TailMutates ==
  ASSUME TypeOK, NEW z \in Bazels, BepStarted(z) \/ BepFinalize(z)
  PROVE  Mutation(TailOf[z]) /\ UNCHANGED <<passVars, process>>
<1>1. IdOf[z] \in Ids /\ IdOf[z] # None /\ TailOf[z] \in Goroutines
  BY Kinds, RegistryAssumption DEF Keys
<1>2. \E st \in {"running"} \cup Terminal : Upsert(TailOf[z], None, IdOf[z], st)
  BY DEF BepStarted, BepFinalize, Terminal
<1> QED
  BY <1>1, <1>2, UpsertCommits DEF BepStarted, BepFinalize, Mutation

LEMMA MergeMutates ==
  ASSUME TypeOK, NEW g \in Passes, NEW z \in Bazels, Merge(g, z)
  PROVE  Mutation(g)
<1>1. PidOf[z] \in Pids /\ PidOf[z] # None /\ g \in Goroutines
  BY Kinds
<1> QED
  BY <1>1, UpsertCommits DEF Merge, Mutation

LEMMA TypeStep ==
  ASSUME TypeOK, [Next]_vars
  PROVE  TypeOK'
<1> USE Kinds
<1>1. ASSUME NEW g \in Goroutines, Persist(g)
      PROVE  TypeOK'
  <2>1. PICK c \in out[g] : /\ Written(c) \/ UNCHANGED store
                            /\ out' = [out EXCEPT ![g] = @ \ {c}]
                            /\ sending' = [sending EXCEPT ![g] = c]
    BY <1>1 DEF Persist
  <2>2. c \in Copy
    BY DEF TypeOK
  <2>3. store' \in [Keys -> Build]
    BY <2>1, <2>2 DEF TypeOK, Written, Copy
  <2> QED
    BY <1>1, <2>1, <2>2, <2>3 DEF Persist, TypeOK, passVars
<1>2. ASSUME NEW g \in Goroutines, Broadcast(g)
      PROVE  TypeOK'
  BY <1>2 DEF Broadcast, TypeOK, passVars
<1>3. ASSUME NEW g \in Goroutines, Mutation(g), UNCHANGED <<passVars, process>>
      PROVE  TypeOK'
  BY <1>3, CommitType DEF Mutation, TypeOK, passVars
<1>4. ASSUME NEW g \in Passes, NEW z \in Bazels, Merge(g, z)
      PROVE  TypeOK'
  <2>1. Mutation(g)
    BY <1>4, MergeMutates
  <2> QED
    BY <1>4, <2>1, CommitType DEF Mutation, Merge, TypeOK
<1>5. ASSUME NEW g \in Passes, Scan(g) \/ (\E z \in Bazels : SkipUnresolved(g, z))
      PROVE  TypeOK'
  BY <1>5 DEF Scan, SkipUnresolved, TypeOK, Live
<1>6. ASSUME NEW g \in Passes, Reap(g)
      PROVE  TypeOK'
  <2>1. \A k \in Missing(g) : k \in Keys /\ Gone(k) \in Build
    BY DEF Missing, Gone, TypeOK, Build, Terminal
  <2>2. out' \in [Goroutines -> SUBSET Copy]
    BY <1>6, <2>1 DEF Reap, TypeOK, Copy
  <2>3. builds' \in [Keys -> Build]
    BY <1>6, <2>1 DEF Reap, TypeOK
  <2> QED
    BY <1>6, <2>2, <2>3 DEF Reap, TypeOK
<1>7. CASE Restart
  <2>1. \A k \in Keys : Hydrated(store[k]) \in Build
    BY DEF Hydrated, TypeOK, Build, Terminal
  <2> QED
    BY <1>7, <2>1 DEF Restart, TypeOK
<1>8. ASSUME NEW z \in Bazels, Starts(z) \/ Ends(z)
      PROVE  TypeOK'
  BY <1>8 DEF Starts, Ends, TypeOK, passVars
<1>9. CASE UNCHANGED vars
  BY <1>9 DEF vars, passVars, TypeOK
<1>10. ASSUME NEW z \in Bazels, BepStarted(z) \/ BepFinalize(z)
       PROVE  TypeOK'
  BY <1>3, <1>10, TailMutates
<1>11. ASSUME NEW g \in Requests, NEW z \in Bazels, Register(g, z) \/ Deregister(g, z)
       PROVE  TypeOK'
  BY <1>3, <1>11, RequestMutates
<1>12. ASSUME NEW g \in Passes, Reconcile(g)
       PROVE  TypeOK'
  BY <1>12, <1>4, <1>5, <1>6 DEF Reconcile
<1> QED
  BY <1>1, <1>2, <1>7, <1>8, <1>9, <1>10, <1>11, <1>12 DEF Next, Quiet

(* Every variable of the registry keeps its type (TypeOK).                 *)
THEOREM RegistryTypeCorrect == Spec => []TypeOK
<1>1. TypeOK /\ [Next]_vars => TypeOK'
  BY TypeStep
<1> QED
  BY TypeInit, <1>1, PTL DEF Spec

-----------------------------------------------------------------------------
(* A copy on its way, or a row on disk, that shows an end shows the end    *)
(* the registry has.                                                       *)
ShowsEnd(c) == IsTerminal(c.build) => builds[c.key].state = c.build.state

CopiesFinal ==
  \A g \in Goroutines : (\A c \in out[g] : ShowsEnd(c)) /\ ShowsEnd(sending[g])

EndsInv == TypeOK /\ StoredEndIsFinal /\ CopiesFinal

LEMMA EndsInit == Init => EndsInv
BY TypeInit DEF Init, EndsInv, StoredEndIsFinal, CopiesFinal, ShowsEnd, IsTerminal, Absent, Nothing,
     Terminal

(* No step but a restart changes an end, or forgets a build.               *)
EndsKept ==
  \A k \in Keys :
    /\ Known(builds[k]) => Known(builds'[k])
    /\ IsTerminal(builds[k]) => builds'[k].state = builds[k].state

(* A step that keeps the ends keeps what copies and rows show of them.     *)
LEMMA KeptEnds ==
  ASSUME TypeOK, EndsKept, NEW k \in Keys, NEW b \in Build,
         IsTerminal(b) => builds[k].state = b.state
  PROVE  IsTerminal(b) => builds'[k].state = b.state
<1>1. CASE IsTerminal(b)
  <2>1. IsTerminal(builds[k])
    BY <1>1 DEF IsTerminal
  <2> QED
    BY <1>1, <2>1 DEF EndsKept
<1> QED
  BY <1>1

(* A mutation keeps the ends, and the copy it makes shows what it wrote.   *)
LEMMA MutationKeeps ==
  ASSUME EndsInv, NEW g \in Goroutines, Mutation(g)
  PROVE  EndsKept /\ StoredEndIsFinal' /\ CopiesFinal'
<1>1. PICK k \in Keys, b \in Build :
        Commit(g, k, b) /\ Known(b) /\ (IsTerminal(builds[k]) => b.state = builds[k].state)
  BY DEF Mutation
<1>2. builds' = [builds EXCEPT ![k] = b] /\ builds' \in [Keys -> Build]
  BY <1>1 DEF Commit, EndsInv, TypeOK
<1>3. EndsKept
  BY <1>1, <1>2 DEF EndsKept, EndsInv, TypeOK
<1>4. StoredEndIsFinal'
  BY <1>1, <1>3, KeptEnds DEF Commit, EndsInv, StoredEndIsFinal, TypeOK, IsTerminal
<1>5. ASSUME NEW h \in Goroutines
      PROVE  ((\A c \in out[h] : ShowsEnd(c)) /\ ShowsEnd(sending[h]))'
  <2>1. ASSUME NEW c \in out[h], h # g
        PROVE  ShowsEnd(c)'
    <3>1. c \in Copy /\ ShowsEnd(c)
      BY <2>1 DEF EndsInv, TypeOK, CopiesFinal
    <3> QED
      BY <1>3, <3>1, KeptEnds DEF EndsInv, ShowsEnd, Copy, IsTerminal
  <2>2. h = g => \A c \in out'[h] : ShowsEnd(c)'
    BY <1>1, <1>2 DEF Commit, EndsInv, TypeOK, ShowsEnd
  <2>3. h # g => out'[h] = out[h]
    BY <1>1 DEF Commit, EndsInv, TypeOK
  <2>4. sending' = sending
    BY <1>1 DEF Commit
  <2>5. ShowsEnd(sending[h])'
    <3>1. CASE sending[h] = Nothing
      BY <2>4, <3>1 DEF ShowsEnd, Nothing, Absent, IsTerminal, Terminal
    <3>2. CASE sending[h] \in Copy
      BY <1>3, <2>4, <3>2, KeptEnds DEF EndsInv, CopiesFinal, ShowsEnd, Copy, IsTerminal
    <3> QED
      BY <3>1, <3>2 DEF EndsInv, TypeOK
  <2> QED
    BY <2>1, <2>2, <2>3, <2>5
<1> QED
  BY <1>3, <1>4, <1>5 DEF CopiesFinal

LEMMA EndsStep ==
  ASSUME EndsInv, [Next]_vars
  PROVE  EndsInv' /\ (Restart \/ EndsKept) /\ (Quiet => EndsKept)
<1> USE Kinds
<1>t. TypeOK'
  BY TypeStep DEF EndsInv
<1>1. ASSUME NEW g \in Goroutines, Persist(g)
      PROVE  EndsKept /\ StoredEndIsFinal' /\ CopiesFinal'
  <2>1. PICK c \in out[g] : /\ Written(c) \/ UNCHANGED store
                            /\ out' = [out EXCEPT ![g] = @ \ {c}]
                            /\ sending' = [sending EXCEPT ![g] = c]
    BY <1>1 DEF Persist
  <2>2. c \in Copy /\ ShowsEnd(c) /\ builds' = builds
    BY <1>1 DEF EndsInv, TypeOK, CopiesFinal, Persist
  <2>3. StoredEndIsFinal'
    BY <2>1, <2>2 DEF EndsInv, TypeOK, StoredEndIsFinal, Written, ShowsEnd, Copy, IsTerminal
  <2>4. CopiesFinal'
    BY <2>1, <2>2 DEF EndsInv, TypeOK, CopiesFinal, ShowsEnd
  <2> QED
    BY <2>2, <2>3, <2>4 DEF EndsKept
<1>2. ASSUME NEW g \in Goroutines, Broadcast(g)
      PROVE  EndsKept /\ StoredEndIsFinal' /\ CopiesFinal'
  <2>1. ShowsEnd(Nothing)'
    BY DEF ShowsEnd, Nothing, Absent, IsTerminal, Terminal
  <2> QED
    BY <1>2, <2>1
       DEF Broadcast, EndsInv, TypeOK, StoredEndIsFinal, CopiesFinal, ShowsEnd, EndsKept
<1>3. ASSUME NEW g \in Passes, Reap(g)
      PROVE  EndsKept /\ StoredEndIsFinal' /\ CopiesFinal'
  <2>1. EndsKept
    BY <1>3 DEF Reap, EndsKept, Missing, Gone, IsTerminal, Terminal, Known, EndsInv, TypeOK, Build
  <2>2. StoredEndIsFinal'
    BY <1>3, <2>1, KeptEnds DEF Reap, EndsInv, StoredEndIsFinal, TypeOK, IsTerminal
  <2>3. ASSUME NEW h \in Goroutines, NEW c \in out'[h]
        PROVE  ShowsEnd(c)'
    <3>1. CASE h = g
      <4>1. PICK k \in Missing(g) : c = [key |-> k, build |-> Gone(k)]
        BY <1>3, <3>1 DEF Reap, EndsInv, TypeOK
      <4>2. k \in Keys /\ builds'[k] = Gone(k)
        BY <1>3, <4>1 DEF Reap, Missing
      <4> QED
        BY <4>1, <4>2 DEF ShowsEnd
    <3>2. CASE h # g
      <4>1. c \in Copy /\ ShowsEnd(c)
        BY <1>3, <3>2 DEF Reap, EndsInv, TypeOK, CopiesFinal
      <4> QED
        BY <2>1, <4>1, KeptEnds DEF EndsInv, ShowsEnd, Copy, IsTerminal
    <3> QED
      BY <3>1, <3>2
  <2>4. ASSUME NEW h \in Goroutines
        PROVE  ShowsEnd(sending[h])'
    <3>1. sending' = sending
      BY <1>3 DEF Reap
    <3>2. CASE sending[h] = Nothing
      BY <3>1, <3>2 DEF ShowsEnd, Nothing, Absent, IsTerminal, Terminal
    <3>3. CASE sending[h] \in Copy
      BY <2>1, <3>1, <3>3, KeptEnds DEF EndsInv, CopiesFinal, ShowsEnd, Copy, IsTerminal
    <3> QED
      BY <3>2, <3>3 DEF EndsInv, TypeOK
  <2> QED
    BY <2>1, <2>2, <2>3, <2>4 DEF CopiesFinal
<1>4. ASSUME Restart
      PROVE  StoredEndIsFinal' /\ CopiesFinal'
  <2>1. ShowsEnd(Nothing)'
    BY DEF ShowsEnd, Nothing, Absent, IsTerminal, Terminal
  <2>2. CopiesFinal'
    BY <1>4, <2>1 DEF Restart, CopiesFinal, ShowsEnd
  <2>3. StoredEndIsFinal'
    BY <1>4 DEF Restart, StoredEndIsFinal, Hydrated, IsTerminal, Terminal
  <2> QED
    BY <2>2, <2>3
<1>5. ASSUME UNCHANGED <<builds, store, out, sending>>
      PROVE  EndsKept /\ StoredEndIsFinal' /\ CopiesFinal'
  BY <1>5 DEF EndsInv, StoredEndIsFinal, CopiesFinal, ShowsEnd, EndsKept
<1>6. ASSUME NEW g \in Passes, Reconcile(g)
      PROVE  EndsKept /\ StoredEndIsFinal' /\ CopiesFinal'
  <2>1. ASSUME NEW z \in Bazels, Merge(g, z)
        PROVE  EndsKept /\ StoredEndIsFinal' /\ CopiesFinal'
    BY <2>1, MergeMutates, MutationKeeps DEF EndsInv
  <2>2. ASSUME Scan(g) \/ (\E z \in Bazels : SkipUnresolved(g, z))
        PROVE  UNCHANGED <<builds, store, out, sending>>
    BY <2>2 DEF Scan, SkipUnresolved
  <2> QED
    BY <1>3, <1>5, <1>6, <2>1, <2>2 DEF Reconcile
<1>7. ASSUME NEW g \in Requests, NEW z \in Bazels, Register(g, z) \/ Deregister(g, z)
      PROVE  EndsKept /\ StoredEndIsFinal' /\ CopiesFinal'
  BY <1>7, RequestMutates, MutationKeeps DEF EndsInv
<1>8. ASSUME NEW z \in Bazels, BepStarted(z) \/ BepFinalize(z)
      PROVE  EndsKept /\ StoredEndIsFinal' /\ CopiesFinal'
  BY <1>8, TailMutates, MutationKeeps DEF EndsInv
<1>9. ASSUME NEW z \in Bazels, Starts(z) \/ Ends(z)
      PROVE  UNCHANGED <<builds, store, out, sending>>
  BY <1>9 DEF Starts, Ends
<1>10. ASSUME UNCHANGED vars
       PROVE  UNCHANGED <<builds, store, out, sending>>
  BY <1>10 DEF vars
<1>11. ASSUME Quiet
       PROVE  EndsKept /\ StoredEndIsFinal' /\ CopiesFinal'
  BY <1>1, <1>5, <1>6, <1>7, <1>8, <1>9, <1>11 DEF Quiet
<1> QED
  BY <1>t, <1>2, <1>4, <1>5, <1>10, <1>11 DEF Next, EndsInv

LEMMA EndsInvariance == Spec => []EndsInv
<1>1. EndsInv /\ [Next]_vars => EndsInv'
  BY EndsStep
<1> QED
  BY EndsInit, <1>1, PTL DEF Spec

(* An end on disk is the end the registry reports (StoredEndIsFinal).      *)
THEOREM StoredEndsFinal == Spec => []StoredEndIsFinal
BY EndsInvariance, PTL DEF EndsInv

(* Ended builds stay ended, and known ones known, while the daemon lives   *)
(* (EndsOnce).                                                             *)
THEOREM EndsStay == Spec => EndsOnce
<1>1. EndsInv /\ [Next]_vars => [Restart \/ EndsKept]_vars
  BY EndsStep
<1>2. Spec => [][Restart \/ EndsKept]_vars
  BY <1>1, EndsInvariance, PTL DEF Spec
<1> QED
  BY <1>2 DEF EndsOnce, EndsKept

-----------------------------------------------------------------------------
(* What has no entry has no pid, and what was scanned was born.            *)
Blank ==
  /\ \A k \in Keys : ~Known(builds[k]) => builds[k].pid = None
  /\ \A k \in Keys : ~Known(store[k]) => store[k].pid = None
  /\ \A g \in Goroutines : \A c \in out[g] : Known(c.build)
  /\ \A g \in Passes : \A z \in scan[g] : process[z] # "unborn"

(* A process z stands for the pid p of a running build: if it is still     *)
(* alive, the pass at work has it ahead or has seen the pid, unless it     *)
(* cannot resolve it.                                                      *)
StandsFor(z, p) ==
  /\ PidOf[z] = p /\ process[z] # "unborn"
  /\ process[z] = "live" =>
       z \in Unresolved \/ \A g \in Passes : pass[g] = "merging" => z \in scan[g] \/ p \in seen[g]

(* A build that a reap may call gone.                                      *)
Perishable(b) == b.state = "running" /\ b.source = "discovered" /\ b.pid # None

Sighted == \A k \in Keys : Perishable(builds[k]) => \E z \in Bazels : StandsFor(z, builds[k].pid)

GoneInv == TypeOK /\ Blank /\ Sighted

LEMMA GoneInit == Init => GoneInv
BY TypeInit DEF Init, GoneInv, Blank, Sighted, Perishable, Absent, Known

(* The tailer merges into the entry of its own build.                      *)
LEMMA TailEntry ==
  ASSUME NEW i \in Ids, NEW g, NEW st, Upsert(g, None, i, st)
  PROVE  Commit(g, i, Merged(builds[i], None, st))
<1>1. i # None
  BY RegistryAssumption DEF Keys
<1>2. Entries(None, i) = {i}
  BY <1>1 DEF Entries
<1> QED
  BY <1>2 DEF Upsert

(* A mutation that is no merge of a pass lets no build become perishable,  *)
(* nor running ones gone.                                                  *)
Harmless(g) ==
  \E k \in Keys, b \in Build :
    /\ Commit(g, k, b) /\ Known(b)
    /\ Perishable(b) => Perishable(builds[k]) /\ b.pid = builds[k].pid
    /\ b.state = "gone" => builds[k].state = "gone"

LEMMA RequestHarmless ==
  ASSUME TypeOK, NEW g \in Requests, NEW z \in Bazels, Register(g, z) \/ Deregister(g, z)
  PROVE  Harmless(g)
<1> DEFINE i == IdOf[z]
<1>1. i \in Keys /\ builds[i] \in Build /\ PidOf[z] \in Pids
  BY Kinds DEF TypeOK
<1>2. ASSUME Register(g, z) PROVE Harmless(g)
  <2>1. PICK p \in {None, PidOf[z]} : Commit(g, i, Registered(builds[i], p))
    BY <1>2 DEF Register
  <2>2. Registered(builds[i], p) \in Build
    BY <1>1 DEF Registered, Build, IsTerminal, Terminal
  <2>3. /\ ~Perishable(Registered(builds[i], p)) /\ Known(Registered(builds[i], p))
        /\ Registered(builds[i], p).state = "gone" => builds[i].state = "gone"
    BY DEF Registered, Perishable, Known, IsTerminal, Terminal
  <2> QED
    BY <1>1, <2>1, <2>2, <2>3 DEF Harmless
<1>3. ASSUME Deregister(g, z) PROVE Harmless(g)
  <2>1. PICK st \in {"finished", "failed"} : Commit(g, i, [builds[i] EXCEPT !.state = st])
    BY <1>3 DEF Deregister
  <2>2. [builds[i] EXCEPT !.state = st] \in Build
    BY <1>1 DEF Build, Terminal
  <2>3. [builds[i] EXCEPT !.state = st].state = st
    BY <1>1 DEF Build
  <2> QED
    BY <1>1, <2>1, <2>2, <2>3 DEF Harmless, Perishable, Known
<1> QED
  BY <1>2, <1>3

LEMMA TailHarmless ==
  ASSUME TypeOK, Blank, NEW z \in Bazels, BepStarted(z) \/ BepFinalize(z)
  PROVE  Harmless(TailOf[z])
<1> DEFINE i == IdOf[z]
<1>1. i \in Keys /\ i \in Ids /\ builds[i] \in Build
  BY Kinds, RegistryAssumption DEF TypeOK
<1>2. PICK st \in {"running", "finished", "failed"} : Upsert(TailOf[z], None, i, st)
  BY DEF BepStarted, BepFinalize
<1>3. Commit(TailOf[z], i, Merged(builds[i], None, st))
  BY <1>1, <1>2, TailEntry
<1>4. Merged(builds[i], None, st) \in Build /\ Known(Merged(builds[i], None, st))
  BY <1>1 DEF Build, Merged, Terminal, IsTerminal, Known
<1>5. Merged(builds[i], None, st).state = "gone" => builds[i].state = "gone"
  BY DEF Merged, IsTerminal, Terminal, Known
<1>6. ~Known(builds[i]) => builds[i].pid = None
  BY <1>1 DEF Blank
<1>7. Perishable(Merged(builds[i], None, st)) =>
        Perishable(builds[i]) /\ Merged(builds[i], None, st).pid = builds[i].pid
  BY <1>6 DEF Merged, Perishable, IsTerminal, Terminal, Known
<1> QED
  BY <1>1, <1>3, <1>4, <1>5, <1>7 DEF Harmless

(* A merge writes one entry, which then has the pid of the process.        *)
LEMMA MergeWrites ==
  ASSUME TypeOK, NEW g \in Passes, NEW z \in Bazels, Merge(g, z)
  PROVE  \E k \in Keys, b \in Build :
           Commit(g, k, b) /\ Known(b) /\ b.pid = PidOf[z] /\ (b.state = "gone" => builds[k].state = "gone")
<1> DEFINE p == PidOf[z]
<1>1. p \in Pids /\ p \in Keys /\ p # None
  BY Kinds
<1>2. PICK k \in Entries(p, None) : Commit(g, k, Merged(builds[k], p, "running"))
  BY DEF Merge, Upsert
<1>3. k \in Keys
  BY <1>1, <1>2 DEF Entries
<1>4. builds[k] \in Build
  BY <1>3 DEF TypeOK
<1>5. Merged(builds[k], p, "running") \in Build /\ Known(Merged(builds[k], p, "running"))
  BY <1>1, <1>4 DEF Build, Merged, Terminal, IsTerminal, Known
<1>6. /\ Merged(builds[k], p, "running").pid = p
      /\ Merged(builds[k], p, "running").state = "gone" => builds[k].state = "gone"
  BY <1>1 DEF Merged, Terminal, IsTerminal, Known
<1> QED
  BY <1>2, <1>3, <1>5, <1>6

(* A mutation writes no blank.                                             *)
LEMMA CommitBlank ==
  ASSUME GoneInv, NEW g \in Goroutines, NEW k \in Keys, NEW b \in Build, Commit(g, k, b), Known(b)
  PROVE  /\ \A j \in Keys : ~Known(builds'[j]) => builds'[j].pid = None
         /\ \A j \in Keys : ~Known(store'[j]) => store'[j].pid = None
         /\ \A h \in Goroutines : \A c \in out'[h] : Known(c.build)
<1>1. /\ builds' = [builds EXCEPT ![k] = b] /\ store' = store
      /\ out' = [out EXCEPT ![g] = {[key |-> k, build |-> b]}]
  BY DEF Commit
<1>2. ASSUME NEW h \in Goroutines, NEW c \in out'[h] PROVE Known(c.build)
  BY <1>1, <1>2 DEF GoneInv, TypeOK, Blank
<1>3. ASSUME NEW j \in Keys PROVE ~Known(builds'[j]) => builds'[j].pid = None
  BY <1>1 DEF GoneInv, TypeOK, Blank
<1> QED
  BY <1>1, <1>2, <1>3 DEF GoneInv, Blank

LEMMA BlankStep ==
  ASSUME GoneInv, [Next]_vars
  PROVE  Blank'
<1> USE Kinds
<1> DEFINE Filled == /\ \A j \in Keys : ~Known(builds'[j]) => builds'[j].pid = None
                     /\ \A j \in Keys : ~Known(store'[j]) => store'[j].pid = None
                     /\ \A h \in Goroutines : \A c \in out'[h] : Known(c.build)
           Born == \A g \in Passes : \A z \in scan'[g] : process'[z] # "unborn"
<1>1. ASSUME NEW g \in Goroutines, Persist(g)
      PROVE  Filled /\ Born
  <2>1. PICK c \in out[g] : /\ Written(c) \/ UNCHANGED store
                            /\ out' = [out EXCEPT ![g] = @ \ {c}]
    BY <1>1 DEF Persist
  <2>2. Known(c.build) /\ UNCHANGED <<builds, scan, process>>
    BY <1>1 DEF Persist, GoneInv, Blank, passVars
  <2>3. \A h \in Goroutines : out'[h] \subseteq out[h]
    BY <2>1 DEF GoneInv, TypeOK
  <2>4. \A j \in Keys : ~Known(store'[j]) => store'[j].pid = None
    BY <2>1, <2>2 DEF GoneInv, TypeOK, Blank, Written
  <2> QED
    BY <2>2, <2>3, <2>4 DEF GoneInv, Blank
<1>2. ASSUME NEW g \in Goroutines, Harmless(g), UNCHANGED <<passVars, process>>
      PROVE  Filled /\ Born
  <2>1. Born
    BY <1>2 DEF passVars, GoneInv, Blank
  <2> QED
    BY <1>2, <2>1, CommitBlank DEF Harmless
<1>3. ASSUME NEW g \in Passes, NEW z \in Bazels, Merge(g, z)
      PROVE  Filled /\ Born
  <2>1. Born
    BY <1>3 DEF Merge, GoneInv, TypeOK, Blank
  <2> QED
    BY <1>3, <2>1, MergeWrites, CommitBlank DEF GoneInv
<1>4. ASSUME NEW g \in Passes, Scan(g) \/ (\E z \in Bazels : SkipUnresolved(g, z))
      PROVE  Filled /\ Born
  BY <1>4 DEF Scan, SkipUnresolved, GoneInv, TypeOK, Blank, Live
<1>5. ASSUME NEW g \in Passes, Reap(g)
      PROVE  Filled /\ Born
  <2>1. \A k \in Keys : k \in Missing(g) => Known(Gone(k))
    BY DEF Missing, Gone, Known, GoneInv, TypeOK, Build
  <2>2. \A h \in Goroutines : \A c \in out'[h] : Known(c.build)
    BY <1>5, <2>1 DEF Reap, Missing, GoneInv, TypeOK, Blank
  <2>3. \A j \in Keys : ~Known(builds'[j]) => builds'[j].pid = None
    BY <1>5, <2>1 DEF Reap, GoneInv, Blank
  <2> QED
    BY <1>5, <2>2, <2>3 DEF Reap, GoneInv, Blank
<1>6. ASSUME Restart
      PROVE  Filled /\ Born
  <2>1. \A k \in Keys : builds'[k] = Hydrated(store[k]) /\ store[k] \in Build
    BY <1>6 DEF Restart, GoneInv, TypeOK
  <2>2. \A k \in Keys : ~Known(builds'[k]) => builds'[k].pid = None
    BY <2>1 DEF Hydrated, Known, GoneInv, Blank, Build
  <2> QED
    BY <1>6, <2>2 DEF Restart, GoneInv, Blank
<1>7. ASSUME NEW z \in Bazels, Starts(z) \/ Ends(z)
      PROVE  Filled /\ Born
  <2>1. UNCHANGED <<builds, store, out, scan>>
    BY <1>7 DEF Starts, Ends, passVars
  <2>2. \A y \in Bazels : process[y] # "unborn" => process'[y] # "unborn"
    BY <1>7 DEF Starts, Ends, GoneInv, TypeOK
  <2> QED
    BY <2>1, <2>2 DEF GoneInv, TypeOK, Blank
<1>8. ASSUME UNCHANGED <<builds, store, out, scan, process>>
      PROVE  Filled /\ Born
  BY <1>8 DEF GoneInv, Blank
<1>9. ASSUME NEW z \in Bazels, BepStarted(z) \/ BepFinalize(z)
      PROVE  Filled /\ Born
  BY <1>2, <1>9, TailHarmless DEF GoneInv, BepStarted, BepFinalize
<1>10. ASSUME NEW g \in Requests, NEW z \in Bazels, Register(g, z) \/ Deregister(g, z)
       PROVE  Filled /\ Born
  BY <1>2, <1>10, RequestHarmless DEF GoneInv, Register, Deregister
<1>11. ASSUME NEW g \in Goroutines, Broadcast(g)
       PROVE  Filled /\ Born
  BY <1>8, <1>11 DEF Broadcast, passVars
<1>12. ASSUME UNCHANGED vars
       PROVE  Filled /\ Born
  BY <1>8, <1>12 DEF vars, passVars
<1>13. ASSUME NEW g \in Passes, Reconcile(g)
       PROVE  Filled /\ Born
  BY <1>3, <1>4, <1>5, <1>13 DEF Reconcile
<1>14. Filled /\ Born
  BY <1>1, <1>6, <1>7, <1>9, <1>10, <1>11, <1>12, <1>13 DEF Next, Quiet
<1> QED
  BY <1>14 DEF Blank, Known

(* If there is but one pass, only processes and the pass itself matter to  *)
(* what a process stands for.                                              *)
OneReconciler == \A g, h \in Passes : g = h

(* Enough for a step: what stood for a pid still does, and a new build has *)
(* a process that does.                                                    *)
LEMMA SightedFrame ==
  ASSUME GoneInv,
         \A z \in Bazels, p \in Pids : StandsFor(z, p) => StandsFor(z, p)',
         \A k \in Keys : Perishable(builds'[k]) =>
           \/ Perishable(builds[k]) /\ builds'[k].pid = builds[k].pid
           \/ \E z \in Bazels, p \in Pids : StandsFor(z, p)' /\ builds'[k].pid = p
  PROVE  Sighted'
<1> SUFFICES ASSUME NEW k \in Keys, Perishable(builds'[k])
             PROVE  \E z \in Bazels, p \in Pids : StandsFor(z, p)' /\ builds'[k].pid = p
  BY DEF Sighted, Perishable, StandsFor
<1>1. CASE Perishable(builds[k]) /\ builds'[k].pid = builds[k].pid
  <2>1. builds[k].pid \in Pids
    BY <1>1 DEF GoneInv, TypeOK, Build, Perishable
  <2>2. PICK z \in Bazels : StandsFor(z, builds[k].pid)
    BY <1>1 DEF GoneInv, Sighted
  <2>3. \E p \in Pids : StandsFor(z, p) /\ builds'[k].pid = p
    BY <1>1, <2>1, <2>2
  <2> QED
    BY <2>3
<1> QED
  BY <1>1

LEMMA SightedStep ==
  ASSUME GoneInv, OneReconciler, [Next]_vars
  PROVE  Sighted'
<1> USE Kinds
<1>1. ASSUME UNCHANGED <<passVars, process>>,
             \A k \in Keys : Perishable(builds'[k]) =>
               Perishable(builds[k]) /\ builds'[k].pid = builds[k].pid
      PROVE  Sighted'
  <2>1. \A z \in Bazels, p \in Pids : StandsFor(z, p) => StandsFor(z, p)'
    BY <1>1 DEF StandsFor, passVars
  <2> QED
    BY <1>1, <2>1, SightedFrame
<1>2. ASSUME NEW g \in Goroutines, Harmless(g), UNCHANGED <<passVars, process>>
      PROVE  Sighted'
  BY <1>1, <1>2 DEF Harmless, Commit, GoneInv, TypeOK
<1>3. ASSUME NEW g \in Passes, NEW z \in Bazels, Merge(g, z)
      PROVE  Sighted'
  <2>1. PICK k \in Keys, b \in Build : Commit(g, k, b) /\ b.pid = PidOf[z]
    BY <1>3, MergeWrites DEF GoneInv
  <2>2. /\ z \in scan[g] /\ process' = process /\ pass' = pass
        /\ scan'[g] = scan[g] \ {z} /\ seen'[g] = seen[g] \cup {PidOf[z]}
    BY <1>3 DEF Merge, GoneInv, TypeOK
  <2>3. \A y \in Bazels, p \in Pids : StandsFor(y, p) => StandsFor(y, p)'
    BY <2>2 DEF StandsFor, OneReconciler
  <2>4. StandsFor(z, PidOf[z])'
    BY <2>2 DEF StandsFor, OneReconciler, GoneInv, Blank
  <2>5. builds' = [builds EXCEPT ![k] = b]
    BY <2>1 DEF Commit
  <2>6. \A j \in Keys : Perishable(builds'[j]) =>
          \/ Perishable(builds[j]) /\ builds'[j].pid = builds[j].pid
          \/ \E y \in Bazels, p \in Pids : StandsFor(y, p)' /\ builds'[j].pid = p
    BY <2>1, <2>4, <2>5 DEF GoneInv, TypeOK
  <2> QED
    BY <2>3, <2>6, SightedFrame
<1>4. ASSUME NEW g \in Passes, Scan(g)
      PROVE  Sighted'
  <2>1. /\ builds' = builds /\ process' = process /\ scan'[g] = Live
    BY <1>4 DEF Scan, GoneInv, TypeOK
  <2>2. \A y \in Bazels, p \in Pids : StandsFor(y, p) => StandsFor(y, p)'
    BY <2>1 DEF StandsFor, OneReconciler, Live
  <2> QED
    BY <2>1, <2>2, SightedFrame
<1>5. ASSUME NEW g \in Passes, NEW z \in Bazels, SkipUnresolved(g, z)
      PROVE  Sighted'
  <2>1. /\ builds' = builds /\ process' = process /\ pass' = pass /\ seen' = seen
        /\ z \in Unresolved /\ scan'[g] = scan[g] \ {z}
    BY <1>5 DEF SkipUnresolved, GoneInv, TypeOK
  <2>2. \A y \in Bazels, p \in Pids : StandsFor(y, p) => StandsFor(y, p)'
    BY <2>1 DEF StandsFor, OneReconciler
  <2> QED
    BY <2>1, <2>2, SightedFrame
<1>6. ASSUME NEW g \in Passes, Reap(g)
      PROVE  Sighted'
  <2>1. /\ process' = process /\ pass'[g] = "idle"
        /\ \A k \in Keys : builds'[k] = IF k \in Missing(g) THEN Gone(k) ELSE builds[k]
    BY <1>6 DEF Reap, GoneInv, TypeOK
  <2>2. \A y \in Bazels, p \in Pids : StandsFor(y, p) => StandsFor(y, p)'
    BY <2>1 DEF StandsFor, OneReconciler
  <2>3. \A k \in Keys : ~Perishable(Gone(k))
    BY DEF Gone, Perishable, GoneInv, TypeOK, Build
  <2> QED
    BY <2>1, <2>2, <2>3, SightedFrame
<1>7. ASSUME Restart
      PROVE  Sighted'
  <2>1. \A k \in Keys : builds'[k] = Hydrated(store[k]) /\ store[k] \in Build
    BY <1>7 DEF Restart, GoneInv, TypeOK
  <2>2. \A k \in Keys : ~Perishable(builds'[k])
    BY <2>1 DEF Hydrated, Perishable, Build
  <2> QED
    BY <2>2 DEF Sighted, Perishable
<1>8. ASSUME NEW z \in Bazels, Starts(z) \/ Ends(z)
      PROVE  Sighted'
  <2>1. UNCHANGED <<builds, passVars>>
    BY <1>8 DEF Starts, Ends
  <2>2. \A y \in Bazels : process[y] # "unborn" =>
          process'[y] # "unborn" /\ (process'[y] = "live" => process[y] = "live")
    BY <1>8 DEF Starts, Ends, GoneInv, TypeOK
  <2>3. \A y \in Bazels, p \in Pids : StandsFor(y, p) => StandsFor(y, p)'
    BY <2>1, <2>2 DEF StandsFor, passVars
  <2> QED
    BY <2>1, <2>3, SightedFrame
<1>9. ASSUME NEW z \in Bazels, BepStarted(z) \/ BepFinalize(z)
      PROVE  Sighted'
  BY <1>2, <1>9, TailHarmless DEF GoneInv, BepStarted, BepFinalize
<1>10. ASSUME NEW g \in Requests, NEW z \in Bazels, Register(g, z) \/ Deregister(g, z)
       PROVE  Sighted'
  BY <1>2, <1>10, RequestHarmless DEF GoneInv, Register, Deregister
<1>11. ASSUME NEW g \in Goroutines, Persist(g) \/ Broadcast(g)
       PROVE  Sighted'
  BY <1>1, <1>11 DEF Persist, Broadcast
<1>12. ASSUME UNCHANGED vars
       PROVE  Sighted'
  BY <1>1, <1>12 DEF vars
<1>13. ASSUME NEW g \in Passes, Reconcile(g)
       PROVE  Sighted'
  BY <1>3, <1>4, <1>5, <1>6, <1>13 DEF Reconcile
<1> QED
  BY <1>7, <1>8, <1>9, <1>10, <1>11, <1>12, <1>13 DEF Next, Quiet

(* Only a reap calls a running build gone.                                 *)
LEMMA GoneByReap ==
  ASSUME GoneInv, [Next]_vars, ~Restart, NEW k \in Keys,
         builds[k].state = "running", builds'[k].state = "gone"
  PROVE  \E g \in Passes : Reap(g) /\ k \in Missing(g)
<1> USE Kinds
<1>1. ASSUME NEW g \in Goroutines, Harmless(g) PROVE FALSE
  BY <1>1 DEF Harmless, Commit, GoneInv, TypeOK
<1>2. ASSUME NEW g \in Passes, NEW z \in Bazels, Merge(g, z) PROVE FALSE
  BY <1>2, MergeWrites DEF Commit, GoneInv, TypeOK
<1>3. ASSUME NEW g \in Passes, Reap(g) PROVE k \in Missing(g)
  BY <1>3 DEF Reap
<1>4. ASSUME builds' = builds PROVE FALSE
  BY <1>4
<1>5. ASSUME NEW z \in Bazels, BepStarted(z) \/ BepFinalize(z) PROVE FALSE
  BY <1>1, <1>5, TailHarmless DEF GoneInv
<1>6. ASSUME NEW g \in Requests, NEW z \in Bazels, Register(g, z) \/ Deregister(g, z) PROVE FALSE
  BY <1>1, <1>6, RequestHarmless DEF GoneInv
<1>7. ASSUME NEW g \in Passes, Reconcile(g) PROVE Reap(g)
  BY <1>2, <1>4, <1>7 DEF Reconcile, Scan, SkipUnresolved
<1>8. ASSUME \/ \E g \in Goroutines : Persist(g) \/ Broadcast(g)
             \/ \E z \in Bazels : Starts(z) \/ Ends(z)
             \/ UNCHANGED vars
      PROVE  FALSE
  BY <1>4, <1>8 DEF Persist, Broadcast, Starts, Ends, vars
<1> QED
  BY <1>3, <1>5, <1>6, <1>7, <1>8 DEF Next, Quiet

(* A single reconcile pass calls a build gone only if its process ended,   *)
(* or runs where the pass cannot resolve it (GoneMeansVanished).           *)
THEOREM GoneHaveVanished ==
  ASSUME OneReconciler
  PROVE  Spec => GoneMeansVanished
<1>1. GoneInv /\ [Next]_vars => GoneInv'
  BY TypeStep, BlankStep, SightedStep DEF GoneInv
<1>2. GoneInv /\ [Next]_vars =>
        [Restart \/ \A k \in Keys :
           builds[k].state = "running" /\ builds'[k].state = "gone"
             => \E z \in Bazels :
                  /\ PidOf[z] = builds[k].pid
                  /\ process[z] = "dead" \/ (process[z] = "live" /\ z \in Unresolved)]_vars
  <2> SUFFICES ASSUME GoneInv, [Next]_vars, ~Restart, NEW k \in Keys,
                      builds[k].state = "running", builds'[k].state = "gone"
               PROVE  \E z \in Bazels :
                        /\ PidOf[z] = builds[k].pid
                        /\ process[z] = "dead" \/ (process[z] = "live" /\ z \in Unresolved)
    OBVIOUS
  <2>1. PICK g \in Passes : Reap(g) /\ k \in Missing(g)
    BY GoneByReap
  <2>2. Perishable(builds[k]) /\ builds[k].pid \notin seen[g]
    BY <2>1 DEF Missing, Perishable
  <2>3. PICK z \in Bazels : StandsFor(z, builds[k].pid)
    BY <2>2 DEF GoneInv, Sighted
  <2>4. pass[g] = "merging" /\ scan[g] = {}
    BY <2>1 DEF Reap
  <2> QED
    BY <2>2, <2>3, <2>4 DEF StandsFor, GoneInv, TypeOK
<1> QED
  BY GoneInit, <1>1, <1>2, PTL DEF Spec, GoneMeansVanished
=============================================================================
