--------------------------- MODULE AdmissionPromise ---------------------------
(***************************************************************************)
(* The properties of the admission engine that relate several of its       *)
(* parts: it implements SlotQueue, it never forgets to wake the queue, and *)
(* a drain leaves nobody behind.                                           *)
(***************************************************************************)
EXTENDS Admission

Waiting == {i \in Ids : \E n \in DOMAIN queue :
              Queued(queue[n]) /\ IdOf(queue[n]) = i}

Ahead == {e \in Ids \X Ids : \E m, n \in DOMAIN queue :
            /\ m < n
            /\ Queued(queue[m]) /\ IdOf(queue[m]) = e[1]
            /\ Queued(queue[n]) /\ IdOf(queue[n]) = e[2]}

Promise == INSTANCE SlotQueue
             WITH waiting <- Waiting, ahead <- Ahead, holders <- held

(* The engine implements the promise: FIFO order among the waiting ids,    *)
(* survived by re-polls, timeouts and the garbage collection of others, no *)
(* overtaking even when the head is held by a load or stagger gate, and a  *)
(* bounded number of slots (doc.go "Slot lifecycle", schedule() "FIFO      *)
(* fairness: do NOT skip the head").                                       *)
KeepsPromise == Promise!Spec

(* Nobody is inside schedule(), on the way to it, or about to free a slot. *)
Quiet ==
  /\ mu = None
  /\ \A p \in Procs : pc[p] \notin {"kick", "gates", "reset"}

(* The first waiter of the line. *)
Foremost(w) ==
  /\ Queued(w)
  /\ \E n \in DOMAIN queue :
       queue[n] = w /\ \A m \in 1..(n - 1) : ~Queued(queue[m])

(* No lost wake-up: when the engine is at rest and not paused, a foremost  *)
(* waiter whose gates would all admit it has a retry timer to wake it.     *)
(* This is what the calls of schedule() after attach, Release, the policy  *)
(* setters and the load sample, and the retry timers, are for.             *)
NoLostWakeup ==
  Quiet /\ ~paused /\ ~draining =>
    \A w \in Waiters : Foremost(w) /\ GatesAdmit(IdOf(w)) => timers # {}

(* Pausing "holds all admissions (no DENY)" (engine.go:359): no waiter     *)
(* gets a verdict while the engine is paused, not even from a schedule()   *)
(* that looked at the switch before.                                       *)
PauseHolds ==
  [][paused => \A w \in Waiters :
       Queued(w) => wstate'[w] # "admitted" /\ ch'[w] = ch[w]]_vars

(* A drain empties the queue: once the engine is at rest, draining and not *)
(* paused, nobody is left waiting (SetDraining "DENYs all queued + new     *)
(* waiters").                                                              *)
DrainLeavesNobody ==
  Quiet /\ draining /\ ~paused => \A w \in Waiters : ~Queued(w)
=============================================================================
