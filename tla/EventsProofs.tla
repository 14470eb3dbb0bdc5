------------------------------ MODULE EventsProofs ------------------------------
(***************************************************************************)
(* What a client of the event stream may rely on, for every number of      *)
(* builds, goroutines and clients and every buffer size.                   *)
(***************************************************************************)
EXTENDS Events, RegistryProofs, SequenceTheorems

(* The registry inside the event stream is the registry.                   *)
LEMMA StepOfRegistry ==
  ASSUME [EventsNext]_allVars
  PROVE  [Next]_vars
<1>1. CASE Quiet
  BY <1>1 DEF Next
<1>2. ASSUME NEW g \in Goroutines, Publish(g) PROVE Next
  BY <1>2 DEF Publish, Next
<1>3. CASE RestartAll
  BY <1>3 DEF RestartAll, Next
<1>4. ASSUME NEW w \in Watchers, Watch(w) \/ Disconnect(w) PROVE UNCHANGED vars
  BY <1>4 DEF Watch, Disconnect, CloseDropped, HangUp, Greet, Subscribe, Forward
<1>5. ASSUME NEW z \in Bazels, PublishMetrics(z) PROVE UNCHANGED vars
  BY <1>5 DEF PublishMetrics
<1>6. CASE UNCHANGED allVars
  BY <1>6 DEF allVars
<1> QED
  BY <1>1, <1>2, <1>3, <1>4, <1>5, <1>6 DEF EventsNext

(* The types of what a client and its handler hold.                        *)
ListsTyped ==
  /\ buffer \in [Watchers -> Seq(Event)]
  /\ view \in [Watchers -> [Keys -> Build]]
  /\ conn \in [Watchers -> {"down", "greeted", "open", "dropped"}]

(* No event on its way to a client shows an end that did not happen.       *)
BuffersFinal ==
  \A w \in Watchers : \A n \in 1..Len(buffer[w]) : ShowsEnd(buffer[w][n])

ClientInv == EndsInv /\ ListsTyped /\ BuffersFinal /\ ClientNeverAhead

LEMMA ClientInit == EventsInit => ClientInv
<1> SUFFICES ASSUME EventsInit PROVE ClientInv
  OBVIOUS
<1>1. EndsInv
  BY EndsInit DEF EventsInit
<1>2. \A w \in Watchers : buffer[w] = <<>> /\ conn[w] = "down"
  BY DEF EventsInit
<1>3. ListsTyped
  BY DEF EventsInit, ListsTyped, NoBuilds, Absent, Build
<1>4. BuffersFinal
  BY <1>2 DEF BuffersFinal
<1> QED
  BY <1>1, <1>2, <1>3, <1>4 DEF ClientInv, ClientNeverAhead

(* A step that keeps the ends and leaves the clients alone is harmless.    *)
LEMMA ClientsAlone ==
  ASSUME ClientInv, EndsKept, UNCHANGED eventVars
  PROVE  ListsTyped' /\ BuffersFinal' /\ ClientNeverAhead'
<1>1. \A e \in Event : ShowsEnd(e) => ShowsEnd(e)'
  BY KeptEnds DEF ClientInv, EndsInv, Event, ShowsEnd, Copy, Nothing, Absent, IsTerminal, Terminal
<1>2. \A w \in Watchers : \A n \in 1..Len(buffer[w]) : buffer[w][n] \in Event
  BY DEF ClientInv, ListsTyped
<1>3. BuffersFinal'
  BY <1>1, <1>2 DEF ClientInv, BuffersFinal, eventVars, ShowsEnd
<1>4. ClientNeverAhead'
  <2> SUFFICES ASSUME NEW w \in Watchers, NEW k \in Keys,
                      conn[w] # "down", IsTerminal(view[w][k])
               PROVE  builds'[k].state = view[w][k].state
    BY DEF ClientNeverAhead, eventVars
  <2>1. view[w][k] \in Build /\ builds[k].state = view[w][k].state
    BY DEF ClientInv, ListsTyped, ClientNeverAhead
  <2> QED
    BY <2>1 DEF EndsKept, IsTerminal
<1> QED
  BY <1>3, <1>4 DEF ClientInv, ListsTyped, eventVars

(* An event that shows no false end may go into every buffer.              *)
LEMMA OfferKeeps ==
  ASSUME ClientInv, NEW e \in Event, ShowsEnd(e), Offer(e), builds' = builds, view' = view
  PROVE  ListsTyped' /\ BuffersFinal' /\ ClientNeverAhead'
<1>1. /\ buffer' = [w \in Watchers |->
             IF conn[w] = "open" /\ ~Full(w) THEN Append(buffer[w], e) ELSE buffer[w]]
      /\ conn' = [w \in Watchers |->
             IF conn[w] = "open" /\ Full(w) THEN "dropped" ELSE conn[w]]
  BY DEF Offer
<1>2. ListsTyped'
  <2>1. \A w \in Watchers : Append(buffer[w], e) \in Seq(Event)
    BY AppendProperties DEF ClientInv, ListsTyped
  <2> QED
    BY <1>1, <2>1 DEF ClientInv, ListsTyped
<1>3. ASSUME NEW w \in Watchers, NEW n \in 1..Len(buffer'[w])
      PROVE  ShowsEnd(buffer'[w][n])
  <2>1. buffer[w] \in Seq(Event)
    BY DEF ClientInv, ListsTyped
  <2>2. CASE buffer'[w] = buffer[w]
    BY <2>2 DEF ClientInv, BuffersFinal
  <2>3. CASE buffer'[w] = Append(buffer[w], e)
    BY <2>1, <2>3, AppendProperties DEF ClientInv, BuffersFinal
  <2> QED
    BY <1>1, <2>2, <2>3
<1>4. BuffersFinal'
  BY <1>3 DEF BuffersFinal, ShowsEnd
<1>5. ClientNeverAhead'
  BY <1>1 DEF ClientInv, ListsTyped, ClientNeverAhead
<1> QED
  BY <1>2, <1>4, <1>5

LEMMA PublishKeeps ==
  ASSUME ClientInv, NEW g \in Goroutines, Publish(g)
  PROVE  ListsTyped' /\ BuffersFinal' /\ ClientNeverAhead'
<1>1. sending[g] \in Event /\ ShowsEnd(sending[g]) /\ builds' = builds /\ view' = view
  BY DEF Publish, Broadcast, ClientInv, EndsInv, TypeOK, CopiesFinal, Event
<1> QED
  BY <1>1, OfferKeeps DEF Publish

LEMMA MetricsKeep ==
  ASSUME ClientInv, NEW z \in Bazels, PublishMetrics(z)
  PROVE  ListsTyped' /\ BuffersFinal' /\ ClientNeverAhead'
<1>1. Nothing \in Event /\ ShowsEnd(Nothing)
  BY DEF Event, ShowsEnd, Nothing, Absent, IsTerminal, Terminal
<1> QED
  BY <1>1, OfferKeeps DEF PublishMetrics, vars

LEMMA WatchKeeps ==
  ASSUME ClientInv, NEW w \in Watchers, Watch(w) \/ Disconnect(w)
  PROVE  ListsTyped' /\ BuffersFinal' /\ ClientNeverAhead'
<1> USE DEF ClientInv, EndsInv, TypeOK, vars
<1>1. CASE Greet(w)
  <2>1. ListsTyped' /\ BuffersFinal'
    BY <1>1 DEF Greet, ListsTyped, BuffersFinal, ShowsEnd
  <2>2. ClientNeverAhead'
    BY <1>1 DEF Greet, ListsTyped, ClientNeverAhead
  <2> QED
    BY <2>1, <2>2
<1>2. CASE Subscribe(w)
  BY <1>2 DEF Subscribe, ListsTyped, BuffersFinal, ShowsEnd, ClientNeverAhead
<1>3. CASE Forward(w)
  <2> DEFINE c == Head(buffer[w])
  <2>1. buffer[w] \in Seq(Event) /\ buffer[w] # <<>>
    BY <1>3 DEF Forward, ListsTyped
  <2>2. /\ c = buffer[w][1] /\ c \in Event /\ Tail(buffer[w]) \in Seq(Event)
        /\ Len(Tail(buffer[w])) = Len(buffer[w]) - 1 /\ Len(buffer[w]) \in Nat \ {0}
        /\ \A n \in 1..Len(Tail(buffer[w])) : Tail(buffer[w])[n] = buffer[w][n + 1]
    BY <2>1, HeadTailProperties
  <2>3. ShowsEnd(c)
    BY <2>2 DEF BuffersFinal
  <2>4. /\ builds' = builds /\ conn' = conn
        /\ buffer' = [buffer EXCEPT ![w] = Tail(@)]
        /\ view' = [view EXCEPT ![w] = Apply(view[w], c)]
    BY <1>3 DEF Forward, ListsTyped
  <2>c. /\ Apply(view[w], c) \in [Keys -> Build]
        /\ \A k \in Keys : Apply(view[w], c)[k] = view[w][k]
                          \/ (Apply(view[w], c)[k] = c.build /\ c.key = k)
    <3> view[w] \in [Keys -> Build]
      BY DEF ListsTyped
    <3> QED
      BY <2>2 DEF Event, Copy, Apply
  <2> HIDE DEF c
  <2>5. ListsTyped'
    BY <2>2, <2>4, <2>c DEF ListsTyped
  <2>6. ASSUME NEW v \in Watchers, NEW n \in 1..Len(buffer'[v])
        PROVE  ShowsEnd(buffer'[v][n])
    <3>1. CASE v = w
      <4>1. buffer'[v] = Tail(buffer[w])
        BY <2>4, <3>1 DEF ListsTyped
      <4>2. n + 1 \in 1..Len(buffer[w]) /\ buffer'[v][n] = buffer[w][n + 1]
        BY <2>2, <2>6, <4>1
      <4> QED
        BY <4>2 DEF BuffersFinal
    <3>2. CASE v # w
      BY <2>4, <2>6, <3>2 DEF ListsTyped, BuffersFinal
    <3> QED
      BY <3>1, <3>2
  <2>7. BuffersFinal'
    BY <2>4, <2>6 DEF BuffersFinal, ShowsEnd
  <2>8. ClientNeverAhead'
    <3> SUFFICES ASSUME NEW v \in Watchers, NEW k \in Keys,
                        conn[v] # "down", IsTerminal(view'[v][k])
                 PROVE  builds[k].state = view'[v][k].state
      BY <2>4 DEF ClientNeverAhead
    <3>1. CASE view'[v][k] = view[v][k]
      BY <3>1 DEF ClientNeverAhead
    <3>2. CASE v = w /\ Apply(view[w], c)[k] = c.build /\ c.key = k
      <4>1. view'[v][k] = c.build
        BY <2>4, <3>2 DEF ListsTyped
      <4> QED
        BY <2>3, <3>2, <4>1 DEF ShowsEnd
    <3> QED
      BY <2>4, <2>c, <3>1, <3>2 DEF ListsTyped
  <2> QED
    BY <2>5, <2>7, <2>8
<1>4. ASSUME HangUp(w)
      PROVE  ListsTyped' /\ BuffersFinal' /\ ClientNeverAhead'
  <2>1. buffer'[w] = <<>> /\ \A v \in Watchers \ {w} : buffer'[v] = buffer[v]
    BY <1>4 DEF HangUp, ListsTyped
  <2>2. ListsTyped'
    BY <1>4 DEF HangUp, ListsTyped
  <2>3. BuffersFinal'
    BY <1>4, <2>1 DEF HangUp, BuffersFinal, ShowsEnd
  <2>4. ClientNeverAhead'
    BY <1>4 DEF HangUp, ListsTyped, ClientNeverAhead
  <2> QED
    BY <2>2, <2>3, <2>4
<1> QED
  BY <1>1, <1>2, <1>3, <1>4 DEF Watch, CloseDropped, Disconnect

LEMMA ClientStep ==
  ASSUME ClientInv, [EventsNext]_allVars
  PROVE  ClientInv'
<1>1. [Next]_vars
  BY StepOfRegistry
<1>2. EndsInv' /\ (Restart \/ EndsKept)
  BY <1>1, EndsStep DEF ClientInv
<1>3. CASE Quiet /\ UNCHANGED eventVars
  <2>1. EndsKept
    BY <1>1, <1>3, EndsStep DEF ClientInv
  <2> QED
    BY <1>2, <1>3, <2>1, ClientsAlone DEF ClientInv
<1>4. ASSUME NEW g \in Goroutines, Publish(g) PROVE ClientInv'
  BY <1>2, <1>4, PublishKeeps DEF ClientInv
<1>p. ASSUME NEW z \in Bazels, PublishMetrics(z) PROVE ClientInv'
  BY <1>2, <1>p, MetricsKeep DEF ClientInv
<1>5. CASE RestartAll
  <2>1. \A w \in Watchers : buffer'[w] = <<>> /\ conn'[w] = "down"
    BY <1>5 DEF RestartAll
  <2>2. ListsTyped'
    BY <1>5 DEF RestartAll, ClientInv, ListsTyped
  <2>3. BuffersFinal' /\ ClientNeverAhead'
    BY <2>1 DEF BuffersFinal, ClientNeverAhead
  <2> QED
    BY <1>2, <2>2, <2>3 DEF ClientInv
<1>6. ASSUME NEW w \in Watchers, Watch(w) \/ Disconnect(w) PROVE ClientInv'
  BY <1>2, <1>6, WatchKeeps DEF ClientInv
<1>7. CASE UNCHANGED allVars
  BY <1>2, <1>7, ClientsAlone DEF allVars, vars, ClientInv, EndsKept
<1> QED
  BY <1>3, <1>4, <1>p, <1>5, <1>6, <1>7 DEF EventsNext

(* What a connected client shows as ended has ended so (ClientNeverAhead). *)
THEOREM ClientsNeverAhead == EventsSpec => []ClientNeverAhead
<1>1. ClientInv /\ [EventsNext]_allVars => ClientInv'
  BY ClientStep
<1>2. ClientInv => ClientNeverAhead
  BY DEF ClientInv
<1> QED
  BY ClientInit, <1>1, <1>2, PTL DEF EventsSpec

(* The bound of the buffers, and the type of what a client should have.    *)
Bounded ==
  /\ truth \in [Watchers -> [Keys -> Build]]
  /\ \A w \in Watchers : Len(buffer[w]) <= SubBufferSize

LEMMA ApplyTyped ==
  ASSUME NEW list \in [Keys -> Build], NEW e \in Event
  PROVE  Apply(list, e) \in [Keys -> Build]
BY DEF Apply, Event, Copy

LEMMA OfferBounded ==
  ASSUME ClientInv, Bounded, NEW e \in Event, Offer(e)
  PROVE  \A w \in Watchers : Len(buffer'[w]) <= SubBufferSize
<1> SUFFICES ASSUME NEW w \in Watchers PROVE Len(buffer'[w]) <= SubBufferSize
  OBVIOUS
<1>1. buffer[w] \in Seq(Event) /\ Len(buffer[w]) \in Nat /\ Len(buffer[w]) <= SubBufferSize
  BY LenProperties DEF ClientInv, ListsTyped, Bounded
<1>2. Len(Append(buffer[w], e)) = Len(buffer[w]) + 1
  BY <1>1, AppendProperties
<1>3. buffer'[w] = IF conn[w] = "open" /\ ~Full(w) THEN Append(buffer[w], e) ELSE buffer[w]
  BY DEF Offer
<1> QED
  BY <1>1, <1>2, <1>3, EventsAssumption DEF Full

LEMMA BoundedStep ==
  ASSUME ClientInv, Bounded, [EventsNext]_allVars
  PROVE  Bounded'
<1> USE DEF ClientInv, EndsInv, TypeOK, vars
<1>1. CASE UNCHANGED <<buffer, truth>>
  BY <1>1 DEF Bounded
<1>2. ASSUME NEW g \in Goroutines, Publish(g) PROVE Bounded'
  <2>1. sending[g] \in Event
    BY <1>2 DEF Publish, Broadcast, Event
  <2>2. \A w \in Watchers : Len(buffer'[w]) <= SubBufferSize
    BY <1>2, <2>1, OfferBounded DEF Publish
  <2>3. \A w \in Watchers : Apply(truth[w], sending[g]) \in [Keys -> Build]
    BY <2>1, ApplyTyped DEF Bounded
  <2> QED
    BY <1>2, <2>2, <2>3 DEF Publish, Bounded
<1>3. ASSUME NEW z \in Bazels, PublishMetrics(z) PROVE Bounded'
  <2>1. Nothing \in Event /\ Offer(Nothing) /\ truth' = truth
    BY <1>3 DEF PublishMetrics, Event
  <2> QED
    BY <2>1, OfferBounded DEF Bounded
<1>4. ASSUME NEW w \in Watchers, Subscribe(w) PROVE Bounded'
  BY <1>4 DEF Subscribe, Bounded, ListsTyped
<1>5. ASSUME NEW w \in Watchers, Forward(w) PROVE Bounded'
  <2>1. buffer[w] \in Seq(Event) /\ buffer[w] # <<>>
    BY <1>5 DEF Forward, ListsTyped
  <2>2. Len(Tail(buffer[w])) = Len(buffer[w]) - 1 /\ Len(buffer[w]) \in Nat
    BY <2>1, HeadTailProperties, LenProperties
  <2>3. Len(Tail(buffer[w])) <= SubBufferSize
    BY <2>2, EventsAssumption DEF Bounded
  <2>4. buffer' = [buffer EXCEPT ![w] = Tail(@)] /\ truth' = truth
    BY <1>5 DEF Forward
  <2> QED
    BY <2>3, <2>4 DEF Bounded, ListsTyped
<1>6. ASSUME NEW w \in Watchers, HangUp(w) PROVE Bounded'
  BY <1>6, EventsAssumption DEF HangUp, Bounded, ListsTyped
<1>7. CASE RestartAll
  BY <1>7, EventsAssumption DEF RestartAll, Bounded
<1> QED
  BY <1>1, <1>2, <1>3, <1>4, <1>5, <1>6, <1>7 DEF EventsNext, Watch, Greet, CloseDropped, Disconnect,
     eventVars, allVars

(* Every variable keeps its type, and no buffer overflows.                 *)
THEOREM EventsTypeCorrect == EventsSpec => []EventsTypeOK
<1>1. EventsInit => ClientInv /\ Bounded
  BY ClientInit, EventsAssumption DEF EventsInit, Bounded, NoBuilds, Absent, Build
<1>2. ClientInv /\ Bounded /\ [EventsNext]_allVars => (ClientInv /\ Bounded)'
  BY ClientStep, BoundedStep
<1>3. ClientInv /\ Bounded => EventsTypeOK
  BY DEF ClientInv, EndsInv, ListsTyped, Bounded, EventsTypeOK
<1> QED
  BY <1>1, <1>2, <1>3, PTL DEF EventsSpec

-----------------------------------------------------------------------------
(* Nothing is on its way to a client that has yet to subscribe.            *)
FreshStart == \A w \in Watchers : conn[w] \in {"down", "greeted"} => buffer[w] = <<>>

(* Why no event is lost: a client subscribes with an empty buffer and what *)
(* it shows is by definition all there was; then every event goes into     *)
(* both its buffer and the history, or drops it.                           *)
LossInv == ClientInv /\ Bounded /\ FreshStart /\ NoSilentLoss

(* An event has the key it changes, or none.                               *)
LEMMA EventKeys ==
  ASSUME NEW e \in Event, NEW k \in Keys
  PROVE  /\ e.key = k => \A list \in [Keys -> Build] : Apply(list, e)[k] = e.build
         /\ e.key # k => \A list \in [Keys -> Build] : Apply(list, e)[k] = list[k]
<1>1. None # k
  BY RegistryAssumption
<1>2. CASE e = Nothing
  BY <1>1, <1>2 DEF Nothing, Apply
<1>3. CASE e \in Copy
  <2>1. e # Nothing
    BY <1>3, RegistryAssumption DEF Copy, Nothing
  <2> QED
    BY <1>3, <2>1 DEF Copy, Apply
<1> QED
  BY <1>2, <1>3 DEF Event

(* An event that joins the buffer and the history keeps them level.        *)
LEMMA AppendedLevel ==
  ASSUME LossInv, NEW w \in Watchers, NEW k \in Keys, NEW e \in Event,
         WillShow(w, k, truth[w][k]), view' = view, buffer'[w] = Append(buffer[w], e),
         NEW b, b = Apply(truth[w], e)[k]
  PROVE  WillShow(w, k, b)'
<1> DEFINE q == buffer[w]
           r == buffer'[w]
<1>1. /\ truth[w] \in [Keys -> Build] /\ q \in Seq(Event)
      /\ Len(q) \in Nat /\ DOMAIN q = 1..Len(q)
  BY LenProperties DEF LossInv, ClientInv, ListsTyped, Bounded
<1>2. /\ Len(r) = Len(q) + 1 /\ r[Len(q) + 1] = e /\ \A n \in 1..Len(q) : r[n] = q[n]
      /\ DOMAIN r = 1..(Len(q) + 1)
  BY <1>1, AppendProperties, LenProperties
<1>3. /\ e.key = k => b = e.build
      /\ e.key # k => b = truth[w][k]
  BY <1>1, EventKeys
<1> SUFFICES \/ \E n \in DOMAIN r : /\ r[n].key = k /\ r[n].build = b
                                  /\ \A m \in DOMAIN r : m > n => r[m].key # k
             \/ (\A n \in DOMAIN r : r[n].key # k) /\ view[w][k] = b
  BY DEF WillShow, Last
<1>4. CASE e.key = k
  <2>1. Len(q) + 1 \in DOMAIN r /\ \A m \in DOMAIN r : ~(m > Len(q) + 1)
    BY <1>1, <1>2
  <2> QED
    BY <1>2, <1>3, <1>4, <2>1
<1>5. CASE e.key # k
  <2>1. CASE (\A n \in DOMAIN q : q[n].key # k) /\ view[w][k] = truth[w][k]
    BY <1>1, <1>2, <1>3, <1>5, <2>1
  <2>2. CASE \E n \in DOMAIN q : Last(w, k, n) /\ q[n].build = truth[w][k]
    <3>1. PICK n \in DOMAIN q : Last(w, k, n) /\ q[n].build = truth[w][k]
      BY <2>2
    <3>2. n \in DOMAIN r /\ r[n] = q[n] /\ q[n].key = k
      BY <1>1, <1>2, <3>1 DEF Last
    <3>3. \A m \in DOMAIN r : m > n => r[m].key # k
      BY <1>1, <1>2, <1>5, <3>1 DEF Last
    <3> QED
      BY <1>3, <1>5, <3>1, <3>2, <3>3
  <2> QED
    BY <2>1, <2>2 DEF WillShow
<1> QED
  BY <1>4, <1>5

(* Hub.Broadcast loses no event of a subscriber that it keeps.             *)
LEMMA OfferLevel ==
  ASSUME LossInv, NEW e \in Event, Offer(e), view' = view,
         \A w \in Watchers : conn[w] = "open" => truth'[w] = Apply(truth[w], e)
  PROVE  FreshStart' /\ NoSilentLoss'
<1>1. ASSUME NEW w \in Watchers
      PROVE  /\ buffer'[w] = IF conn[w] = "open" /\ ~Full(w) THEN Append(buffer[w], e) ELSE buffer[w]
             /\ conn'[w] = IF conn[w] = "open" /\ Full(w) THEN "dropped" ELSE conn[w]
  BY DEF Offer
<1>2. FreshStart'
  BY <1>1 DEF FreshStart, LossInv
<1>3. ASSUME NEW w \in Watchers, conn'[w] = "open", NEW k \in Keys
      PROVE  WillShow(w, k, truth[w][k])'
  <2>1. conn[w] = "open" /\ buffer'[w] = Append(buffer[w], e)
    BY <1>1, <1>3
  <2>2. WillShow(w, k, truth[w][k]) /\ truth'[w] = Apply(truth[w], e)
    BY <2>1 DEF LossInv, NoSilentLoss
  <2>3. \A b : b = Apply(truth[w], e)[k] => WillShow(w, k, b)'
    BY <2>1, <2>2, AppendedLevel
  <2> QED
    BY <2>2, <2>3 DEF WillShow, Last
<1> QED
  BY <1>2, <1>3 DEF NoSilentLoss

(* A handler that writes an event moves it from the buffer to the client.  *)
LEMMA ForwardLevel ==
  ASSUME LossInv, NEW w \in Watchers, Forward(w)
  PROVE  FreshStart' /\ NoSilentLoss'
<1> DEFINE q == buffer[w]
           r == Tail(buffer[w])
<1>1. q \in Seq(Event) /\ q # <<>> /\ view[w] \in [Keys -> Build]
  BY DEF Forward, LossInv, ClientInv, ListsTyped
<1>2. /\ q[1] \in Event /\ q[1] = Head(q) /\ r \in Seq(Event)
      /\ Len(q) \in Nat \ {0} /\ DOMAIN q = 1..Len(q) /\ DOMAIN r = 1..(Len(q) - 1)
      /\ \A n \in 1..(Len(q) - 1) : r[n] = q[n + 1]
  BY <1>1, HeadTailProperties, LenProperties
<1>3. /\ conn' = conn /\ truth' = truth
      /\ buffer'[w] = r /\ view'[w] = Apply(view[w], q[1])
      /\ \A v \in Watchers \ {w} : buffer'[v] = buffer[v] /\ view'[v] = view[v]
  BY <1>2 DEF Forward, LossInv, ClientInv, ListsTyped
<1>4. FreshStart'
  BY <1>1, <1>3 DEF FreshStart, LossInv
<1>5. ASSUME NEW k \in Keys, NEW b, WillShow(w, k, b)
      PROVE  WillShow(w, k, b)'
  <2>1. /\ q[1].key = k => Apply(view[w], q[1])[k] = q[1].build
        /\ q[1].key # k => Apply(view[w], q[1])[k] = view[w][k]
    BY <1>1, <1>2, EventKeys
  <2> HIDE DEF q, r
  <2> SUFFICES \/ \E n \in DOMAIN r : /\ r[n].key = k /\ r[n].build = b
                                    /\ \A m \in DOMAIN r : m > n => r[m].key # k
               \/ (\A n \in DOMAIN r : r[n].key # k) /\ Apply(view[w], q[1])[k] = b
    BY <1>3 DEF WillShow, Last
  <2>2. CASE (\A n \in DOMAIN q : q[n].key # k) /\ view[w][k] = b
    BY <1>2, <2>1, <2>2, SMTT(20)
  <2>3. ASSUME NEW n \in DOMAIN q, Last(w, k, n), q[n].build = b
        PROVE  \/ \E i \in DOMAIN r : /\ r[i].key = k /\ r[i].build = b
                                    /\ \A m \in DOMAIN r : m > i => r[m].key # k
               \/ (\A i \in DOMAIN r : r[i].key # k) /\ Apply(view[w], q[1])[k] = b
    <3>1. q[n].key = k /\ \A m \in DOMAIN q : m > n => q[m].key # k
      BY <2>3 DEF Last, q
    <3>2. \A m \in DOMAIN r : m \in Int /\ m + 1 \in DOMAIN q /\ r[m] = q[m + 1]
      BY <1>2
    <3>3. CASE n = 1
      <4>1. \A m \in DOMAIN r : m + 1 > n
        BY <1>2, <3>3
      <4> QED
        BY <2>1, <2>3, <3>1, <3>2, <3>3, <4>1
    <3>4. CASE n # 1
      <4>1. n - 1 \in DOMAIN r /\ r[n - 1] = q[n]
        BY <1>2, <3>4
      <4>2. \A m \in DOMAIN r : m > n - 1 => m + 1 > n
        BY <1>2
      <4>3. \A m \in DOMAIN r : m > n - 1 => r[m].key # k
        BY <3>1, <3>2, <4>2
      <4> QED
        BY <2>3, <3>1, <4>1, <4>3
    <3> QED
      BY <3>3, <3>4
  <2> QED
    BY <1>5, <2>2, <2>3 DEF WillShow, q
<1>6. ASSUME NEW v \in Watchers \ {w}, NEW k \in Keys, NEW b, WillShow(v, k, b)
      PROVE  WillShow(v, k, b)'
  BY <1>3, <1>6 DEF WillShow, Last
<1>7. ASSUME NEW v \in Watchers, conn'[v] = "open", NEW k \in Keys
      PROVE  WillShow(v, k, truth[v][k])'
  <2>1. WillShow(v, k, truth[v][k]) /\ truth'[v] = truth[v]
    BY <1>3, <1>7 DEF LossInv, NoSilentLoss
  <2>2. \A b : WillShow(v, k, b) => WillShow(v, k, b)'
    BY <1>5, <1>6
  <2>3. \A b : b = truth[v][k] => WillShow(v, k, b)'
    BY <2>1, <2>2
  <2> QED
    BY <2>1, <2>3 DEF WillShow, Last
<1> QED
  BY <1>4, <1>7 DEF NoSilentLoss

(* The other steps of a client and its handler.                            *)
LEMMA WatchLevel ==
  ASSUME LossInv, NEW w \in Watchers, Watch(w) \/ Disconnect(w)
  PROVE  FreshStart' /\ NoSilentLoss'
<1>1. CASE Greet(w)
  <2>1. /\ conn'[w] = "greeted" /\ buffer' = buffer /\ truth' = truth /\ conn[w] = "down"
        /\ \A v \in Watchers \ {w} : conn'[v] = conn[v] /\ view'[v] = view[v]
    BY <1>1 DEF Greet, LossInv, ClientInv, ListsTyped
  <2> QED
    BY <2>1 DEF LossInv, FreshStart, NoSilentLoss, WillShow, Last
<1>2. CASE Subscribe(w)
  <2>1. /\ conn'[w] = "open" /\ buffer' = buffer /\ view' = view /\ buffer[w] = <<>>
        /\ truth'[w] = view[w]
        /\ \A v \in Watchers \ {w} : conn'[v] = conn[v] /\ truth'[v] = truth[v]
    BY <1>2 DEF Subscribe, LossInv, FreshStart, ClientInv, ListsTyped, Bounded
  <2>2. FreshStart'
    BY <2>1 DEF LossInv, FreshStart
  <2>3. ASSUME NEW v \in Watchers, conn'[v] = "open", NEW k \in Keys
        PROVE  WillShow(v, k, truth[v][k])'
    <3>1. CASE v = w
      BY <2>1, <3>1 DEF WillShow
    <3>2. CASE v # w
      <4>1. WillShow(v, k, truth[v][k])
        BY <2>1, <2>3, <3>2 DEF LossInv, NoSilentLoss
      <4> QED
        BY <2>1, <3>2, <4>1 DEF WillShow, Last
    <3> QED
      BY <3>1, <3>2
  <2> QED
    BY <2>2, <2>3 DEF NoSilentLoss
<1>3. CASE Forward(w)
  BY <1>3, ForwardLevel
<1>4. CASE HangUp(w)
  <2>1. /\ conn'[w] = "down" /\ buffer'[w] = <<>> /\ view' = view /\ truth' = truth
        /\ \A v \in Watchers \ {w} : conn'[v] = conn[v] /\ buffer'[v] = buffer[v]
    BY <1>4 DEF HangUp, LossInv, ClientInv, ListsTyped
  <2> QED
    BY <2>1 DEF LossInv, FreshStart, NoSilentLoss, WillShow, Last
<1> QED
  BY <1>1, <1>2, <1>3, <1>4 DEF Watch, CloseDropped, Disconnect

LEMMA LossStep ==
  ASSUME LossInv, [EventsNext]_allVars
  PROVE  LossInv'
<1>1. ClientInv' /\ Bounded'
  BY ClientStep, BoundedStep DEF LossInv
<1>2. ASSUME UNCHANGED eventVars
      PROVE  FreshStart' /\ NoSilentLoss'
  BY <1>2 DEF eventVars, LossInv, FreshStart, NoSilentLoss, WillShow, Last
<1>3. ASSUME NEW g \in Goroutines, Publish(g)
      PROVE  FreshStart' /\ NoSilentLoss'
  <2>1. sending[g] \in Event /\ view' = view /\ Offer(sending[g])
    BY <1>3 DEF Publish, LossInv, ClientInv, EndsInv, TypeOK, Event
  <2>2. \A w \in Watchers : conn[w] = "open" => truth'[w] = Apply(truth[w], sending[g])
    BY <1>3 DEF Publish
  <2> QED
    BY <2>1, <2>2, OfferLevel
<1>4. ASSUME NEW z \in Bazels, PublishMetrics(z)
      PROVE  FreshStart' /\ NoSilentLoss'
  <2>1. Nothing \in Event /\ view' = view /\ truth' = truth /\ Offer(Nothing)
    BY <1>4 DEF PublishMetrics, Event
  <2>2. \A w \in Watchers : truth'[w] = Apply(truth[w], Nothing)
    BY <2>1 DEF Apply
  <2> QED
    BY <2>1, <2>2, OfferLevel
<1>5. ASSUME RestartAll
      PROVE  FreshStart' /\ NoSilentLoss'
  BY <1>5 DEF RestartAll, FreshStart, NoSilentLoss
<1>6. ASSUME NEW w \in Watchers, Watch(w) \/ Disconnect(w)
      PROVE  FreshStart' /\ NoSilentLoss'
  BY <1>6, WatchLevel
<1>7. FreshStart' /\ NoSilentLoss'
  BY <1>2, <1>3, <1>4, <1>5, <1>6 DEF EventsNext, allVars
<1> QED
  BY <1>1, <1>7 DEF LossInv

(* A subscriber that the hub has not dropped has, with what is in its      *)
(* buffer, all that was broadcast (NoSilentLoss).                          *)
THEOREM NothingLostSilently == EventsSpec => []NoSilentLoss
<1>1. EventsInit => LossInv
  BY ClientInit, EventsAssumption
     DEF EventsInit, LossInv, Bounded, FreshStart, NoSilentLoss, NoBuilds, Absent, Build
<1>2. LossInv /\ [EventsNext]_allVars => LossInv'
  BY LossStep
<1>3. LossInv => NoSilentLoss
  BY DEF LossInv
<1> QED
  BY <1>1, <1>2, <1>3, PTL DEF EventsSpec

(* The registry with its clients is the registry: what its other modules   *)
(* rely on is not disturbed by who watches.                                *)
THEOREM EventsRefineRegistry == EventsSpec => Spec
<1>1. EventsInit => Init
  BY DEF EventsInit
<1>2. [EventsNext]_allVars => [Next]_vars
  BY StepOfRegistry
<1> QED
  BY <1>1, <1>2, PTL DEF EventsSpec, Spec

(* The builds that a client is shown obey the registry's own promises: an  *)
(* end is final, and an end on disk is the end that is reported (EndsOnce, *)
(* StoredEndIsFinal).                                                      *)
THEOREM EventsKeepEnds == EventsSpec => EndsOnce /\ []StoredEndIsFinal
BY EventsRefineRegistry, EndsStay, StoredEndsFinal, PTL
=============================================================================
