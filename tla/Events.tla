--------------------------------- MODULE Events ---------------------------------
(***************************************************************************)
(* The registry with its hub (internal/registry/hub.go), the handlers of   *)
(* GET /events (internal/httpapi/events.go) and the clients that fold the  *)
(* events into a list of builds (brokerctl watch, the menu-bar app).       *)
(*                                                                         *)
(* A watcher is a client with the handler of its current connection. The   *)
(* handler writes a frame when the client is ready to read it, so a slow   *)
(* client is one whose handler does not take events from its buffer.       *)
(***************************************************************************)
EXTENDS Registry, Naturals, Sequences

CONSTANTS
  Watchers,
  SubBufferSize   \* events the hub buffers for a subscriber

ASSUME EventsAssumption == SubBufferSize \in Nat \ {0}

VARIABLES
  conn,     \* down, greeted (has its snapshot), open (subscribed), dropped
  buffer,   \* events of the subscription the handler has yet to write
  view,     \* the client's list of builds
  truth     \* history: the list a subscriber would have if it saw every event

eventVars == <<conn, buffer, view, truth>>
allVars == <<vars, eventVars>>

(* What goes over the hub: copies of builds, and as Nothing the metrics and *)
(* alert events, which clients ignore.                                     *)
Event == Copy \cup {Nothing}

NoBuilds == [k \in Keys |-> Absent]

EventsInit ==
  /\ Init
  /\ conn = [w \in Watchers |-> "down"]
  /\ buffer = [w \in Watchers |-> <<>>]
  /\ view = [w \in Watchers |-> NoBuilds]
  /\ truth = [w \in Watchers |-> NoBuilds]

(* Every variable keeps its type, and a buffer its bound.                  *)
EventsTypeOK ==
  /\ TypeOK
  /\ conn \in [Watchers -> {"down", "greeted", "open", "dropped"}]
  /\ buffer \in [Watchers -> Seq(Event)]
  /\ \A w \in Watchers : Len(buffer[w]) <= SubBufferSize
  /\ view \in [Watchers -> [Keys -> Build]]
  /\ truth \in [Watchers -> [Keys -> Build]]

-----------------------------------------------------------------------------
(* applyEvent: a build frame replaces the entry of its id.                 *)
Apply(list, e) == IF e = Nothing THEN list ELSE [list EXCEPT ![e.key] = e.build]

(* The handler takes the snapshot, and the client starts over from it.     *)
BugGreet(w) ==
  /\ conn[w] = "down"
  /\ conn' = [conn EXCEPT ![w] = "greeted"]
  /\ view' = [view EXCEPT ![w] = [k \in Keys |-> IF Known(builds[k]) THEN builds[k] ELSE @[k]]]
  /\ UNCHANGED <<vars, buffer, truth>>

Greet(w) ==
  /\ conn[w] = "down"
  /\ conn' = [conn EXCEPT ![w] = "greeted"]
  /\ view' = [view EXCEPT ![w] = builds]
  /\ UNCHANGED <<vars, buffer, truth>>

Subscribe(w) ==
  /\ conn[w] = "greeted"
  /\ conn' = [conn EXCEPT ![w] = "open"]
  /\ truth' = [truth EXCEPT ![w] = view[w]]
  /\ UNCHANGED <<vars, buffer, view>>

(* A closed channel still yields the events in its buffer.                 *)
Forward(w) ==
  /\ buffer[w] # <<>>
  /\ buffer' = [buffer EXCEPT ![w] = Tail(@)]
  /\ view' = [view EXCEPT ![w] = Apply(@, Head(buffer[w]))]
  /\ UNCHANGED <<vars, conn, truth>>

HangUp(w) ==
  /\ conn' = [conn EXCEPT ![w] = "down"]
  /\ buffer' = [buffer EXCEPT ![w] = <<>>]
  /\ UNCHANGED <<vars, view, truth>>

(* The handler finds the channel closed and tells the client to resync.    *)
BugCloseDropped(w) == conn[w] = "dropped" /\ buffer[w] = <<>> /\ UNCHANGED allVars
CloseDropped(w) == conn[w] = "dropped" /\ buffer[w] = <<>> /\ HangUp(w)

(* The client leaves, or a write or a ping fails.                          *)
Disconnect(w) == conn[w] # "down" /\ HangUp(w)

-----------------------------------------------------------------------------
(* Hub.Broadcast: never blocks; a subscriber whose buffer is full is       *)
(* dropped.                                                                *)
BugFull(w) == Len(buffer[w]) > SubBufferSize
Full(w) == Len(buffer[w]) = SubBufferSize

BugOffer(e) ==
  /\ buffer' = [w \in Watchers |->
       IF conn[w] = "open" /\ ~Full(w) THEN Append(buffer[w], e) ELSE buffer[w]]
  /\ UNCHANGED conn

Offer(e) ==
  /\ buffer' = [w \in Watchers |->
       IF conn[w] = "open" /\ ~Full(w) THEN Append(buffer[w], e) ELSE buffer[w]]
  /\ conn' = [w \in Watchers |->
       IF conn[w] = "open" /\ Full(w) THEN "dropped" ELSE conn[w]]

Publish(g) ==
  /\ Broadcast(g)
  /\ Offer(sending[g])
  /\ truth' = [w \in Watchers |->
       IF conn[w] = "open" THEN Apply(truth[w], sending[g]) ELSE truth[w]]
  /\ UNCHANGED view

(* After the finalize of a tailer its metrics, and maybe an alert.         *)
PublishMetrics(z) ==
  /\ Ready(TailOf[z])
  /\ IsTerminal(builds[IdOf[z]])
  /\ Offer(Nothing)
  /\ UNCHANGED <<vars, view, truth>>

(* A restart takes all connections with it.                                *)
RestartAll ==
  /\ Restart
  /\ conn' = [w \in Watchers |-> "down"]
  /\ buffer' = [w \in Watchers |-> <<>>]
  /\ UNCHANGED <<view, truth>>

Watch(w) == Greet(w) \/ Subscribe(w) \/ Forward(w) \/ CloseDropped(w)

EventsNext ==
  \/ Quiet /\ UNCHANGED eventVars
  \/ \E g \in Goroutines : Publish(g)
  \/ \E z \in Bazels : PublishMetrics(z)
  \/ RestartAll
  \/ \E w \in Watchers : Watch(w) \/ Disconnect(w)

EventsSpec == EventsInit /\ [][EventsNext]_allVars

(* Goroutines run on, and a client that lost its connection dials again.   *)
EventsFairSpec ==
  /\ EventsSpec
  /\ \A g \in Goroutines : WF_allVars(Persist(g) /\ UNCHANGED eventVars) /\ WF_allVars(Publish(g))
  /\ \A w \in Watchers : WF_allVars(Watch(w))

-----------------------------------------------------------------------------
(* A client never shows an end that did not happen: events late, out of    *)
(* order, lost with their subscription or sent twice, what a connected     *)
(* client shows as ended has ended that way in the registry.               *)
ClientNeverAhead ==
  \A w \in Watchers, k \in Keys :
    conn[w] # "down" /\ IsTerminal(view[w][k]) => builds[k].state = view[w][k].state

(* The hub loses no event behind a subscriber's back: as long as it is not *)
(* dropped, what it has and what is in its buffer is all there was.  Of a  *)
(* build the last event in the buffer counts, or the list if there is none.*)
Last(w, k, n) == buffer[w][n].key = k /\ \A m \in DOMAIN buffer[w] : m > n => buffer[w][m].key # k

WillShow(w, k, b) ==
  \/ \E n \in DOMAIN buffer[w] : Last(w, k, n) /\ buffer[w][n].build = b
  \/ (\A n \in DOMAIN buffer[w] : buffer[w][n].key # k) /\ view[w][k] = b

NoSilentLoss ==
  \A w \in Watchers : conn[w] = "open" => \A k \in Keys : WillShow(w, k, truth[w][k])

(* A subscriber that was dropped gets a fresh snapshot.                    *)
DroppedResyncs == \A w \in Watchers : (conn[w] = "dropped") ~> (conn[w] = "greeted")

-----------------------------------------------------------------------------
(* A claim of the code's comments that the code does not keep.             *)
AtRest(w) == (\A g \in Goroutines : Ready(g)) /\ conn[w] = "open" /\ buffer[w] = <<>>

(* watch.go:52: each reconnect re-snapshots, so it is lossless; a client   *)
(* that has applied everything shows what the registry has.                *)
ClientConverges ==
  \A w \in Watchers : AtRest(w) => \A k \in Keys : view[w][k].state = builds[k].state
=============================================================================
