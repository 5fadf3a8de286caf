---------------------------- MODULE Broadcaster ----------------------------
(***************************************************************************)
(* The event bus the pages read (log_service.py, Broadcaster) and the      *)
(* handlers of their WebSockets (routes/websocket.py).                     *)
(*                                                                         *)
(* An event is the number it has in the order of publication.  publish()   *)
(* never suspends; a handler suspends in send_json and in queue.get.       *)
(***************************************************************************)
EXTENDS Naturals, Sequences, SequencesExt

CONSTANTS
  Conns,       \* WebSocket connections; a page that reconnects has another one
  MAX_QUEUE,   \* the limit of a subscriber's queue
  HISTORY,     \* the limit of the history
  MaxEvents, MaxClears, MaxOpens   \* bounds

ASSUME LimitsOK == {MAX_QUEUE, HISTORY} \subseteq Nat \ {0}
                   /\ {MaxEvents, MaxClears, MaxOpens} \subseteq Nat

VARIABLES
  published,   \* how many events there have been
  history,     \* _history
  subscribers, \* _subscribers
  queue,       \* each connection's queue
  phase,       \* where its handler is: closed, greeting, replay, sending, waiting
  out,         \* what its send_json is sending
  replay,      \* what is left of the copy of the history it replays
  gone,        \* the connections whose page has gone; send_json or _drain will tell
  view,        \* the event whose state the page shows
  seen,        \* history variable: the events the page got
  clears, opens

vars == <<published, history, subscribers, queue, phase, out, replay, gone, view, seen,
          clears, opens>>

Init ==
  /\ published = 0 /\ history = <<>> /\ subscribers = {}
  /\ queue = [c \in Conns |-> <<>>] /\ phase = [c \in Conns |-> "closed"]
  /\ out = [c \in Conns |-> 0] /\ replay = [c \in Conns |-> <<>>]
  /\ gone = {} /\ view = [c \in Conns |-> 0] /\ seen = [c \in Conns |-> {}]
  /\ clears = 0 /\ opens = 0

(* put_nowait, where it does not raise QueueFull. *)
Put(q, event) == IF Len(q) < MAX_QUEUE THEN Append(q, event) ELSE q

(* Fault: a full queue refuses the event and stays subscribed. *)
PublishRefused ==
  /\ published < MaxEvents
  /\ published' = published + 1
  /\ history' = LET longer == Append(history, published')
                IN  IF Len(longer) > HISTORY THEN Tail(longer) ELSE longer
  /\ queue' = [c \in Conns |-> IF c \in subscribers THEN Put(queue[c], published')
                               ELSE queue[c]]
  /\ UNCHANGED <<subscribers, phase, out, replay, gone, view, seen, clears, opens>>

(* Fault: the history is not trimmed. *)
PublishUntrimmed ==
  /\ published < MaxEvents
  /\ published' = published + 1
  /\ history' = Append(history, published')
  /\ queue' = [c \in Conns |-> IF c \in subscribers THEN Put(queue[c], published')
                               ELSE queue[c]]
  /\ subscribers' = {c \in subscribers : Len(queue[c]) < MAX_QUEUE}
  /\ UNCHANGED <<phase, out, replay, gone, view, seen, clears, opens>>

(* publish: the history is trimmed from the front, and a subscriber whose    *)
(* queue is full is no subscriber any more.                                  *)
Publish ==
  /\ published < MaxEvents
  /\ published' = published + 1
  /\ history' = LET longer == Append(history, published')
                IN  IF Len(longer) > HISTORY THEN Tail(longer) ELSE longer
  /\ queue' = [c \in Conns |-> IF c \in subscribers THEN Put(queue[c], published')
                               ELSE queue[c]]
  /\ subscribers' = {c \in subscribers : Len(queue[c]) < MAX_QUEUE}
  /\ UNCHANGED <<phase, out, replay, gone, view, seen, clears, opens>>

(* clear_history, when a deployment starts. *)
ClearHistory ==
  /\ clears < MaxClears /\ clears' = clears + 1
  /\ history' = <<>>
  /\ UNCHANGED <<published, subscribers, queue, phase, out, replay, gone, view, seen, opens>>

(* accept and subscribe; `connected` carries the state of this moment. *)
Open(c) ==
  /\ phase[c] = "closed" /\ opens < MaxOpens /\ opens' = opens + 1
  /\ subscribers' = subscribers \cup {c}
  /\ queue' = [queue EXCEPT ![c] = <<>>]
  /\ phase' = [phase EXCEPT ![c] = "greeting"]
  /\ out' = [out EXCEPT ![c] = published]
  /\ gone' = gone \ {c}
  /\ view' = [view EXCEPT ![c] = 0] /\ seen' = [seen EXCEPT ![c] = {}]
  /\ UNCHANGED <<published, history, replay, clears>>

(* The handler is left by return or exception: unsubscribe. *)
Leave(c) ==
  /\ phase' = [phase EXCEPT ![c] = "closed"]
  /\ subscribers' = subscribers \ {c}
  /\ replay' = [replay EXCEPT ![c] = <<>>]
  /\ UNCHANGED <<queue, out>>

(* queue.get: the next event is sent at once, or the handler waits for one. *)
Get(c) ==
  IF queue[c] = <<>>
  THEN phase' = [phase EXCEPT ![c] = "waiting"] /\ UNCHANGED <<queue, out>>
  ELSE /\ phase' = [phase EXCEPT ![c] = "sending"]
       /\ out' = [out EXCEPT ![c] = Head(queue[c])]
       /\ queue' = [queue EXCEPT ![c] = Tail(@)]

(* The next event of the replay, or the first one of the queue. *)
Replay(c, rest) ==
  IF rest = <<>> THEN Get(c) /\ replay' = [replay EXCEPT ![c] = <<>>]
  ELSE /\ phase' = [phase EXCEPT ![c] = "replay"]
       /\ out' = [out EXCEPT ![c] = Head(rest)]
       /\ replay' = [replay EXCEPT ![c] = Tail(rest)]
       /\ UNCHANGED queue

(* Fault: the history is not replayed. *)
ContinueUnreplayed(c) == Get(c) /\ UNCHANGED <<subscribers, replay>>

(* What the handler does after a send_json. The history is copied only when  *)
(* `connected` has been sent.                                                *)
Continue(c) ==
  CASE phase[c] = "greeting" -> Replay(c, history) /\ UNCHANGED subscribers
    [] phase[c] = "replay"   -> Replay(c, replay[c]) /\ UNCHANGED subscribers
    [] phase[c] = "sending"  -> Get(c) /\ UNCHANGED <<subscribers, replay>>

(* handleEvent: the page renders the state that the event carries. *)
Shown(c) ==
  /\ view' = [view EXCEPT ![c] = out[c]]
  /\ seen' = [seen EXCEPT ![c] = IF phase[c] = "greeting" THEN @ ELSE @ \cup {out[c]}]

(* send_json returns. If the page has gone it may raise, or receiver.done()  *)
(* end the loop; until either tells the handler, it goes on.                 *)
Sent(c) ==
  /\ phase[c] \in {"greeting", "replay", "sending"}
  /\ \/ Continue(c)
     \/ c \in gone /\ Leave(c)
  /\ IF c \in gone THEN UNCHANGED <<view, seen>> ELSE Shown(c)
  /\ UNCHANGED <<published, history, gone, clears, opens>>

(* queue.get returns: there is an event now. *)
Wake(c) ==
  /\ phase[c] = "waiting" /\ queue[c] # <<>>
  /\ Get(c)
  /\ UNCHANGED <<published, history, subscribers, replay, gone, view, seen, clears, opens>>

(* The page closes, or the network fails. Nothing tells the handler. *)
PageGoes(c) ==
  /\ phase[c] # "closed" /\ c \notin gone
  /\ gone' = gone \cup {c}
  /\ UNCHANGED <<published, history, subscribers, queue, phase, out, replay, view, seen,
                 clears, opens>>

Handler(c) == Sent(c) \/ Wake(c)

Next == \/ Publish \/ ClearHistory
        \/ \E c \in Conns : Open(c) \/ Handler(c) \/ PageGoes(c)

(* A page that is there reads what is sent to it, and the loop runs every    *)
(* handler that is ready.                                                    *)
Spec == Init /\ [][Next]_vars /\ \A c \in Conns : WF_vars(Handler(c))

-----------------------------------------------------------------------------
Numbers == 1 .. published

TypeOK ==
  /\ published \in Nat /\ history \in Seq(Numbers) /\ Len(history) <= HISTORY
  /\ subscribers \subseteq Conns /\ gone \subseteq Conns
  /\ queue \in [Conns -> Seq(Numbers)] /\ \A c \in Conns : Len(queue[c]) <= MAX_QUEUE
  /\ phase \in [Conns -> {"closed", "greeting", "replay", "sending", "waiting"}]
  /\ out \in [Conns -> {0} \cup Numbers] /\ replay \in [Conns -> Seq(Numbers)]
  /\ view \in [Conns -> {0} \cup Numbers] /\ seen \in [Conns -> SUBSET Numbers]
  /\ clears \in Nat /\ opens \in Nat

InLoop(c) == phase[c] \in {"sending", "waiting"}

(* A page that has caught up shows the last event: subscribing before the    *)
(* replay makes events come twice and out of order, but the last to come is  *)
(* the last published.                                                       *)
CaughtUp ==
  \A c \in subscribers \ gone : phase[c] = "waiting" /\ queue[c] = <<>> => view[c] = published

(* Nothing falls between the replay and the queue: what the history still    *)
(* has, a subscriber's page has had or will get.                             *)
NothingMissed ==
  \A c \in subscribers \ gone : InLoop(c) =>
    ToSet(history) \subseteq seen[c] \cup ToSet(queue[c])
                               \cup (IF phase[c] = "sending" THEN {out[c]} ELSE {})

(* "Fan-out of events to every connected WebSocket client": a page that is   *)
(* connected is subscribed.                                                  *)
ConnectedIsSubscribed == \A c \in Conns \ gone : InLoop(c) => c \in subscribers

(* Once nothing more is published, every page that is still subscribed shows *)
(* the last event and goes on showing it.                                    *)
EventuallyCaughtUp == <>[](\A c \in subscribers \ gone : view[c] = published)
=============================================================================
