------------------------- MODULE BroadcasterProofs -------------------------
(***************************************************************************)
(* Proofs about Broadcaster for every value of its constants: type         *)
(* correctness, that a page which has caught up shows the last event, and  *)
(* that none of the events the history still has is missed.                *)
(*                                                                         *)
(* Both say of an idle handler what must have been true all the way there: *)
(* LatestInv says where the last event is while a handler is on its way,   *)
(* MissedInv where every event of the history is.                          *)
(***************************************************************************)
EXTENDS Broadcaster, SequenceTheorems, TLAPS

(* The first element, and what follows it. *)
LEMMA HeadTail ==
  ASSUME NEW S, NEW s \in Seq(S), s # <<>>
  PROVE  /\ Head(s) \in S /\ Tail(s) \in Seq(S) /\ Len(s) \in Nat \ {0}
         /\ Len(Tail(s)) = Len(s) - 1
         /\ ToSet(s) = {Head(s)} \cup ToSet(Tail(s))
         /\ Last(s) = IF Tail(s) = <<>> THEN Head(s) ELSE Last(Tail(s))
<1>1. Head(s) = s[1] /\ Head(s) \in S /\ Tail(s) \in Seq(S) /\ Len(s) \in Nat \ {0}
  OBVIOUS
<1>2. Len(Tail(s)) = Len(s) - 1 /\ \A i \in 1 .. Len(s) - 1 : Tail(s)[i] = s[i + 1]
  OBVIOUS
<1>3. ToSet(s) = {s[i] : i \in 1 .. Len(s)} /\ ToSet(Tail(s)) = {Tail(s)[i] : i \in 1 .. Len(s) - 1}
  <2>1. DOMAIN s = 1 .. Len(s) /\ DOMAIN Tail(s) = 1 .. Len(Tail(s))
    BY <1>1
  <2> QED
    BY <1>2, <2>1 DEF ToSet
<1>4. ASSUME NEW i \in 1 .. Len(s) PROVE i = 1 \/ (i - 1 \in 1 .. Len(s) - 1 /\ s[i] = Tail(s)[i - 1])
  BY <1>1, <1>2
<1>5. ToSet(s) \subseteq {Head(s)} \cup ToSet(Tail(s))
  <2>1. ASSUME NEW i \in 1 .. Len(s) PROVE s[i] \in {Head(s)} \cup ToSet(Tail(s))
    <3>1. CASE i = 1
      BY <1>1, <3>1
    <3>2. CASE i # 1
      <4>1. i - 1 \in 1 .. Len(s) - 1 /\ s[i] = Tail(s)[i - 1]
        BY <1>4, <3>2
      <4> QED
        BY <1>3, <4>1
    <3> QED
      BY <3>1, <3>2
  <2> QED
    BY <1>3, <2>1
<1>6. {Head(s)} \cup ToSet(Tail(s)) \subseteq ToSet(s)
  <2>1. Head(s) \in ToSet(s)
    BY <1>1, <1>3
  <2>2. ASSUME NEW i \in 1 .. Len(s) - 1 PROVE Tail(s)[i] \in ToSet(s)
    BY <1>1, <1>2, <1>3
  <2> QED
    BY <1>3, <2>1, <2>2
<1>7. Last(s) = IF Tail(s) = <<>> THEN Head(s) ELSE Last(Tail(s))
  <2>1. CASE Tail(s) = <<>>
    <3>1. Len(Tail(s)) = 0
      BY <1>1, <2>1, EmptySeq
    <3>2. Len(s) = 1
      <4>1. ASSUME NEW n \in Nat, n - 1 = 0 PROVE n = 1
        BY <4>1
      <4>2. Len(s) \in Nat /\ Len(s) - 1 = 0
        BY <1>1, <1>2, <3>1
      <4> QED
        BY <4>1, <4>2
    <3> QED
      BY <1>1, <2>1, <3>2 DEF Last
  <2>2. CASE Tail(s) # <<>>
    <3>1. Len(Tail(s)) # 0
      BY <1>1, <2>2, EmptySeq
    <3>2. Len(s) - 1 \in 1 .. Len(s) - 1
      BY <1>1, <1>2, <3>1
    <3>3. Tail(s)[Len(s) - 1] = s[Len(s)]
      BY <1>1, <1>2, <3>2
    <3> QED
      BY <1>2, <2>2, <3>3 DEF Last
  <2> QED
    BY <2>1, <2>2
<1> QED
  BY <1>1, <1>2, <1>5, <1>6, <1>7

(* An element put at the end is the last. *)
LEMMA AppendLast ==
  ASSUME NEW S, NEW s \in Seq(S), NEW e \in S
  PROVE  /\ Append(s, e) \in Seq(S) /\ Len(Append(s, e)) = Len(s) + 1 /\ Append(s, e) # <<>>
         /\ ToSet(Append(s, e)) = ToSet(s) \cup {e} /\ Last(Append(s, e)) = e
<1>1. Append(s, e) \in Seq(S) /\ Len(Append(s, e)) = Len(s) + 1 /\ Append(s, e) # <<>>
  <2>1. Append(s, e) \in Seq(S) /\ Len(Append(s, e)) = Len(s) + 1 /\ Len(s) \in Nat
    OBVIOUS
  <2>2. Len(Append(s, e)) # 0
    BY <2>1
  <2> QED
    BY <2>1, <2>2
<1>2. Len(s) \in Nat /\ (\A i \in 1 .. Len(s) : Append(s, e)[i] = s[i]) /\ Append(s, e)[Len(s) + 1] = e
  OBVIOUS
<1>3. /\ ToSet(Append(s, e)) = {Append(s, e)[i] : i \in 1 .. Len(s) + 1}
      /\ ToSet(s) = {s[i] : i \in 1 .. Len(s)}
  BY <1>1, <1>2 DEF ToSet
<1>4. ASSUME NEW i \in 1 .. Len(s) + 1 PROVE i = Len(s) + 1 \/ i \in 1 .. Len(s)
  BY <1>2
<1>5. ASSUME NEW i \in 1 .. Len(s) PROVE i \in 1 .. Len(s) + 1
  BY <1>2
<1>6. ToSet(Append(s, e)) \subseteq ToSet(s) \cup {e}
  BY <1>2, <1>3, <1>4
<1>7. ToSet(s) \cup {e} \subseteq ToSet(Append(s, e))
  <2>1. Len(s) + 1 \in 1 .. Len(s) + 1
    BY <1>2
  <2> QED
    BY <1>2, <1>3, <1>5, <2>1
<1> QED
  BY <1>1, <1>2, <1>6, <1>7 DEF Last

(* Nothing is in the empty sequence. *)
LEMMA EmptyFacts == ToSet(<<>>) = {} /\ Len(<<>>) = 0 /\ \A S : <<>> \in Seq(S)
  BY DEF ToSet

(* A sequence of elements of a set is one of elements of a larger set. *)
LEMMA SeqWiden ==
  ASSUME NEW S, NEW T, S \subseteq T, NEW s \in Seq(S)
  PROVE  s \in Seq(T)
<1>1. Len(s) \in Nat /\ s = [i \in 1 .. Len(s) |-> s[i]] /\ \A i \in 1 .. Len(s) : s[i] \in T
  OBVIOUS
<1> QED
  BY <1>1

-----------------------------------------------------------------------------
Phases == {"closed", "greeting", "replay", "sending", "waiting"}

(* A handler that sends an event has one. *)
Sending == \A c \in Conns : phase[c] \in {"replay", "sending"} => out[c] \in Numbers

TypeInv == TypeOK /\ Sending

(* What Get and Replay touch keeps its type. *)
HandlerType ==
  /\ queue \in [Conns -> Seq(Numbers)] /\ \A c \in Conns : Len(queue[c]) <= MAX_QUEUE
  /\ phase \in [Conns -> Phases]
  /\ out \in [Conns -> {0} \cup Numbers] /\ replay \in [Conns -> Seq(Numbers)]
  /\ Sending

LEMMA GetType ==
  ASSUME TypeInv, NEW c \in Conns, Get(c), UNCHANGED published
  PROVE  /\ queue' \in [Conns -> Seq(Numbers)] /\ \A d \in Conns : Len(queue'[d]) <= MAX_QUEUE
         /\ phase' \in [Conns -> Phases] /\ out' \in [Conns -> {0} \cup Numbers]
         /\ Sending'
<1>0. Numbers' = Numbers
  BY DEF Numbers
<1> USE DEF TypeInv, TypeOK, Phases, Sending
<1>1. CASE queue[c] = <<>>
  BY <1>0, <1>1 DEF Get
<1>2. CASE queue[c] # <<>>
  <2>1. Head(queue[c]) \in Numbers /\ Tail(queue[c]) \in Seq(Numbers)
        /\ Len(Tail(queue[c])) = Len(queue[c]) - 1 /\ Len(queue[c]) \in Nat
    BY <1>2, HeadTail
  <2>2. Len(Tail(queue[c])) <= MAX_QUEUE
    BY <2>1, LimitsOK
  <2> HIDE DEF Numbers
  <2>3. /\ queue' = [queue EXCEPT ![c] = Tail(queue[c])]
        /\ phase' = [phase EXCEPT ![c] = "sending"]
        /\ out' = [out EXCEPT ![c] = Head(queue[c])]
    BY <1>2 DEF Get
  <2> QED
    BY <1>0, <2>1, <2>2, <2>3
<1> QED
  BY <1>1, <1>2

LEMMA ReplayType ==
  ASSUME TypeInv, NEW c \in Conns, NEW rest \in Seq(Numbers), Replay(c, rest), UNCHANGED published
  PROVE  HandlerType'
<1>1. CASE rest = <<>>
  <2>1. Get(c) /\ replay' = [replay EXCEPT ![c] = <<>>]
    BY <1>1 DEF Replay
  <2>2. replay' \in [Conns -> Seq(Numbers)]
    BY <2>1, EmptyFacts DEF TypeInv, TypeOK
  <2> QED
    BY <2>1, <2>2, GetType DEF HandlerType, Numbers
<1>2. CASE rest # <<>>
  <2>1. Head(rest) \in Numbers /\ Tail(rest) \in Seq(Numbers)
    BY <1>2, HeadTail
  <2>2. /\ phase' = [phase EXCEPT ![c] = "replay"] /\ out' = [out EXCEPT ![c] = Head(rest)]
        /\ replay' = [replay EXCEPT ![c] = Tail(rest)] /\ UNCHANGED queue
    BY <1>2 DEF Replay
  <2> QED
    BY <2>1, <2>2 DEF HandlerType, TypeInv, TypeOK, Phases, Numbers, Sending
<1> QED
  BY <1>1, <1>2

(* The bus starts empty. *)
LEMMA TypeInit == Init => TypeInv
  BY EmptyFacts, LimitsOK DEF Init, TypeInv, TypeOK, Sending, Numbers

(* What Publish makes of the history, and of a subscriber's queue. *)
LEMMA HistoryKept ==
  ASSUME TypeOK, Publish
  PROVE  /\ published' = published + 1 /\ published' \in Nat /\ Numbers \subseteq Numbers'
         /\ history' \in Seq(Numbers') /\ Len(history') <= HISTORY
         /\ history' # <<>> /\ Last(history') = published'
         /\ ToSet(history') \subseteq ToSet(history) \cup {published'}
<1> DEFINE longer == Append(history, published')
<1>1. published' = published + 1 /\ published \in Nat /\ published' \in Numbers'
      /\ Numbers \subseteq Numbers'
  BY DEF Publish, TypeOK, Numbers
<1>2. history \in Seq(Numbers')
  BY <1>1, SeqWiden DEF TypeOK
<1>3. /\ longer \in Seq(Numbers') /\ Len(longer) = Len(history) + 1 /\ longer # <<>>
      /\ ToSet(longer) = ToSet(history) \cup {published'} /\ Last(longer) = published'
  BY <1>1, <1>2, AppendLast
<1>4. Len(history) \in Nat /\ Len(history) <= HISTORY /\ HISTORY \in Nat \ {0}
  BY LimitsOK DEF TypeOK
<1>5. history' = IF Len(longer) > HISTORY THEN Tail(longer) ELSE longer
  BY DEF Publish
<1>6. CASE Len(longer) > HISTORY
  <2>1. /\ Tail(longer) \in Seq(Numbers') /\ Len(Tail(longer)) = Len(longer) - 1
        /\ ToSet(Tail(longer)) \subseteq ToSet(longer)
        /\ Last(longer) = IF Tail(longer) = <<>> THEN Head(longer) ELSE Last(Tail(longer))
    BY <1>3, HeadTail
  <2>2. Len(Tail(longer)) = Len(history) /\ Len(history) # 0
    BY <1>3, <1>4, <1>6, <2>1
  <2>3. Tail(longer) # <<>>
    BY <2>2, EmptyFacts
  <2> QED
    BY <1>1, <1>3, <1>4, <1>5, <1>6, <2>1, <2>2, <2>3
<1>7. CASE ~(Len(longer) > HISTORY)
  BY <1>1, <1>3, <1>4, <1>5, <1>7
<1> QED
  BY <1>6, <1>7

LEMMA PutKept ==
  ASSUME TypeOK, Publish, NEW c \in Conns
  PROVE  /\ queue'[c] \in Seq(Numbers') /\ Len(queue'[c]) <= MAX_QUEUE
         /\ c \in subscribers' => /\ c \in subscribers /\ queue'[c] # <<>>
                                  /\ Last(queue'[c]) = published'
                                  /\ ToSet(queue'[c]) = ToSet(queue[c]) \cup {published'}
<1>1. published' \in Numbers' /\ Numbers \subseteq Numbers'
  BY DEF Publish, TypeOK, Numbers
<1>2. queue[c] \in Seq(Numbers') /\ Len(queue[c]) \in Nat /\ Len(queue[c]) <= MAX_QUEUE
      /\ MAX_QUEUE \in Nat
  BY <1>1, SeqWiden, LimitsOK DEF TypeOK
<1>3. LET more == Append(queue[c], published')
      IN  /\ more \in Seq(Numbers') /\ Len(more) = Len(queue[c]) + 1 /\ more # <<>>
          /\ ToSet(more) = ToSet(queue[c]) \cup {published'} /\ Last(more) = published'
  BY <1>1, <1>2, AppendLast
<1>4. /\ queue'[c] = IF c \in subscribers THEN Put(queue[c], published') ELSE queue[c]
      /\ c \in subscribers' <=> c \in subscribers /\ Len(queue[c]) < MAX_QUEUE
  BY DEF Publish, TypeOK
<1>5. CASE c \in subscribers /\ Len(queue[c]) < MAX_QUEUE
  BY <1>2, <1>3, <1>4, <1>5 DEF Put
<1>6. CASE ~(c \in subscribers /\ Len(queue[c]) < MAX_QUEUE)
  BY <1>2, <1>4, <1>6 DEF Put
<1> QED
  BY <1>5, <1>6

(* Every step keeps the types. *)
LEMMA TypeStep == TypeInv /\ [Next]_vars => TypeInv'
<1> SUFFICES ASSUME TypeInv, [Next]_vars PROVE TypeInv'
  OBVIOUS
<1>0. TypeOK /\ Sending
  BY DEF TypeInv
<1>1. CASE Publish
  <2>1. queue' \in [Conns -> Seq(Numbers')] /\ \A c \in Conns : Len(queue'[c]) <= MAX_QUEUE
    <3>1. queue' = [c \in Conns |-> queue'[c]]
      BY <1>1 DEF Publish
    <3>2. \A c \in Conns : queue'[c] \in Seq(Numbers') /\ Len(queue'[c]) <= MAX_QUEUE
      BY <1>0, <1>1, PutKept
    <3> QED
      BY <3>1, <3>2
  <2>2. Numbers \subseteq Numbers' /\ history' \in Seq(Numbers') /\ Len(history') <= HISTORY
        /\ published' \in Nat
    BY <1>0, <1>1, HistoryKept
  <2>3. replay' \in [Conns -> Seq(Numbers')]
    <3>1. replay' = replay /\ \A c \in Conns : replay[c] \in Seq(Numbers)
      BY <1>0, <1>1 DEF Publish, TypeOK
    <3>2. \A c \in Conns : replay[c] \in Seq(Numbers')
      BY <2>2, <3>1, SeqWiden
    <3> QED
      BY <1>0, <3>1, <3>2 DEF TypeOK
  <2>4. Sending'
    BY <1>0, <1>1, <2>2 DEF Publish, Sending
  <2> QED
    BY <1>0, <1>1, <2>1, <2>2, <2>3, <2>4 DEF Publish, TypeInv, TypeOK
<1>2. CASE ClearHistory
  BY <1>0, <1>2, EmptyFacts, LimitsOK DEF ClearHistory, TypeInv, TypeOK, Sending, Numbers
<1>3. ASSUME NEW c \in Conns, Open(c) PROVE TypeInv'
  <2>1. published \in {0} \cup Numbers /\ Numbers' = Numbers
    BY <1>0, <1>3 DEF Open, TypeOK, Numbers
  <2>2. queue' \in [Conns -> Seq(Numbers)] /\ \A d \in Conns : Len(queue'[d]) <= MAX_QUEUE
    BY <1>0, <1>3, EmptyFacts, LimitsOK DEF Open, TypeOK
  <2>3. Sending'
    BY <1>0, <1>3, <2>1 DEF Open, TypeOK, Sending
  <2> QED
    BY <1>0, <1>3, <2>1, <2>2, <2>3 DEF Open, TypeInv, TypeOK
<1>4. ASSUME NEW c \in Conns, Sent(c) PROVE TypeInv'
  <2>1. /\ UNCHANGED <<published, history, gone, clears, opens>> /\ Numbers' = Numbers
        /\ \/ Continue(c)
           \/ c \in gone /\ Leave(c)
    BY <1>4 DEF Sent, Numbers
  <2>2. HandlerType' /\ subscribers' \subseteq Conns
    <3>1. CASE Leave(c)
      BY <1>0, <2>1, <3>1, EmptyFacts DEF Leave, TypeOK, HandlerType, Phases, Sending
    <3>2. CASE Continue(c)
      <4>1. CASE phase[c] = "greeting"
        BY <1>0, <2>1, <3>2, <4>1, ReplayType DEF Continue, TypeOK
      <4>2. CASE phase[c] = "replay"
        <5>1. replay[c] \in Seq(Numbers) /\ Replay(c, replay[c]) /\ UNCHANGED subscribers
          BY <1>0, <3>2, <4>2 DEF Continue, TypeOK
        <5> QED
          BY <1>0, <2>1, <5>1, ReplayType DEF TypeOK
      <4>3. CASE phase[c] = "sending"
        <5>1. Get(c) /\ UNCHANGED <<subscribers, replay>>
          BY <3>2, <4>3 DEF Continue
        <5> QED
          BY <1>0, <2>1, <5>1, GetType DEF HandlerType, TypeOK
      <4> QED
        BY <1>4, <4>1, <4>2, <4>3 DEF Sent
    <3> QED
      BY <2>1, <3>1, <3>2
  <2>3. view' \in [Conns -> {0} \cup Numbers] /\ seen' \in [Conns -> SUBSET Numbers]
    <3>1. CASE c \in gone
      BY <1>0, <1>4, <3>1 DEF Sent, TypeOK
    <3>2. CASE c \notin gone
      <4>1. out[c] \in {0} \cup Numbers
        BY <1>0 DEF TypeOK
      <4>2. phase[c] # "greeting" => out[c] \in Numbers
        BY <1>0, <1>4 DEF Sent, Sending
      <4>3. PICK got : /\ got = (IF phase[c] = "greeting" THEN seen[c] ELSE seen[c] \cup {out[c]})
                       /\ view' = [view EXCEPT ![c] = out[c]] /\ seen' = [seen EXCEPT ![c] = got]
        BY <1>4, <3>2 DEF Sent, Shown
      <4>4. view \in [Conns -> {0} \cup Numbers] /\ seen \in [Conns -> SUBSET Numbers]
        BY <1>0 DEF TypeOK
      <4>5. got \in SUBSET Numbers
        BY <4>2, <4>3, <4>4
      <4> HIDE DEF Numbers
      <4>6. seen' \in [Conns -> SUBSET Numbers]
        BY <4>3, <4>4, <4>5
      <4>7. view' \in [Conns -> {0} \cup Numbers]
        BY <4>1, <4>3, <4>4
      <4> QED
        BY <4>6, <4>7
    <3> QED
      BY <3>1, <3>2
  <2> QED
    BY <1>0, <2>1, <2>2, <2>3 DEF TypeInv, TypeOK, HandlerType, Phases
<1>5. ASSUME NEW c \in Conns, Wake(c) PROVE TypeInv'
  <2>1. Get(c) /\ UNCHANGED <<published, history, subscribers, replay, gone, view, seen, clears, opens>>
        /\ Numbers' = Numbers
    BY <1>5 DEF Wake, Numbers
  <2> QED
    BY <1>0, <2>1, GetType DEF TypeInv, TypeOK, Phases
<1>6. ASSUME NEW c \in Conns, PageGoes(c) PROVE TypeInv'
  BY <1>0, <1>6 DEF PageGoes, TypeInv, TypeOK, Sending, Numbers
<1>7. CASE UNCHANGED vars
  BY <1>0, <1>7 DEF vars, TypeInv, TypeOK, Sending, Numbers
<1> QED
  BY <1>1, <1>2, <1>3, <1>4, <1>5, <1>6, <1>7 DEF Next, Handler

(* Queues and history stay within their limits and hold only what has been   *)
(* published.                                                                *)
THEOREM BroadcasterTypeCorrect == Spec => []TypeOK
<1>1. TypeInv => TypeOK
  BY DEF TypeInv
<1> QED
  BY <1>1, TypeInit, TypeStep, PTL DEF Spec

-----------------------------------------------------------------------------
(* What a handler has in hand: nothing when it waits. *)
InHand(c) == IF phase[c] = "waiting" THEN {} ELSE {out[c]}

(* Another connection's part of the state. *)
Untouched(d) == UNCHANGED <<queue[d], phase[d], out[d], replay[d]>>

(* Get takes the first event of the queue in hand. *)
LEMMA GetEffect ==
  ASSUME TypeInv, NEW c \in Conns, Get(c)
  PROVE  /\ phase'[c] \in {"sending", "waiting"}
         /\ ToSet(queue[c]) = ToSet(queue'[c]) \cup InHand(c)'
         /\ queue[c] = <<>> => queue'[c] = <<>> /\ phase'[c] = "waiting"
         /\ queue[c] # <<>> =>
              /\ phase'[c] = "sending"
              /\ Last(queue[c]) = IF queue'[c] = <<>> THEN out'[c] ELSE Last(queue'[c])
         /\ \A d \in Conns \ {c} : UNCHANGED <<queue[d], phase[d], out[d]>>
<1>0. /\ queue[c] \in Seq(Numbers) /\ c \in DOMAIN queue /\ c \in DOMAIN phase /\ c \in DOMAIN out
      /\ queue \in [Conns -> Seq(Numbers)] /\ phase \in [Conns -> Phases]
      /\ out \in [Conns -> {0} \cup Numbers]
  BY DEF TypeInv, TypeOK, Phases
<1>1. CASE queue[c] = <<>>
  <2>1. phase' = [phase EXCEPT ![c] = "waiting"] /\ UNCHANGED <<queue, out>>
    BY <1>1 DEF Get
  <2> QED
    BY <1>0, <1>1, <2>1, EmptyFacts DEF InHand
<1>2. CASE queue[c] # <<>>
  <2>1. /\ phase' = [phase EXCEPT ![c] = "sending"]
        /\ out' = [out EXCEPT ![c] = Head(queue[c])]
        /\ queue' = [queue EXCEPT ![c] = Tail(queue[c])]
    BY <1>2 DEF Get
  <2>2. phase'[c] = "sending" /\ out'[c] = Head(queue[c]) /\ queue'[c] = Tail(queue[c])
    BY <1>0, <2>1
  <2>3. \A d \in Conns \ {c} : UNCHANGED <<queue[d], phase[d], out[d]>>
    BY <1>0, <2>1
  <2> QED
    BY <1>0, <1>2, <2>2, <2>3, HeadTail DEF InHand
<1> QED
  BY <1>1, <1>2

(* Replay takes the first event of the replay in hand, and else does Get. *)
LEMMA ReplayEffect ==
  ASSUME TypeInv, NEW c \in Conns, NEW rest \in Seq(Numbers), Replay(c, rest)
  PROVE  /\ phase'[c] \in {"replay", "sending", "waiting"}
         /\ InLoop(c)' => replay'[c] = <<>>
         /\ ToSet(queue[c]) \cup ToSet(rest) = ToSet(queue'[c]) \cup ToSet(replay'[c]) \cup InHand(c)'
         /\ rest = <<>> => Get(c) /\ replay'[c] = <<>>
         /\ rest # <<>> =>
              /\ phase'[c] = "replay" /\ queue'[c] = queue[c]
              /\ Last(rest) = IF replay'[c] = <<>> THEN out'[c] ELSE Last(replay'[c])
         /\ \A d \in Conns \ {c} : Untouched(d)
<1>0. /\ replay \in [Conns -> Seq(Numbers)]
      /\ queue \in [Conns -> Seq(Numbers)] /\ phase \in [Conns -> Phases]
      /\ out \in [Conns -> {0} \cup Numbers]
  BY DEF TypeInv, TypeOK, Phases
<1>1. CASE rest = <<>>
  <2>1. Get(c) /\ replay' = [replay EXCEPT ![c] = <<>>]
    BY <1>1 DEF Replay
  <2>2. replay'[c] = <<>> /\ \A d \in Conns \ {c} : replay'[d] = replay[d]
    BY <1>0, <2>1
  <2> QED
    BY <1>1, <2>1, <2>2, GetEffect, EmptyFacts DEF Untouched
<1>2. CASE rest # <<>>
  <2>1. /\ phase' = [phase EXCEPT ![c] = "replay"] /\ out' = [out EXCEPT ![c] = Head(rest)]
        /\ replay' = [replay EXCEPT ![c] = Tail(rest)] /\ UNCHANGED queue
    BY <1>2 DEF Replay
  <2>2. /\ phase'[c] = "replay" /\ out'[c] = Head(rest) /\ replay'[c] = Tail(rest)
        /\ queue'[c] = queue[c] /\ \A d \in Conns \ {c} : Untouched(d)
    BY <1>0, <2>1 DEF Untouched
  <2> QED
    BY <1>0, <1>2, <2>2, HeadTail DEF InHand, InLoop
<1> QED
  BY <1>1, <1>2

(* The last event that a page has had or will get. *)
Newest(c) ==
  IF queue[c] # <<>> THEN Last(queue[c])
  ELSE IF phase[c] = "waiting" THEN view[c]
  ELSE IF phase[c] = "replay" /\ replay[c] # <<>> THEN Last(replay[c])
  ELSE out[c]

(* ... is the last that was published, and so is the last of the history. *)
LatestInv ==
  /\ history # <<>> => Last(history) = published
  /\ \A c \in Conns : phase[c] = "closed" => c \notin subscribers
  /\ \A c \in subscribers \ gone : Newest(c) = published

(* All that a page has had or will get. *)
Coming(c) == seen[c] \cup ToSet(queue[c]) \cup ToSet(replay[c]) \cup InHand(c)

(* ... once the handler has copied the history. *)
MissedInv ==
  \A c \in Conns :
    /\ InLoop(c) => replay[c] = <<>>
    /\ c \in subscribers \ gone /\ (InLoop(c) \/ phase[c] = "replay")
         => ToSet(history) \subseteq Coming(c)

LEMMA LoopInit == Init => LatestInv /\ MissedInv
  BY DEF Init, LatestInv, MissedInv, InLoop

(* What a send does to its own page. *)
LEMMA SentShows ==
  ASSUME TypeInv, NEW c \in Conns, Sent(c)
  PROVE  /\ c \notin gone => /\ view'[c] = out[c]
                             /\ seen'[c] = IF phase[c] = "greeting" THEN seen[c]
                                           ELSE seen[c] \cup {out[c]}
         /\ \A d \in Conns \ {c} : UNCHANGED <<view[d], seen[d]>>
  BY DEF TypeInv, TypeOK, Sent, Shown

(* What it does to the connection: the handler leaves, or goes on from what  *)
(* was left of the replay, which for the greeting is the history itself.     *)
Rest(c) == CASE phase[c] = "greeting" -> history
             [] phase[c] = "replay" -> replay[c]
             [] OTHER -> <<>>

LEMMA SentGoesOn ==
  ASSUME TypeInv, MissedInv, NEW c \in Conns, Sent(c)
  PROVE  /\ UNCHANGED <<published, history, gone>> /\ subscribers' \subseteq subscribers
         /\ Rest(c) \in Seq(Numbers)
         /\ \A d \in Conns \ {c} : Untouched(d)
         /\ \/ phase'[c] = "closed" /\ c \notin subscribers' /\ replay'[c] = <<>>
            \/ /\ phase'[c] \in {"replay", "sending", "waiting"}
               /\ InLoop(c)' => replay'[c] = <<>>
               /\ ToSet(queue[c]) \cup ToSet(Rest(c))
                    = ToSet(queue'[c]) \cup ToSet(replay'[c]) \cup InHand(c)'
               /\ Rest(c) = <<>> => Get(c) /\ replay'[c] = <<>>
               /\ Rest(c) # <<>> =>
                    /\ phase'[c] = "replay" /\ queue'[c] = queue[c]
                    /\ Last(Rest(c)) = IF replay'[c] = <<>> THEN out'[c] ELSE Last(replay'[c])
<1>1. UNCHANGED <<published, history, gone>> /\ Rest(c) \in Seq(Numbers)
  BY EmptyFacts DEF TypeInv, TypeOK, Sent, Rest
<1>2. CASE Leave(c)
  <2>1. /\ phase' = [phase EXCEPT ![c] = "closed"] /\ subscribers' = subscribers \ {c}
        /\ replay' = [replay EXCEPT ![c] = <<>>] /\ UNCHANGED <<queue, out>>
    BY <1>2 DEF Leave
  <2>2. phase'[c] = "closed" /\ replay'[c] = <<>> /\ \A d \in Conns \ {c} : Untouched(d)
    BY <2>1 DEF TypeInv, TypeOK, Untouched
  <2> QED
    BY <1>1, <2>1, <2>2
<1>3. CASE Continue(c) /\ phase[c] \in {"greeting", "replay"}
  <2>1. Replay(c, Rest(c)) /\ UNCHANGED subscribers
    BY <1>3 DEF Continue, Rest
  <2> QED
    BY <1>1, <2>1, ReplayEffect
<1>4. CASE Continue(c) /\ phase[c] = "sending"
  <2>1. Get(c) /\ UNCHANGED <<subscribers, replay>> /\ Rest(c) = <<>> /\ replay[c] = <<>>
    BY <1>4 DEF Continue, Rest, MissedInv, InLoop
  <2> QED
    BY <1>1, <2>1, GetEffect, EmptyFacts DEF Untouched
<1> QED
  BY <1>2, <1>3, <1>4 DEF Sent

(* Every step keeps LatestInv and MissedInv. *)
LEMMA SentLatest ==
  ASSUME TypeInv, LatestInv, MissedInv, NEW c \in Conns, Sent(c)
  PROVE  LatestInv'
<1>1. UNCHANGED <<published, history, gone>> /\ subscribers' \subseteq subscribers
  BY SentGoesOn
<1>2. ASSUME NEW d \in Conns, d # c
      PROVE  /\ phase'[d] = "closed" => d \notin subscribers'
             /\ d \in subscribers' \ gone' => Newest(d)' = published'
  <2>1. Untouched(d) /\ UNCHANGED <<view[d], seen[d]>>
    BY <1>2, SentGoesOn, SentShows
  <2>2. Newest(d)' = Newest(d)
    BY <2>1 DEF Newest, Untouched
  <2> QED
    BY <1>1, <2>1, <2>2 DEF LatestInv, Untouched
<1>3. phase'[c] = "closed" => c \notin subscribers'
  BY SentGoesOn
<1>4. ASSUME c \in subscribers' \ gone' PROVE Newest(c)' = published'
  <2>1. c \in subscribers \ gone /\ Newest(c) = published /\ view'[c] = out[c]
    BY <1>1, <1>4, SentShows DEF LatestInv
  <2>2. phase[c] \in {"greeting", "replay", "sending"}
    BY DEF Sent
  <2>3. CASE Rest(c) # <<>>
    <3>1. /\ phase'[c] = "replay" /\ queue'[c] = queue[c]
          /\ Last(Rest(c)) = IF replay'[c] = <<>> THEN out'[c] ELSE Last(replay'[c])
      BY <1>4, <2>3, SentGoesOn
    <3>2. queue[c] = <<>> => Last(Rest(c)) = published
      BY <2>1, <2>2, <2>3 DEF Rest, Newest, LatestInv
    <3> QED
      BY <1>1, <2>1, <3>1, <3>2 DEF Newest
  <2>4. CASE Rest(c) = <<>>
    <3>1. Get(c) /\ replay'[c] = <<>>
      BY <1>4, <2>4, SentGoesOn
    <3>2. queue[c] = <<>> => view'[c] = published
      BY <2>1, <2>2, <2>4 DEF Rest, Newest
    <3>3. CASE queue[c] = <<>>
      <4>1. queue'[c] = <<>> /\ phase'[c] = "waiting"
        BY <3>1, <3>3, GetEffect
      <4> QED
        BY <1>1, <3>2, <3>3, <4>1 DEF Newest
    <3>4. CASE queue[c] # <<>>
      <4>1. /\ phase'[c] = "sending"
            /\ Last(queue[c]) = IF queue'[c] = <<>> THEN out'[c] ELSE Last(queue'[c])
        BY <3>1, <3>4, GetEffect
      <4> QED
        BY <1>1, <2>1, <3>4, <4>1 DEF Newest
    <3> QED
      BY <3>3, <3>4
  <2> QED
    BY <2>3, <2>4
<1>5. subscribers' \subseteq Conns
  BY <1>1 DEF TypeInv, TypeOK
<1> QED
  BY <1>1, <1>2, <1>3, <1>4, <1>5 DEF LatestInv

LEMMA SentMissed ==
  ASSUME TypeInv, MissedInv, NEW c \in Conns, Sent(c)
  PROVE  MissedInv'
<1>1. UNCHANGED <<published, history, gone>> /\ subscribers' \subseteq subscribers
  BY SentGoesOn
<1>2. ASSUME NEW d \in Conns, d # c
      PROVE  /\ InLoop(d)' => replay'[d] = <<>>
             /\ d \in subscribers' \ gone' /\ (InLoop(d)' \/ phase'[d] = "replay")
                  => ToSet(history') \subseteq Coming(d)'
  <2>1. Untouched(d) /\ UNCHANGED <<view[d], seen[d]>>
    BY <1>2, SentGoesOn, SentShows
  <2>2. Coming(d)' = Coming(d) /\ InLoop(d)' = InLoop(d)
    BY <2>1 DEF Coming, InHand, InLoop, Untouched
  <2> QED
    BY <1>1, <2>1, <2>2 DEF MissedInv, Untouched
<1>3. InLoop(c)' => replay'[c] = <<>>
  BY SentGoesOn DEF InLoop
<1>4. ASSUME c \in subscribers' \ gone' PROVE ToSet(history') \subseteq Coming(c)'
  <2>1. c \in subscribers \ gone
        /\ seen'[c] = IF phase[c] = "greeting" THEN seen[c] ELSE seen[c] \cup {out[c]}
    BY <1>1, <1>4, SentShows
  <2>2. ToSet(queue[c]) \cup ToSet(Rest(c)) = ToSet(queue'[c]) \cup ToSet(replay'[c]) \cup InHand(c)'
    BY <1>4, SentGoesOn
  <2>3. Coming(c)' = seen'[c] \cup ToSet(queue[c]) \cup ToSet(Rest(c))
    BY <2>2 DEF Coming
  <2>4. CASE phase[c] = "greeting"
    BY <1>1, <2>3, <2>4 DEF Rest
  <2>5. CASE phase[c] \in {"replay", "sending"}
    <3>1. ToSet(history) \subseteq Coming(c)
      BY <2>1, <2>5 DEF MissedInv, InLoop
    <3>2. ToSet(replay[c]) \subseteq ToSet(Rest(c))
      BY <2>5, EmptyFacts DEF Rest, MissedInv, InLoop
    <3>3. Coming(c) \subseteq seen'[c] \cup ToSet(queue[c]) \cup ToSet(Rest(c))
      BY <2>1, <2>5, <3>2 DEF Coming, InHand
    <3> QED
      BY <1>1, <2>3, <3>1, <3>3
  <2> QED
    BY <2>4, <2>5 DEF Sent
<1> QED
  BY <1>1, <1>2, <1>3, <1>4 DEF MissedInv

LEMMA LoopStep ==
  TypeInv /\ LatestInv /\ MissedInv /\ [Next]_vars => LatestInv' /\ MissedInv'
<1> SUFFICES ASSUME TypeInv, LatestInv, MissedInv, [Next]_vars PROVE LatestInv' /\ MissedInv'
  OBVIOUS
<1>1. CASE Publish
  <2>1. /\ history' # <<>> /\ Last(history') = published'
        /\ ToSet(history') \subseteq ToSet(history) \cup {published'}
    BY <1>1, HistoryKept DEF TypeInv
  <2>2. ASSUME NEW c \in Conns, c \in subscribers'
        PROVE  /\ c \in subscribers /\ queue'[c] # <<>> /\ Last(queue'[c]) = published'
               /\ ToSet(queue'[c]) = ToSet(queue[c]) \cup {published'}
    BY <1>1, <2>2, PutKept DEF TypeInv
  <2>3. UNCHANGED <<phase, out, replay, gone, view, seen>>
    BY <1>1 DEF Publish
  <2>4. subscribers' \subseteq Conns
    BY <1>1 DEF Publish, TypeInv, TypeOK
  <2>5. LatestInv'
    BY <2>1, <2>2, <2>3, <2>4 DEF LatestInv, Newest
  <2>6. ASSUME NEW c \in Conns
        PROVE  /\ InLoop(c)' => replay'[c] = <<>>
               /\ c \in subscribers' \ gone' /\ (InLoop(c)' \/ phase'[c] = "replay")
                    => ToSet(history') \subseteq Coming(c)'
    <3>1. InLoop(c)' = InLoop(c) /\ InHand(c)' = InHand(c)
      BY <2>3 DEF InLoop, InHand
    <3>2. c \in subscribers' => Coming(c)' = Coming(c) \cup {published'}
      BY <2>2, <2>3, <3>1 DEF Coming
    <3> QED
      BY <2>1, <2>2, <2>3, <3>1, <3>2 DEF MissedInv
  <2> QED
    BY <2>5, <2>6 DEF MissedInv
<1>2. CASE ClearHistory
  <2>1. history' = <<>> /\ UNCHANGED <<published, subscribers, queue, phase, out, replay, gone, view, seen>>
    BY <1>2 DEF ClearHistory
  <2> QED
    BY <2>1, EmptyFacts DEF LatestInv, MissedInv, Newest, Coming, InHand, InLoop
<1>3. ASSUME NEW c \in Conns, Open(c) PROVE LatestInv' /\ MissedInv'
  <2>1. /\ queue'[c] = <<>> /\ phase'[c] = "greeting" /\ out'[c] = published
        /\ \A d \in Conns \ {c} : Untouched(d) /\ UNCHANGED <<view[d], seen[d]>>
    BY <1>3 DEF Open, TypeInv, TypeOK, Untouched
  <2>2. /\ subscribers' = subscribers \cup {c} /\ gone' = gone \ {c}
        /\ UNCHANGED <<published, history, replay>>
    BY <1>3 DEF Open
  <2>3. \A d \in Conns \ {c} : /\ Newest(d)' = Newest(d) /\ Coming(d)' = Coming(d)
                               /\ InLoop(d)' = InLoop(d)
    BY <2>1 DEF Untouched, Newest, Coming, InHand, InLoop
  <2>4. Newest(c)' = published' /\ ~InLoop(c)' /\ phase'[c] = "greeting"
    BY <2>1, <2>2 DEF Newest, InLoop
  <2>0. subscribers' \subseteq Conns
    BY <2>2 DEF TypeInv, TypeOK
  <2>5. LatestInv'
    BY <2>0, <2>1, <2>2, <2>3, <2>4 DEF LatestInv, Untouched
  <2>6. MissedInv'
    BY <2>1, <2>2, <2>3, <2>4 DEF MissedInv, Untouched
  <2> QED
    BY <2>5, <2>6
<1>4. ASSUME NEW c \in Conns, Sent(c) PROVE LatestInv' /\ MissedInv'
  BY <1>4, SentLatest, SentMissed
<1>5. ASSUME NEW c \in Conns, Wake(c) PROVE LatestInv' /\ MissedInv'
  <2>1. /\ Get(c) /\ phase[c] = "waiting" /\ queue[c] # <<>>
        /\ UNCHANGED <<published, history, subscribers, replay, gone, view, seen>>
    BY <1>5 DEF Wake
  <2>2. /\ phase'[c] = "sending" /\ ToSet(queue[c]) = ToSet(queue'[c]) \cup InHand(c)'
        /\ Last(queue[c]) = IF queue'[c] = <<>> THEN out'[c] ELSE Last(queue'[c])
        /\ \A d \in Conns \ {c} : UNCHANGED <<queue[d], phase[d], out[d]>>
    BY <2>1, GetEffect
  <2>3. \A d \in Conns \ {c} : /\ Newest(d)' = Newest(d) /\ Coming(d)' = Coming(d)
                               /\ InLoop(d)' = InLoop(d) /\ phase'[d] = phase[d]
    BY <2>1, <2>2 DEF Newest, Coming, InHand, InLoop
  <2>4. Newest(c)' = Newest(c) /\ Coming(c) \subseteq Coming(c)' /\ InLoop(c) /\ phase[c] # "closed"
    BY <2>1, <2>2 DEF Newest, Coming, InHand, InLoop
  <2>0. subscribers' \subseteq Conns
    BY <2>1 DEF TypeInv, TypeOK
  <2>5. LatestInv'
    BY <2>0, <2>1, <2>2, <2>3, <2>4 DEF LatestInv
  <2>6. MissedInv'
    BY <2>1, <2>3, <2>4 DEF MissedInv
  <2> QED
    BY <2>5, <2>6
<1>6. ASSUME NEW c \in Conns, PageGoes(c) PROVE LatestInv' /\ MissedInv'
  <2>1. /\ gone \subseteq gone'
        /\ UNCHANGED <<published, history, subscribers, queue, phase, out, replay, view, seen>>
    BY <1>6 DEF PageGoes
  <2> QED
    BY <2>1 DEF LatestInv, MissedInv, Newest, Coming, InHand, InLoop
<1>7. CASE UNCHANGED vars
  BY <1>7 DEF vars, LatestInv, MissedInv, Newest, Coming, InHand, InLoop
<1> QED
  BY <1>1, <1>2, <1>3, <1>4, <1>5, <1>6, <1>7 DEF Next, Handler

(* Both hold throughout. *)
LEMMA LoopInvariant == Spec => [](TypeInv /\ LatestInv /\ MissedInv)
<1>1. Spec => []TypeInv
  BY TypeInit, TypeStep, PTL DEF Spec
<1> QED
  BY <1>1, LoopInit, LoopStep, PTL DEF Spec

(* A page whose handler has nothing left to send shows the last event: the   *)
(* events that come twice and out of order, because subscribe() comes before *)
(* the replay, never leave an old one on the page.                           *)
THEOREM CaughtUpCorrect == Spec => []CaughtUp
<1>1. TypeInv /\ LatestInv => CaughtUp
  BY DEF TypeInv, TypeOK, LatestInv, Newest, CaughtUp
<1> QED
  BY <1>1, LoopInvariant, PTL

(* Between the copy of the history and the queue nothing is lost: every      *)
(* event that the history still has is on the page or on its way there.      *)
THEOREM NothingMissedCorrect == Spec => []NothingMissed
<1>1. ASSUME TypeInv, MissedInv, NEW c \in subscribers \ gone, InLoop(c)
      PROVE  ToSet(history) \subseteq seen[c] \cup ToSet(queue[c])
                                 \cup (IF phase[c] = "sending" THEN {out[c]} ELSE {})
  <2>1. c \in Conns /\ replay[c] = <<>> /\ ToSet(history) \subseteq Coming(c)
    BY <1>1 DEF TypeInv, TypeOK, MissedInv
  <2>2. Coming(c) = seen[c] \cup ToSet(queue[c]) \cup InHand(c)
    BY <2>1, EmptyFacts DEF Coming
  <2> QED
    BY <1>1, <2>1, <2>2 DEF InHand, InLoop
<1>2. TypeInv /\ MissedInv => NothingMissed
  BY <1>1 DEF NothingMissed
<1> QED
  BY <1>2, LoopInvariant, PTL
=============================================================================
