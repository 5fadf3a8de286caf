--------------------------- MODULE StreamerProofs ---------------------------
(***************************************************************************)
(* Proofs about Streamer for every value of its constants: type            *)
(* correctness, that no source is followed twice, that a stream on the     *)
(* list never meets the flag of an earlier stop(), and that no old line is *)
(* still to be published when a stop() returns.                            *)
(*                                                                         *)
(* NameInv relates channels and names to the threads, JoinInv says what    *)
(* the loop knows of a thread whose join has ended, ListInv what becomes   *)
(* of the list while stop() iterates it, and OpenInv which channels are    *)
(* open.  The first two hold always, the others until calls overlap.       *)
(***************************************************************************)
EXTENDS Streamer, SequenceTheorems, FiniteSetTheorems, TLAPS

(* The set of a sequence, of a longer one, and of what follows the first. *)
LEMMA ToSetFacts ==
  ASSUME NEW S, NEW s \in Seq(S)
  PROVE  /\ ToSet(s) = {s[i] : i \in 1 .. Len(s)} /\ ToSet(s) \subseteq S
         /\ ToSet(s) = {} => s = <<>>
<1>1. DOMAIN s = 1 .. Len(s) /\ Len(s) \in Nat /\ \A i \in 1 .. Len(s) : s[i] \in S
  OBVIOUS
<1>2. ToSet(s) = {s[i] : i \in 1 .. Len(s)}
  BY <1>1 DEF ToSet
<1>3. ASSUME s # <<>> PROVE ToSet(s) # {}
  <2>1. Len(s) # 0
    BY <1>3, EmptySeq
  <2>2. 1 \in 1 .. Len(s)
    BY <1>1, <2>1
  <2> QED
    BY <1>2, <2>2
<1> QED
  BY <1>1, <1>2, <1>3

LEMMA ToSetConcat ==
  ASSUME NEW S, NEW s \in Seq(S), NEW u \in Seq(S)
  PROVE  s \o u \in Seq(S) /\ ToSet(s \o u) = ToSet(s) \cup ToSet(u)
<1> DEFINE w == s \o u
<1>1. Len(s) \in Nat /\ Len(u) \in Nat
  OBVIOUS
<1>2. /\ w \in Seq(S) /\ Len(w) = Len(s) + Len(u)
      /\ \A i \in 1 .. Len(s) + Len(u) : w[i] = IF i <= Len(s) THEN s[i] ELSE u[i - Len(s)]
  BY ConcatProperties
<1> HIDE DEF w
<1>3. ToSet(w) = {w[i] : i \in 1 .. Len(s) + Len(u)}
  BY <1>2, ToSetFacts
<1>4. ToSet(s) = {s[i] : i \in 1 .. Len(s)} /\ ToSet(u) = {u[i] : i \in 1 .. Len(u)}
  BY ToSetFacts
<1>5. ASSUME NEW i \in 1 .. Len(s) + Len(u) PROVE w[i] \in ToSet(s) \cup ToSet(u)
  <2>1. CASE i <= Len(s)
    BY <1>1, <1>2, <1>4, <2>1
  <2>2. CASE ~(i <= Len(s))
    <3>1. i - Len(s) \in 1 .. Len(u)
      BY <1>1, <2>2
    <3> QED
      BY <1>2, <1>4, <2>2, <3>1
  <2> QED
    BY <2>1, <2>2
<1>6. ASSUME NEW i \in 1 .. Len(s) PROVE s[i] \in ToSet(w)
  <2>1. i \in 1 .. Len(s) + Len(u) /\ i <= Len(s)
    BY <1>1
  <2> QED
    BY <1>2, <1>3, <2>1
<1>7. ASSUME NEW i \in 1 .. Len(u) PROVE u[i] \in ToSet(w)
  <2>1. /\ i + Len(s) \in 1 .. Len(s) + Len(u) /\ ~(i + Len(s) <= Len(s))
        /\ i + Len(s) - Len(s) = i
    BY <1>1
  <2>2. w[i + Len(s)] = u[i]
    BY <1>2, <2>1
  <2> QED
    BY <1>3, <2>1, <2>2
<1>8. ToSet(w) = ToSet(s) \cup ToSet(u)
  BY <1>3, <1>4, <1>5, <1>6, <1>7
<1> QED
  BY <1>2, <1>8 DEF w

LEMMA ToSetAppend ==
  ASSUME NEW S, NEW s \in Seq(S), NEW e \in S
  PROVE  /\ Append(s, e) \in Seq(S) /\ ToSet(Append(s, e)) = ToSet(s) \cup {e}
         /\ Len(Append(s, e)) = Len(s) + 1
         /\ \A i \in 1 .. Len(s) : Append(s, e)[i] = s[i]
         /\ Append(s, e)[Len(s) + 1] = e
<1> DEFINE w == Append(s, e)
<1>1. /\ w \in Seq(S) /\ Len(w) = Len(s) + 1 /\ Len(s) \in Nat
      /\ \A i \in 1 .. Len(s) : w[i] = s[i]
      /\ w[Len(s) + 1] = e
  OBVIOUS
<1> HIDE DEF w
<1>2. ToSet(w) = {w[i] : i \in 1 .. Len(s) + 1} /\ ToSet(s) = {s[i] : i \in 1 .. Len(s)}
  BY <1>1, ToSetFacts
<1>3. 1 .. Len(s) + 1 = (1 .. Len(s)) \cup {Len(s) + 1}
  BY <1>1
<1>4. ToSet(w) = ToSet(s) \cup {e}
  BY <1>1, <1>2, <1>3
<1> QED
  BY <1>1, <1>4 DEF w

LEMMA HeadTail ==
  ASSUME NEW S, NEW s \in Seq(S), s # <<>>
  PROVE  /\ Head(s) = s[1] /\ Head(s) \in S /\ Tail(s) \in Seq(S) /\ Len(s) \in Nat \ {0}
         /\ Len(Tail(s)) = Len(s) - 1
         /\ \A i \in 1 .. Len(s) - 1 : Tail(s)[i] = s[i + 1]
         /\ ToSet(s) = {Head(s)} \cup ToSet(Tail(s))
<1>1. Head(s) = s[1] /\ Head(s) \in S /\ Tail(s) \in Seq(S) /\ Len(s) \in Nat \ {0}
  OBVIOUS
<1>2. Len(Tail(s)) = Len(s) - 1 /\ \A i \in 1 .. Len(s) - 1 : Tail(s)[i] = s[i + 1]
  OBVIOUS
<1> DEFINE u == Tail(s)
<1>3. ToSet(s) = {s[i] : i \in 1 .. Len(s)} /\ ToSet(u) = {u[i] : i \in 1 .. Len(s) - 1}
  <2>1. u \in Seq(S) /\ Len(u) = Len(s) - 1
    BY <1>1, <1>2
  <2> HIDE DEF u
  <2>2. ToSet(u) = {u[i] : i \in 1 .. Len(u)}
    BY <2>1, ToSetFacts
  <2> QED
    BY <2>1, <2>2, ToSetFacts
<1>4. ASSUME NEW i \in 1 .. Len(s) PROVE s[i] \in {Head(s)} \cup ToSet(Tail(s))
  <2>1. i = 1 \/ (i - 1 \in 1 .. Len(s) - 1 /\ s[i] = Tail(s)[i - 1])
    BY <1>1, <1>2
  <2> QED
    BY <1>1, <1>3, <2>1
<1>5. ASSUME NEW i \in 1 .. Len(s) - 1 PROVE Tail(s)[i] \in ToSet(s)
  <2>1. i + 1 \in 1 .. Len(s)
    BY <1>1
  <2> QED
    BY <1>2, <1>3, <2>1
<1>6. Head(s) \in ToSet(s)
  BY <1>1, <1>3
<1>7. ToSet(s) = {Head(s)} \cup ToSet(Tail(s))
  BY <1>3, <1>4, <1>5, <1>6
<1> QED
  BY <1>1, <1>2, <1>7

(* A finite set as a sequence. *)
LEMMA SetToSeqFacts ==
  ASSUME NEW S, IsFiniteSet(S)
  PROVE  /\ SetToSeq(S) \in Seq(S) /\ ToSet(SetToSeq(S)) = S
         /\ S = {} => SetToSeq(S) = <<>>
<1> DEFINE n == Cardinality(S)
           f == SetToSeq(S)
<1>1. n \in Nat /\ \E g \in [1 .. n -> S] : IsInjective(g)
  <2>1. n \in Nat /\ ExistsBijection(1 .. n, S)
    BY FS_CardinalityType
  <2> QED
    BY <2>1 DEF ExistsBijection, Bijection, Injection
<1>2. f \in [1 .. n -> S] /\ IsInjective(f)
  BY <1>1 DEF SetToSeq
<1>3. f \in Injection(1 .. n, S)
  BY <1>2 DEF Injection
<1>4. Cardinality(1 .. n) = n
  BY <1>1, FS_Interval
<1> HIDE DEF f
<1>5. f \in Surjection(1 .. n, S)
  BY <1>3, <1>4, FS_Injection
<1> HIDE DEF n
<1>6. f \in Seq(S) /\ DOMAIN f = 1 .. n
  BY <1>1, <1>2
<1>7. ToSet(f) = S
  BY <1>2, <1>5, <1>6 DEF ToSet, Surjection
<1>8. S = {} => f = <<>>
  BY <1>6, <1>7, ToSetFacts
<1> QED
  BY <1>6, <1>7, <1>8 DEF f

-----------------------------------------------------------------------------
(* The threads given to the channels that were opened. *)
LEMMA ThreadedFacts ==
  ASSUME NEW sources, NEW opened \in Opened(sources)
  PROVE  /\ opened \in SUBSET sources
         /\ Threaded(opened) \in [opened -> Free] /\ IsInjective(Threaded(opened))
  BY DEF Opened, Threaded

(* What becomes of the threads when `new` are spawned. *)
Attached(new) ==
  /\ new \subseteq Free
  /\ stream' \in [Threads -> Sources \cup {None}] /\ open' \in [Threads -> BOOLEAN]
  /\ \A t \in new : stream'[t] \in Sources
  /\ \A t \in new, u \in new : stream'[t] = stream'[u] => t = u
  /\ \A t \in Threads \ new : stream'[t] = stream[t]
  /\ \A t \in Threads : open'[t] <=> t \in new \/ open[t]
  /\ late' = late \ new

(* _spawn starts a thread for each source whose channel could be opened.     *)
LEMMA SpawnedFacts ==
  ASSUME TypeOK, NEW sources \in SUBSET Sources, NEW opened \in Opened(sources),
         NEW list \in Seq(Threads), NEW channels, channels = Channels,
         Spawned(Threaded(opened), list, channels)
  PROVE  LET f == Threaded(opened)
             new == Range(f)
         IN  /\ Attached(new)
             /\ streams' \in Seq(Threads) /\ ToSet(streams') = ToSet(list) \cup new
             /\ SetToSeq(new) \in Seq(Threads) /\ ToSet(SetToSeq(new)) = new
             /\ f \in [opened -> Threads]
             /\ \A s \in opened : f[s] \in new /\ stream'[f[s]] = s
             /\ \A t \in new : stream'[t] \in opened /\ f[stream'[t]] = t
<1> DEFINE f == Threaded(opened)
           new == Range(f)
<1>1. opened \in SUBSET Sources /\ f \in [opened -> Free] /\ IsInjective(f)
  BY ThreadedFacts
<1>2. Free \subseteq Threads
  BY DEF Free
<1> HIDE DEF f
<1>3. new \subseteq Free /\ DOMAIN f = opened /\ new = {f[s] : s \in opened}
  BY <1>1 DEF Range
<1>4. IsFiniteSet(new)
  <2>1. IsFiniteSet(opened)
    BY <1>1, FS_Subset, StreamerConstantsOK
  <2>2. f \in Surjection(opened, new)
    BY <1>1, <1>3 DEF Surjection
  <2> QED
    BY <2>1, <2>2, FS_Surjection
<1>5. /\ streams' = list \o SetToSeq(new)
      /\ stream' = [t \in Threads |-> IF t \in new THEN CHOOSE s \in opened : f[s] = t
                                      ELSE stream[t]]
      /\ open' = [t \in Threads |-> t \in new \/ t \in channels]
      /\ late' = late \ new
  BY <1>3 DEF Spawned, f
<1>6. stream \in [Threads -> Sources \cup {None}] /\ open \in [Threads -> BOOLEAN]
  BY DEF TypeOK
<1>7. ASSUME NEW t \in new PROVE stream'[t] \in opened /\ f[stream'[t]] = t
  <2>1. \E s \in opened : f[s] = t
    BY <1>3
  <2>2. stream'[t] = CHOOSE s \in opened : f[s] = t
    BY <1>2, <1>3, <1>5
  <2> QED
    BY <2>1, <2>2
<1>8. ASSUME NEW s \in opened PROVE f[s] \in new /\ stream'[f[s]] = s
  <2>1. f[s] \in new
    BY <1>3
  <2>2. stream'[f[s]] \in opened /\ f[stream'[f[s]]] = f[s]
    BY <1>7, <2>1
  <2> QED
    BY <1>1, <1>3, <2>1, <2>2 DEF IsInjective
<1>9. Attached(new)
  <2>1. \A t \in new : stream'[t] \in Sources
    BY <1>1, <1>7
  <2>2. \A t \in Threads \ new : stream'[t] = stream[t]
    BY <1>5
  <2>3. stream' \in [Threads -> Sources \cup {None}]
    <3>1. DOMAIN stream' = Threads /\ \A t \in Threads : stream'[t] \in Sources \cup {None}
      BY <1>5, <1>6, <2>1, <2>2
    <3> QED
      BY <1>5, <3>1
  <2>4. open' \in [Threads -> BOOLEAN] /\ \A t \in Threads : open'[t] <=> t \in new \/ open[t]
    BY <1>5, <1>6 DEF Channels
  <2>5. \A t \in new, u \in new : stream'[t] = stream'[u] => t = u
    BY <1>7
  <2> QED
    BY <1>3, <1>5, <2>1, <2>2, <2>3, <2>4, <2>5 DEF Attached
<1>10. SetToSeq(new) \in Seq(Threads) /\ ToSet(SetToSeq(new)) = new
  <2>1. SetToSeq(new) \in Seq(new) /\ ToSet(SetToSeq(new)) = new
    BY <1>4, SetToSeqFacts
  <2> QED
    BY <1>2, <1>3, <2>1
<1>11. streams' \in Seq(Threads) /\ ToSet(streams') = ToSet(list) \cup new
  BY <1>5, <1>10, ToSetConcat
<1>12. f \in [opened -> Threads]
  BY <1>1, <1>2
<1> QED
  BY <1>7, <1>8, <1>9, <1>10, <1>11, <1>12 DEF f

(* Where nothing could be opened nothing changes. *)
LEMMA NothingSpawned ==
  ASSUME TypeOK, NEW channels, channels = Channels, Spawned(<<>>, <<>>, channels)
  PROVE  Attached({}) /\ streams' = <<>>
<1>1. Range(<<>>) = {}
  BY DEF Range
<1>2. SetToSeq({}) = <<>>
  BY SetToSeqFacts, FS_EmptySet
<1>3. /\ streams' = <<>> \o <<>>
      /\ stream' = [t \in Threads |-> stream[t]]
      /\ open' = [t \in Threads |-> t \in channels]
      /\ late' = late \ {}
  <2>1. /\ streams' = <<>> \o SetToSeq({})
        /\ stream' = [t \in Threads |-> IF t \in {} THEN CHOOSE s \in DOMAIN <<>> : <<>>[s] = t
                                        ELSE stream[t]]
        /\ open' = [t \in Threads |-> t \in {} \/ t \in channels]
        /\ late' = late \ {}
    BY <1>1, Zenon DEF Spawned
  <2>2. \A t \in Threads : (IF t \in {} THEN CHOOSE s \in DOMAIN <<>> : <<>>[s] = t ELSE stream[t])
                           = stream[t]
    OBVIOUS
  <2>3. open' = [t \in Threads |-> t \in channels]
    BY <2>1
  <2> QED
    BY <1>2, <2>1, <2>2, <2>3, Zenon
<1>4. stream \in [Threads -> Sources \cup {None}] /\ open \in [Threads -> BOOLEAN]
  BY DEF TypeOK
<1>5. streams' = <<>>
  BY <1>3
<1>6. stream' = stream /\ open' = open
  BY <1>3, <1>4 DEF Channels
<1> QED
  BY <1>3, <1>4, <1>5, <1>6 DEF Attached

-----------------------------------------------------------------------------
(* A call is a stop or, of the streams of a service, a start; only a call    *)
(* under way iterates the list or waits for the loop, which knows of at most *)
(* one end of a join of it.                                                  *)
CallInv ==
  /\ \A c \in Callers : job[c] \in {"idle", "stop"} \/ (job[c] = "service" /\ kind = "service")
  /\ \A c \in Callers : own[c] => job[c] # "idle"
  /\ \A c \in Callers, i \in 1 .. Len(ready) : ready[i] = Joined(c) =>
       job[c] # "idle" /\ \A j \in 1 .. Len(ready) : ready[j] = Joined(c) => j = i

TypeInv == TypeOK /\ CallInv

(* What a call that is made beside others leaves behind. *)
Noted(what) ==
  overlapped' = (overlapped \/ IF what = "service" THEN Busy # {}
                               ELSE \E d \in Busy : job[d] = "service")

(* A stop() begins to join the threads of the list ...                       *)
Begins(c, what) ==
  /\ what \in {"stop", "service"} /\ (what = "service" => kind = "service")
  /\ job[c] = "idle" /\ streams # <<>> /\ Noted(what) /\ stop' = TRUE
  /\ open' = [t \in Threads |-> t \in Channels /\ t \notin ToSet(streams)]
  /\ job' = [job EXCEPT ![c] = what]
  /\ joining' = [joining EXCEPT ![c] = streams]
  /\ own' = [own EXCEPT ![c] = TRUE]
  /\ UNCHANGED <<kind, streams, stream, byName, late, ready>>

(* ... goes on to the next one ...                                           *)
GoesOn(c) ==
  /\ job[c] # "idle" /\ ready # <<>> /\ Head(ready) = Joined(c) /\ ready' = Tail(ready)
  /\ Len(joining[c]) # 1 /\ joining' = [joining EXCEPT ![c] = Tail(joining[c])]
  /\ UNCHANGED <<kind, stop, streams, byName, stream, open, job, own, late, overlapped>>

(* A call that ends leaves behind no list but the new one. *)
Left(c, what, new) ==
  /\ job' = [job EXCEPT ![c] = "idle"]
  /\ joining' = [joining EXCEPT ![c] = <<>>]
  /\ own' = [d \in Callers |-> FALSE]
  /\ Attached(new) /\ streams' \in Seq(Threads) /\ ToSet(streams') = new
  /\ stop' \in BOOLEAN /\ (new # {} => stop' = FALSE)
  /\ IF what = "service" THEN byName' = byName
     ELSE new = {} /\ byName' = [s \in Sources |-> None]

(* ... and ends, or had nothing to join; after it a start attaches `new`.    *)
Returns(c, what, new) ==
  /\ what \in {"stop", "service"} /\ (what = "service" => kind = "service")
  /\ \/ job[c] = "idle" /\ streams = <<>> /\ ready' = ready /\ Noted(what)
     \/ /\ job[c] = what /\ ready # <<>> /\ Head(ready) = Joined(c) /\ ready' = Tail(ready)
        /\ Len(joining[c]) = 1 /\ overlapped' = overlapped
  /\ Left(c, what, new)
  /\ kind' = kind

(* A stop() that iterates the list joins `new` as well. *)
Lengthened(new) ==
  \A d \in Callers : IF own[d] THEN /\ ToSet(joining'[d]) = ToSet(joining[d]) \cup new
                                    /\ joining[d] # <<>> =>
                                         joining'[d] # <<>> /\ Head(joining'[d]) = Head(joining[d])
                     ELSE joining'[d] = joining[d]

(* A start of a half attaches `new`, which f gives to the sources opened.    *)
Joins(c, opened, f, new) ==
  /\ kind = "aidenops" /\ job[c] = "idle" /\ overlapped' = (overlapped \/ Busy # {})
  /\ stop' = (stop /\ Streaming # {})
  /\ opened \subseteq Sources \ Streaming
  /\ f \in [opened -> Threads] /\ Attached(new)
  /\ \A s \in opened : f[s] \in new /\ stream'[f[s]] = s
  /\ \A t \in new : stream'[t] \in opened /\ f[stream'[t]] = t
  /\ streams' \in Seq(Threads) /\ ToSet(streams') = ToSet(streams) \cup new
  /\ byName' = [s \in Sources |-> IF s \in opened THEN f[s] ELSE byName[s]]
  /\ joining' \in [Callers -> Seq(Threads)]
  /\ Lengthened(new)
  /\ UNCHANGED <<kind, job, own, ready>>

(* stop() to its end. *)
LEMMA FinishReturns ==
  ASSUME TypeOK, NEW c \in Callers, NEW what \in {"stop", "service"}, NEW flag \in BOOLEAN,
         NEW channels, channels = Channels, Finish(c, what, flag, channels)
  PROVE  \E new \in SUBSET Threads : Left(c, what, new)
<1>1. /\ job' = [job EXCEPT ![c] = "idle"]
      /\ joining' = [joining EXCEPT ![c] = <<>>]
      /\ own' = [d \in Callers |-> FALSE]
      /\ IF what = "service" THEN byName' = byName ELSE byName' = [s \in Sources |-> None]
  BY DEF Finish
<1>e. <<>> \in Seq(Threads) /\ ToSet(<<>>) = {}
  BY EmptySeq DEF ToSet
<1>2. CASE Spawned(<<>>, <<>>, channels) /\ stop' = flag
  <2>1. Attached({}) /\ streams' = <<>>
    BY <1>2, NothingSpawned
  <2> QED
    BY <1>1, <1>2, <1>e, <2>1 DEF Left
<1>3. ASSUME NEW opened \in Opened(SERVICE), what = "service", stop' = FALSE,
             Spawned(Threaded(opened), <<>>, channels)
      PROVE  \E new \in SUBSET Threads :
               /\ Attached(new) /\ streams' \in Seq(Threads) /\ ToSet(streams') = new
  <2> DEFINE new == Range(Threaded(opened))
  <2>1. SERVICE \in SUBSET Sources
    BY DEF Sources
  <2>2. Attached(new) /\ streams' \in Seq(Threads) /\ ToSet(streams') = ToSet(<<>>) \cup new
    BY <1>3, <1>e, <2>1, SpawnedFacts
  <2>3. new \in SUBSET Threads
    BY <2>2 DEF Attached, Free
  <2> QED
    BY <1>e, <2>2, <2>3
<1>4. CASE what = "service" /\ \E opened \in Opened(SERVICE) :
             stop' = FALSE /\ Spawned(Threaded(opened), <<>>, channels)
  <2>1. PICK new \in SUBSET Threads :
          Attached(new) /\ streams' \in Seq(Threads) /\ ToSet(streams') = new
    BY <1>3, <1>4
  <2>2. stop' = FALSE
    BY <1>4
  <2> QED
    BY <1>1, <1>4, <2>1, <2>2 DEF Left
<1>5. \/ Spawned(<<>>, <<>>, channels) /\ stop' = flag
      \/ what = "service" /\ \E opened \in Opened(SERVICE) :
             stop' = FALSE /\ Spawned(Threaded(opened), <<>>, channels)
  BY DEF Finish
<1> QED
  BY <1>2, <1>4, <1>5

(* A call of stop(), by itself or from a start. *)
LEMMA CallSteps ==
  ASSUME TypeInv, NEW c \in Callers, NEW what \in {"stop", "service"},
         what = "service" => kind = "service",
         job[c] = "idle", Noted(what), StopBegins(c, what), UNCHANGED <<kind, ready>>
  PROVE  Begins(c, what) \/ \E new \in SUBSET Threads : Returns(c, what, new)
<1>1. CASE streams # <<>>
  <2>1. open' = [t \in Threads |-> t \in Channels \ ToSet(streams)]
    BY <1>1 DEF StopBegins
  <2>2. open' = [t \in Threads |-> t \in Channels /\ t \notin ToSet(streams)]
    BY <2>1
  <2> QED
    BY <1>1, <2>2 DEF StopBegins, Begins
<1>2. CASE streams = <<>>
  <2>1. ToSet(streams) = {}
    BY <1>2 DEF ToSet
  <2>2. Channels \ ToSet(streams) = Channels
    BY <2>1
  <2>3. Finish(c, what, TRUE, Channels)
    BY <1>2, <2>2 DEF StopBegins
  <2>4. TypeOK
    BY DEF TypeInv
  <2> QED
    BY <1>2, <2>3, <2>4, FinishReturns DEF Returns
<1> QED
  BY <1>1, <1>2

(* The loop goes on with a stop() whose join has ended. *)
LEMMA ResumeSteps ==
  ASSUME TypeInv, NEW c \in Callers, Resume(c)
  PROVE  GoesOn(c) \/ \E what \in {"stop", "service"} : \E new \in SUBSET Threads : Returns(c, what, new)
<1>1. /\ ready # <<>> /\ Head(ready) = Joined(c) /\ ready' = Tail(ready)
      /\ UNCHANGED <<kind, overlapped>>
  BY DEF Resume
<1>2. job[c] \in {"stop", "service"} /\ (job[c] = "service" => kind = "service")
  <2>1. 1 \in 1 .. Len(ready) /\ ready[1] = Joined(c)
    BY <1>1, HeadTail DEF TypeInv, TypeOK
  <2> QED
    BY <2>1 DEF TypeInv, CallInv
<1>3. CASE Len(joining[c]) = 1
  <2>1. Finish(c, job[c], stop, Channels)
    BY <1>3 DEF Resume
  <2>2. TypeOK /\ stop \in BOOLEAN
    BY DEF TypeInv, TypeOK
  <2> QED
    <3>1. PICK new \in SUBSET Threads : Left(c, job[c], new)
      BY <1>2, <2>1, <2>2, FinishReturns
    <3>2. Returns(c, job[c], new)
      BY <1>1, <1>2, <1>3, <3>1 DEF Returns
    <3> QED
      BY <1>2, <3>2
<1>4. CASE Len(joining[c]) # 1
  BY <1>1, <1>2, <1>4 DEF Resume, GoesOn
<1> QED
  BY <1>3, <1>4

(* A start of a half attaches what is missing of it. *)
LEMMA HalfSteps ==
  ASSUME TypeInv, NEW c \in Callers, NEW half \in Starts \ {"service"}, HalfStart(c, half)
  PROVE  \E opened \in SUBSET Sources : \E f \in [opened -> Threads] : \E new \in SUBSET Threads :
           Joins(c, opened, f, new)
<1> DEFINE missing == Wanted(half) \ Streaming
<1>1. /\ kind = "aidenops" /\ job[c] = "idle" /\ overlapped' = (overlapped \/ Busy # {})
      /\ stop' = (stop /\ Streaming # {})
      /\ UNCHANGED <<kind, job, own, ready>>
  BY DEF HalfStart
<1>2. PICK opened \in Opened(missing) :
        LET f == Threaded(opened)
        IN  /\ Spawned(f, streams, Channels)
            /\ byName' = [s \in Sources |-> IF s \in opened THEN f[s] ELSE byName[s]]
            /\ joining' = [d \in Callers |-> IF own[d] THEN joining[d] \o SetToSeq(Range(f))
                                             ELSE joining[d]]
  BY DEF HalfStart
<1> DEFINE f == Threaded(opened)
           new == Range(f)
<1>3. missing \in SUBSET Sources
  <2>1. Wanted(half) \subseteq Sources
    <3>1. CASE half = "all"
      BY <3>1 DEF Wanted, Sources
    <3>2. CASE half # "all"
      <4>1. half \in DOMAIN HALVES
        BY <3>2 DEF Starts
      <4>2. HALVES[half] \in Range(HALVES)
        BY <4>1 DEF Range
      <4>3. Wanted(half) = HALVES[half]
        BY <3>2 DEF Wanted
      <4> QED
        BY <4>2, <4>3 DEF Sources
    <3> QED
      BY <3>1, <3>2
  <2> QED
    BY <2>1
<1>4. TypeOK /\ streams \in Seq(Threads) /\ joining \in [Callers -> Seq(Threads)]
  BY DEF TypeInv, TypeOK
<1>5. /\ Attached(new)
      /\ streams' \in Seq(Threads) /\ ToSet(streams') = ToSet(streams) \cup new
      /\ SetToSeq(new) \in Seq(Threads) /\ ToSet(SetToSeq(new)) = new
      /\ f \in [opened -> Threads]
      /\ \A s \in opened : f[s] \in new /\ stream'[f[s]] = s
      /\ \A t \in new : stream'[t] \in opened /\ f[stream'[t]] = t
  BY <1>2, <1>3, <1>4, SpawnedFacts
<1>6. opened \subseteq missing
  BY <1>2 DEF Opened
<1>7. new \in SUBSET Threads
  BY <1>5 DEF Attached, Free
<1>8. ASSUME NEW d \in Callers, own[d]
      PROVE  /\ joining[d] \o SetToSeq(new) \in Seq(Threads)
             /\ ToSet(joining[d] \o SetToSeq(new)) = ToSet(joining[d]) \cup new
             /\ joining[d] # <<>> => /\ joining[d] \o SetToSeq(new) # <<>>
                                     /\ Head(joining[d] \o SetToSeq(new)) = Head(joining[d])
  <2> DEFINE j == joining[d]
             n == SetToSeq(new)
             w == j \o n
  <2>1. j \in Seq(Threads) /\ n \in Seq(Threads) /\ ToSet(n) = new
    BY <1>4, <1>5
  <2> HIDE DEF j, n
  <2>2. w \in Seq(Threads) /\ ToSet(w) = ToSet(j) \cup new
    BY <2>1, ToSetConcat
  <2>3. ASSUME j # <<>> PROVE w # <<>> /\ Head(w) = Head(j)
    <3>1. Len(j) \in Nat \ {0} /\ Len(n) \in Nat
      BY <2>1, <2>3, EmptySeq
    <3>2. /\ Len(w) = Len(j) + Len(n)
          /\ \A i \in 1 .. Len(j) + Len(n) : w[i] = IF i <= Len(j) THEN j[i] ELSE n[i - Len(j)]
      BY <2>1, ConcatProperties
    <3>3. 1 \in 1 .. Len(j) + Len(n) /\ 1 <= Len(j) /\ Len(w) # 0
      BY <3>1, <3>2
    <3>4. w[1] = j[1]
      BY <3>2, <3>3
    <3>5. w # <<>>
      BY <3>3, EmptySeq
    <3> HIDE DEF w
    <3> QED
      BY <2>1, <2>2, <2>3, <3>4, <3>5, HeadTail
  <2> QED
    BY <2>2, <2>3 DEF j, n
<1>9. \A d \in Callers : joining'[d] = IF own[d] THEN joining[d] \o SetToSeq(new) ELSE joining[d]
  BY <1>2
<1>10. joining' \in [Callers -> Seq(Threads)]
  <2>1. \A d \in Callers : (IF own[d] THEN joining[d] \o SetToSeq(new) ELSE joining[d]) \in Seq(Threads)
    BY <1>4, <1>8
  <2> QED
    BY <1>2, <2>1
<1>11. byName' = [s \in Sources |-> IF s \in opened THEN f[s] ELSE byName[s]]
  BY <1>2
<1>12. opened \subseteq Sources \ Streaming /\ opened \in SUBSET Sources
  BY <1>3, <1>6
<1> HIDE DEF f, new
<1>13. Joins(c, opened, f, new)
  <2>1. Lengthened(new)
    BY <1>8, <1>9 DEF Lengthened
  <2>2. UNCHANGED <<kind, job, own, ready>>
    BY <1>1
  <2> QED
    <3>1. /\ kind = "aidenops" /\ job[c] = "idle" /\ overlapped' = (overlapped \/ Busy # {})
          /\ stop' = (stop /\ Streaming # {})
      BY <1>1
    <3>2. /\ opened \subseteq Sources \ Streaming /\ f \in [opened -> Threads] /\ Attached(new)
          /\ streams' \in Seq(Threads) /\ ToSet(streams') = ToSet(streams) \cup new
      BY <1>5, <1>12
    <3>3. /\ \A s \in opened : f[s] \in new /\ stream'[f[s]] = s
          /\ \A t \in new : stream'[t] \in opened /\ f[stream'[t]] = t
      BY <1>5
    <3> QED
      BY <1>10, <1>11, <2>1, <2>2, <3>1, <3>2, <3>3, Zenon DEF Joins
<1> QED
  BY <1>5, <1>7, <1>12, <1>13

(* What a step may be. *)
Step ==
  \/ Publish \/ UNCHANGED vars
  \/ \E c \in Callers : JoinEnds(c) \/ GoesOn(c)
  \/ \E c \in Callers, what \in {"stop", "service"} : Begins(c, what)
  \/ \E c \in Callers, what \in {"stop", "service"}, new \in SUBSET Threads : Returns(c, what, new)
  \/ \E c \in Callers, opened \in SUBSET Sources :
       \E f \in [opened -> Threads], new \in SUBSET Threads : Joins(c, opened, f, new)
  \/ \E t \in Threads : Emit(t) \/ (Alive(t) /\ Exit(t))

LEMMA Steps == TypeInv /\ [Next]_vars => Step
<1> SUFFICES ASSUME TypeInv, [Next]_vars PROVE Step
  OBVIOUS
<1>1. CASE Publish \/ UNCHANGED vars
  BY <1>1 DEF Step
<1>2. ASSUME NEW c \in Callers, Stop(c) PROVE Step
  <2>1. job[c] = "idle" /\ Noted("stop") /\ StopBegins(c, "stop") /\ UNCHANGED <<kind, ready>>
    BY <1>2 DEF Stop, Noted
  <2> QED
    BY <2>1, CallSteps DEF Step
<1>3. ASSUME NEW c \in Callers, ServiceStart(c) PROVE Step
  <2>1. /\ job[c] = "idle" /\ Noted("service") /\ StopBegins(c, "service") /\ kind = "service"
        /\ UNCHANGED <<kind, ready>>
    BY <1>3 DEF ServiceStart, Noted
  <2> QED
    BY <2>1, CallSteps DEF Step
<1>4. ASSUME NEW c \in Callers, JoinEnds(c) PROVE Step
  BY <1>4 DEF Step
<1>5. ASSUME NEW c \in Callers, Resume(c) PROVE Step
  BY <1>5, ResumeSteps DEF Step
<1>6. ASSUME NEW c \in Callers, NEW half \in Starts \ {"service"}, HalfStart(c, half) PROVE Step
  BY <1>6, HalfSteps DEF Step
<1>7. ASSUME NEW t \in Threads, Emit(t) \/ Obey(t) \/ Die(t) PROVE Step
  BY <1>7 DEF Step, Obey, Die
<1> QED
  BY <1>1, <1>2, <1>3, <1>4, <1>5, <1>6, <1>7 DEF Next

-----------------------------------------------------------------------------
(* The parts of the type. *)
Waiting == {Line(t) : t \in Threads} \cup {Joined(c) : c \in Callers}
FlagType == kind \in {"service", "aidenops"} /\ stop \in BOOLEAN /\ overlapped \in BOOLEAN
ListType == streams \in Seq(Threads) /\ byName \in [Sources -> Threads \cup {None}]
ThreadType ==
  /\ stream \in [Threads -> Sources \cup {None}] /\ open \in [Threads -> BOOLEAN]
  /\ late \subseteq Threads
CallType ==
  /\ job \in [Callers -> Starts \cup {"idle", "stop"}] /\ own \in [Callers -> BOOLEAN]
  /\ joining \in [Callers -> Seq(Threads)]
  /\ \A c \in Callers : job[c] = "idle" <=> joining[c] = <<>>
LoopType == ready \in Seq(Waiting)
Parts == FlagType /\ ListType /\ ThreadType /\ CallType /\ LoopType

LEMMA TypeParts ==
  /\ TypeOK => Parts /\ calls \in 0 .. MaxCalls
  /\ Parts' /\ calls' \in 0 .. MaxCalls => TypeOK'
  BY DEF TypeOK, Parts, FlagType, ListType, ThreadType, CallType, LoopType, Waiting

(* The calls are counted. *)
LEMMA CallsType == TypeOK /\ [Next]_vars => calls' \in 0 .. MaxCalls
<1> SUFFICES ASSUME TypeOK, [Next]_vars PROVE calls' \in 0 .. MaxCalls
  OBVIOUS
<1>1. calls' = calls \/ (calls < MaxCalls /\ calls' = calls + 1)
  BY DEF Next, vars, Publish, Stop, ServiceStart, JoinEnds, Resume, HalfStart, Emit, Obey, Die, Exit
<1>2. calls \in 0 .. MaxCalls /\ MaxCalls \in Nat
  BY StreamerConstantsOK DEF TypeOK
<1> QED
  BY <1>1, <1>2

LEMMA TypeInit == Init => TypeInv
<1> SUFFICES ASSUME Init PROVE TypeInv
  OBVIOUS
<1>1. 0 \in 0 .. MaxCalls
  BY StreamerConstantsOK
<1>2. 1 .. Len(ready) = {}
  BY DEF Init
<1>3. CallInv
  BY <1>2 DEF Init, CallInv
<1>4. FlagType /\ ListType /\ LoopType
  <2>1. streams = <<>> /\ ready = <<>> /\ byName \in [Sources -> Threads \cup {None}]
    BY DEF Init
  <2>2. streams \in Seq(Threads) /\ ready \in Seq(Waiting)
    BY <2>1, EmptySeq
  <2>3. FlagType
    BY DEF Init, FlagType
  <2> QED
    BY <2>1, <2>2, <2>3 DEF ListType, LoopType
<1>5. ThreadType
  BY DEF Init, ThreadType
<1>6. CallType
  <2>1. joining \in [Callers -> Seq(Threads)] /\ own \in [Callers -> BOOLEAN]
    BY DEF Init
  <2>2. job \in [Callers -> Starts \cup {"idle", "stop"}]
    BY DEF Init
  <2>3. \A c \in Callers : job[c] = "idle" /\ joining[c] = <<>>
    BY DEF Init
  <2> QED
    BY <2>1, <2>2, <2>3 DEF CallType
<1>7. calls \in 0 .. MaxCalls
  BY <1>1 DEF Init
<1>8. TypeOK
  BY <1>4, <1>5, <1>6, <1>7
  DEF TypeOK, FlagType, ListType, ThreadType, CallType, LoopType, Waiting
<1> QED
  BY <1>3, <1>8 DEF TypeInv

(* Whether a step notes an overlap it keeps the ones before. *)
LEMMA NotedType ==
  ASSUME NEW what, Noted(what) PROVE overlapped' \in BOOLEAN
  BY Zenon DEF Noted

(* The loop has run what was first. *)
LEMMA ReadyTail ==
  ASSUME TypeInv, ready # <<>>, ready' = Tail(ready)
  PROVE  /\ Len(ready) \in Nat /\ Len(ready') = Len(ready) - 1
         /\ \A i \in 1 .. Len(ready') : i + 1 \in 1 .. Len(ready) /\ ready'[i] = ready[i + 1]
         /\ ready[1] = Head(ready) /\ 1 \in 1 .. Len(ready)
         /\ ready' \in Seq(Waiting) /\ ToSet(ready') \subseteq ToSet(ready)
<1> DEFINE u == Tail(ready)
<1>1. ready \in Seq(Waiting)
  BY TypeParts DEF TypeInv, Parts, LoopType
<1>2. /\ Head(ready) = ready[1] /\ u \in Seq(Waiting) /\ Len(ready) \in Nat \ {0}
      /\ Len(u) = Len(ready) - 1
      /\ \A i \in 1 .. Len(ready) - 1 : u[i] = ready[i + 1]
      /\ ToSet(ready) = {Head(ready)} \cup ToSet(u)
  BY <1>1, HeadTail
<1>3. ready' = u
  OBVIOUS
<1> HIDE DEF u
<1>4. ASSUME NEW i \in 1 .. Len(u) PROVE i + 1 \in 1 .. Len(ready) /\ u[i] = ready[i + 1]
  BY <1>2
<1>5. /\ Len(ready) \in Nat /\ Len(u) = Len(ready) - 1
      /\ \A i \in 1 .. Len(u) : i + 1 \in 1 .. Len(ready) /\ u[i] = ready[i + 1]
      /\ ready[1] = Head(ready) /\ 1 \in 1 .. Len(ready)
      /\ u \in Seq(Waiting) /\ ToSet(u) \subseteq ToSet(ready)
  BY <1>2, <1>4
<1> QED
  BY <1>3, <1>5, Zenon

(* The loop is handed something more. *)
LEMMA ReadyAppend ==
  ASSUME TypeInv, NEW e \in Waiting, ready' = Append(ready, e)
  PROVE  /\ Len(ready) \in Nat /\ Len(ready') = Len(ready) + 1
         /\ \A i \in 1 .. Len(ready) : ready'[i] = ready[i]
         /\ ready'[Len(ready) + 1] = e
         /\ ready' \in Seq(Waiting) /\ ToSet(ready') = ToSet(ready) \cup {e}
         /\ ToSet(ready) = {ready[i] : i \in 1 .. Len(ready)}
<1>1. ready \in Seq(Waiting)
  BY TypeParts DEF TypeInv, Parts, LoopType
<1>2. Len(ready) \in Nat
  BY <1>1
<1> QED
  BY <1>1, <1>2, ToSetAppend, ToSetFacts

(* A line is no end of a join, and each knows whose it is. *)
LEMMA Distinct ==
  /\ \A t \in Threads, c \in Callers : Line(t) # Joined(c)
  /\ \A t, u \in Threads : Line(t) = Line(u) => t = u
  /\ \A c, d \in Callers : Joined(c) = Joined(d) => c = d
  BY DEF Line, Joined

(* What the loop knows of ends of joins when it runs what was first; `jobs`  *)
(* stay as they are, except that of the caller whose join has ended.         *)
LEMMA CallInvTail ==
  ASSUME TypeInv, ready # <<>>, ready' = Tail(ready),
         \A c \in Callers : job'[c] \in {"idle", "stop"} \/ (job'[c] = "service" /\ kind' = "service"),
         \A c \in Callers : own'[c] => job'[c] # "idle",
         \A c \in Callers : Head(ready) # Joined(c) => job'[c] = job[c]
  PROVE  CallInv'
<1>1. /\ Len(ready) \in Nat /\ Len(ready') = Len(ready) - 1
      /\ \A i \in 1 .. Len(ready') : i + 1 \in 1 .. Len(ready) /\ ready'[i] = ready[i + 1]
      /\ ready[1] = Head(ready) /\ 1 \in 1 .. Len(ready)
  BY ReadyTail
<1>2. SUFFICES ASSUME NEW c \in Callers, NEW i \in 1 .. Len(ready'), ready'[i] = Joined(c)
               PROVE  job'[c] # "idle" /\ \A j \in 1 .. Len(ready') : ready'[j] = Joined(c) => j = i
  BY DEF CallInv
<1>3. /\ i + 1 \in 1 .. Len(ready) /\ ready[i + 1] = Joined(c) /\ job[c] # "idle"
      /\ \A j \in 1 .. Len(ready) : ready[j] = Joined(c) => j = i + 1
  BY <1>1, <1>2 DEF TypeInv, CallInv
<1>4. ASSUME NEW j \in 1 .. Len(ready'), ready'[j] = Joined(c) PROVE j = i
  <2>1. j + 1 \in 1 .. Len(ready) /\ ready[j + 1] = Joined(c)
    BY <1>1, <1>4
  <2>2. j + 1 = i + 1
    BY <1>3, <2>1
  <2> QED
    BY <1>1, <2>2
<1>5. Head(ready) # Joined(c)
  <2>1. 1 # i + 1
    BY <1>1, <1>2
  <2> QED
    BY <1>1, <1>3, <2>1
<1> QED
  BY <1>3, <1>4, <1>5

(* Every step keeps the types, and what is known of the calls. *)
LEMMA TypeStep == TypeInv /\ [Next]_vars => TypeInv'
<1> SUFFICES ASSUME TypeInv, [Next]_vars PROVE TypeInv'
  OBVIOUS
<1>0. FlagType /\ ListType /\ ThreadType /\ CallType /\ LoopType /\ CallInv /\ calls' \in 0 .. MaxCalls
  BY TypeParts, CallsType DEF TypeInv, Parts
<1>a. ASSUME FlagType', ListType', ThreadType', CallType', LoopType', CallInv' PROVE TypeInv'
  BY <1>0, <1>a, TypeParts DEF TypeInv, Parts
<1>b. Step
  BY Steps
<1>1. CASE Publish
  <2>1. /\ ready # <<>> /\ ready' = Tail(ready) /\ Head(ready)[1] = "line"
        /\ UNCHANGED <<kind, stop, streams, byName, stream, open, job, joining, own, overlapped,
                       late>>
    BY <1>1 DEF Publish
  <2>2. FlagType' /\ ListType' /\ ThreadType' /\ CallType'
    BY <1>0, <2>1 DEF FlagType, ListType, ThreadType, CallType
  <2>3. LoopType'
    BY <2>1, ReadyTail DEF LoopType, Waiting
  <2>4. CallInv'
    BY <1>0, <2>1, CallInvTail DEF CallInv
  <2> QED
    BY <1>a, <2>2, <2>3, <2>4
<1>2. CASE UNCHANGED vars
  BY <1>0, <1>a, <1>2 DEF vars, FlagType, ListType, ThreadType, CallType, LoopType, Waiting, CallInv
<1>3. ASSUME NEW c \in Callers, JoinEnds(c) PROVE TypeInv'
  <2>1. /\ job[c] # "idle" /\ Joined(c) \notin ToSet(ready) /\ ready' = Append(ready, Joined(c))
        /\ UNCHANGED <<kind, stop, streams, byName, stream, open, job, joining, own, overlapped>>
    BY <1>3 DEF JoinEnds
  <2>2. FlagType' /\ ListType' /\ CallType'
    BY <1>0, <2>1 DEF FlagType, ListType, CallType
  <2>3. late' \subseteq Threads
    <3>1. Head(joining[c]) \in Threads
      <4>1. joining[c] \in Seq(Threads) /\ joining[c] # <<>>
        BY <1>0, <2>1 DEF CallType
      <4> QED
        BY <4>1, HeadTail
    <3> QED
      BY <1>0, <1>3, <3>1 DEF JoinEnds, ThreadType
  <2>4. Joined(c) \in Waiting
    BY DEF Waiting
  <2>5. /\ Len(ready) \in Nat /\ Len(ready') = Len(ready) + 1
        /\ \A i \in 1 .. Len(ready) : ready'[i] = ready[i]
        /\ ready'[Len(ready) + 1] = Joined(c)
        /\ ready' \in Seq(Waiting) /\ ToSet(ready) = {ready[i] : i \in 1 .. Len(ready)}
    BY <2>1, <2>4, ReadyAppend
  <2>6. CallInv'
    <3>1. ASSUME NEW d \in Callers, NEW i \in 1 .. Len(ready'), ready'[i] = Joined(d)
          PROVE  /\ job[d] # "idle"
                 /\ \A j \in 1 .. Len(ready') : ready'[j] = Joined(d) => j = i
      <4>1. \A j \in 1 .. Len(ready') : j \in 1 .. Len(ready) \/ j = Len(ready) + 1
        BY <2>5
      <4>2. CASE d = c
        <5>1. \A j \in 1 .. Len(ready) : ready'[j] # Joined(c)
          BY <2>1, <2>5
        <5> QED
          BY <2>1, <3>1, <4>1, <4>2, <5>1
      <4>3. CASE d # c
        <5>1. Joined(c) # Joined(d)
          BY <4>3, Distinct
        <5>2. \A j \in 1 .. Len(ready') : ready'[j] = Joined(d) =>
                j \in 1 .. Len(ready) /\ ready[j] = Joined(d)
          BY <2>5, <4>1, <5>1
        <5> QED
          BY <1>0, <3>1, <5>2 DEF CallInv
      <4> QED
        BY <4>2, <4>3
    <3> QED
      BY <1>0, <2>1, <3>1 DEF CallInv
  <2>7. ThreadType' /\ LoopType'
    BY <1>0, <2>1, <2>3, <2>5 DEF ThreadType, LoopType, Waiting
  <2> QED
    BY <1>a, <2>2, <2>6, <2>7
<1>4. ASSUME NEW c \in Callers, GoesOn(c) PROVE TypeInv'
  <2>1. /\ job[c] # "idle" /\ ready # <<>> /\ Head(ready) = Joined(c) /\ ready' = Tail(ready)
        /\ Len(joining[c]) # 1 /\ joining' = [joining EXCEPT ![c] = Tail(joining[c])]
        /\ UNCHANGED <<kind, stop, streams, byName, stream, open, job, own, late, overlapped>>
    BY <1>4 DEF GoesOn
  <2>2. FlagType' /\ ListType' /\ ThreadType'
    BY <1>0, <2>1 DEF FlagType, ListType, ThreadType
  <2>3. Tail(joining[c]) \in Seq(Threads) /\ Tail(joining[c]) # <<>>
    <3> DEFINE q == joining[c]
    <3>1. q \in Seq(Threads) /\ q # <<>> /\ Len(q) # 1
      BY <1>0, <2>1 DEF CallType
    <3> HIDE DEF q
    <3>2. Tail(q) \in Seq(Threads) /\ Len(Tail(q)) = Len(q) - 1 /\ Len(q) \in Nat \ {0}
      BY <3>1, HeadTail
    <3>3. ASSUME NEW n \in Nat \ {0}, n # 1 PROVE n - 1 # 0
      BY <3>3
    <3>4. Len(Tail(q)) # 0
      BY <3>1, <3>2, <3>3
    <3>5. Tail(q) # <<>>
      BY <3>4, EmptySeq
    <3> QED
      BY <3>2, <3>5 DEF q
  <2>4. CallType'
    BY <1>0, <2>1, <2>3 DEF CallType
  <2>5. LoopType'
    BY <2>1, ReadyTail DEF LoopType, Waiting
  <2>6. CallInv'
    BY <1>0, <2>1, CallInvTail DEF CallInv
  <2> QED
    BY <1>a, <2>2, <2>4, <2>5, <2>6
<1>5. ASSUME NEW c \in Callers, NEW what \in {"stop", "service"}, Begins(c, what) PROVE TypeInv'
  <2>1. /\ (what = "service" => kind = "service")
        /\ job[c] = "idle" /\ streams # <<>> /\ Noted(what) /\ stop' = TRUE
        /\ open' = [t \in Threads |-> t \in Channels /\ t \notin ToSet(streams)]
        /\ job' = [job EXCEPT ![c] = what] /\ joining' = [joining EXCEPT ![c] = streams]
        /\ own' = [own EXCEPT ![c] = TRUE]
        /\ UNCHANGED <<kind, streams, stream, byName, late, ready>>
    BY <1>5 DEF Begins
  <2>2. FlagType'
    BY <1>0, <2>1, NotedType DEF FlagType
  <2>3. ListType' /\ ThreadType' /\ LoopType'
    BY <1>0, <2>1 DEF ListType, ThreadType, LoopType, Waiting
  <2>4. CallType'
    BY <1>0, <2>1 DEF CallType, ListType, Starts
  <2>5. CallInv'
    <3>1. \A d \in Callers : job'[d] = IF d = c THEN what ELSE job[d]
      BY <1>0, <2>1 DEF CallType
    <3>2. \A d \in Callers : d # c => own'[d] = own[d]
      BY <1>0, <2>1 DEF CallType
    <3> QED
      BY <1>0, <2>1, <3>1, <3>2 DEF CallInv
  <2> QED
    BY <1>a, <2>2, <2>3, <2>4, <2>5
<1>6. ASSUME NEW c \in Callers, NEW what \in {"stop", "service"}, NEW new \in SUBSET Threads,
             Returns(c, what, new)
      PROVE  TypeInv'
  <2>1. /\ \/ job[c] = "idle" /\ ready' = ready /\ Noted(what)
           \/ ready # <<>> /\ Head(ready) = Joined(c) /\ ready' = Tail(ready) /\ overlapped' = overlapped
        /\ job' = [job EXCEPT ![c] = "idle"] /\ joining' = [joining EXCEPT ![c] = <<>>]
        /\ own' = [d \in Callers |-> FALSE]
        /\ Attached(new) /\ streams' \in Seq(Threads) /\ stop' \in BOOLEAN
        /\ byName' = byName \/ byName' = [s \in Sources |-> None]
        /\ kind' = kind
    BY <1>6 DEF Returns, Left
  <2>2. FlagType'
    BY <1>0, <2>1, NotedType DEF FlagType
  <2>3. ListType' /\ ThreadType'
    BY <1>0, <2>1 DEF ListType, ThreadType, Attached
  <2>4. CallType'
    BY <1>0, <2>1 DEF CallType
  <2>5. LoopType'
    BY <1>0, <2>1, ReadyTail DEF LoopType, Waiting
  <2>6. CallInv'
    <3>1. \A d \in Callers : job'[d] = IF d = c THEN "idle" ELSE job[d]
      BY <1>0, <2>1 DEF CallType
    <3>2. \A d \in Callers : ~own'[d]
      BY <2>1
    <3>3. CASE job[c] = "idle" /\ ready' = ready
      BY <1>0, <2>1, <3>1, <3>2, <3>3 DEF CallInv
    <3>4. CASE ready # <<>> /\ Head(ready) = Joined(c) /\ ready' = Tail(ready)
      <4>1. \A d \in Callers : job'[d] \in {"idle", "stop"} \/ (job'[d] = "service" /\ kind' = "service")
        BY <1>0, <2>1, <3>1 DEF CallInv
      <4> QED
        BY <3>1, <3>2, <3>4, <4>1, CallInvTail
    <3> QED
      BY <2>1, <3>3, <3>4
  <2> QED
    BY <1>a, <2>2, <2>3, <2>4, <2>5, <2>6
<1>7. ASSUME NEW c \in Callers, NEW opened \in SUBSET Sources, NEW f \in [opened -> Threads],
             NEW new \in SUBSET Threads, Joins(c, opened, f, new)
      PROVE  TypeInv'
  <2>1. /\ stop' = (stop /\ Streaming # {}) /\ overlapped' = (overlapped \/ Busy # {})
        /\ Attached(new) /\ streams' \in Seq(Threads)
        /\ byName' = [s \in Sources |-> IF s \in opened THEN f[s] ELSE byName[s]]
        /\ joining' \in [Callers -> Seq(Threads)]
        /\ UNCHANGED <<kind, job, own, ready>>
    BY <1>7 DEF Joins, Lengthened
  <2>2. FlagType'
    <3>1. stop' \in BOOLEAN /\ overlapped' \in BOOLEAN
      BY <2>1, Zenon
    <3> QED
      BY <1>0, <2>1, <3>1 DEF FlagType
  <2>3. ListType'
    <3>1. \A s \in Sources : (IF s \in opened THEN f[s] ELSE byName[s]) \in Threads \cup {None}
      BY <1>0 DEF ListType
    <3> QED
      BY <2>1, <3>1 DEF ListType
  <2>4. ThreadType' /\ LoopType' /\ CallInv'
    BY <1>0, <2>1 DEF ThreadType, Attached, LoopType, Waiting, CallInv
  <2>5. ASSUME NEW d \in Callers PROVE job[d] = "idle" <=> joining'[d] = <<>>
    <3>1. CASE own[d]
      BY <1>0, <1>7, <3>1 DEF Joins, Lengthened, CallInv, CallType
    <3>2. CASE ~own[d]
      BY <1>0, <1>7, <3>2 DEF Joins, Lengthened, CallType
    <3> QED
      BY <3>1, <3>2
  <2>6. CallType'
    BY <1>0, <2>1, <2>5 DEF CallType
  <2> QED
    BY <1>a, <2>2, <2>3, <2>4, <2>6
<1>8. ASSUME NEW t \in Threads, Emit(t) PROVE TypeInv'
  <2>1. /\ ready' = Append(ready, Line(t))
        /\ UNCHANGED <<kind, stop, streams, byName, stream, open, job, joining, own, overlapped,
                       late>>
    BY <1>8 DEF Emit
  <2>2. FlagType' /\ ListType' /\ ThreadType' /\ CallType'
    BY <1>0, <2>1 DEF FlagType, ListType, ThreadType, CallType
  <2>3. Line(t) \in Waiting
    BY DEF Waiting
  <2>4. /\ Len(ready) \in Nat /\ Len(ready') = Len(ready) + 1
        /\ \A i \in 1 .. Len(ready) : ready'[i] = ready[i]
        /\ ready'[Len(ready) + 1] = Line(t) /\ ready' \in Seq(Waiting)
    BY <2>1, <2>3, ReadyAppend
  <2>5. \A d \in Callers, i \in 1 .. Len(ready') : ready'[i] = Joined(d) =>
          i \in 1 .. Len(ready) /\ ready[i] = Joined(d)
    <3>1. \A i \in 1 .. Len(ready') : i \in 1 .. Len(ready) \/ i = Len(ready) + 1
      BY <2>4
    <3> QED
      BY <2>4, <3>1, Distinct
  <2>6. CallInv'
    BY <1>0, <2>1, <2>5 DEF CallInv
  <2>7. LoopType'
    BY <2>4 DEF LoopType, Waiting
  <2> QED
    BY <1>a, <2>2, <2>6, <2>7
<1>9. ASSUME NEW t \in Threads, Exit(t) PROVE TypeInv'
  <2>1. /\ stream' = [stream EXCEPT ![t] = None] /\ open' = [open EXCEPT ![t] = FALSE]
        /\ UNCHANGED <<kind, stop, streams, byName, job, joining, own, ready, overlapped, late>>
    BY <1>9 DEF Exit
  <2>2. FlagType' /\ ListType' /\ CallType' /\ LoopType' /\ CallInv'
    BY <1>0, <2>1 DEF FlagType, ListType, CallType, LoopType, Waiting, CallInv
  <2>3. ThreadType'
    BY <1>0, <2>1 DEF ThreadType
  <2> QED
    BY <1>a, <2>2, <2>3
<1> QED
  BY <1>b, <1>1, <1>2, <1>3, <1>4, <1>5, <1>6, <1>7, <1>8, <1>9 DEF Step

(* Every list, thread and call has its type; a call under way has a thread   *)
(* to join.                                                                  *)
THEOREM StreamerTypeCorrect == Spec => []TypeOK
<1>1. TypeInv => TypeOK
  BY DEF TypeInv
<1> QED
  BY <1>1, TypeInit, TypeStep, PTL DEF Spec

-----------------------------------------------------------------------------
(* A thread whose channel is open lives; a thread with a name is of a half   *)
(* and on the list.                                                          *)
NameInv ==
  /\ \A t \in Threads : open[t] => Alive(t)
  /\ \A s \in Sources : byName[s] # None => kind = "aidenops" /\ byName[s] \in ToSet(streams)
  /\ RunningMeansClear

(* What makes a thread free. *)
LEMMA FreeFacts ==
  ASSUME NEW t \in Free
  PROVE  /\ t \in Threads /\ ~Alive(t) /\ t \notin ToSet(streams) /\ Line(t) \notin ToSet(ready)
         /\ \A c \in Callers : t \notin ToSet(joining[c])
  BY DEF Free, Held

(* The calls under way after a step that begins or ends one. *)
LEMMA BusyFacts ==
  ASSUME TypeInv, NEW c \in Callers, NEW what \in {"idle", "stop", "service"},
         job' = [job EXCEPT ![c] = what]
  PROVE  /\ Busy' = IF what = "idle" THEN Busy \ {c} ELSE Busy \cup {c}
         /\ job'[c] = what /\ \A d \in Callers \ {c} : job'[d] = job[d]
<1>1. job'[c] = what /\ \A d \in Callers \ {c} : job'[d] = job[d]
  BY DEF TypeInv, TypeOK
<1> QED
  BY <1>1 DEF Busy

LEMMA NameInit == Init => NameInv
  BY DEF Init, NameInv, RunningMeansClear

(* Every step keeps the names, and a stream on the list away from the flag.  *)
LEMMA NameStep == TypeInv /\ TypeInv' /\ NameInv /\ [Next]_vars => NameInv'
<1> SUFFICES ASSUME TypeInv, TypeInv', NameInv, [Next]_vars PROVE NameInv'
  OBVIOUS
<1>a. Step
  BY Steps
<1>b. None \notin Sources /\ None \notin Threads
  BY StreamerConstantsOK
<1>1. CASE Publish \/ UNCHANGED vars \/ (\E c \in Callers : JoinEnds(c) \/ GoesOn(c))
           \/ (\E t \in Threads : Emit(t))
  <2>1. UNCHANGED <<kind, stop, streams, byName, stream, open, job>>
    BY <1>1 DEF Publish, vars, JoinEnds, GoesOn, Emit
  <2> QED
    BY <2>1 DEF NameInv, RunningMeansClear, Alive, Busy
<1>2. ASSUME NEW c \in Callers, NEW what \in {"stop", "service"}, Begins(c, what) PROVE NameInv'
  <2>1. /\ open' = [t \in Threads |-> t \in Channels /\ t \notin ToSet(streams)]
        /\ UNCHANGED <<kind, streams, stream, byName>>
        /\ job' = [job EXCEPT ![c] = what]
    BY <1>2 DEF Begins
  <2>2. c \in Busy'
    BY <2>1, BusyFacts
  <2>3. \A t \in Threads : open'[t] => Alive(t)'
    BY <2>1 DEF NameInv, Channels, Alive
  <2>4. \A s \in Sources : byName'[s] # None => kind' = "aidenops" /\ byName'[s] \in ToSet(streams')
    BY <2>1 DEF NameInv
  <2> QED
    BY <2>2, <2>3, <2>4 DEF NameInv, RunningMeansClear
<1>3. ASSUME NEW c \in Callers, NEW what \in {"stop", "service"}, NEW new \in SUBSET Threads,
             Returns(c, what, new)
      PROVE  NameInv'
  <2>1. /\ Attached(new) /\ ToSet(streams') = new /\ (new # {} => stop' = FALSE)
        /\ what = "service" => kind = "service"
        /\ IF what = "service" THEN byName' = byName
           ELSE byName' = [s \in Sources |-> None]
        /\ kind' = kind
    BY <1>3 DEF Returns, Left
  <2>2. \A t \in Threads : open'[t] => Alive(t)'
    BY <1>b, <2>1 DEF NameInv, Attached, Alive
  <2>3. \A s \in Sources : byName'[s] = None
    BY <2>1 DEF NameInv
  <2>4. RunningMeansClear'
    BY <2>1 DEF RunningMeansClear
  <2> QED
    BY <2>2, <2>3, <2>4 DEF NameInv
<1>4. ASSUME NEW c \in Callers, NEW opened \in SUBSET Sources, NEW f \in [opened -> Threads],
             NEW new \in SUBSET Threads, Joins(c, opened, f, new)
      PROVE  NameInv'
  <2>1. /\ Attached(new) /\ ToSet(streams') = ToSet(streams) \cup new
        /\ stop' = (stop /\ Streaming # {}) /\ kind = "aidenops" /\ kind' = kind /\ job' = job
        /\ byName' = [s \in Sources |-> IF s \in opened THEN f[s] ELSE byName[s]]
        /\ \A s \in opened : f[s] \in new
    BY <1>4 DEF Joins, Lengthened
  <2>2. \A t \in Threads : open'[t] => Alive(t)'
    BY <1>b, <2>1 DEF NameInv, Attached, Alive
  <2>3. \A s \in Sources : byName'[s] # None => kind' = "aidenops" /\ byName'[s] \in ToSet(streams')
    BY <2>1 DEF NameInv
  <2>4. RunningMeansClear'
    <3>1. SUFFICES ASSUME Busy = {}, stop, Streaming # {} PROVE FALSE
      BY <2>1 DEF RunningMeansClear, Busy
    <3>2. PICK s \in Sources : byName[s] # None /\ Alive(byName[s])
      BY <3>1 DEF Streaming
    <3>3. byName[s] \in ToSet(streams)
      BY <3>2 DEF NameInv
    <3> QED
      BY <3>1, <3>2, <3>3 DEF NameInv, RunningMeansClear
  <2> QED
    BY <2>2, <2>3, <2>4 DEF NameInv
<1>5. ASSUME NEW t \in Threads, Exit(t) PROVE NameInv'
  <2>1. /\ stream' = [stream EXCEPT ![t] = None] /\ open' = [open EXCEPT ![t] = FALSE]
        /\ UNCHANGED <<kind, stop, streams, byName, job>>
    BY <1>5 DEF Exit
  <2>2. /\ \A u \in Threads \ {t} : stream'[u] = stream[u] /\ open'[u] = open[u]
        /\ stream'[t] = None /\ ~open'[t]
    BY <2>1 DEF TypeInv, TypeOK
  <2>3. ToSet(streams) \subseteq Threads
    BY ToSetFacts DEF TypeInv, TypeOK
  <2>4. \A u \in Threads : Alive(u)' => Alive(u)
    BY <2>2 DEF Alive
  <2>5. \A u \in Threads : open'[u] => Alive(u)'
    BY <2>2 DEF NameInv, Alive
  <2>6. RunningMeansClear'
    BY <2>1, <2>3, <2>4 DEF NameInv, RunningMeansClear, Busy
  <2> QED
    BY <2>1, <2>5, <2>6 DEF NameInv
<1> QED
  BY <1>a, <1>1, <1>2, <1>3, <1>4, <1>5 DEF Step

(* When no stop() is under way and the flag is set, no stream on the list is *)
(* alive to see it, so that a start of AidenOps may leave the flag alone.    *)
THEOREM RunningCorrect == Spec => []RunningMeansClear
<1>1. NameInv => RunningMeansClear
  BY DEF NameInv
<1> QED
  BY <1>1, TypeInit, TypeStep, NameInit, NameStep, PTL DEF Spec

-----------------------------------------------------------------------------
(* When the end of a join waits for the loop, the thread that was joined has *)
(* outlived the join, or is dead and its last line waits before that.        *)
JoinInv ==
  \A c \in Callers, i \in 1 .. Len(ready) : ready[i] = Joined(c) =>
    \/ Head(joining[c]) \in late
    \/ /\ ~Alive(Head(joining[c]))
       /\ \A j \in 1 .. Len(ready) : j > i => ready[j] # Line(Head(joining[c]))

(* The thread being joined. *)
LEMMA JoiningFacts ==
  ASSUME TypeInv, NEW c \in Callers, job[c] # "idle"
  PROVE  joining[c] # <<>> /\ Head(joining[c]) \in Threads /\ Head(joining[c]) \in ToSet(joining[c])
<1>1. joining[c] \in Seq(Threads) /\ joining[c] # <<>>
  BY DEF TypeInv, TypeOK
<1> QED
  BY <1>1, HeadTail

(* A step that hands the loop nothing keeps what it knows: the first n of    *)
(* what it had to run have been run, and whoever still waits for an end of a *)
(* join waits for the same thread, which nobody uses again meanwhile.        *)
LEMMA JoinKept ==
  ASSUME TypeInv, JoinInv, NEW n \in Nat,
         Len(ready) \in Nat, Len(ready') \in Nat,
         \A i \in 1 .. Len(ready') : i + n \in 1 .. Len(ready) /\ ready'[i] = ready[i + n],
         \A c \in Callers, i \in 1 .. Len(ready') : ready'[i] = Joined(c) =>
           LET t == Head(joining[c])
           IN  /\ Head(joining'[c]) = t
               /\ t \in late => t \in late'
               /\ ~Alive(t) => ~Alive(t)'
  PROVE  JoinInv'
<1> SUFFICES ASSUME NEW c \in Callers, NEW i \in 1 .. Len(ready'), ready'[i] = Joined(c)
             PROVE  \/ Head(joining'[c]) \in late'
                    \/ /\ ~Alive(Head(joining[c]))'
                       /\ \A j \in 1 .. Len(ready') : j > i => ready'[j] # Line(Head(joining'[c]))
  BY DEF JoinInv
<1> DEFINE t == Head(joining[c])
<1>1. Head(joining'[c]) = t /\ (t \in late => t \in late') /\ (~Alive(t) => stream'[t] = None)
  BY DEF Alive
<1>2. i + n \in 1 .. Len(ready) /\ ready[i + n] = Joined(c)
  OBVIOUS
<1>3. CASE t \in late
  BY <1>1, <1>3
<1>4. CASE ~Alive(t) /\ \A j \in 1 .. Len(ready) : j > i + n => ready[j] # Line(t)
  <2>1. ASSUME NEW j \in 1 .. Len(ready'), j > i PROVE ready'[j] # Line(t)
    <3>1. j + n \in 1 .. Len(ready) /\ ready'[j] = ready[j + n] /\ j + n > i + n
      BY <2>1
    <3> QED
      BY <1>4, <3>1
  <2>2. ~Alive(Head(joining[c]))'
    BY <1>1, <1>4 DEF Alive
  <2> QED
    BY <1>1, <2>1, <2>2
<1> QED
  BY <1>2, <1>3, <1>4 DEF JoinInv

LEMMA JoinInit == Init => JoinInv
<1> SUFFICES ASSUME Init PROVE JoinInv
  OBVIOUS
<1>1. 1 .. Len(ready) = {}
  BY DEF Init
<1> QED
  BY <1>1 DEF JoinInv

(* Of a sequence that is not touched nothing has been run. *)
LEMMA ReadySame ==
  ASSUME TypeInv, UNCHANGED ready
  PROVE  /\ Len(ready) \in Nat /\ Len(ready') \in Nat /\ 0 \in Nat
         /\ \A i \in 1 .. Len(ready') : i + 0 \in 1 .. Len(ready) /\ ready'[i] = ready[i + 0]
<1>1. Len(ready) \in Nat
  BY DEF TypeInv, TypeOK
<1> QED
  BY <1>1

(* Threads that are spawned were not waited for, nor late, nor heard of.     *)
LEMMA AttachedFacts ==
  ASSUME NEW new, Attached(new), NEW t \in Threads \ new
  PROVE  /\ Alive(t)' <=> Alive(t)
         /\ t \in late' <=> t \in late
  BY DEF Attached, Alive

(* Every step keeps what the loop knows. *)
LEMMA JoinStep == TypeInv /\ TypeInv' /\ JoinInv /\ [Next]_vars => JoinInv'
<1> SUFFICES ASSUME TypeInv, TypeInv', JoinInv, [Next]_vars PROVE JoinInv'
  OBVIOUS
<1>a. Step
  BY Steps
<1>b. \A c \in Callers, i \in 1 .. Len(ready) : ready[i] = Joined(c) =>
        /\ job[c] # "idle" /\ joining[c] # <<>> /\ Head(joining[c]) \in Threads
        /\ Head(joining[c]) \in ToSet(joining[c])
        /\ \A j \in 1 .. Len(ready) : ready[j] = Joined(c) => j = i
  BY JoiningFacts DEF TypeInv, CallInv
<1>c. ASSUME ready # <<>>, ready' = Tail(ready)
      PROVE  /\ Len(ready) \in Nat /\ Len(ready') \in Nat /\ 1 \in Nat
             /\ \A i \in 1 .. Len(ready') : i + 1 \in 1 .. Len(ready) /\ ready'[i] = ready[i + 1]
             /\ \A c \in Callers, i \in 1 .. Len(ready') : ready'[i] = Joined(c) =>
                  Head(ready) # Joined(c)
  <2>1. /\ Len(ready) \in Nat /\ Len(ready') = Len(ready) - 1
        /\ \A i \in 1 .. Len(ready') : i + 1 \in 1 .. Len(ready) /\ ready'[i] = ready[i + 1]
        /\ ready[1] = Head(ready) /\ 1 \in 1 .. Len(ready)
    BY <1>c, ReadyTail
  <2>2. Len(ready') \in Nat
    BY <2>1
  <2>3. ASSUME NEW c \in Callers, NEW i \in 1 .. Len(ready'), ready'[i] = Joined(c)
        PROVE  Head(ready) # Joined(c)
    <3>1. ready[i + 1] = Joined(c) /\ i + 1 \in 1 .. Len(ready) /\ i + 1 # 1
      BY <2>1, <2>2, <2>3
    <3> QED
      BY <1>b, <2>1, <3>1
  <2> QED
    BY <2>1, <2>2, <2>3
<1>1. CASE Publish
  <2>1. /\ ready # <<>> /\ ready' = Tail(ready)
        /\ UNCHANGED <<stream, joining, late>>
    BY <1>1 DEF Publish
  <2>2. \A t \in Threads : Alive(t)' <=> Alive(t)
    BY <2>1 DEF Alive
  <2>3. \A c \in Callers, i \in 1 .. Len(ready') : ready'[i] = Joined(c) =>
          LET t == Head(joining[c])
          IN  Head(joining'[c]) = t /\ (t \in late => t \in late') /\ (~Alive(t) => ~Alive(t)')
    BY <2>1 DEF Alive
  <2> QED
    BY <1>c, <2>1, <2>3, JoinKept
<1>2. CASE UNCHANGED vars
  BY <1>2 DEF vars, JoinInv, Alive
<1>3. ASSUME NEW c \in Callers, JoinEnds(c) PROVE JoinInv'
  <2>1. /\ job[c] # "idle" /\ Joined(c) \notin ToSet(ready) /\ ready' = Append(ready, Joined(c))
        /\ late' = IF Alive(Head(joining[c])) THEN late \cup {Head(joining[c])} ELSE late
        /\ UNCHANGED <<stream, joining>>
    BY <1>3 DEF JoinEnds
  <2>2. Joined(c) \in Waiting
    BY DEF Waiting
  <2>3. /\ Len(ready) \in Nat /\ Len(ready') = Len(ready) + 1
        /\ \A i \in 1 .. Len(ready) : ready'[i] = ready[i]
        /\ ready'[Len(ready) + 1] = Joined(c)
        /\ ToSet(ready) = {ready[i] : i \in 1 .. Len(ready)}
    BY <2>1, <2>2, ReadyAppend
  <2>4. SUFFICES ASSUME NEW d \in Callers, NEW i \in 1 .. Len(ready'), ready'[i] = Joined(d)
                 PROVE  \/ Head(joining[d]) \in late'
                        \/ /\ ~Alive(Head(joining[d]))
                           /\ \A j \in 1 .. Len(ready') : j > i => ready'[j] # Line(Head(joining[d]))
    BY <2>1 DEF JoinInv, Alive
  <2>5. CASE i \in 1 .. Len(ready)
    <3>1. ready[i] = Joined(d) /\ Head(joining[d]) \in Threads
      BY <1>b, <2>3, <2>4, <2>5
    <3>2. CASE Head(joining[d]) \in late
      BY <2>1, <3>2
    <3>3. CASE /\ ~Alive(Head(joining[d]))
               /\ \A j \in 1 .. Len(ready) : j > i => ready[j] # Line(Head(joining[d]))
      <4>1. ASSUME NEW j \in 1 .. Len(ready'), j > i PROVE ready'[j] # Line(Head(joining[d]))
        <5>1. CASE j \in 1 .. Len(ready)
          BY <2>3, <3>3, <4>1, <5>1
        <5>2. CASE j = Len(ready) + 1
          BY <2>3, <3>1, <5>2, Distinct
        <5> QED
          BY <2>3, <5>1, <5>2
      <4> QED
        BY <3>3, <4>1
    <3> QED
      BY <2>5, <3>1, <3>2, <3>3 DEF JoinInv
  <2>6. CASE i = Len(ready) + 1
    <3>1. d = c
      BY <2>3, <2>4, <2>6, Distinct
    <3>2. \A j \in 1 .. Len(ready') : ~(j > i)
      BY <2>3, <2>6
    <3> QED
      BY <2>1, <3>1, <3>2
  <2> QED
    BY <2>3, <2>5, <2>6
<1>4. ASSUME NEW c \in Callers, GoesOn(c) PROVE JoinInv'
  <2>1. /\ ready # <<>> /\ Head(ready) = Joined(c) /\ ready' = Tail(ready)
        /\ joining' = [joining EXCEPT ![c] = Tail(joining[c])]
        /\ UNCHANGED <<stream, late>>
    BY <1>4 DEF GoesOn
  <2>2. ASSUME NEW d \in Callers, NEW i \in 1 .. Len(ready'), ready'[i] = Joined(d)
        PROVE  LET t == Head(joining[d])
               IN  Head(joining'[d]) = t /\ (t \in late => t \in late') /\ (~Alive(t) => ~Alive(t)')
    <3>1. d # c
      BY <1>c, <2>1, <2>2
    <3>2. joining'[d] = joining[d]
      BY <2>1, <3>1 DEF TypeInv, TypeOK
    <3> QED
      BY <2>1, <3>2 DEF Alive
  <2> QED
    BY <1>c, <2>1, <2>2, JoinKept
<1>5. ASSUME NEW c \in Callers, NEW what \in {"stop", "service"}, Begins(c, what) PROVE JoinInv'
  <2>1. /\ job[c] = "idle" /\ joining' = [joining EXCEPT ![c] = streams]
        /\ UNCHANGED <<stream, late, ready>>
    BY <1>5 DEF Begins
  <2>2. ASSUME NEW d \in Callers, NEW i \in 1 .. Len(ready'), ready'[i] = Joined(d)
        PROVE  LET t == Head(joining[d])
               IN  Head(joining'[d]) = t /\ (t \in late => t \in late') /\ (~Alive(t) => ~Alive(t)')
    <3>1. d # c
      BY <1>b, <2>1, <2>2
    <3>2. joining'[d] = joining[d]
      BY <2>1, <3>1 DEF TypeInv, TypeOK
    <3> QED
      BY <2>1, <3>2 DEF Alive
  <2> QED
    BY <2>1, <2>2, ReadySame, JoinKept
<1>6. ASSUME NEW c \in Callers, NEW what \in {"stop", "service"}, NEW new \in SUBSET Threads,
             Returns(c, what, new)
      PROVE  JoinInv'
  <2>1. /\ \/ job[c] = "idle" /\ ready' = ready
           \/ ready # <<>> /\ Head(ready) = Joined(c) /\ ready' = Tail(ready)
        /\ joining' = [joining EXCEPT ![c] = <<>>] /\ Attached(new)
    BY <1>6 DEF Returns, Left
  <2>2. ASSUME NEW d \in Callers \ {c}, NEW i \in 1 .. Len(ready), ready[i] = Joined(d)
        PROVE  LET t == Head(joining[d])
               IN  Head(joining'[d]) = t /\ (t \in late => t \in late') /\ (~Alive(t) => ~Alive(t)')
    <3> DEFINE t == Head(joining[d])
    <3>1. t \in Threads /\ t \in ToSet(joining[d])
      BY <1>b, <2>2
    <3>2. t \notin new
      BY <2>1, <3>1, FreeFacts DEF Attached
    <3>3. Head(joining'[d]) = t
      BY <2>1 DEF TypeInv, TypeOK
    <3>4. (Alive(t)' <=> Alive(t)) /\ (t \in late' <=> t \in late)
      BY <2>1, <3>1, <3>2, <3>3 DEF Attached, Alive
    <3> QED
      BY <3>3, <3>4
  <2>3. CASE job[c] = "idle" /\ ready' = ready
    <3>1. \A d \in Callers, i \in 1 .. Len(ready') : ready'[i] = Joined(d) =>
            d \in Callers \ {c} /\ i \in 1 .. Len(ready) /\ ready[i] = Joined(d)
      BY <1>b, <2>3
    <3> QED
      BY <2>2, <2>3, <3>1, ReadySame, JoinKept
  <2>4. CASE ready # <<>> /\ Head(ready) = Joined(c) /\ ready' = Tail(ready)
    <3>1. \A d \in Callers, i \in 1 .. Len(ready') : ready'[i] = Joined(d) =>
            d \in Callers \ {c} /\ i + 1 \in 1 .. Len(ready) /\ ready[i + 1] = Joined(d)
      BY <1>c, <2>4
    <3> QED
      BY <1>c, <2>2, <2>4, <3>1, JoinKept
  <2> QED
    BY <2>1, <2>3, <2>4
<1>7. ASSUME NEW c \in Callers, NEW opened \in SUBSET Sources, NEW f \in [opened -> Threads],
             NEW new \in SUBSET Threads, Joins(c, opened, f, new)
      PROVE  JoinInv'
  <2>1. Attached(new) /\ UNCHANGED ready
    BY <1>7 DEF Joins, Lengthened
  <2>2. ASSUME NEW d \in Callers, NEW i \in 1 .. Len(ready'), ready'[i] = Joined(d)
        PROVE  LET t == Head(joining[d])
               IN  Head(joining'[d]) = t /\ (t \in late => t \in late') /\ (~Alive(t) => ~Alive(t)')
    <3> DEFINE t == Head(joining[d])
    <3>1. t \in Threads /\ t \in ToSet(joining[d]) /\ joining[d] # <<>>
      BY <1>b, <2>1, <2>2
    <3>2. t \notin new
      BY <2>1, <3>1, FreeFacts DEF Attached
    <3>3. Head(joining'[d]) = t
      BY <1>7, <3>1 DEF Joins, Lengthened
    <3>4. (Alive(t)' <=> Alive(t)) /\ (t \in late' <=> t \in late)
      BY <2>1, <3>1, <3>2, <3>3 DEF Attached, Alive
    <3> QED
      BY <3>3, <3>4
  <2> QED
    BY <2>1, <2>2, ReadySame, JoinKept
<1>8. ASSUME NEW t \in Threads, Emit(t) PROVE JoinInv'
  <2>1. Alive(t) /\ ready' = Append(ready, Line(t)) /\ UNCHANGED <<stream, joining, late>>
    BY <1>8 DEF Emit
  <2>2. Line(t) \in Waiting
    BY DEF Waiting
  <2>3. /\ Len(ready) \in Nat /\ Len(ready') = Len(ready) + 1
        /\ \A i \in 1 .. Len(ready) : ready'[i] = ready[i]
        /\ ready'[Len(ready) + 1] = Line(t)
    BY <2>1, <2>2, ReadyAppend
  <2>4. SUFFICES ASSUME NEW d \in Callers, NEW i \in 1 .. Len(ready'), ready'[i] = Joined(d)
                 PROVE  \/ Head(joining[d]) \in late
                        \/ /\ ~Alive(Head(joining[d]))
                           /\ \A j \in 1 .. Len(ready') : j > i => ready'[j] # Line(Head(joining[d]))
    BY <2>1 DEF JoinInv, Alive
  <2>5. i \in 1 .. Len(ready) /\ ready[i] = Joined(d)
    <3>1. i # Len(ready) + 1
      BY <2>3, <2>4, Distinct
    <3> QED
      BY <2>3, <2>4, <3>1
  <2>6. Head(joining[d]) \in Threads
    BY <1>b, <2>5
  <2>7. ASSUME ~Alive(Head(joining[d])),
               \A j \in 1 .. Len(ready) : j > i => ready[j] # Line(Head(joining[d])),
               NEW j \in 1 .. Len(ready'), j > i
        PROVE  ready'[j] # Line(Head(joining[d]))
    <3>1. CASE j \in 1 .. Len(ready)
      BY <2>3, <2>7, <3>1
    <3>2. CASE j = Len(ready) + 1
      BY <2>1, <2>3, <2>6, <2>7, <3>2, Distinct
    <3> QED
      BY <2>3, <3>1, <3>2
  <2> QED
    BY <2>5, <2>7 DEF JoinInv
<1>9. ASSUME NEW t \in Threads, Exit(t) PROVE JoinInv'
  <2>1. stream' = [stream EXCEPT ![t] = None] /\ UNCHANGED <<joining, ready, late>>
    BY <1>9 DEF Exit
  <2>2. \A d \in Callers, i \in 1 .. Len(ready') : ready'[i] = Joined(d) =>
          LET u == Head(joining[d])
          IN  Head(joining'[d]) = u /\ (u \in late => u \in late') /\ (~Alive(u) => ~Alive(u)')
    BY <1>b, <2>1 DEF Alive, TypeInv, TypeOK
  <2> QED
    BY <2>1, <2>2, ReadySame, JoinKept
<1> QED
  BY <1>a, <1>1, <1>2, <1>3, <1>4, <1>5, <1>6, <1>7, <1>8, <1>9 DEF Step

-----------------------------------------------------------------------------
(* A thread that no join has to wait for: it has outlived one, or is dead    *)
(* and its lines have been published; and one that a stop() still knows.     *)
Settled(t) == t \in late \/ (~Alive(t) /\ Line(t) \notin ToSet(ready))
Listed(t) == t \in ToSet(streams) \/ \E c \in Callers : t \in ToSet(joining[c])

(* Without overlaps a start is alone, a stop() that iterates the list has    *)
(* still to join what is not settled of it, one that lost it to another that *)
(* has returned finds it empty, and every thread is listed or settled.       *)
ListParts ==
  /\ \A c \in Callers : job[c] = "service" => Busy = {c}
  /\ \A c \in Busy : own[c] => \A t \in ToSet(streams) : t \in ToSet(joining[c]) \/ Settled(t)
  /\ \A c \in Busy : ~own[c] => streams = <<>>
  /\ \A t \in Threads : Listed(t) \/ Settled(t)
ListInv == ~overlapped => ListParts

(* The thread whose join has ended is settled when the loop is told.         *)
LEMMA JoinedSettles ==
  ASSUME TypeInv, JoinInv, NEW c \in Callers,
         ready # <<>>, Head(ready) = Joined(c), ready' = Tail(ready)
  PROVE  /\ job[c] # "idle" /\ joining[c] \in Seq(Threads) /\ joining[c] # <<>>
         /\ \/ Head(joining[c]) \in late
            \/ ~Alive(Head(joining[c])) /\ Line(Head(joining[c])) \notin ToSet(ready')
<1> DEFINE t == Head(joining[c])
<1>1. /\ Len(ready) \in Nat /\ Len(ready') = Len(ready) - 1
      /\ \A i \in 1 .. Len(ready') : i + 1 \in 1 .. Len(ready) /\ ready'[i] = ready[i + 1]
      /\ ready[1] = Joined(c) /\ 1 \in 1 .. Len(ready) /\ ready' \in Seq(Waiting)
  BY ReadyTail
<1>2. job[c] # "idle" /\ joining[c] \in Seq(Threads) /\ joining[c] # <<>>
  BY <1>1 DEF TypeInv, TypeOK, CallInv
<1>3. CASE t \in late
  BY <1>2, <1>3
<1>4. CASE ~Alive(t) /\ \A j \in 1 .. Len(ready) : j > 1 => ready[j] # Line(t)
  <2>1. \A i \in 1 .. Len(ready') : ready'[i] # Line(t)
    BY <1>1, <1>4
  <2>2. ToSet(ready') = {ready'[i] : i \in 1 .. Len(ready')}
    <3> DEFINE u == ready'
    <3>1. u \in Seq(Waiting)
      BY <1>1
    <3> HIDE DEF u
    <3>2. ToSet(u) = {u[i] : i \in 1 .. Len(u)}
      BY <3>1, ToSetFacts
    <3> QED
      BY <3>2 DEF u
  <2> QED
    BY <1>2, <1>4, <2>1, <2>2
<1> QED
  BY <1>1, <1>3, <1>4 DEF JoinInv

(* A sequence of one thread. *)
LEMMA Single ==
  ASSUME NEW S, NEW s \in Seq(S), Len(s) = 1 PROVE ToSet(s) = {Head(s)}
<1>1. ToSet(s) = {s[i] : i \in 1 .. Len(s)} /\ Head(s) = s[1]
  BY ToSetFacts
<1>2. 1 .. Len(s) = {1}
  OBVIOUS
<1> QED
  BY <1>1, <1>2

(* Calls that return without having overlapped are alone if they attach.     *)
LEMMA ReturnsAlone ==
  ASSUME TypeInv, ListInv, ~overlapped', NEW c \in Callers, NEW what \in {"stop", "service"},
         NEW new \in SUBSET Threads, Returns(c, what, new)
  PROVE  /\ ~overlapped
         /\ \A d \in Callers : job'[d] # "service"
         /\ new # {} => Busy' = {}
         /\ new # {} => what = "service"
<1>1. /\ \/ job[c] = "idle" /\ Noted(what)
         \/ job[c] = what /\ overlapped' = overlapped
      /\ job' = [job EXCEPT ![c] = "idle"]
      /\ new # {} => what = "service"
  BY DEF Returns, Left
<1>2. /\ Busy' = Busy \ {c} /\ job'[c] = "idle" /\ \A d \in Callers \ {c} : job'[d] = job[d]
  BY <1>1, BusyFacts
<1>3. ~overlapped
  BY <1>1 DEF Noted
<1>4. \A d \in Callers : job[d] = "service" => Busy = {d}
  BY <1>3 DEF ListInv, ListParts
<1>5. CASE job[c] = "idle" /\ Noted(what)
  <2>1. IF what = "service" THEN Busy = {} ELSE \A d \in Busy : job[d] # "service"
    BY <1>5 DEF Noted
  <2>2. \A d \in Callers : job'[d] # "service"
    BY <1>2, <2>1 DEF Busy
  <2> QED
    BY <1>1, <1>2, <1>3, <2>1, <2>2
<1>6. CASE job[c] = what
  <2>1. c \in Busy
    BY <1>6 DEF Busy
  <2>2. \A d \in Callers \ {c} : job[d] # "service"
    BY <1>4, <2>1
  <2>3. what = "service" => Busy = {c}
    BY <1>4, <1>6
  <2> QED
    BY <1>1, <1>2, <1>3, <2>2, <2>3
<1> QED
  BY <1>1, <1>5, <1>6

LEMMA ListInit == Init => ListInv
<1> SUFFICES ASSUME Init PROVE ListInv
  OBVIOUS
<1>1. ToSet(ready) = {}
  BY DEF Init, ToSet
<1>2. \A c \in Callers : job[c] = "idle"
  BY DEF Init
<1>3. \A t \in Threads : ~Alive(t)
  BY DEF Init, Alive
<1> QED
  BY <1>1, <1>2, <1>3 DEF ListInv, ListParts, Busy, Settled

(* Steps that leave the calls and the lists alone unsettle nothing.          *)
LEMMA ListKept ==
  ASSUME ListParts, UNCHANGED <<streams, job, joining, own>>, TypeInv,
         \A t \in Threads : Settled(t) => Settled(t)'
  PROVE  ListParts'
<1>1. Busy' = Busy
  BY DEF Busy
<1>2. \A t \in Threads : Listed(t)' <=> Listed(t)
  BY DEF Listed
<1>3. ToSet(streams) \subseteq Threads
  BY ToSetFacts DEF TypeInv, TypeOK
<1>4. ASSUME NEW c \in Busy', own'[c], NEW t \in ToSet(streams')
      PROVE  t \in ToSet(joining'[c]) \/ Settled(t)'
  BY <1>1, <1>3, <1>4 DEF ListParts
<1> QED
  BY <1>1, <1>2, <1>4 DEF ListParts

(* Every step keeps the list what it is to the calls under way. *)
LEMMA ListStep == TypeInv /\ TypeInv' /\ JoinInv /\ ListInv /\ [Next]_vars => ListInv'
<1> SUFFICES ASSUME TypeInv, TypeInv', JoinInv, ListInv, [Next]_vars, ~overlapped' PROVE ListParts'
  BY DEF ListInv
<1>a. Step
  BY Steps
<1>b. ~overlapped => ListParts
  BY DEF ListInv
<1>c. ToSet(streams) \subseteq Threads /\ ready \in Seq(Waiting) /\ job \in [Callers -> Starts \cup {"idle", "stop"}]
      /\ joining \in [Callers -> Seq(Threads)] /\ own \in [Callers -> BOOLEAN]
  BY ToSetFacts DEF TypeInv, TypeOK, Waiting
<1>1. CASE Publish
  <2>1. /\ ready # <<>> /\ ready' = Tail(ready)
        /\ UNCHANGED <<streams, stream, job, joining, own, overlapped, late>>
    BY <1>1 DEF Publish
  <2>2. ToSet(ready') \subseteq ToSet(ready)
    BY <2>1, ReadyTail
  <2>3. \A t \in Threads : Settled(t) => Settled(t)'
    BY <2>1, <2>2 DEF Settled, Alive
  <2> QED
    BY <1>b, <2>1, <2>3, ListKept
<1>2. CASE UNCHANGED vars
  <2>1. \A t \in Threads : Settled(t) => Settled(t)'
    BY <1>2 DEF vars, Settled, Alive
  <2> QED
    BY <1>2, <1>b, <2>1, ListKept DEF vars
<1>3. ASSUME NEW c \in Callers, JoinEnds(c) PROVE ListParts'
  <2>1. /\ ready' = Append(ready, Joined(c)) /\ late \subseteq late'
        /\ UNCHANGED <<streams, stream, job, joining, own, overlapped>>
    BY <1>3 DEF JoinEnds
  <2>2. ToSet(ready') = ToSet(ready) \cup {Joined(c)}
    <3>1. Joined(c) \in Waiting
      BY DEF Waiting
    <3> QED
      BY <2>1, <3>1, ReadyAppend
  <2>3. \A t \in Threads : Settled(t) => Settled(t)'
    BY <2>1, <2>2, Distinct DEF Settled, Alive
  <2> QED
    BY <1>b, <2>1, <2>3, ListKept
<1>4. ASSUME NEW c \in Callers, GoesOn(c) PROVE ListParts'
  <2>1. /\ ready # <<>> /\ Head(ready) = Joined(c) /\ ready' = Tail(ready)
        /\ joining' = [joining EXCEPT ![c] = Tail(joining[c])]
        /\ UNCHANGED <<streams, stream, job, own, late, overlapped>>
    BY <1>4 DEF GoesOn
  <2>2. /\ joining[c] \in Seq(Threads) /\ joining[c] # <<>>
        /\ \/ Head(joining[c]) \in late
           \/ ~Alive(Head(joining[c])) /\ Line(Head(joining[c])) \notin ToSet(ready')
    BY <2>1, JoinedSettles
  <2>3. \A t \in Threads : t = Head(joining[c]) => Settled(t)'
    BY <2>1, <2>2 DEF Settled, Alive
  <2>4. ToSet(ready') \subseteq ToSet(ready)
    BY <2>1, ReadyTail
  <2>5. \A t \in Threads : Settled(t) => Settled(t)'
    BY <2>1, <2>4 DEF Settled, Alive
  <2>6. /\ ToSet(joining[c]) = {Head(joining[c])} \cup ToSet(joining'[c])
        /\ \A d \in Callers \ {c} : joining'[d] = joining[d]
    BY <1>c, <2>1, <2>2, HeadTail
  <2>7. \A d \in Callers, t \in Threads : t \in ToSet(joining[d]) => t \in ToSet(joining'[d]) \/ Settled(t)'
    BY <2>3, <2>6
  <2>8. Busy' = Busy
    BY <2>1 DEF Busy
  <2>9. ListParts
    BY <1>b, <2>1
  <2>10. ASSUME NEW d \in Busy', own'[d], NEW t \in ToSet(streams')
         PROVE  t \in ToSet(joining'[d]) \/ Settled(t)'
    <3>1. t \in Threads /\ d \in Callers /\ (t \in ToSet(joining[d]) \/ Settled(t))
      BY <1>c, <2>1, <2>8, <2>9, <2>10 DEF ListParts, Busy
    <3> QED
      BY <2>5, <2>7, <3>1
  <2>11. \A t \in Threads : Listed(t)' \/ Settled(t)'
    <3>1. \A t \in Threads : Listed(t) => Listed(t)' \/ Settled(t)'
      BY <2>1, <2>7 DEF Listed
    <3> QED
      BY <2>5, <2>9, <3>1 DEF ListParts
  <2> QED
    BY <2>1, <2>8, <2>9, <2>10, <2>11 DEF ListParts
<1>5. ASSUME NEW c \in Callers, NEW what \in {"stop", "service"}, Begins(c, what) PROVE ListParts'
  <2>1. /\ job[c] = "idle" /\ Noted(what)
        /\ job' = [job EXCEPT ![c] = what] /\ joining' = [joining EXCEPT ![c] = streams]
        /\ own' = [own EXCEPT ![c] = TRUE]
        /\ UNCHANGED <<streams, stream, late, ready>>
    BY <1>5 DEF Begins
  <2>2. /\ ListParts
        /\ IF what = "service" THEN Busy = {} ELSE \A d \in Busy : job[d] # "service"
    BY <1>b, <2>1 DEF Noted
  <2>3. Busy' = Busy \cup {c} /\ job'[c] = what /\ \A d \in Callers \ {c} : job'[d] = job[d]
    BY <2>1, BusyFacts
  <2>4. \A d \in Callers : job'[d] = "service" => Busy' = {d}
    BY <2>2, <2>3 DEF Busy
  <2>5. /\ joining[c] = <<>> /\ joining'[c] = streams /\ own'[c]
        /\ \A d \in Callers \ {c} : joining'[d] = joining[d] /\ own'[d] = own[d]
    BY <1>c, <2>1 DEF TypeInv, TypeOK
  <2>6. \A t \in Threads : Settled(t)' <=> Settled(t)
    BY <2>1 DEF Settled, Alive
  <2>7. ASSUME NEW d \in Busy', own'[d], NEW t \in ToSet(streams')
        PROVE  t \in ToSet(joining'[d]) \/ Settled(t)'
    <3>1. CASE d = c
      BY <2>1, <2>5, <2>7, <3>1
    <3>2. CASE d # c
      BY <1>c, <2>1, <2>2, <2>3, <2>5, <2>6, <2>7, <3>2 DEF ListParts, Busy
    <3> QED
      BY <3>1, <3>2
  <2>8. \A d \in Busy' : ~own'[d] => streams' = <<>>
    BY <2>1, <2>2, <2>3, <2>5 DEF ListParts, Busy
  <2>9. ToSet(<<>>) = {}
    BY DEF ToSet
  <2>10. \A t \in Threads : Listed(t) => Listed(t)'
    BY <2>1, <2>5, <2>9 DEF Listed
  <2> QED
    BY <2>2, <2>4, <2>6, <2>7, <2>8, <2>10 DEF ListParts
<1>6. ASSUME NEW c \in Callers, NEW what \in {"stop", "service"}, NEW new \in SUBSET Threads,
             Returns(c, what, new)
      PROVE  ListParts'
  <2>1. /\ \/ job[c] = "idle" /\ streams = <<>> /\ ready' = ready
           \/ /\ job[c] # "idle" /\ ready # <<>> /\ Head(ready) = Joined(c) /\ ready' = Tail(ready)
              /\ Len(joining[c]) = 1
        /\ job' = [job EXCEPT ![c] = "idle"] /\ joining' = [joining EXCEPT ![c] = <<>>]
        /\ own' = [d \in Callers |-> FALSE]
        /\ Attached(new) /\ streams' \in Seq(Threads) /\ ToSet(streams') = new
    BY <1>6 DEF Returns, Left
  <2>2. /\ ~overlapped /\ (\A d \in Callers : job'[d] # "service")
        /\ new # {} => Busy' = {}
    BY <1>6, ReturnsAlone
  <2>3. ListParts
    BY <1>b, <2>2
  <2>4. new = {} => streams' = <<>>
    BY <2>1, ToSetFacts
  <2>5. \A d \in Busy' : ~own'[d] /\ streams' = <<>>
    BY <2>1, <2>2, <2>4 DEF Busy
  <2>6. \A t \in Threads \ new : Settled(t) => Settled(t)'
    <3>1. ToSet(ready') \subseteq ToSet(ready)
      BY <2>1, ReadyTail
    <3> QED
      BY <2>1, <3>1, AttachedFacts DEF Settled
  <2>7. \A t \in Threads \ new : t \in ToSet(joining[c]) => Settled(t)'
    <3>1. CASE job[c] = "idle"
      <4>1. joining[c] = <<>>
        BY <3>1 DEF TypeInv, TypeOK
      <4> QED
        BY <4>1 DEF ToSet
    <3>2. CASE job[c] # "idle"
      <4>1. /\ joining[c] \in Seq(Threads)
            /\ \/ Head(joining[c]) \in late
               \/ ~Alive(Head(joining[c])) /\ Line(Head(joining[c])) \notin ToSet(ready')
        BY <2>1, <3>2, JoinedSettles
      <4>2. ToSet(joining[c]) = {Head(joining[c])}
        BY <2>1, <3>2, <4>1, Single
      <4>3. \A t \in Threads \ new : t = Head(joining[c]) => Settled(t)'
        BY <2>1, <4>1, AttachedFacts DEF Settled
      <4> QED
        BY <4>2, <4>3
    <3> QED
      BY <3>1, <3>2
  <2>8. \A t \in Threads \ new : t \in ToSet(streams) => Settled(t)'
    <3>1. CASE streams = <<>>
      BY <3>1 DEF ToSet
    <3>2. CASE streams # <<>>
      <4>1. c \in Busy /\ own[c]
        BY <2>1, <2>3, <3>2 DEF ListParts, Busy
      <4> QED
        BY <2>3, <2>6, <2>7, <4>1 DEF ListParts
    <3> QED
      BY <3>1, <3>2
  <2>9. \A d \in Callers \ {c} : joining'[d] = joining[d]
    BY <1>c, <2>1
  <2>10. ASSUME NEW t \in Threads PROVE Listed(t)' \/ Settled(t)'
    <3>1. CASE t \in new
      BY <2>1, <3>1 DEF Listed
    <3>2. CASE t \notin new /\ Settled(t)
      BY <2>6, <3>2
    <3>3. CASE t \notin new /\ Listed(t)
      <4>1. CASE t \in ToSet(streams)
        BY <2>8, <3>3, <4>1
      <4>2. ASSUME NEW d \in Callers, t \in ToSet(joining[d]) PROVE Listed(t)' \/ Settled(t)'
        BY <2>7, <2>9, <3>3, <4>2 DEF Listed
      <4> QED
        BY <3>3, <4>1, <4>2 DEF Listed
    <3> QED
      BY <2>3, <3>1, <3>2, <3>3 DEF ListParts
  <2> QED
    BY <2>2, <2>5, <2>10 DEF ListParts
<1>7. ASSUME NEW c \in Callers, NEW opened \in SUBSET Sources, NEW f \in [opened -> Threads],
             NEW new \in SUBSET Threads, Joins(c, opened, f, new)
      PROVE  ListParts'
  <2>1. /\ overlapped' = (overlapped \/ Busy # {})
        /\ Attached(new) /\ ToSet(streams') = ToSet(streams) \cup new
        /\ UNCHANGED <<job, own, ready>>
    BY <1>7 DEF Joins, Lengthened
  <2>2. Busy = {} /\ ListParts
    BY <1>b, <2>1
  <2>3. Busy' = {}
    BY <2>1, <2>2 DEF Busy
  <2>4. \A t \in Threads \ new : Settled(t) => Settled(t)'
    BY <2>1, AttachedFacts DEF Settled
  <2>5. \A d \in Callers : ToSet(joining[d]) \subseteq ToSet(joining'[d])
    BY <1>7 DEF Joins, Lengthened
  <2>6. \A t \in Threads : Listed(t) \/ t \in new => Listed(t)'
    BY <2>1, <2>5 DEF Listed
  <2>7. \A d \in Callers : job'[d] # "service"
    BY <2>3 DEF Busy
  <2> QED
    BY <2>2, <2>3, <2>4, <2>6, <2>7 DEF ListParts
<1>8. ASSUME NEW t \in Threads, Emit(t) PROVE ListParts'
  <2>1. /\ Alive(t) /\ ready' = Append(ready, Line(t))
        /\ UNCHANGED <<streams, stream, job, joining, own, overlapped, late>>
    BY <1>8 DEF Emit
  <2>2. ToSet(ready') = ToSet(ready) \cup {Line(t)}
    <3>1. Line(t) \in Waiting
      BY DEF Waiting
    <3> QED
      BY <2>1, <3>1, ReadyAppend
  <2>3. \A u \in Threads : Settled(u) => Settled(u)'
    BY <2>1, <2>2, Distinct DEF Settled, Alive
  <2> QED
    BY <1>b, <2>1, <2>3, ListKept
<1>9. ASSUME NEW t \in Threads, Exit(t) PROVE ListParts'
  <2>1. /\ stream' = [stream EXCEPT ![t] = None]
        /\ UNCHANGED <<streams, job, joining, own, ready, overlapped, late>>
    BY <1>9 DEF Exit
  <2>2. \A u \in Threads : Settled(u) => Settled(u)'
    BY <2>1 DEF Settled, Alive, TypeInv, TypeOK
  <2> QED
    BY <1>b, <2>1, <2>2, ListKept
<1> QED
  BY <1>a, <1>1, <1>2, <1>3, <1>4, <1>5, <1>6, <1>7, <1>8, <1>9 DEF Step

(* When a stop() has returned no line of the streams it has joined is still  *)
(* to be published: a line that waits is of a listed stream, or of a thread  *)
(* that outlived a join.                                                     *)
THEOREM NoOldLinesCorrect == Spec => []NoOldLines
<1>1. ListInv => NoOldLines
  BY DEF ListInv, ListParts, NoOldLines, Listed, Settled
<1> QED
  BY <1>1, TypeInit, TypeStep, JoinInit, JoinStep, ListInit, ListStep, PTL DEF Spec

-----------------------------------------------------------------------------
(* Without overlaps nothing is open while a call is under way; what is open  *)
(* is on the list, known by its name if it is of a half, and follows a       *)
(* source of its own.                                                        *)
OpenParts ==
  /\ Busy # {} => \A t \in Threads : ~open[t]
  /\ \A t \in Threads : open[t] =>
       /\ t \in ToSet(streams)
       /\ kind = "aidenops" => byName[stream[t]] = t
       /\ \A u \in Threads \ {t} : open[u] => stream[u] # stream[t]
OpenInv == ~overlapped => OpenParts

LEMMA OpenInit == Init => OpenInv
  BY DEF Init, OpenInv, OpenParts

(* Every step keeps a source to one channel. *)
LEMMA OpenStep ==
  TypeInv /\ TypeInv' /\ NameInv /\ ListInv /\ OpenInv /\ [Next]_vars => OpenInv'
<1> SUFFICES ASSUME TypeInv, TypeInv', NameInv, ListInv, OpenInv, [Next]_vars, ~overlapped'
             PROVE  OpenParts'
  BY DEF OpenInv
<1>a. Step
  BY Steps
<1>b. ~overlapped => OpenParts
  BY DEF OpenInv
<1>1. CASE Publish \/ UNCHANGED vars \/ (\E c \in Callers : JoinEnds(c) \/ GoesOn(c))
           \/ (\E t \in Threads : Emit(t))
  <2>1. UNCHANGED <<kind, streams, byName, stream, open, job, overlapped>>
    BY <1>1 DEF Publish, vars, JoinEnds, GoesOn, Emit
  <2>2. Busy' = Busy
    BY <2>1 DEF Busy
  <2> QED
    BY <1>b, <2>1, <2>2 DEF OpenParts
<1>2. ASSUME NEW c \in Callers, NEW what \in {"stop", "service"}, Begins(c, what) PROVE OpenParts'
  <2>1. /\ open' = [t \in Threads |-> t \in Channels /\ t \notin ToSet(streams)] /\ Noted(what)
    BY <1>2 DEF Begins
  <2>2. \A t \in Threads : ~open'[t]
    BY <1>b, <2>1 DEF OpenParts, Channels, Noted
  <2> QED
    BY <2>2 DEF OpenParts
<1>3. ASSUME NEW c \in Callers, NEW what \in {"stop", "service"}, NEW new \in SUBSET Threads,
             Returns(c, what, new)
      PROVE  OpenParts'
  <2>1. /\ job[c] # "idle" \/ streams = <<>>
        /\ Attached(new) /\ ToSet(streams') = new /\ kind' = kind
        /\ what = "service" => kind = "service"
    BY <1>3 DEF Returns, Left
  <2>2. /\ ~overlapped /\ (new # {} => Busy' = {}) /\ (new # {} => what = "service")
    BY <1>3, ReturnsAlone
  <2>3. \A t \in Threads : ~open[t]
    <3>1. CASE job[c] # "idle"
      BY <1>b, <2>2, <3>1 DEF OpenParts, Busy
    <3>2. CASE streams = <<>>
      BY <1>b, <2>2, <3>2 DEF OpenParts, ToSet
    <3> QED
      BY <2>1, <3>1, <3>2
  <2>4. \A t \in Threads : open'[t] => t \in new
    BY <2>1, <2>3 DEF Attached
  <2>5. new # {} => kind' # "aidenops"
    BY <2>1, <2>2
  <2> QED
    BY <2>1, <2>2, <2>4, <2>5 DEF OpenParts, Attached
<1>4. ASSUME NEW c \in Callers, NEW opened \in SUBSET Sources, NEW f \in [opened -> Threads],
             NEW new \in SUBSET Threads, Joins(c, opened, f, new)
      PROVE  OpenParts'
  <2>1. /\ kind = "aidenops" /\ overlapped' = (overlapped \/ Busy # {})
        /\ opened \subseteq Sources \ Streaming /\ Attached(new)
        /\ \A t \in new : stream'[t] \in opened /\ f[stream'[t]] = t
        /\ ToSet(streams') = ToSet(streams) \cup new
        /\ byName' = [s \in Sources |-> IF s \in opened THEN f[s] ELSE byName[s]]
        /\ UNCHANGED job
    BY <1>4 DEF Joins, Lengthened
  <2>2. Busy' = {} /\ OpenParts
    BY <1>b, <2>1 DEF Busy
  <2>3. ASSUME NEW t \in Threads, open'[t]
        PROVE  t \in ToSet(streams') /\ stream'[t] \in Sources /\ byName'[stream'[t]] = t
    <3>1. CASE t \in new
      BY <2>1, <3>1
    <3>2. CASE t \notin new
      <4>1. open[t] /\ stream'[t] = stream[t]
        BY <2>1, <2>3, <3>2 DEF Attached
      <4>2. t \in ToSet(streams) /\ byName[stream[t]] = t
        BY <2>1, <2>2, <4>1 DEF OpenParts
      <4>3. Alive(t) /\ stream[t] \in Sources
        BY <4>1 DEF NameInv, Alive, TypeInv, TypeOK
      <4>4. stream[t] \in Streaming
        BY <4>2, <4>3, StreamerConstantsOK DEF Streaming
      <4> QED
        BY <2>1, <4>1, <4>2, <4>3, <4>4
    <3> QED
      BY <3>1, <3>2
  <2> QED
    BY <2>2, <2>3 DEF OpenParts
<1>5. ASSUME NEW t \in Threads, Exit(t) PROVE OpenParts'
  <2>1. /\ stream' = [stream EXCEPT ![t] = None] /\ open' = [open EXCEPT ![t] = FALSE]
        /\ UNCHANGED <<kind, streams, byName, job, overlapped>>
    BY <1>5 DEF Exit
  <2>2. /\ \A u \in Threads \ {t} : stream'[u] = stream[u] /\ open'[u] = open[u]
        /\ ~open'[t]
    BY <2>1 DEF TypeInv, TypeOK
  <2>3. Busy' = Busy /\ OpenParts
    BY <1>b, <2>1 DEF Busy
  <2> QED
    BY <2>1, <2>2, <2>3 DEF OpenParts
<1> QED
  BY <1>a, <1>1, <1>2, <1>3, <1>4, <1>5 DEF Step

(* No two channels follow one source, and the next stop() knows each of      *)
(* them, unless a start was ever called beside another call.                 *)
THEOREM OneStreamCorrect == Spec => []OneStreamPerSource
<1>1. OpenInv => OneStreamPerSource
  BY DEF OpenInv, OpenParts, OneStreamPerSource
<1> QED
  BY <1>1, TypeInit, TypeStep, NameInit, NameStep, JoinInit, JoinStep, ListInit, ListStep,
     OpenInit, OpenStep, PTL DEF Spec
=============================================================================
