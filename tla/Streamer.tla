----------------------------- MODULE Streamer -----------------------------
(***************************************************************************)
(* The log streams: LogStreamer (log_service.py), which follows a service, *)
(* and AidenOpsLogStreamer (aidenops_logs.py), which follows the halves of *)
(* AidenOps.  A stream is a thread with an SSH channel; one flag, `_stop`, *)
(* tells them all to end.                                                  *)
(*                                                                         *)
(* start() and stop() suspend while they join old threads.  The loop runs  *)
(* what threads hand it in the order they did (call_soon_threadsafe): the  *)
(* lines they publish and the ends of the joins.                           *)
(***************************************************************************)
EXTENDS Naturals, Sequences, SequencesExt, FiniteSets, Functions

CONSTANTS
  Callers,    \* requests and deployments that call start and stop
  Threads,    \* a bound on the streams there are; enough for MaxCalls
  HALVES,     \* the sources of each half of AidenOps
  None,
  MaxCalls,   \* a bound on the calls
  MaxReady    \* a bound on what waits for the loop when a line is added

SERVICE == {"journal", "applog"}
Sources == SERVICE \cup UNION Range(HALVES)
Starts  == {"service", "all"} \cup DOMAIN HALVES
Wanted(job) == CASE job = "service" -> SERVICE
                 [] job = "all" -> UNION Range(HALVES)
                 [] OTHER -> HALVES[job]

ASSUME StreamerConstantsOK ==
  /\ None \notin Sources /\ None \notin Threads
  /\ \A h \in DOMAIN HALVES : h \notin {"service", "all", "stop", "idle"}
  /\ IsFiniteSet(Sources)
  /\ {MaxCalls, MaxReady} \subseteq Nat

VARIABLES
  kind,      \* which of the two classes this is
  stop,      \* the flag `_stop`
  streams,   \* `_streams`
  byName,    \* `_threads`
  stream,    \* what a live thread follows
  open,      \* whether its channel is open
  job,       \* what each caller is in the middle of
  joining,   \* what is left of the list a stop() iterates; its head is being joined
  own,       \* whether that list is still `_streams`, which may grow
  ready,     \* what the loop has to run
  overlapped,   \* history variable: two calls were under way, one of them a start
  late,         \* history variable: the threads whose join timed out
  calls

vars == <<kind, stop, streams, byName, stream, open, job, joining, own, ready, overlapped,
          late, calls>>

Line(t)   == <<"line", t>>
Joined(c) == <<"joined", c>>

Alive(t) == stream[t] # None
Busy == {c \in Callers : job[c] # "idle"}
Held(t) == \/ t \in ToSet(streams) \/ t \in Range(byName)
           \/ \E c \in Callers : t \in ToSet(joining[c])
Free == {t \in Threads : ~Alive(t) /\ ~Held(t) /\ Line(t) \notin ToSet(ready)}

Init ==
  /\ kind \in {"service", "aidenops"}
  /\ stop = FALSE /\ streams = <<>> /\ byName = [s \in Sources |-> None]
  /\ stream = [t \in Threads |-> None] /\ open = [t \in Threads |-> FALSE]
  /\ job = [c \in Callers |-> "idle"] /\ joining = [c \in Callers |-> <<>>]
  /\ own = [c \in Callers |-> FALSE] /\ ready = <<>>
  /\ overlapped = FALSE /\ late = {} /\ calls = 0

-----------------------------------------------------------------------------
(* The sources whose channel could be opened: any, that there are threads for. *)
Opened(sources) == {s \in SUBSET sources : \E f \in [s -> Free] : IsInjective(f)}

(* Who follows what, when `sources` are given to threads that are free.      *)
Threaded(sources) == CHOOSE f \in [sources -> Free] : IsInjective(f)

(* _spawn for those of the sources whose channel could be opened: a thread   *)
(* each, appended to the list -- for which other callers may be iterating.   *)
Spawned(f, list, channels) ==
  LET new == Range(f)
  IN  /\ streams' = list \o SetToSeq(new)
      /\ stream' = [t \in Threads |-> IF t \in new THEN CHOOSE s \in DOMAIN f : f[s] = t
                                      ELSE stream[t]]
      /\ open' = [t \in Threads |-> t \in new \/ t \in channels]
      /\ late' = late \ new

Channels == {t \in Threads : open[t]}

(* Fault: start() attaches without clearing the flag. *)
FinishFlagged(c, what, flag, channels) ==
  /\ job' = [job EXCEPT ![c] = "idle"]
  /\ joining' = [joining EXCEPT ![c] = <<>>]
  /\ own' = [d \in Callers |-> FALSE]
  /\ stop' = flag
  /\ IF what = "service"
     THEN /\ \E opened \in Opened(SERVICE) : Spawned(Threaded(opened), <<>>, channels)
          /\ UNCHANGED byName
     ELSE Spawned(<<>>, <<>>, channels) /\ byName' = [s \in Sources |-> None]

(* stop() after the joins.  start() of LogStreamer goes on from there: with  *)
(* a connection it clears the flag and attaches what can be attached, without*)
(* one it returns with the flag set.                                         *)
Finish(c, what, flag, channels) ==
  /\ job' = [job EXCEPT ![c] = "idle"]
  /\ joining' = [joining EXCEPT ![c] = <<>>]
  /\ own' = [d \in Callers |-> FALSE]
  /\ IF what = "service"
     THEN /\ \/ \E opened \in Opened(SERVICE) :
                  stop' = FALSE /\ Spawned(Threaded(opened), <<>>, channels)
             \/ stop' = flag /\ Spawned(<<>>, <<>>, channels)
          /\ UNCHANGED byName
     ELSE /\ stop' = flag /\ Spawned(<<>>, <<>>, channels)
          /\ byName' = [s \in Sources |-> None]

(* Fault: stop() does not wait for the threads. *)
StopBeginsUnjoined(c, what) == Finish(c, what, TRUE, Channels \ ToSet(streams))

(* Fault: stop() suspends although there is nothing to join. *)
StopBeginsEmpty(c, what) ==
  /\ stop' = TRUE
  /\ open' = [t \in Threads |-> open[t] /\ t \notin ToSet(streams)]
  /\ job' = [job EXCEPT ![c] = what]
  /\ joining' = [joining EXCEPT ![c] = streams]
  /\ own' = [own EXCEPT ![c] = TRUE]
  /\ UNCHANGED <<streams, stream, byName, late>>

(* stop() before the joins.  With an empty list it does not suspend at all.  *)
StopBegins(c, what) ==
  LET channels == Channels \ ToSet(streams)
  IN  IF streams = <<>> THEN Finish(c, what, TRUE, channels)
      ELSE /\ stop' = TRUE
           /\ open' = [t \in Threads |-> t \in channels]
           /\ job' = [job EXCEPT ![c] = what]
           /\ joining' = [joining EXCEPT ![c] = streams]
           /\ own' = [own EXCEPT ![c] = TRUE]
           /\ UNCHANGED <<streams, stream, byName, late>>

(* deploy() at its begin, shutdown(), /logs/stop. *)
Stop(c) ==
  /\ job[c] = "idle" /\ calls < MaxCalls /\ calls' = calls + 1
  /\ overlapped' = (overlapped \/ \E d \in Busy : job[d] = "service")
  /\ StopBegins(c, "stop")
  /\ UNCHANGED <<kind, ready>>

(* LogStreamer.start: live_logs of deploy() and of restart_after_kill.       *)
ServiceStart(c) ==
  /\ kind = "service" /\ job[c] = "idle" /\ calls < MaxCalls /\ calls' = calls + 1
  /\ overlapped' = (overlapped \/ Busy # {})
  /\ StopBegins(c, "service")
  /\ UNCHANGED <<kind, ready>>

(* Fault: the second start does not know what the first one attached. *)
StreamingNone == {}

(* `streaming`: derived from the threads, so that a stream that ended on its *)
(* own does not count.                                                       *)
Streaming == {s \in Sources : byName[s] # None /\ Alive(byName[s])}

(* AidenOpsLogStreamer.start, which never suspends: what is missing of the   *)
(* half is attached, what is there is left alone.  The flag is cleared only  *)
(* when nothing is running.                                                  *)
HalfStart(c, half) ==
  LET missing == Wanted(half) \ Streaming
  IN  /\ kind = "aidenops" /\ job[c] = "idle" /\ calls < MaxCalls /\ calls' = calls + 1
      /\ missing # {}
      /\ overlapped' = (overlapped \/ Busy # {})
      /\ stop' = (stop /\ Streaming # {})
      /\ \E opened \in Opened(missing) :
           LET f == Threaded(opened)
           IN  /\ Spawned(f, streams, Channels)
               /\ byName' = [s \in Sources |-> IF s \in opened THEN f[s] ELSE byName[s]]
               /\ joining' = [d \in Callers |-> IF own[d] THEN joining[d] \o SetToSeq(Range(f))
                                                ELSE joining[d]]
      /\ UNCHANGED <<kind, job, own, ready>>

-----------------------------------------------------------------------------
(* The thread of a join sees that its thread has ended, or two seconds pass. *)
JoinEnds(c) ==
  /\ job[c] # "idle" /\ Joined(c) \notin ToSet(ready)
  /\ ready' = Append(ready, Joined(c))
  /\ late' = IF Alive(Head(joining[c])) THEN late \cup {Head(joining[c])} ELSE late
  /\ UNCHANGED <<kind, stop, streams, byName, stream, open, job, joining, own, overlapped,
                 calls>>

(* The loop runs what is first: a line is published, or a stop() goes on to  *)
(* the next thread of its list or past the last one.                         *)
Publish ==
  /\ ready # <<>> /\ Head(ready)[1] = "line"
  /\ ready' = Tail(ready)
  /\ UNCHANGED <<kind, stop, streams, byName, stream, open, job, joining, own, overlapped,
                 late, calls>>

Resume(c) ==
  /\ ready # <<>> /\ Head(ready) = Joined(c)
  /\ ready' = Tail(ready)
  /\ IF Len(joining[c]) = 1 THEN Finish(c, job[c], stop, Channels)
     ELSE /\ joining' = [joining EXCEPT ![c] = Tail(@)]
          /\ UNCHANGED <<stop, streams, byName, stream, open, job, own, late>>
  /\ UNCHANGED <<kind, overlapped, calls>>

(* _pump hands a line to the loop.  A thread that was told to stop finishes  *)
(* the data that it has read or that its channel still has.                  *)
Emit(t) ==
  /\ Alive(t) /\ Line(t) \notin ToSet(ready) /\ Len(ready) < MaxReady
  /\ ready' = Append(ready, Line(t))
  /\ UNCHANGED <<kind, stop, streams, byName, stream, open, job, joining, own, overlapped,
                 late, calls>>

(* _pump ends and closes its channel. *)
Exit(t) ==
  /\ stream' = [stream EXCEPT ![t] = None] /\ open' = [open EXCEPT ![t] = FALSE]
  /\ UNCHANGED <<kind, stop, streams, byName, job, joining, own, ready, overlapped, late,
                 calls>>

(* Fault: a thread looks at its channel only. *)
ObeyChannel(t) == Alive(t) /\ ~open[t] /\ Exit(t)

(* It saw the flag, or its channel closed under it. *)
Obey(t) == Alive(t) /\ (stop \/ ~open[t]) /\ Exit(t)

(* The remote command ended or the connection was lost. *)
Die(t) == Alive(t) /\ Exit(t)

Next ==
  \/ Publish
  \/ \E c \in Callers : Stop(c) \/ ServiceStart(c) \/ JoinEnds(c) \/ Resume(c)
  \/ \E c \in Callers, half \in Starts \ {"service"} : HalfStart(c, half)
  \/ \E t \in Threads : Emit(t) \/ Obey(t) \/ Die(t)

(* The loop runs what it is handed, a join ends within two seconds, and a    *)
(* thread looks at the flag at least every 0.2 seconds.                      *)
Fairness ==
  /\ WF_vars(Publish)
  /\ \A c \in Callers : WF_vars(Resume(c)) /\ WF_vars(JoinEnds(c))
  /\ \A t \in Threads : WF_vars(Obey(t))

Spec == Init /\ [][Next]_vars /\ Fairness

-----------------------------------------------------------------------------
TypeOK ==
  /\ kind \in {"service", "aidenops"} /\ stop \in BOOLEAN /\ overlapped \in BOOLEAN
  /\ streams \in Seq(Threads) /\ byName \in [Sources -> Threads \cup {None}]
  /\ stream \in [Threads -> Sources \cup {None}] /\ open \in [Threads -> BOOLEAN]
  /\ job \in [Callers -> Starts \cup {"idle", "stop"}]
  /\ joining \in [Callers -> Seq(Threads)]
  /\ \A c \in Callers : job[c] = "idle" <=> joining[c] = <<>>
  /\ own \in [Callers -> BOOLEAN] /\ late \subseteq Threads
  /\ ready \in Seq({Line(t) : t \in Threads} \cup {Joined(c) : c \in Callers})
  /\ calls \in 0 .. MaxCalls

(* "Streams both log sources for one service at a time"; "rather than leaving *)
(* orphaned channels following the same files": no two channels follow one    *)
(* source, and the next stop() knows each of them.  Unless a start was ever   *)
(* called while another start or a stop was joining: see README.              *)
OneStreamPerSource ==
  ~overlapped =>
    \A t \in Threads : open[t] =>
      /\ t \in ToSet(streams)
      /\ \A u \in Threads \ {t} : open[u] => stream[u] # stream[t]

(* "If something is still running the flag is already clear": when no stop()  *)
(* is under way, no stream on the list is about to see the flag.  start() of  *)
(* AidenOps counts on it when it leaves the flag alone.                       *)
RunningMeansClear ==
  Busy = {} /\ stop => \A t \in ToSet(streams) : ~Alive(t)

(* When a stop() has returned, no line of the streams it has joined is still  *)
(* to be published, as its caller is about to begin a new deployment: a line  *)
(* that waits is of a stream on a list, or of a thread that outlived a join.  *)
NoOldLines ==
  \A t \in Threads : Line(t) \in ToSet(ready) =>
    \/ t \in ToSet(streams) \/ \E c \in Callers : t \in ToSet(joining[c])
    \/ t \in late \/ overlapped

(* A stop that no start takes back silences every stream, those that no list *)
(* knows any more included.                                                  *)
StopSilences == stop ~> ~stop \/ \A t \in Threads : ~Alive(t)
=============================================================================
