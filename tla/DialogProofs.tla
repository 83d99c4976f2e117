---------------------------- MODULE DialogProofs ----------------------------
(***************************************************************************)
(* Theorems about AnalyzeDialog, for every number of starts, findings and  *)
(* errors, every set of providers and every sequence of edits of their     *)
(* file.  First the promises of the server, then those of the client: one  *)
(* read loop at a time, a dialog that shows what the stream has said       *)
(* however it is cut, a result that is complete.                           *)
(*                                                                         *)
(* The inductive invariant of the client says where each event of a log    *)
(* is: the first g are what the dialog shows, the halves of the rest lie,  *)
(* in order, in the reader's buffer and on the wire.  A chunk moves g, an  *)
(* event of the server lengthens the log and the wire alike.               *)
(***************************************************************************)
EXTENDS AnalyzeDialog, FiniteSetTheorems, FunctionTheorems, SequenceTheorems,
        WellFoundedInduction, TLAPS

ServerState ==
    [pc : {"none", "request", "load", "loop", "calling", "gone"}, provider : Providers \cup {None},
     status : {0, 200, 404}, total : Nat, idx : Nat, processed : Nat, consecutive : Nat]

\* The streams, as records.
Streams == server \in [Starts -> ServerState]

\* A generator that has ended is a state of a generator.
LEMMA GoneIsState ==
    ASSUME NEW n \in ServerState
    PROVE  Gone(n) \in ServerState /\ Gone(n).pc = "gone"
BY DEF ServerState, Gone

\* What a step of one stream does to the streams.
StreamStep(k) ==
    \/ \E p \in Providers : StartAnalysis(k, p)
    \/ Request(k) \/ Load(k) \/ CallAnswered(k) \/ CallFailed(k) \/ Finish(k)
    \/ BreakOff(k) \/ Cancelled(k)

\* Every step but that of LoopCall starts no call.
NoNewCall == \A k \in Starts : server'[k].pc = "calling" => server[k].pc = "calling"

\* A failed finding starts no call.
LEMMA FailStarts ==
    ASSUME NEW k \in Starts, Streams, Fail(k)
    PROVE  Streams' /\ NoNewCall
<1>1. ProcessedAfterError(server[k].processed) \in Nat
  BY DEF Streams, ServerState, ProcessedAfterError
<1>2. server' = [server EXCEPT ![k].pc = "loop", ![k].idx = @ + 1,
                  ![k].processed = ProcessedAfterError(server[k].processed), ![k].consecutive = @ + 1]
  BY DEF Fail
<1>3. QED
  BY <1>1, <1>2 DEF Streams, ServerState, NoNewCall

\* No step of a stream but LoopCall starts a call.
LEMMA StreamSteps ==
    ASSUME NEW k \in Starts, Streams, StreamStep(k)
    PROVE  Streams' /\ NoNewCall
<1>1. ASSUME NEW p \in Providers, StartAnalysis(k, p) PROVE Streams' /\ NoNewCall
  <2>1. server' = [server EXCEPT ![k].pc = "request", ![k].provider = p]
    BY <1>1 DEF StartAnalysis
  <2>2. /\ p \in Providers \cup {None}
        /\ server[k] \in ServerState
    BY DEF Streams
  <2>3. [server[k] EXCEPT !.pc = "request", !.provider = p] \in ServerState
    BY <2>2 DEF ServerState
  <2>4. server' = [server EXCEPT ![k] = [server[k] EXCEPT !.pc = "request", !.provider = p]]
    BY <2>1 DEF Streams
  <2>5. Streams'
    BY <2>3, <2>4 DEF Streams
  <2>6. NoNewCall
    BY <2>2, <2>4 DEF Streams, ServerState, NoNewCall
  <2>7. QED
    BY <2>5, <2>6
<1>2. CASE Request(k)
  <2>1. \/ server' = [server EXCEPT ![k].pc = "load", ![k].status = 200]
        \/ server' = [server EXCEPT ![k].pc = "gone", ![k].status = 404]
    BY <1>2 DEF Request
  <2>2. QED
    BY <2>1 DEF Streams, ServerState, NoNewCall
<1>3. CASE Load(k)
  <2>1. PICK n \in 0..MaxBatch :
           \/ server' = [server EXCEPT ![k].pc = "loop", ![k].total = n]
           \/ server' = [server EXCEPT ![k] = Gone(server[k])]
    BY <1>3 DEF Load
  <2>2. n \in Nat
    BY DialogAssumption
  <2>3. QED
    BY <2>1, <2>2, GoneIsState DEF Streams, ServerState, NoNewCall
<1>4. CASE CallAnswered(k)
  <2>1. server' = [server EXCEPT ![k].pc = "loop", ![k].idx = @ + 1,
                    ![k].processed = @ + 1, ![k].consecutive = 0]
    BY <1>4 DEF CallAnswered
  <2>2. QED
    BY <2>1 DEF Streams, ServerState, NoNewCall
<1>5. CASE CallFailed(k)
  BY <1>5, FailStarts DEF CallFailed
<1>6. CASE Finish(k) \/ BreakOff(k) \/ Cancelled(k)
  <2>1. server' = [server EXCEPT ![k] = Gone(server[k])]
    BY <1>6 DEF Finish, BreakOff, Cancelled
  <2>2. QED
    BY <2>1, GoneIsState DEF Streams, NoNewCall
<1>7. QED
  BY <1>1, <1>2, <1>3, <1>4, <1>5, <1>6 DEF StreamStep

\* Whatever the client does, and the network, leaves the streams alone.
LEMMA OthersLeaveStreams ==
    ASSUME \/ \E k \in Starts : Client(k) \/ Network(k)
           \/ ListProviders \/ Cancel \/ Leave \/ EditFile \/ Quiescent \/ UNCHANGED vars
    PROVE  UNCHANGED server
<1>1. \A k \in Starts : Client(k) => UNCHANGED server
  BY Zenon DEF Client, FetchAnswered, FetchRefused, ReadChunk, ReadEnd, ReadFails, LeaveLoop
<1>2. \A k \in Starts : Network(k) => UNCHANGED server
  BY Zenon DEF Network, Drop, Notice
<1>3. ListProviders \/ Cancel \/ Leave \/ EditFile \/ Quiescent \/ UNCHANGED vars => UNCHANGED server
  BY Zenon DEF ListProviders, Cancel, Leave, EditFile, Quiescent, vars
<1>4. QED
  BY <1>1, <1>2, <1>3

\* The gate, at the only step that starts a call.
LEMMA CallsStart ==
    ASSUME NEW k \in Starts, Streams, LoopCall(k)
    PROVE  /\ Streams'
           /\ \A j \in Starts : server'[j].pc = "calling" =>
                \/ server[j].pc = "calling"
                \/ j = k /\ CallAllowed(server[k].provider)
<1>1. CASE CallAllowed(server[k].provider) /\ server' = [server EXCEPT ![k].pc = "calling"]
  BY <1>1 DEF Streams, ServerState, LoopCall
<1>2. CASE Fail(k)
  BY <1>2, FailStarts DEF NoNewCall
<1>3. QED
  BY <1>1, <1>2 DEF LoopCall

\* A call that is under way after a step was under way before, or has passed
\* the gate.
LEMMA StepCalls ==
    ASSUME Streams, [Next]_vars
    PROVE  /\ Streams'
           /\ \A j \in Starts : server'[j].pc = "calling" =>
                \/ server[j].pc = "calling"
                \/ CallAllowed(server[j].provider)
<1>1. CASE UNCHANGED server
  BY <1>1 DEF Streams
<1>2. CASE \E k \in Starts : StreamStep(k)
  BY <1>2, StreamSteps DEF NoNewCall
<1>3. CASE \E k \in Starts : LoopCall(k)
  BY <1>3, CallsStart
<1>4. QED
  BY <1>1, <1>2, <1>3, OthersLeaveStreams DEF Next, Server, StreamStep

\* The types of the streams hold initially.
LEMMA StreamsInit == Init => Streams
BY DialogAssumption DEF Init, Streams, ServerState

\* No finding leaves for a provider the file and the environment do not
\* allow at that moment, whatever was listed or read before
\* (providers.py:219-286).
THEOREM CallsPassTheGate == Spec => GateHolds
<1>1. Streams /\ [Next]_vars =>
         [\A k \in Starts : server[k].pc # "calling" /\ server'[k].pc = "calling" =>
            LET entry == Last(files)[server[k].provider] IN
            entry.local \/ (RemoteAllowed /\ entry.host \in Allowlist /\ entry.key)]_vars
  <2> SUFFICES ASSUME Streams, [Next]_vars, NEW k \in Starts,
                      server[k].pc # "calling", server'[k].pc = "calling"
               PROVE  LET entry == Last(files)[server[k].provider] IN
                      entry.local \/ (RemoteAllowed /\ entry.host \in Allowlist /\ entry.key)
    OBVIOUS
  <2>1. CallAllowed(server[k].provider)
    BY StepCalls
  <2>2. QED
    BY Zenon, <2>1 DEF CallAllowed, IsUsable, RemoteDenied, LoadRegistry
<1>2. Streams /\ [Next]_vars => Streams'
  BY StepCalls
<1>3. QED
  BY <1>1, <1>2, StreamsInit, PTL DEF Spec, GateHolds

-----------------------------------------------------------------------------
(* The client.                                                             *)

\* Why an analysis stops early, None when it does not.
Reasons == {None, "circuit_breaker", "disconnected"}

\* What travels, and the half in which it does.
Event == [type : {"progress", "error", "done"}, done : Nat, total : Nat, stopped : Reasons]
Half == [half : {1, 2}, event : Event]

DialogState ==
    [step : {"config", "running", "done"}, current : Starts \cup {0}, done : Nat, total : Nat,
     errors : Nat, stopped : Reasons, failed : BOOLEAN, listed : {None} \cup SUBSET Providers]

ReaderState ==
    [pc : {"none", "fetching", "reading", "over", "orphan"}, buf : Seq(Half), finished : BOOLEAN]

ConnState == {"none", "open", "ended", "cut", "dropped", "broken"}

\* The types of all variables but the provider file.
Typed ==
    /\ dialog \in DialogState
    /\ reader \in [Starts -> ReaderState]
    /\ server \in [Starts -> ServerState]
    /\ conn \in [Starts -> ConnState]
    /\ wire \in [Starts -> Seq(Half)]
    /\ log \in [Starts -> Seq(Event)]

-----------------------------------------------------------------------------
(* The stream.                                                             *)

\* What a stream has emitted before it ends: the event of every finding so
\* far, in order.
LogShape(events, n) ==
    /\ \A i \in 1..Len(events) :
         /\ events[i].total = n.total /\ events[i].done <= n.total
         /\ events[i].type # "done" => events[i].done = i
         /\ events[i].type = "done" =>
              /\ n.pc = "gone" /\ i = Len(events) /\ events[i].done = i - 1
              /\ events[i].stopped # "circuit_breaker" => events[i].done = n.total

IsReading(rd) == rd.pc \in {"fetching", "reading"}

\* One stream: the counters of the loop and the log they have left, of every
\* finding so far as long as somebody reads it over an open connection.
StreamFine(rd, n, cn, events) ==
    /\ n.total <= MaxBatch
    /\ n.pc \in {"none", "request", "load"} =>
         events = <<>> /\ n.total = 0 /\ n.idx = 0 /\ n.processed = 0
    /\ n.pc \in {"loop", "calling"} => n.idx = n.processed
    /\ n.idx <= n.total
    /\ n.pc = "calling" => n.idx < n.total
    /\ LogShape(events, n)
    /\ rd.pc = "none" <=> n.pc = "none"
    /\ IsReading(rd) /\ cn = "open" /\ n.pc \in {"loop", "calling"} => Len(events) = n.processed

StreamOK(k) == StreamFine(reader[k], server[k], conn[k], log[k])

-----------------------------------------------------------------------------
(* The wire and the screen.                                                *)

\* Of the events of a log all but the first g are under way: their halves
\* are what the reader keeps of the last chunk and what the wire holds.
Framed(buf, on, events, g) ==
    /\ g \in 0..Len(events)
    /\ Len(buf) <= 1
    /\ Len(buf) + Len(on) = 2 * (Len(events) - g)
    /\ \A i \in 1..(Len(events) - g) :
         /\ (buf \o on)[2 * i - 1] = Head1(events[g + i])
         /\ (buf \o on)[2 * i] = Tail1(events[g + i])

\* The dialog shows the first g events of a log.
ShowsFirst(d, events, g) ==
    /\ d.errors = Cardinality({i \in 1..g : events[i].type = "error"})
    /\ d.done = IF g = 0 THEN 0 ELSE events[g].done
    /\ d.total = IF g = 0 THEN TotalUnmarked ELSE events[g].total
    /\ d.step = "done" <=> \E i \in 1..g : events[i].type = "done"
    /\ d.step = "done" => d.stopped = events[g].stopped

\* A loop that has left the screen, or ended, keeps nothing; nor does one
\* that waits for its answer.
QuietFine(rd, on) ==
    /\ ~IsReading(rd) => rd.buf = <<>> /\ on = <<>>
    /\ rd.pc = "fetching" => rd.buf = <<>>

\* The start on the screen shows a first part of its log.
ReplaysFine(d, k, rd, on, events) ==
    d.current = k /\ d.step \in {"running", "done"} =>
      \E g \in Nat : Framed(rd.buf, on, events, g) /\ ShowsFirst(d, events, g)

Quiet(k) == QuietFine(reader[k], wire[k])
Replays(k) == ReplaysFine(dialog, k, reader[k], wire[k], log[k])

\* No more failures than findings done, no more done than there are.
Numbers == dialog.errors <= dialog.done /\ dialog.done <= dialog.total /\ dialog.total <= MaxBatch

\* The reader's flag and the step of the dialog are set by the same event.
FinishedIsDone == \A k \in Starts : Reading(k) => (reader[k].finished <=> dialog.step = "done")

\* What the dialog shows came from a start.
Started ==
    /\ dialog.step # "config" => dialog.current # 0
    /\ dialog.current # 0 => reader[dialog.current].pc # "none"

\* The inductive invariant.
ClientInv ==
    /\ Typed
    /\ \A k \in Starts : StreamOK(k) /\ Quiet(k) /\ Replays(k)
    /\ Numbers
    /\ OneReader
    /\ FinishedIsDone
    /\ Started

-----------------------------------------------------------------------------
(* The fold of the dialog, event by event.  What the library's recursion   *)
(* computes is reached by induction over numbers: a set of numbers that    *)
(* has a member has a least one.                                           *)

\* A set of numbers has a least one.
LEMMA LeastNumber ==
    ASSUME NEW T, T \subseteq Nat, T # {}
    PROVE  \E x \in T : \A y \in T : x <= y
<1>1. PICK x \in T : \A y \in T : ~(<<y, x>> \in OpToRel(<, Nat))
  BY NatLessThanWellFounded, WFMin
<1>2. ASSUME NEW y \in T PROVE x <= y
  <2>1. ~(y < x)
    BY <1>1 DEF OpToRel
  <2>2. QED
    BY <2>1
<1>3. QED
  BY <1>2

\* The recursion equation of FoldLeft(Shown, d, events).
Iterates(d, events, S, it) ==
    it = [s \in SUBSET S |->
            IF s = {} THEN d ELSE Shown(it[s \ {Max(s)}], events[Max(s)])]

\* The fold of Shown over a log is the last value of its iteration: the definition of
\* Folds, unrolled once.
LEMMA FoldIsIteration ==
    ASSUME NEW d, NEW events
    PROVE  FoldLeft(Shown, d, events) =
             (CHOOSE it : Iterates(d, events, DOMAIN events, it))[DOMAIN events]
BY DEF FoldLeft, MapThenFoldSet, Iterates

\* The greatest of a set of numbers that ends with k + 1.
LEMMA MaxOfLonger ==
    ASSUME NEW k \in Nat, NEW s \in SUBSET (1..(k + 1)), k + 1 \in s
    PROVE  Max(s) = k + 1
<1>1. \A y \in s : k + 1 >= y
  OBVIOUS
<1>2. \A x \in s : (\A y \in s : x >= y) => x = k + 1
  OBVIOUS
<1>3. QED
  BY <1>1, <1>2 DEF Max

\* An iteration over 1..k extends to one over 1..(k + 1).
LEMMA IterationExtends ==
    ASSUME NEW d, NEW events, NEW k \in Nat, NEW it, Iterates(d, events, 1..k, it)
    PROVE  \E longer : Iterates(d, events, 1..(k + 1), longer)
<1> DEFINE longer == [s \in SUBSET (1..(k + 1)) |->
                        IF k + 1 \in s THEN Shown(it[s \ {k + 1}], events[k + 1]) ELSE it[s]]
<1>1. ASSUME NEW s \in SUBSET (1..(k + 1))
      PROVE  longer[s] = IF s = {} THEN d ELSE Shown(longer[s \ {Max(s)}], events[Max(s)])
  <2>1. CASE k + 1 \in s
    <3>1. Max(s) = k + 1 /\ s # {}
      BY <2>1, MaxOfLonger
    <3>2. longer[s \ {k + 1}] = it[s \ {k + 1}]
      OBVIOUS
    <3>3. longer[s] = Shown(it[s \ {k + 1}], events[k + 1])
      BY <2>1
    <3>4. QED
      BY <3>1, <3>2, <3>3
  <2>2. CASE k + 1 \notin s
    <3>1. s \in SUBSET (1..k) /\ longer[s] = it[s]
      BY <2>2
    <3>2. \A t \in SUBSET (1..k) : longer[t] = it[t]
      <4> SUFFICES ASSUME NEW t \in SUBSET (1..k) PROVE longer[t] = it[t]
        OBVIOUS
      <4>1. t \in SUBSET (1..(k + 1)) /\ k + 1 \notin t
        OBVIOUS
      <4>2. QED
        BY <4>1
    <3>3. it[s] = IF s = {} THEN d ELSE Shown(it[s \ {Max(s)}], events[Max(s)])
      BY <3>1 DEF Iterates
    <3>4. s \ {Max(s)} \in SUBSET (1..k)
      BY <3>1
    <3>5. QED
      BY <3>1, <3>2, <3>3, <3>4
  <2>3. QED
    BY <2>1, <2>2
<1>2. longer = [s \in SUBSET (1..(k + 1)) |->
                  IF s = {} THEN d ELSE Shown(longer[s \ {Max(s)}], events[Max(s)])]
  BY <1>1
<1>3. QED
  BY <1>2 DEF Iterates

\* There is an iteration of Shown over any number of events: recursion over 1..n.
LEMMA IterationExists ==
    ASSUME NEW d, NEW events, NEW n \in Nat
    PROVE  \E it : Iterates(d, events, 1..n, it)
<1> DEFINE Without == {k \in Nat : ~\E it : Iterates(d, events, 1..k, it)}
<1> SUFFICES ASSUME n \in Without PROVE FALSE
  OBVIOUS
<1>1. PICK k \in Without : \A m \in Without : k <= m
  BY LeastNumber
<1>2. k # 0
  <2>1. Iterates(d, events, 1..0, [s \in SUBSET (1..0) |-> d])
    BY DEF Iterates
  <2>2. QED
    BY <2>1
<1>3. k - 1 \in Nat /\ k - 1 \notin Without
  BY <1>1, <1>2
<1>4. PICK it : Iterates(d, events, 1..(k - 1), it)
  BY <1>3
<1>5. \E it2 : Iterates(d, events, 1..(k - 1 + 1), it2)
  BY <1>3, <1>4, IterationExtends
<1>6. k - 1 + 1 = k
  BY <1>1
<1>7. QED
  BY <1>1, <1>5, <1>6

\* The dialog goes through the events of a chunk one by one.
LEMMA FoldGoesThrough ==
    ASSUME NEW d, NEW events, NEW n \in Nat, DOMAIN events = 1..n
    PROVE  \E run : /\ run[0] = d
                    /\ \A i \in 1..n : run[i] = Shown(run[i - 1], events[i])
                    /\ run[n] = FoldLeft(Shown, d, events)
<1> DEFINE it == CHOOSE g : Iterates(d, events, 1..n, g)
           run == [i \in 0..n |-> it[1..i]]
<1>1. Iterates(d, events, 1..n, it)
  BY IterationExists
<1>2. FoldLeft(Shown, d, events) = it[1..n]
  BY FoldIsIteration
<1> HIDE DEF it
<1>3. \A s \in SUBSET (1..n) : it[s] = IF s = {} THEN d ELSE Shown(it[s \ {Max(s)}], events[Max(s)])
  BY <1>1 DEF Iterates
<1>4. run[0] = d
  <2>1. 1..0 = {} /\ {} \in SUBSET (1..n)
    OBVIOUS
  <2>2. it[{}] = d
    BY <1>3, <2>1
  <2>3. run[0] = it[1..0]
    OBVIOUS
  <2>4. QED
    BY <2>1, <2>2, <2>3
<1>5. ASSUME NEW i \in 1..n PROVE run[i] = Shown(run[i - 1], events[i])
  <2>1. i - 1 \in Nat /\ i - 1 + 1 = i /\ i \in 1..i
    OBVIOUS
  <2>2. Max(1..i) = i
    BY <2>1, MaxOfLonger
  <2>3. 1..i \in SUBSET (1..n) /\ 1..i # {} /\ (1..i) \ {i} = 1..(i - 1)
    <3>1. \A x \in 1..i : x \in 1..n
      OBVIOUS
    <3>2. \A x : x \in (1..i) \ {i} <=> x \in 1..(i - 1)
      OBVIOUS
    <3>3. (1..i) \ {i} = 1..(i - 1)
      BY <3>2
    <3>4. QED
      BY <2>1, <3>1, <3>3
  <2>4. it[1..i] = Shown(it[1..(i - 1)], events[i])
    BY <1>3, <2>2, <2>3
  <2>5. QED
    BY <2>4
<1>6. run[n] = it[1..n]
  OBVIOUS
<1> HIDE DEF run
<1>7. QED
  BY <1>2, <1>4, <1>5, <1>6

-----------------------------------------------------------------------------
(* Chunks: which lines are whole.                                          *)

\* Half of the numbers up to n, rounded down.
LEMMA Halves ==
    ASSUME NEW n \in Nat
    PROVE  \E m \in Nat : n = 2 * m \/ n = 2 * m + 1
<1>1. n \div 2 \in Nat /\ (n = 2 * (n \div 2) \/ n = 2 * (n \div 2) + 1)
  OBVIOUS
<1>2. QED
  BY <1>1

\* The even numbers up to 2 * m are m.
LEMMA EvenNumbers ==
    ASSUME NEW m \in Nat, NEW S, S = {2 * i : i \in 1..m}
    PROVE  IsFiniteSet(S) /\ Cardinality(S) = m
<1> DEFINE F == [i \in 1..m |-> 2 * i]
<1>1. F \in Bijection(1..m, S)
  <2>1. F \in [1..m -> S]
    OBVIOUS
  <2>2. \A i, j \in 1..m : F[i] = F[j] => i = j
    OBVIOUS
  <2>3. \A t \in S : \E i \in 1..m : F[i] = t
    OBVIOUS
  <2> HIDE DEF F
  <2>4. QED
    BY <2>1, <2>2, <2>3, Fun_IsBij
<1>2. ExistsBijection(1..m, S)
  BY <1>1 DEF ExistsBijection
<1>3. IsFiniteSet(1..m) /\ Cardinality(1..m) = m
  BY FS_Interval
<1>4. QED
  BY <1>2, <1>3, FS_Bijection

\* A sequence of halves that begins with a whole event.
Alternates(h, events, g, len) ==
    \A j \in 1..len : \A i \in Nat :
        /\ j = 2 * i - 1 => h[j] = Head1(events[g + i])
        /\ j = 2 * i => h[j] = Tail1(events[g + i])

\* The lines of a chunk are the events both halves of which are there.
LEMMA LinesOfChunk ==
    ASSUME NEW len \in Nat, NEW chunk, DOMAIN chunk = 1..len, NEW events, NEW g \in Nat,
           NEW m \in Nat, len = 2 * m \/ len = 2 * m + 1,
           Alternates(chunk, events, g, len)
    PROVE  /\ DOMAIN Lines(chunk) = 1..m
           /\ \A i \in 1..m : Lines(chunk)[i] = events[g + i]
<1> DEFINE Whole(n) == n > 1 /\ chunk[n].half = 2 /\ chunk[n - 1].half = 1
           ends == {n \in DOMAIN chunk : Whole(n)}
<1>1. \A n \in 1..len : Whole(n) <=> \E i \in 1..m : n = 2 * i
  <2> SUFFICES ASSUME NEW n \in 1..len PROVE Whole(n) <=> \E i \in 1..m : n = 2 * i
    OBVIOUS
  <2> n \in Nat
    OBVIOUS
  <2>1. PICK i \in Nat : n = 2 * i \/ n = 2 * i + 1
    BY Halves
  <2>2. CASE n = 2 * i
    <3>1. i \in 1..m /\ n - 1 = 2 * i - 1 /\ n - 1 \in 1..len /\ n > 1
      BY <2>2
    <3>2. chunk[n] = Tail1(events[g + i]) /\ chunk[n - 1] = Head1(events[g + i])
      BY <2>2, <3>1 DEF Alternates
    <3>3. chunk[n].half = 2 /\ chunk[n - 1].half = 1
      BY <3>2 DEF Head1, Tail1
    <3>4. Whole(n) /\ \E q \in 1..m : n = 2 * q
      BY <2>2, <3>1, <3>3
    <3>5. QED
      BY <3>4
  <2>3. CASE n = 2 * i + 1
    <3>1. n = 2 * (i + 1) - 1 /\ i + 1 \in Nat
      BY <2>3
    <3>2. chunk[n] = Head1(events[g + (i + 1)])
      BY <3>1 DEF Alternates
    <3>3. \A q \in 1..m : n # 2 * q
      BY <2>3
    <3>4. chunk[n].half # 2
      BY <3>2 DEF Head1
    <3>5. QED
      BY <3>3, <3>4
  <2>4. QED
    BY <2>1, <2>2, <2>3
<1>2. ends = {2 * i : i \in 1..m}
  <2>1. \A i \in 1..m : 2 * i \in 1..len
    OBVIOUS
  <2> HIDE DEF Whole
  <2>2. QED
    BY <1>1, <2>1
<1>3. Cardinality(ends) = m
  BY <1>2, EvenNumbers
<1>4. ASSUME NEW i \in 1..m
      PROVE  \A n \in ends : Cardinality({q \in ends : q <= n}) = i <=> n = 2 * i
  <2>1. ASSUME NEW p \in 1..m PROVE Cardinality({q \in ends : q <= 2 * p}) = p
    <3>1. {q \in ends : q <= 2 * p} = {2 * j : j \in 1..p}
      <4> HIDE DEF ends
      <4>1. QED
        BY <1>2
    <3>2. QED
      BY <3>1, EvenNumbers
  <2>2. ASSUME NEW n \in ends
        PROVE  Cardinality({q \in ends : q <= n}) = i <=> n = 2 * i
    <3>1. PICK p \in 1..m : n = 2 * p
      BY <1>2, <2>2
    <3>2. Cardinality({q \in ends : q <= n}) = p
      BY <2>1, <3>1
    <3>3. p = i <=> n = 2 * i
      BY <3>1
    <3> HIDE DEF ends
    <3>4. QED
      BY <3>2, <3>3
  <2> HIDE DEF ends
  <2>3. QED
    BY <2>2
<1>5. Lines(chunk) = [i \in 1..m |-> chunk[CHOOSE n \in ends : Cardinality({q \in ends : q <= n}) = i].event]
  BY <1>3 DEF Lines
<1>6. ASSUME NEW i \in 1..m PROVE Lines(chunk)[i] = events[g + i]
  <2> DEFINE Nth(n) == Cardinality({q \in ends : q <= n}) = i
             nth == CHOOSE n \in ends : Nth(n)
  <2>1. 2 * i \in ends /\ 2 * i \in 1..len
    BY <1>2
  <2>2. nth = 2 * i
    <3>1. \A n \in ends : Nth(n) <=> n = 2 * i
      BY <1>4
    <3> HIDE DEF Nth, ends
    <3>2. QED
      BY <2>1, <3>1
  <2>3. Lines(chunk)[i] = chunk[nth].event
    BY <1>5
  <2>4. chunk[2 * i] = Tail1(events[g + i])
    BY <2>1 DEF Alternates
  <2> HIDE DEF nth
  <2>5. QED
    BY <2>2, <2>3, <2>4 DEF Tail1
<1>7. QED
  BY <1>5, <1>6

-----------------------------------------------------------------------------
(* A chunk is read: what it takes off and what it leaves.                  *)

\* The halves of a sequence from position n on.
LEMMA SubSeqHalves ==
    ASSUME NEW S, NEW s \in Seq(S), NEW n \in 0..Len(s)
    PROVE  /\ SubSeq(s, 1, n) \in Seq(S) /\ Len(SubSeq(s, 1, n)) = n
           /\ \A i \in 1..n : SubSeq(s, 1, n)[i] = s[i]
           /\ SubSeq(s, n + 1, Len(s)) \in Seq(S) /\ Len(SubSeq(s, n + 1, Len(s))) = Len(s) - n
           /\ \A i \in 1..(Len(s) - n) : SubSeq(s, n + 1, Len(s))[i] = s[n + i]
OBVIOUS

\* Where the elements of a concatenation come from.
LEMMA ConcatElements ==
    ASSUME NEW S, NEW s \in Seq(S), NEW t \in Seq(S)
    PROVE  /\ s \o t \in Seq(S) /\ Len(s \o t) = Len(s) + Len(t)
           /\ \A i \in 1..Len(s) : (s \o t)[i] = s[i]
           /\ \A i \in 1..Len(t) : (s \o t)[Len(s) + i] = t[i]
OBVIOUS

\* What is under way alternates.
LEMMA FramedAlternates ==
    ASSUME NEW buf \in Seq(Half), NEW on \in Seq(Half), NEW events \in Seq(Event), NEW g \in Nat,
           Framed(buf, on, events, g)
    PROVE  Alternates(buf \o on, events, g, Len(buf) + Len(on))
<1>1. Len(buf) \in Nat /\ Len(on) \in Nat /\ Len(events) \in Nat
  OBVIOUS
<1>2. \A i \in 1..(Len(events) - g) :
        /\ (buf \o on)[2 * i - 1] = Head1(events[g + i])
        /\ (buf \o on)[2 * i] = Tail1(events[g + i])
  BY DEF Framed
<1>3. \A j \in 1..(Len(buf) + Len(on)) : \A i \in Nat :
        j = 2 * i - 1 \/ j = 2 * i => i \in 1..(Len(events) - g)
  BY <1>1 DEF Framed
<1>4. QED
  BY <1>2, <1>3 DEF Alternates

\* Halves that alternate from event g on are what buffer and wire hold when g events
\* have been shown.
LEMMA AlternatesFrames ==
    ASSUME NEW buf \in Seq(Half), NEW on \in Seq(Half), NEW events \in Seq(Event), NEW g \in Nat,
           g <= Len(events), Len(buf) <= 1,
           Len(buf) + Len(on) = 2 * (Len(events) - g),
           Alternates(buf \o on, events, g, Len(buf) + Len(on))
    PROVE  Framed(buf, on, events, g)
<1>1. Len(buf) \in Nat /\ Len(on) \in Nat /\ Len(events) \in Nat
  OBVIOUS
<1>2. ASSUME NEW i \in 1..(Len(events) - g)
      PROVE  /\ (buf \o on)[2 * i - 1] = Head1(events[g + i])
             /\ (buf \o on)[2 * i] = Tail1(events[g + i])
  <2>1. /\ 2 * i - 1 \in 1..(Len(buf) + Len(on)) /\ 2 * i \in 1..(Len(buf) + Len(on))
        /\ i \in Nat
    BY <1>1
  <2>2. QED
    BY <2>1 DEF Alternates
<1>3. g \in 0..Len(events)
  BY <1>1
<1>4. QED
  BY <1>2, <1>3 DEF Framed

\* A chunk in hand: what it is made of, and where it stands in what was
\* under way.
LEMMA ChunkElements ==
    ASSUME NEW buf \in Seq(Half), NEW on \in Seq(Half), NEW n \in 1..Len(on)
    PROVE  LET chunk == buf \o SubSeq(on, 1, n) IN
           /\ chunk \in Seq(Half) /\ Len(chunk) = Len(buf) + n
           /\ \A j \in 1..(Len(buf) + n) : chunk[j] = (buf \o on)[j]
<1> DEFINE part == SubSeq(on, 1, n)
<1>1. /\ part \in Seq(Half) /\ Len(part) = n
      /\ \A i \in 1..n : part[i] = on[i]
  BY SubSeqHalves
<1> HIDE DEF part
<1>a. part \in Seq(Half) /\ Len(part) = n
  BY <1>1
<1>2. /\ buf \o part \in Seq(Half) /\ Len(buf \o part) = Len(buf) + n
      /\ \A i \in 1..Len(buf) : (buf \o part)[i] = buf[i]
      /\ \A i \in 1..n : (buf \o part)[Len(buf) + i] = part[i]
  BY <1>a
<1>3. /\ \A i \in 1..Len(buf) : (buf \o on)[i] = buf[i]
      /\ \A i \in 1..Len(on) : (buf \o on)[Len(buf) + i] = on[i]
  BY ConcatElements
<1>4. ASSUME NEW j \in 1..(Len(buf) + n) PROVE (buf \o part)[j] = (buf \o on)[j]
  <2>1. Len(buf) \in Nat /\ Len(on) \in Nat
    OBVIOUS
  <2>2. CASE j <= Len(buf)
    <3>1. j \in 1..Len(buf)
      BY <2>1, <2>2
    <3>2. QED
      BY <1>2, <1>3, <3>1
  <2>3. CASE j > Len(buf)
    <3>1. PICK i \in 1..n : j = Len(buf) + i
      <4>1. j - Len(buf) \in 1..n /\ j = Len(buf) + (j - Len(buf))
        BY <2>1, <2>3
      <4>2. QED
        BY <4>1
    <3>2. i \in 1..Len(on)
      BY <2>1
    <3>3. QED
      BY <1>1, <1>2, <1>3, <3>1, <3>2
  <2>4. j <= Len(buf) \/ j > Len(buf)
    BY <2>1
  <2>5. QED
    BY Zenon, <2>2, <2>3, <2>4
<1>5. QED
  BY <1>2, <1>4 DEF part

\* Without its first m events what is under way alternates as well.
LEMMA RestAlternates ==
    ASSUME NEW h, NEW h2, NEW events, NEW g \in Nat, NEW m \in Nat, NEW len \in Nat, NEW len2 \in Nat,
           Alternates(h, events, g, len), len = 2 * m + len2,
           \A j \in 1..len2 : h2[j] = h[2 * m + j]
    PROVE  Alternates(h2, events, g + m, len2)
<1> SUFFICES ASSUME NEW j \in 1..len2, NEW i \in Nat
             PROVE  /\ j = 2 * i - 1 => h2[j] = Head1(events[g + m + i])
                    /\ j = 2 * i => h2[j] = Tail1(events[g + m + i])
  BY DEF Alternates
<1>1. /\ 2 * m + j \in 1..len /\ m + i \in Nat /\ g + m + i = g + (m + i)
      /\ j = 2 * i - 1 => 2 * m + j = 2 * (m + i) - 1
      /\ j = 2 * i => 2 * m + j = 2 * (m + i)
  OBVIOUS
<1>2. QED
  BY <1>1 DEF Alternates

\* What a chunk that ends between two events leaves, and one that ends
\* within an event.
LEMMA RestOfEven ==
    ASSUME NEW buf \in Seq(Half), NEW on \in Seq(Half), NEW n \in 1..Len(on), NEW m \in Nat,
           Len(buf) + n = 2 * m,
           NEW j \in 1..(Len(on) - n)
    PROVE  SubSeq(on, n + 1, Len(on))[j] = (buf \o on)[2 * m + j]
<1>1. SubSeq(on, n + 1, Len(on))[j] = on[n + j]
  OBVIOUS
<1>2. \A i \in 1..Len(on) : (buf \o on)[Len(buf) + i] = on[i]
  OBVIOUS
<1>3. Len(buf) \in Nat /\ Len(on) \in Nat
  OBVIOUS
<1>4. n + j \in 1..Len(on) /\ 2 * m + j = Len(buf) + (n + j)
  BY <1>3
<1>5. QED
  BY <1>1, <1>2, <1>4

\* A chunk that ends inside an event leaves its first half, and the rest of the wire
\* goes on from there.
LEMMA RestOfOdd ==
    ASSUME NEW buf \in Seq(Half), NEW on \in Seq(Half), NEW n \in 1..Len(on), NEW m \in Nat,
           Len(buf) + n = 2 * m + 1, NEW x \in Half, x = (buf \o on)[2 * m + 1],
           NEW j \in 1..(1 + (Len(on) - n))
    PROVE  (<<x>> \o SubSeq(on, n + 1, Len(on)))[j] = (buf \o on)[2 * m + j]
<1> DEFINE rest == SubSeq(on, n + 1, Len(on))
<1>1. \A i \in 1..(Len(on) - n) : rest[i] = on[n + i]
  OBVIOUS
<1>2. \A i \in 1..Len(on) : (buf \o on)[Len(buf) + i] = on[i]
  OBVIOUS
<1>3. Len(buf) \in Nat /\ Len(on) \in Nat /\ rest \in Seq(Half) /\ Len(rest) = Len(on) - n
  OBVIOUS
<1> HIDE DEF rest
<1>4. (<<x>> \o rest)[1] = x /\ \A i \in 1..Len(rest) : (<<x>> \o rest)[1 + i] = rest[i]
  BY <1>3
<1>5. CASE j = 1
  BY <1>4, <1>5 DEF rest
<1>6. CASE j # 1
  <2>1. /\ j - 1 \in 1..(Len(on) - n) /\ 1 + (j - 1) = j
        /\ n + (j - 1) \in 1..Len(on) /\ 2 * m + j = Len(buf) + (n + (j - 1))
    <3>1. Len(buf) \in Nat /\ Len(on) \in Nat
      BY <1>3
    <3>2. j \in 2..(1 + (Len(on) - n))
      BY <1>6, <3>1
    <3>3. j - 1 \in 1..(Len(on) - n) /\ 1 + (j - 1) = j
      BY <3>1, <3>2
    <3>4. n + (j - 1) \in 1..Len(on)
      BY <3>1, <3>3
    <3>5. 2 * m + j = Len(buf) + (n + (j - 1))
      BY <3>1, <3>2
    <3>6. QED
      BY <3>3, <3>4, <3>5
  <2>2. (<<x>> \o rest)[j] = rest[j - 1]
    BY <1>3, <1>4, <2>1
  <2>3. rest[j - 1] = on[n + (j - 1)]
    BY <1>1, <2>1
  <2>4. QED
    BY <1>2, <2>1, <2>2, <2>3 DEF rest
<1>7. QED
  BY <1>5, <1>6

\* Reading a chunk takes whole events off what is under way, in order, and
\* what it keeps and what is still on the wire are the rest.
LEMMA ChunkIsRead ==
    ASSUME NEW buf \in Seq(Half), NEW on \in Seq(Half), NEW events \in Seq(Event), NEW g \in Nat,
           Framed(buf, on, events, g), NEW n \in 1..Len(on)
    PROVE  LET chunk == buf \o SubSeq(on, 1, n) IN
           \E m \in Nat :
             /\ DOMAIN Lines(chunk) = 1..m
             /\ \A i \in 1..m : Lines(chunk)[i] = events[g + i]
             /\ Remainder(chunk) \in Seq(Half)
             /\ Framed(Remainder(chunk), SubSeq(on, n + 1, Len(on)), events, g + m)
<1> DEFINE chunk == buf \o SubSeq(on, 1, n)
           rest == SubSeq(on, n + 1, Len(on))
           len == Len(buf) + n
           under == Len(buf) + Len(on)
<1>1. /\ chunk \in Seq(Half) /\ Len(chunk) = len
      /\ \A j \in 1..len : chunk[j] = (buf \o on)[j]
  BY ChunkElements
<1>2. rest \in Seq(Half) /\ Len(rest) = Len(on) - n
  BY SubSeqHalves
<1>3. Len(buf) \in Nat /\ Len(on) \in Nat /\ Len(events) \in Nat
  OBVIOUS
<1>4. under = 2 * (Len(events) - g) /\ under \in Nat
  BY <1>3 DEF Framed
<1>5. len \in Nat /\ len >= 1 /\ len <= under /\ Len(rest) = under - len /\ Len(rest) \in Nat
  BY <1>2, <1>3
<1>6. Alternates(buf \o on, events, g, under)
  BY FramedAlternates
<1>7. DOMAIN chunk = 1..len
  BY <1>1
<1>8. Last(chunk) = chunk[len] /\ chunk # <<>> /\ Last(chunk) \in Half
  <2>1. Last(chunk) = chunk[len]
    BY <1>1 DEF Last
  <2>2. len \in 1..Len(chunk)
    BY <1>1, <1>5
  <2>3. chunk[len] \in Half
    BY <1>1, <2>2, ElementOfSeq
  <2>4. chunk # <<>>
    <3>1. Len(chunk) # Len(<<>>)
      BY <1>1, <1>5
    <3>2. QED
      BY <3>1
  <2>5. QED
    BY <2>1, <2>3, <2>4
<1> HIDE DEF chunk, rest, len, under
<1>9. PICK m \in Nat : len = 2 * m \/ len = 2 * m + 1
  BY <1>5, Halves
<1>10. Alternates(chunk, events, g, len)
  <2>1. \A j \in 1..len : j \in 1..under
    BY <1>4, <1>5
  <2>2. \A j \in 1..len : chunk[j] = (buf \o on)[j]
    BY <1>1
  <2>3. QED
    BY <1>6, <2>1, <2>2 DEF Alternates
<1>11. len \in Nat
  BY <1>5
<1>12. DOMAIN Lines(chunk) = 1..m /\ \A i \in 1..m : Lines(chunk)[i] = events[g + i]
  BY <1>7, <1>9, <1>10, <1>11, LinesOfChunk
<1>13. g + m <= Len(events) /\ g + m \in Nat
  BY <1>3, <1>4, <1>5, <1>9
<1>14. CASE len = 2 * m
  <2>1. len \in 1..len
    BY <1>5
  <2>2. chunk[len] = Tail1(events[g + m])
    BY <1>10, <1>14, <2>1 DEF Alternates
  <2>3. Remainder(chunk) = <<>>
    BY <1>8, <2>2 DEF Remainder, Tail1
  <2>4. /\ <<>> \in Seq(Half) /\ Len(<<>>) = 0 /\ <<>> \o rest = rest
    BY <1>2
  <2>5. \A j \in 1..Len(rest) : rest[j] = (buf \o on)[2 * m + j]
    BY <1>2, <1>14, RestOfEven DEF rest, len
  <2>6. under \in Nat /\ Len(rest) \in Nat /\ under = 2 * m + Len(rest)
    BY <1>4, <1>5, <1>14
  <2>7. Alternates(rest, events, g + m, Len(rest))
    BY <1>6, <2>5, <2>6, RestAlternates
  <2>8. Len(<<>>) + Len(rest) = 2 * (Len(events) - (g + m)) /\ Len(<<>>) + Len(rest) = Len(rest)
    BY <1>3, <1>4, <2>4, <2>6
  <2>9. Alternates(<<>> \o rest, events, g + m, Len(<<>>) + Len(rest)) /\ Len(<<>>) <= 1
    BY <2>4, <2>7, <2>8
  <2>10. rest \in Seq(Half)
    BY <1>2
  <2>11. Framed(<<>>, rest, events, g + m)
    BY <1>13, <2>4, <2>8, <2>9, <2>10, AlternatesFrames
  <2>12. QED
    BY <1>12, <2>3, <2>4, <2>11 DEF chunk, rest
<1>15. CASE len = 2 * m + 1
  <2> DEFINE kept == <<Last(chunk)>>
  <2>1. len \in 1..len /\ len = 2 * (m + 1) - 1 /\ m + 1 \in Nat
    BY <1>5, <1>15
  <2>2. chunk[len] = Head1(events[g + (m + 1)])
    BY <1>10, <2>1 DEF Alternates
  <2>3. Remainder(chunk) = kept
    BY <1>8, <2>2 DEF Remainder, Head1
  <2>4. kept \in Seq(Half) /\ Len(kept) = 1
    BY <1>8
  <2>5. Last(chunk) = (buf \o on)[2 * m + 1]
    BY <1>1, <1>8, <1>15, <2>1
  <2>6. \A j \in 1..(1 + Len(rest)) : (kept \o rest)[j] = (buf \o on)[2 * m + j]
    <3>1. Len(buf) + n = 2 * m + 1
      BY <1>15 DEF len
    <3>2. Last(chunk) \in Half
      BY <1>8
    <3>3. \A j \in 1..(1 + (Len(on) - n)) :
             (<<Last(chunk)>> \o SubSeq(on, n + 1, Len(on)))[j] = (buf \o on)[2 * m + j]
      BY <2>5, <3>1, <3>2, RestOfOdd
    <3>4. QED
      BY <1>2, <3>3 DEF rest
  <2> HIDE DEF kept
  <2>7. 1 + Len(rest) \in Nat /\ under = 2 * m + (1 + Len(rest))
    BY <1>4, <1>5, <1>15
  <2>8. Alternates(kept \o rest, events, g + m, 1 + Len(rest))
    BY <1>4, <1>6, <2>6, <2>7, RestAlternates
  <2>9. 1 + Len(rest) = 2 * (Len(events) - (g + m))
    BY <1>3, <1>4, <2>7
  <2>10. /\ Alternates(kept \o rest, events, g + m, Len(kept) + Len(rest)) /\ Len(kept) <= 1
         /\ Len(kept) + Len(rest) = 2 * (Len(events) - (g + m))
    BY <2>4, <2>8, <2>9
  <2>11. rest \in Seq(Half)
    BY <1>2
  <2>12. Framed(kept, rest, events, g + m)
    BY <1>13, <2>4, <2>10, <2>11, AlternatesFrames
  <2>13. QED
    BY <1>12, <2>3, <2>4, <2>12 DEF chunk, rest
<1>16. QED
  BY <1>9, <1>14, <1>15

-----------------------------------------------------------------------------
(* What the dialog makes of a chunk.                                       *)

\* "done" ends a log.
DoneIsLast(events) == \A i \in 1..Len(events) : events[i].type = "done" => i = Len(events)

OnScreen(d) == d \in DialogState /\ d.step \in {"running", "done"}

\* One event more.
LEMMA OneMoreShown ==
    ASSUME NEW d, OnScreen(d), NEW events \in Seq(Event), DoneIsLast(events),
           NEW g \in Nat, g < Len(events), ShowsFirst(d, events, g)
    PROVE  LET e == Shown(d, events[g + 1]) IN
           OnScreen(e) /\ e.current = d.current /\ ShowsFirst(e, events, g + 1)
<1> DEFINE event == events[g + 1]
           e == Shown(d, event)
<1>1. Len(events) \in Nat /\ g + 1 \in 1..Len(events) /\ g + 1 # 0
  OBVIOUS
<1>2. event \in Event
  BY <1>1, ElementOfSeq
<1>3. d \in DialogState /\ d.step \in {"running", "done"}
  BY DEF OnScreen
<1> HIDE DEF event
<1>4. /\ e \in DialogState
      /\ e.current = d.current
      /\ e.done = event.done /\ e.total = event.total
      /\ e.errors = IF event.type = "error" THEN d.errors + 1 ELSE d.errors
      /\ e.stopped = IF event.type = "done" THEN event.stopped ELSE d.stopped
      /\ e.step = IF event.type = "done" THEN "done" ELSE d.step
  <2> DEFINE er == IF event.type = "error" THEN d.errors + 1 ELSE d.errors
             so == IF event.type = "done" THEN event.stopped ELSE d.stopped
             st == IF event.type = "done" THEN "done" ELSE d.step
  <2>1. er \in Nat /\ so \in Reasons /\ st \in {"config", "running", "done"}
    BY <1>2, <1>3 DEF DialogState, Event
  <2>2. event.done \in Nat /\ event.total \in Nat
    BY <1>2 DEF Event
  <2>3. e = [d EXCEPT !.done = event.done, !.total = event.total, !.errors = er, !.stopped = so, !.step = st]
    BY DEF Shown
  <2> HIDE DEF er, so, st, e
  <2>4. e = [step |-> st, current |-> d.current, done |-> event.done, total |-> event.total,
             errors |-> er, stopped |-> so, failed |-> d.failed, listed |-> d.listed]
    BY <1>3, <2>3 DEF DialogState
  <2>5. e \in DialogState
    BY <1>3, <2>1, <2>2, <2>4 DEF DialogState
  <2>6. QED
    BY <2>4, <2>5 DEF er, so, st
<1> HIDE DEF e
<1>5. e.errors = Cardinality({i \in 1..(g + 1) : events[i].type = "error"})
  <2> DEFINE before == {i \in 1..g : events[i].type = "error"}
             after == {i \in 1..(g + 1) : events[i].type = "error"}
  <2>1. IsFiniteSet(before) /\ g + 1 \notin before
    <3>1. IsFiniteSet(1..g) /\ before \in SUBSET (1..g)
      BY FS_Interval
    <3>2. QED
      BY <3>1, FS_Subset
  <2>2. after = IF event.type = "error" THEN before \cup {g + 1} ELSE before
    BY DEF event
  <2>3. d.errors = Cardinality(before)
    BY DEF ShowsFirst
  <2> HIDE DEF before, after
  <2>4. Cardinality(before \cup {g + 1}) = Cardinality(before) + 1
    BY <2>1, FS_AddElement
  <2>5. QED
    BY <1>4, <2>2, <2>3, <2>4 DEF after
<1>6. e.step = "done" <=> \E i \in 1..(g + 1) : events[i].type = "done"
  <2>1. d.step = "done" <=> \E i \in 1..g : events[i].type = "done"
    BY DEF ShowsFirst
  <2>2. \A i : i \in 1..(g + 1) <=> i \in 1..g \/ i = g + 1
    OBVIOUS
  <2>3. QED
    BY <1>4, <2>1, <2>2 DEF event
<1>7. e.step = "done" => e.stopped = events[g + 1].stopped
  <2>1. d.step # "done"
    <3>1. \A i \in 1..g : i \in 1..Len(events) /\ i # Len(events)
      BY <1>1
    <3>2. QED
      BY <3>1 DEF ShowsFirst, DoneIsLast
  <2>2. QED
    BY <1>4, <2>1 DEF event
<1>8. ShowsFirst(e, events, g + 1)
  BY <1>1, <1>4, <1>5, <1>6, <1>7 DEF ShowsFirst, event
<1>9. OnScreen(e)
  BY <1>3, <1>4 DEF OnScreen
<1>10. QED
  BY <1>4, <1>8, <1>9 DEF e, event

\* A chunk of events: the dialog shows as many more.
LEMMA FoldShows ==
    ASSUME NEW d, OnScreen(d), NEW events \in Seq(Event), DoneIsLast(events),
           NEW g \in Nat, NEW m \in Nat, g + m <= Len(events), ShowsFirst(d, events, g),
           NEW chunk, DOMAIN chunk = 1..m, \A i \in 1..m : chunk[i] = events[g + i]
    PROVE  LET e == FoldLeft(Shown, d, chunk) IN
           OnScreen(e) /\ e.current = d.current /\ ShowsFirst(e, events, g + m)
<1> DEFINE Fine(e, n) == OnScreen(e) /\ e.current = d.current /\ ShowsFirst(e, events, g + n)
<1>1. PICK run : /\ run[0] = d
                 /\ \A i \in 1..m : run[i] = Shown(run[i - 1], chunk[i])
                 /\ run[m] = FoldLeft(Shown, d, chunk)
  BY FoldGoesThrough
<1> DEFINE wrong == {i \in 0..m : ~Fine(run[i], i)}
<1>2. ASSUME wrong # {} PROVE FALSE
  <2>1. PICK n \in wrong : \A i \in wrong : n <= i
    <3>1. wrong \subseteq Nat
      OBVIOUS
    <3>2. QED
      BY <1>2, <3>1, LeastNumber
  <2>2. n # 0
    <3>1. Fine(run[0], 0)
      BY <1>1
    <3>2. QED
      BY <2>1, <3>1
  <2>3. /\ n - 1 \in 0..m /\ n - 1 \notin wrong /\ n \in 1..m /\ n \in Nat /\ n - 1 \in Nat
    BY <2>1, <2>2
  <2>4. Fine(run[n - 1], n - 1)
    BY <2>3
  <2>5. run[n] = Shown(run[n - 1], events[g + (n - 1) + 1])
    <3>1. g + n = g + (n - 1) + 1
      BY <2>3
    <3>2. QED
      BY <1>1, <2>3, <3>1
  <2>6. /\ g + (n - 1) \in Nat /\ g + (n - 1) < Len(events) /\ g + (n - 1) + 1 = g + n
    BY <2>3
  <2>7. Fine(run[n], n)
    BY <2>4, <2>5, <2>6, OneMoreShown
  <2>8. QED
    BY <2>1, <2>7
<1>3. Fine(run[m], m)
  <2>1. m \in 0..m /\ m \notin wrong
    BY <1>2
  <2>2. QED
    BY <2>1
<1>4. QED
  BY <1>1, <1>3

-----------------------------------------------------------------------------
(* What the steps of the server do to one stream.                          *)

\* What a reader is sent: nothing once it has left or the connection is gone.
Sent(rd, cn, events, event) ==
    IF cn = "open" /\ IsReading(rd) THEN Append(events, event) ELSE events

\* The places of the two halves of one more event.
LEMMA TwoMore ==
    ASSUME NEW b \in Nat, NEW w \in Nat
    PROVE  /\ w + 1 \in 1..(w + 2) /\ w + 2 \in 1..(w + 2)
           /\ b + (w + 1) = b + w + 1 /\ b + (w + 2) = b + w + 2
OBVIOUS

\* Where the elements of an appended sequence come from.
LEMMA AppendElements ==
    ASSUME NEW S, NEW s \in Seq(S), NEW x \in S
    PROVE  /\ Append(s, x) \in Seq(S) /\ Len(Append(s, x)) = Len(s) + 1
           /\ \A i \in 1..Len(s) : Append(s, x)[i] = s[i]
           /\ Append(s, x)[Len(s) + 1] = x
OBVIOUS

\* A finding is done with, as a verdict or as an error.
LEMMA FindingDone ==
    ASSUME NEW rd, NEW n \in ServerState, NEW n2 \in ServerState, NEW cn, NEW events \in Seq(Event),
           NEW event \in Event, StreamFine(rd, n, cn, events),
           n.pc \in {"loop", "calling"}, n.idx < n.total,
           event.type # "done", event.done = n.processed + 1, event.total = n.total,
           n2.pc = "loop", n2.idx = n.idx + 1, n2.processed = n.processed + 1, n2.total = n.total
    PROVE  StreamFine(rd, n2, cn, Sent(rd, cn, events, event))
<1> DEFINE sent == Sent(rd, cn, events, event)
<1>1. /\ n.total <= MaxBatch /\ n.idx = n.processed /\ rd.pc # "none"
      /\ IsReading(rd) /\ cn = "open" => Len(events) = n.processed
  BY DEF StreamFine
<1>2. \A i \in 1..Len(events) :
        events[i].total = n.total /\ events[i].done <= n.total /\ events[i].type # "done" /\ events[i].done = i
  BY DEF StreamFine, LogShape
<1>3. n.idx \in Nat /\ n.total \in Nat /\ n.processed \in Nat
  BY DEF ServerState
<1>4. LogShape(sent, n2)
  <2>1. CASE sent = events
    <3>1. QED
      BY <1>2, <2>1 DEF LogShape
  <2>2. CASE cn = "open" /\ IsReading(rd) /\ sent = Append(events, event)
    <3>1. /\ Len(sent) = Len(events) + 1 /\ Len(events) \in Nat
          /\ \A i \in 1..Len(events) : sent[i] = events[i]
          /\ sent[Len(events) + 1] = event
      BY <2>2, AppendElements
    <3> HIDE DEF sent
    <3>2. ASSUME NEW i \in 1..Len(sent)
          PROVE  sent[i].total = n.total /\ sent[i].done <= n.total /\ sent[i].type # "done" /\ sent[i].done = i
      <4>1. CASE i \in 1..Len(events)
        BY <1>2, <3>1, <4>1
      <4>2. CASE i = Len(events) + 1
        BY <1>1, <1>3, <2>2, <3>1, <4>2
      <4>3. QED
        BY <3>1, <4>1, <4>2
    <3>3. QED
      BY <3>2 DEF LogShape
  <2>3. QED
    BY <1>1, <2>1, <2>2 DEF Sent
<1>5. IsReading(rd) /\ cn = "open" => Len(sent) = n2.processed
  BY <1>1, AppendElements DEF Sent
<1> HIDE DEF sent
<1>6. QED
  BY <1>1, <1>3, <1>4, <1>5 DEF StreamFine, sent

\* The last event, after a batch that went through or was cut short.
LEMMA StreamDone ==
    ASSUME NEW rd, NEW n \in ServerState, NEW n2 \in ServerState, NEW cn, NEW c2, NEW events \in Seq(Event),
           NEW event \in Event, StreamFine(rd, n, cn, events),
           n.pc \in {"load", "loop"},
           event.type = "done", event.done = n.processed, event.total = n.total,
           cn = "open" /\ event.stopped # "circuit_breaker" => n.processed = n.total,
           n2.pc = "gone", n2.idx = 0, n2.total = n.total
    PROVE  StreamFine(rd, n2, c2, Sent(rd, cn, events, event))
<1> DEFINE sent == Sent(rd, cn, events, event)
<1>1. /\ n.total <= MaxBatch /\ n.idx = n.processed /\ n.idx <= n.total /\ rd.pc # "none"
      /\ IsReading(rd) /\ cn = "open" => Len(events) = n.processed
  BY DEF StreamFine
<1>2. \A i \in 1..Len(events) :
        events[i].total = n.total /\ events[i].done <= n.total /\ events[i].type # "done" /\ events[i].done = i
  BY DEF StreamFine, LogShape
<1>3. n.idx \in Nat /\ n.total \in Nat /\ n.processed \in Nat
  BY DEF ServerState
<1>4. LogShape(sent, n2)
  <2>1. CASE sent = events
    BY <1>2, <2>1 DEF LogShape
  <2>2. CASE cn = "open" /\ IsReading(rd) /\ sent = Append(events, event)
    <3>1. /\ Len(sent) = Len(events) + 1 /\ Len(events) \in Nat
          /\ \A i \in 1..Len(events) : sent[i] = events[i]
          /\ sent[Len(events) + 1] = event
      BY <2>2, AppendElements
    <3> HIDE DEF sent
    <3>2. ASSUME NEW i \in 1..Len(sent)
          PROVE  /\ sent[i].total = n2.total /\ sent[i].done <= n2.total
                 /\ sent[i].type # "done" => sent[i].done = i
                 /\ sent[i].type = "done" =>
                      /\ i = Len(sent) /\ sent[i].done = i - 1
                      /\ sent[i].stopped # "circuit_breaker" => sent[i].done = n2.total
      <4>1. CASE i \in 1..Len(events)
        BY <1>2, <3>1, <4>1
      <4>2. CASE i = Len(events) + 1
        BY <1>1, <1>3, <2>2, <3>1, <4>2
      <4>3. QED
        BY <3>1, <4>1, <4>2
    <3>3. QED
      BY <3>2 DEF LogShape
  <2>3. QED
    BY <1>1, <2>1, <2>2 DEF Sent
<1> HIDE DEF sent
<1>5. QED
  BY <1>1, <1>3, <1>4 DEF StreamFine, sent

\* A stream that ends without a word.
LEMMA StreamCut ==
    ASSUME NEW rd, NEW n \in ServerState, NEW n2 \in ServerState, NEW cn, NEW c2, NEW events \in Seq(Event),
           StreamFine(rd, n, cn, events), n.pc # "none",
           n2.pc = "gone", n2.idx = 0, n2.total = n.total
    PROVE  StreamFine(rd, n2, c2, events)
<1>1. LogShape(events, n2)
  BY DEF StreamFine, LogShape
<1>2. QED
  BY <1>1 DEF StreamFine, ServerState

\* A stream that begins, loads its batch or makes a call.
LEMMA StreamMovesOn ==
    ASSUME NEW rd, NEW n \in ServerState, NEW n2 \in ServerState, NEW cn, NEW events \in Seq(Event),
           StreamFine(rd, n, cn, events),
           n2.idx = n.idx, n2.processed = n.processed,
           \/ n.pc = "request" /\ n2.pc = "load" /\ n2.total = n.total
           \/ n.pc = "load" /\ n2.pc = "loop" /\ n2.total \in 0..MaxBatch
           \/ n.pc = "loop" /\ n2.pc = "calling" /\ n2.total = n.total /\ n.idx < n.total
    PROVE  StreamFine(rd, n2, cn, events)
<1>1. MaxBatch \in Nat
  BY DialogAssumption
<1>2. n.idx \in Nat /\ n.total \in Nat /\ n.processed \in Nat
  BY DEF ServerState
<1>3. CASE n.pc \in {"request", "load"}
  <2>1. events = <<>> /\ n.idx = 0 /\ n.processed = 0 /\ n.total = 0
    BY <1>3 DEF StreamFine
  <2>2. LogShape(events, n2)
    BY <2>1 DEF LogShape
  <2>3. QED
    BY <1>1, <1>2, <1>3, <2>1, <2>2 DEF StreamFine
<1>4. CASE n.pc = "loop"
  <2>1. LogShape(events, n2)
    BY <1>4 DEF StreamFine, LogShape
  <2>2. QED
    BY <1>2, <1>4, <2>1 DEF StreamFine
<1>5. QED
  BY <1>3, <1>4

\* The connection breaks, or the hang-up arrives.
LEMMA StreamNoticed ==
    ASSUME NEW rd, NEW n, NEW cn, NEW c2, NEW events,
           StreamFine(rd, n, cn, events), c2 # "open"
    PROVE  StreamFine(rd, n, c2, events)
BY DEF StreamFine

\* What is sent is under way; the dialog shows as much as before.
LEMMA SentIsUnderWay ==
    ASSUME NEW d, NEW k, NEW rd \in ReaderState, NEW on \in Seq(Half), NEW events \in Seq(Event),
           NEW event \in Event, ReplaysFine(d, k, rd, on, events)
    PROVE  ReplaysFine(d, k, rd, on \o <<Head1(event), Tail1(event)>>, Append(events, event))
<1> DEFINE on2 == on \o <<Head1(event), Tail1(event)>>
           events2 == Append(events, event)
<1> SUFFICES ASSUME d.current = k, d.step \in {"running", "done"}
             PROVE  \E g \in Nat : Framed(rd.buf, on2, events2, g) /\ ShowsFirst(d, events2, g)
  BY DEF ReplaysFine
<1>1. PICK g \in Nat : Framed(rd.buf, on, events, g) /\ ShowsFirst(d, events, g)
  BY DEF ReplaysFine
<1>2. rd.buf \in Seq(Half) /\ Len(rd.buf) \in Nat /\ Len(on) \in Nat /\ Len(events) \in Nat
  BY DEF ReaderState
<1>3. Head1(event) \in Half /\ Tail1(event) \in Half
  BY DEF Head1, Tail1, Half
<1>4. /\ on2 \in Seq(Half) /\ Len(on2) = Len(on) + 2
      /\ on2[Len(on) + 1] = Head1(event) /\ on2[Len(on) + 2] = Tail1(event)
      /\ \A i \in 1..Len(on) : on2[i] = on[i]
  BY <1>3
<1>5. /\ Len(events2) = Len(events) + 1 /\ events2[Len(events) + 1] = event
      /\ \A i \in 1..Len(events) : events2[i] = events[i]
  BY AppendElements
<1>6. /\ g <= Len(events) /\ Len(rd.buf) <= 1
      /\ Len(rd.buf) + Len(on) = 2 * (Len(events) - g)
  BY <1>1 DEF Framed
<1> DEFINE old == rd.buf \o on
           new == rd.buf \o on2
<1>7. /\ \A i \in 1..(Len(rd.buf) + Len(on)) : new[i] = old[i]
      /\ new[Len(rd.buf) + Len(on) + 1] = Head1(event)
      /\ new[Len(rd.buf) + Len(on) + 2] = Tail1(event)
  <2> HIDE DEF on2
  <2>1. /\ \A i \in 1..Len(rd.buf) : old[i] = rd.buf[i]
        /\ \A i \in 1..Len(on) : old[Len(rd.buf) + i] = on[i]
    BY <1>2
  <2>2. /\ \A i \in 1..Len(rd.buf) : new[i] = rd.buf[i]
        /\ \A i \in 1..Len(on2) : new[Len(rd.buf) + i] = on2[i]
    BY <1>2, <1>4
  <2> HIDE DEF old, new
  <2>3. ASSUME NEW i \in 1..(Len(rd.buf) + Len(on)) PROVE new[i] = old[i]
    <3>1. CASE i <= Len(rd.buf)
      <4>1. i \in 1..Len(rd.buf)
        BY <1>2, <3>1
      <4>2. QED
        BY <2>1, <2>2, <4>1
    <3>2. CASE i > Len(rd.buf)
      <4>1. /\ i - Len(rd.buf) \in 1..Len(on) /\ i - Len(rd.buf) \in 1..Len(on2)
            /\ Len(rd.buf) + (i - Len(rd.buf)) = i
        BY <1>2, <1>4, <3>2
      <4>2. QED
        BY <1>4, <2>1, <2>2, <4>1
    <3>3. i <= Len(rd.buf) \/ i > Len(rd.buf)
      BY <1>2
    <3>4. QED
      BY Zenon, <3>1, <3>2, <3>3
  <2>4. /\ Len(on) + 1 \in 1..Len(on2) /\ Len(on) + 2 \in 1..Len(on2)
        /\ Len(rd.buf) + (Len(on) + 1) = Len(rd.buf) + Len(on) + 1
        /\ Len(rd.buf) + (Len(on) + 2) = Len(rd.buf) + Len(on) + 2
    <3>1. Len(rd.buf) \in Nat /\ Len(on) \in Nat /\ Len(on2) = Len(on) + 2
      BY <1>2, <1>4
    <3>2. /\ Len(on) + 1 \in 1..(Len(on) + 2) /\ Len(on) + 2 \in 1..(Len(on) + 2)
          /\ Len(rd.buf) + (Len(on) + 1) = Len(rd.buf) + Len(on) + 1
          /\ Len(rd.buf) + (Len(on) + 2) = Len(rd.buf) + Len(on) + 2
      BY Zenon, <3>1, TwoMore
    <3>3. QED
      BY Zenon, <3>1, <3>2
  <2>5. QED
    BY Zenon, <1>4, <2>2, <2>3, <2>4
<1> HIDE DEF old, new, on2, events2
<1> DEFINE B == Len(rd.buf)  W == Len(on)  E == Len(events)
           W2 == Len(on2)    E2 == Len(events2)
<1>a. /\ B \in Nat /\ W \in Nat /\ E \in Nat /\ g \in Nat
      /\ W2 = W + 2 /\ E2 = E + 1 /\ g <= E /\ B <= 1 /\ B + W = 2 * (E - g)
  BY <1>2, <1>4, <1>5, <1>6
<1>b. /\ g \in 0..E2 /\ B + W2 = 2 * (E2 - g)
      /\ \A i \in 1..(E2 - g) :
           \/ /\ i \in 1..(E - g) /\ g + i \in 1..E
              /\ 2 * i - 1 \in 1..(B + W) /\ 2 * i \in 1..(B + W)
           \/ g + i = E + 1 /\ 2 * i - 1 = B + W + 1 /\ 2 * i = B + W + 2
  <2> HIDE DEF B, W, E, W2, E2
  <2>1. QED
    BY <1>a
<1>8. ASSUME NEW i \in 1..(Len(events2) - g)
      PROVE  new[2 * i - 1] = Head1(events2[g + i]) /\ new[2 * i] = Tail1(events2[g + i])
  <2>1. CASE /\ i \in 1..(E - g) /\ g + i \in 1..E
             /\ 2 * i - 1 \in 1..(B + W) /\ 2 * i \in 1..(B + W)
    <3>1. old[2 * i - 1] = Head1(events[g + i]) /\ old[2 * i] = Tail1(events[g + i])
      BY <1>1, <2>1 DEF Framed, old
    <3>2. QED
      BY Zenon, <1>5, <1>7, <2>1, <3>1
  <2>2. CASE g + i = E + 1 /\ 2 * i - 1 = B + W + 1 /\ 2 * i = B + W + 2
    BY Zenon, <1>5, <1>7, <2>2
  <2>3. QED
    BY Zenon, <1>b, <2>1, <2>2
<1>9. g \in 0..Len(events2) /\ Len(rd.buf) + Len(on2) = 2 * (Len(events2) - g)
  BY Zenon, <1>b
<1>10. Framed(rd.buf, on2, events2, g)
  BY <1>6, <1>8, <1>9 DEF Framed, new
<1>11. ShowsFirst(d, events2, g)
  <2>1. \A i \in 1..g : events2[i] = events[i]
    BY <1>2, <1>5, <1>6
  <2>2. g # 0 => g \in 1..g
    OBVIOUS
  <2>3. {i \in 1..g : events2[i].type = "error"} = {i \in 1..g : events[i].type = "error"}
    BY <2>1
  <2>4. d.step = "done" => g # 0
    BY <1>1 DEF ShowsFirst
  <2>5. QED
    BY <1>1, <2>1, <2>2, <2>3, <2>4 DEF ShowsFirst
<1>12. QED
  BY <1>10, <1>11

-----------------------------------------------------------------------------
(* The steps of the server.                                                *)

Kept(rd, cn, on, event) ==
    IF cn = "open" /\ IsReading(rd) THEN on \o <<Head1(event), Tail1(event)>> ELSE on

\* A step that touches the stream, the connection and the wire of one start.
LEMMA LocalStep ==
    ASSUME NEW k \in Starts, ClientInv, UNCHANGED <<dialog, reader>>, Streams',
           \A j \in Starts : j # k => server'[j] = server[j],
           NEW c2 \in ConnState, conn' = [conn EXCEPT ![k] = c2],
           NEW on2 \in Seq(Half), wire' = [wire EXCEPT ![k] = on2],
           NEW events2 \in Seq(Event), log' = [log EXCEPT ![k] = events2],
           StreamFine(reader[k], server'[k], c2, events2), QuietFine(reader[k], on2),
           ReplaysFine(dialog, k, reader[k], on2, events2)
    PROVE  ClientInv'
<1>1. Typed'
  BY DEF ClientInv, Typed, Streams
<1>2. /\ conn'[k] = c2 /\ wire'[k] = on2 /\ log'[k] = events2
      /\ \A j \in Starts : j # k => conn'[j] = conn[j] /\ wire'[j] = wire[j] /\ log'[j] = log[j]
  BY DEF ClientInv, Typed
<1>3. ASSUME NEW j \in Starts PROVE StreamOK(j)' /\ Quiet(j)' /\ Replays(j)'
  <2>1. StreamOK(j) /\ Quiet(j) /\ Replays(j)
    BY DEF ClientInv
  <2>2. CASE j = k
    BY Zenon, <1>2, <2>2 DEF StreamOK, Quiet, Replays
  <2>3. CASE j # k
    BY Zenon, <1>2, <2>1, <2>3 DEF StreamOK, Quiet, Replays
  <2>4. QED
    BY <2>2, <2>3
<1>4. Numbers' /\ OneReader' /\ FinishedIsDone' /\ Started'
  BY Zenon DEF ClientInv, Numbers, OneReader, FinishedIsDone, Started, Reading
<1>5. QED
  BY <1>1, <1>3, <1>4 DEF ClientInv

\* A step that says nothing.
LEMMA SilentStep ==
    ASSUME NEW k \in Starts, ClientInv, UNCHANGED <<dialog, reader, wire, log>>, Streams',
           \A j \in Starts : j # k => server'[j] = server[j],
           NEW c2 \in ConnState, conn' = [conn EXCEPT ![k] = c2],
           StreamFine(reader[k], server'[k], c2, log[k])
    PROVE  ClientInv'
<1>1. /\ wire[k] \in Seq(Half) /\ wire' = [wire EXCEPT ![k] = wire[k]]
      /\ log[k] \in Seq(Event) /\ log' = [log EXCEPT ![k] = log[k]]
  BY DEF ClientInv, Typed
<1>2. QuietFine(reader[k], wire[k]) /\ ReplaysFine(dialog, k, reader[k], wire[k], log[k])
  BY DEF ClientInv, Quiet, Replays
<1>3. QED
  BY <1>1, <1>2, LocalStep

\* A step that says an event.
LEMMA SpeakingStep ==
    ASSUME NEW k \in Starts, ClientInv, UNCHANGED <<dialog, reader>>, Streams',
           \A j \in Starts : j # k => server'[j] = server[j],
           NEW c2 \in ConnState, conn' = [conn EXCEPT ![k] = c2],
           NEW event \in Event, Emit(k, event),
           StreamFine(reader[k], server'[k], c2, Sent(reader[k], conn[k], log[k], event))
    PROVE  ClientInv'
<1> DEFINE events2 == Sent(reader[k], conn[k], log[k], event)
           on2 == Kept(reader[k], conn[k], wire[k], event)
<1>1. /\ wire[k] \in Seq(Half) /\ log[k] \in Seq(Event) /\ reader[k] \in ReaderState
      /\ wire \in [Starts -> Seq(Half)] /\ log \in [Starts -> Seq(Event)]
  BY DEF ClientInv, Typed
<1>2. QuietFine(reader[k], wire[k]) /\ ReplaysFine(dialog, k, reader[k], wire[k], log[k])
  BY DEF ClientInv, Quiet, Replays
<1>3. Head1(event) \in Half /\ Tail1(event) \in Half
  BY DEF Head1, Tail1, Half
<1>4. CASE conn[k] = "open" /\ Reading(k)
  <2>1. /\ events2 = Append(log[k], event)
        /\ on2 = wire[k] \o <<Head1(event), Tail1(event)>>
    BY <1>4 DEF Reading, IsReading, Sent, Kept
  <2>2. events2 \in Seq(Event) /\ on2 \in Seq(Half)
    BY <1>1, <1>3, <2>1
  <2>3. wire' = [wire EXCEPT ![k] = on2] /\ log' = [log EXCEPT ![k] = events2]
    BY Zenon, <1>4, <2>1 DEF Emit
  <2>4. QuietFine(reader[k], on2)
    BY <1>2, <1>4 DEF QuietFine, Reading, IsReading
  <2>5. ReplaysFine(dialog, k, reader[k], on2, events2)
    BY <1>1, <1>2, <2>1, SentIsUnderWay
  <2> HIDE DEF on2
  <2>6. StreamFine(reader[k], server'[k], c2, events2)
    OBVIOUS
  <2> HIDE DEF events2
  <2>7. QED
    BY <2>2, <2>3, <2>4, <2>5, <2>6, LocalStep
<1>5. CASE ~(conn[k] = "open" /\ Reading(k))
  <2>1. events2 = log[k] /\ UNCHANGED <<log, wire>>
    BY <1>5 DEF Reading, IsReading, Sent, Emit
  <2>2. QED
    BY <2>1, SilentStep
<1>6. QED
  BY <1>4, <1>5

\* The events of the three kinds.
LEMMA EventsTyped ==
    ASSUME NEW n \in Nat, NEW total \in Nat, NEW reason \in Reasons
    PROVE  Progress(n, total) \in Event /\ Error(n, total) \in Event /\ DoneEvent(n, total, reason) \in Event
BY DEF Progress, Error, DoneEvent, Event, Reasons

\* Every step keeps the types of the streams.
LEMMA NextStreams ==
    ASSUME ClientInv, Next
    PROVE  Streams /\ Streams'
<1>1. Streams
  BY DEF ClientInv, Typed, Streams
<1>2. QED
  BY <1>1, StepCalls

\* What the invariant says of one start, as the server and the network see it.
LEMMA OneStream ==
    ASSUME NEW k \in Starts, ClientInv
    PROVE  /\ server \in [Starts -> ServerState] /\ server[k] \in ServerState
           /\ conn \in [Starts -> ConnState] /\ conn[k] \in ConnState
           /\ log[k] \in Seq(Event) /\ reader[k] \in ReaderState
           /\ StreamFine(reader[k], server[k], conn[k], log[k])
BY DEF ClientInv, Typed, StreamOK

\* A step that leaves the connection alone.
LEMMA SameConn ==
    ASSUME NEW k \in Starts, ClientInv, UNCHANGED conn
    PROVE  conn' = [conn EXCEPT ![k] = conn[k]]
BY DEF ClientInv, Typed

\* What a generator that has ended keeps.
LEMMA GoneFields ==
    ASSUME NEW n \in ServerState
    PROVE  /\ Gone(n).pc = "gone" /\ Gone(n).idx = 0 /\ Gone(n).total = n.total
           /\ Gone(n) \in ServerState
BY DEF ServerState, Gone

\* The request arrives at the server: nothing is sent yet.
LEMMA RequestKeeps ==
    ASSUME NEW k \in Starts, ClientInv, Request(k), Streams'
    PROVE  ClientInv'
<1> DEFINE n == server[k]
           n2 == server'[k]
<1>1. /\ n \in ServerState /\ n2 \in ServerState
      /\ conn[k] \in ConnState /\ log[k] \in Seq(Event)
      /\ StreamFine(reader[k], n, conn[k], log[k])
      /\ conn' = [conn EXCEPT ![k] = conn[k]]
  BY OneStream, SameConn DEF Request, Streams
<1>2. /\ n.pc = "request" /\ n2.idx = n.idx /\ n2.processed = n.processed /\ n2.total = n.total
      /\ n2.pc \in {"load", "gone"}
      /\ \A j \in Starts : j # k => server'[j] = server[j]
  BY OneStream DEF Request, ServerState
<1>3. StreamFine(reader[k], n2, conn[k], log[k])
  <2> HIDE DEF n, n2
  <2>1. CASE n2.pc = "load"
    BY <1>1, <1>2, <2>1, StreamMovesOn
  <2>2. CASE n2.pc = "gone"
    <3>1. n.idx = 0
      BY <1>1, <1>2 DEF StreamFine
    <3>2. QED
      BY <1>1, <1>2, <2>2, <3>1, StreamCut
  <2>3. QED
    BY <1>2, <2>1, <2>2
<1>4. UNCHANGED <<dialog, reader, wire, log>>
  BY DEF Request, ServerOnly
<1>5. QED
  BY <1>1, <1>2, <1>3, <1>4, SilentStep

\* The end of a stream changes the connection of its own start only.
LEMMA CloseConn ==
    ASSUME NEW k \in Starts, ClientInv, Close(k)
    PROVE  \E c2 \in ConnState : conn' = [conn EXCEPT ![k] = c2]
<1> DEFINE c2 == IF conn[k] = "open" THEN "ended" ELSE "broken"
<1>1. c2 \in ConnState /\ conn' = [conn EXCEPT ![k] = c2]
  BY OneStream DEF Close, ConnState
<1>2. QED
  BY <1>1

\* The stream ends with its last event.
LEMMA LastEventKeeps ==
    ASSUME NEW k \in Starts, ClientInv, UNCHANGED <<dialog, reader>>, Streams',
           server' = [server EXCEPT ![k] = Gone(server[k])], Close(k),
           server[k].pc \in {"load", "loop"},
           NEW event \in Event, Emit(k, event),
           event.type = "done", event.done = server[k].processed, event.total = server[k].total,
           conn[k] = "open" /\ event.stopped # "circuit_breaker" => server[k].processed = server[k].total
    PROVE  ClientInv'
<1>1. PICK c2 \in ConnState : conn' = [conn EXCEPT ![k] = c2]
  BY CloseConn
<1>2. /\ server[k] \in ServerState /\ log[k] \in Seq(Event)
      /\ StreamFine(reader[k], server[k], conn[k], log[k])
      /\ server'[k] = Gone(server[k])
      /\ \A j \in Starts : j # k => server'[j] = server[j]
  BY OneStream
<1>3. StreamFine(reader[k], server'[k], c2, Sent(reader[k], conn[k], log[k], event))
  BY <1>2, GoneFields, StreamDone
<1>4. QED
  BY <1>1, <1>2, <1>3, SpeakingStep

\* The batch is loaded, and its size announced in the first event.
LEMMA LoadKeeps ==
    ASSUME NEW k \in Starts, ClientInv, Load(k), Streams'
    PROVE  ClientInv'
<1>1. UNCHANGED <<dialog, reader>> /\ server[k].pc = "load"
  BY DEF Load, ServerOnly
<1>2. /\ server[k] \in ServerState /\ conn[k] \in ConnState /\ log[k] \in Seq(Event)
      /\ StreamFine(reader[k], server[k], conn[k], log[k])
  BY OneStream
<1>3. /\ None \in Reasons /\ 0 \in Nat
  BY DEF Reasons
<1>4. PICK n \in 0..MaxBatch :
        \/ /\ n > 0
           /\ server' = [server EXCEPT ![k].pc = "loop", ![k].total = n]
           /\ UNCHANGED <<conn, wire, log>>
        \/ /\ n = 0
           /\ server' = [server EXCEPT ![k] = Gone(@)]
           /\ Emit(k, DoneEvent(0, 0, None)) /\ Close(k)
  BY DEF Load
<1>5. CASE /\ server' = [server EXCEPT ![k].pc = "loop", ![k].total = n]
           /\ UNCHANGED <<conn, wire, log>>
  <2>1. /\ server'[k] \in ServerState
        /\ server'[k].pc = "loop" /\ server'[k].total = n
        /\ server'[k].idx = server[k].idx /\ server'[k].processed = server[k].processed
        /\ \A j \in Starts : j # k => server'[j] = server[j]
    BY <1>5, OneStream DEF ServerState, Streams
  <2>2. StreamFine(reader[k], server'[k], conn[k], log[k])
    BY <1>1, <1>2, <2>1, StreamMovesOn
  <2>3. conn' = [conn EXCEPT ![k] = conn[k]]
    BY <1>5, SameConn
  <2>4. QED
    BY <1>1, <1>2, <1>5, <2>1, <2>2, <2>3, SilentStep
<1>6. CASE /\ server' = [server EXCEPT ![k] = Gone(server[k])]
           /\ Emit(k, DoneEvent(0, 0, None)) /\ Close(k)
  <2>1. server[k].processed = 0 /\ server[k].total = 0
    BY <1>1, <1>2 DEF StreamFine
  <2>2. DoneEvent(0, 0, None) \in Event
    BY <1>3, EventsTyped
  <2>3. /\ DoneEvent(0, 0, None).type = "done" /\ DoneEvent(0, 0, None).done = 0
        /\ DoneEvent(0, 0, None).total = 0
    BY DEF DoneEvent
  <2>4. QED
    BY <1>1, <1>6, <2>1, <2>2, <2>3, LastEventKeeps
<1>7. QED
  BY <1>4, <1>5, <1>6

\* A finding is done with.
LEMMA FindingDoneKeeps ==
    ASSUME NEW k \in Starts, ClientInv, UNCHANGED <<dialog, reader, conn>>, Streams',
           server[k].pc \in {"loop", "calling"}, server[k].idx < server[k].total,
           \A j \in Starts : j # k => server'[j] = server[j],
           server'[k].pc = "loop", server'[k].idx = server[k].idx + 1,
           server'[k].processed = server[k].processed + 1, server'[k].total = server[k].total,
           NEW event \in Event, Emit(k, event), event.type # "done",
           event.done = server[k].processed + 1, event.total = server[k].total
    PROVE  ClientInv'
<1>1. /\ server[k] \in ServerState /\ server'[k] \in ServerState
      /\ conn[k] \in ConnState /\ log[k] \in Seq(Event)
      /\ StreamFine(reader[k], server[k], conn[k], log[k])
      /\ conn' = [conn EXCEPT ![k] = conn[k]]
  BY OneStream, SameConn DEF Streams
<1>2. StreamFine(reader[k], server'[k], conn[k], Sent(reader[k], conn[k], log[k], event))
  BY <1>1, FindingDone
<1>3. QED
  BY <1>1, <1>2, SpeakingStep

\* A failed finding is counted and announced; the breaker may end the stream.
LEMMA FailKeeps ==
    ASSUME NEW k \in Starts, ClientInv, UNCHANGED <<dialog, reader, conn>>, Streams',
           server[k].pc \in {"loop", "calling"}, server[k].idx < server[k].total, Fail(k)
    PROVE  ClientInv'
<1> DEFINE event == Error(server[k].processed + 1, server[k].total)
<1>1. /\ server' = [server EXCEPT ![k].pc = "loop", ![k].idx = @ + 1,
                    ![k].processed = server[k].processed + 1, ![k].consecutive = @ + 1]
      /\ Emit(k, event)
  BY DEF Fail, ProcessedAfterError
<1>2. /\ \A j \in Starts : j # k => server'[j] = server[j]
      /\ server'[k].pc = "loop" /\ server'[k].idx = server[k].idx + 1
      /\ server'[k].processed = server[k].processed + 1 /\ server'[k].total = server[k].total
  BY <1>1, OneStream DEF ServerState
<1>3. /\ server[k].processed + 1 \in Nat /\ server[k].total \in Nat /\ None \in Reasons
  BY OneStream DEF ServerState, Reasons
<1>4. event \in Event
  BY <1>3, EventsTyped
<1>5. event.type # "done" /\ event.done = server[k].processed + 1 /\ event.total = server[k].total
  BY DEF Error
<1> HIDE DEF event
<1>6. QED
  BY <1>1, <1>2, <1>4, <1>5, FindingDoneKeeps

\* A finding is passed to the provider, or fails at the gate.
LEMMA LoopCallKeeps ==
    ASSUME NEW k \in Starts, ClientInv, LoopCall(k), Streams'
    PROVE  ClientInv'
<1>1. /\ UNCHANGED <<dialog, reader, conn>> /\ server[k].pc = "loop"
      /\ server[k].idx < server[k].total
  BY DEF LoopCall, ServerOnly, Left
<1>2. CASE /\ server' = [server EXCEPT ![k].pc = "calling"]
           /\ UNCHANGED <<wire, log>>
  <2>1. /\ server[k] \in ServerState /\ server'[k] \in ServerState
        /\ conn[k] \in ConnState /\ log[k] \in Seq(Event)
        /\ StreamFine(reader[k], server[k], conn[k], log[k])
        /\ conn' = [conn EXCEPT ![k] = conn[k]]
    BY <1>1, OneStream, SameConn DEF Streams
  <2>2. /\ server'[k].pc = "calling" /\ server'[k].idx = server[k].idx
        /\ server'[k].processed = server[k].processed /\ server'[k].total = server[k].total
        /\ \A j \in Starts : j # k => server'[j] = server[j]
    BY <1>2, OneStream DEF ServerState
  <2>3. StreamFine(reader[k], server'[k], conn[k], log[k])
    BY <1>1, <2>1, <2>2, StreamMovesOn
  <2>4. QED
    BY <1>1, <1>2, <2>1, <2>2, <2>3, SilentStep
<1>3. CASE Fail(k)
  BY <1>1, <1>3, FailKeeps
<1>4. QED
  BY <1>2, <1>3 DEF LoopCall

\* An answer is counted, and announced as progress.
LEMMA CallAnsweredKeeps ==
    ASSUME NEW k \in Starts, ClientInv, CallAnswered(k), Streams'
    PROVE  ClientInv'
<1> DEFINE event == Progress(server[k].processed + 1, server[k].total)
<1>1. /\ UNCHANGED <<dialog, reader, conn>> /\ server[k].pc = "calling"
      /\ server' = [server EXCEPT ![k].pc = "loop", ![k].idx = @ + 1,
                    ![k].processed = @ + 1, ![k].consecutive = 0]
      /\ Emit(k, event)
  BY DEF CallAnswered, ServerOnly
<1>2. /\ \A j \in Starts : j # k => server'[j] = server[j]
      /\ server'[k].pc = "loop" /\ server'[k].idx = server[k].idx + 1
      /\ server'[k].processed = server[k].processed + 1 /\ server'[k].total = server[k].total
  BY <1>1, OneStream DEF ServerState
<1>3. /\ server[k].processed + 1 \in Nat /\ server[k].total \in Nat /\ None \in Reasons
      /\ server[k].idx < server[k].total
  BY <1>1, OneStream DEF ServerState, Reasons, StreamFine
<1>4. event \in Event
  BY <1>3, EventsTyped
<1>5. event.type # "done" /\ event.done = server[k].processed + 1 /\ event.total = server[k].total
  BY DEF Progress
<1> HIDE DEF event
<1>6. QED
  BY <1>1, <1>2, <1>3, <1>4, <1>5, FindingDoneKeeps

\* A failed call is a failed finding.
LEMMA CallFailedKeeps ==
    ASSUME NEW k \in Starts, ClientInv, CallFailed(k), Streams'
    PROVE  ClientInv'
<1>1. /\ UNCHANGED <<dialog, reader, conn>> /\ server[k].pc = "calling" /\ Fail(k)
  BY DEF CallFailed, ServerOnly
<1>2. server[k].idx < server[k].total
  BY <1>1, OneStream DEF StreamFine
<1>3. QED
  BY <1>1, <1>2, FailKeeps

\* The batch is through: the last event carries the counters.
LEMMA FinishKeeps ==
    ASSUME NEW k \in Starts, ClientInv, Finish(k), Streams'
    PROVE  ClientInv'
<1> DEFINE n == server[k]
           event == DoneEvent(n.processed, n.total, StopReason(k))
<1>1. /\ UNCHANGED <<dialog, reader>> /\ n.pc = "loop" /\ Close(k) /\ Emit(k, event)
      /\ server' = [server EXCEPT ![k] = Gone(server[k])]
  BY DEF Finish, ServerOnly
<1>2. n \in ServerState /\ StreamFine(reader[k], n, conn[k], log[k])
  BY OneStream
<1>3. /\ StopReason(k) \in Reasons
      /\ conn[k] = "open" /\ StopReason(k) # "circuit_breaker" => ~Left(n)
  <2>1. StopReason(k) \in Reasons /\ (StopReason(k) # "circuit_breaker" => ~Tripped(n))
    BY Zenon DEF StopReason, Reasons
  <2>2. conn[k] = "open" => Tripped(n) \/ ~Left(n)
    BY DEF Finish, Disconnected
  <2>3. QED
    BY Zenon, <2>1, <2>2
<1>4. n.idx = n.processed /\ n.idx <= n.total /\ n.processed \in Nat /\ n.total \in Nat
  BY <1>1, <1>2 DEF StreamFine, ServerState
<1>5. event \in Event
  BY <1>3, <1>4, EventsTyped
<1>6. conn[k] = "open" /\ StopReason(k) # "circuit_breaker" => n.processed = n.total
  BY <1>3, <1>4 DEF Left
<1>7. event.type = "done" /\ event.done = n.processed /\ event.total = n.total /\ event.stopped = StopReason(k)
  BY DEF DoneEvent
<1> HIDE DEF event
<1>8. QED
  BY <1>1, <1>5, <1>6, <1>7, LastEventKeeps

\* The stream ends without its last event.
LEMMA CutKeeps ==
    ASSUME NEW k \in Starts, ClientInv, UNCHANGED <<dialog, reader, wire, log>>, Streams',
           server[k].pc \in {"request", "load", "loop", "calling"},
           server' = [server EXCEPT ![k] = Gone(server[k])],
           NEW c2 \in ConnState, conn' = [conn EXCEPT ![k] = c2]
    PROVE  ClientInv'
<1>1. /\ server[k] \in ServerState /\ log[k] \in Seq(Event)
      /\ StreamFine(reader[k], server[k], conn[k], log[k])
      /\ server'[k] = Gone(server[k])
      /\ \A j \in Starts : j # k => server'[j] = server[j]
  BY OneStream
<1>2. StreamFine(reader[k], server'[k], c2, log[k])
  BY <1>1, GoneFields, StreamCut
<1>3. QED
  BY <1>1, <1>2, SilentStep

\* The generator raises; no event is sent any more.
LEMMA BreakOffKeeps ==
    ASSUME NEW k \in Starts, ClientInv, BreakOff(k), Streams'
    PROVE  ClientInv'
<1>1. /\ UNCHANGED <<dialog, reader, wire, log>>
      /\ server[k].pc \in {"request", "load", "loop", "calling"}
      /\ server' = [server EXCEPT ![k] = Gone(server[k])]
  BY DEF BreakOff, Running, ServerOnly
<1>2. PICK how \in {"broken", "ended"} : conn' = [conn EXCEPT ![k] = Broken(k, how)]
  BY DEF BreakOff
<1>3. Broken(k, how) \in ConnState
  BY OneStream DEF Broken, ConnState
<1>4. QED
  BY <1>1, <1>2, <1>3, CutKeeps

\* The generator is closed at an await; no event is sent any more.
LEMMA CancelledKeeps ==
    ASSUME NEW k \in Starts, ClientInv, Cancelled(k), Streams'
    PROVE  ClientInv'
<1>1. /\ UNCHANGED <<dialog, reader, wire, log, conn>>
      /\ server[k].pc \in {"request", "load", "loop", "calling"}
      /\ server' = [server EXCEPT ![k] = Gone(server[k])]
  BY DEF Cancelled, Running, ServerOnly
<1>2. QED
  BY <1>1, OneStream, SameConn, CutKeeps

\* A connection that is no longer open: nothing the reader is sent changes.
LEMMA ConnBreaks ==
    ASSUME NEW k \in Starts, ClientInv, Streams', UNCHANGED <<dialog, reader, wire, log, server>>,
           NEW c2 \in ConnState, c2 # "open", conn' = [conn EXCEPT ![k] = c2]
    PROVE  ClientInv'
<1>1. StreamFine(reader[k], server'[k], c2, log[k])
  BY OneStream, StreamNoticed
<1>2. QED
  BY <1>1, SilentStep

\* The connection breaks on the way.
LEMMA DropKeeps ==
    ASSUME NEW k \in Starts, ClientInv, Drop(k), Streams'
    PROVE  ClientInv'
<1>1. UNCHANGED <<dialog, reader, wire, log, server>> /\ conn' = [conn EXCEPT ![k] = "dropped"]
  BY DEF Drop, ServerOnly
<1>2. "dropped" \in ConnState
  BY DEF ConnState
<1>3. QED
  BY <1>1, <1>2, ConnBreaks

\* The hang-up reaches the server.
LEMMA NoticeKeeps ==
    ASSUME NEW k \in Starts, ClientInv, Notice(k), Streams'
    PROVE  ClientInv'
<1>1. UNCHANGED <<dialog, reader, wire, log, server>> /\ conn' = [conn EXCEPT ![k] = "broken"]
  BY DEF Notice, ServerOnly
<1>2. "broken" \in ConnState
  BY DEF ConnState
<1>3. QED
  BY <1>1, <1>2, ConnBreaks

-----------------------------------------------------------------------------
(* The steps of the client.                                                *)

\* What the invariant says of one start, as the browser sees it.
LEMMA OneScreen ==
    ASSUME NEW k \in Starts, ClientInv
    PROVE  /\ dialog \in DialogState
           /\ reader \in [Starts -> ReaderState] /\ reader[k] \in ReaderState
           /\ wire \in [Starts -> Seq(Half)] /\ wire[k] \in Seq(Half)
           /\ QuietFine(reader[k], wire[k])
           /\ ReplaysFine(dialog, k, reader[k], wire[k], log[k])
           /\ Reading(k) <=> IsReading(reader[k])
BY DEF ClientInv, Typed, Quiet, Replays, Reading, IsReading

\* A read loop ends.  The dialog goes back to its form, or it has been given
\* all there was.
LEMMA LoopEnds ==
    ASSUME NEW k \in Starts, ClientInv, UNCHANGED <<server, log>>,
           NEW pc \in {"over", "orphan"}, Over(k, pc), reader[k].pc # "none",
           NEW c2 \in ConnState, conn' = [conn EXCEPT ![k] = c2],
           \A j \in Starts : Reading(j) => j = k,
           \/ /\ dialog' \in DialogState /\ dialog'.step = "config" /\ Numbers'
              /\ dialog'.current \in {0, dialog.current}
           \/ dialog' = dialog /\ dialog.step = "done" /\ reader[k].buf = <<>> /\ wire[k] = <<>>
    PROVE  ClientInv'
<1> DEFINE over == [pc |-> pc, buf |-> <<>>, finished |-> FALSE]
<1>1. /\ reader' = [reader EXCEPT ![k] = over] /\ wire' = [wire EXCEPT ![k] = <<>>]
      /\ over \in ReaderState /\ <<>> \in Seq(Half)
  BY DEF Over, ReaderState
<1>2. Typed'
  BY <1>1 DEF ClientInv, Typed
<1>3. /\ reader'[k] = over /\ conn'[k] = c2 /\ wire'[k] = <<>>
      /\ \A j \in Starts : j # k => reader'[j] = reader[j] /\ conn'[j] = conn[j] /\ wire'[j] = wire[j]
  BY <1>1 DEF ClientInv, Typed
<1>4. ~IsReading(over) /\ over.pc # "none" /\ over.buf = <<>> /\ over.pc = pc
  BY DEF IsReading
<1> HIDE DEF over
<1>5. ASSUME NEW j \in Starts PROVE StreamOK(j)' /\ Quiet(j)' /\ Replays(j)'
  <2>1. StreamOK(j) /\ Quiet(j) /\ Replays(j)
    BY DEF ClientInv
  <2>2. CASE j = k
    <3>1. StreamOK(j)'
      <4>1. StreamFine(over, server[k], c2, log[k])
        BY <1>4, <2>1, <2>2 DEF StreamOK, StreamFine
      <4>2. QED
        BY Zenon, <1>3, <2>2, <4>1 DEF StreamOK
    <3>2. Quiet(j)'
      BY <1>3, <1>4, <2>2 DEF Quiet, QuietFine
    <3>3. Replays(j)'
      <4>1. CASE dialog'.step = "config"
        BY <4>1 DEF Replays, ReplaysFine
      <4>2. CASE dialog' = dialog /\ reader[k].buf = <<>> /\ wire[k] = <<>>
        <5>1. over.buf = reader[k].buf /\ wire'[k] = wire[k]
          BY <1>3, <1>4, <4>2
        <5>2. ReplaysFine(dialog, k, over, wire[k], log[k])
          BY Zenon, <2>1, <2>2, <5>1 DEF Replays, ReplaysFine
        <5>3. QED
          BY Zenon, <1>3, <2>2, <4>2, <5>1, <5>2 DEF Replays
      <4>3. QED
        BY <4>1, <4>2
    <3>4. QED
      BY <3>1, <3>2, <3>3
  <2>3. CASE j # k
    <3>1. StreamOK(j)' /\ Quiet(j)'
      BY Zenon, <1>3, <2>1, <2>3 DEF StreamOK, Quiet
    <3>2. Replays(j)'
      <4>1. CASE dialog'.step = "config"
        BY <4>1 DEF Replays, ReplaysFine
      <4>2. CASE dialog' = dialog
        BY Zenon, <1>3, <2>1, <2>3, <4>2 DEF Replays
      <4>3. QED
        BY <4>1, <4>2
    <3>3. QED
      BY <3>1, <3>2
  <2>4. QED
    BY <2>2, <2>3
<1>6. \A j \in Starts : ~Reading(j)'
  <2>1. ASSUME NEW j \in Starts PROVE ~Reading(j)'
    <3>1. CASE j = k
      BY <1>3, <1>4, <3>1 DEF Reading, IsReading
    <3>2. CASE j # k
      BY <1>3, <3>2 DEF Reading
    <3>3. QED
      BY <3>1, <3>2
  <2>2. QED
    BY <2>1
<1>7. dialog'.step # "running" /\ Numbers'
  BY DEF ClientInv, Numbers
<1>8. OneReader' /\ FinishedIsDone'
  BY <1>6, <1>7 DEF OneReader, FinishedIsDone
<1>9. Started'
  <2>1. dialog'.current \in {0, dialog.current}
    OBVIOUS
  <2>2. Started /\ dialog \in DialogState
    BY OneScreen DEF ClientInv
  <2>3. dialog'.step # "config" => dialog'.current # 0
    BY <2>2 DEF Started
  <2>4. ASSUME dialog'.current # 0 PROVE reader'[dialog'.current].pc # "none"
    <3>1. CASE dialog'.current = k
      BY <1>3, <1>4, <3>1
    <3>2. CASE dialog'.current # k
      BY <1>3, <2>1, <2>2, <2>4, <3>2 DEF Started, DialogState
    <3>3. QED
      BY <3>1, <3>2
  <2>5. QED
    BY <2>3, <2>4 DEF Started
<1>10. QED
  BY <1>2, <1>5, <1>7, <1>8, <1>9 DEF ClientInv

\* An error puts the form back and keeps what was counted.
LEMMA FailedState ==
    ASSUME NEW d \in DialogState
    PROVE  /\ Failed(d) \in DialogState /\ Failed(d).step = "config" /\ Failed(d).current = d.current
           /\ Failed(d).errors = d.errors /\ Failed(d).done = d.done /\ Failed(d).total = d.total
BY DEF Failed, DialogState

\* Whoever reads is the start on the screen, and the only one that reads.
LEMMA OnlyCurrent ==
    ASSUME NEW k \in Starts, ClientInv, Reading(k)
    PROVE  /\ dialog.current = k /\ dialog.step \in {"running", "done"}
           /\ \A j \in Starts : Reading(j) => j = k
BY DEF ClientInv, OneReader

\* The loop of startAnalysis ends with an error.
LEMMA LoopFails ==
    ASSUME NEW k \in Starts, ClientInv, Reading(k), LeaveLoop(k, Failed(dialog))
    PROVE  ClientInv'
<1>1. /\ Over(k, "over") /\ dialog' = Failed(dialog) /\ UNCHANGED <<server, conn, log>>
  BY DEF LeaveLoop
<1>2. /\ dialog' \in DialogState /\ dialog'.step = "config" /\ dialog'.current = dialog.current
      /\ dialog'.errors = dialog.errors /\ dialog'.done = dialog.done /\ dialog'.total = dialog.total
  BY <1>1, OneScreen, FailedState
<1>3. Numbers'
  BY <1>2 DEF ClientInv, Numbers
<1>4. reader[k].pc # "none"
  BY DEF Reading
<1>5. conn[k] \in ConnState /\ conn' = [conn EXCEPT ![k] = conn[k]]
  BY <1>1, OneStream, SameConn
<1>6. \A j \in Starts : Reading(j) => j = k
  BY OnlyCurrent
<1>7. QED
  BY <1>1, <1>2, <1>3, <1>4, <1>5, <1>6, LoopEnds

\* A start that is refused puts the form back.
LEMMA FetchRefusedKeeps ==
    ASSUME NEW k \in Starts, ClientInv, FetchRefused(k)
    PROVE  ClientInv'
BY LoopFails DEF FetchRefused, Reading

\* A broken connection ends the read loop and puts the form back.
LEMMA ReadFailsKeeps ==
    ASSUME NEW k \in Starts, ClientInv, ReadFails(k)
    PROVE  ClientInv'
BY LoopFails DEF ReadFails

\* Half an event cannot be all that is under way.
LEMMA NothingUnderWay ==
    ASSUME NEW buf \in Seq(Half), NEW events \in Seq(Event), NEW g \in Nat,
           Framed(buf, <<>>, events, g)
    PROVE  buf = <<>> /\ g = Len(events)
<1>1. Len(buf) \in Nat /\ Len(events) \in Nat /\ Len(<<>>) = 0
  OBVIOUS
<1>2. Len(buf) <= 1 /\ g <= Len(events) /\ Len(buf) + Len(<<>>) = 2 * (Len(events) - g)
  BY DEF Framed
<1>3. Len(buf) = 0 /\ g = Len(events)
  BY <1>1, <1>2
<1>4. QED
  BY <1>3

\* The end of the stream ends the read loop.
LEMMA ReadEndKeeps ==
    ASSUME NEW k \in Starts, ClientInv, ReadEnd(k)
    PROVE  ClientInv'
<1>1. /\ reader[k].pc = "reading" /\ wire[k] = <<>>
      /\ LeaveLoop(k, ClosedShown(dialog, reader[k].finished))
  BY DEF ReadEnd
<1>2. Reading(k)
  BY <1>1 DEF Reading
<1>3. CASE ~reader[k].finished
  <2>1. LeaveLoop(k, Failed(dialog))
    BY Zenon, <1>1, <1>3 DEF ClosedShown
  <2>2. QED
    BY <1>2, <2>1, LoopFails
<1>4. CASE reader[k].finished
  <2>1. LeaveLoop(k, dialog)
    BY Zenon, <1>1, <1>4 DEF ClosedShown
  <2>2. Over(k, "over") /\ dialog' = dialog /\ UNCHANGED <<server, conn, log>>
    BY <2>1 DEF LeaveLoop
  <2>3. dialog.step = "done" /\ dialog.current = k /\ \A j \in Starts : Reading(j) => j = k
    BY <1>2, <1>4, OnlyCurrent DEF ClientInv, FinishedIsDone
  <2>4. PICK g \in Nat : Framed(reader[k].buf, wire[k], log[k], g)
    BY <2>3, OneScreen DEF ReplaysFine
  <2>5. reader[k].buf = <<>>
    BY <1>1, <2>4, OneScreen, OneStream, NothingUnderWay DEF ReaderState
  <2>6. conn[k] \in ConnState /\ conn' = [conn EXCEPT ![k] = conn[k]]
    BY <2>2, OneStream, SameConn
  <2>7. reader[k].pc # "none"
    BY <1>1
  <2>8. QED
    BY <1>1, <2>2, <2>3, <2>5, <2>6, <2>7, LoopEnds
<1>5. QED
  BY <1>3, <1>4

\* A dialog that has just been opened shows nothing.
LEMMA FreshState ==
    /\ Fresh \in DialogState /\ Fresh.step = "config" /\ Fresh.current = 0
    /\ Fresh.errors = 0 /\ Fresh.done = 0 /\ Fresh.total = 0 /\ Fresh.listed = None
BY DEF Fresh, DialogState, Reasons

\* The page is left: the dialog is fresh, and the loop of the old one reads on to no effect.
LEMMA LeaveKeeps ==
    ASSUME ClientInv, Leave
    PROVE  ClientInv'
<1> DEFINE k == dialog.current
<1>1. /\ k # 0 /\ dialog' = Fresh /\ Over(k, "orphan") /\ UNCHANGED <<server, conn, log>>
  BY DEF Leave
<1>2. k \in Starts
  BY <1>1 DEF ClientInv, Typed, DialogState
<1>3. reader[k].pc # "none" /\ \A j \in Starts : Reading(j) => j = k
  BY <1>1 DEF ClientInv, Started, OneReader
<1>4. conn[k] \in ConnState /\ conn' = [conn EXCEPT ![k] = conn[k]]
  BY <1>1, <1>2, OneStream, SameConn
<1>5. dialog' \in DialogState /\ dialog'.step = "config" /\ dialog'.current = 0 /\ Numbers'
  BY <1>1, FreshState, DialogAssumption DEF Numbers
<1> HIDE DEF k
<1>6. QED
  BY <1>1, <1>2, <1>3, <1>4, <1>5, LoopEnds

\* An abort ends the read loop of the start on the screen.
LEMMA CancelKeeps ==
    ASSUME ClientInv, Cancel
    PROVE  ClientInv'
<1> DEFINE k == dialog.current
<1>1. /\ dialog.step = "running" /\ Aborted(k) /\ dialog' = [dialog EXCEPT !.step = "config"]
      /\ UNCHANGED <<server, log>>
  BY DEF Cancel
<1>2. Reading(k) /\ \A j \in Starts : Reading(j) => j = k
  BY <1>1 DEF ClientInv, OneReader
<1>3. dialog \in DialogState
  BY DEF ClientInv, Typed
<1>4. k \in Starts
  <2>1. k # 0
    BY <1>1 DEF ClientInv, Started
  <2>2. QED
    BY <1>3, <2>1 DEF DialogState
<1> DEFINE c2 == IF conn[k] = "open" THEN "cut" ELSE conn[k]
<1>5. /\ Over(k, "over") /\ conn' = [conn EXCEPT ![k] = c2] /\ c2 \in ConnState
  BY <1>1, <1>2, <1>4, OneStream DEF Aborted, ConnState
<1>6. /\ dialog' \in DialogState /\ dialog'.step = "config" /\ dialog'.current = dialog.current
      /\ dialog'.errors = dialog.errors /\ dialog'.done = dialog.done /\ dialog'.total = dialog.total
  BY <1>1, <1>3 DEF DialogState
<1>7. Numbers'
  BY <1>6 DEF ClientInv, Numbers
<1>8. reader[k].pc # "none"
  BY <1>2 DEF Reading
<1> HIDE DEF k, c2
<1>9. QED
  BY <1>1, <1>2, <1>4, <1>5, <1>6, <1>7, <1>8, LoopEnds

\* Steps that leave the streams and the loops alone.
LEMMA FormSteps ==
    ASSUME ClientInv, UNCHANGED <<reader, server, conn, wire, log>>, dialog' \in DialogState,
           dialog'.step = dialog.step, dialog'.current = dialog.current,
           dialog'.done = dialog.done, dialog'.total = dialog.total,
           dialog'.errors = dialog.errors, dialog'.stopped = dialog.stopped
    PROVE  ClientInv'
<1>1. Typed'
  BY DEF ClientInv, Typed
<1>2. ASSUME NEW k \in Starts PROVE StreamOK(k)' /\ Quiet(k)' /\ Replays(k)'
  <2>1. StreamOK(k) /\ Quiet(k) /\ Replays(k)
    BY DEF ClientInv
  <2>2. StreamOK(k)' /\ Quiet(k)'
    BY Zenon, <2>1 DEF StreamOK, Quiet
  <2>3. ASSUME NEW events, NEW g, ShowsFirst(dialog, events, g) PROVE ShowsFirst(dialog', events, g)
    BY Zenon, <2>3 DEF ShowsFirst
  <2>4. Replays(k)'
    BY Zenon, <2>1, <2>3 DEF Replays, ReplaysFine
  <2>5. QED
    BY <2>2, <2>4
<1>3. Numbers' /\ OneReader' /\ FinishedIsDone' /\ Started'
  BY Zenon DEF ClientInv, Numbers, OneReader, FinishedIsDone, Started, Reading
<1>4. QED
  BY <1>1, <1>2, <1>3 DEF ClientInv

\* The list of providers is not part of the stream.
LEMMA ListProvidersKeeps ==
    ASSUME ClientInv, ListProviders
    PROVE  ClientInv'
<1>1. /\ dialog' = [dialog EXCEPT !.listed = VisibleProviders]
      /\ UNCHANGED <<reader, server, conn, wire, log>>
  BY DEF ListProviders
<1>2. dialog \in DialogState
  BY DEF ClientInv, Typed
<1>3. VisibleProviders \subseteq Providers
  BY DEF VisibleProviders
<1>4. /\ dialog' \in DialogState /\ dialog'.step = dialog.step /\ dialog'.current = dialog.current
      /\ dialog'.done = dialog.done /\ dialog'.total = dialog.total
      /\ dialog'.errors = dialog.errors /\ dialog'.stopped = dialog.stopped
  BY <1>1, <1>2, <1>3 DEF DialogState
<1>5. QED
  BY <1>1, <1>4, FormSteps

\* Steps of the network and of the provider file change nothing the invariant speaks of.
LEMMA IdleKeeps ==
    ASSUME ClientInv, UNCHANGED <<dialog, reader, server, conn, wire, log>>
    PROVE  ClientInv'
<1>1. dialog' \in DialogState
  BY DEF ClientInv, Typed
<1>2. QED
  BY <1>1, FormSteps

\* A step of the loop of one start that reads.
LEMMA ReaderStep ==
    ASSUME NEW k \in Starts, ClientInv, UNCHANGED <<server, conn, log>>, Reading(k),
           NEW rd2 \in ReaderState, reader' = [reader EXCEPT ![k] = rd2], IsReading(rd2),
           NEW on2 \in Seq(Half), wire' = [wire EXCEPT ![k] = on2],
           OnScreen(dialog'), dialog'.current = k, Numbers',
           QuietFine(rd2, on2), ReplaysFine(dialog', k, rd2, on2, log[k]),
           rd2.finished <=> dialog'.step = "done"
    PROVE  ClientInv'
<1>1. dialog' \in DialogState /\ dialog'.step \in {"running", "done"}
  BY DEF OnScreen
<1>2. Typed'
  BY <1>1 DEF ClientInv, Typed
<1>3. /\ reader'[k] = rd2 /\ wire'[k] = on2
      /\ \A j \in Starts : j # k => reader'[j] = reader[j] /\ wire'[j] = wire[j]
  BY DEF ClientInv, Typed
<1>4. \A j \in Starts : Reading(j) => j = k
  BY OnlyCurrent
<1>5. ASSUME NEW j \in Starts PROVE StreamOK(j)' /\ Quiet(j)' /\ Replays(j)'
  <2>1. StreamOK(j) /\ Quiet(j) /\ Replays(j)
    BY DEF ClientInv
  <2>2. CASE j = k
    <3>1. IsReading(reader[k]) /\ reader[k].pc # "none" /\ rd2.pc # "none"
      BY DEF Reading, IsReading
    <3>2. StreamFine(rd2, server[k], conn[k], log[k])
      BY <2>1, <2>2, <3>1 DEF StreamOK, StreamFine
    <3>3. StreamOK(j)'
      BY Zenon, <1>3, <2>2, <3>2 DEF StreamOK
    <3>4. Quiet(j)' /\ Replays(j)'
      BY Zenon, <1>3, <2>2 DEF Quiet, Replays
    <3>5. QED
      BY <3>3, <3>4
  <2>3. CASE j # k
    <3>1. StreamOK(j)' /\ Quiet(j)'
      BY Zenon, <1>3, <2>1, <2>3 DEF StreamOK, Quiet
    <3>2. Replays(j)'
      BY <2>3 DEF Replays, ReplaysFine
    <3>3. QED
      BY <3>1, <3>2
  <2>4. QED
    BY <2>2, <2>3
<1>6. ASSUME NEW j \in Starts, Reading(j)' PROVE j = k
  <2>1. CASE j # k
    <3>1. Reading(j)
      BY <1>3, <1>6, <2>1 DEF Reading
    <3>2. QED
      BY <1>4, <2>1, <3>1
  <2>2. QED
    BY <2>1
<1>7. Reading(k)'
  BY <1>3 DEF Reading, IsReading
<1>8. OneReader'
  BY <1>1, <1>6, <1>7 DEF OneReader
<1>9. FinishedIsDone'
  BY <1>3, <1>6 DEF FinishedIsDone
<1>10. Started'
  <2>1. k # 0 /\ rd2.pc # "none"
    BY DEF Starts, IsReading
  <2>2. QED
    BY <1>1, <1>3, <2>1 DEF Started
<1>11. QED
  BY <1>2, <1>5, <1>8, <1>9, <1>10 DEF ClientInv

\* The answer begins, and the read loop with it.
LEMMA FetchAnsweredKeeps ==
    ASSUME NEW k \in Starts, ClientInv, FetchAnswered(k)
    PROVE  ClientInv'
<1> DEFINE rd2 == [reader[k] EXCEPT !.pc = "reading"]
<1>1. /\ UNCHANGED <<server, conn, log>> /\ UNCHANGED dialog /\ UNCHANGED wire
      /\ reader[k].pc = "fetching"
      /\ reader' = [reader EXCEPT ![k].pc = "reading"]
  BY DEF FetchAnswered
<1>2. Reading(k) /\ IsReading(reader[k])
  BY <1>1 DEF Reading, IsReading
<1>3. /\ dialog.current = k /\ dialog.step \in {"running", "done"} /\ dialog \in DialogState
      /\ reader[k] \in ReaderState /\ wire[k] \in Seq(Half) /\ QuietFine(reader[k], wire[k])
      /\ ReplaysFine(dialog, k, reader[k], wire[k], log[k])
      /\ reader \in [Starts -> ReaderState] /\ wire \in [Starts -> Seq(Half)]
  BY <1>2, OnlyCurrent, OneScreen
<1>4. /\ rd2 \in ReaderState /\ rd2.pc = "reading" /\ rd2.buf = reader[k].buf
      /\ rd2.finished = reader[k].finished /\ reader' = [reader EXCEPT ![k] = rd2]
  BY <1>1, <1>3 DEF ReaderState
<1> HIDE DEF rd2
<1>5. IsReading(rd2) /\ QuietFine(rd2, wire[k]) /\ ReplaysFine(dialog, k, rd2, wire[k], log[k])
  BY <1>3, <1>4 DEF IsReading, QuietFine, ReplaysFine
<1>6. wire' = [wire EXCEPT ![k] = wire[k]]
  BY <1>1, <1>3
<1>7. OnScreen(dialog') /\ dialog'.current = k /\ ReplaysFine(dialog', k, rd2, wire[k], log[k])
  BY <1>1, <1>3, <1>5 DEF OnScreen
<1>8. Numbers' /\ (rd2.finished <=> dialog'.step = "done")
  BY <1>1, <1>2, <1>4 DEF ClientInv, Numbers, FinishedIsDone
<1>9. QED
  BY <1>1, <1>2, <1>3, <1>4, <1>5, <1>6, <1>7, <1>8, ReaderStep

\* There are n numbers up to n.
LEMMA CountTo ==
    ASSUME NEW n \in Nat
    PROVE  IsFiniteSet(1..n) /\ Cardinality(1..n) = n
BY FS_Interval

\* What is shown of a stream stays within its batch.
LEMMA ShownNumbers ==
    ASSUME NEW d, NEW n \in ServerState, NEW events \in Seq(Event), LogShape(events, n),
           n.total <= MaxBatch, NEW g \in Nat, g <= Len(events), ShowsFirst(d, events, g)
    PROVE  d.errors <= d.done /\ d.done <= d.total /\ d.total <= MaxBatch
<1> DEFINE wrong == {i \in 1..g : events[i].type = "error"}
<1>1. d.errors = Cardinality(wrong)
  BY DEF ShowsFirst
<1>2. Len(events) \in Nat /\ MaxBatch \in Nat /\ n.total \in Nat
  BY DialogAssumption DEF ServerState
<1>3. CASE g = 0
  <2>1. wrong = {}
    BY <1>3
  <2> HIDE DEF wrong
  <2>2. d.errors = 0
    BY <1>1, <2>1, FS_EmptySet
  <2>3. d.done = 0 /\ d.total \in 0..MaxBatch
    BY <1>3, DialogAssumption DEF ShowsFirst
  <2>4. QED
    BY <1>2, <2>2, <2>3
<1>4. CASE g # 0
  <2>1. g \in 1..Len(events)
    BY <1>2, <1>4
  <2>2. /\ events[g].total = n.total /\ events[g].done <= n.total
        /\ events[g].type # "done" => events[g].done = g
        /\ events[g].type = "done" => events[g].done = g - 1
    BY <2>1 DEF LogShape
  <2>3. d.done = events[g].done /\ d.total = events[g].total
    BY <1>4 DEF ShowsFirst
  <2>4. wrong \subseteq 1..events[g].done
    <3>1. CASE events[g].type = "done"
      <4>1. \A i \in wrong : i # g /\ i \in 1..g
        BY <3>1
      <4>2. \A i \in 1..g : i # g => i \in 1..(g - 1)
        OBVIOUS
      <4>3. QED
        BY <2>2, <3>1, <4>1, <4>2
    <3>2. CASE events[g].type # "done"
      BY <2>2, <3>2
    <3>3. QED
      BY <3>1, <3>2
  <2>5. events[g].done \in Nat
    <3>1. events[g] \in Event
      BY <2>1, ElementOfSeq
    <3>2. QED
      BY <3>1 DEF Event
  <2> HIDE DEF wrong
  <2>6. Cardinality(wrong) <= events[g].done
    <3>1. IsFiniteSet(1..events[g].done) /\ Cardinality(1..events[g].done) = events[g].done
      BY <2>5, CountTo
    <3>2. Cardinality(wrong) <= Cardinality(1..events[g].done)
      BY <2>4, <3>1, FS_Subset
    <3>3. QED
      BY <3>1, <3>2
  <2>7. QED
    BY <1>1, <2>2, <2>3, <2>6
<1>5. QED
  BY <1>3, <1>4

\* A log of the right shape has its end last.
LEMMA ShapeEnds ==
    ASSUME NEW events, NEW n, LogShape(events, n)
    PROVE  DoneIsLast(events)
BY DEF LogShape, DoneIsLast

\* A chunk of any length is taken off the wire, and each whole event in it shown.
LEMMA ReadChunkKeeps ==
    ASSUME NEW k \in Starts, ClientInv, ReadChunk(k)
    PROVE  ClientInv'
<1>1. reader[k].pc = "reading" /\ UNCHANGED <<server, conn, log>>
  BY DEF ReadChunk
<1>2. PICK n \in 1..Len(wire[k]) :
         LET chunk  == reader[k].buf \o SubSeq(wire[k], 1, n)
             events == Lines(chunk)
         IN  /\ wire' = [wire EXCEPT ![k] = SubSeq(@, n + 1, Len(@))]
             /\ reader' = [reader EXCEPT ![k].buf = Remainder(chunk),
                  ![k].finished = @ \/ \E i \in DOMAIN events : events[i].type = "done"]
             /\ dialog' = FoldLeft(Shown, dialog, events)
  BY DEF ReadChunk
<1> DEFINE chunk == reader[k].buf \o SubSeq(wire[k], 1, n)
           lines == Lines(chunk)
           on2 == SubSeq(wire[k], n + 1, Len(wire[k]))
           rest == Remainder(chunk)
           finished2 == reader[k].finished \/ \E i \in DOMAIN lines : lines[i].type = "done"
           rd2 == [reader[k] EXCEPT !.buf = rest, !.finished = finished2]
<1>3. Reading(k)
  BY <1>1 DEF Reading
<1>4. /\ dialog.current = k /\ dialog.step \in {"running", "done"} /\ dialog \in DialogState
      /\ reader[k] \in ReaderState /\ wire[k] \in Seq(Half)
      /\ ReplaysFine(dialog, k, reader[k], wire[k], log[k])
      /\ reader \in [Starts -> ReaderState] /\ wire \in [Starts -> Seq(Half)]
  BY <1>3, OnlyCurrent, OneScreen
<1>5. /\ log[k] \in Seq(Event) /\ server[k] \in ServerState
      /\ LogShape(log[k], server[k]) /\ server[k].total <= MaxBatch
  BY OneStream DEF StreamFine
<1>6. PICK g \in Nat : Framed(reader[k].buf, wire[k], log[k], g) /\ ShowsFirst(dialog, log[k], g)
  BY <1>4 DEF ReplaysFine
<1>7. reader[k].buf \in Seq(Half)
  BY <1>4 DEF ReaderState
<1>8. PICK m \in Nat :
        /\ DOMAIN lines = 1..m
        /\ \A i \in 1..m : lines[i] = log[k][g + i]
        /\ rest \in Seq(Half)
        /\ Framed(rest, on2, log[k], g + m)
  BY <1>4, <1>5, <1>6, <1>7, ChunkIsRead
<1>9. on2 \in Seq(Half)
  BY <1>4
<1>10. /\ wire' = [wire EXCEPT ![k] = on2]
       /\ reader' = [reader EXCEPT ![k] = rd2]
       /\ dialog' = FoldLeft(Shown, dialog, lines)
  <2>1. wire' = [wire EXCEPT ![k] = on2] /\ dialog' = FoldLeft(Shown, dialog, lines)
    BY <1>2, <1>4
  <2>2. reader' = [reader EXCEPT ![k].buf = rest, ![k].finished = finished2]
    BY <1>2, <1>4
  <2> HIDE DEF rest, finished2, chunk, lines
  <2>3. reader' = [reader EXCEPT ![k] = rd2]
    BY <1>4, <2>2
  <2>4. QED
    BY <2>1, <2>3
<1> HIDE DEF chunk, lines, on2, rest, finished2
<1>11. g + m \in Nat /\ g + m <= Len(log[k])
  <2>1. g + m \in 0..Len(log[k])
    BY <1>8 DEF Framed
  <2>2. QED
    BY <2>1
<1>12. OnScreen(dialog)
  BY <1>4 DEF OnScreen
<1>13. DoneIsLast(log[k])
  BY <1>5, ShapeEnds
<1>14. /\ OnScreen(dialog') /\ dialog'.current = k /\ ShowsFirst(dialog', log[k], g + m)
  <2> DEFINE e == FoldLeft(Shown, dialog, lines)
  <2>1. DOMAIN lines = 1..m /\ \A i \in 1..m : lines[i] = log[k][g + i]
    BY <1>8
  <2>2. log[k] \in Seq(Event) /\ ShowsFirst(dialog, log[k], g) /\ g + m <= Len(log[k])
    BY <1>5, <1>6, <1>11
  <2>3. OnScreen(e) /\ e.current = dialog.current /\ ShowsFirst(e, log[k], g + m)
    BY <1>12, <1>13, <2>1, <2>2, FoldShows
  <2> HIDE DEF e
  <2>4. dialog' = e /\ dialog.current = k
    BY <1>4, <1>10 DEF e
  <2>5. QED
    BY Zenon, <2>3, <2>4
<1>15. Numbers'
  <2>1. dialog'.errors <= dialog'.done /\ dialog'.done <= dialog'.total /\ dialog'.total <= MaxBatch
    BY <1>5, <1>11, <1>14, ShownNumbers
  <2>2. QED
    BY <2>1 DEF Numbers
<1>16. finished2 <=> dialog'.step = "done"
  <2>1. reader[k].finished <=> dialog.step = "done"
    BY <1>3 DEF ClientInv, FinishedIsDone
  <2>2. dialog.step = "done" <=> \E i \in 1..g : log[k][i].type = "done"
    BY <1>6 DEF ShowsFirst
  <2>3. dialog'.step = "done" <=> \E i \in 1..(g + m) : log[k][i].type = "done"
    BY <1>14 DEF ShowsFirst
  <2>4. (\E i \in DOMAIN lines : lines[i].type = "done") <=> \E i \in 1..m : log[k][g + i].type = "done"
    BY <1>8
  <2>5. (\E i \in 1..(g + m) : log[k][i].type = "done") <=>
          \/ \E i \in 1..g : log[k][i].type = "done"
          \/ \E i \in 1..m : log[k][g + i].type = "done"
    <3>1. \A i \in 1..(g + m) : i \in 1..g \/ (i - g \in 1..m /\ g + (i - g) = i)
      OBVIOUS
    <3>2. /\ \A i \in 1..g : i \in 1..(g + m)
          /\ \A i \in 1..m : g + i \in 1..(g + m)
      OBVIOUS
    <3>3. ASSUME NEW i \in 1..(g + m), log[k][i].type = "done"
          PROVE  \/ \E j \in 1..g : log[k][j].type = "done"
                 \/ \E j \in 1..m : log[k][g + j].type = "done"
      <4>1. CASE i \in 1..g
        BY <3>3, <4>1
      <4>2. CASE i - g \in 1..m /\ g + (i - g) = i
        <5>1. log[k][g + (i - g)].type = "done"
          BY Zenon, <3>3, <4>2
        <5>2. QED
          BY Zenon, <4>2, <5>1
      <4>3. QED
        BY Zenon, <3>1, <4>1, <4>2
    <3>4. QED
      BY Zenon, <3>2, <3>3
  <2>6. QED
    BY Zenon, <2>1, <2>2, <2>3, <2>4, <2>5 DEF finished2
<1>17. /\ rd2 \in ReaderState /\ IsReading(rd2) /\ QuietFine(rd2, on2)
       /\ rd2.finished = finished2 /\ rd2.buf = rest
  <2>1. finished2 \in BOOLEAN
    BY <1>4 DEF finished2, ReaderState
  <2>2. /\ rd2 \in ReaderState /\ rd2.pc = reader[k].pc /\ rd2.buf = rest
        /\ rd2.finished = finished2
    <3>1. reader[k] \in ReaderState /\ rest \in Seq(Half)
      BY <1>4, <1>8
    <3>2. rd2 \in ReaderState
      BY <2>1, <3>1 DEF ReaderState
    <3>3. rd2.pc = reader[k].pc /\ rd2.buf = rest
      BY <2>1, <3>1 DEF ReaderState
    <3>4. rd2.finished = finished2
      BY <2>1, <3>1 DEF ReaderState
    <3>5. QED
      BY <3>2, <3>3, <3>4
  <2> HIDE DEF rd2
  <2>3. IsReading(rd2) /\ QuietFine(rd2, on2)
    BY <1>1, <2>2 DEF IsReading, QuietFine
  <2>4. QED
    BY <2>2, <2>3
<1> HIDE DEF rd2
<1>18. ReplaysFine(dialog', k, rd2, on2, log[k])
  BY <1>8, <1>11, <1>14, <1>17 DEF ReplaysFine
<1>19. rd2.finished <=> dialog'.step = "done"
  BY Zenon, <1>16, <1>17
<1>20. QED
  BY <1>1, <1>3, <1>9, <1>10, <1>14, <1>15, <1>17, <1>18, <1>19, ReaderStep

\* Before the first event the screen is empty and so is the wire.
LEMMA NothingShown ==
    ASSUME NEW d, d.errors = 0, d.done = 0, d.total = TotalUnmarked, d.step # "done"
    PROVE  Framed(<<>>, <<>>, <<>>, 0) /\ ShowsFirst(d, <<>>, 0)
<1>1. Framed(<<>>, <<>>, <<>>, 0)
  BY DEF Framed
<1>2. {i \in 1..0 : (<<>>)[i].type = "error"} = {}
  OBVIOUS
<1>3. Cardinality({i \in 1..0 : (<<>>)[i].type = "error"}) = 0
  BY <1>2, FS_EmptySet
<1>4. ShowsFirst(d, <<>>, 0)
  BY <1>3 DEF ShowsFirst
<1>5. QED
  BY <1>1, <1>4

\* The log of a start that has sent nothing has the right shape.
LEMMA EmptyLog ==
    ASSUME NEW n
    PROVE  LogShape(<<>>, n)
BY DEF LogShape

\* A new start empties the screen and becomes the one that may write to it.
LEMMA StartAnalysisKeeps ==
    ASSUME NEW k \in Starts, NEW p \in Providers, ClientInv, StartAnalysis(k, p), Streams'
    PROVE  ClientInv'
<1> DEFINE rd2 == [pc |-> "fetching", buf |-> <<>>, finished |-> FALSE]
<1>1. /\ dialog.step = "config" /\ reader[k].pc = "none"
      /\ dialog' = [Fresh EXCEPT !.step = "running", !.current = k,
                                 !.total = TotalUnmarked, !.listed = dialog.listed]
      /\ reader' = [reader EXCEPT ![k] = rd2]
      /\ server' = [server EXCEPT ![k].pc = "request", ![k].provider = p]
      /\ conn' = [conn EXCEPT ![k] = "open"]
      /\ log' = [j \in Starts |-> <<>>]
      /\ wire' = wire
  BY DEF StartAnalysis
<1>2. /\ dialog \in DialogState /\ reader \in [Starts -> ReaderState]
      /\ conn \in [Starts -> ConnState] /\ server \in [Starts -> ServerState]
      /\ wire \in [Starts -> Seq(Half)]
  BY DEF ClientInv, Typed
<1>3. /\ dialog' \in DialogState /\ dialog'.step = "running" /\ dialog'.current = k
      /\ dialog'.errors = 0 /\ dialog'.done = 0 /\ dialog'.total = TotalUnmarked
  <2>1. TotalUnmarked \in Nat
    BY DialogAssumption
  <2>2. QED
    BY <1>1, <1>2, <2>1 DEF Fresh, DialogState, Reasons
<1>4. rd2 \in ReaderState /\ rd2.pc = "fetching" /\ rd2.buf = <<>> /\ rd2.finished = FALSE
  BY DEF ReaderState
<1> HIDE DEF rd2
<1>5. /\ \A j \in Starts : log'[j] = <<>>
      /\ reader'[k] = rd2 /\ conn'[k] = "open"
      /\ \A j \in Starts : j # k => reader'[j] = reader[j] /\ conn'[j] = conn[j] /\ server'[j] = server[j]
  BY <1>1, <1>2
<1>6. Typed'
  <2>1. log' \in [Starts -> Seq(Event)]
    BY <1>1
  <2>2. reader' \in [Starts -> ReaderState] /\ conn' \in [Starts -> ConnState] /\ wire' \in [Starts -> Seq(Half)]
    BY <1>1, <1>2, <1>4 DEF ConnState
  <2>3. QED
    BY <1>3, <2>1, <2>2 DEF Typed, Streams
<1>7. \A j \in Starts : ~Reading(j)
  BY <1>1 DEF ClientInv, OneReader
<1>8. ASSUME NEW j \in Starts PROVE StreamOK(j)' /\ Quiet(j)' /\ Replays(j)'
  <2>1. StreamOK(j) /\ Quiet(j)
    BY DEF ClientInv
  <2>2. CASE j = k
    <3>1. /\ server[k].pc = "none" /\ server[k].total = 0 /\ server[k].idx = 0 /\ server[k].processed = 0
          /\ server[k].total <= MaxBatch
      BY <1>1, <2>1, <2>2 DEF StreamOK, StreamFine
    <3>2. /\ server'[k].pc = "request" /\ server'[k].total = server[k].total
          /\ server'[k].idx = server[k].idx /\ server'[k].processed = server[k].processed
      BY <1>1, <1>2 DEF ServerState
    <3>3. StreamFine(rd2, server'[k], "open", <<>>)
      BY <1>4, <3>1, <3>2, EmptyLog DEF StreamFine, IsReading
    <3>4. StreamOK(j)'
      BY <1>5, <2>2, <3>3 DEF StreamOK
    <3>5. wire'[k] = <<>>
      BY <1>1, <1>7, <2>1, <2>2 DEF Quiet, QuietFine, Reading, IsReading
    <3>6. Quiet(j)'
      BY <1>4, <1>5, <2>2, <3>5 DEF Quiet, QuietFine
    <3>7. Framed(rd2.buf, <<>>, <<>>, 0) /\ ShowsFirst(dialog', <<>>, 0)
      BY <1>3, <1>4, NothingShown
    <3>8. ReplaysFine(dialog', k, rd2, <<>>, <<>>)
      BY <3>7 DEF ReplaysFine
    <3>9. Replays(j)'
      BY <1>5, <2>2, <3>5, <3>8 DEF Replays
    <3>10. QED
      BY <3>4, <3>6, <3>9
  <2>3. CASE j # k
    <3>1. reader'[j] = reader[j] /\ server'[j] = server[j] /\ conn'[j] = conn[j] /\ log'[j] = <<>>
      BY <1>5, <2>3
    <3>2. ~IsReading(reader[j])
      BY <1>7 DEF Reading, IsReading
    <3>3. StreamFine(reader[j], server[j], conn[j], <<>>)
      BY <2>1, <3>2, EmptyLog DEF StreamOK, StreamFine
    <3>4. StreamOK(j)'
      BY <3>1, <3>3 DEF StreamOK
    <3>5. Quiet(j)'
      BY <1>1, <2>1, <3>1 DEF Quiet
    <3>6. Replays(j)'
      BY <1>3, <2>3 DEF Replays, ReplaysFine
    <3>7. QED
      BY <3>4, <3>5, <3>6
  <2>4. QED
    BY <2>2, <2>3
<1>9. Numbers'
  <2>1. 0 <= TotalUnmarked /\ TotalUnmarked <= MaxBatch
    BY DialogAssumption
  <2>2. QED
    BY <1>3, <2>1 DEF Numbers
<1>10. Reading(k)' /\ \A j \in Starts : Reading(j)' => j = k
  <2>1. Reading(k)'
    BY <1>4, <1>5 DEF Reading
  <2>2. ASSUME NEW j \in Starts, j # k PROVE ~Reading(j)'
    BY <1>5, <1>7, <2>2 DEF Reading
  <2>3. QED
    BY <2>1, <2>2
<1>11. OneReader'
  BY <1>3, <1>10 DEF OneReader
<1>12. FinishedIsDone'
  BY <1>3, <1>4, <1>5, <1>10 DEF FinishedIsDone
<1>13. Started'
  BY <1>3, <1>4, <1>5 DEF Started, Starts
<1>14. QED
  BY <1>6, <1>8, <1>9, <1>11, <1>12, <1>13 DEF ClientInv

\* The invariant holds initially.
LEMMA ClientInvInit == Init => ClientInv
<1> SUFFICES ASSUME Init PROVE ClientInv
  OBVIOUS
<1> DEFINE rd == [pc |-> "none", buf |-> <<>>, finished |-> FALSE]
           n == [pc |-> "none", provider |-> None, status |-> 0, total |-> 0,
                 idx |-> 0, processed |-> 0, consecutive |-> 0]
<1>1. /\ dialog = Fresh /\ reader = [k \in Starts |-> rd] /\ server = [k \in Starts |-> n]
      /\ conn = [k \in Starts |-> "none"] /\ wire = [k \in Starts |-> <<>>]
      /\ log = [k \in Starts |-> <<>>]
  BY DEF Init
<1>2. /\ rd \in ReaderState /\ rd.pc = "none" /\ rd.buf = <<>>
      /\ n \in ServerState /\ n.pc = "none" /\ n.total = 0 /\ n.idx = 0 /\ n.processed = 0
  BY DEF ReaderState, ServerState
<1> HIDE DEF rd, n
<1>3. Typed
  BY <1>1, <1>2, FreshState DEF Typed, ConnState
<1>4. ASSUME NEW k \in Starts PROVE StreamOK(k) /\ Quiet(k) /\ Replays(k)
  <2>1. reader[k] = rd /\ server[k] = n /\ conn[k] = "none" /\ wire[k] = <<>> /\ log[k] = <<>>
    BY <1>1
  <2>2. StreamFine(rd, n, "none", <<>>)
    BY <1>2, EmptyLog, DialogAssumption DEF StreamFine, IsReading
  <2>3. StreamOK(k)
    BY <2>1, <2>2 DEF StreamOK
  <2>4. Quiet(k)
    BY <1>2, <2>1 DEF Quiet, QuietFine
  <2>5. Replays(k)
    BY <1>1, FreshState DEF Replays, ReplaysFine
  <2>6. QED
    BY <2>3, <2>4, <2>5
<1>5. \A k \in Starts : ~Reading(k)
  BY <1>1, <1>2 DEF Reading
<1>6. Numbers /\ OneReader /\ FinishedIsDone /\ Started
  BY <1>1, <1>5, FreshState, DialogAssumption DEF Numbers, OneReader, FinishedIsDone, Started
<1>7. QED
  BY <1>3, <1>4, <1>6 DEF ClientInv

\* Every step keeps the invariant.
LEMMA ClientInvNext ==
    ASSUME ClientInv, [Next]_vars
    PROVE  ClientInv'
<1>1. CASE UNCHANGED vars \/ Quiescent \/ EditFile
  BY <1>1, IdleKeeps DEF vars, Quiescent, EditFile
<1>2. CASE ListProviders
  BY <1>2, ListProvidersKeeps
<1>3. CASE Cancel
  BY <1>3, CancelKeeps
<1>4. CASE Leave
  BY <1>4, LeaveKeeps
<1>5. ASSUME NEW k \in Starts, Client(k) PROVE ClientInv'
  BY <1>5, FetchAnsweredKeeps, FetchRefusedKeeps, ReadChunkKeeps, ReadEndKeeps, ReadFailsKeeps DEF Client
<1>6. ASSUME Next PROVE Streams'
  BY <1>6, NextStreams
<1>7. ASSUME NEW k \in Starts, NEW p \in Providers, StartAnalysis(k, p), Streams' PROVE ClientInv'
  BY <1>7, StartAnalysisKeeps
<1>8. ASSUME NEW k \in Starts, Server(k), Streams' PROVE ClientInv'
  BY <1>8, RequestKeeps, LoadKeeps, LoopCallKeeps, CallAnsweredKeeps, CallFailedKeeps, FinishKeeps DEF Server
<1>9. ASSUME NEW k \in Starts, Network(k) \/ BreakOff(k) \/ Cancelled(k), Streams' PROVE ClientInv'
  BY <1>9, DropKeeps, NoticeKeeps, BreakOffKeeps, CancelledKeeps DEF Network
<1>10. QED
  BY Zenon, <1>1, <1>2, <1>3, <1>4, <1>5, <1>6, <1>7, <1>8, <1>9 DEF Next

\* The invariant holds of every behaviour.
LEMMA ClientInvHolds == Spec => []ClientInv
<1>1. ClientInv /\ [Next]_vars => ClientInv'
  BY ClientInvNext
<1>2. QED
  BY <1>1, ClientInvInit, PTL DEF Spec

-----------------------------------------------------------------------------
(* The promises.                                                           *)

\* The number of tails under way is the number of events not yet shown.
LEMMA TailsUnderWay ==
    ASSUME NEW buf \in Seq(Half), NEW on \in Seq(Half), NEW events \in Seq(Event), NEW g \in Nat,
           Framed(buf, on, events, g)
    PROVE  Cardinality({n \in DOMAIN on : on[n].half = 2}) = Len(events) - g
<1> DEFINE b == Len(buf)
           m == Len(events) - g
           tails == {n \in DOMAIN on : on[n].half = 2}
           At == [i \in 1..m |-> 2 * i - b]
<1>1. /\ b \in Nat /\ b <= 1 /\ Len(on) \in Nat /\ m \in Nat /\ b + Len(on) = 2 * m
      /\ DOMAIN on = 1..Len(on)
  BY DEF Framed
<1>2. \A i \in 1..m : /\ (buf \o on)[2 * i - 1] = Head1(events[g + i])
                      /\ (buf \o on)[2 * i] = Tail1(events[g + i])
  BY DEF Framed
<1>3. \A n \in 1..Len(on) : (buf \o on)[b + n] = on[n]
  OBVIOUS
<1> HIDE DEF b, m
<1>4. \A i \in 1..m : 2 * i - b \in 1..Len(on) /\ b + (2 * i - b) = 2 * i
  BY <1>1
<1>5. ASSUME NEW i \in 1..m PROVE At[i] \in tails
  <2>1. on[2 * i - b] = Tail1(events[g + i])
    BY Zenon, <1>2, <1>3, <1>4
  <2>2. on[2 * i - b].half = 2
    BY <2>1 DEF Tail1
  <2>3. QED
    BY <1>1, <1>4, <2>2
<1>6. ASSUME NEW n \in tails PROVE \E i \in 1..m : At[i] = n
  <2>1. n \in 1..Len(on) /\ on[n].half = 2
    BY <1>1
  <2>2. b + n \in Nat /\ b + n >= 1 /\ b + n <= 2 * m /\ n \in Nat /\ b \in Nat /\ m \in Nat
    BY <1>1, <2>1
  <2>3. PICK i \in Nat : b + n = 2 * i \/ b + n = 2 * i + 1
    BY <2>2, Halves
  <2>4. CASE b + n = 2 * i
    <3>1. i \in 1..m /\ 2 * i - b = n
      BY <2>2, <2>4
    <3>2. QED
      BY <3>1
  <2>5. CASE b + n = 2 * i + 1
    <3>1. i + 1 \in 1..m /\ 2 * (i + 1) - 1 = b + n
      BY <2>2, <2>5
    <3>2. on[n] = Head1(events[g + (i + 1)])
      BY Zenon, <1>2, <1>3, <2>1, <3>1
    <3>3. QED
      BY <2>1, <3>2 DEF Head1
  <2>6. QED
    BY <2>3, <2>4, <2>5
<1>7. \A i, j \in 1..m : At[i] = At[j] => i = j
  BY <1>1
<1> HIDE DEF tails
<1>8. At \in Bijection(1..m, tails)
  BY <1>5, <1>6, <1>7, Fun_IsBij
<1>9. IsFiniteSet(1..m) /\ Cardinality(1..m) = m
  BY <1>1, CountTo
<1>10. Cardinality(tails) = m
  BY <1>8, <1>9, FS_Bijection DEF ExistsBijection
<1>11. QED
  BY <1>10 DEF tails, m

\* While a stream is on the screen, it shows a first part of the log.
LEMMA ScreenFollows ==
    ASSUME ClientInv, dialog.step \in {"running", "done"}
    PROVE  LET k == dialog.current IN
           /\ k \in Starts
           /\ \E g \in Nat : Framed(reader[k].buf, wire[k], log[k], g) /\ ShowsFirst(dialog, log[k], g)
<1> DEFINE k == dialog.current
<1>1. k \in Starts
  BY DEF ClientInv, Typed, Started, DialogState
<1>2. QED
  BY <1>1, OneScreen DEF ReplaysFine

\* Progress is the fold of the events that have arrived.
LEMMA ClientInvReplays ==
    ASSUME ClientInv
    PROVE  DialogReplaysStream
<1> SUFFICES ASSUME dialog.step \in {"running", "done"}
             PROVE  LET events == Delivered(dialog.current) IN
                    /\ dialog.errors = ErrorsIn(events)
                    /\ dialog.done = IF events = <<>> THEN 0 ELSE Last(events).done
                    /\ dialog.step = "done" <=> \E n \in DOMAIN events : events[n].type = "done"
  BY DEF DialogReplaysStream
<1> DEFINE k == dialog.current
           events == Delivered(k)
<1>1. k \in Starts
  BY ScreenFollows
<1>2. PICK g \in Nat : Framed(reader[k].buf, wire[k], log[k], g) /\ ShowsFirst(dialog, log[k], g)
  BY ScreenFollows
<1>3. /\ reader[k].buf \in Seq(Half) /\ wire[k] \in Seq(Half) /\ log[k] \in Seq(Event)
  BY <1>1, OneScreen, OneStream DEF ReaderState
<1> HIDE DEF k
<1>4. g <= Len(log[k]) /\ Len(log[k]) \in Nat
  BY <1>2, <1>3 DEF Framed
<1>5. Cardinality({n \in DOMAIN wire[k] : wire[k][n].half = 2}) = Len(log[k]) - g
  BY <1>2, <1>3, TailsUnderWay
<1>6. events = SubSeq(log[k], 1, g)
  <2>1. Len(log[k]) - (Len(log[k]) - g) = g
    BY <1>4
  <2>2. QED
    BY Zenon, <1>5, <2>1 DEF Delivered
<1> HIDE DEF events
<1>7. /\ events \in Seq(Event) /\ Len(events) = g /\ DOMAIN events = 1..g
      /\ \A i \in 1..g : events[i] = log[k][i]
  BY <1>3, <1>4, <1>6
<1>8. {n \in DOMAIN events : events[n].type = "error"} = {i \in 1..g : log[k][i].type = "error"}
  BY <1>7
<1>9. dialog.errors = ErrorsIn(events)
  BY Zenon, <1>2, <1>8 DEF ErrorsIn, ShowsFirst
<1>10. dialog.done = IF events = <<>> THEN 0 ELSE Last(events).done
  <2>1. events = <<>> <=> g = 0
    BY <1>7
  <2>2. g # 0 => Last(events) = log[k][g]
    BY <1>7 DEF Last
  <2>3. QED
    BY Zenon, <1>2, <2>1, <2>2 DEF ShowsFirst
<1>11. dialog.step = "done" <=> \E n \in DOMAIN events : events[n].type = "done"
  BY <1>2, <1>7 DEF ShowsFirst
<1>12. QED
  BY <1>9, <1>10, <1>11 DEF events, k

\* A result on the screen is the whole of the log.
LEMMA ClientInvComplete ==
    ASSUME ClientInv
    PROVE  ResultIsComplete
<1> DEFINE k == dialog.current
           n == server[k]
<1> SUFFICES ASSUME dialog.step = "done", dialog.stopped # "circuit_breaker"
             PROVE  /\ dialog.done = n.total /\ dialog.total = n.total
                    /\ \A i \in 1..n.total : log[k][i].done = i
  BY DEF ResultIsComplete
<1>1. k \in Starts
  BY ScreenFollows
<1>2. PICK g \in Nat : Framed(reader[k].buf, wire[k], log[k], g) /\ ShowsFirst(dialog, log[k], g)
  BY ScreenFollows
<1>3. log[k] \in Seq(Event) /\ n \in ServerState /\ LogShape(log[k], n)
  BY <1>1, OneStream DEF StreamFine
<1> HIDE DEF k, n
<1>4. PICK last \in 1..g : log[k][last].type = "done"
  BY <1>2 DEF ShowsFirst
<1>5. Len(log[k]) \in Nat /\ g <= Len(log[k])
  BY <1>2, <1>3 DEF Framed
<1>6. last \in 1..Len(log[k])
  BY <1>5
<1>7. last = Len(log[k]) /\ log[k][last].done = last - 1 /\ log[k][last].total = n.total
  BY <1>3, <1>4, <1>6 DEF LogShape
<1>8. g = last /\ g # 0
  BY <1>5, <1>7
<1>9. log[k][g].stopped # "circuit_breaker"
  BY <1>2 DEF ShowsFirst
<1>10. log[k][g].done = n.total /\ n.total = g - 1
  BY <1>3, <1>4, <1>6, <1>7, <1>8, <1>9 DEF LogShape
<1>11. dialog.done = n.total /\ dialog.total = n.total
  BY <1>2, <1>7, <1>8, <1>10 DEF ShowsFirst
<1>12. ASSUME NEW i \in 1..n.total PROVE log[k][i].done = i
  <2>1. i \in 1..Len(log[k]) /\ i # Len(log[k])
    BY <1>7, <1>8, <1>10
  <2>2. QED
    BY <1>3, <2>1 DEF LogShape
<1>13. QED
  BY <1>11, <1>12

\* The invariant contains the type invariant.
LEMMA ClientInvTypes ==
    ASSUME ClientInv
    PROVE  TypeOK
<1>1. dialog \in DialogState /\ Numbers
  BY DEF ClientInv, Typed
<1>2. ASSUME NEW k \in Starts
      PROVE  /\ Len(reader[k].buf) <= 1
             /\ conn[k] \in {"none", "open", "ended", "cut", "dropped", "broken"}
             /\ server[k].idx <= server[k].total
  <2>1. /\ conn[k] \in ConnState /\ server[k].idx <= server[k].total
    BY OneStream DEF StreamFine
  <2>2. CASE Reading(k)
    <3>1. PICK g \in Nat : Framed(reader[k].buf, wire[k], log[k], g)
      BY <2>2, OnlyCurrent, OneScreen DEF ReplaysFine
    <3>2. QED
      BY <2>1, <3>1 DEF Framed, ConnState
  <2>3. CASE ~Reading(k)
    <3>1. reader[k].buf = <<>>
      BY <2>3, OneScreen DEF QuietFine
    <3>2. QED
      BY <2>1, <3>1 DEF ConnState
  <2>4. QED
    BY <2>2, <2>3
<1>3. /\ dialog.step \in {"config", "running", "done"} /\ dialog.current \in Starts \cup {0}
      /\ dialog.stopped \in {None, "circuit_breaker", "disconnected"}
      /\ dialog.errors \in Nat
  BY <1>1 DEF DialogState, Reasons
<1>4. dialog.listed = None \/ dialog.listed \subseteq Providers
  BY <1>1 DEF DialogState
<1>5. QED
  BY <1>1, <1>2, <1>3, <1>4 DEF TypeOK, Numbers

\* What the dialog shows is always within the batch, and half an event at
\* most waits for the next chunk (AnalyzeModal.tsx:160-190).
THEOREM ClientTypes == Spec => []TypeOK
BY ClientInvHolds, ClientInvTypes, PTL

\* However many starts, cancels, failures and reopenings of the dialog: one
\* read loop writes to it, and a running dialog has its loop
\* (AnalyzeModal.tsx:120-215).
THEOREM OneReaderAtATime == Spec => []OneReader
<1>1. ClientInv => OneReader
  BY DEF ClientInv
<1>2. QED
  BY <1>1, ClientInvHolds, PTL

\* However the stream is cut into chunks, the dialog shows what the events it
\* has been given say, of any number of events (AnalyzeModal.tsx:164-167).
THEOREM DialogShowsTheStream == Spec => []DialogReplaysStream
BY ClientInvHolds, ClientInvReplays, PTL

\* A result that does not say the breaker stopped it counts every finding of
\* the batch once, whatever became of the connection (analyze_loop.py:122-207, AnalyzeModal.tsx:168-190).
THEOREM ResultCoversTheBatch == Spec => []ResultIsComplete
BY ClientInvHolds, ClientInvComplete, PTL
=============================================================================
