--------------------------- MODULE AnalyzeDialog ----------------------------
(***************************************************************************)
(* The analysis dialog of the web client (AnalyzeModal.tsx), the event     *)
(* stream it reads (routers/analyze.py), the loop that writes the stream   *)
(* (ai/analyze_loop.py) and the gate each provider call passes             *)
(* (ai/providers.py).  Triage has what the loop does to verdicts; here a   *)
(* finding is an index and only the events matter.                         *)
(*                                                                         *)
(* The wire cuts an event anywhere: it carries the two halves of each, and *)
(* a chunk is any prefix of what is under way.  "start" changes nothing    *)
(* the dialog shows and is left out, as are tokens and messages.           *)
(***************************************************************************)
EXTENDS Integers, FiniteSets, SequencesExt

CONSTANTS
    MaxStarts,      \* presses of the start button
    Providers,
    Configs,        \* what the provider file may say: [Providers -> Entry]
    Hosts,
    RemoteAllowed,  \* SWB_ALLOW_REMOTE_PROVIDERS
    Allowlist,      \* SWB_REMOTE_PROVIDER_ALLOWLIST
    MaxBatch,       \* findings of an analysis
    TotalUnmarked,  \* findings the run page has last shown as unmarked
    MaxErrors,      \* SWB_ANALYZE_MAX_CONSECUTIVE_ERRORS; 0 is no breaker
    MaxEdits,       \* edits of the provider file
    None

\* host None: the file has no such provider.  key: its environment variable
\* is set.
Entry == [host : Hosts \cup {None}, local : BOOLEAN, key : BOOLEAN]

ASSUME DialogAssumption ==
    /\ Configs \subseteq [Providers -> Entry]
    /\ None \notin Hosts /\ Allowlist \subseteq Hosts /\ RemoteAllowed \in BOOLEAN
    /\ {MaxStarts, MaxBatch, MaxErrors, MaxEdits} \subseteq Nat
    /\ TotalUnmarked \in 0..MaxBatch
    /\ None \notin {"circuit_breaker", "disconnected"}

Starts == 1..MaxStarts

VARIABLES
    dialog,     \* the component on the screen: its step, its abortRef, what it shows
    reader,     \* of each start: the read loop of startAnalysis
    server,     \* of each start: run_analysis under its stream
    conn,       \* of each start: the connection
    wire,       \* of each start: halves of events under way
    log,        \* of each start: the events sent to a reader
    files       \* the contents of the provider file, oldest first

vars == <<dialog, reader, server, conn, wire, log, files>>

-----------------------------------------------------------------------------
(* Providers.                                                              *)

\* Read anew for each call.
\* With a bug: read once, when the module is imported.
LoadRegistryOnce == Head(files)
LoadRegistry == Last(files)

RemoteDenied(entry) == ~RemoteAllowed \/ entry.host \notin Allowlist

IsUsable(entry) == entry.host # None /\ (entry.local \/ ~RemoteDenied(entry))

\* What GET /providers lists.
VisibleProviders == {p \in Providers : IsUsable(LoadRegistry[p])}

\* get_provider and _resolve_api_key: the call is made only if this holds;
\* otherwise it raises as a failing provider does.
CallAllowed(p) == LET entry == LoadRegistry[p] IN IsUsable(entry) /\ (entry.local \/ entry.key)

EditFile ==
    /\ Len(files) <= MaxEdits
    /\ \E config \in Configs \ {Last(files)} : files' = Append(files, config)
    /\ UNCHANGED <<dialog, reader, server, conn, wire, log>>

-----------------------------------------------------------------------------
(* Events and what the dialog shows of them.                               *)

Progress(n, total) == [type |-> "progress", done |-> n, total |-> total, stopped |-> None]
Error(n, total) == [type |-> "error", done |-> n, total |-> total, stopped |-> None]
DoneEvent(n, total, reason) == [type |-> "done", done |-> n, total |-> total, stopped |-> reason]

Head1(event) == [half |-> 1, event |-> event]
Tail1(event) == [half |-> 2, event |-> event]

\* The events of a chunk: the lines that are whole.  A second half without
\* its first is a line that does not parse and is skipped.
Lines(chunk) ==
    LET Whole(n) == n > 1 /\ chunk[n].half = 2 /\ chunk[n - 1].half = 1
        ends == {n \in DOMAIN chunk : Whole(n)}
    IN  [i \in 1..Cardinality(ends) |->
           chunk[CHOOSE n \in ends : Cardinality({m \in ends : m <= n}) = i].event]

\* What stays in buf for the next chunk: the line that has not ended.
\* With a bug: each chunk is taken for whole lines, or nothing is taken out.
RemainderNone(chunk) == <<>>
RemainderAll(chunk) == chunk
Remainder(chunk) == IF chunk # <<>> /\ Last(chunk).half = 1 THEN <<Last(chunk)>> ELSE <<>>

\* setProgress and setStep for one event.
Shown(d, event) ==
    [d EXCEPT !.done = event.done, !.total = event.total,
              !.errors = IF event.type = "error" THEN @ + 1 ELSE @,
              !.stopped = IF event.type = "done" THEN event.stopped ELSE @,
              !.step = IF event.type = "done" THEN "done" ELSE @]

-----------------------------------------------------------------------------
(* The dialog.                                                             *)

\* listed: the providers of the form, None until they have been fetched.
Fresh == [step |-> "config", current |-> 0, done |-> 0, total |-> 0, errors |-> 0,
          stopped |-> None, failed |-> FALSE, listed |-> None]

\* The loop of a component that has left the screen reads on, to no effect:
\* "orphan".
Reading(k) == reader[k].pc \in {"fetching", "reading"}

\* GET /providers, once, when the dialog opens.
ListProviders ==
    /\ dialog.listed = None
    /\ dialog' = [dialog EXCEPT !.listed = VisibleProviders]
    /\ UNCHANGED <<reader, server, conn, wire, log, files>>

\* The bar begins with the count the run page has shown, which need not be that
\* of the batch.
StartAnalysis(k, p) ==
    /\ dialog.step = "config" /\ dialog.listed # None /\ p \in dialog.listed
    /\ reader[k].pc = "none"
    /\ \A j \in Starts : j < k => reader[j].pc # "none"
    /\ dialog' = [Fresh EXCEPT !.step = "running", !.current = k,
                               !.total = TotalUnmarked, !.listed = dialog.listed]
    /\ reader' = [reader EXCEPT ![k] = [pc |-> "fetching", buf |-> <<>>, finished |-> FALSE]]
    /\ server' = [server EXCEPT ![k].pc = "request", ![k].provider = p]
    /\ conn' = [conn EXCEPT ![k] = "open"]
    /\ log' = [j \in Starts |-> <<>>]
    /\ UNCHANGED <<wire, files>>

\* The end of startAnalysis, by a refusal, a broken connection or a stream
\* that closes before "done".
Failed(d) == [d EXCEPT !.step = "config", !.failed = TRUE]

Over(k, pc) ==
    /\ reader' = [reader EXCEPT ![k] = [pc |-> pc, buf |-> <<>>, finished |-> FALSE]]
    /\ wire' = [wire EXCEPT ![k] = <<>>]

LeaveLoop(k, d) ==
    /\ Over(k, "over")
    /\ dialog' = d
    /\ UNCHANGED <<server, conn, log, files>>

\* Broken for the browser, whether or not the server knows: it may still read
\* what has arrived.
Severed(k) == conn[k] \in {"dropped", "broken"}

FetchAnswered(k) ==
    /\ reader[k].pc = "fetching" /\ ~Severed(k)
    /\ server[k].status = 200
    /\ reader' = [reader EXCEPT ![k].pc = "reading"]
    /\ UNCHANGED <<dialog, server, conn, wire, log, files>>

FetchRefused(k) ==
    /\ reader[k].pc = "fetching" /\ server[k].status = 404
    /\ LeaveLoop(k, Failed(dialog))

\* One chunk: the rest of the last one with what has arrived.
ReadChunk(k) ==
    /\ reader[k].pc = "reading"
    /\ \E n \in 1..Len(wire[k]) :
         LET chunk  == reader[k].buf \o SubSeq(wire[k], 1, n)
             events == Lines(chunk)
         IN  /\ wire' = [wire EXCEPT ![k] = SubSeq(@, n + 1, Len(@))]
             /\ reader' = [reader EXCEPT ![k].buf = Remainder(chunk),
                  ![k].finished = @ \/ \E i \in DOMAIN events : events[i].type = "done"]
             /\ dialog' = FoldLeft(Shown, dialog, events)
    /\ UNCHANGED <<server, conn, log, files>>

\* The stream has ended: fine after "done", an error before it.
\* With a bug: the end of the stream is always fine.
ClosedShownAlways(d, finished) == d
ClosedShown(d, finished) == IF finished THEN d ELSE Failed(d)

ReadEnd(k) ==
    /\ reader[k].pc = "reading" /\ conn[k] = "ended" /\ wire[k] = <<>>
    /\ LeaveLoop(k, ClosedShown(dialog, reader[k].finished))

\* A reset may overtake what is still under way, "done" included.
ReadFails(k) ==
    /\ Reading(k) /\ Severed(k)
    /\ LeaveLoop(k, Failed(dialog))

\* abort(): the loop of startAnalysis ends with an AbortError, in silence.
\* With a bug: the button only goes back to the form.
AbortedNot(k) == UNCHANGED <<reader, conn, wire>>
Aborted(k) ==
    IF Reading(k)
    THEN Over(k, "over") /\ conn' = [conn EXCEPT ![k] = IF @ = "open" THEN "cut" ELSE @]
    ELSE UNCHANGED <<reader, conn, wire>>

Cancel ==
    /\ dialog.step = "running"
    /\ Aborted(dialog.current)
    /\ dialog' = [dialog EXCEPT !.step = "config"]
    /\ UNCHANGED <<server, log, files>>

\* The user navigates away, or closes the dialog after "done", and opens it
\* anew: nothing is aborted.
Leave ==
    /\ dialog.current # 0
    /\ dialog' = Fresh
    /\ Over(dialog.current, "orphan")
    /\ UNCHANGED <<server, conn, log, files>>

-----------------------------------------------------------------------------
(* The stream and the loop under it.                                       *)

Left(n) == n.idx < n.total
Tripped(n) == MaxErrors > 0 /\ n.consecutive >= MaxErrors

\* An event is written; what nobody reads any more is not kept.
Emit(k, event) ==
    IF conn[k] = "open" /\ Reading(k)
    THEN /\ log' = [log EXCEPT ![k] = Append(@, event)]
         /\ wire' = [wire EXCEPT ![k] = @ \o <<Head1(event), Tail1(event)>>]
    ELSE UNCHANGED <<log, wire>>

Gone(n) == [n EXCEPT !.pc = "gone", !.provider = None, !.idx = 0, !.processed = 0, !.consecutive = 0]

ServerOnly == UNCHANGED <<dialog, reader, files>>

\* analyze_run: the run is looked up, and the answer begins.
Request(k) ==
    /\ server[k].pc = "request"
    /\ \/ server' = [server EXCEPT ![k].pc = "load", ![k].status = 200]
       \/ server' = [server EXCEPT ![k].pc = "gone", ![k].status = 404]
    /\ UNCHANGED <<conn, wire, log>> /\ ServerOnly

Close(k) == conn' = [conn EXCEPT ![k] = IF @ = "open" THEN "ended" ELSE "broken"]

\* load_findings_for_analysis; nothing to do is said at once.
Load(k) ==
    /\ server[k].pc = "load"
    /\ \E n \in 0..MaxBatch :
         \/ /\ n > 0
            /\ server' = [server EXCEPT ![k].pc = "loop", ![k].total = n]
            /\ UNCHANGED <<conn, wire, log>>
         \/ /\ n = 0
            /\ server' = [server EXCEPT ![k] = Gone(@)]
            /\ Emit(k, DoneEvent(0, 0, None)) /\ Close(k)
    /\ ServerOnly

\* is_disconnected(), which sees a hang-up once it has arrived.
Disconnected(k) == conn[k] = "broken"

\* A call that fails, in the gate or at the provider.
\* With a bug: only answers are counted as processed.
ProcessedAfterErrorNot(n) == n
ProcessedAfterError(n) == n + 1

Fail(k) ==
    LET n == server[k]
        processed == ProcessedAfterError(n.processed)
    IN  /\ server' = [server EXCEPT ![k].pc = "loop", ![k].idx = @ + 1,
                      ![k].processed = processed, ![k].consecutive = @ + 1]
        /\ Emit(k, Error(processed, n.total))

\* The next finding: its provider call leaves, or is refused by the gate.
LoopCall(k) ==
    /\ server[k].pc = "loop" /\ ~Tripped(server[k]) /\ Left(server[k]) /\ ~Disconnected(k)
    /\ \/ /\ CallAllowed(server[k].provider)
          /\ server' = [server EXCEPT ![k].pc = "calling"]
          /\ UNCHANGED <<wire, log>>
       \/ ~CallAllowed(server[k].provider) /\ Fail(k)
    /\ UNCHANGED conn /\ ServerOnly

CallAnswered(k) ==
    /\ server[k].pc = "calling"
    /\ server' = [server EXCEPT ![k].pc = "loop", ![k].idx = @ + 1,
                  ![k].processed = @ + 1, ![k].consecutive = 0]
    /\ Emit(k, Progress(server[k].processed + 1, server[k].total))
    /\ UNCHANGED conn /\ ServerOnly

\* No connection, no answer in time, a status, a body or a verdict that is
\* none, an identity that is gone.
CallFailed(k) == server[k].pc = "calling" /\ Fail(k) /\ UNCHANGED conn /\ ServerOnly

\* Out of the loop: the counters, and the last event.
StopReason(k) ==
    CASE Tripped(server[k]) -> "circuit_breaker"
      [] ~Tripped(server[k]) /\ Left(server[k]) -> "disconnected"
      [] OTHER -> None

Finish(k) ==
    /\ server[k].pc = "loop"
    /\ Tripped(server[k]) \/ ~Left(server[k]) \/ Disconnected(k)
    /\ server' = [server EXCEPT ![k] = Gone(@)]
    /\ Emit(k, DoneEvent(server[k].processed, server[k].total, StopReason(k)))
    /\ Close(k) /\ ServerOnly

Running(k) == server[k].pc \in {"request", "load", "loop", "calling"}

\* What a connection is for the browser when its response breaks off: an
\* error, or an end where something on the way does not pass chunks on.
Broken(k, how) ==
    IF conn[k] = "open" /\ server[k].status = 200 THEN how ELSE "broken"

\* The response breaks off: the server stops, or a database error leaves the
\* session unusable, so that the handler of the loop raises again and the
\* generator ends.
BreakOff(k) ==
    /\ Running(k)
    /\ server' = [server EXCEPT ![k] = Gone(@)]
    /\ \E how \in {"broken", "ended"} : conn' = [conn EXCEPT ![k] = Broken(k, how)]
    /\ UNCHANGED <<wire, log>> /\ ServerOnly

\* The connection breaks on the way, and the server runs on: the proxy gives up
\* when it has had no byte for 120 s, as long as a provider may take.
Drop(k) ==
    /\ Running(k) /\ conn[k] = "open"
    /\ conn' = [conn EXCEPT ![k] = "dropped"]
    /\ UNCHANGED <<server, wire, log>> /\ ServerOnly

\* The hang-up reaches the server, which may cancel the stream at an await.
Notice(k) ==
    /\ conn[k] \in {"cut", "dropped"}
    /\ conn' = [conn EXCEPT ![k] = "broken"]
    /\ UNCHANGED <<server, wire, log>> /\ ServerOnly

Cancelled(k) ==
    /\ Disconnected(k) /\ Running(k)
    /\ server' = [server EXCEPT ![k] = Gone(@)]
    /\ UNCHANGED <<conn, wire, log>> /\ ServerOnly

-----------------------------------------------------------------------------
Init ==
    /\ dialog = Fresh
    /\ reader = [k \in Starts |-> [pc |-> "none", buf |-> <<>>, finished |-> FALSE]]
    /\ server = [k \in Starts |-> [pc |-> "none", provider |-> None, status |-> 0, total |-> 0,
                                   idx |-> 0, processed |-> 0, consecutive |-> 0]]
    /\ conn = [k \in Starts |-> "none"]
    /\ wire = [k \in Starts |-> <<>>]
    /\ log = [k \in Starts |-> <<>>]
    /\ files \in {<<config>> : config \in Configs}

Client(k) == FetchAnswered(k) \/ FetchRefused(k) \/ ReadChunk(k) \/ ReadEnd(k) \/ ReadFails(k)
Server(k) == Request(k) \/ Load(k) \/ LoopCall(k) \/ CallAnswered(k) \/ CallFailed(k) \/ Finish(k)
Network(k) == Drop(k) \/ Notice(k)

\* Nothing is under way; the user may leave it at that.
Quiescent ==
    /\ \A k \in Starts : ~Reading(k) /\ server[k].pc \in {"none", "gone"}
    /\ UNCHANGED vars

Next ==
    \/ \E k \in Starts :
          \/ \E p \in Providers : StartAnalysis(k, p)
          \/ Client(k) \/ Server(k) \/ Network(k) \/ BreakOff(k) \/ Cancelled(k)
    \/ ListProviders \/ Cancel \/ Leave \/ EditFile \/ Quiescent

Spec == Init /\ [][Next]_vars

\* The event loops of browser and server keep running.  Nothing is assumed of
\* the network: a hang-up may never arrive.
Fairness == \A k \in Starts : WF_vars(Client(k)) /\ WF_vars(Server(k))

FairSpec == Spec /\ Fairness

-----------------------------------------------------------------------------
(* Properties.                                                             *)

\* The dialog never shows more than there is: errors within what is done,
\* done within the batch; half an event waits in buf at most.
TypeOK ==
    /\ dialog.step \in {"config", "running", "done"}
    /\ dialog.current \in Starts \cup {0}
    /\ 0 <= dialog.errors /\ dialog.errors <= dialog.done
    /\ dialog.done <= dialog.total /\ dialog.total <= MaxBatch
    /\ dialog.stopped \in {None, "circuit_breaker", "disconnected"}
    /\ dialog.listed = None \/ dialog.listed \subseteq Providers
    /\ \A k \in Starts :
         /\ Len(reader[k].buf) <= 1
         /\ conn[k] \in {"none", "open", "ended", "cut", "dropped", "broken"}
         /\ server[k].idx <= server[k].total

\* Events of the log that the dialog has been given whole.
Delivered(k) ==
    LET under == Cardinality({n \in DOMAIN wire[k] : wire[k][n].half = 2})
    IN  SubSeq(log[k], 1, Len(log[k]) - under)
ErrorsIn(events) == Cardinality({n \in DOMAIN events : events[n].type = "error"})

\* However the stream is cut into chunks, a dialog that is running or done
\* shows exactly what the events received so far say: none is lost with the
\* end of a chunk, none counted twice (AnalyzeModal.tsx:164-167).
DialogReplaysStream ==
    dialog.step \in {"running", "done"} =>
      LET events == Delivered(dialog.current) IN
      /\ dialog.errors = ErrorsIn(events)
      /\ dialog.done = IF events = <<>> THEN 0 ELSE Last(events).done
      /\ dialog.step = "done" <=> \E n \in DOMAIN events : events[n].type = "done"

\* A result accounts for every finding of the batch, each once, as a verdict or
\* as an error, unless it says that the breaker stopped it.  A batch cut short by
\* a hang-up, however late the server hears of it, never becomes a result.
ResultIsComplete ==
    dialog.step = "done" /\ dialog.stopped # "circuit_breaker" =>
      LET n == server[dialog.current].total IN
      /\ dialog.done = n /\ dialog.total = n
      /\ \A i \in 1..n : log[dialog.current][i].done = i

\* One read loop writes to the dialog at a time: a cancelled one never adds
\* its events to those of the next start, and a running dialog has its loop.
OneReader ==
    /\ \A k \in Starts : Reading(k) =>
         dialog.current = k /\ dialog.step \in {"running", "done"}
    /\ dialog.step = "running" => Reading(dialog.current)

\* A call leaves only for a provider that the file, as it is at that moment,
\* calls local, or that is remote, allowed, listed and has its key - also
\* when the file was edited after the dialog listed it or the batch began.
GateHolds ==
    [][\A k \in Starts : server[k].pc # "calling" /\ server'[k].pc = "calling" =>
         LET entry == Last(files)[server[k].provider] IN
         entry.local \/ (RemoteAllowed /\ entry.host \in Allowlist /\ entry.key)]_vars

\* A running dialog ends: in a result, an error or the form - whatever
\* breaks, with the server, the database or the provider.
DialogEnds == dialog.step = "running" ~> dialog.step # "running"
=============================================================================
