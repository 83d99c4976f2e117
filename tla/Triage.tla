------------------------------- MODULE Triage -------------------------------
(***************************************************************************)
(* Triage of ingested findings: the requests that write verdicts, running  *)
(* concurrently over one SQLite database.                                  *)
(*                                                                         *)
(*   - PATCH /findings/{id}/verdict   (routers/findings.py)                *)
(*   - POST  /runs/{id}/reset         (routers/runs.py)                    *)
(*   - POST  /runs/{id}/analyze       (routers/analyze.py, ai/analyze_loop)*)
(*                                                                         *)
(* Atomicity.  SELECTs run in autocommit and the first DML statement takes *)
(* SQLite's write lock, held to the commit: a handler is a sequence of     *)
(* reads into its session, each a step, then one step that flushes and     *)
(* commits.  PATCH and reset run on worker threads and interleave with     *)
(* everything; the analyses share the event loop, so an analysis yields to *)
(* another only where its code awaits or yields (LoopFree).                *)
(***************************************************************************)
EXTENDS Naturals, Sequences, FiniteSets

CONSTANTS
    Runs, Identities, Findings,
    RunOf,          \* Finding.run_id
    IdentityOf,     \* Finding.identity_id
    Marks, None,
    Patches,        \* editors, each with the drawer open on some finding
    Resets,         \* reset requests
    Analyses,       \* analysis requests
    MaxTries,       \* bound: PATCH requests sent by one editor
    MaxErrors       \* SWB_ANALYZE_MAX_CONSECUTIVE_ERRORS; 0 disables the breaker

Requests == Patches \cup Resets \cup Analyses

ASSUME RowsAssumption ==
    /\ RunOf \in [Findings -> Runs]
    /\ IdentityOf \in [Findings -> Identities]
    /\ IsFiniteSet(Findings)
ASSUME RequestsAssumption ==
    /\ Patches \cap Resets = {}
    /\ Patches \cap Analyses = {}
    /\ Resets \cap Analyses = {}
    /\ None \notin Requests \cup Findings \cup Identities \cup Runs
    /\ "unmarked" \notin Marks
ASSUME BoundsAssumption == MaxTries \in Nat \ {0} /\ MaxErrors \in Nat

INSTANCE Verdicts WITH Writers <- Requests

VARIABLES
    identity,       \* finding_identities: the verdict snapshot of each row
    journal,        \* verdict_events of each identity, in commit order
    counts,         \* runs.counts_by_verdict
    activeRuns,     \* analyze_loop._active_runs
    pc,             \* where each request is in its handler
    mem,            \* the identity object in each request's session; a commit or a
                    \* rollback expires it
    target,         \* the finding a PATCH names; the run of a reset
    seen,           \* the finding as an editor's drawer last showed it
    tries,          \* PATCH requests an editor has sent
    cached,         \* counts_by_verdict of the Run object in a reset's session
    passed,         \* identities a reset has read as unmarked and gone past
    held,           \* the identity whose object a request is about to flush
    job,            \* run and flags of an analysis
    outcome,        \* per finding of the batch, what the event stream said
    errors,         \* consecutive_errors
    current         \* the finding the provider is being asked about

rows      == <<identity, journal, counts>>
patchVars == <<seen, tries>>
resetVars == <<cached, passed>>
loopVars  == <<job, outcome, errors, current>>
vars == <<identity, journal, counts, activeRuns, pc, mem, target, seen, tries,
          cached, passed, held, job, outcome, errors, current>>

-----------------------------------------------------------------------------
(* Rows and aggregates.                                                    *)

FindingsOf(r) == {f \in Findings : RunOf[f] = r}
IdentitiesOf(r) == {IdentityOf[f] : f \in FindingsOf(r)}

\* The GROUP BY of recompute_counts_by_verdict over given identity rows.
CountFrom(table, r) ==
    [v \in VerdictValues |->
        Cardinality({f \in FindingsOf(r) : table[IdentityOf[f]].verdict = v})]

Tally(r) == CountFrom(identity, r)

\* recompute_counts_by_verdict: under the write lock, so over the rows the
\* transaction commits.  loaded holds counts_by_verdict of the Run object the
\* session already has, if it has one: an equal value is then not sent.
\* With a bug: the aggregate is read before the verdict is flushed.
RecomputeBeforeFlush(table, r, loaded) == [counts EXCEPT ![r] = Tally(r)]
Recompute(table, r, loaded) ==
    [counts EXCEPT ![r] = IF CountFrom(table, r) \in loaded THEN @ ELSE CountFrom(table, r)]

-----------------------------------------------------------------------------
(* PATCH: FindingDrawer on the client, update_verdict on the server.       *)

\* The drawer fetches a finding: GET /findings/{id}.
PatchGet(p) ==
    /\ pc[p] = "idle"
    /\ \E f \in Findings :
        /\ target' = [target EXCEPT ![p] = f]
        /\ seen' = [seen EXCEPT ![p] = identity[IdentityOf[f]]]
    /\ pc' = [pc EXCEPT ![p] = "deciding"]
    /\ UNCHANGED <<rows, activeRuns, mem, tries, resetVars, held, loopVars>>

\* The request arrives and the handler loads the finding and its identity.
PatchRead(p) ==
    /\ pc[p] = "deciding"
    /\ mem' = [mem EXCEPT ![p] = identity[IdentityOf[target[p]]]]
    /\ tries' = [tries EXCEPT ![p] = @ + 1]
    /\ pc' = [pc EXCEPT ![p] = "read"]
    /\ UNCHANGED <<rows, activeRuns, target, seen, resetVars, held, loopVars>>

\* write_verdict with the client's version finds the row at that version.
PatchCommit(p) ==
    LET i == IdentityOf[target[p]] IN
    /\ pc[p] = "read"
    /\ CasMatches(identity[i], seen[p].version)
    /\ \E v \in VerdictValues :
        /\ identity' = [identity EXCEPT
                         ![i] = CasWrite(@, mem[p], v, p, p, seen[p].version)]
        /\ journal' = [journal EXCEPT
                         ![i] = Append(@, EventOf(mem[p], v, "human", p))]
    /\ counts' = Recompute(identity', RunOf[target[p]], {})
    /\ mem' = [mem EXCEPT ![p] = None]
    /\ pc' = [pc EXCEPT ![p] = "saved"]
    /\ UNCHANGED <<activeRuns, target, patchVars, resetVars, held, loopVars>>

\* VersionConflict: the transaction is rolled back, the answer is a 409.
PatchConflict(p) ==
    /\ pc[p] = "read"
    /\ ~CasMatches(identity[IdentityOf[target[p]]], seen[p].version)
    /\ mem' = [mem EXCEPT ![p] = None]
    /\ pc' = [pc EXCEPT ![p] = "conflict"]
    /\ UNCHANGED <<rows, activeRuns, target, patchVars, resetVars, held, loopVars>>

\* The drawer shows the row read after the commit or the rollback (the 409
\* carries it, a 200 makes the drawer fetch it); the editor may write again.
PatchShow(p) ==
    /\ pc[p] \in {"saved", "conflict"}
    /\ seen' = [seen EXCEPT ![p] = identity[IdentityOf[target[p]]]]
    /\ pc' = [pc EXCEPT ![p] = IF tries[p] < MaxTries THEN "deciding" ELSE "closed"]
    /\ UNCHANGED <<rows, activeRuns, mem, target, tries, resetVars, held, loopVars>>

-----------------------------------------------------------------------------
(* Reset: reset_verdicts.                                                  *)

\* The handler loads the Run row; its session keeps the object.
ResetLoad(q) ==
    /\ pc[q] = "idle"
    /\ \E r \in Runs :
        /\ target' = [target EXCEPT ![q] = r]
        /\ cached' = [cached EXCEPT ![q] = counts[r]]
    /\ pc' = [pc EXCEPT ![q] = "guard"]
    /\ UNCHANGED <<rows, activeRuns, mem, patchVars, passed, held, loopVars>>

\* is_analysis_in_progress: 409 while the run is in _active_runs.
Refused(r) == r \in activeRuns

ResetGuard(q) ==
    /\ pc[q] = "guard"
    /\ pc' = [pc EXCEPT ![q] = IF Refused(target[q]) THEN "refused" ELSE "scan"]
    /\ UNCHANGED <<rows, activeRuns, mem, target, patchVars, resetVars, held, loopVars>>

\* The loop lazily loads the next distinct identity.  Up to the first marked
\* one nothing has been written, so each load sees the latest commit.
ResetScan(q) ==
    /\ pc[q] = "scan"
    /\ \E i \in IdentitiesOf(target[q]) \ passed[q] :
        \/ /\ ~IsMarked(identity[i])
           /\ passed' = [passed EXCEPT ![q] = @ \cup {i}]
           /\ UNCHANGED <<mem, held, pc>>
        \/ /\ IsMarked(identity[i])
           /\ mem' = [mem EXCEPT ![q] = identity[i]]
           /\ held' = [held EXCEPT ![q] = i]
           /\ pc' = [pc EXCEPT ![q] = "flush"]
           /\ UNCHANGED passed
    /\ UNCHANGED <<rows, activeRuns, target, patchVars, cached, loopVars>>

\* The identities the committing transaction writes: the one it holds, and
\* the marked ones it reads after the flush has taken the write lock.
\* With a bug: the loop ends with the first one.
ResetWritesFirst(q, i) == i = held[q]
ResetWrites(q, i) ==
    /\ i \in IdentitiesOf(target[q]) \ passed[q]
    /\ i = held[q] \/ IsMarked(identity[i])

\* The object of each of them: stale for the held one, fresh for the others.
ResetObject(q, i) == IF i = held[q] THEN mem[q] ELSE identity[i]

\* The first flush, the rest of the loop, the recompute and the commit.
ResetCommit(q) ==
    /\ \/ pc[q] = "flush"
       \/ pc[q] = "scan" /\ IdentitiesOf(target[q]) \subseteq passed[q]
    /\ identity' = [i \in Identities |->
         IF ResetWrites(q, i)
         THEN SystemWrite(identity[i], ResetObject(q, i), "unmarked", "reset", None, q)
         ELSE identity[i]]
    /\ journal' = [i \in Identities |->
         IF ResetWrites(q, i)
         THEN Append(journal[i], EventOf(ResetObject(q, i), "unmarked", "reset", q))
         ELSE journal[i]]
    /\ counts' = Recompute(identity', target[q], {cached[q]})
    /\ mem' = [mem EXCEPT ![q] = None]
    /\ held' = [held EXCEPT ![q] = None]
    /\ cached' = [cached EXCEPT ![q] = None]
    /\ passed' = [passed EXCEPT ![q] = {}]
    /\ pc' = [pc EXCEPT ![q] = "closed"]
    /\ UNCHANGED <<activeRuns, target, patchVars, loopVars>>

-----------------------------------------------------------------------------
(* AI analysis: stream() in routers/analyze.py, run_analysis.              *)

Jobs == [run : Runs, override : BOOLEAN, onlyUnmarked : BOOLEAN]
NoJob == [run |-> None, override |-> FALSE, onlyUnmarked |-> FALSE]
Outcomes == {"none", "pending", "written", "skipped", "failed"}

\* An analysis between two awaits holds the event loop.
OnLoop == {"loaded", "answered"}
LoopFree(a) == \A b \in Analyses \ {a} : pc[b] \notin OnLoop

\* The body of run_analysis from _active_runs.add to the finally.
Live == {"loop", "waiting", "answered", "done"}
LiveRuns == {job[a].run : a \in {b \in Analyses : pc[b] \in Live}}

\* T-24: a human decision is left alone unless override is given.
\* With a bug: nothing is left alone.
ProtectedNever(row, override) == FALSE
Protected(row, override) == ~override /\ HumanMarked(row)

\* load_findings_for_analysis.
InBatch(j, f) ==
    /\ RunOf[f] = j.run
    /\ j.onlyUnmarked => ~IsMarked(identity[IdentityOf[f]])
    /\ ~Protected(identity[IdentityOf[f]], j.override)

Pending(a) == {f \in Findings : outcome[a][f] = "pending"}

\* The circuit breaker.  With a bug: one call too late.
TrippedLate(a) == MaxErrors > 0 /\ errors[a] > MaxErrors
Tripped(a) == MaxErrors > 0 /\ errors[a] >= MaxErrors

\* Provider and prompt are validated and the stream starts: the batch is read.
\* Its rows are read again before each write, so one step stands for the reads.
AnalyzeLoad(a) ==
    /\ pc[a] = "idle"
    /\ LoopFree(a)
    /\ \E j \in Jobs :
        /\ job' = [job EXCEPT ![a] = j]
        /\ outcome' = [outcome EXCEPT ![a] =
             [f \in Findings |-> IF InBatch(j, f) THEN "pending" ELSE "none"]]
    /\ pc' = [pc EXCEPT ![a] = "loaded"]
    /\ UNCHANGED <<rows, activeRuns, mem, target, patchVars, resetVars, held,
                   errors, current>>

\* _active_runs.add, before anything else in the generator.
\* With a bug: after the early return for an empty batch.
RegisteredUnlessEmpty(a) ==
    IF Pending(a) = {} THEN activeRuns ELSE activeRuns \cup {job[a].run}
Registered(a) == activeRuns \cup {job[a].run}

\* The generator registers the run; an empty batch is reported done at once.
AnalyzeEnter(a) ==
    /\ pc[a] = "loaded"
    /\ activeRuns' = Registered(a)
    /\ pc' = [pc EXCEPT ![a] = IF Pending(a) = {} THEN "done" ELSE "loop"]
    /\ UNCHANGED <<rows, mem, target, patchVars, resetVars, held, loopVars>>

\* The next finding goes to the provider.
AnalyzeCall(a) ==
    /\ pc[a] = "loop"
    /\ LoopFree(a)
    /\ ~Tripped(a)
    /\ \E f \in Pending(a) : current' = [current EXCEPT ![a] = f]
    /\ pc' = [pc EXCEPT ![a] = "waiting"]
    /\ UNCHANGED <<rows, activeRuns, mem, target, patchVars, resetVars, held,
                   job, outcome, errors>>

\* The provider answered: the identity is read (session.refresh, or with
\* override the lazy load) and, unless it may be overwritten, skipped (T-32).
AnalyzeAnswer(a) ==
    LET i == IdentityOf[current[a]] IN
    /\ pc[a] = "waiting"
    /\ LoopFree(a)
    /\ errors' = [errors EXCEPT ![a] = 0]
    /\ IF Protected(identity[i], job[a].override)
       THEN /\ outcome' = [outcome EXCEPT ![a][current[a]] = "skipped"]
            /\ current' = [current EXCEPT ![a] = None]
            /\ pc' = [pc EXCEPT ![a] = "loop"]
            /\ UNCHANGED <<mem, held>>
       ELSE /\ mem' = [mem EXCEPT ![a] = identity[i]]
            /\ held' = [held EXCEPT ![a] = i]
            /\ pc' = [pc EXCEPT ![a] = "answered"]
            /\ UNCHANGED <<outcome, current>>
    /\ UNCHANGED <<rows, activeRuns, target, patchVars, resetVars, job>>

\* write_verdict and the commit of this finding; parse_response never yields
\* "unmarked".  counts_by_verdict is left for the end of the batch.
AnalyzeWrite(a) ==
    LET i == held[a] IN
    /\ pc[a] = "answered"
    /\ \E v \in Marks :
        /\ identity' = [identity EXCEPT ![i] = SystemWrite(@, mem[a], v, "ai", a, a)]
        /\ journal' = [journal EXCEPT ![i] = Append(@, EventOf(mem[a], v, "ai", a))]
    /\ outcome' = [outcome EXCEPT ![a][current[a]] = "written"]
    /\ mem' = [mem EXCEPT ![a] = None]
    /\ held' = [held EXCEPT ![a] = None]
    /\ current' = [current EXCEPT ![a] = None]
    /\ pc' = [pc EXCEPT ![a] = "loop"]
    /\ UNCHANGED <<counts, activeRuns, target, patchVars, resetVars,
                   job, errors>>

\* The provider call or the parsing raised.
AnalyzeError(a) ==
    /\ pc[a] = "waiting"
    /\ LoopFree(a)
    /\ outcome' = [outcome EXCEPT ![a][current[a]] = "failed"]
    /\ errors' = [errors EXCEPT ![a] = @ + 1]
    /\ current' = [current EXCEPT ![a] = None]
    /\ pc' = [pc EXCEPT ![a] = "loop"]
    /\ UNCHANGED <<rows, activeRuns, mem, target, patchVars, resetVars, held,
                   job>>

\* Recompute, commit, done event.
Conclude(a) ==
    /\ LoopFree(a)
    /\ counts' = Recompute(identity, job[a].run, {})
    /\ pc' = [pc EXCEPT ![a] = "done"]
    /\ UNCHANGED <<identity, journal, activeRuns, mem, target, patchVars,
                   resetVars, held, loopVars>>

\* The loop is over: the batch is exhausted or the breaker has tripped.
\* With a bug: only when it is exhausted.
StopsWhenExhausted(a) == Pending(a) = {}
Stops(a) == Pending(a) = {} \/ Tripped(a)

AnalyzeFinish(a) == pc[a] = "loop" /\ Stops(a) /\ Conclude(a)

\* is_disconnected() said so before the next call.
AnalyzeDisconnected(a) == pc[a] = "loop" /\ ~Stops(a) /\ Conclude(a)

\* The finally clause.  With a bug: the guard is released after the loop only.
ReleasedWhenDone(a) == IF pc[a] = "done" THEN activeRuns \ {job[a].run} ELSE activeRuns
Released(a) == activeRuns \ {job[a].run}

LeaveGenerator(a) ==
    /\ LoopFree(a)
    /\ activeRuns' = Released(a)
    /\ current' = [current EXCEPT ![a] = None]
    /\ UNCHANGED <<rows, mem, target, patchVars, resetVars, held, job, outcome, errors>>

\* The stream is exhausted.
AnalyzeExit(a) ==
    /\ pc[a] = "done"
    /\ pc' = [pc EXCEPT ![a] = "closed"]
    /\ LeaveGenerator(a)

\* The stream is cancelled at a yield or while the provider is awaited: the
\* exception passes every handler but the finally clause, and no recompute.
AnalyzeCancel(a) ==
    /\ pc[a] \in {"loop", "waiting"}
    /\ pc' = [pc EXCEPT ![a] = "cancelled"]
    /\ LeaveGenerator(a)

\* The flush of write_verdict fails: the lock is not to be had in time, or the
\* identity was deleted.  The handler of the loop reads the finding, expired in
\* a session that awaits a rollback, and raises again.
AnalyzeFail(a) ==
    /\ pc[a] = "answered"
    /\ pc' = [pc EXCEPT ![a] = "cancelled"]
    /\ LeaveGenerator(a)

-----------------------------------------------------------------------------
Init ==
    /\ identity = [i \in Identities |-> FreshIdentity]
    /\ journal = [i \in Identities |-> <<>>]
    /\ counts = [r \in Runs |-> CountFrom([i \in Identities |-> FreshIdentity], r)]
    /\ activeRuns = {}
    /\ pc = [w \in Requests |-> "idle"]
    /\ mem = [w \in Requests |-> None]
    /\ target = [w \in Patches \cup Resets |-> None]
    /\ seen = [p \in Patches |-> FreshIdentity]
    /\ tries = [p \in Patches |-> 0]
    /\ cached = [q \in Resets |-> None]
    /\ passed = [q \in Resets |-> {}]
    /\ held = [w \in Resets \cup Analyses |-> None]
    /\ job = [a \in Analyses |-> NoJob]
    /\ outcome = [a \in Analyses |-> [f \in Findings |-> "none"]]
    /\ errors = [a \in Analyses |-> 0]
    /\ current = [a \in Analyses |-> None]

Patch(p) ==
    PatchGet(p) \/ PatchRead(p) \/ PatchCommit(p) \/ PatchConflict(p) \/ PatchShow(p)
Reset(q) == ResetLoad(q) \/ ResetGuard(q) \/ ResetScan(q) \/ ResetCommit(q)
AnalyzeStep(a) ==
    \/ AnalyzeEnter(a) \/ AnalyzeCall(a) \/ AnalyzeAnswer(a) \/ AnalyzeWrite(a)
    \/ AnalyzeError(a) \/ AnalyzeFinish(a) \/ AnalyzeExit(a)
Analyze(a) ==
    \/ AnalyzeLoad(a) \/ AnalyzeStep(a) \/ AnalyzeDisconnected(a) \/ AnalyzeCancel(a)
    \/ AnalyzeFail(a)

\* Every request has been answered.
Ended == {"closed", "refused", "cancelled"}
Quiescent == (\A w \in Requests : pc[w] \in Ended) /\ UNCHANGED vars

Next ==
    \/ \E p \in Patches : Patch(p)
    \/ \E q \in Resets : Reset(q)
    \/ \E a \in Analyses : Analyze(a)
    \/ Quiescent

Spec == Init /\ [][Next]_vars

\* The event loop keeps running and every provider call is answered or raises
\* (openai_compatible gives it a timeout), so a started analysis takes steps.
\* Nothing is assumed of editors and resets, nor that a client goes away.
FairSpec == Spec /\ \A a \in Analyses : WF_vars(AnalyzeStep(a))

-----------------------------------------------------------------------------
(* Correctness.                                                            *)

PatchStates == {"idle", "deciding", "read", "saved", "conflict", "closed"}
ResetStates == {"idle", "guard", "refused", "scan", "flush", "closed"}
AnalysisStates == Live \cup {"idle", "loaded", "closed", "cancelled"}

\* The values the tables, the guard and the sessions of the requests range over.
TypeOK ==
    /\ identity \in [Identities -> Snapshot]
    /\ journal \in [Identities -> Seq(VerdictEvent)]
    /\ counts \in [Runs -> [VerdictValues -> Nat]]
    /\ activeRuns \subseteq Runs
    /\ pc \in [Requests -> PatchStates \cup ResetStates \cup AnalysisStates]
    /\ mem \in [Requests -> Snapshot \cup {None}]
    /\ target \in [Patches \cup Resets -> Findings \cup Runs \cup {None}]
    /\ seen \in [Patches -> Snapshot]
    /\ tries \in [Patches -> 0..MaxTries]
    /\ cached \in [Resets -> [VerdictValues -> Nat] \cup {None}]
    /\ passed \in [Resets -> SUBSET Identities]
    /\ held \in [Resets \cup Analyses -> Identities \cup {None}]
    /\ job \in [Analyses -> Jobs \cup {NoJob}]
    /\ outcome \in [Analyses -> [Findings -> Outcomes]]
    /\ errors \in [Analyses -> Nat]
    /\ current \in [Analyses -> Findings \cup {None}]

\* The version of an identity never runs ahead of its history: whatever mix of
\* PATCH, reset and AI writes with stale objects, one event stands behind each
\* increment (write_verdict must not count a CAS write twice, verdicts.py:173).
VersionBounded ==
    \A i \in Identities : identity[i].version <= 1 + Len(journal[i])

\* The snapshot of an identity is the state its last event left it in.
SnapshotIsLastEvent ==
    \A i \in Identities : journal[i] # <<>> =>
        LET e == journal[i][Len(journal[i])] IN
        identity[i].verdict = e.new /\ identity[i].source = e.source

\* Each event starts from the verdict the previous one ended with.
EventsChain ==
    \A i \in Identities : \A n \in DOMAIN journal[i] :
        journal[i][n].old = IF n = 1 THEN "unmarked" ELSE journal[i][n - 1].new

\* With editors as the only writers the journal is the history of the row: one
\* version per event, events that chain, and the snapshot equal to the last one
\* with the rationale of the same request.
JournalIsHistory ==
    /\ \A i \in Identities : identity[i].version = 1 + Len(journal[i])
    /\ EventsChain
    /\ SnapshotIsLastEvent
    /\ \A i \in Identities : journal[i] # <<>> =>
           identity[i].rationale = journal[i][Len(journal[i])].by

\* The version of the row counts its events.  It does until a reset or an
\* analysis flushes an object older than the row, and never does again.
VersionExact(i) == identity[i].version = 1 + Len(journal[i])

\* T-38, what holds of it beside resets and analyses: a PATCH answered 200
\* replaced exactly the row on its editor's screen, whoever wrote in between,
\* as long as no write from a stale object has repeated a version of this row.
NoLostUpdate ==
    [][\A p \in Patches :
          /\ pc[p] = "read" /\ pc'[p] = "saved"
          /\ VersionExact(IdentityOf[target[p]])
          => seen[p] = identity[IdentityOf[target[p]]]]_vars

\* T-38 as verdicts.py:170-174 states it: the version moves on every write, so
\* that a PATCH is answered 409 if the row changed under it for any reason, an
\* AI verdict or a reset included.
ConflictCatchesAll ==
    [][\A p \in Patches : pc[p] = "read" /\ pc'[p] = "saved" =>
          seen[p] = identity[IdentityOf[target[p]]]]_vars

\* Editors alone make the identities atomic registers: a row is its verdict,
\* the request that wrote it and the version, an editor looks at what its
\* drawer shows, and a PATCH takes effect in the step that commits it.
RowOf(snapshot) ==
    [verdict |-> snapshot.verdict, by |-> snapshot.rationale, version |-> snapshot.version]
ViewedBy(p) ==
    IF pc[p] = "idle" THEN [id |-> None, row |-> None]
    ELSE [id |-> IdentityOf[target[p]], row |-> RowOf(seen[p])]
WriteOf(event) == [old |-> event.old, new |-> event.new, by |-> event.by]
WritesOf(events) == [n \in DOMAIN events |-> WriteOf(events[n])]

Register == INSTANCE VerdictRegister WITH
    Editors  <- Patches,
    register <- [i \in Identities |-> RowOf(identity[i])],
    history  <- [i \in Identities |-> WritesOf(journal[i])],
    view     <- [p \in Patches |-> ViewedBy(p)]

\* T-38: with editors as the only writers, no interleaving of fetches, PATCHes,
\* conflicts and retries shows anything an atomic register would not.
EditsAreAtomic == Register!Spec

\* All writers together keep an audit log: whatever stale objects resets and
\* analyses write from, and whatever columns of theirs are not sent because
\* they look unchanged, an event is appended for each write, from the same
\* object, and the row follows the events.
LogRow(i) == [verdict |-> identity[i].verdict, version |-> identity[i].version]

Log == INSTANCE AuditLog WITH
    Events <- VerdictEvent,
    row    <- [i \in Identities |-> LogRow(i)],
    log    <- journal

\* verdict_events is the history of every identity under every mix of PATCH,
\* reset and analysis (verdicts.py: the one place that changes a verdict).
KeepsLog == Log!Spec

\* At every moment the verdict of a row is what the last event that changed one
\* says, although row and event are both written from an object that may be older
\* than the row; and no version is without its event.
VerdictsExplained == Log!Explained

\* No other run shows an identity of this one.
Exclusive(r) ==
    \A f, g \in Findings :
        IdentityOf[f] = IdentityOf[g] /\ RunOf[f] = r => RunOf[g] = r

\* counts_by_verdict of a run is the tally of its findings.
Right(r) == counts[r] = Tally(r)

\* The counter was rewritten after the reset had loaded its Run object.
Overtaken(q) == cached[q] # counts[target[q]]

\* The step commits a recompute of r: a PATCH, the end of a batch, or a reset
\* whose Run object is not overtaken.
Recounts(r) ==
    \/ \E p \in Patches : pc[p] = "read" /\ pc'[p] = "saved" /\ RunOf[target[p]] = r
    \/ \E a \in Analyses : pc[a] = "loop" /\ pc'[a] = "done" /\ job[a].run = r
    \/ \E q \in Resets : /\ pc[q] \in {"scan", "flush"} /\ pc'[q] = "closed"
                        /\ target[q] = r /\ ~Overtaken(q)

\* The step may leave the counter of r behind its findings: a verdict in the
\* middle of a batch, or a reset whose Run object is overtaken.
Unsettles(r) ==
    \/ \E a \in Analyses : pc[a] = "answered" /\ pc'[a] = "loop" /\ job[a].run = r
    \/ \E q \in Resets : /\ pc[q] \in {"scan", "flush"} /\ pc'[q] = "closed"
                        /\ target[q] = r /\ Overtaken(q)

\* T-32, what holds of it: of a run that shares no identity, every recompute
\* leaves the counter right, in whatever order PATCH, reset and analysis commit,
\* and a right one stays right through every step but those of Unsettles.
CountsFresh ==
    [][\A r \in Runs : Exclusive(r) =>
          /\ Recounts(r) => Right(r)'
          /\ Right(r) /\ ~Unsettles(r) => Right(r)']_vars

\* A batch of r is under way, or was cut off before its recompute.
MidBatch(r) ==
    \E a \in Analyses : job[a].run = r /\ pc[a] \in {"loop", "waiting", "answered", "cancelled"}

\* T-32 as recompute_counts_by_verdict states it (verdicts.py:195-213, which
\* names reset_verdicts): in no order of events is the write of another request
\* lost to an outdated snapshot, so outside a batch the counter is right.
CountsNeverLost ==
    \A r \in Runs : Exclusive(r) /\ ~MidBatch(r) => Right(r)

\* T-66: a run is marked as being analysed only while some analysis of it is
\* live, so no exit path can lock a run against reset and deletion for good.
GuardNotLeaked == activeRuns \subseteq LiveRuns

\* T-66: a live analysis that shares its run with no other one is guarded, from
\* the start of the generator to its finally clause.
SoleAnalysisGuarded ==
    \A a \in Analyses :
        pc[a] \in Live /\ (\A b \in Analyses \ {a} : job[b].run # job[a].run)
            => job[a].run \in activeRuns

\* T-24/T-32: a human verdict already there when the provider answered is never
\* overwritten by an analysis without override, however long the call took.
AnalysisSparesDecision ==
    [][\A a \in Analyses :
          /\ pc[a] = "answered" /\ pc'[a] = "loop"
          /\ ~job[a].override /\ HumanMarked(identity[held[a]])
          => identity[held[a]] # mem[a]]_vars

\* T-24 as analyze_loop.py states it: no human verdict is overwritten by AI
\* without override.
AnalysisNeverOverwrites ==
    [][\A a \in Analyses : pc[a] = "answered" /\ pc'[a] = "loop" =>
          job[a].override \/ ~HumanMarked(identity[held[a]])]_vars

\* A reset leaves every identity of its run unmarked, human verdicts and those
\* given while it was scanning included, except the ones it had already gone
\* past.  The code (runs.py:627-632) and tests/server/test_verdicts.py:279-312
\* agree on this; docs/api/reference.md:205 says that a reset preserves human
\* verdicts, and is contradicted.
ResetClears ==
    [][\A q \in Resets : pc[q] \in {"scan", "flush"} /\ pc'[q] = "closed" =>
          \A i \in IdentitiesOf(target[q]) \ passed[q] : ~IsMarked(identity'[i])]_vars

\* The breaker: once MaxErrors calls in a row have failed no further one is made.
BreakerHolds ==
    MaxErrors > 0 => \A a \in Analyses : errors[a] <= MaxErrors

\* Every analysis that starts ends: batch exhausted, stopped or cancelled.
AnalysisEnds ==
    \A a \in Analyses : pc[a] = "loaded" ~> pc[a] \in Ended
=============================================================================
