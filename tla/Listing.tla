------------------------------ MODULE Listing -------------------------------
(***************************************************************************)
(* The readers of a run: a client that walks the pages of list_findings,   *)
(* the diff against a baseline (routers/runs.py) and the report            *)
(* (routers/report.py, report_gen.py), beside the writers that change what *)
(* they read: PATCH, re-ingest, deletion of a run, baseline.               *)
(*                                                                         *)
(* Every SELECT is a transaction of its own, so a request is a sequence of *)
(* reads and the writers come in between; a writer is one step, its commit *)
(* (Triage and RunStore have their inside).  One reader at a time: readers *)
(* do not influence each other.                                            *)
(***************************************************************************)
EXTENDS Rows, SequencesExt

CONSTANTS
    Runs, Projects, ProjectOf,
    Identities,     \* numbers, ordered as their swb_ids
    Verdicts,       \* the verdict values shown, as a sequence (VERDICT_ORDER)
    Reports,        \* the reports a run may have been uploaded with
    Metas,          \* and what their enrichments may say of each result
    RowIds,         \* orders in which uuid4 may number the rows of a file
    Queries,        \* [sort, dir, verdicts, size] of list_findings
    MaxFindings,    \* SWB_REPORT_MAX_FINDINGS
    MaxWrites       \* commits of the writers beside the reader

ASSUME ListingAssumption ==
    /\ ProjectOf \in [Runs -> Projects] /\ None \notin Runs
    /\ Identities \subseteq Nat
    /\ Verdicts \in Seq(Range(Verdicts)) /\ "unmarked" \in Range(Verdicts)
    /\ {None, "gone", "unread"} \cap Range(Verdicts) = {} /\ None \notin {"gone", "unread"}
    /\ \A r \in Runs :
         /\ Reports[r] # {} /\ Metas[r] # {}
         /\ \A rep \in Reports[r] : rep.results \in Seq(Range(rep.results))
         /\ \A m \in Metas[r] : \A n \in DOMAIN m : m[n].identity \in Identities
    /\ \A ids \in RowIds :
         /\ IsInjective(ids) /\ Range(ids) \subseteq Nat
         /\ \A r \in Runs : \A rep \in Reports[r] : DOMAIN rep.results \subseteq DOMAIN ids
    /\ \A query \in Queries : query.size \in Int
    /\ MaxFindings \in Nat /\ MaxWrites \in Nat

VARIABLES
    report,     \* the SARIF of each run, for good
    meta,       \* the meta it was last ingested with
    rows,       \* findings; {} once the run is deleted
    counts,     \* runs.counts
    alive,      \* the runs there are
    verdict,    \* of each identity; None when it has no row
    baseline,   \* projects.baseline_run_id
    setter,     \* the run set_baseline has found and is about to store
    reader,     \* the request being answered
    writes      \* commits so far

vars == <<report, meta, rows, counts, alive, verdict, baseline, setter, reader, writes>>
store == <<report, meta, rows, counts, alive, verdict, baseline, setter, writes>>

Idle == [kind |-> "none", pc |-> "idle"]

IdentitiesIn(r) == {x.identity : x \in rows[r]}

-----------------------------------------------------------------------------
(* Order and pages.                                                        *)

VerdictRank(v) == CHOOSE n \in DOMAIN Verdicts : Verdicts[n] = v

\* The first ORDER BY expression; a name not in the white list sorts by id.
SortKey(x, sort) ==
    CASE sort = "severity" -> SeverityRank[x.severity]
      [] sort = "verdict" -> VerdictRank(verdict[x.identity])
      [] sort = "swb_id" -> x.identity
      [] OTHER -> x.id

\* ORDER BY expression, id: the row id decides between equal keys.
\* With a bug: it does not.
BeforeByKey(x, y, query) ==
    LET a == SortKey(x, query.sort)
        b == SortKey(y, query.sort)
    IN  IF query.dir = "desc" THEN a > b ELSE a < b
Before(x, y, query) ==
    LET a == SortKey(x, query.sort)
        b == SortKey(y, query.sort)
    IN  \/ IF query.dir = "desc" THEN a > b ELSE a < b
        \/ a = b /\ x.id < y.id

\* The sequences of S that an ORDER BY allows the database to return.
Sorted(S, Less(_, _)) ==
    {s \in SetToSeqs(S) : \A i, j \in DOMAIN s : i < j => ~Less(s[j], s[i])}

\* With a bug: whatever the client asks for.
AtLeastAny(n) == n
AtLeastOne(n) == IF n < 1 THEN 1 ELSE n

Page(s, page, size) ==
    LET offset == (page - 1) * size
    IN  SubSeq(s, offset + 1, Min({offset + size, Len(s)}))

\* The WHERE clause; a filter by verdict joins the identities.
Matching(r, verdicts) ==
    {x \in rows[r] : verdicts = None \/ verdict[x.identity] \in verdicts}

\* get_aggregations: the groups of a run by severity, and their sizes.
Aggregation(r) ==
    [s \in {x.severity : x \in rows[r]} |-> Cardinality({x \in rows[r] : x.severity = s})]

-----------------------------------------------------------------------------
(* A walk over the pages of a run.                                         *)

\* disturbed: a writer changed what the walk reads since it began.
WalkStart(r, query) ==
    /\ reader.pc = "idle"
    /\ reader' = [kind |-> "walk", pc |-> "check", run |-> r, query |-> query,
                  page |-> 1, items |-> <<>>, total |-> 0, status |-> 0, disturbed |-> FALSE]
    /\ UNCHANGED store

WalkCheck ==
    /\ reader.kind = "walk" /\ reader.pc = "check"
    /\ reader' = IF reader.run \in alive THEN [reader EXCEPT !.pc = "count"]
                 ELSE [reader EXCEPT !.pc = "done", !.status = 404]
    /\ UNCHANGED store

WalkCount ==
    /\ reader.kind = "walk" /\ reader.pc = "count"
    /\ reader' = [reader EXCEPT !.pc = "page",
                  !.total = Cardinality(Matching(reader.run, reader.query.verdicts))]
    /\ UNCHANGED store

\* A page shorter than asked for is the last.
WalkPage ==
    /\ reader.kind = "walk" /\ reader.pc = "page"
    /\ LET query == reader.query
           size  == AtLeastOne(query.size)
           Less(x, y) == Before(x, y, query)
       IN  \E s \in Sorted(Matching(reader.run, query.verdicts), Less) :
             LET items == Page(s, AtLeastOne(reader.page), size) IN
             reader' = [reader EXCEPT !.items = @ \o items, !.page = @ + 1,
                        !.pc = IF Len(items) < size THEN "done" ELSE "check",
                        !.status = IF Len(items) < size THEN 200 ELSE @]
    /\ UNCHANGED store

Walk == WalkCheck \/ WalkCount \/ WalkPage

-----------------------------------------------------------------------------
(* diff_run.  asked: the baseline parameter, or None.                      *)

DiffStart(r, asked) ==
    /\ reader.pc = "idle"
    /\ reader' = [kind |-> "diff", pc |-> "run", run |-> r, base |-> asked,
                  target |-> {}, against |-> {}, status |-> 0, disturbed |-> FALSE]
    /\ UNCHANGED store

DiffAnswer(status) == reader' = [reader EXCEPT !.pc = "done", !.status = status]

DiffRun ==
    /\ reader.kind = "diff" /\ reader.pc = "run"
    /\ IF reader.run \in alive THEN reader' = [reader EXCEPT !.pc = "project"]
       ELSE DiffAnswer(404)
    /\ UNCHANGED store

\* The parameter, or the baseline of the project.
DiffBaseline ==
    /\ reader.kind = "diff" /\ reader.pc = "project"
    /\ LET base == IF reader.base # None THEN reader.base ELSE baseline[ProjectOf[reader.run]]
       IN  IF base = None THEN DiffAnswer(400)
           ELSE reader' = [reader EXCEPT !.pc = "exists", !.base = base]
    /\ UNCHANGED store

\* With a bug: the baseline is taken to exist.
BaselineExistsAlways(r) == TRUE
BaselineExists(r) == r \in alive

DiffExists ==
    /\ reader.kind = "diff" /\ reader.pc = "exists"
    /\ IF ~BaselineExists(reader.base) THEN DiffAnswer(404)
       ELSE IF ProjectOf[reader.base] # ProjectOf[reader.run] THEN DiffAnswer(400)
       ELSE reader' = [reader EXCEPT !.pc = "target"]
    /\ UNCHANGED store

DiffTarget ==
    /\ reader.kind = "diff" /\ reader.pc = "target"
    /\ reader' = [reader EXCEPT !.pc = "against", !.target = rows[reader.run]]
    /\ UNCHANGED store

DiffAgainst ==
    /\ reader.kind = "diff" /\ reader.pc = "against"
    /\ reader' = [reader EXCEPT !.pc = "done", !.against = rows[reader.base], !.status = 200]
    /\ UNCHANGED store

Diff == DiffRun \/ DiffBaseline \/ DiffExists \/ DiffTarget \/ DiffAgainst

\* Rows of S whose identity has no row in T, and those whose identity has.
Without(S, T) == {x \in S : \A y \in T : y.identity # x.identity}
With(S, T) == {x \in S : \E y \in T : y.identity = x.identity}

DiffNew == Without(reader.target, reader.against)
DiffUnchanged == With(reader.target, reader.against)
DiffClosed == Without(reader.against, reader.target)

-----------------------------------------------------------------------------
(* get_report and the document of report_gen.                              *)

ReportStart(r, verdicts) ==
    /\ reader.pc = "idle"
    /\ reader' = [kind |-> "report", pc |-> "run", run |-> r, verdicts |-> verdicts,
                  items |-> <<>>, loaded |-> [i \in Identities |-> "unread"],
                  toc |-> <<>>, cards |-> <<>>, status |-> 0, disturbed |-> FALSE]
    /\ UNCHANGED store

ReportAnswer(status) == reader' = [reader EXCEPT !.pc = "done", !.status = status]

ReportRun ==
    /\ reader.kind = "report" /\ reader.pc = "run"
    /\ IF reader.run \in alive THEN reader' = [reader EXCEPT !.pc = "query"]
       ELSE ReportAnswer(404)
    /\ UNCHANGED store

\* One more than the report may hold is enough to see that there are more.
\* With a bug: as many as it may hold.
FetchedExactly == MaxFindings
Fetched == MaxFindings + 1

ReportQuery ==
    /\ reader.kind = "report" /\ reader.pc = "query"
    /\ LET Less(x, y) == SeverityRank[x.severity] < SeverityRank[y.severity] IN
       \E s \in Sorted(Matching(reader.run, reader.verdicts), Less) :
         LET found == SubSeq(s, 1, Min({Fetched, Len(s)})) IN
         IF found = <<>> THEN ReportAnswer(404)
         ELSE IF Len(found) > MaxFindings THEN ReportAnswer(413)
         ELSE reader' = [reader EXCEPT !.pc = "toc", !.items = found]
    /\ UNCHANGED store

\* f.identity: a SELECT when the session does not have it yet.
\* With a bug: the session forgets what it has read.
LoadedAgain(loaded, i) == [loaded EXCEPT ![i] = verdict[i]]
Loaded(loaded, i) == IF loaded[i] = "unread" THEN [loaded EXCEPT ![i] = verdict[i]] ELSE loaded

\* The verdict printed: "unmarked" when the identity is gone.
Printed(v) == IF v = "gone" THEN "unmarked" ELSE v

ReportToc ==
    /\ reader.kind = "report" /\ reader.pc = "toc"
    /\ LET i == reader.items[Len(reader.toc) + 1].identity
           loaded == Loaded(reader.loaded, i)
           toc == Append(reader.toc, Printed(loaded[i]))
       IN  reader' = [reader EXCEPT !.loaded = loaded, !.toc = toc,
                      !.pc = IF Len(toc) = Len(reader.items) THEN "cards" ELSE "toc"]
    /\ UNCHANGED store

ReportCard ==
    /\ reader.kind = "report" /\ reader.pc = "cards"
    /\ LET i == reader.items[Len(reader.cards) + 1].identity
           loaded == Loaded(reader.loaded, i)
           cards == Append(reader.cards, Printed(loaded[i]))
           last == Len(cards) = Len(reader.items)
       IN  reader' = [reader EXCEPT !.loaded = loaded, !.cards = cards,
                      !.pc = IF last THEN "done" ELSE "cards",
                      !.status = IF last THEN 200 ELSE @]
    /\ UNCHANGED store

Report == ReportRun \/ ReportQuery \/ ReportToc \/ ReportCard

-----------------------------------------------------------------------------
(* The writers.                                                            *)

Writes == writes < MaxWrites /\ writes' = writes + 1

\* The request being answered, after a commit that touches what it reads.
Disturb(touched) ==
    reader' = IF reader.pc # "idle" /\ touched THEN [reader EXCEPT !.disturbed = TRUE] ELSE reader

\* Whether the request reads the run, or with a diff anything of its project.
Reads(r) ==
    \/ reader.pc # "idle" /\ reader.run = r
    \/ reader.kind = "diff" /\ (reader.base = r \/ ProjectOf[reader.run] = ProjectOf[r])

ReadsVerdictOf(i) ==
    /\ \/ reader.kind = "walk" /\ (reader.query.verdicts # None \/ reader.query.sort = "verdict")
       \/ reader.kind = "report" /\ reader.verdicts # None
    /\ i \in IdentitiesIn(reader.run)

Patch(i, v) ==
    /\ verdict[i] \in Range(Verdicts) \ {v}
    /\ Writes
    /\ verdict' = [verdict EXCEPT ![i] = v]
    /\ Disturb(ReadsVerdictOf(i))
    /\ UNCHANGED <<report, meta, rows, counts, alive, baseline, setter>>

\* rows, counters and identities of a run as ingest leaves them.
\* With a bug: the counters of the first upload stay.
CountsKept(r, m) == counts[r]
CountsStored(r, m) == CountsOf(report[r], m)

\* _reconcile_results_and_meta: the meta claims every result of the report.
Fits(rep, m) == DOMAIN rep.results \subseteq DOMAIN m

\* Another meta for the same report.  An identity that was deleted does not
\* come back here: its new row would be another identity.
Replace(r, m, ids) ==
    /\ r \in alive /\ m # meta[r] /\ Fits(report[r], m)
    /\ \A n \in DOMAIN m : verdict[m[n].identity] # "gone"
    /\ Writes
    /\ meta' = [meta EXCEPT ![r] = m]
    /\ rows' = [rows EXCEPT ![r] = RowsOf(report[r], m, [n \in DOMAIN ids |-> 10 * writes' + ids[n]])]
    /\ counts' = [counts EXCEPT ![r] = CountsStored(r, m)]
    /\ verdict' = [i \in Identities |->
          IF verdict[i] = None /\ \E n \in DOMAIN m : m[n].identity = i
          THEN "unmarked" ELSE verdict[i]]
    /\ Disturb(Reads(r))
    /\ UNCHANGED <<report, alive, baseline, setter>>

IdentitiesOf(project) ==
    UNION {{m[n].identity : n \in DOMAIN m} : m \in UNION {Metas[r] : r \in {q \in Runs : ProjectOf[q] = project}}}

\* The cascade, the identities of the project left without a finding, and
\* the baseline.
DeleteRun(r) ==
    /\ r \in alive
    /\ Writes
    /\ alive' = alive \ {r}
    /\ rows' = [rows EXCEPT ![r] = {}]
    /\ verdict' = [i \in Identities |->
          IF /\ i \in IdentitiesOf(ProjectOf[r]) /\ verdict[i] # None
             /\ \A q \in alive' : i \notin IdentitiesIn(q)
          THEN "gone" ELSE verdict[i]]
    /\ baseline' = [baseline EXCEPT ![ProjectOf[r]] = IF @ = r THEN None ELSE @]
    /\ Disturb(Reads(r))
    /\ UNCHANGED <<report, meta, counts, setter>>

BaselineCheck(r) ==
    /\ setter = None /\ r \in alive
    /\ setter' = r
    /\ UNCHANGED <<report, meta, rows, counts, alive, verdict, baseline, reader, writes>>

BaselineStore ==
    /\ setter # None
    /\ Writes
    /\ baseline' = [baseline EXCEPT ![ProjectOf[setter]] = setter]
    /\ setter' = None
    /\ Disturb(Reads(setter))
    /\ UNCHANGED <<report, meta, rows, counts, alive, verdict>>

-----------------------------------------------------------------------------
Init ==
    /\ report \in {f \in [Runs -> UNION {Reports[r] : r \in Runs}] : \A r \in Runs : f[r] \in Reports[r]}
    /\ meta \in {f \in [Runs -> UNION {Metas[r] : r \in Runs}] :
                   \A r \in Runs : f[r] \in Metas[r] /\ Fits(report[r], f[r])}
    /\ \E ids \in RowIds : rows = [r \in Runs |-> RowsOf(report[r], meta[r], ids)]
    /\ counts = [r \in Runs |-> CountsOf(report[r], meta[r])]
    /\ alive = Runs
    /\ verdict = [i \in Identities |->
                    IF \E r \in Runs : i \in IdentitiesIn(r) THEN "unmarked" ELSE None]
    /\ baseline \in [Projects -> {None}]
    /\ setter = None
    /\ reader = Idle
    /\ writes = 0

Answered == reader.pc = "done" /\ reader' = Idle /\ UNCHANGED store

Next ==
    \/ \E r \in Runs :
          \/ \E query \in Queries : WalkStart(r, query)
          \/ \E asked \in Runs \cup {None} : DiffStart(r, asked)
          \/ \E verdicts \in {q.verdicts : q \in Queries} : ReportStart(r, verdicts)
          \/ \E m \in Metas[r], ids \in RowIds : Replace(r, m, ids)
          \/ DeleteRun(r) \/ BaselineCheck(r)
    \/ Walk \/ Diff \/ Report \/ Answered
    \/ \E i \in Identities, v \in Range(Verdicts) : Patch(i, v)
    \/ BaselineStore

Spec == Init /\ [][Next]_vars

-----------------------------------------------------------------------------
(* Properties.                                                             *)

RowType(x) ==
    /\ x.id \in Nat /\ x.identity \in Identities /\ x.result \in Nat
    /\ x.severity \in Severities

\* Every row has a severity of the enum whatever the report says, refers to
\* an identity that exists, and a walk makes progress: a page that is not
\* the last brings at least one row.
TypeOK ==
    /\ alive \subseteq Runs /\ writes \in 0..MaxWrites
    /\ \A r \in Runs : \A x \in rows[r] : RowType(x) /\ verdict[x.identity] \in Range(Verdicts)
    /\ counts \in [Runs -> [Severities -> Nat]]
    /\ verdict \in [Identities -> Range(Verdicts) \cup {None, "gone"}]
    /\ baseline \in [Projects -> Runs \cup {None}] /\ setter \in Runs \cup {None}
    /\ reader.kind = "walk" => reader.page - 2 <= Len(reader.items)

\* The counters stored with a run are those its rows give, also after the
\* rows were replaced (runs.counts against /aggregations and /findings).
CountsAgree ==
    \A r \in alive :
      \A s \in Severities :
        counts[r][s] = IF s \in DOMAIN Aggregation(r) THEN Aggregation(r)[s] ELSE 0

\* Of two findings with a numeric score the one with the higher score is
\* never the less severe, whatever levels the report gives them.
ScoreOf(r, x) == RuleScore(report[r].rules, meta[r][x.result].rule)
SeverityMonotone ==
    \A r \in alive : \A x, y \in rows[r] :
      /\ ScoreOf(r, x) \in Int /\ ScoreOf(r, y) \in Int
      /\ ScoreOf(r, x) <= ScoreOf(r, y)
      => SeverityRank[y.severity] <= SeverityRank[x.severity]

\* A client that walks all pages while nothing it asks for changes gets each
\* matching row once, in the order asked for, and the total it was told.  A
\* PATCH in between disturbs only a walk that filters or sorts by verdict.
WalkIsExact ==
    reader.kind = "walk" /\ reader.pc = "done" /\ ~reader.disturbed =>
      IF reader.run \notin alive THEN reader.status = 404
      ELSE LET query == reader.query IN
           /\ reader.status = 200
           /\ reader.total = Len(reader.items)
           /\ Range(reader.items) = Matching(reader.run, query.verdicts)
           /\ \A i, j \in DOMAIN reader.items : i < j =>
                 /\ reader.items[i].id # reader.items[j].id
                 /\ LET a == SortKey(reader.items[i], query.sort)
                        b == SortKey(reader.items[j], query.sort)
                    IN  IF query.dir = "desc" THEN a >= b ELSE a <= b

\* A diff while nothing of its project changes is the diff of the two runs
\* as stored; a baseline that is gone (deleted, or stored after its run was
\* deleted) is answered 404 and never taken for a run without findings.
DiffAnswersStore ==
    reader.kind = "diff" /\ reader.pc = "done" /\ ~reader.disturbed =>
      LET base == IF reader.base = None THEN baseline[ProjectOf[reader.run]] ELSE reader.base IN
      CASE reader.run \notin alive -> reader.status = 404
        [] reader.run \in alive /\ base = None -> reader.status = 400
        [] reader.run \in alive /\ base # None /\ base \notin alive -> reader.status = 404
        [] reader.run \in alive /\ base \in alive ->
             IF ProjectOf[base] # ProjectOf[reader.run] THEN reader.status = 400
             ELSE /\ reader.status = 200
                  /\ DiffNew \cup DiffUnchanged = rows[reader.run]
                  /\ \A i \in IdentitiesIn(reader.run) \cup IdentitiesIn(base) :
                       /\ i \notin IdentitiesIn(base) <=> \E x \in DiffNew : x.identity = i
                       /\ i \notin IdentitiesIn(reader.run) <=> \E x \in DiffClosed : x.identity = i

\* A report holds every finding it was asked for or is refused; it is never
\* cut at the limit.
ReportWholeOrRefused ==
    reader.kind = "report" /\ reader.pc = "done" /\ ~reader.disturbed =>
      LET asked == IF reader.run \in alive THEN Matching(reader.run, reader.verdicts) ELSE {} IN
      CASE asked = {} -> reader.status = 404
        [] Cardinality(asked) > MaxFindings -> reader.status = 413
        [] OTHER -> reader.status = 200 /\ Range(reader.items) = asked

\* A finding has one verdict in a report: the table of contents, its card
\* and the cards of the findings that share its identity agree, though
\* verdicts change while the document is built.
ReportSpeaksOnce ==
    reader.kind = "report" =>
      \A i \in DOMAIN reader.toc :
        /\ i \in DOMAIN reader.cards => reader.toc[i] = reader.cards[i]
        /\ \A j \in DOMAIN reader.toc :
             reader.items[i].identity = reader.items[j].identity => reader.toc[i] = reader.toc[j]
=============================================================================
