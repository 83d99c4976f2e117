--------------------------- MODULE ListingProofs ----------------------------
(***************************************************************************)
(* Theorems about Listing, for every set of runs, reports, metas, queries  *)
(* and every bound.                                                        *)
(***************************************************************************)
EXTENDS Listing, TLAPS

-----------------------------------------------------------------------------
(* Severity.                                                               *)

\* The bands of sec_sev_to_enum do not cross: of two numeric scores the
\* higher one has the severity that sorts first.
LEMMA BandsMonotone ==
    ASSUME NEW s \in Int, NEW t \in Int, s <= t
    PROVE  SeverityRank[SecSevToEnum(t)] <= SeverityRank[SecSevToEnum(s)]
<1>1. s # NaN /\ t # NaN
  BY RowsAssumption
<1>2. QED
  BY <1>1 DEF SecSevToEnum, AtLeast, SeverityRank

\* The rows of a run are those its report and its current meta give.
RowsFromReport ==
    \A r \in Runs : \A x \in rows[r] : x.severity = SeverityOf(report[r], meta[r], x.result)

\* A row has the severity of its result.
LEMMA RowsOfSeverity ==
    ASSUME NEW rep, NEW m, NEW ids, NEW x \in RowsOf(rep, m, ids)
    PROVE  x.severity = SeverityOf(rep, m, x.result)
BY DEF RowsOf

\* The rows of a run are initially those of its report.
LEMMA RowsFromReportInit ==
    Init => RowsFromReport
<1> SUFFICES ASSUME Init, NEW r \in Runs, NEW x \in rows[r]
             PROVE  x.severity = SeverityOf(report[r], meta[r], x.result)
  BY DEF RowsFromReport
<1>1. PICK ids \in RowIds : rows = [q \in Runs |-> RowsOf(report[q], meta[q], ids)]
  BY DEF Init
<1>2. x \in RowsOf(report[r], meta[r], ids)
  BY <1>1
<1>3. QED
  BY <1>2, RowsOfSeverity

\* Functions on the runs stay functions, which EXCEPT needs, and no run
\* comes from nowhere.
RunFunctions ==
    /\ rows = [r \in Runs |-> rows[r]] /\ meta = [r \in Runs |-> meta[r]]
    /\ alive \subseteq Runs

\* A reader changes nothing that is stored.
LEMMA ReadersOnlyRead ==
    /\ \A r \in Runs :
          /\ \A query \in Queries : WalkStart(r, query) => UNCHANGED store
          /\ \A asked \in Runs \cup {None} : DiffStart(r, asked) => UNCHANGED store
          /\ \A verdicts : ReportStart(r, verdicts) => UNCHANGED store
    /\ Walk \/ Diff \/ Report \/ Answered => UNCHANGED store
<1>1. \A r \in Runs :
          /\ \A query \in Queries : WalkStart(r, query) => UNCHANGED store
          /\ \A asked \in Runs \cup {None} : DiffStart(r, asked) => UNCHANGED store
          /\ \A verdicts : ReportStart(r, verdicts) => UNCHANGED store
  BY Zenon DEF WalkStart, DiffStart, ReportStart
<1>2. Walk => UNCHANGED store
  BY Zenon DEF Walk, WalkCheck, WalkCount, WalkPage
<1>3. Diff => UNCHANGED store
  BY Zenon DEF Diff, DiffRun, DiffBaseline, DiffExists, DiffTarget, DiffAgainst
<1>4. Report => UNCHANGED store
  BY Zenon DEF Report, ReportRun, ReportQuery, ReportToc, ReportCard
<1>5. Answered => UNCHANGED store
  BY Zenon DEF Answered
<1>6. QED
  BY <1>1, <1>2, <1>3, <1>4, <1>5

\* What is kept per run is a function of the runs, in every state.
LEMMA RunFunctionsInductive ==
    /\ Init => RunFunctions
    /\ RunFunctions /\ [Next]_vars => RunFunctions'
<1>1. Init => RunFunctions
  BY DEF Init, RunFunctions
<1>2. ASSUME RunFunctions, [Next]_vars PROVE RunFunctions'
  <2>1. CASE UNCHANGED <<rows, meta, alive>>
    BY <1>2, <2>1 DEF RunFunctions
  <2>2. ASSUME NEW r \in Runs, NEW m \in Metas[r], NEW ids \in RowIds, Replace(r, m, ids)
        PROVE RunFunctions'
    BY <1>2, <2>2 DEF RunFunctions, Replace
  <2>3. ASSUME NEW r \in Runs, DeleteRun(r) PROVE RunFunctions'
    BY <1>2, <2>3 DEF RunFunctions, DeleteRun
  <2>4. ASSUME UNCHANGED store PROVE RunFunctions'
    BY <2>1, <2>4 DEF store
  <2>5. ASSUME NEW i \in Identities, NEW v \in Range(Verdicts), Patch(i, v) PROVE RunFunctions'
    BY <2>1, <2>5 DEF Patch
  <2>6. ASSUME NEW r \in Runs, BaselineCheck(r) PROVE RunFunctions'
    BY <2>1, <2>6 DEF BaselineCheck
  <2>7. ASSUME BaselineStore PROVE RunFunctions'
    BY <2>1, <2>7 DEF BaselineStore
  <2>8. ASSUME UNCHANGED vars PROVE RunFunctions'
    BY <2>1, <2>8 DEF vars
  <2>9. QED
    BY <1>2, <2>2, <2>3, <2>4, <2>5, <2>6, <2>7, <2>8, ReadersOnlyRead DEF Next
<1>3. QED
  BY <1>1, <1>2

\* Rows and meta are replaced together, by rows of the same report.
LEMMA RowsFromReportStep ==
    RunFunctions /\ RowsFromReport /\ [Next]_vars => RowsFromReport'
<1> SUFFICES ASSUME RunFunctions, RowsFromReport, [Next]_vars PROVE RowsFromReport'
  OBVIOUS
<1>1. CASE UNCHANGED <<report, meta, rows>>
  BY <1>1 DEF RowsFromReport
<1>2. ASSUME NEW r \in Runs, NEW m \in Metas[r], NEW ids \in RowIds, Replace(r, m, ids)
      PROVE RowsFromReport'
  <2> SUFFICES ASSUME NEW q \in Runs, NEW x \in rows'[q]
               PROVE  x.severity = SeverityOf(report[q], meta'[q], x.result)
    BY <1>2 DEF RowsFromReport, Replace
  <2>1. CASE q = r
    <3>1. x \in RowsOf(report[r], m, [n \in DOMAIN ids |-> 10 * writes' + ids[n]])
      BY <1>2, <2>1 DEF Replace, RunFunctions
    <3>2. meta'[q] = m
      BY <1>2, <2>1 DEF Replace, RunFunctions
    <3>3. QED
      BY <2>1, <3>1, <3>2, RowsOfSeverity
  <2>2. CASE q # r
    <3>1. rows'[q] = rows[q] /\ meta'[q] = meta[q]
      BY <1>2, <2>2 DEF Replace, RunFunctions
    <3>2. QED
      BY <3>1 DEF RowsFromReport
  <2>3. QED
    BY <2>1, <2>2
<1>3. ASSUME NEW r \in Runs, DeleteRun(r) PROVE RowsFromReport'
  <2>1. \A q \in Runs : rows'[q] = rows[q] \/ rows'[q] = {}
    BY <1>3 DEF DeleteRun, RunFunctions
  <2>2. meta' = meta /\ report' = report
    BY <1>3 DEF DeleteRun
  <2>3. QED
    BY <2>1, <2>2 DEF RowsFromReport
<1>4. ASSUME UNCHANGED store PROVE RowsFromReport'
  BY <1>1, <1>4 DEF store
<1>5. ASSUME NEW i \in Identities, NEW v \in Range(Verdicts), Patch(i, v) PROVE RowsFromReport'
  BY <1>1, <1>5 DEF Patch
<1>6. ASSUME NEW r \in Runs, BaselineCheck(r) PROVE RowsFromReport'
  BY <1>1, <1>6 DEF BaselineCheck
<1>7. ASSUME BaselineStore PROVE RowsFromReport'
  BY <1>1, <1>7 DEF BaselineStore
<1>8. ASSUME UNCHANGED vars PROVE RowsFromReport'
  BY <1>1, <1>8 DEF vars
<1>9. QED
  BY <1>2, <1>3, <1>4, <1>5, <1>6, <1>7, <1>8, ReadersOnlyRead DEF Next

\* Rows that come from a report have severities that follow the scores.
LEMMA RowsMonotone == RunFunctions /\ RowsFromReport => SeverityMonotone
<1> SUFFICES ASSUME RowsFromReport, NEW r \in Runs, NEW x \in rows[r], NEW y \in rows[r],
                    ScoreOf(r, x) \in Int, ScoreOf(r, y) \in Int, ScoreOf(r, x) <= ScoreOf(r, y)
             PROVE  SeverityRank[y.severity] <= SeverityRank[x.severity]
  BY DEF SeverityMonotone, RunFunctions
<1>1. x.severity = SecSevToEnum(ScoreOf(r, x))
  BY RowsAssumption DEF RowsFromReport, SeverityOf, MapSeverity, ScoreOf
<1>2. y.severity = SecSevToEnum(ScoreOf(r, y))
  BY RowsAssumption DEF RowsFromReport, SeverityOf, MapSeverity, ScoreOf
<1>3. QED
  BY <1>1, <1>2, BandsMonotone

\* Whatever reports and metas are uploaded and re-ingested, a finding with a
\* higher score is never shown as the less severe one (severity.py:22).
THEOREM ScoresOrderSeverities == Spec => []SeverityMonotone
<1>1. Init => RunFunctions /\ RowsFromReport
  BY RunFunctionsInductive, RowsFromReportInit
<1>2. RunFunctions /\ RowsFromReport /\ [Next]_vars => (RunFunctions /\ RowsFromReport)'
  BY RunFunctionsInductive, RowsFromReportStep
<1>3. RunFunctions /\ RowsFromReport => SeverityMonotone
  BY RowsMonotone
<1>4. QED
  BY <1>1, <1>2, <1>3, PTL DEF Spec
=============================================================================
