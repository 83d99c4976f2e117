# TLA+ models of sarif-workbench

sarif-workbench takes the SARIF reports of static analysers, gives every
finding an identity that outlives a single scan, and lets people and an AI
provider put a verdict on it. This directory holds TLA+ modules that model the
parts where that can go wrong, TLC configurations that check them on small
instances, and TLAPS proofs of the main results for every value of the
constants.

All paths below are relative to `src/`.

## The system

| Component | State it keeps | Operations | What is hard about it |
|---|---|---|---|
| verdict writer (`server/swb_server/verdicts.py`) | the snapshot on `finding_identities`, one `verdict_events` row per change, `runs.counts_by_verdict` | `write_verdict` conditional (PATCH) and unconditional (AI, carried, reset), `recompute_counts_by_verdict` | objects loaded before the write lock; a flush sends changed columns only; no `version_id` column in the ORM |
| verdict editing (`routers/findings.py`, `web/src/components/FindingDrawer.tsx`) | the drawer's copy of a finding | fetch, PATCH with the version shown, 409 with the fresh row, retry | a drawer is open for minutes while others write |
| reset (`routers/runs.py:599-650`) | session objects | guard, lazy scan, write | the guard is read once; half the rows are read before the lock, half under it |
| AI analysis (`routers/analyze.py`, `ai/analyze_loop.py`) | `_active_runs`, the batch, `consecutive_errors` | batch, provider call, re-check, write, breaker, disconnect, cancellation | awaits in the middle of everything, a guard to be left on each path |
| upload (`routers/runs.py`) | runs, findings, identities, two blobs per run | project, idempotency lookup, ingest, blobs, rows, commit, recovery from a lost race | two stores and no common transaction |
| deletion of a run or project, baseline (`routers/runs.py:657-737`, `routers/projects.py`) | the same tables, `baseline_run_id` | guard, move `last_seen_run_id`, cascade, orphans, files after the commit | reads before the lock, files that fail to go |
| enrichment (`cli/swb_cli`) | the swbmeta file | two passes over the results: material, then numbers | ids must not depend on order, line numbers, or each other |
| ingest (`server/swb_server/ingest.py`) | none | validation, reconciliation of SARIF and meta, rows | any file may arrive |
| database session, blob storage (`db.py`, `models.py`, `storage.py`) | SQLite, a directory | one writer at a time, foreign keys, unique constraints | what is atomic and what is not |
| rows of a run (`contract/swb_contract/severity.py`, `sarif/parser.py`, `ingest.py`) | `findings`, `runs.counts` | level of a result, severity of a row, counters | boundaries, malformed scores, two places that name a rule |
| listings, diff, reports (`routers/runs.py:378-594`, `routers/report.py`, `report_gen.py`) | none; each answer is several SELECTs, each page another request | pages, groups, classification against a baseline, a document | writers commit between any two of the reads |
| analysis dialog and stream (`web/src/components/AnalyzeModal.tsx`, `routers/analyze.py`, `ai/analyze_loop.py`) | the dialog's step and progress, a buffer, a connection, the loop's counters | start, read, abort, leave; events; hang-up | a stream cut anywhere, an abort that races with what is under way |
| provider registry (`ai/providers.py`) | a file, read for each call | list, gate, key | the file changes between the listing and the call |

The components meet in four places. The tables are shared by every request, on
worker threads and on the event loop. The set `_active_runs` is written by the
analyses and read by reset and both deletions. The blobs are written by the
upload and removed by the deletions, outside the transactions of either. And
the `swb_id` of a finding, computed by the command line tool, is the key under
which the server carries a verdict from scan to scan.

What makes each of them correct:

* among editors nobody overwrites what was not on the screen, and beside resets
  and analyses nobody does as long as the versions of the row count its events
  (they stop to when a stale object is flushed; see `triage_lost_update`); the
  journal of an identity explains its verdict; whoever recounts a run leaves the
  tally of its rows (but for a reset that was overtaken, `triage_reset_counts`);
* an analysis leaves human verdicts alone, stops after the configured number
  of failures in a row, ends, and blocks reset and deletion exactly as long as
  it lives;
* a report has one run, whatever races; a 201 means that what was sent is what
  is stored; a row always has its files;
* a verdict is neither changed by a new scan nor lost by the deletion of one;
* an id names one finding of a file, does not depend on lines inserted above,
  on the order of results (but for results that tie in the sort key, see the
  observations), nor on other findings that are fixed unless they come first
  among its alikes; what enrich writes is accepted, and what is
  accepted matches the report one to one;
* severity follows the score; the counters of a run are those of its rows; a
  walk over the pages sees each finding once; a diff refuses a baseline that was
  gone before it began (one that goes while the diff is computed leaves it with
  everything new, see the observations); a report is whole or refused and does
  not contradict itself;
* a dialog shows what the stream says, no more and no less, and ends; a call
  leaves only for a provider that may be called at that moment; a batch that
  was cut short never looks like a result.

## Modules

```
Verdicts, AuditLog,
  VerdictRegister -> Triage ----> TriageProofs ----> EditorProofs
                            \---> MC_Triage
Verdicts, AuditLog -> RunStore -> RunStoreProofs
                              \-> MC_RunStore
SwbIds   ----> Ingest ----> IngestProofs
                      \---> MC_Ingest
Rows     ----> Listing ---> ListingProofs ---> ReaderProofs
                      \---> MC_Listing
AnalyzeDialog ------------> DialogProofs
             \------------> MC_AnalyzeDialog
```

**Verdicts** is `verdicts.py` as operators on rows, shared by the two modules
that write verdicts. A row is a record of five columns; `Flush` is what the ORM
sends of an object that was loaded as `mem` and is now `obj`: a column whose
value did not change keeps whatever another transaction stored there.
`SystemWrite` is the unconditional form, `CasMatches` and `CasWrite` the
conditional one.

**Triage** is every request that writes a verdict, at the grain at which they
interleave. A SELECT runs in autocommit, and the first DML statement takes
SQLite's write lock and keeps it to the commit; so a handler is a sequence of
reads into its session, each a step, and one step from the first flush to the
commit. `PatchGet .. PatchShow` are the drawer and `update_verdict`;
`ResetLoad .. ResetCommit` are `reset_verdicts` with its lazily loaded
identities (`passed` are those read before the lock, `held` the first marked
one, the object of which is stale); `AnalyzeLoad .. AnalyzeCancel` are
`stream` and `run_analysis`. Requests on worker threads interleave with
everything. Analyses share one event loop: between two awaits nothing else runs
on it (`LoopFree`), while threads still do. `mem` is the identity object in the
session of a request, `None` once a commit or rollback has expired it.

**VerdictRegister** is what editing promises, without requests, sessions,
conflicts or retries: an identity is an atomic register with a history of
writes, and an editor writes only over the row it is looking at. `RowOf`,
`ViewedBy` and `WritesOf` in Triage map the state: a row to its verdict, author
and version, the drawer to the view, the journal to the history.
`EditsAreAtomic` is the claim that Triage implements it; it is made of editors
alone, since resets and analyses write over rows nobody looks at.

**AuditLog** is what is left to promise when everybody writes: the events of an
identity only grow while it exists and go with it, every write leaves one, the
row has the verdict the events lead to (`LeadsTo`: what the last one says that
changed something, "unmarked" if none did), and no version is without a write.
An event says what the writer's object held, which may be older than the row;
and a verdict the object already had is not sent. So it is not obvious that row
and events agree, nor that they do across runs, where a verdict is carried and
an identity is removed and inserted again. `KeepsLog` in Triage and in RunStore
is the claim that each implements it; `LogRow` maps the row of an identity, one
without a row to `Absent`. The module is abstract and holds its own theorem.

**RunStore** is one project with its runs: upload, run deletion, project
deletion, baseline, a PATCH and an analysis as far as they matter to these, and
a restart of the server. Rows and blobs are separate variables. `writer` is the
upload that has inserted an uncommitted project and so keeps the write lock
between its steps. A run is named by the request that uploads it, because its
id is a fresh uuid. A swbmeta file is a model value; `SarifOf` and `Reported`
say which report it belongs to and which ids it holds.

**SwbIds** is `fingerprints.py`: levels, window, material and numbering as
operators. A hash is represented by the material it is taken of, so two hashes
are equal exactly when the material is. A uri and the hash of a message are
numbers because the code sorts by them. Lines of source are texts after the
collapse of white space, and `Joined` is what joining them forgets.

**Ingest** runs `enrich` over a report, result by result, lets the file be
edited, and uploads it: `Unanchored`, `ClaimedTwice` and `Missing` are the
problem lists of `_reconcile_results_and_meta`.

**Rows** is what `parser.py`, `severity.py` and `ingest.py` make of a report
and its meta, as operators: `ResultLevel` (the level of a result, from itself,
from the invocation it names, from its rule), `MapSeverity`, and the rows and
counters of a run. A score is a number of tenths, because the bounds of
`sec_sev_to_enum` are; `Junk` and `NaN` are the two kinds of score that are no
number.

**Listing** is the requests that read runs: `WalkCheck .. WalkPage` is a client
that asks `list_findings` for page after page, `DiffRun .. DiffAgainst` is
`diff_run`, `ReportRun .. ReportCard` is `get_report` with the document it
builds, in which each verdict is read when it is printed. A SELECT is a
transaction of its own, so every one is a step; a writer (PATCH, re-ingest,
deletion, baseline) is one step, its commit, since Triage and RunStore have the
inside. There is one reader, because readers do not influence each other.
`disturbed` records that a commit changed what the request reads; the
properties speak of requests that were not disturbed, and the property that
matters for the others (`ReportSpeaksOnce`) does not mention it. Where ORDER BY
leaves two rows equal, SQLite may return either first, and `Sorted` is the set
of all orders it may choose.

**AnalyzeDialog** is one browser, the server behind it and the network between
them, over several starts of an analysis. `StartAnalysis .. ReadFails` is
`startAnalysis`, with `buf` as the rest of the last chunk; `Request .. Finish`
is `run_analysis` under `stream`, of which only the events and the counters
that go into them are kept. An event travels as two halves, the smallest wire
on which a chunk can end inside one. A connection that breaks for the browser
need not be broken for the server: after an abort ("cut") or when the proxy
gives up ("dropped", `proxy_read_timeout` in `web/nginx.conf:21`) the loop runs
on until the hang-up reaches it (`Notice`), if it ever does; what it writes
meanwhile goes nowhere. `files` is the provider file with its history, and
`CallAllowed` is `get_provider` and `_resolve_api_key`.

The `MC_` modules only give values to constants. `map` in `PROJECT.json` names
the lines behind each definition. Operators introduced with "With a bug" are
variants of the definition that follows them; no specification uses them. They
document what each property is sensitive to: with the variant in place of the
definition, the property fails.

## Runs

| Run | Instance | Shows |
|---|---|---|
| `triage_editors` | two editors, two requests each; two runs that share an identity | `JournalIsHistory`: versions, events and snapshot agree at every moment, also of an identity shown through two runs. `EditsAreAtomic`: the editors implement VerdictRegister, so a PATCH answered 200 replaced the row its editor saw |
| `triage_guard` | two analyses, a run with two findings and one without; fairness | `GuardNotLeaked`, `SoleAnalysisGuarded`: `_active_runs` covers the generator's life on every exit path, a failed flush included. `AnalysisEnds` |
| `triage_mixed` | an editor with two requests, a reset and an analysis, over a run of two findings; breaker at one error | `NoLostUpdate`: beside reset and analysis too, a PATCH answered 200 replaced the row its editor saw, if the row's version still counts its events. `CountsFresh`: every recompute leaves the counters right, and what is right stays right but for a verdict inside a batch or an overtaken reset. `AnalysisSparesDecision`: a decision made while the provider is asked is not overwritten. `BreakerHolds`. `KeepsLog`: with any mix of stale objects, each write leaves its event and the row has the verdict the events lead to. `ResetClears`: also what was marked during the scan. `TypeOK` |
| `store_ingest` | three uploads of four files, two deletions, one decision | `AnswerIsIngested`, `CarryKeepsDecision`. `DecisionSurvives`: a deletion takes no decision on what a remaining run reports, and leaves nothing of the rest. `KeepsLog`: insertion, carrying, decision and removal of an identity are those of the audit log |
| `store_race` | two server processes, two deletions, baseline, analysis, decision, crash | `TypeOK`, `AnswersAgree`, `RowsHaveBlobs` |
| `enrich_ingest` | all reports of up to three of nine results, three checkouts, two edits | `IdsDistinct`, `OrderIndependent`, `ShiftKeepsIds`, `FixKeepsOthers`, `EnrichedIsAccepted`, `AcceptedIsOneToOne`, `TypeOK` |
| `listing` | two runs of one project, one of another; one of three reports with scores on and beside the bounds; two commits beside a walk, a diff or a report; four queries | `CountsAgree`: `runs.counts` and the groups of the rows are one, also after a re-ingest. `SeverityMonotone`. `WalkIsExact`: each matching row once, in order, and the total as announced. `DiffAnswersStore`, `ReportWholeOrRefused`, `ReportSpeaksOnce`, `TypeOK` |
| `dialog` | two starts, batches of up to two, breaker at two, a provider file edited once; fairness | `DialogReplaysStream`: progress is exactly what the events received say, however they were cut. `OneReader`: a cancelled read loop never writes to the next one's progress. `ResultIsComplete`: a batch cut short by a hang-up, seen early, late or never, is not shown as a result. `GateHolds`, `DialogEnds`, `TypeOK` |

Four more runs check one statement of a comment each, and TLC finds a behaviour
of the code that contradicts it:

| Run | Behaviour |
|---|---|
| `triage_ai_over_human` | The provider has answered and the re-check has seen an unmarked row; a PATCH commits on a worker thread; the analysis then writes unconditionally and the human verdict is gone, without `override` |
| `triage_lost_update` | The re-check has read version 1; a PATCH stores version 2, and its editor's drawer shows it; the AI verdict is flushed from the object of version 1 and stores version 2 again; the editor's next PATCH, at version 2, is answered 200 and overwrites a verdict that was on no screen. `verdicts.py:170-174` promises a 409 |
| `triage_reset_counts` | A reset has loaded the Run; a PATCH marks a finding and stores its count; the reset clears it and recomputes the counters, which equal those it had loaded, so nothing is sent and the count of the PATCH stays. `verdicts.py:195-213` says that no window is left |
| `store_torn_meta` | The meta blob is replaced, the server stops before the commit; every retry compares equal and is answered as a pure duplicate of findings that were never refreshed |

### Bounds

Every bound is a constant. `MaxTries` (PATCH requests of one editor): two are
needed for a conflict and a retry, and for a second PATCH at the version the
first one wrote. `triage_mixed` has one of each kind of writer: what two
editors do to each other is in `triage_editors`. `MaxErrors` is the configured
breaker, 1 so that it trips inside a batch of two. Two runs that share one
identity and do not share another are the smallest case in which a verdict is
visible through a run it was not made in. Three uploads give the sequence scan,
newer scan, re-enrichment of the older; four files give two enrichments of one
report, a later report and one that `ingest` refuses. `MaxDecisions`,
`MaxCrashes`: each property concerns one decision or one crash at an arbitrary
moment. Three results are needed for the transitivity of the order in a group
and for one result dropped between two kept; two edits for a file in which one
finding is missing and another repeated, so that the counts agree. `MaxWindow`
is 2 instead of 10: a window may then be shorter than, equal to and cut at the
bound. `EditMeta` includes edits no tool makes; the upload accepts any file.
Listing: `MaxFindings` 2 with runs of one to three findings puts the limit of a
report below, at and above what is asked for; page sizes 0, 1 and 2 cover the
clamp, a page that fills exactly and one that does not; two commits
(`MaxWrites`) suffice to delete the baseline of a diff after its check, or to
change a verdict between table of contents and card. AnalyzeDialog: two starts
(`MaxStarts`) are needed for an old loop beside a new one, batches of two
(`MaxBatch`) for an answer between failures, one edit (`MaxEdits`) for a file
that differs between listing and call. Its two contents are of one remote
provider, moved from a listed host to another; local providers and missing keys
are left to the proof (`CallsPassTheGate`). `TotalUnmarked` is 1, so that the
number the bar begins with is above, at or below that of the batch. An event in
two halves has every cut that matters, since only the line end does.
The two editors of `triage_editors` are symmetric (`MCSymmetry`); no other run
uses symmetry.

Deadlock is checked in the runs of Triage, RunStore and AnalyzeDialog, where
`Quiescent` marks the states in which every request has been answered, and in
those of Listing, whose reader can always begin again. The model of Ingest ends
with the answer to the upload, and its run says `CHECK_DEADLOCK FALSE`.

### Fairness

Two runs assume any. `triage_guard`: weak fairness of `AnalyzeStep(a)` for each
analysis. The event loop keeps running, and a provider call is answered or
raises, since the client has a timeout of 120 s (`openai_compatible.py:18`);
a step of an analysis is enabled until it is taken, but for the other analysis
holding the loop for one synchronous stretch. Nothing is assumed of editors,
resets, disconnections or cancellations: an analysis ends without them.

`dialog`: weak fairness, for each start, of the client's read loop and of the
server's loop. They are event loops that keep running, with the timeout above; a
read of a browser ends in a chunk, the end of the stream or an error. Nothing is
assumed of the user, of crashes, of connections that break, of how much a chunk
holds, or of the network: a hang-up may never reach the server.

## Proofs

`tlapm` checks eight modules of theorems. They state every invariant and action
property that the passing runs check, and the refinements; only liveness is left
to TLC. All hold for every number of runs, findings, requests, server processes,
starts, pages, results and edits, under the named assumptions in the modules:
findings belong to runs and identities, the kinds of request are disjoint,
`None` is neither a value nor a row, a meta names finitely many ids, bounds are
natural numbers, lines of source count from one, row ids are distinct, reports
and metas are finite sequences. Some theorems have a hypothesis of their own in
the statement: those of EditorProofs are about editors as the only writers,
which is what VerdictRegister promises, and `AnswersAreIngested` is about one
server process without restarts (`OneServer`).

**AuditLog.** `LogExplains`: whoever implements the log can explain each verdict
from the events of its identity alone. The proof is by what one more event does
to where a sequence of events leads (`AppendLeadsTo`). It is proved once, of the
abstract log, and reaches the two implementations through their instances.

**TriageProofs.** `TypeCorrect` is the type invariant. It is inductive only with
what each program counter says about the session: an object is there where a
step is about to use it, a reset holds an identity of its own run, an analysis
between two awaits has a current finding (`TypeInv`). `VersionNeverAhead` (no
version without an event) needs more than the rows: a stale object in a session
may be flushed later, so the invariant bounds the version of every object by the
history of its identity as well, and a conditional write adds what was shown to
an editor. `WritersKeepLog` rests on that bound: a step writes an identity with
one event or leaves it (`EveryRowStep`), and since the same object decides what
the event says and whether the verdict column is sent, the row follows the event
even when the object is stale. With `LogExplains` it gives
`EveryVerdictIsExplained`. `GuardNeverLeaked` and `SoleAnalysisIsGuarded` are
consequences of one invariant over the live generators. `CountersAreFresh` has
no hypothesis on who writes: a PATCH and a reset change identities and recompute
from the table they commit, an analysis recomputes when its batch ends, and a
run which shares no identity is touched by nobody else's writes; the two steps
after which a counter may be wrong are named in the property (`Unsettles`), and
`triage_reset_counts` shows that the second occurs. `EditorsLoseNothing` has
none either: what a drawer shows has a version that is never ahead of the events
of its identity, and is the row itself while it says that no event has come
since (`OnScreen`); that is kept by every step, because a step that writes a row
leaves an event (`EveryRowStep`). So where the version of the row counts its
events (`VersionExact`), the conditional UPDATE succeeds only over the row shown.
`BreakerStopsCalls`
is proved from an invariant that follows the count of failures through the loop
(`BreakerInv`): it is below the limit whenever a call is under way.
`AnalysisSparesSeen` and `ResetsClear` share one about the objects in hand
(`HeldInv`): the one a reset has stopped at is marked, and the one an analysis
is about to write is no human decision unless it overrides; so a row that holds
one differs from the object, and whatever a reset has not gone past when it
takes the write lock is cleared under it.

**EditorProofs.** With editors as the only writers, `EditorsKeepHistory` and
`EditorsImplementRegister`. The invariant relates four places: version and length of
the journal; the snapshot and the last event; the object in a session and the
row, which are equal whenever their versions are; and what a drawer shows and
the row, likewise; neither is ever newer than the row. The conditional UPDATE
succeeds only at the version shown, so the row is the one shown.
`EditorsImplementRegister` rests on the same invariant: a commit is a `Write` of
the register (`CommitIsWrite`), a fetch and the refresh after an answer are a
`Look` (`ShowIsLook`), and reading the row inside the PATCH or answering 409
changes nothing the register shows (`RestIsInvisible`).

**RunStoreProofs.** All of one invariant, `StoreInv`. Its heart is `Stored`: a
run that is or was in the database is the one its own upload was answered with,
so it never comes again once it is deleted. An upload that is answered with a
run, or on the way to it, holds a `Stored` run whose row, if it is still there,
is of the report it was sent (`UploadHolds`); this survives the deletion of the
run in between, which is where `AnswersAgree` could have failed, and with the
unique constraint it gives `AnswersNeverDiffer`. A deletion only ever removes
files of runs that are `Stored` and gone (`DeletesHold`), hence `RowsKeepFiles`.
Findings never lack their identity (`RowsOK`), which makes
`DeletionsSpareDecisions` a matter of who else reports an identity when orphans
are looked for, under the write lock; and of those that go nothing is left,
neither row nor events. `HistoriesAreExact`: in this store, whose writers hold
the row as it is, a row has exactly one version more than events, and an
identity that is gone has none, so that one that comes back begins anew. It is
what `StoreKeepsLog` needs, after which `EveryVerdictIsExplained` speaks of
verdicts carried from scan to scan. Steps that write neither rows nor files
share one argument (`QuietUploadStep`), those of the other requests a second
(`OtherStepKeeps`). `AnswersAreIngested` is about what a 201 is worth. It is
false of servers that stop between the meta blob and the commit
(`store_torn_meta`), hence its hypothesis. With one event loop at most one
upload is between its first read and its answer, so `ServedInv` can say that the
findings of every run are those of the meta saved for it, but for the one run
whose upload has replaced the blob and not yet committed; when that upload is
answered they agree again, and a duplicate is compared with a blob that tells
the truth.

**IngestProofs.** The order of `assign_swb_ids` is proved a strict total order
(`KeyLessIsOrder`, `PrecedesIsOrder`); of two findings in a group the earlier
has strictly fewer before it, so numbering is injective (`IdsNeverCollide`).
`ShiftsKeepIds` follows from three facts: the window moves with its lines
(`ShiftedWindow`), so the material of a tool or content id is unchanged; lines
move by the same amount in one file and uris decide first, so the order of any
two findings is unchanged; hence groups and numbers are. `FixesKeepOthers` says
what a finding taken out leaves alone: the rest moves by one in the file order
(`WithoutElement`), so the findings before a survivor correspond one to one, and
their number is the same (`SurvivorKeepsId`). `EnrichmentIsFaithful`
is the inductive invariant of the first pass, located results before the
position and entries gathered so far matching one to one, from which
`EnrichedNeverRefused` follows. `AcceptanceIsOneToOne` shows that four empty
problem lists amount to that match for a file of any origin. `IngestTypes` adds
the type of the file to it. `OrderDoesNotMatter` compares two orders of one
report. What a finding's number depends on besides the order is its share: a
finding with `Lower` findings before it by the sort key and `Peers` that tie
with it is numbered within a stretch as long as the tie (`NumberIsOfTheShare`),
and the ties fill the stretch (`PeersTakeTheirShare`, since numbering is
injective). A permutation keeps both counts (`ReorderingKeepsShares`), so those
that tie have the same ids between them in both orders; and where all that tie
are of one result, that is all there is to say of it. Different results that tie
may swap ids, as the property says and the observations note.

**ListingProofs.** `ScoresOrderSeverities`: the rows of a run are at every moment
those its report and its present meta give (`RowsFromReport`, kept by a
re-ingest because rows and meta are replaced together), a row with a numeric
score has the severity of that score and not of its level, and `SecSevToEnum`
is monotone (`BandsMonotone`). It holds for every report, every enrichment and
any number of re-ingests.

**ReaderProofs.** What the requests that read answer, whatever commits between
their SELECTs. Two invariants carry it. `StoreOK`: the rows and counters of a
run are what one report, one meta and one numbering give, and every row refers
to an identity that exists; so `CountersMatchRows`. It needs the constraint
under which the model ingests at all: `Fits`, that the meta has an entry for
each result of the report, which `ingest` demands before it writes
(`AcceptedIsOneToOne` in Ingest). `ReaderOK`: the type of the request under way,
that a diff past its check has a baseline, that a report has printed what its
session read first (`Spoken`), and that each page but the last has added
something. `ReportHasOneVerdict` follows: table of contents and card of a
finding agree even when the verdict changes between the two, because an identity
is loaded once. The other three theorems are about requests that were not
disturbed. Each has an invariant for its stages (`ReportFine`, `DiffFine`,
`WalkFine`), kept by the request's own steps and by the writers through one
lemma: a commit that leaves the flag alone leaves the runs, the verdicts and the
baseline the request relies on (`Undisturbed`). For `WalkShowsEachOnce` the
listing has to be the same for every page although SQLite may break ties as it
likes: with the row id as the last sort key no ties are left (`OrderTotal`), two
listings of the same rows are equal by descent to the least position at which
they differ, and the pages are consecutive stretches of the one there is.

**DialogProofs.** `DialogShowsTheStream`, `OneReaderAtATime` and
`ResultCoversTheBatch`, with `ClientTypes`. The invariant says where each event
of a stream is: the first g events of the log are what the dialog shows
(`ShowsFirst`), and the halves of the others lie, in order, in the reader's
buffer and on the wire (`Framed`). A chunk that is read moves g, wherever it was
cut; an event the server sends lengthens the log and the wire alike; an abort, a
reset or a refusal ends the loop and empties both. Beside it: the log has one
event per finding that was done, in order, and ends with "done" if at all
(`LogShape`), so a result on the screen has the counts of the last event; and
only the start on the screen reads. The dialog takes a chunk by a fold of the
library, which is unrolled with its recursion equation (`FoldIsIteration`).

`CallsPassTheGate` is an action property. The invariant it needs is small
(`Streams`, the type of a stream and of the provider it was started with); the
work is in going through every action to show that only `LoopCall` makes a call
(`StepCalls`), and that it passes the gate.

Induction over numbers is done by hand, with the library's theorem that a set
of numbers which is not empty has a least member (`LeastNumber`), since its
induction theorems take an operator as parameter.

Only model-checked: liveness (`AnalysisEnds`, `DialogEnds`), which is out of the
prover's reach, as is what depends on ENABLED, and the absence of deadlock. The
four runs that end in a violation have their counterexample from TLC.

## Observations

Divergences between code and text that came up while modelling. Where a run is
named it has the behaviour (the table above, with two more); the others can be
read off the lines named.

* `verdicts.py:182` (`triage_lost_update`): an unconditional write computes the
  version from the loaded object, so after a concurrent PATCH the stored version
  can stay equal or go back while the journal grows, and the columns of the two
  writes mix in one snapshot, because only changed columns are sent. `:108-113`
  says that the version only grows; `NoLostUpdate` holds as long as it counts.
* `verdicts.py:231` (`triage_reset_counts`): the recomputed counters are an
  assignment to an object loaded earlier; when they equal the loaded value they
  are not sent, although another writer may have changed the row. This concerns
  reset and re-ingest, which load the run before they take the lock.
* `routers/runs.py:605-615` and `:663`: reset and deletion read `_active_runs`
  once; an analysis may start afterwards and run beside them.
* `routers/runs.py:627-632`: a reset clears human verdicts too, and
  `tests/server/test_verdicts.py:279-312` has it so, while
  `docs/api/reference.md:205` says it preserves them. `ResetClears` states what
  code and test agree on.
* `routers/runs.py:702`: `last_seen_run_id` is computed before the lock, so it
  may not be the latest run that remains, as `tests/server/test_delete_run.py:9`
  has it; and `:701` can find none when that run is deleted meanwhile.
* `routers/runs.py:302` and `:350`: when two processes create one project at
  the same time the loser's flush fails outside the handler of the lost race,
  and the answer is a 500.
* `routers/projects.py:84-90`: the baseline is checked in one transaction and
  stored in another, and has no foreign key; a deletion in between leaves the
  baseline of a run that is gone.
* `models.py:149` and `routers/runs.py:719`: the events of an orphaned identity
  go with it.
* `ingest.py:78`: two findings of an edited file may share a swb_id; enrich
  never writes such a file.
* `ai/analyze_loop.py:306`: `_active_runs` is a set and nothing refuses a second
  analysis of a run; the first of two to end discards the entry while the other
  still writes. `:126` says the run is registered for the whole generator body.
  `SoleAnalysisGuarded` is therefore stated of an analysis that has its run to
  itself.
* `routers/runs.py:162`: `last_seen_run_id` differs from the run also when an
  older run is re-enriched; a carried event is written, the version goes up and
  `last_seen_run_id` moves back, though `:174` says that would be a lie.
* `cli/swb_cli/fingerprints.py:225`: when the earlier of two findings with the
  same code is fixed, the later one takes its number, and with the id its
  verdict, though `docs/guide/cli.md:215` says an id names the same logical
  finding across runs. `FixKeepsOthers` states what the others are promised.
* `cli/swb_cli/fingerprints.py:219-225`: results with one base that are equal in
  uri, line, column (0 for a missing one) and message are numbered in the order
  of the file also when they differ in their end line, code flows or severity,
  so a scanner that lists them the other way round swaps their ids, and with
  them their verdicts. `:209-210` promises the order of the file to
  byte-identical duplicates only, and `commands/enrich.py:162-164` says that
  occurrence does not depend on the order of results. `OrderIndependent` states
  what is kept: such results share the same ids between them.
* `contract/swb_contract/severity.py:30`: a score of NaN, which `float` accepts,
  compares with nothing and makes a finding "note", also one of level "error".
* `AnalyzeModal.tsx:227-231`: a connection that is reset after "done" was shown
  turns the result back into the form with an error.
* `web/nginx.conf:21` and `ai/openai_compatible.py:18`: the proxy waits 120 s for
  a byte, as long as a provider may take for one finding. When it gives up the
  dialog shows an error and goes back to its form, while the loop runs on, with
  a provider call or more, until the hang-up is seen.
* `contract/swb_contract/sarif/parser.py:131-147`: a result whose invocation has
  no override for its rule gets "warning" and not the rule's default level.
  `tests/cli/test_parser.py:58-67` pins this as intended, and `ResultLevel`
  follows it.
* `AnalyzeModal.tsx:239-244`: leaving the page aborts nothing; the analysis runs
  on, and a dialog opened anew may start a second one beside it.
* `ai/analyze_loop.py:257-275`: when a verdict fails to flush, the handler's own
  `finding.id` needs the session that waits for a rollback, and raises again;
  the stream ends without "done", the counters are not recomputed.
* `report_gen.py:332`: an identity deleted while the report is built is printed
  as "unmarked"; and a report filtered by verdict may print another one, which
  was stored after the filter was evaluated.
* `routers/runs.py:577-578`: a diff whose baseline is deleted after it was found
  answers 200 and calls every finding new.
* `web/src/routes/RunView.tsx` asks for one page of 500 findings; the walk over
  pages is what the API offers.

## Not modelled

* SQLite's busy timeout of 30 s (`db.py:34`), but for the flush of an analysis:
  a step that needs the lock waits for it.
* Torn writes of a single file, and the SARIF blob, which is written beside the
  meta blob and never rewritten.
* The actor, provider and prompt columns of an event are represented by the
  request that wrote them; `needs_reconfirm` is False on every path.
* The style sheet and layout of the report: nothing depends on them.
* The text filters of `list_findings`, and the identities it reads lazily while
  it serialises a page (its rows are one SELECT, which is what `WalkIsExact`
  speaks of).
* Reports with several SARIF runs: the rules come from the first driver only
  (`ingest.py:167`), and every report of the instances has one run.
* The events' tokens and messages, prompts, a provider file that does not parse,
  a browser tab that closes.
* The web views but for the drawer and the analysis dialog, argument handling,
  snippet extraction and git provenance, `resolve_uri`; `main.py`, which wires.

## Plan

Order of work, most important first.

1. Done: Verdicts, Triage, RunStore, SwbIds, Ingest, with their runs, and the
   proofs above.
2. Done: `VerdictRegister` (an atomic register with a history and what each
   editor looks at), implemented by Triage with editors only, as a PROPERTY of
   `triage_editors` and as a theorem of EditorProofs. `AuditLog`, the weaker
   promise that unconditional writes keep, implemented by Triage with all its
   writers and by RunStore, as a PROPERTY of `triage_mixed` and `store_ingest`
   and as theorems of TriageProofs and RunStoreProofs.
3. Done: RunStoreProofs, with `TypeOK`, `RowsHaveBlobs`, `AnswersAgree`,
   `CarryKeepsDecision`, `DecisionSurvives`, and `AnswerIsIngested` for one
   server process without restarts.
4. Done: `BreakerHolds`, `AnalysisSparesDecision` and `ResetClears` in
   TriageProofs, `FixKeepsOthers` and `OrderIndependent` in IngestProofs.
5. Done: parsing and rows (Rows), with `SeverityMonotone` proved.
6. Done: listings, diff and report (Listing), with `CountsAgree`, `WalkIsExact`,
   `DiffAnswersStore`, `ReportWholeOrRefused` and `ReportSpeaksOnce` proved.
7. Done: the analysis dialog with its stream and the provider gate
   (AnalyzeDialog), with its action properties and invariants proved. Left: its
   composition with Triage.
8. Done: the database error inside the analysis loop (`AnalyzeFail` in Triage,
   `BreakOff` in AnalyzeDialog).
