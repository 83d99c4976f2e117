------------------------------ MODULE RunStore ------------------------------
(***************************************************************************)
(* The runs of one project and everything stored for them: the rows of     *)
(* SQLite and the two blobs of each run.                                   *)
(*                                                                         *)
(*   - POST   /runs                    (routers/runs.py, upload_run)       *)
(*   - DELETE /runs/{id}               (routers/runs.py, delete_run)       *)
(*   - PUT    /projects/{id}/baseline  (routers/projects.py)               *)
(*   - DELETE /projects/{id}           (routers/projects.py)               *)
(*   - PATCH of a verdict and an analysis, as far as they matter here      *)
(*                                                                         *)
(* Atomicity is that of module Triage: each SELECT a step, the first DML   *)
(* statement and everything up to the commit one step.  The exception is   *)
(* an upload that creates the project: it takes the write lock long before *)
(* it commits (writer).  Uploads run on the event loop of their process    *)
(* and have no await after the bodies are read; the rest run on threads.   *)
(*                                                                         *)
(* A run is named by the request that uploaded it (run_id is a uuid).  The *)
(* Finding and Rule rows of a run are the set of swb_ids it reports.       *)
(* verdict_events.run_id goes NULL with its run; the journal keeps it.     *)
(***************************************************************************)
EXTENDS Naturals, Sequences, FiniteSets

CONSTANTS
    SwbIds,
    Metas,          \* swbmeta files, of correct checksum
    SarifOf,        \* the SARIF file (sarif_sha256) each of them is for
    Reported,       \* the swb_ids in each of them
    Malformed,      \* those ingest raises on
    Uploads,        \* upload requests, and the runs they create
    Process,        \* the server process that serves each of them
    Deletes, ProjectDeletes, Baselines,     \* requests
    Analysed,       \* runs that may be analysed
    Marks, None,
    MaxDecisions,   \* bound: PATCH requests
    MaxCrashes      \* bound: restarts of the server

Editor == "editor"
RunIds == Uploads
Requests == Uploads \cup Deletes \cup ProjectDeletes \cup Baselines

ASSUME FilesAssumption ==
    /\ \A m \in Metas : /\ Reported[m] # {} /\ Reported[m] \subseteq SwbIds
                        /\ IsFiniteSet(Reported[m])
    /\ Malformed \subseteq Metas
ASSUME StoreAssumption ==
    /\ Editor \notin Uploads
    /\ None \notin SwbIds \cup Metas \cup Uploads
    /\ "unmarked" \notin Marks
    /\ Uploads \cap (Deletes \cup ProjectDeletes \cup Baselines) = {}
    /\ Deletes \cap (ProjectDeletes \cup Baselines) = {}
    /\ ProjectDeletes \cap Baselines = {}
    /\ MaxDecisions \in Nat /\ MaxCrashes \in Nat

INSTANCE Verdicts WITH Writers <- Uploads \cup {Editor}

VARIABLES
    project,    \* the projects row exists
    baseline,   \* projects.baseline_run_id
    runs,       \* runs with their findings
    identity,   \* finding_identities by swb_id: the verdict snapshot
    lastSeen,   \* finding_identities.last_seen_run_id
    journal,    \* verdict_events of each identity
    blob,       \* the meta blob in the directory of each run
    writer,     \* the upload that keeps SQLite's write lock between its steps
    activeRuns, \* analyze_loop._active_runs
    pc,
    sent,       \* the meta file of an upload
    found,      \* the run an upload is answered with
    tallyRead,  \* counts_by_verdict of the Run object in an upload's session
    target,     \* the run or NULL a deletion or a baseline request names
    baseRead,   \* baseline_run_id of the Project object in a session
    todo,       \* identities_to_update; the run_ids a project deletion listed
    move,       \* the identity about to be updated and its new last run
    clock,      \* runs.uploaded_at, as the number of runs inserted so far
    decisions, crashes

rowVars    == <<project, baseline, runs, identity, lastSeen, journal, clock>>
uploadVars == <<sent, found, tallyRead>>
deleteVars == <<target, baseRead, todo, move>>
bounds     == <<decisions, crashes>>
vars == <<rowVars, blob, writer, activeRuns, pc, uploadVars, deleteVars, bounds>>

-----------------------------------------------------------------------------
(* Rows.                                                                   *)

Run == [sarif : {SarifOf[m] : m \in Metas}, findings : SUBSET SwbIds,
        tally : [VerdictValues -> Nat], at : Nat]
\* SQL NULL is not a row.
ASSUME RowsAssumption == None \notin Run \cup Snapshot

Present == {r \in RunIds : runs[r] # None}

\* The aggregate of recompute_counts_by_verdict.
CountOf(table, ids) ==
    [v \in VerdictValues |-> Cardinality({i \in ids : table[i].verdict = v})]

\* The runs other than r that report an identity, and the latest of them.
Others(i, r) == {x \in Present \ {r} : i \in runs[x].findings}
LatestOther(i, r) == CHOOSE x \in Others(i, r) : \A y \in Others(i, r) : runs[y].at <= runs[x].at

\* The runs that the unique constraint on (project_id, sarif_sha256) finds.
\* With a bug: there is no constraint.
NeverSameReport(m) == {}
SameReport(m) == {r \in Present : runs[r].sarif = SarifOf[m]}

LockFree(w) == writer \in {None, w}

Goto(w, state) == pc' = [pc EXCEPT ![w] = state]

-----------------------------------------------------------------------------
(* Upload: upload_run, _dedup_response, _create_rules_and_findings.        *)

Uploading ==
    {"creating", "resolved", "fresh", "stored", "raced", "found", "differs", "replaced"}
LoopFree(u) == \A v \in Uploads \ {u} : Process[v] = Process[u] => pc[v] \notin Uploading

\* The request is in; the project is looked up.
UploadArrive(u) ==
    /\ pc[u] = "idle"
    /\ LoopFree(u)
    /\ \E m \in Metas : sent' = [sent EXCEPT ![u] = m]
    /\ Goto(u, IF project THEN "resolved" ELSE "creating")
    /\ UNCHANGED <<rowVars, blob, writer, activeRuns, found, tallyRead, deleteVars, bounds>>

\* The project is inserted and stays uncommitted; its key must still be free.
UploadCreate(u) ==
    /\ pc[u] = "creating"
    /\ LockFree(u)
    /\ writer' = IF project THEN writer ELSE u
    /\ Goto(u, IF project THEN "failed" ELSE "resolved")
    /\ UNCHANGED <<rowVars, blob, activeRuns, uploadVars, deleteVars, bounds>>

\* The handler gets hold of an existing run with the same SARIF.
HoldRun(u, r) ==
    /\ found' = [found EXCEPT ![u] = r]
    /\ tallyRead' = [tallyRead EXCEPT ![u] = runs[r].tally]
    /\ Goto(u, "found")

\* The idempotency check.
UploadLookup(u) ==
    /\ pc[u] = "resolved"
    /\ \/ \E r \in SameReport(sent[u]) : HoldRun(u, r)
       \/ /\ SameReport(sent[u]) = {}
          /\ Goto(u, "fresh")
          /\ UNCHANGED <<found, tallyRead>>
    /\ UNCHANGED <<rowVars, blob, writer, activeRuns, sent, deleteVars, bounds>>

\* Closing the session rolls an uncommitted project back.
Release(u) == writer' = IF writer = u THEN None ELSE writer

\* ingest raises: 422, nothing written.
UploadReject(u) ==
    /\ pc[u] \in {"fresh", "differs"}
    /\ sent[u] \in Malformed
    /\ Release(u)
    /\ Goto(u, "refused")
    /\ UNCHANGED <<rowVars, blob, activeRuns, uploadVars, deleteVars, bounds>>

\* Both blobs are saved under the new run id, before the rows.
UploadBlobs(u) ==
    /\ pc[u] = "fresh"
    /\ sent[u] \notin Malformed
    /\ blob' = [blob EXCEPT ![u] = sent[u]]
    /\ Goto(u, "stored")
    /\ UNCHANGED <<rowVars, writer, activeRuns, uploadVars, deleteVars, bounds>>

\* A verdict is carried when a marked identity was last seen in another run.
Carried(i, r) == identity[i] # None /\ IsMarked(identity[i]) /\ lastSeen[i] # r

CreateFindings(r, ids) ==
    /\ identity' = [i \in SwbIds |->
         IF i \in ids /\ identity[i] = None THEN FreshIdentity
         ELSE IF i \in ids /\ Carried(i, r)
         THEN SystemWrite(identity[i], identity[i], identity[i].verdict, "carried",
                          identity[i].rationale, r)
         ELSE identity[i]]
    /\ journal' = [i \in SwbIds |->
         IF i \in ids /\ Carried(i, r)
         THEN Append(journal[i], EventOf(identity[i], identity[i].verdict, "carried", r))
         ELSE journal[i]]
    /\ lastSeen' = [i \in SwbIds |-> IF i \in ids THEN r ELSE lastSeen[i]]

\* With a bug: the row is inserted before the blobs are saved.
ReadyBeforeBlobs(u) == pc[u] \in {"fresh", "stored"} /\ sent[u] \notin Malformed
Ready(u) == pc[u] = "stored"

\* The run, its findings, the counters and the commit.
UploadCommit(u) ==
    LET ids == Reported[sent[u]] IN
    /\ Ready(u)
    /\ LockFree(u)
    /\ project \/ writer = u
    /\ SameReport(sent[u]) = {}
    /\ CreateFindings(u, ids)
    /\ runs' = [runs EXCEPT ![u] = [sarif |-> SarifOf[sent[u]], findings |-> ids,
                                    tally |-> CountOf(identity', ids), at |-> clock]]
    /\ clock' = clock + 1
    /\ project' = TRUE
    /\ found' = [found EXCEPT ![u] = u]
    /\ Release(u)
    /\ Goto(u, "answered")
    /\ UNCHANGED <<baseline, blob, activeRuns, sent, tallyRead, deleteVars, bounds>>

\* IntegrityError: another upload has inserted the same SARIF, or the project
\* has been deleted meanwhile.  The transaction is rolled back.
UploadRaced(u) ==
    /\ pc[u] = "stored"
    /\ LockFree(u)
    /\ SameReport(sent[u]) # {} \/ (~project /\ writer # u)
    /\ Goto(u, "raced")
    /\ UNCHANGED <<rowVars, blob, writer, activeRuns, uploadVars, deleteVars, bounds>>

\* The winner is looked up; without one the error is raised again, a 500.
UploadRefind(u) ==
    /\ pc[u] = "raced"
    /\ \/ \E r \in SameReport(sent[u]) : HoldRun(u, r)
       \/ /\ SameReport(sent[u]) = {}
          /\ Goto(u, "failed")
          /\ UNCHANGED <<found, tallyRead>>
    /\ UNCHANGED <<rowVars, blob, writer, activeRuns, sent, deleteVars, bounds>>

\* The saved meta decides between a pure dedup and a re-ingest.
\* With a bug: any saved meta is taken for the one sent.
SameMetaAlways(u) == blob[found[u]] # None
SameMeta(u) == blob[found[u]] = sent[u]

UploadCompare(u) ==
    /\ pc[u] = "found"
    /\ Goto(u, IF SameMeta(u) THEN "answered"
               ELSE IF blob[found[u]] = None THEN "failed" ELSE "differs")
    /\ UNCHANGED <<rowVars, blob, writer, activeRuns, uploadVars, deleteVars, bounds>>

\* The meta blob is replaced, outside any transaction.
UploadReplace(u) ==
    /\ pc[u] = "differs"
    /\ sent[u] \notin Malformed
    /\ blob' = [blob EXCEPT ![found[u]] = sent[u]]
    /\ Goto(u, "replaced")
    /\ UNCHANGED <<rowVars, writer, activeRuns, uploadVars, deleteVars, bounds>>

\* The findings of the run are recreated and committed.  A column equal to
\* the one the session loaded is not sent.
UploadReingest(u) ==
    LET r == found[u]
        ids == Reported[sent[u]]
    IN
    /\ pc[u] = "replaced"
    /\ LockFree(u)
    /\ runs[r] # None
    /\ CreateFindings(r, ids)
    /\ runs' = [runs EXCEPT
         ![r].findings = ids,
         ![r].tally = IF CountOf(identity', ids) = tallyRead[u] THEN @
                      ELSE CountOf(identity', ids)]
    /\ Goto(u, "answered")
    /\ UNCHANGED <<project, baseline, clock, blob, writer, activeRuns, uploadVars,
                   deleteVars, bounds>>

\* The run has been deleted meanwhile: a foreign key or the UPDATE fails; 500.
UploadGone(u) ==
    /\ pc[u] = "replaced"
    /\ LockFree(u)
    /\ runs[found[u]] = None
    /\ Goto(u, "failed")
    /\ UNCHANGED <<rowVars, blob, writer, activeRuns, uploadVars, deleteVars, bounds>>

Upload(u) ==
    \/ UploadArrive(u) \/ UploadCreate(u) \/ UploadLookup(u) \/ UploadReject(u)
    \/ UploadBlobs(u) \/ UploadCommit(u) \/ UploadRaced(u) \/ UploadRefind(u)
    \/ UploadCompare(u) \/ UploadReplace(u) \/ UploadReingest(u) \/ UploadGone(u)

-----------------------------------------------------------------------------
(* Deletion of a run: delete_run.                                          *)

\* The run is loaded; 404 when there is none.
DeleteLoad(d) ==
    /\ pc[d] = "idle"
    /\ \E r \in RunIds :
        /\ target' = [target EXCEPT ![d] = r]
        /\ Goto(d, IF runs[r] = None THEN "refused" ELSE "loaded")
    /\ UNCHANGED <<rowVars, blob, writer, activeRuns, uploadVars, baseRead, todo, move,
                   bounds>>

\* The guard, and the lazy load of run.project.
DeleteGuard(d) ==
    /\ pc[d] = "loaded"
    /\ baseRead' = [baseRead EXCEPT ![d] = baseline]
    /\ Goto(d, IF target[d] \in activeRuns THEN "refused"
               ELSE IF project THEN "guarded" ELSE "failed")
    /\ UNCHANGED <<rowVars, blob, writer, activeRuns, uploadVars, target, todo, move,
                   bounds>>

\* identities_to_update: last seen in the run and reported by another one.
DeleteScan(d) ==
    /\ pc[d] = "guarded"
    /\ todo' = [todo EXCEPT ![d] =
         {i \in SwbIds : lastSeen[i] = target[d] /\ Others(i, target[d]) # {}}]
    /\ Goto(d, "moving")
    /\ UNCHANGED <<rowVars, blob, writer, activeRuns, uploadVars, target, baseRead, move,
                   bounds>>

\* last_finding of the next identity, read before the first UPDATE.
DeleteMove(d) ==
    /\ pc[d] = "moving"
    /\ \E i \in todo[d] :
        /\ todo' = [todo EXCEPT ![d] = @ \ {i}]
        /\ \/ /\ Others(i, target[d]) = {}
              /\ UNCHANGED <<move, pc>>
           \/ /\ Others(i, target[d]) # {}
              /\ move' = [move EXCEPT ![d] =
                   [id |-> i, run |-> LatestOther(i, target[d])]]
              /\ Goto(d, "flush")
    /\ UNCHANGED <<rowVars, blob, writer, activeRuns, uploadVars, target, baseRead, bounds>>

\* last_seen_run_id after the UPDATEs and the SET NULL of the deleted run: the
\* first one from the stale read, the others read under the write lock.
LastSeenAfter(d) ==
    LET moved == [i \in SwbIds |->
          IF pc[d] = "flush" /\ i = move[d].id THEN move[d].run
          ELSE IF i \in todo[d] /\ Others(i, target[d]) # {} THEN LatestOther(i, target[d])
          ELSE lastSeen[i]]
    IN  [i \in SwbIds |-> IF moved[i] = target[d] THEN None ELSE moved[i]]

\* The identities left without a finding once the run is gone.
\* With a bug: all identities the run reports.
OrphansOfRun(r) == IF runs[r] = None THEN {} ELSE runs[r].findings
Orphans(r) == {i \in SwbIds : Others(i, r) = {}}

\* What the transaction needs of the rows it touches: the run an identity is
\* moved to and, when the baseline is cleared, the project.
DeleteSound(d) ==
    /\ pc[d] = "flush" /\ identity[move[d].id] # None => runs[move[d].run] # None
    /\ baseRead[d] = target[d] => project

\* Everything from the first UPDATE to the commit.
DeleteCommit(d) ==
    LET r == target[d] IN
    /\ pc[d] = "flush" \/ (pc[d] = "moving" /\ todo[d] = {})
    /\ LockFree(d)
    /\ DeleteSound(d)
    /\ baseline' = IF baseRead[d] = r THEN None ELSE baseline
    /\ runs' = [runs EXCEPT ![r] = None]
    /\ identity' = [i \in SwbIds |-> IF i \in Orphans(r) THEN None ELSE identity[i]]
    /\ journal' = [i \in SwbIds |-> IF i \in Orphans(r) THEN <<>> ELSE journal[i]]
    /\ lastSeen' = [i \in SwbIds |-> IF i \in Orphans(r) THEN None ELSE LastSeenAfter(d)[i]]
    /\ todo' = [todo EXCEPT ![d] = {}]
    /\ move' = [move EXCEPT ![d] = None]
    /\ Goto(d, "committed")
    /\ UNCHANGED <<project, clock, blob, writer, activeRuns, uploadVars, target, baseRead,
                   bounds>>

\* A foreign key or the UPDATE of the project fails: rolled back, 500.
DeleteFail(d) ==
    /\ pc[d] = "flush" \/ (pc[d] = "moving" /\ todo[d] = {})
    /\ LockFree(d)
    /\ ~DeleteSound(d)
    /\ Goto(d, "failed")
    /\ UNCHANGED <<rowVars, blob, writer, activeRuns, uploadVars, deleteVars, bounds>>

\* The blobs are removed after the commit; a failure is only logged.
DeleteBlobs(d) ==
    /\ pc[d] = "committed"
    /\ blob' \in {blob, [blob EXCEPT ![target[d]] = None]}
    /\ Goto(d, "answered")
    /\ UNCHANGED <<rowVars, writer, activeRuns, uploadVars, deleteVars, bounds>>

Delete(d) ==
    \/ DeleteLoad(d) \/ DeleteGuard(d) \/ DeleteScan(d) \/ DeleteMove(d)
    \/ DeleteCommit(d) \/ DeleteFail(d) \/ DeleteBlobs(d)

-----------------------------------------------------------------------------
(* Deletion of the project: delete_project.                                *)

\* The project and the ids of its runs.
ProjectList(z) ==
    /\ pc[z] = "idle"
    /\ todo' = [todo EXCEPT ![z] = Present]
    /\ Goto(z, IF project THEN "loaded" ELSE "refused")
    /\ UNCHANGED <<rowVars, blob, writer, activeRuns, uploadVars, target, baseRead, move,
                   bounds>>

ProjectGuard(z) ==
    /\ pc[z] = "loaded"
    /\ Goto(z, IF todo[z] \cap activeRuns = {} THEN "guarded" ELSE "refused")
    /\ UNCHANGED <<rowVars, blob, writer, activeRuns, uploadVars, deleteVars, bounds>>

\* The row goes, and by the foreign keys all its runs, findings and identities.
ProjectCommit(z) ==
    /\ pc[z] = "guarded"
    /\ LockFree(z)
    /\ project' = FALSE
    /\ baseline' = None
    /\ runs' = [r \in RunIds |-> None]
    /\ identity' = [i \in SwbIds |-> None]
    /\ lastSeen' = [i \in SwbIds |-> None]
    /\ journal' = [i \in SwbIds |-> <<>>]
    /\ Goto(z, "committed")
    /\ UNCHANGED <<clock, blob, writer, activeRuns, uploadVars, deleteVars, bounds>>

\* Directories go one by one and the loop stops at the first that fails.
ProjectBlobs(z) ==
    /\ pc[z] = "committed"
    /\ \E removed \in SUBSET todo[z] :
        /\ blob' = [r \in RunIds |-> IF r \in removed THEN None ELSE blob[r]]
    /\ Goto(z, "answered")
    /\ UNCHANGED <<rowVars, writer, activeRuns, uploadVars, deleteVars, bounds>>

ProjectDelete(z) ==
    ProjectList(z) \/ ProjectGuard(z) \/ ProjectCommit(z) \/ ProjectBlobs(z)

-----------------------------------------------------------------------------
(* Baseline: set_baseline.                                                 *)

BaselineLoad(b) ==
    /\ pc[b] = "idle"
    /\ \E r \in RunIds \cup {None} : target' = [target EXCEPT ![b] = r]
    /\ baseRead' = [baseRead EXCEPT ![b] = baseline]
    /\ Goto(b, IF project THEN "loaded" ELSE "refused")
    /\ UNCHANGED <<rowVars, blob, writer, activeRuns, uploadVars, todo, move, bounds>>

\* The run must be one of the project.
Known(b) == target[b] = None \/ target[b] \in Present

BaselineCheck(b) ==
    /\ pc[b] = "loaded"
    /\ Goto(b, IF Known(b) THEN "checked" ELSE "refused")
    /\ UNCHANGED <<rowVars, blob, writer, activeRuns, uploadVars, deleteVars, bounds>>

\* The UPDATE, sent only when the value differs from the loaded one; it fails
\* when the project is gone.
BaselineCommit(b) ==
    /\ pc[b] = "checked"
    /\ LockFree(b)
    /\ IF baseRead[b] = target[b]
       THEN Goto(b, "answered") /\ UNCHANGED baseline
       ELSE IF project
       THEN Goto(b, "answered") /\ baseline' = target[b]
       ELSE Goto(b, "failed") /\ UNCHANGED baseline
    /\ UNCHANGED <<project, runs, identity, lastSeen, journal, clock, blob, writer,
                   activeRuns, uploadVars, deleteVars, bounds>>

Baseline(b) == BaselineLoad(b) \/ BaselineCheck(b) \/ BaselineCommit(b)

-----------------------------------------------------------------------------
(* The triage of module Triage, as far as the store is concerned.          *)

\* A PATCH commits: the verdict of an identity and the counters of the run it
\* was opened in.
Decide ==
    /\ decisions < MaxDecisions
    /\ writer = None
    /\ \E r \in Present : \E i \in runs[r].findings : \E v \in VerdictValues :
        /\ identity' = [identity EXCEPT
              ![i] = CasWrite(@, @, v, Editor, Editor, identity[i].version)]
        /\ journal' = [journal EXCEPT
              ![i] = Append(@, EventOf(identity[i], v, "human", Editor))]
        /\ runs' = [runs EXCEPT ![r].tally = CountOf(identity', runs[r].findings)]
    /\ decisions' = decisions + 1
    /\ UNCHANGED <<project, baseline, lastSeen, clock, blob, writer, activeRuns, pc,
                   uploadVars, deleteVars, crashes>>

\* An analysis of a run begins; its guard is removed when it ends.
AnalysisBegins ==
    /\ \E r \in Present \cap Analysed : activeRuns' = activeRuns \cup {r}
    /\ UNCHANGED <<rowVars, blob, writer, pc, uploadVars, deleteVars, bounds>>
AnalysisEnds ==
    /\ \E r \in activeRuns : activeRuns' = activeRuns \ {r}
    /\ UNCHANGED <<rowVars, blob, writer, pc, uploadVars, deleteVars, bounds>>

-----------------------------------------------------------------------------
Ended == {"answered", "refused", "failed", "lost"}

\* The server stops and starts again: rows and blobs stay, the uncommitted
\* transaction, the sessions and _active_runs go.
Crash ==
    /\ crashes < MaxCrashes
    /\ crashes' = crashes + 1
    /\ writer' = None
    /\ activeRuns' = {}
    /\ pc' = [w \in Requests |-> IF pc[w] \in Ended \cup {"idle"} THEN pc[w] ELSE "lost"]
    /\ UNCHANGED <<rowVars, blob, uploadVars, deleteVars, decisions>>

Quiescent == (\A w \in Requests : pc[w] \in Ended) /\ UNCHANGED vars

Init ==
    /\ project = FALSE
    /\ baseline = None
    /\ runs = [r \in RunIds |-> None]
    /\ identity = [i \in SwbIds |-> None]
    /\ lastSeen = [i \in SwbIds |-> None]
    /\ journal = [i \in SwbIds |-> <<>>]
    /\ blob = [r \in RunIds |-> None]
    /\ writer = None
    /\ activeRuns = {}
    /\ pc = [w \in Requests |-> "idle"]
    /\ sent = [u \in Uploads |-> None]
    /\ found = [u \in Uploads |-> None]
    /\ tallyRead = [u \in Uploads |-> None]
    /\ target = [w \in Deletes \cup Baselines |-> None]
    /\ baseRead = [w \in Deletes \cup Baselines |-> None]
    /\ todo = [w \in Deletes \cup ProjectDeletes |-> {}]
    /\ move = [d \in Deletes |-> None]
    /\ clock = 0
    /\ decisions = 0
    /\ crashes = 0

Next ==
    \/ \E u \in Uploads : Upload(u)
    \/ \E d \in Deletes : Delete(d)
    \/ \E z \in ProjectDeletes : ProjectDelete(z)
    \/ \E b \in Baselines : Baseline(b)
    \/ Decide \/ AnalysisBegins \/ AnalysisEnds \/ Crash \/ Quiescent

Spec == Init /\ [][Next]_vars

-----------------------------------------------------------------------------
(* Correctness.                                                            *)

UploadStates == Uploading \cup {"idle"} \cup Ended
DeleteStates == {"idle", "loaded", "guarded", "moving", "flush", "committed", "checked"} \cup Ended

\* The values rows, blobs and sessions range over; a run, an identity or the
\* baseline never outlives the project they belong to.
TypeOK ==
    /\ project \in BOOLEAN
    /\ baseline \in RunIds \cup {None}
    /\ runs \in [RunIds -> Run \cup {None}]
    /\ identity \in [SwbIds -> Snapshot \cup {None}]
    /\ lastSeen \in [SwbIds -> RunIds \cup {None}]
    /\ journal \in [SwbIds -> Seq(VerdictEvent)]
    /\ blob \in [RunIds -> Metas \cup {None}]
    /\ writer \in Uploads \cup {None}
    /\ activeRuns \subseteq RunIds
    /\ pc \in [Requests -> UploadStates \cup DeleteStates]
    /\ sent \in [Uploads -> Metas \cup {None}]
    /\ found \in [Uploads -> RunIds \cup {None}]
    /\ tallyRead \in [Uploads -> [VerdictValues -> Nat] \cup {None}]
    /\ target \in [Deletes \cup Baselines -> RunIds \cup {None}]
    /\ baseRead \in [Deletes \cup Baselines -> RunIds \cup {None}]
    /\ todo \in [Deletes \cup ProjectDeletes -> SUBSET (SwbIds \cup RunIds)]
    /\ move \in [Deletes -> [id : SwbIds, run : RunIds] \cup {None}]
    /\ ~project => Present = {} /\ baseline = None /\ \A i \in SwbIds : identity[i] = None

\* Every row of runs has its files: blobs are saved before the commit and
\* removed after it, so that a crash, a failing request or a concurrent deletion
\* leaves files without a row, never a row without files.
RowsHaveBlobs == \A r \in Present : blob[r] # None

\* T-33: whatever races, uploads answered for the same report are answered with
\* the same run, as long as the runs they were answered with are there.
AnswersAgree ==
    \A u, v \in Uploads :
        /\ pc[u] = "answered" /\ pc[v] = "answered"
        /\ SarifOf[sent[u]] = SarifOf[sent[v]]
        /\ {found[u], found[v]} \subseteq Present
        => found[u] = found[v]

\* The upload is answered in this step.
Answered(u) == pc[u] # "answered" /\ pc'[u] = "answered"

\* A 201 means that the findings of the run are those of the meta just sent,
\* also when the report was known already.
AnswerIsIngested ==
    [][\A u \in Uploads : Answered(u) /\ runs'[found'[u]] # None =>
          runs'[found'[u]].findings = Reported[sent[u]]]_vars

\* T-21/T-24: an upload never changes what was decided about a known identity,
\* nor who decided it.
CarryKeepsDecision ==
    [][\A u \in Uploads : Answered(u) =>
          \A i \in SwbIds : identity[i] # None =>
              /\ identity'[i] # None
              /\ \A field \in {"verdict", "source", "rationale", "attrs"} :
                     identity'[i][field] = identity[i][field]]_vars

\* A deletion spares the verdict and the history of every identity that a
\* remaining run reports, including a run that is being uploaded meanwhile, and
\* leaves nothing of the others behind.
DecisionSurvives ==
    [][(\E r \in RunIds : runs[r] # None /\ runs'[r] = None) =>
          \A i \in SwbIds :
              IF \E r \in RunIds : runs'[r] # None /\ i \in runs'[r].findings
              THEN /\ identity[i] # None
                   /\ identity'[i] = identity[i] /\ journal'[i] = journal[i]
              ELSE identity'[i] = None /\ journal'[i] = <<>> /\ lastSeen'[i] = None]_vars

\* The rows and events that uploads, re-ingests, deletions and editors leave are
\* an audit log: no row without its history, no history without its row.
LogRow(i) ==
    IF identity[i] = None THEN [verdict |-> "unmarked", version |-> 0]
    ELSE [verdict |-> identity[i].verdict, version |-> identity[i].version]

Log == INSTANCE AuditLog WITH
    Identities <- SwbIds,
    Events     <- VerdictEvent,
    row        <- [i \in SwbIds |-> LogRow(i)],
    log        <- journal

\* verdict_events is the history of every identity across the runs of a project:
\* carried verdicts count as writes, and an identity that comes back after a
\* deletion starts a new history (verdicts.py, runs.py).
KeepsLog == Log!Spec

\* At every moment the verdict of an identity, however often it was carried, is
\* what the last event that changed one says.
VerdictsExplained == Log!Explained
=============================================================================
