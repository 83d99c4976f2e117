---------------------------- MODULE TriageProofs ----------------------------
(* Theorems about Triage, for every number of runs, findings and requests. *)
EXTENDS Triage, FiniteSetTheorems, TLAPS

-----------------------------------------------------------------------------
(* The operators of write_verdict and of the recompute.                    *)

\* A flush of a well-typed object over a well-typed row is well typed.
LEMMA FlushType ==
    ASSUME NEW row \in Snapshot, NEW m \in Snapshot, NEW obj \in Snapshot
    PROVE  Flush(row, m, obj) \in Snapshot
BY DEF Flush, Column, Snapshot

\* What write_verdict assigns is a snapshot.
LEMMA AssignedType ==
    ASSUME NEW m \in Snapshot, NEW v \in VerdictValues, NEW s \in Sources,
           NEW rat \in Requests \cup {None}, NEW w \in Requests, NEW n \in Nat \ {0}
    PROVE  Assigned(m, v, s, rat, w, n) \in Snapshot
BY DEF Assigned, Snapshot, Sources

\* The unconditional write stores a snapshot, at most one above the version of
\* the object or at the version that was stored.
LEMMA SystemWriteType ==
    ASSUME NEW row \in Snapshot, NEW m \in Snapshot, NEW v \in VerdictValues,
           NEW s \in Sources, NEW rat \in Requests \cup {None}, NEW w \in Requests
    PROVE  /\ SystemWrite(row, m, v, s, rat, w) \in Snapshot
           /\ SystemWrite(row, m, v, s, rat, w).version = m.version + 1
<1>1. m.version \in Nat \ {0} /\ m.version + 1 \in Nat \ {0}
  BY DEF Snapshot
<1>2. Assigned(m, v, s, rat, w, m.version + 1) \in Snapshot
  BY <1>1, AssignedType
<1>3. SystemWrite(row, m, v, s, rat, w) \in Snapshot
  BY <1>2, FlushType DEF SystemWrite
<1>4. Assigned(m, v, s, rat, w, m.version + 1).version = m.version + 1
  BY DEF Assigned
<1>5. m.version + 1 # m.version
  BY <1>1
<1>6. SystemWrite(row, m, v, s, rat, w).version = m.version + 1
  BY <1>4, <1>5 DEF SystemWrite, Flush, Column
<1> QED BY <1>3, <1>6

\* The conditional write stores a snapshot at the version after the expected one.
LEMMA CasWriteType ==
    ASSUME NEW row \in Snapshot, NEW m \in Snapshot, NEW v \in VerdictValues,
           NEW rat \in Requests \cup {None}, NEW w \in Requests, NEW n \in Nat \ {0}
    PROVE  /\ CasWrite(row, m, v, rat, w, n) \in Snapshot
           /\ CasWrite(row, m, v, rat, w, n).version = n + 1
<1>1. n + 1 \in Nat \ {0} /\ "human" \in Sources
  BY DEF Sources
<1>2. Assigned(m, v, "human", rat, w, n + 1) \in Snapshot
  BY <1>1, AssignedType
<1>3. Flush(row, m, Assigned(m, v, "human", rat, w, n + 1)) \in Snapshot
  BY <1>2, FlushType
<1> QED BY <1>1, <1>3 DEF CasWrite, Snapshot

\* The events write_verdict appends.
LEMMA EventType ==
    ASSUME NEW m \in Snapshot, NEW v \in VerdictValues, NEW s \in Sources,
           NEW w \in Requests
    PROVE  EventOf(m, v, s, w) \in VerdictEvent
BY DEF EventOf, VerdictEvent, Snapshot

\* The aggregate of the recompute is a table of naturals.
LEMMA CountType ==
    ASSUME NEW table, NEW r
    PROVE  CountFrom(table, r) \in [VerdictValues -> Nat]
<1> SUFFICES ASSUME NEW v \in VerdictValues
             PROVE  Cardinality({f \in FindingsOf(r) :
                                  table[IdentityOf[f]].verdict = v}) \in Nat
  BY DEF CountFrom
<1>1. IsFiniteSet({f \in FindingsOf(r) : table[IdentityOf[f]].verdict = v})
  BY RowsAssumption, FS_Subset DEF FindingsOf
<1> QED BY <1>1, FS_CardinalityType

\* So the column it writes stays one.
LEMMA RecomputeType ==
    ASSUME counts \in [Runs -> [VerdictValues -> Nat]],
           NEW table, NEW r, NEW loaded
    PROVE  Recompute(table, r, loaded) \in [Runs -> [VerdictValues -> Nat]]
BY CountType DEF Recompute

-----------------------------------------------------------------------------
(* Type correctness.  TypeOK alone is not inductive: a commit step uses the *)
(* object in the session of its request, so what each program counter says  *)
(* about the session is part of the invariant.                              *)

PatchSession(p) ==
    /\ pc[p] \in PatchStates
    /\ pc[p] # "idle" => target[p] \in Findings
    /\ pc[p] = "idle" => tries[p] = 0
    /\ pc[p] = "deciding" => tries[p] < MaxTries
    /\ pc[p] = "read" => mem[p] \in Snapshot

ResetSession(q) ==
    /\ pc[q] \in ResetStates
    /\ pc[q] # "idle" => target[q] \in Runs
    /\ pc[q] = "flush" => mem[q] \in Snapshot /\ held[q] \in Identities
    /\ pc[q] # "flush" => held[q] = None

AnalysisSession(a) ==
    /\ pc[a] \in AnalysisStates
    /\ pc[a] # "idle" => job[a] \in Jobs
    /\ pc[a] = "waiting" => current[a] \in Findings
    /\ pc[a] = "answered" => /\ mem[a] \in Snapshot
                             /\ held[a] \in Identities
                             /\ current[a] \in Findings

Sessions ==
    /\ \A p \in Patches : PatchSession(p)
    /\ \A q \in Resets : ResetSession(q)
    /\ \A a \in Analyses : AnalysisSession(a)

TypeInv == TypeOK /\ Sessions

\* The initial state is well typed and every request idle.
LEMMA InitTypeInv == Init => TypeInv
<1> SUFFICES ASSUME Init PROVE TypeInv
  OBVIOUS
<1>1. FreshIdentity \in Snapshot
  BY DEF FreshIdentity, Snapshot, VerdictValues
<1>2. counts \in [Runs -> [VerdictValues -> Nat]]
  BY CountType DEF Init
<1>3. TypeOK
  BY <1>1, <1>2, BoundsAssumption
     DEF Init, TypeOK, PatchStates, NoJob, Outcomes
<1>4. Sessions
  BY BoundsAssumption, RequestsAssumption
     DEF Init, Sessions, PatchSession, ResetSession, AnalysisSession, PatchStates,
         ResetStates, AnalysisStates, Requests
<1> QED BY <1>3, <1>4 DEF TypeInv

\* Opening the drawer keeps the types.
LEMMA PatchGetType ==
    ASSUME TypeInv, NEW p \in Patches, PatchGet(p) PROVE TypeInv'
<1>1. TypeOK'
  BY RowsAssumption, RequestsAssumption
     DEF TypeInv, TypeOK, PatchGet, rows, resetVars, loopVars, Requests, PatchStates
<1>2. Sessions'
  BY RequestsAssumption, BoundsAssumption
     DEF TypeInv, TypeOK, Sessions, PatchSession, ResetSession, AnalysisSession, PatchGet, rows, resetVars,
         loopVars, Requests, PatchStates
<1> QED BY <1>1, <1>2 DEF TypeInv

\* Loading the identity of the PATCH keeps the types.
LEMMA PatchReadType ==
    ASSUME TypeInv, NEW p \in Patches, PatchRead(p) PROVE TypeInv'
<1>1. TypeOK'
  BY RowsAssumption, RequestsAssumption, BoundsAssumption
     DEF TypeInv, TypeOK, Sessions, PatchSession, PatchRead, rows, resetVars, loopVars, Requests, PatchStates
<1>2. Sessions'
  BY RequestsAssumption, BoundsAssumption, RowsAssumption
     DEF TypeInv, TypeOK, Sessions, PatchSession, ResetSession, AnalysisSession, PatchRead, rows, resetVars,
         loopVars, Requests, PatchStates
<1> QED BY <1>1, <1>2 DEF TypeInv

\* A committed PATCH keeps the types: the conditional write stores a snapshot.
LEMMA PatchCommitType ==
    ASSUME TypeInv, NEW p \in Patches, PatchCommit(p) PROVE TypeInv'
<1> DEFINE i == IdentityOf[target[p]]
<1>1. /\ i \in Identities
      /\ mem[p] \in Snapshot
      /\ seen[p].version \in Nat \ {0}
      /\ p \in Requests
  BY RowsAssumption DEF TypeInv, TypeOK, Sessions, PatchSession, PatchCommit, Snapshot, Requests
<1>2. PICK v \in VerdictValues :
        /\ identity' = [identity EXCEPT
                         ![i] = CasWrite(@, mem[p], v, p, p, seen[p].version)]
        /\ journal' = [journal EXCEPT
                         ![i] = Append(@, EventOf(mem[p], v, "human", p))]
  BY DEF PatchCommit
<1>3. CasWrite(identity[i], mem[p], v, p, p, seen[p].version) \in Snapshot
  BY <1>1, CasWriteType DEF TypeInv, TypeOK
<1>4. identity' \in [Identities -> Snapshot]
  BY <1>2, <1>3 DEF TypeInv, TypeOK
<1>5. EventOf(mem[p], v, "human", p) \in VerdictEvent
  BY <1>1, EventType DEF Sources
<1>6. journal' \in [Identities -> Seq(VerdictEvent)]
  BY <1>1, <1>2, <1>5 DEF TypeInv, TypeOK
<1>7. counts' \in [Runs -> [VerdictValues -> Nat]]
  BY RecomputeType DEF TypeInv, TypeOK, PatchCommit
<1>8. TypeOK'
  BY <1>4, <1>6, <1>7, RequestsAssumption
     DEF TypeInv, TypeOK, PatchCommit, patchVars, resetVars, loopVars, PatchStates
<1>9. Sessions'
  BY RequestsAssumption
     DEF TypeInv, TypeOK, Sessions, PatchSession, ResetSession, AnalysisSession, PatchCommit, patchVars,
         resetVars, loopVars, Requests, PatchStates
<1> QED BY <1>8, <1>9 DEF TypeInv

\* A 409 keeps the types.
LEMMA PatchConflictType ==
    ASSUME TypeInv, NEW p \in Patches, PatchConflict(p) PROVE TypeInv'
<1>1. TypeOK'
  BY RowsAssumption, RequestsAssumption
     DEF TypeInv, TypeOK, Sessions, PatchSession, ResetSession, AnalysisSession,
         PatchConflict, rows, patchVars, resetVars, loopVars, Requests, PatchStates
<1>2. Sessions'
  BY RowsAssumption, RequestsAssumption
     DEF TypeInv, TypeOK, Sessions, PatchSession, ResetSession, AnalysisSession,
         PatchConflict, rows, patchVars, resetVars, loopVars, Requests, PatchStates
<1> QED BY <1>1, <1>2 DEF TypeInv

\* Showing the answer keeps the types.
LEMMA PatchShowType ==
    ASSUME TypeInv, NEW p \in Patches, PatchShow(p) PROVE TypeInv'
<1>1. TypeOK'
  BY RowsAssumption, RequestsAssumption
     DEF TypeInv, TypeOK, Sessions, PatchSession, ResetSession, AnalysisSession,
         PatchShow, rows, patchVars, resetVars, loopVars, Requests, PatchStates
<1>2. Sessions'
  BY RowsAssumption, RequestsAssumption
     DEF TypeInv, TypeOK, Sessions, PatchSession, ResetSession, AnalysisSession,
         PatchShow, rows, patchVars, resetVars, loopVars, Requests, PatchStates
<1> QED BY <1>1, <1>2 DEF TypeInv

\* Loading the run of a reset keeps the types.
LEMMA ResetLoadType ==
    ASSUME TypeInv, NEW q \in Resets, ResetLoad(q) PROVE TypeInv'
<1>1. TypeOK'
  BY RowsAssumption, RequestsAssumption
     DEF TypeInv, TypeOK, Sessions, PatchSession, ResetSession, AnalysisSession,
         ResetLoad, rows, patchVars, resetVars, loopVars, Requests, ResetStates
<1>2. Sessions'
  BY RowsAssumption, RequestsAssumption
     DEF TypeInv, TypeOK, Sessions, PatchSession, ResetSession, AnalysisSession,
         ResetLoad, rows, patchVars, resetVars, loopVars, Requests, ResetStates
<1> QED BY <1>1, <1>2 DEF TypeInv

\* The guard of a reset keeps the types.
LEMMA ResetGuardType ==
    ASSUME TypeInv, NEW q \in Resets, ResetGuard(q) PROVE TypeInv'
<1>1. TypeOK'
  BY RowsAssumption, RequestsAssumption
     DEF TypeInv, TypeOK, Sessions, PatchSession, ResetSession, AnalysisSession,
         ResetGuard, rows, patchVars, resetVars, loopVars, Requests, ResetStates
<1>2. Sessions'
  BY RowsAssumption, RequestsAssumption
     DEF TypeInv, TypeOK, Sessions, PatchSession, ResetSession, AnalysisSession,
         ResetGuard, rows, patchVars, resetVars, loopVars, Requests, ResetStates
<1> QED BY <1>1, <1>2 DEF TypeInv

\* The scan of a reset keeps the types.
LEMMA ResetScanType ==
    ASSUME TypeInv, NEW q \in Resets, ResetScan(q) PROVE TypeInv'
<1>1. PICK i \in IdentitiesOf(target[q]) \ passed[q] :
        \/ /\ ~IsMarked(identity[i])
           /\ passed' = [passed EXCEPT ![q] = @ \cup {i}]
           /\ UNCHANGED <<mem, held, pc>>
        \/ /\ IsMarked(identity[i])
           /\ mem' = [mem EXCEPT ![q] = identity[i]]
           /\ held' = [held EXCEPT ![q] = i]
           /\ pc' = [pc EXCEPT ![q] = "flush"]
           /\ UNCHANGED passed
  BY DEF ResetScan
<1>2. i \in Identities /\ q \in Requests
  BY RowsAssumption DEF IdentitiesOf, FindingsOf, Requests
<1>3. /\ passed' \in [Resets -> SUBSET Identities]
      /\ mem' \in [Requests -> Snapshot \cup {None}]
      /\ held' \in [Resets \cup Analyses -> Identities \cup {None}]
      /\ pc' \in [Requests -> PatchStates \cup ResetStates \cup AnalysisStates]
  <2>1. CASE ~IsMarked(identity[i])
    <3>1. passed[q] \cup {i} \in SUBSET Identities
      BY <1>2 DEF TypeInv, TypeOK
    <3>2. /\ passed' = [passed EXCEPT ![q] = passed[q] \cup {i}]
          /\ mem' = mem /\ held' = held /\ pc' = pc
      BY <1>1, <2>1
    <3> QED BY <3>1, <3>2 DEF TypeInv, TypeOK
  <2>2. CASE IsMarked(identity[i])
    <3>1. identity[i] \in Snapshot
      BY <1>2 DEF TypeInv, TypeOK
    <3> QED BY <1>1, <1>2, <2>2, <3>1 DEF TypeInv, TypeOK, ResetStates
  <2> QED BY <2>1, <2>2
<1>4. TypeOK'
  BY <1>3 DEF TypeInv, TypeOK, ResetScan, rows, patchVars, loopVars
<1>5. Sessions'
  BY <1>1, <1>2, RequestsAssumption
     DEF TypeInv, TypeOK, Sessions, PatchSession, ResetSession, AnalysisSession,
         ResetScan, rows, patchVars, loopVars, Requests, ResetStates
<1> QED BY <1>4, <1>5 DEF TypeInv

\* A committed reset keeps the types: every row it writes stays a snapshot.
LEMMA ResetCommitType ==
    ASSUME TypeInv, NEW q \in Resets, ResetCommit(q) PROVE TypeInv'
<1> DEFINE written(i) ==
      SystemWrite(identity[i], ResetObject(q, i), "unmarked", "reset", None, q)
<1>1. ASSUME NEW i \in Identities, ResetWrites(q, i)
      PROVE  ResetObject(q, i) \in Snapshot
  <2>1. CASE pc[q] = "flush"
    BY <2>1 DEF TypeInv, TypeOK, Sessions, ResetSession, ResetObject
  <2>2. CASE pc[q] # "flush"
    BY <2>2, RequestsAssumption DEF TypeInv, TypeOK, Sessions, ResetSession, ResetObject
  <2> QED BY <2>1, <2>2
<1>2. /\ q \in Requests
      /\ "unmarked" \in VerdictValues
      /\ "reset" \in Sources
  BY DEF Requests, VerdictValues, Sources
<1>3. ASSUME NEW i \in Identities, ResetWrites(q, i)
      PROVE  written(i) \in Snapshot
  BY <1>1, <1>2, <1>3, SystemWriteType DEF TypeInv, TypeOK
<1>4. identity' \in [Identities -> Snapshot]
  BY <1>3 DEF ResetCommit, TypeInv, TypeOK
<1>5. ASSUME NEW i \in Identities, ResetWrites(q, i)
      PROVE  EventOf(ResetObject(q, i), "unmarked", "reset", q) \in VerdictEvent
  BY <1>1, <1>2, <1>5, EventType
<1>6. journal' \in [Identities -> Seq(VerdictEvent)]
  BY <1>5 DEF ResetCommit, TypeInv, TypeOK
<1>7. counts' \in [Runs -> [VerdictValues -> Nat]]
  BY RecomputeType DEF TypeInv, TypeOK, ResetCommit
<1>8. TypeOK'
  BY <1>4, <1>6, <1>7, RequestsAssumption
     DEF TypeInv, TypeOK, ResetCommit, patchVars, loopVars, ResetStates
<1>9. Sessions'
  BY RequestsAssumption
     DEF TypeInv, TypeOK, Sessions, PatchSession, ResetSession, AnalysisSession,
         ResetCommit, patchVars, loopVars, Requests, ResetStates
<1> QED BY <1>8, <1>9 DEF TypeInv

\* Reading the batch keeps the types.
LEMMA AnalyzeLoadType ==
    ASSUME TypeInv, NEW a \in Analyses, AnalyzeLoad(a) PROVE TypeInv'
<1>1. TypeOK'
  BY RowsAssumption, RequestsAssumption
     DEF TypeInv, TypeOK, Sessions, PatchSession, ResetSession, AnalysisSession,
         AnalyzeLoad, rows, patchVars, resetVars, loopVars, Requests, AnalysisStates, Live, Jobs, Outcomes
<1>2. Sessions'
  BY RowsAssumption, RequestsAssumption
     DEF TypeInv, TypeOK, Sessions, PatchSession, ResetSession, AnalysisSession,
         AnalyzeLoad, rows, patchVars, resetVars, loopVars, Requests, AnalysisStates, Live, Jobs, Outcomes
<1> QED BY <1>1, <1>2 DEF TypeInv

\* Entering the generator keeps the types.
LEMMA AnalyzeEnterType ==
    ASSUME TypeInv, NEW a \in Analyses, AnalyzeEnter(a) PROVE TypeInv'
<1>1. TypeOK'
  BY RowsAssumption, RequestsAssumption
     DEF TypeInv, TypeOK, Sessions, PatchSession, ResetSession, AnalysisSession,
         AnalyzeEnter, rows, patchVars, resetVars, loopVars, Requests, AnalysisStates, Live, Jobs, Registered
<1>2. Sessions'
  BY RowsAssumption, RequestsAssumption
     DEF TypeInv, TypeOK, Sessions, PatchSession, ResetSession, AnalysisSession,
         AnalyzeEnter, rows, patchVars, resetVars, loopVars, Requests, AnalysisStates, Live, Jobs, Registered
<1> QED BY <1>1, <1>2 DEF TypeInv

\* Sending a finding to the provider keeps the types.
LEMMA AnalyzeCallType ==
    ASSUME TypeInv, NEW a \in Analyses, AnalyzeCall(a) PROVE TypeInv'
<1>1. TypeOK'
  BY RowsAssumption, RequestsAssumption
     DEF TypeInv, TypeOK, Sessions, PatchSession, ResetSession, AnalysisSession,
         AnalyzeCall, rows, patchVars, resetVars, loopVars, Requests, AnalysisStates, Live, Pending
<1>2. Sessions'
  BY RowsAssumption, RequestsAssumption
     DEF TypeInv, TypeOK, Sessions, PatchSession, ResetSession, AnalysisSession,
         AnalyzeCall, rows, patchVars, resetVars, loopVars, Requests, AnalysisStates, Live, Pending
<1> QED BY <1>1, <1>2 DEF TypeInv

\* An answer, skipped or held, keeps the types.
LEMMA AnalyzeAnswerType ==
    ASSUME TypeInv, NEW a \in Analyses, AnalyzeAnswer(a) PROVE TypeInv'
<1>1. /\ current[a] \in Findings
      /\ IdentityOf[current[a]] \in Identities
      /\ a \in Requests
  BY RowsAssumption DEF TypeInv, Sessions, AnalysisSession, AnalyzeAnswer, Requests
<1> DEFINE skip == Protected(identity[IdentityOf[current[a]]], job[a].override)
<1>2. /\ errors' \in [Analyses -> Nat]
      /\ pc' \in [Requests -> PatchStates \cup ResetStates \cup AnalysisStates]
  BY <1>1 DEF TypeInv, TypeOK, AnalyzeAnswer, AnalysisStates, Live
<1>5. ASSUME skip PROVE TypeOK'
  <2>1. /\ outcome' = [outcome EXCEPT ![a][current[a]] = "skipped"]
        /\ current' = [current EXCEPT ![a] = None]
        /\ UNCHANGED <<mem, held>>
    BY <1>5 DEF AnalyzeAnswer
  <2>2. outcome' \in [Analyses -> [Findings -> Outcomes]]
    BY <1>1, <2>1 DEF TypeInv, TypeOK, Outcomes
  <2> QED BY <1>2, <2>1, <2>2 DEF TypeInv, TypeOK, AnalyzeAnswer, rows, patchVars, resetVars
<1>6. ASSUME ~skip PROVE TypeOK'
  <2>1. /\ mem' = [mem EXCEPT ![a] = identity[IdentityOf[current[a]]]]
        /\ held' = [held EXCEPT ![a] = IdentityOf[current[a]]]
        /\ UNCHANGED <<outcome, current>>
    BY <1>6 DEF AnalyzeAnswer
  <2>2. /\ mem' \in [Requests -> Snapshot \cup {None}]
        /\ held' \in [Resets \cup Analyses -> Identities \cup {None}]
    BY <1>1, <2>1 DEF TypeInv, TypeOK
  <2> QED BY <1>2, <2>1, <2>2 DEF TypeInv, TypeOK, AnalyzeAnswer, rows, patchVars, resetVars
<1>3. TypeOK'
  BY <1>5, <1>6
<1>4. Sessions'
  BY <1>1, RequestsAssumption
     DEF TypeInv, TypeOK, Sessions, PatchSession, ResetSession, AnalysisSession,
         AnalyzeAnswer, rows, patchVars, resetVars, Requests, AnalysisStates, Live
<1> QED BY <1>3, <1>4 DEF TypeInv

\* An AI write keeps the types.
LEMMA AnalyzeWriteType ==
    ASSUME TypeInv, NEW a \in Analyses, AnalyzeWrite(a) PROVE TypeInv'
<1> DEFINE i == held[a]
<1>1. /\ i \in Identities
      /\ mem[a] \in Snapshot
      /\ a \in Requests
      /\ "ai" \in Sources
  BY DEF TypeInv, Sessions, AnalysisSession, AnalyzeWrite, Requests, Sources
<1>2. PICK v \in Marks :
        /\ identity' = [identity EXCEPT
                         ![i] = SystemWrite(@, mem[a], v, "ai", a, a)]
        /\ journal' = [journal EXCEPT ![i] = Append(@, EventOf(mem[a], v, "ai", a))]
  BY DEF AnalyzeWrite
<1>3. v \in VerdictValues
  BY DEF VerdictValues
<1>4. SystemWrite(identity[i], mem[a], v, "ai", a, a) \in Snapshot
  BY <1>1, <1>3, SystemWriteType DEF TypeInv, TypeOK
<1>5. EventOf(mem[a], v, "ai", a) \in VerdictEvent
  BY <1>1, <1>3, EventType
<1>6. /\ identity' \in [Identities -> Snapshot]
      /\ journal' \in [Identities -> Seq(VerdictEvent)]
  BY <1>1, <1>2, <1>4, <1>5 DEF TypeInv, TypeOK
<1>7. TypeOK'
  BY <1>6, RequestsAssumption
     DEF TypeInv, TypeOK, AnalyzeWrite, patchVars, resetVars, AnalysisStates, Live, Outcomes
<1>8. Sessions'
  BY RequestsAssumption
     DEF TypeInv, TypeOK, Sessions, PatchSession, ResetSession, AnalysisSession,
         AnalyzeWrite, patchVars, resetVars, Requests, AnalysisStates, Live
<1> QED BY <1>7, <1>8 DEF TypeInv

\* A failed call keeps the types.
LEMMA AnalyzeErrorType ==
    ASSUME TypeInv, NEW a \in Analyses, AnalyzeError(a) PROVE TypeInv'
<1>1. TypeOK'
  BY RowsAssumption, RequestsAssumption
     DEF TypeInv, TypeOK, Sessions, PatchSession, ResetSession, AnalysisSession,
         AnalyzeError, rows, patchVars, resetVars, loopVars, Requests, AnalysisStates, Live, Outcomes
<1>2. Sessions'
  BY RowsAssumption, RequestsAssumption
     DEF TypeInv, TypeOK, Sessions, PatchSession, ResetSession, AnalysisSession,
         AnalyzeError, rows, patchVars, resetVars, loopVars, Requests, AnalysisStates, Live, Outcomes
<1> QED BY <1>1, <1>2 DEF TypeInv

\* The recompute that ends a batch keeps the types.
LEMMA ConcludeType ==
    ASSUME TypeInv, NEW a \in Analyses, pc[a] = "loop", Conclude(a) PROVE TypeInv'
<1>1. counts' \in [Runs -> [VerdictValues -> Nat]]
  BY RecomputeType DEF TypeInv, TypeOK, Conclude
<1>2. TypeOK'
  BY <1>1, RequestsAssumption
     DEF TypeInv, TypeOK, Conclude, patchVars, resetVars, loopVars, AnalysisStates, Live
<1>3. Sessions'
  BY RequestsAssumption
     DEF TypeInv, TypeOK, Sessions, PatchSession, ResetSession, AnalysisSession,
         Conclude, patchVars, resetVars, loopVars, Requests, AnalysisStates, Live
<1> QED BY <1>2, <1>3 DEF TypeInv

\* The finally clause keeps the types.
LEMMA LeaveType ==
    ASSUME TypeInv, NEW a \in Analyses, AnalyzeExit(a) \/ AnalyzeCancel(a) \/ AnalyzeFail(a)
    PROVE TypeInv'
<1>1. TypeOK'
  BY RequestsAssumption
     DEF TypeInv, TypeOK, AnalyzeExit, AnalyzeCancel, AnalyzeFail, LeaveGenerator, Released,
         rows, patchVars, resetVars, AnalysisStates, Live
<1>2. /\ \A w \in Requests \ {a} : pc'[w] = pc[w]
      /\ pc'[a] \in {"closed", "cancelled"}
      /\ UNCHANGED <<mem, target, tries, held, job>>
      /\ \A b \in Analyses \ {a} : current'[b] = current[b]
  BY DEF TypeInv, TypeOK, AnalyzeExit, AnalyzeCancel, AnalyzeFail, LeaveGenerator,
         patchVars, Requests
<1>3. (\A p \in Patches : PatchSession(p))'
  BY <1>2, RequestsAssumption DEF TypeInv, Sessions, PatchSession, Requests
<1>4. (\A q \in Resets : ResetSession(q))'
  BY <1>2, RequestsAssumption DEF TypeInv, Sessions, ResetSession, Requests
<1>5. (\A b \in Analyses : AnalysisSession(b))'
  BY <1>2 DEF TypeInv, TypeOK, Sessions, AnalysisSession, Requests, AnalysisStates,
              AnalyzeExit, AnalyzeCancel, AnalyzeFail, Live
<1> QED BY <1>1, <1>3, <1>4, <1>5 DEF TypeInv, Sessions

\* Every step keeps the types and the sessions.
LEMMA NextTypeInv == TypeInv /\ [Next]_vars => TypeInv'
<1> SUFFICES ASSUME TypeInv, [Next]_vars PROVE TypeInv'
  OBVIOUS
<1>1. ASSUME NEW p \in Patches, Patch(p) PROVE TypeInv'
  BY <1>1, PatchGetType, PatchReadType, PatchCommitType, PatchConflictType,
     PatchShowType DEF Patch
<1>2. ASSUME NEW q \in Resets, Reset(q) PROVE TypeInv'
  BY <1>2, ResetLoadType, ResetGuardType, ResetScanType, ResetCommitType DEF Reset
<1>3. ASSUME NEW a \in Analyses, Analyze(a) PROVE TypeInv'
  <2>1. ASSUME AnalyzeFinish(a) \/ AnalyzeDisconnected(a) PROVE TypeInv'
    BY <2>1, ConcludeType DEF AnalyzeFinish, AnalyzeDisconnected
  <2> QED
    BY <1>3, <2>1, AnalyzeLoadType, AnalyzeEnterType, AnalyzeCallType,
       AnalyzeAnswerType, AnalyzeWriteType, AnalyzeErrorType, LeaveType
       DEF Analyze, AnalyzeStep
<1>4. ASSUME UNCHANGED vars PROVE TypeInv'
  BY <1>4 DEF TypeInv, TypeOK, Sessions, PatchSession, ResetSession, AnalysisSession, vars
<1> QED BY <1>1, <1>2, <1>3, <1>4 DEF Next, Quiescent

\* The tables, the guard and the sessions keep their types, whatever the number
\* of editors, resets and analyses and the order of their steps.
THEOREM TypeCorrect == Spec => []TypeOK
<1>1. Spec => []TypeInv
  BY InitTypeInv, NextTypeInv, PTL DEF Spec
<1>2. TypeInv => TypeOK
  BY DEF TypeInv
<1> QED BY <1>1, <1>2, PTL

-----------------------------------------------------------------------------
(* What the steps of one request leave alone in the sessions of the others. *)

\* A step of an editor touches neither the guard nor any other session.
LEMMA PatchFrame ==
    ASSUME TypeInv, NEW p \in Patches, Patch(p)
    PROVE  /\ UNCHANGED <<activeRuns, resetVars, held, loopVars>>
           /\ \A w \in Requests \ {p} : pc'[w] = pc[w] /\ mem'[w] = mem[w]
<1>1. CASE PatchGet(p)
  BY <1>1 DEF PatchGet, TypeInv, TypeOK
<1>2. CASE PatchRead(p)
  BY <1>2 DEF PatchRead, TypeInv, TypeOK
<1>3. CASE PatchCommit(p)
  BY <1>3 DEF PatchCommit, TypeInv, TypeOK
<1>4. CASE PatchConflict(p)
  BY <1>4 DEF PatchConflict, TypeInv, TypeOK
<1>5. CASE PatchShow(p)
  BY <1>5 DEF PatchShow, TypeInv, TypeOK
<1> QED BY <1>1, <1>2, <1>3, <1>4, <1>5 DEF Patch

\* A step of a reset touches neither the guard nor any other session.
LEMMA ResetFrame ==
    ASSUME TypeInv, NEW q \in Resets, Reset(q)
    PROVE  /\ UNCHANGED <<activeRuns, patchVars, loopVars>>
           /\ \A w \in Requests \ {q} : pc'[w] = pc[w] /\ mem'[w] = mem[w]
           /\ \A w \in (Resets \cup Analyses) \ {q} : held'[w] = held[w]
<1>1. CASE ResetLoad(q)
  BY <1>1 DEF ResetLoad, TypeInv, TypeOK
<1>2. CASE ResetGuard(q)
  BY <1>2 DEF ResetGuard, TypeInv, TypeOK
<1>3. CASE ResetScan(q)
  BY <1>3 DEF ResetScan, TypeInv, TypeOK
<1>4. CASE ResetCommit(q)
  BY <1>4 DEF ResetCommit, TypeInv, TypeOK
<1> QED BY <1>1, <1>2, <1>3, <1>4 DEF Reset

\* A step of an analysis touches no other session.
LEMMA AnalyzeFrame ==
    ASSUME TypeInv, NEW a \in Analyses, Analyze(a)
    PROVE  /\ UNCHANGED <<target, patchVars, resetVars>>
           /\ \A w \in Requests \ {a} : pc'[w] = pc[w] /\ mem'[w] = mem[w]
           /\ \A w \in (Resets \cup Analyses) \ {a} : held'[w] = held[w]
           /\ \A b \in Analyses \ {a} :
                job'[b] = job[b] /\ outcome'[b] = outcome[b] /\ current'[b] = current[b]
<1>1. CASE AnalyzeLoad(a)
  BY <1>1 DEF AnalyzeLoad, TypeInv, TypeOK
<1>2. CASE AnalyzeEnter(a)
  BY <1>2 DEF AnalyzeEnter, TypeInv, TypeOK, loopVars
<1>3. CASE AnalyzeCall(a)
  BY <1>3 DEF AnalyzeCall, TypeInv, TypeOK
<1>4. CASE AnalyzeAnswer(a)
  BY <1>4 DEF AnalyzeAnswer, TypeInv, TypeOK
<1>5. CASE AnalyzeWrite(a)
  BY <1>5 DEF AnalyzeWrite, TypeInv, TypeOK
<1>6. CASE AnalyzeError(a)
  BY <1>6 DEF AnalyzeError, TypeInv, TypeOK
<1>7. CASE AnalyzeFinish(a) \/ AnalyzeDisconnected(a)
  BY <1>7 DEF AnalyzeFinish, AnalyzeDisconnected, Conclude, TypeInv, TypeOK, loopVars
<1>8. CASE AnalyzeExit(a) \/ AnalyzeCancel(a) \/ AnalyzeFail(a)
  BY <1>8 DEF AnalyzeExit, AnalyzeCancel, AnalyzeFail, LeaveGenerator, TypeInv, TypeOK
<1> QED
  BY <1>1, <1>2, <1>3, <1>4, <1>5, <1>6, <1>7, <1>8 DEF Analyze, AnalyzeStep

-----------------------------------------------------------------------------
(* The version never runs ahead of the history.  Inductive once the objects *)
(* awaiting a flush obey the same bound as the rows.                        *)

StaleBounded ==
    /\ \A q \in Resets : pc[q] = "flush" => mem[q].version <= 1 + Len(journal[held[q]])
    /\ \A a \in Analyses : pc[a] = "answered" => mem[a].version <= 1 + Len(journal[held[a]])

VersionInv == TypeInv /\ VersionBounded /\ StaleBounded

\* Histories only grow, and by one event per row and step.
LEMMA JournalGrows ==
    ASSUME TypeInv, [Next]_vars, NEW i \in Identities
    PROVE  Len(journal'[i]) \in Nat /\ Len(journal[i]) <= Len(journal'[i])
<1>1. journal[i] \in Seq(VerdictEvent) /\ journal'[i] \in Seq(VerdictEvent)
  BY NextTypeInv DEF TypeInv, TypeOK
<1>2. ASSUME NEW p \in Patches, Patch(p) PROVE Len(journal[i]) <= Len(journal'[i])
  <2>1. CASE PatchCommit(p)
    BY <1>1, <2>1 DEF PatchCommit, TypeInv, TypeOK
  <2>2. CASE ~PatchCommit(p)
    BY <1>1, <1>2, <2>2
       DEF Patch, PatchGet, PatchRead, PatchConflict, PatchShow, rows
  <2> QED BY <2>1, <2>2
<1>3. ASSUME NEW q \in Resets, Reset(q) PROVE Len(journal[i]) <= Len(journal'[i])
  <2>1. CASE ResetCommit(q)
    <3>1. journal'[i] = journal[i] \/ \E e : journal'[i] = Append(journal[i], e)
      BY <2>1 DEF ResetCommit
    <3> QED BY <1>1, <3>1
  <2>2. CASE ~ResetCommit(q)
    BY <1>1, <1>3, <2>2 DEF Reset, ResetLoad, ResetGuard, ResetScan, rows
  <2> QED BY <2>1, <2>2
<1>4. ASSUME NEW a \in Analyses, Analyze(a) PROVE Len(journal[i]) <= Len(journal'[i])
  <2>1. CASE AnalyzeWrite(a)
    BY <1>1, <2>1 DEF AnalyzeWrite, TypeInv, TypeOK
  <2>2. CASE ~AnalyzeWrite(a)
    BY <1>1, <1>4, <2>2
       DEF Analyze, AnalyzeStep, AnalyzeLoad, AnalyzeEnter, AnalyzeCall, AnalyzeAnswer,
           AnalyzeError, AnalyzeFinish, AnalyzeDisconnected, Conclude, AnalyzeExit,
           AnalyzeCancel, AnalyzeFail, LeaveGenerator, rows
  <2> QED BY <2>1, <2>2
<1>5. ASSUME UNCHANGED vars PROVE Len(journal[i]) <= Len(journal'[i])
  BY <1>1, <1>5 DEF vars
<1> QED BY <1>1, <1>2, <1>3, <1>4, <1>5 DEF Next, Quiescent

\* The object a reset holds stays within the history of its identity.
LEMMA StaleResetKept ==
    ASSUME VersionInv, [Next]_vars, NEW q \in Resets,
           pc'[q] = pc[q], mem'[q] = mem[q], held'[q] = held[q],
           pc[q] = "flush"
    PROVE  mem'[q].version <= 1 + Len(journal'[held'[q]])
<1>1. mem[q] \in Snapshot /\ held[q] \in Identities
  BY DEF VersionInv, TypeInv, Sessions, ResetSession, AnalysisSession
<1>2. mem[q].version <= 1 + Len(journal[held[q]])
  BY DEF VersionInv, StaleBounded
<1>3. /\ Len(journal'[held[q]]) \in Nat
      /\ Len(journal[held[q]]) <= Len(journal'[held[q]])
  BY <1>1, JournalGrows DEF VersionInv
<1>4. mem[q].version \in Nat /\ Len(journal[held[q]]) \in Nat
  BY <1>1 DEF VersionInv, TypeInv, TypeOK, Snapshot
<1> QED BY <1>2, <1>3, <1>4

\* The object an analysis holds stays within the history of its identity.
LEMMA StaleAnalysisKept ==
    ASSUME VersionInv, [Next]_vars, NEW a \in Analyses,
           pc'[a] = pc[a], mem'[a] = mem[a], held'[a] = held[a],
           pc[a] = "answered"
    PROVE  mem'[a].version <= 1 + Len(journal'[held'[a]])
<1>1. mem[a] \in Snapshot /\ held[a] \in Identities
  BY DEF VersionInv, TypeInv, Sessions, ResetSession, AnalysisSession
<1>2. mem[a].version <= 1 + Len(journal[held[a]])
  BY DEF VersionInv, StaleBounded
<1>3. /\ Len(journal'[held[a]]) \in Nat
      /\ Len(journal[held[a]]) <= Len(journal'[held[a]])
  BY <1>1, JournalGrows DEF VersionInv
<1>4. mem[a].version \in Nat /\ Len(journal[held[a]]) \in Nat
  BY <1>1 DEF VersionInv, TypeInv, TypeOK, Snapshot
<1> QED BY <1>2, <1>3, <1>4

\* A step adds at most one to the version of an identity per event.
LEMMA VersionStep ==
    ASSUME VersionInv, [Next]_vars
    PROVE  VersionBounded' /\ StaleBounded'
<1>1. \A i \in Identities : /\ Len(journal'[i]) \in Nat
                            /\ Len(journal[i]) \in Nat
                            /\ Len(journal[i]) <= Len(journal'[i])
                            /\ identity[i].version \in Nat
  BY JournalGrows DEF VersionInv, TypeInv, TypeOK, Snapshot
<1>2. TypeInv
  BY DEF VersionInv
<1>3. ASSUME NEW p \in Patches, Patch(p)
      PROVE  VersionBounded' /\ StaleBounded'
  <2>1. UNCHANGED held /\ \A w \in Resets \cup Analyses : pc'[w] = pc[w] /\ mem'[w] = mem[w]
    BY <1>2, <1>3, PatchFrame, RequestsAssumption DEF Requests
  <2>2. StaleBounded'
    <3>1. ASSUME NEW w \in Resets, pc'[w] = "flush"
          PROVE  mem'[w].version <= 1 + Len(journal'[held'[w]])
      BY <2>1, <3>1, StaleResetKept
    <3>2. ASSUME NEW w \in Analyses, pc'[w] = "answered"
          PROVE  mem'[w].version <= 1 + Len(journal'[held'[w]])
      BY <2>1, <3>2, StaleAnalysisKept
    <3> QED BY <3>1, <3>2 DEF StaleBounded
  <2>3. CASE PatchCommit(p)
    <3> DEFINE i == IdentityOf[target[p]]
    <3>1. /\ i \in Identities
          /\ mem[p] \in Snapshot
          /\ seen[p].version \in Nat \ {0}
          /\ p \in Requests
      BY <2>3, RowsAssumption
         DEF VersionInv, TypeInv, TypeOK, Sessions, PatchSession, PatchCommit, Snapshot, Requests
    <3>2. PICK v \in VerdictValues :
            /\ identity' = [identity EXCEPT
                             ![i] = CasWrite(@, mem[p], v, p, p, seen[p].version)]
            /\ journal' = [journal EXCEPT
                             ![i] = Append(@, EventOf(mem[p], v, "human", p))]
      BY <2>3 DEF PatchCommit
    <3>3. identity'[i].version = identity[i].version + 1
      <4>1. identity[i] \in Snapshot /\ identity[i].version = seen[p].version
        BY <2>3, <3>1 DEF VersionInv, TypeInv, TypeOK, PatchCommit, CasMatches
      <4>2. CasWrite(identity[i], mem[p], v, p, p, seen[p].version).version
              = seen[p].version + 1
        BY <3>1, <4>1, CasWriteType
      <4> QED BY <3>1, <3>2, <4>1, <4>2 DEF VersionInv, TypeInv, TypeOK
    <3>4. Len(journal'[i]) = Len(journal[i]) + 1
      BY <3>1, <3>2 DEF VersionInv, TypeInv, TypeOK
    <3>5. VersionBounded'
      BY <1>1, <3>1, <3>2, <3>3, <3>4 DEF VersionInv, VersionBounded, TypeInv, TypeOK
    <3> QED BY <2>2, <3>5
  <2>4. CASE ~PatchCommit(p)
    <3>1. UNCHANGED <<identity, journal>>
      BY <1>3, <2>4 DEF Patch, PatchGet, PatchRead, PatchConflict, PatchShow, rows
    <3> QED BY <2>2, <3>1 DEF VersionInv, VersionBounded
  <2> QED BY <2>3, <2>4
<1>4. ASSUME NEW q \in Resets, Reset(q)
      PROVE  VersionBounded' /\ StaleBounded'
  <2>1. \A w \in (Resets \cup Analyses) \ {q} :
          pc'[w] = pc[w] /\ mem'[w] = mem[w] /\ held'[w] = held[w]
    BY <1>2, <1>4, ResetFrame, RequestsAssumption DEF Requests
  <2>2. CASE ResetCommit(q)
    <3>1. ASSUME NEW i \in Identities, ResetWrites(q, i)
          PROVE  identity'[i].version <= 1 + Len(journal'[i])
      <4>1. ResetObject(q, i) \in Snapshot
        BY <3>1, RequestsAssumption
           DEF VersionInv, TypeInv, TypeOK, Sessions, ResetSession, ResetObject
      <4>2. ResetObject(q, i).version <= 1 + Len(journal[i])
        BY <2>2, <3>1, RequestsAssumption
           DEF VersionInv, VersionBounded, StaleBounded, TypeInv, TypeOK, Sessions,
               ResetSession, ResetObject
      <4>3. identity'[i].version = ResetObject(q, i).version + 1
        <5>1. /\ identity[i] \in Snapshot
              /\ "unmarked" \in VerdictValues
              /\ "reset" \in Sources
              /\ q \in Requests
          BY <3>1 DEF VersionInv, TypeInv, TypeOK, Requests, VerdictValues, Sources
        <5>2. SystemWrite(identity[i], ResetObject(q, i), "unmarked", "reset", None, q).version
                = ResetObject(q, i).version + 1
          <6> DEFINE o == ResetObject(q, i)
          <6>1. None \in Requests \cup {None}
            OBVIOUS
          <6> HIDE DEF o
          <6>2. SystemWrite(identity[i], o, "unmarked", "reset", None, q).version = o.version + 1
            BY <4>1, <5>1, <6>1, SystemWriteType DEF o
          <6> QED BY <6>2 DEF o
        <5> QED BY <2>2, <3>1, <5>2 DEF ResetCommit
      <4>4. Len(journal'[i]) = Len(journal[i]) + 1
        BY <2>2, <3>1 DEF ResetCommit, VersionInv, TypeInv, TypeOK
      <4>5. ResetObject(q, i).version \in Nat
        BY <4>1 DEF Snapshot
      <4> QED BY <1>1, <4>2, <4>3, <4>4, <4>5
    <3>2. ASSUME NEW i \in Identities, ~ResetWrites(q, i)
          PROVE  identity'[i].version <= 1 + Len(journal'[i])
      BY <2>2, <3>2 DEF ResetCommit, VersionInv, VersionBounded
    <3>3. VersionBounded'
      BY <3>1, <3>2 DEF VersionBounded
    <3>4. pc'[q] # "flush"
      BY <2>2 DEF ResetCommit, VersionInv, TypeInv, TypeOK, Requests
    <3>5. StaleBounded'
      <4>1. ASSUME NEW w \in Resets, pc'[w] = "flush"
            PROVE  mem'[w].version <= 1 + Len(journal'[held'[w]])
        BY <2>1, <3>4, <4>1, StaleResetKept, RequestsAssumption
      <4>2. ASSUME NEW w \in Analyses, pc'[w] = "answered"
            PROVE  mem'[w].version <= 1 + Len(journal'[held'[w]])
        BY <2>1, <3>4, <4>2, StaleAnalysisKept, RequestsAssumption
      <4> QED BY <4>1, <4>2 DEF StaleBounded
    <3> QED BY <3>3, <3>5
  <2>3. CASE ~ResetCommit(q)
    <3>1. UNCHANGED <<identity, journal>>
      BY <1>4, <2>3 DEF Reset, ResetLoad, ResetGuard, ResetScan, rows
    <3>2. pc'[q] = "flush" => mem'[q].version <= 1 + Len(journal'[held'[q]])
      <4>1. CASE ResetScan(q)
        <5>1. PICK i \in IdentitiesOf(target[q]) \ passed[q] :
                \/ /\ ~IsMarked(identity[i])
                   /\ UNCHANGED <<mem, held, pc>>
                \/ /\ IsMarked(identity[i])
                   /\ mem' = [mem EXCEPT ![q] = identity[i]]
                   /\ held' = [held EXCEPT ![q] = i]
          BY <4>1 DEF ResetScan
        <5>2. i \in Identities /\ q \in Requests
          BY RowsAssumption DEF IdentitiesOf, FindingsOf, Requests
        <5>3. pc[q] # "flush"
          BY <4>1 DEF ResetScan
        <5> QED BY <3>1, <5>1, <5>2, <5>3 DEF VersionInv, VersionBounded, TypeInv, TypeOK
      <4>2. CASE ~ResetScan(q)
        BY <1>4, <2>3, <4>2
           DEF Reset, ResetLoad, ResetGuard, VersionInv, TypeInv, TypeOK, Requests
      <4> QED BY <4>1, <4>2
    <3>3. StaleBounded'
      BY <2>1, <3>1, <3>2, RequestsAssumption DEF StaleBounded, VersionInv
    <3> QED BY <3>1, <3>3 DEF VersionInv, VersionBounded
  <2> QED BY <2>2, <2>3
<1>5. ASSUME NEW a \in Analyses, Analyze(a)
      PROVE  VersionBounded' /\ StaleBounded'
  <2>1. \A w \in (Resets \cup Analyses) \ {a} :
          pc'[w] = pc[w] /\ mem'[w] = mem[w] /\ held'[w] = held[w]
    BY <1>2, <1>5, AnalyzeFrame, RequestsAssumption DEF Requests
  <2>2. CASE AnalyzeWrite(a)
    <3> DEFINE i == held[a]
    <3>1. /\ i \in Identities
          /\ mem[a] \in Snapshot
          /\ a \in Requests
          /\ "ai" \in Sources
      BY <2>2 DEF VersionInv, TypeInv, Sessions, AnalysisSession, AnalyzeWrite, Requests, Sources
    <3>2. PICK v \in Marks :
            /\ identity' = [identity EXCEPT
                             ![i] = SystemWrite(@, mem[a], v, "ai", a, a)]
            /\ journal' = [journal EXCEPT ![i] = Append(@, EventOf(mem[a], v, "ai", a))]
      BY <2>2 DEF AnalyzeWrite
    <3>3. identity'[i].version = mem[a].version + 1
      BY <3>1, <3>2, SystemWriteType DEF VersionInv, TypeInv, TypeOK, VerdictValues
    <3>4. Len(journal'[i]) = Len(journal[i]) + 1
      BY <3>1, <3>2 DEF VersionInv, TypeInv, TypeOK
    <3>5. mem[a].version \in Nat /\ mem[a].version <= 1 + Len(journal[i])
      BY <2>2, <3>1 DEF VersionInv, StaleBounded, AnalyzeWrite, Snapshot
    <3>6. VersionBounded'
      BY <1>1, <3>1, <3>2, <3>3, <3>4, <3>5 DEF VersionInv, VersionBounded, TypeInv, TypeOK
    <3>7. pc'[a] # "answered"
      BY <2>2 DEF AnalyzeWrite, VersionInv, TypeInv, TypeOK, Requests
    <3>8. StaleBounded'
      <4>1. ASSUME NEW w \in Resets, pc'[w] = "flush"
            PROVE  mem'[w].version <= 1 + Len(journal'[held'[w]])
        BY <2>1, <3>7, <4>1, StaleResetKept, RequestsAssumption
      <4>2. ASSUME NEW w \in Analyses, pc'[w] = "answered"
            PROVE  mem'[w].version <= 1 + Len(journal'[held'[w]])
        BY <2>1, <3>7, <4>2, StaleAnalysisKept, RequestsAssumption
      <4> QED BY <4>1, <4>2 DEF StaleBounded
    <3> QED BY <3>6, <3>8
  <2>3. CASE ~AnalyzeWrite(a)
    <3>1. UNCHANGED <<identity, journal>>
      BY <1>5, <2>3
         DEF Analyze, AnalyzeStep, AnalyzeLoad, AnalyzeEnter, AnalyzeCall, AnalyzeAnswer,
             AnalyzeError, AnalyzeFinish, AnalyzeDisconnected, Conclude, AnalyzeExit,
             AnalyzeCancel, AnalyzeFail, LeaveGenerator, rows
    <3>2. pc'[a] = "answered" => mem'[a].version <= 1 + Len(journal'[held'[a]])
      <4>1. CASE AnalyzeAnswer(a)
        <5>1. IdentityOf[current[a]] \in Identities
          BY <4>1, RowsAssumption
             DEF AnalyzeAnswer, VersionInv, TypeInv, Sessions, AnalysisSession
        <5>2. pc'[a] = "answered" => /\ mem'[a] = identity[IdentityOf[current[a]]]
                                     /\ held'[a] = IdentityOf[current[a]]
          BY <4>1 DEF AnalyzeAnswer, VersionInv, TypeInv, TypeOK, Requests
        <5> QED BY <3>1, <5>1, <5>2 DEF VersionInv, VersionBounded
      <4>2. CASE ~AnalyzeAnswer(a)
        BY <1>5, <2>3, <4>2
           DEF Analyze, AnalyzeStep, AnalyzeLoad, AnalyzeEnter, AnalyzeCall,
               AnalyzeError, AnalyzeFinish, AnalyzeDisconnected, Conclude, AnalyzeExit,
               AnalyzeCancel, AnalyzeFail, LeaveGenerator, VersionInv, TypeInv, TypeOK, Requests
      <4> QED BY <4>1, <4>2
    <3>3. StaleBounded'
      BY <2>1, <3>1, <3>2, RequestsAssumption DEF StaleBounded, VersionInv
    <3> QED BY <3>1, <3>3 DEF VersionInv, VersionBounded
  <2> QED BY <2>2, <2>3
<1>6. ASSUME UNCHANGED vars PROVE VersionBounded' /\ StaleBounded'
  BY <1>6 DEF VersionInv, VersionBounded, StaleBounded, vars
<1> QED BY <1>3, <1>4, <1>5, <1>6 DEF Next, Quiescent

\* Versions, rows and objects in hand keep their bound.
LEMMA VersionInvariant == Spec => []VersionInv
<1>1. Init => VersionInv
  <2>1. Init => VersionBounded /\ StaleBounded
    BY RequestsAssumption
       DEF Init, VersionBounded, StaleBounded, FreshIdentity, Requests
  <2> QED BY <2>1, InitTypeInv DEF VersionInv
<1>2. VersionInv /\ [Next]_vars => VersionInv'
  BY VersionStep, NextTypeInv DEF VersionInv
<1> QED BY <1>1, <1>2, PTL DEF Spec

\* With any mix of editors, resets and analyses working on stale objects, an
\* identity never has more versions than recorded events plus the first one.
THEOREM VersionNeverAhead == Spec => []VersionBounded
<1>1. VersionInv => VersionBounded
  BY DEF VersionInv
<1> QED BY <1>1, VersionInvariant, PTL

-----------------------------------------------------------------------------
(* The audit log of all writers together.                                  *)

\* What a step may do to an identity: nothing, or one write.  The event comes from
\* the object that also decides whether the verdict column is sent, so the stored
\* verdict follows the event even when the object is stale.
RowWritten(i) ==
    \E e \in VerdictEvent :
        /\ journal'[i] = Append(journal[i], e)
        /\ identity'[i].verdict = IF e.old # e.new THEN e.new ELSE identity[i].verdict
RowKept(i) == identity'[i] = identity[i] /\ journal'[i] = journal[i]

\* A committed PATCH writes one identity.
LEMMA PatchRowStep ==
    ASSUME TypeInv, NEW p \in Patches, PatchCommit(p), NEW i \in Identities
    PROVE  RowWritten(i) \/ RowKept(i)
<1> DEFINE j == IdentityOf[target[p]]
<1>1. PICK v \in VerdictValues :
        /\ identity' = [identity EXCEPT
                         ![j] = CasWrite(@, mem[p], v, p, p, seen[p].version)]
        /\ journal' = [journal EXCEPT ![j] = Append(@, EventOf(mem[p], v, "human", p))]
  BY DEF PatchCommit
<1>2. mem[p] \in Snapshot /\ seen[p].version \in Nat /\ p \in Requests
  BY DEF TypeInv, TypeOK, Sessions, PatchSession, PatchCommit, Snapshot, Requests
<1>3. CASE i = j
  <2> DEFINE e == EventOf(mem[p], v, "human", p)
  <2>1. identity[i] \in Snapshot
    BY DEF TypeInv, TypeOK
  <2>2. /\ e \in VerdictEvent
        /\ CasWrite(identity[i], mem[p], v, p, p, seen[p].version).verdict
             = IF e.old # e.new THEN e.new ELSE identity[i].verdict
    BY <1>2, <2>1, EventType DEF Sources, EventOf, CasWrite, Flush, Column, Assigned
  <2>3. /\ identity'[i] = CasWrite(identity[i], mem[p], v, p, p, seen[p].version)
        /\ journal'[i] = Append(journal[i], e)
    BY <1>1, <1>3 DEF TypeInv, TypeOK
  <2>4. identity'[i].verdict = IF e.old # e.new THEN e.new ELSE identity[i].verdict
    BY <2>2, <2>3
  <2>5. e \in VerdictEvent /\ journal'[i] = Append(journal[i], e)
    BY <2>2, <2>3
  <2> HIDE DEF e
  <2> QED BY <2>4, <2>5, Zenon DEF RowWritten
<1>4. CASE i # j
  BY <1>1, <1>4 DEF TypeInv, TypeOK, RowKept
<1> QED BY <1>3, <1>4

\* A committed reset writes some identities, from objects stale or fresh.
LEMMA ResetRowStep ==
    ASSUME TypeInv, NEW q \in Resets, ResetCommit(q), NEW i \in Identities
    PROVE  RowWritten(i) \/ RowKept(i)
<1>1. CASE ResetWrites(q, i)
  <2> DEFINE o == ResetObject(q, i)
             e == EventOf(o, "unmarked", "reset", q)
  <2>1. o \in Snapshot
    BY <1>1, RequestsAssumption
       DEF TypeInv, TypeOK, Sessions, ResetSession, ResetObject, ResetCommit
  <2>2. "unmarked" \in VerdictValues /\ "reset" \in Sources /\ q \in Requests
    BY DEF VerdictValues, Sources, Requests
  <2>3. /\ identity'[i] = SystemWrite(identity[i], o, "unmarked", "reset", None, q)
        /\ journal'[i] = Append(journal[i], e)
    BY <1>1 DEF ResetCommit
  <2> HIDE DEF o
  <2>4. /\ e \in VerdictEvent
        /\ SystemWrite(identity[i], o, "unmarked", "reset", None, q).verdict
             = IF e.old # e.new THEN e.new ELSE identity[i].verdict
    BY <2>1, <2>2, EventType DEF EventOf, SystemWrite, Flush, Column, Assigned
  <2>5. identity'[i].verdict = IF e.old # e.new THEN e.new ELSE identity[i].verdict
    BY <2>3, <2>4
  <2>6. e \in VerdictEvent /\ journal'[i] = Append(journal[i], e)
    BY <2>3, <2>4
  <2> HIDE DEF e
  <2> QED BY <2>5, <2>6, Zenon DEF RowWritten
<1>2. CASE ~ResetWrites(q, i)
  BY <1>2 DEF ResetCommit, RowKept
<1> QED BY <1>1, <1>2

\* A verdict of an analysis writes one identity.
LEMMA AnalyzeRowStep ==
    ASSUME TypeInv, NEW a \in Analyses, AnalyzeWrite(a), NEW i \in Identities
    PROVE  RowWritten(i) \/ RowKept(i)
<1> DEFINE j == held[a]
<1>1. PICK v \in Marks :
        /\ identity' = [identity EXCEPT ![j] = SystemWrite(@, mem[a], v, "ai", a, a)]
        /\ journal' = [journal EXCEPT ![j] = Append(@, EventOf(mem[a], v, "ai", a))]
  BY DEF AnalyzeWrite
<1>2. mem[a] \in Snapshot /\ a \in Requests /\ v \in VerdictValues /\ "ai" \in Sources
  BY DEF TypeInv, Sessions, AnalysisSession, AnalyzeWrite, Requests, VerdictValues, Sources
<1>3. CASE i = j
  <2> DEFINE e == EventOf(mem[a], v, "ai", a)
  <2>1. /\ e \in VerdictEvent
        /\ SystemWrite(identity[i], mem[a], v, "ai", a, a).verdict
             = IF e.old # e.new THEN e.new ELSE identity[i].verdict
    BY <1>2, EventType DEF EventOf, SystemWrite, Flush, Column, Assigned
  <2>2. /\ identity'[i] = SystemWrite(identity[i], mem[a], v, "ai", a, a)
        /\ journal'[i] = Append(journal[i], e)
    BY <1>1, <1>3 DEF TypeInv, TypeOK
  <2>3. identity'[i].verdict = IF e.old # e.new THEN e.new ELSE identity[i].verdict
    BY <2>1, <2>2
  <2>4. e \in VerdictEvent /\ journal'[i] = Append(journal[i], e)
    BY <2>1, <2>2
  <2> HIDE DEF e
  <2> QED BY <2>3, <2>4, Zenon DEF RowWritten
<1>4. CASE i # j
  BY <1>1, <1>4 DEF TypeInv, TypeOK, RowKept
<1> QED BY <1>3, <1>4

\* Every step of every request does no more than that to each identity.
LEMMA EveryRowStep ==
    ASSUME TypeInv, [Next]_vars, NEW i \in Identities
    PROVE  RowWritten(i) \/ RowKept(i)
<1>1. UNCHANGED <<identity, journal>> => RowKept(i)
  BY DEF RowKept
<1>2. ASSUME NEW p \in Patches, Patch(p) PROVE RowWritten(i) \/ RowKept(i)
  <2>1. CASE ~PatchCommit(p)
    BY <1>1, <1>2, <2>1 DEF Patch, PatchGet, PatchRead, PatchConflict, PatchShow, rows
  <2> QED BY <2>1, PatchRowStep
<1>3. ASSUME NEW q \in Resets, Reset(q) PROVE RowWritten(i) \/ RowKept(i)
  <2>1. CASE ~ResetCommit(q)
    BY <1>1, <1>3, <2>1 DEF Reset, ResetLoad, ResetGuard, ResetScan, rows
  <2> QED BY <2>1, ResetRowStep
<1>4. ASSUME NEW a \in Analyses, Analyze(a) PROVE RowWritten(i) \/ RowKept(i)
  <2>1. CASE ~AnalyzeWrite(a)
    BY <1>1, <1>4, <2>1
       DEF Analyze, AnalyzeStep, AnalyzeLoad, AnalyzeEnter, AnalyzeCall, AnalyzeAnswer,
           AnalyzeError, AnalyzeFinish, AnalyzeDisconnected, Conclude, AnalyzeExit,
           AnalyzeCancel, AnalyzeFail, LeaveGenerator, rows
  <2> QED BY <2>1, AnalyzeRowStep
<1>5. ASSUME UNCHANGED vars PROVE RowKept(i)
  BY <1>1, <1>5 DEF vars
<1> QED BY <1>2, <1>3, <1>4, <1>5 DEF Next, Quiescent

\* After a step the log shows a well-typed table.
LEMMA LogTypes ==
    ASSUME TypeInv'
    PROVE  /\ [i \in Identities |-> LogRow(i)]' \in [Identities -> Log!Row]
           /\ journal' \in [Identities -> Seq(VerdictEvent)]
<1>1. ASSUME NEW i \in Identities PROVE LogRow(i)' \in Log!Row
  <2>1. identity'[i] \in Snapshot
    BY DEF TypeInv, TypeOK
  <2> QED BY <2>1 DEF LogRow, Log!Row, Snapshot
<1> QED BY <1>1 DEF TypeInv, TypeOK

\* A write is one of the log: the version stays within the number of writes,
\* though it may fall behind the one that was stored.
LEMMA RowStepIsLogged ==
    ASSUME VersionInv, VersionInv', NEW i \in Identities, RowWritten(i) \/ RowKept(i)
    PROVE  Log!Write(i) \/ Log!Keep(i)
<1>1. /\ LogRow(i) = [verdict |-> identity[i].verdict, version |-> identity[i].version]
      /\ LogRow(i)' = [verdict |-> identity'[i].verdict, version |-> identity'[i].version]
  BY DEF LogRow
<1>2. /\ identity[i] \in Snapshot /\ identity'[i] \in Snapshot
      /\ journal'[i] \in Seq(VerdictEvent)
  BY DEF VersionInv, TypeInv, TypeOK
<1>3. CASE RowWritten(i)
  <2>1. PICK e \in VerdictEvent :
          /\ journal'[i] = Append(journal[i], e)
          /\ identity'[i].verdict = IF e.old # e.new THEN e.new ELSE identity[i].verdict
    BY <1>3 DEF RowWritten
  <2>2. LogRow(i)'.verdict = IF Log!Decides(e) THEN e.new ELSE LogRow(i).verdict
    BY <1>1, <2>1 DEF Log!Decides
  <2>3. LogRow(i) # Log!Absent
    BY <1>1, <1>2 DEF Log!Absent, Snapshot
  <2>4. LogRow(i)'.version \in 1..(1 + Len(journal'[i]))
    <3>1. identity'[i].version \in Nat \ {0} /\ Len(journal'[i]) \in Nat
      BY <1>2 DEF Snapshot
    <3>2. identity'[i].version <= 1 + Len(journal'[i])
      BY DEF VersionInv, VersionBounded
    <3> QED BY <1>1, <3>1, <3>2
  <2>5. Log!Write(i)
    BY <2>1, <2>2, <2>3, <2>4 DEF Log!Write
  <2> QED BY <2>5
<1>4. CASE RowKept(i)
  <2>1. Log!Keep(i)
    BY <1>1, <1>4 DEF RowKept, Log!Keep
  <2> QED BY <2>1
<1> QED BY <1>3, <1>4

\* Editors, resets and analyses together, whatever objects they write from and in
\* whatever order they commit, implement the audit log.
THEOREM WritersKeepLog == Spec => KeepsLog
<1>1. Init => Log!Init
  <2> SUFFICES ASSUME Init PROVE Log!Init
    OBVIOUS
  <2>1. \A i \in Identities : LogRow(i) = Log!Fresh
    BY DEF Init, FreshIdentity, LogRow, Log!Fresh
  <2>2. journal = [i \in Identities |-> <<>>]
    BY DEF Init
  <2> QED BY <2>1, <2>2 DEF Log!Init
<1>2. VersionInv /\ VersionInv' /\ [Next]_vars
        => [Log!Next]_<<[i \in Identities |-> LogRow(i)], journal>>
  <2> SUFFICES ASSUME VersionInv, VersionInv', [Next]_vars
               PROVE  Log!Next
    OBVIOUS
  <2>1. TypeInv /\ TypeInv'
    BY DEF VersionInv
  <2>2. ASSUME NEW i \in Identities PROVE Log!Write(i) \/ Log!Keep(i)
    BY <2>1, EveryRowStep, RowStepIsLogged
  <2>3. /\ [i \in Identities |-> LogRow(i)]' \in [Identities -> Log!Row]
        /\ journal' \in [Identities -> Seq(VerdictEvent)]
    BY <2>1, LogTypes
  <2> QED BY <2>2, <2>3 DEF Log!Next
<1> QED BY <1>1, <1>2, VersionInvariant, PTL DEF Spec, KeepsLog, Log!Spec

\* So each verdict on a row can be explained from its events, in every state.
THEOREM EveryVerdictIsExplained == Spec => []VerdictsExplained
BY WritersKeepLog, Log!LogExplains, PTL DEF KeepsLog, VerdictsExplained

-----------------------------------------------------------------------------
(* The guard of the runs under analysis.                                    *)

GuardInv ==
    /\ TypeInv
    /\ GuardNotLeaked
    /\ SoleAnalysisGuarded
    /\ \A a \in Analyses : pc[a] = "idle" => job[a] = NoJob

\* Every step of an analysis keeps the guard right.
LEMMA GuardStepOfAnalysis ==
    ASSUME GuardInv, NEW a \in Analyses, Analyze(a)
    PROVE  /\ GuardNotLeaked' /\ SoleAnalysisGuarded'
           /\ \A b \in Analyses : pc'[b] = "idle" => job'[b] = NoJob
<1>1. /\ TypeInv /\ a \in Requests
      /\ \A b \in Analyses \ {a} : pc'[b] = pc[b] /\ job'[b] = job[b]
  BY AnalyzeFrame DEF GuardInv, Requests
<1>2. /\ pc \in [Requests -> PatchStates \cup ResetStates \cup AnalysisStates]
      /\ job \in [Analyses -> Jobs \cup {NoJob}]
      /\ Analyses \subseteq Requests
  BY <1>1 DEF TypeInv, TypeOK, Requests
<1>3. CASE AnalyzeLoad(a)
  <2>1. /\ pc[a] = "idle" /\ pc'[a] = "loaded" /\ job[a].run = None
        /\ activeRuns' = activeRuns
    BY <1>1, <1>2, <1>3 DEF AnalyzeLoad, GuardInv, NoJob
  <2>2. GuardNotLeaked'
    BY <1>1, <2>1 DEF GuardInv, GuardNotLeaked, LiveRuns, Live
  <2>3. ASSUME NEW b \in Analyses, pc'[b] \in Live,
               \A c \in Analyses \ {b} : job'[c].run # job'[b].run
        PROVE  job'[b].run \in activeRuns'
    <3>1. b # a
      BY <2>1, <2>3 DEF Live
    <3>2. job[b].run \in Runs
      BY <1>1, <2>3, <3>1
         DEF TypeInv, Sessions, AnalysisSession, Live, Jobs
    <3>3. \A c \in Analyses \ {b} : job[c].run # job[b].run
      BY <1>1, <2>1, <2>3, <3>1, <3>2, RequestsAssumption
    <3> QED BY <1>1, <2>1, <2>3, <3>1, <3>3 DEF GuardInv, SoleAnalysisGuarded
  <2>4. SoleAnalysisGuarded'
    BY <2>3 DEF SoleAnalysisGuarded
  <2> QED BY <1>1, <2>1, <2>2, <2>4 DEF GuardInv
<1>4. CASE AnalyzeEnter(a)
  <2>1. /\ pc'[a] \in Live /\ job' = job
        /\ activeRuns' = activeRuns \cup {job[a].run}
    BY <1>2, <1>4 DEF AnalyzeEnter, Registered, loopVars, Live, Requests
  <2>2. GuardNotLeaked'
    BY <1>1, <2>1 DEF GuardInv, GuardNotLeaked, LiveRuns
  <2>3. SoleAnalysisGuarded'
    BY <1>1, <2>1 DEF GuardInv, SoleAnalysisGuarded
  <2> QED BY <1>1, <2>1, <2>2, <2>3 DEF GuardInv, Live
<1>5. CASE AnalyzeExit(a) \/ AnalyzeCancel(a) \/ AnalyzeFail(a)
  <2>1. /\ pc[a] \in Live /\ pc'[a] \in {"closed", "cancelled"} /\ job' = job
        /\ activeRuns' = activeRuns \ {job[a].run}
    BY <1>2, <1>5
       DEF AnalyzeExit, AnalyzeCancel, AnalyzeFail, LeaveGenerator, Released, Live, Requests
  <2>2. GuardNotLeaked'
    BY <1>1, <2>1 DEF GuardInv, GuardNotLeaked, LiveRuns, Live
  <2>3. SoleAnalysisGuarded'
    BY <1>1, <2>1 DEF GuardInv, SoleAnalysisGuarded, Live
  <2> QED BY <1>1, <2>1, <2>2, <2>3 DEF GuardInv
<1>6. CASE /\ ~AnalyzeLoad(a) /\ ~AnalyzeEnter(a)
           /\ ~AnalyzeExit(a) /\ ~AnalyzeCancel(a) /\ ~AnalyzeFail(a)
  <2>1. /\ pc[a] \in Live /\ pc'[a] \in Live /\ job' = job
        /\ activeRuns' = activeRuns
    <3>1. CASE AnalyzeCall(a)
      BY <1>2, <3>1 DEF AnalyzeCall, Live, Requests
    <3>2. CASE AnalyzeAnswer(a)
      BY <1>2, <3>2 DEF AnalyzeAnswer, Live, Requests
    <3>3. CASE AnalyzeWrite(a)
      BY <1>2, <3>3 DEF AnalyzeWrite, Live, Requests
    <3>4. CASE AnalyzeError(a)
      BY <1>2, <3>4 DEF AnalyzeError, Live, Requests
    <3>5. CASE AnalyzeFinish(a) \/ AnalyzeDisconnected(a)
      BY <1>2, <3>5
         DEF AnalyzeFinish, AnalyzeDisconnected, Conclude, loopVars, Live, Requests
    <3> QED BY <1>6, <3>1, <3>2, <3>3, <3>4, <3>5 DEF Analyze, AnalyzeStep
  <2>2. GuardNotLeaked'
    BY <1>1, <2>1 DEF GuardInv, GuardNotLeaked, LiveRuns
  <2>3. SoleAnalysisGuarded'
    BY <1>1, <2>1 DEF GuardInv, SoleAnalysisGuarded
  <2> QED BY <1>1, <2>1, <2>2, <2>3 DEF GuardInv, Live
<1> QED BY <1>3, <1>4, <1>5, <1>6

\* The guard invariant holds in every reachable state.
LEMMA GuardInvariant == Spec => []GuardInv
<1>1. Init => GuardInv
  <2>1. ASSUME Init PROVE /\ GuardNotLeaked /\ SoleAnalysisGuarded
                          /\ \A a \in Analyses : pc[a] = "idle" => job[a] = NoJob
    BY <2>1 DEF Init, GuardNotLeaked, SoleAnalysisGuarded, Live, Requests
  <2> QED BY <2>1, InitTypeInv DEF GuardInv
<1>2. ASSUME GuardInv, [Next]_vars PROVE GuardInv'
  <2>1. TypeInv'
    BY <1>2, NextTypeInv DEF GuardInv
  <2>2. ASSUME UNCHANGED activeRuns, UNCHANGED job,
               \A a \in Analyses : pc'[a] = pc[a]
        PROVE  GuardInv'
    BY <1>2, <2>1, <2>2 DEF GuardInv, GuardNotLeaked, LiveRuns, SoleAnalysisGuarded
  <2>3. ASSUME NEW p \in Patches, Patch(p) PROVE GuardInv'
    <3>1. UNCHANGED activeRuns /\ UNCHANGED job /\ \A a \in Analyses : pc'[a] = pc[a]
      BY <1>2, <2>3, PatchFrame, RequestsAssumption DEF GuardInv, Requests, loopVars
    <3> QED BY <2>2, <3>1
  <2>4. ASSUME NEW q \in Resets, Reset(q) PROVE GuardInv'
    <3>1. UNCHANGED activeRuns /\ UNCHANGED job /\ \A a \in Analyses : pc'[a] = pc[a]
      BY <1>2, <2>4, ResetFrame, RequestsAssumption DEF GuardInv, Requests, loopVars
    <3> QED BY <2>2, <3>1
  <2>5. ASSUME NEW a \in Analyses, Analyze(a) PROVE GuardInv'
    BY <1>2, <2>1, <2>5, GuardStepOfAnalysis DEF GuardInv
  <2>6. ASSUME UNCHANGED vars PROVE GuardInv'
    BY <2>2, <2>6 DEF vars
  <2> QED BY <1>2, <2>3, <2>4, <2>5, <2>6 DEF Next, Quiescent
<1> QED BY <1>1, <1>2, PTL DEF Spec

\* No exit of the generator leaves its run marked when no analysis of the run
\* is live: a reset or deletion cannot be refused for good.
THEOREM GuardNeverLeaked == Spec => []GuardNotLeaked
<1>1. GuardInv => GuardNotLeaked
  BY DEF GuardInv
<1> QED BY <1>1, GuardInvariant, PTL

\* An analysis that shares its run with no other is guarded while it is live.
THEOREM SoleAnalysisIsGuarded == Spec => []SoleAnalysisGuarded
<1>1. GuardInv => SoleAnalysisGuarded
  BY DEF GuardInv
<1> QED BY <1>1, GuardInvariant, PTL

-----------------------------------------------------------------------------
(* The breaker.                                                             *)

\* A call is under way only below the threshold.
BreakerInv ==
    /\ TypeInv
    /\ MaxErrors > 0 => \A a \in Analyses :
         /\ errors[a] <= MaxErrors
         /\ pc[a] = "waiting" => errors[a] < MaxErrors

\* A step of an analysis keeps its own errors within the threshold.
LEMMA BreakerStepOfAnalysis ==
    ASSUME BreakerInv, MaxErrors > 0, NEW a \in Analyses, Analyze(a)
    PROVE  /\ errors'[a] <= MaxErrors
           /\ pc'[a] = "waiting" => errors'[a] < MaxErrors
           /\ \A b \in Analyses \ {a} : errors'[b] = errors[b]
<1> USE BoundsAssumption DEF BreakerInv, TypeInv, TypeOK, Requests
<1>1. CASE AnalyzeLoad(a)
  BY <1>1 DEF AnalyzeLoad
<1>2. CASE AnalyzeEnter(a)
  BY <1>2 DEF AnalyzeEnter, loopVars
<1>3. CASE AnalyzeCall(a)
  BY <1>3 DEF AnalyzeCall, Tripped
<1>4. CASE AnalyzeAnswer(a)
  BY <1>4 DEF AnalyzeAnswer
<1>5. CASE AnalyzeWrite(a)
  BY <1>5 DEF AnalyzeWrite
<1>6. CASE AnalyzeError(a)
  BY <1>6 DEF AnalyzeError
<1>7. CASE AnalyzeFinish(a) \/ AnalyzeDisconnected(a)
  BY <1>7 DEF AnalyzeFinish, AnalyzeDisconnected, Conclude, loopVars
<1>8. CASE AnalyzeExit(a) \/ AnalyzeCancel(a) \/ AnalyzeFail(a)
  BY <1>8 DEF AnalyzeExit, AnalyzeCancel, AnalyzeFail, LeaveGenerator
<1> QED
  BY <1>1, <1>2, <1>3, <1>4, <1>5, <1>6, <1>7, <1>8 DEF Analyze, AnalyzeStep

\* No analysis asks its provider once more after MaxErrors failures in a row.
THEOREM BreakerStopsCalls == Spec => []BreakerHolds
<1>1. Init => BreakerInv
  BY InitTypeInv, BoundsAssumption DEF Init, BreakerInv, Requests
<1>2. ASSUME BreakerInv, [Next]_vars PROVE BreakerInv'
  <2>1. TypeInv'
    BY <1>2, NextTypeInv DEF BreakerInv
  <2>2. ASSUME UNCHANGED errors, \A a \in Analyses : pc'[a] = pc[a]
        PROVE  BreakerInv'
    BY <1>2, <2>1, <2>2 DEF BreakerInv
  <2>3. ASSUME NEW p \in Patches, Patch(p) PROVE BreakerInv'
    BY <1>2, <2>2, <2>3, PatchFrame, RequestsAssumption DEF BreakerInv, Requests, loopVars
  <2>4. ASSUME NEW q \in Resets, Reset(q) PROVE BreakerInv'
    BY <1>2, <2>2, <2>4, ResetFrame, RequestsAssumption DEF BreakerInv, Requests, loopVars
  <2>5. ASSUME NEW a \in Analyses, Analyze(a) PROVE BreakerInv'
    <3>1. \A b \in Analyses \ {a} : pc'[b] = pc[b]
      BY <1>2, <2>5, AnalyzeFrame, RequestsAssumption DEF BreakerInv, Requests
    <3> QED BY <1>2, <2>1, <2>5, <3>1, BreakerStepOfAnalysis DEF BreakerInv
  <2>6. ASSUME UNCHANGED vars PROVE BreakerInv'
    BY <2>2, <2>6 DEF vars
  <2> QED BY <1>2, <2>3, <2>4, <2>5, <2>6 DEF Next, Quiescent
<1>3. BreakerInv => BreakerHolds
  BY DEF BreakerInv, BreakerHolds
<1> QED BY <1>1, <1>2, <1>3, PTL DEF Spec

-----------------------------------------------------------------------------
(* What an object awaiting its flush may be: a reset holds a marked row, an *)
(* analysis without override none that a human has marked.                  *)

HeldObjects ==
    /\ \A q \in Resets : pc[q] = "flush" => IsMarked(mem[q])
    /\ \A a \in Analyses : pc[a] = "answered" => ~Protected(mem[a], job[a].override)

HeldInv == TypeInv /\ HeldObjects

\* A step of a reset keeps its object marked.
LEMMA HeldStepOfReset ==
    ASSUME HeldInv, NEW q \in Resets, Reset(q)
    PROVE  pc'[q] = "flush" => IsMarked(mem'[q])
<1> USE DEF HeldInv, TypeInv, TypeOK, Requests
<1>1. CASE ResetLoad(q) \/ ResetGuard(q) \/ ResetCommit(q)
  BY <1>1 DEF ResetLoad, ResetGuard, ResetCommit
<1>2. CASE ResetScan(q)
  BY <1>2 DEF ResetScan
<1> QED BY <1>1, <1>2 DEF Reset

\* A step of an analysis keeps its object unprotected.
LEMMA HeldStepOfAnalysis ==
    ASSUME HeldInv, NEW a \in Analyses, Analyze(a)
    PROVE  pc'[a] = "answered" => ~Protected(mem'[a], job'[a].override)
<1> USE DEF HeldInv, TypeInv, TypeOK, Requests
<1>1. CASE AnalyzeAnswer(a)
  BY <1>1 DEF AnalyzeAnswer
<1>2. CASE ~AnalyzeAnswer(a)
  <2>1. pc'[a] # "answered"
    BY <1>2 DEF Analyze, AnalyzeStep, AnalyzeLoad, AnalyzeEnter, AnalyzeCall, AnalyzeWrite,
                AnalyzeError, AnalyzeFinish, AnalyzeDisconnected, Conclude, AnalyzeExit,
                AnalyzeCancel, AnalyzeFail
  <2> QED BY <2>1
<1> QED BY <1>1, <1>2

\* The objects stay what they are while they are held.
LEMMA HeldInvariant == Spec => []HeldInv
<1>1. Init => HeldInv
  BY InitTypeInv DEF Init, HeldInv, HeldObjects, Requests
<1>2. ASSUME HeldInv, [Next]_vars PROVE HeldInv'
  <2>1. TypeInv'
    BY <1>2, NextTypeInv DEF HeldInv
  <2>2. ASSUME NEW p \in Patches, Patch(p) PROVE HeldObjects'
    BY <1>2, <2>2, PatchFrame, RequestsAssumption
       DEF HeldInv, HeldObjects, Requests, loopVars, Protected, HumanMarked, IsMarked
  <2>3. ASSUME NEW q \in Resets, Reset(q) PROVE HeldObjects'
    BY <1>2, <2>3, ResetFrame, HeldStepOfReset, RequestsAssumption
       DEF HeldInv, HeldObjects, Requests, loopVars, Protected, HumanMarked, IsMarked
  <2>4. ASSUME NEW a \in Analyses, Analyze(a) PROVE HeldObjects'
    BY <1>2, <2>4, AnalyzeFrame, HeldStepOfAnalysis, RequestsAssumption
       DEF HeldInv, HeldObjects, Requests, Protected, HumanMarked, IsMarked
  <2>5. ASSUME UNCHANGED vars PROVE HeldObjects'
    BY <1>2, <2>5 DEF HeldInv, HeldObjects, Protected, HumanMarked, IsMarked, vars
  <2> QED BY <1>2, <2>1, <2>2, <2>3, <2>4, <2>5 DEF Next, Quiescent, HeldInv
<1> QED BY <1>1, <1>2, PTL DEF Spec

\* A human verdict already there when the provider answered is not the row an
\* analysis without override writes over.
THEOREM AnalysisSparesSeen == Spec => AnalysisSparesDecision
<1>1. HeldInv /\ [Next]_vars =>
        [\A a \in Analyses :
            /\ pc[a] = "answered" /\ pc'[a] = "loop"
            /\ ~job[a].override /\ HumanMarked(identity[held[a]])
            => identity[held[a]] # mem[a]]_vars
  BY DEF HeldInv, HeldObjects, Protected
<1> QED BY <1>1, HeldInvariant, PTL DEF Spec, AnalysisSparesDecision

\* A reset that commits has unmarked all it had not gone past.
LEMMA ResetUnmarks ==
    ASSUME HeldInv, NEW q \in Resets, ResetCommit(q),
           NEW i \in IdentitiesOf(target[q]) \ passed[q]
    PROVE  ~IsMarked(identity'[i])
<1>1. i \in Identities
  BY RowsAssumption DEF IdentitiesOf, FindingsOf
<1>2. CASE ResetWrites(q, i)
  <2>1. IsMarked(ResetObject(q, i))
    <3>1. CASE i = held[q]
      <4>1. pc[q] = "flush"
        BY <1>1, <3>1, RequestsAssumption DEF HeldInv, TypeInv, Sessions, ResetSession
      <4> QED BY <3>1, <4>1 DEF HeldInv, HeldObjects, ResetObject
    <3>2. CASE i # held[q]
      BY <1>2, <3>2 DEF ResetWrites, ResetObject
    <3> QED BY <3>1, <3>2
  <2>2. identity'[i] = SystemWrite(identity[i], ResetObject(q, i), "unmarked", "reset", None, q)
    BY <1>1, <1>2 DEF ResetCommit
  <2> QED BY <2>1, <2>2 DEF SystemWrite, Flush, Column, Assigned, IsMarked
<1>3. CASE ~ResetWrites(q, i)
  <2>1. identity'[i] = identity[i]
    BY <1>1, <1>3 DEF ResetCommit
  <2> QED BY <1>3, <2>1 DEF ResetWrites, IsMarked
<1> QED BY <1>2, <1>3

\* A reset clears what was marked while it was scanning as well.
THEOREM ResetsClear == Spec => ResetClears
<1>1. ASSUME HeldInv, [Next]_vars, NEW q \in Resets,
             pc[q] \in {"scan", "flush"}, pc'[q] = "closed"
      PROVE  ResetCommit(q)
  <2>1. PICK z \in Resets : Reset(z)
    <3>1. ASSUME NEW p \in Patches, Patch(p) PROVE FALSE
      BY <1>1, <3>1, PatchFrame, RequestsAssumption DEF HeldInv, Requests
    <3>2. ASSUME NEW a \in Analyses, Analyze(a) PROVE FALSE
      BY <1>1, <3>2, AnalyzeFrame, RequestsAssumption DEF HeldInv, Requests
    <3> QED BY <1>1, <3>1, <3>2 DEF Next, Quiescent, vars
  <2>2. z = q
    BY <1>1, <2>1, ResetFrame DEF HeldInv, Requests
  <2>3. ~ResetLoad(q) /\ ~ResetGuard(q) /\ ~ResetScan(q)
    BY <1>1 DEF ResetLoad, ResetGuard, ResetScan, HeldInv, TypeInv, TypeOK, Requests
  <2> QED BY <2>1, <2>2, <2>3 DEF Reset
<1>2. HeldInv /\ [Next]_vars =>
        [\A q \in Resets : pc[q] \in {"scan", "flush"} /\ pc'[q] = "closed" =>
            \A i \in IdentitiesOf(target[q]) \ passed[q] : ~IsMarked(identity'[i])]_vars
  BY <1>1, ResetUnmarks
<1> QED BY <1>2, HeldInvariant, PTL DEF Spec, ResetClears

-----------------------------------------------------------------------------
(* The counters.                                                            *)

\* Every finding an analysis has in hand belongs to its run.
BatchOfRun ==
    \A a \in Analyses :
        /\ \A f \in Findings : outcome[a][f] = "pending" => RunOf[f] = job[a].run
        /\ pc[a] = "waiting" => RunOf[current[a]] = job[a].run
        /\ pc[a] = "answered" => \E f \in FindingsOf(job[a].run) : IdentityOf[f] = held[a]

CountInv == TypeInv /\ BatchOfRun

\* A recompute over given rows makes the column their tally, unless the session
\* holds that value already.
LEMMA RecomputeFresh ==
    ASSUME TypeInv, NEW table, NEW r \in Runs, NEW loaded
    PROVE  /\ CountFrom(table, r) \notin loaded =>
                Recompute(table, r, loaded)[r] = CountFrom(table, r)
           /\ CountFrom(table, r) \in loaded => Recompute(table, r, loaded)[r] = counts[r]
BY DEF Recompute, TypeInv, TypeOK

\* It leaves the columns of the other runs alone.
LEMMA RecomputeElsewhere ==
    ASSUME TypeInv, NEW table, NEW r \in Runs, NEW loaded, NEW x \in Runs, x # r
    PROVE  Recompute(table, r, loaded)[x] = counts[x]
BY DEF Recompute, TypeInv, TypeOK

\* The tally of a run depends on the identities of its findings only.
LEMMA TallyElsewhere ==
    ASSUME NEW r \in Runs,
           \A g \in FindingsOf(r) : identity'[IdentityOf[g]] = identity[IdentityOf[g]]
    PROVE  CountFrom(identity', r) = CountFrom(identity, r)
<1>1. ASSUME NEW v \in VerdictValues
      PROVE  {g \in FindingsOf(r) : identity'[IdentityOf[g]].verdict = v}
               = {g \in FindingsOf(r) : identity[IdentityOf[g]].verdict = v}
  OBVIOUS
<1> QED BY <1>1 DEF CountFrom

\* A step of an editor: its commit makes the counter of its run right, and it
\* keeps every right one.
LEMMA CountStepOfPatch ==
    ASSUME CountInv, NEW p \in Patches, Patch(p), NEW r \in Runs, Exclusive(r)
    PROVE  /\ PatchCommit(p) /\ RunOf[target[p]] = r => counts'[r] = CountFrom(identity', r)
           /\ counts[r] = CountFrom(identity, r) => counts'[r] = CountFrom(identity', r)
<1>1. CASE PatchCommit(p)
  <2> DEFINE f == target[p]
             i == IdentityOf[f]
  <2>1. f \in Findings /\ RunOf[f] \in Runs /\ i \in Identities
    BY <1>1, RowsAssumption
       DEF CountInv, TypeInv, Sessions, PatchSession, PatchCommit
  <2>2. \A j \in Identities \ {i} : identity'[j] = identity[j]
    BY <1>1, <2>1 DEF PatchCommit, CountInv, TypeInv, TypeOK
  <2>3. counts' = Recompute(identity', RunOf[f], {})
    BY <1>1 DEF PatchCommit
  <2>4. CASE r = RunOf[f]
    BY <2>1, <2>3, <2>4, RecomputeFresh DEF CountInv
  <2>5. CASE r # RunOf[f]
    <3>1. counts'[r] = counts[r]
      BY <2>1, <2>3, <2>5, RecomputeElsewhere DEF CountInv
    <3>2. ASSUME NEW g \in FindingsOf(r)
          PROVE  identity'[IdentityOf[g]] = identity[IdentityOf[g]]
      BY <2>1, <2>2, <2>5, RowsAssumption DEF Exclusive, FindingsOf
    <3>3. CountFrom(identity', r) = CountFrom(identity, r)
      BY <3>2, TallyElsewhere
    <3> QED BY <2>5, <3>1, <3>3
  <2> QED BY <2>4, <2>5
<1>2. CASE ~PatchCommit(p)
  <2>1. UNCHANGED <<identity, counts>>
    BY <1>2 DEF Patch, PatchGet, PatchRead, PatchConflict, PatchShow, rows
  <2> QED BY <1>2, <2>1
<1> QED BY <1>1, <1>2

\* A step of a reset: its commit makes the counter of its run right or leaves it
\* alone, and only if its Run object is overtaken may the latter do harm.
LEMMA CountStepOfReset ==
    ASSUME CountInv, NEW q \in Resets, Reset(q), NEW r \in Runs, Exclusive(r)
    PROVE  /\ ResetCommit(q) /\ target[q] = r /\ ~Overtaken(q) =>
                counts'[r] = CountFrom(identity', r)
           /\ counts[r] = CountFrom(identity, r)
                /\ ~(ResetCommit(q) /\ target[q] = r /\ Overtaken(q)) =>
                counts'[r] = CountFrom(identity', r)
<1>1. CASE ResetCommit(q)
  <2> DEFINE t == target[q]
  <2>1. t \in Runs /\ counts' = Recompute(identity', t, {cached[q]})
    BY <1>1, RequestsAssumption
       DEF ResetCommit, CountInv, TypeInv, Sessions, ResetSession
  <2>2. CASE r = t /\ ~Overtaken(q)
    <3>1. counts[r] = cached[q]
      BY <2>2 DEF Overtaken
    <3> QED BY <2>1, <2>2, <3>1, RecomputeFresh DEF CountInv
  <2>3. CASE r # t
    <3>1. counts'[r] = counts[r]
      BY <2>1, <2>3, RecomputeElsewhere DEF CountInv
    <3>2. ASSUME NEW g \in FindingsOf(r)
          PROVE  identity'[IdentityOf[g]] = identity[IdentityOf[g]]
      <4>1. IdentityOf[g] \notin IdentitiesOf(t) /\ IdentityOf[g] \in Identities
        BY <2>3, RowsAssumption DEF Exclusive, FindingsOf, IdentitiesOf
      <4> QED BY <1>1, <4>1 DEF ResetCommit, ResetWrites
    <3>3. CountFrom(identity', r) = CountFrom(identity, r)
      BY <3>2, TallyElsewhere
    <3> QED BY <2>3, <3>1, <3>3
  <2> QED BY <1>1, <2>2, <2>3
<1>2. CASE ~ResetCommit(q)
  <2>1. UNCHANGED <<identity, counts>>
    BY <1>2 DEF Reset, ResetLoad, ResetGuard, ResetScan, rows
  <2> QED BY <1>2, <2>1
<1> QED BY <1>1, <1>2

\* A step of an analysis keeps its batch within its run.
LEMMA BatchStepOfAnalysis ==
    ASSUME CountInv, NEW a \in Analyses, Analyze(a)
    PROVE  BatchOfRun'
<1>1. \A b \in Analyses \ {a} : /\ pc'[b] = pc[b] /\ job'[b] = job[b]
                                /\ outcome'[b] = outcome[b] /\ current'[b] = current[b]
                                /\ held'[b] = held[b]
  BY AnalyzeFrame, RequestsAssumption DEF CountInv, Requests
<1>2. /\ \A f \in Findings : outcome'[a][f] = "pending" => RunOf[f] = job'[a].run
      /\ pc'[a] = "waiting" => RunOf[current'[a]] = job'[a].run
      /\ pc'[a] = "answered" =>
           \E f \in FindingsOf(job'[a].run) : IdentityOf[f] = held'[a]
  <2> USE DEF CountInv, BatchOfRun, TypeInv, TypeOK, Requests
  <2>1. CASE AnalyzeLoad(a)
    <3>1. PICK j \in Jobs :
            /\ job' = [job EXCEPT ![a] = j]
            /\ outcome' = [outcome EXCEPT ![a] =
                 [f \in Findings |-> IF InBatch(j, f) THEN "pending" ELSE "none"]]
      BY <2>1 DEF AnalyzeLoad
    <3>2. pc'[a] = "loaded"
      BY <2>1 DEF AnalyzeLoad
    <3>3. job'[a] = j /\ \A f \in Findings : outcome'[a][f] = "pending" => InBatch(j, f)
      BY <3>1
    <3> QED BY <3>2, <3>3 DEF InBatch
  <2>2. CASE AnalyzeEnter(a)
    BY <2>2 DEF AnalyzeEnter, loopVars
  <2>3. CASE AnalyzeCall(a)
    BY <2>3 DEF AnalyzeCall, Pending
  <2>4. CASE AnalyzeAnswer(a)
    <3>1. /\ current[a] \in Findings /\ RunOf[current[a]] = job[a].run
          /\ job' = job
      BY <2>4 DEF AnalyzeAnswer, Sessions, AnalysisSession
    <3>2. \A f \in Findings : outcome'[a][f] = "pending" => outcome[a][f] = "pending"
      BY <2>4, <3>1 DEF AnalyzeAnswer
    <3>3. pc'[a] = "answered" => held'[a] = IdentityOf[current[a]]
      BY <2>4, <3>1 DEF AnalyzeAnswer
    <3>4. pc'[a] # "waiting"
      BY <2>4 DEF AnalyzeAnswer
    <3> QED BY <3>1, <3>2, <3>3, <3>4 DEF FindingsOf
  <2>5. CASE AnalyzeWrite(a)
    <3>1. current[a] \in Findings
      BY <2>5 DEF AnalyzeWrite, Sessions, AnalysisSession
    <3> QED BY <2>5, <3>1 DEF AnalyzeWrite
  <2>6. CASE AnalyzeError(a)
    <3>1. current[a] \in Findings
      BY <2>6 DEF AnalyzeError, Sessions, AnalysisSession
    <3> QED BY <2>6, <3>1 DEF AnalyzeError
  <2>7. CASE AnalyzeFinish(a) \/ AnalyzeDisconnected(a)
    BY <2>7 DEF AnalyzeFinish, AnalyzeDisconnected, Conclude, loopVars
  <2>8. CASE AnalyzeExit(a) \/ AnalyzeCancel(a) \/ AnalyzeFail(a)
    BY <2>8 DEF AnalyzeExit, AnalyzeCancel, AnalyzeFail, LeaveGenerator
  <2> QED
    BY <2>1, <2>2, <2>3, <2>4, <2>5, <2>6, <2>7, <2>8 DEF Analyze, AnalyzeStep
<1> QED BY <1>1, <1>2 DEF CountInv, BatchOfRun

\* A step of an analysis: the end of its loop makes the counter of its run right,
\* and only its verdicts leave it behind.
LEMMA CountStepOfAnalysis ==
    ASSUME CountInv, NEW a \in Analyses, Analyze(a), NEW r \in Runs, Exclusive(r)
    PROVE  /\ (AnalyzeFinish(a) \/ AnalyzeDisconnected(a)) /\ job[a].run = r =>
                counts'[r] = CountFrom(identity', r)
           /\ counts[r] = CountFrom(identity, r) /\ ~(AnalyzeWrite(a) /\ job[a].run = r) =>
                counts'[r] = CountFrom(identity', r)
<1>1. CASE AnalyzeFinish(a) \/ AnalyzeDisconnected(a)
  <2>1. /\ counts' = Recompute(identity, job[a].run, {})
        /\ identity' = identity
        /\ job[a].run \in Runs
    BY <1>1 DEF AnalyzeFinish, AnalyzeDisconnected, Conclude, CountInv, TypeInv,
                Sessions, AnalysisSession, Jobs
  <2>2. CASE r = job[a].run
    BY <2>1, <2>2, RecomputeFresh DEF CountInv
  <2>3. CASE r # job[a].run
    BY <2>1, <2>3, RecomputeElsewhere DEF CountInv
  <2> QED BY <1>1, <2>1, <2>2, <2>3
<1>2. CASE AnalyzeWrite(a)
  <2>1. counts' = counts /\ ~AnalyzeFinish(a) /\ ~AnalyzeDisconnected(a)
    BY <1>2 DEF AnalyzeWrite, AnalyzeFinish, AnalyzeDisconnected
  <2>2. PICK f \in FindingsOf(job[a].run) : IdentityOf[f] = held[a]
    BY <1>2 DEF AnalyzeWrite, CountInv, BatchOfRun
  <2>3. \A j \in Identities \ {held[a]} : identity'[j] = identity[j]
    BY <1>2 DEF AnalyzeWrite, CountInv, TypeInv, TypeOK
  <2>4. CASE job[a].run # r
    <3>1. ASSUME NEW g \in FindingsOf(r)
          PROVE  identity'[IdentityOf[g]] = identity[IdentityOf[g]]
      BY <2>2, <2>3, <2>4, RowsAssumption DEF Exclusive, FindingsOf
    <3> QED BY <2>1, <3>1, TallyElsewhere
  <2> QED BY <1>2, <2>1, <2>4
<1>3. CASE ~AnalyzeFinish(a) /\ ~AnalyzeDisconnected(a) /\ ~AnalyzeWrite(a)
  <2>1. UNCHANGED <<identity, counts>>
    BY <1>3 DEF Analyze, AnalyzeStep, AnalyzeLoad, AnalyzeEnter, AnalyzeCall,
                AnalyzeAnswer, AnalyzeError, AnalyzeExit, AnalyzeCancel, AnalyzeFail,
                LeaveGenerator, rows
  <2> QED BY <1>3, <2>1
<1> QED BY <1>1, <1>2, <1>3

\* Every batch is of its run, whoever takes a step.
LEMMA CountInvariant == Spec => []CountInv
<1>1. Init => CountInv
  BY InitTypeInv DEF Init, BatchOfRun, Requests, CountInv
<1>2. ASSUME CountInv, [Next]_vars PROVE CountInv'
  <2>1. TypeInv'
    BY <1>2, NextTypeInv DEF CountInv
  <2>2. ASSUME NEW p \in Patches, Patch(p) PROVE BatchOfRun'
    BY <1>2, <2>2, PatchFrame, RequestsAssumption
       DEF CountInv, BatchOfRun, Requests, loopVars
  <2>3. ASSUME NEW q \in Resets, Reset(q) PROVE BatchOfRun'
    BY <1>2, <2>3, ResetFrame, RequestsAssumption
       DEF CountInv, BatchOfRun, Requests, loopVars
  <2>4. ASSUME UNCHANGED vars PROVE BatchOfRun'
    BY <1>2, <2>4 DEF CountInv, BatchOfRun, vars
  <2> QED
    BY <1>2, <2>1, <2>2, <2>3, <2>4, BatchStepOfAnalysis DEF Next, Quiescent, CountInv
<1> QED BY <1>1, <1>2, PTL DEF Spec

\* What a step is when the program counters move as Recounts and Unsettles say.
LEMMA StepsByCounter ==
    ASSUME CountInv, [Next]_vars
    PROVE  /\ \A p \in Patches : pc[p] = "read" /\ pc'[p] = "saved" => PatchCommit(p)
           /\ \A q \in Resets : pc[q] \in {"scan", "flush"} /\ pc'[q] = "closed" => ResetCommit(q)
           /\ \A a \in Analyses : pc[a] = "loop" /\ pc'[a] = "done" =>
                 AnalyzeFinish(a) \/ AnalyzeDisconnected(a)
<1> USE DEF CountInv
<1>1. ASSUME NEW p \in Patches, pc[p] = "read", pc'[p] = "saved"
      PROVE  PatchCommit(p)
  <2>1. Patch(p)
    BY <1>1, PatchFrame, ResetFrame, AnalyzeFrame, RequestsAssumption
       DEF Next, Quiescent, vars, Requests
  <2> QED
    BY <1>1, <2>1
       DEF Patch, PatchGet, PatchRead, PatchConflict, PatchShow, TypeInv, TypeOK, Requests
<1>2. ASSUME NEW q \in Resets, pc[q] \in {"scan", "flush"}, pc'[q] = "closed"
      PROVE  ResetCommit(q)
  <2>1. Reset(q)
    BY <1>2, PatchFrame, ResetFrame, AnalyzeFrame, RequestsAssumption
       DEF Next, Quiescent, vars, Requests
  <2> QED
    BY <1>2, <2>1 DEF Reset, ResetLoad, ResetGuard, ResetScan, TypeInv, TypeOK, Requests
<1>3. ASSUME NEW a \in Analyses, pc[a] = "loop", pc'[a] = "done"
      PROVE  AnalyzeFinish(a) \/ AnalyzeDisconnected(a)
  <2>1. Analyze(a)
    BY <1>3, PatchFrame, ResetFrame, AnalyzeFrame, RequestsAssumption
       DEF Next, Quiescent, vars, Requests
  <2> QED
    BY <1>3, <2>1
       DEF Analyze, AnalyzeStep, AnalyzeLoad, AnalyzeEnter, AnalyzeCall, AnalyzeAnswer,
           AnalyzeWrite, AnalyzeError, AnalyzeExit, AnalyzeCancel, AnalyzeFail, TypeInv,
           TypeOK, Requests
<1> QED BY <1>1, <1>2, <1>3

\* However PATCHes, resets and analyses interleave, a recompute leaves the
\* counter of a run that shares no identity right, and it stays so until an AI
\* verdict in the middle of a batch or a reset with an overtaken Run object.
THEOREM CountersAreFresh == Spec => CountsFresh
<1>1. ASSUME CountInv, Next, NEW r \in Runs, Exclusive(r)
      PROVE  /\ Recounts(r) => Right(r)'
             /\ Right(r) /\ ~Unsettles(r) => Right(r)'
  <2>1. /\ Right(r) <=> counts[r] = CountFrom(identity, r)
        /\ Right(r)' <=> counts'[r] = CountFrom(identity', r)
    BY DEF Right, Tally, CountFrom
  <2>2. ASSUME Recounts(r) PROVE Right(r)'
    <3>1. CASE \E p \in Patches : PatchCommit(p) /\ RunOf[target[p]] = r
      BY <1>1, <2>1, <3>1, CountStepOfPatch DEF Patch
    <3>2. CASE \E a \in Analyses :
                 (AnalyzeFinish(a) \/ AnalyzeDisconnected(a)) /\ job[a].run = r
      BY <1>1, <2>1, <3>2, CountStepOfAnalysis DEF Analyze, AnalyzeStep
    <3>3. CASE \E q \in Resets : ResetCommit(q) /\ target[q] = r /\ ~Overtaken(q)
      BY <1>1, <2>1, <3>3, CountStepOfReset DEF Reset
    <3> QED BY <1>1, <2>2, <3>1, <3>2, <3>3, StepsByCounter DEF Recounts
  <2>3. ASSUME Right(r), ~Unsettles(r) PROVE Right(r)'
    <3>1. ASSUME NEW p \in Patches, Patch(p) PROVE Right(r)'
      BY <1>1, <2>1, <2>3, <3>1, CountStepOfPatch
    <3>2. ASSUME NEW q \in Resets, Reset(q) PROVE Right(r)'
      <4>1. ~(ResetCommit(q) /\ target[q] = r /\ Overtaken(q))
        BY <1>1, <2>3
           DEF Unsettles, ResetCommit, CountInv, TypeInv, TypeOK, Requests
      <4> QED BY <1>1, <2>1, <2>3, <3>2, <4>1, CountStepOfReset
    <3>3. ASSUME NEW a \in Analyses, Analyze(a) PROVE Right(r)'
      <4>1. ~(AnalyzeWrite(a) /\ job[a].run = r)
        BY <1>1, <2>3
           DEF Unsettles, AnalyzeWrite, CountInv, TypeInv, TypeOK, Requests
      <4> QED BY <1>1, <2>1, <2>3, <3>3, <4>1, CountStepOfAnalysis
    <3>4. ASSUME UNCHANGED vars PROVE Right(r)'
      BY <2>1, <2>3, <3>4 DEF vars
    <3> QED BY <1>1, <3>1, <3>2, <3>3, <3>4 DEF Next, Quiescent
  <2> QED BY <2>2, <2>3
<1>2. CountInv /\ [Next]_vars =>
        [\A r \in Runs : Exclusive(r) =>
            /\ Recounts(r) => Right(r)'
            /\ Right(r) /\ ~Unsettles(r) => Right(r)']_vars
  BY <1>1
<1> QED BY <1>2, CountInvariant, PTL DEF Spec, CountsFresh

-----------------------------------------------------------------------------
(* What an editor's drawer shows, whoever writes.                           *)

\* The row shown is no newer than the history of its identity, and is the row
\* itself as long as its version says that no event has come since.
OnScreen(s, i) ==
    /\ s.version <= 1 + Len(journal[i])
    /\ s.version = 1 + Len(journal[i]) => s = identity[i]

Screens ==
    \A p \in Patches : pc[p] # "idle" => OnScreen(seen[p], IdentityOf[target[p]])

ScreenInv == VersionInv /\ Screens

\* A row on screen stays within the history through every step.
LEMMA ShownRowStep ==
    ASSUME TypeInv, [Next]_vars, NEW i \in Identities, NEW s \in Snapshot, OnScreen(s, i)
    PROVE  /\ s.version <= 1 + Len(journal'[i])
           /\ s.version = 1 + Len(journal'[i]) => s = identity'[i]
<1>1. RowWritten(i) \/ RowKept(i)
  BY EveryRowStep
<1>2. journal[i] \in Seq(VerdictEvent) /\ s.version \in Nat
  BY DEF TypeInv, TypeOK, Snapshot
<1>3. CASE RowKept(i)
  BY <1>3 DEF RowKept, OnScreen
<1>4. CASE RowWritten(i)
  <2>1. PICK e \in VerdictEvent : journal'[i] = Append(journal[i], e)
    BY <1>4 DEF RowWritten
  <2>2. Len(journal'[i]) = Len(journal[i]) + 1 /\ Len(journal[i]) \in Nat
    BY <1>2, <2>1
  <2> QED BY <1>2, <2>2 DEF OnScreen
<1> QED BY <1>1, <1>3, <1>4

\* What an editor has on screen keeps that bound, and a fetch renews it.
LEMMA ScreenStep ==
    ASSUME ScreenInv, [Next]_vars, NEW p \in Patches, pc'[p] # "idle"
    PROVE  OnScreen(seen[p], IdentityOf[target[p]])'
<1> USE DEF ScreenInv, VersionInv
<1>1. TypeInv'
  BY NextTypeInv
<1>2. CASE seen'[p] = seen[p] /\ target'[p] = target[p] /\ pc[p] # "idle"
  <2>1. target[p] \in Findings /\ IdentityOf[target[p]] \in Identities /\ seen[p] \in Snapshot
    BY <1>2, RowsAssumption DEF TypeInv, TypeOK, Sessions, PatchSession
  <2>2. OnScreen(seen[p], IdentityOf[target[p]])
    BY <1>2 DEF Screens
  <2> QED BY <1>2, <2>1, <2>2, ShownRowStep DEF OnScreen
<1>3. CASE PatchGet(p) \/ PatchShow(p)
  <2>1. target'[p] \in Findings
    BY <1>1 DEF TypeInv, Sessions, PatchSession
  <2>2. /\ seen'[p] = identity'[IdentityOf[target'[p]]]
        /\ UNCHANGED <<identity, journal>>
    BY <1>3 DEF PatchGet, PatchShow, rows, TypeInv, TypeOK
  <2>3. IdentityOf[target'[p]] \in Identities
    BY <2>1, RowsAssumption
  <2> QED BY <2>2, <2>3 DEF OnScreen, VersionBounded
<1>4. CASE ~PatchGet(p) /\ ~PatchShow(p)
  <2>1. ASSUME NEW z \in Patches, Patch(z)
        PROVE  seen'[p] = seen[p] /\ target'[p] = target[p] /\ pc[p] # "idle"
    <3>1. CASE z # p
      BY <2>1, <3>1, PatchFrame
         DEF Patch, PatchGet, PatchRead, PatchCommit, PatchConflict, PatchShow, TypeInv,
             TypeOK, patchVars, Requests
    <3>2. CASE z = p
      BY <1>4, <2>1, <3>2
         DEF Patch, PatchRead, PatchCommit, PatchConflict, patchVars
    <3> QED BY <3>1, <3>2
  <2>2. ASSUME NEW q \in Resets, Reset(q)
        PROVE  seen'[p] = seen[p] /\ target'[p] = target[p] /\ pc[p] # "idle"
    <3>1. p # q /\ seen' = seen /\ pc'[p] = pc[p]
      BY <2>2, ResetFrame, RequestsAssumption DEF patchVars, Requests
    <3>2. target'[p] = target[p]
      BY <2>2, <3>1
         DEF Reset, ResetLoad, ResetGuard, ResetScan, ResetCommit, TypeInv, TypeOK
    <3> QED BY <3>1, <3>2
  <2>3. ASSUME NEW a \in Analyses, Analyze(a)
        PROVE  seen'[p] = seen[p] /\ target'[p] = target[p] /\ pc[p] # "idle"
    BY <2>3, AnalyzeFrame, RequestsAssumption DEF patchVars, Requests
  <2>4. ASSUME UNCHANGED vars
        PROVE  seen'[p] = seen[p] /\ target'[p] = target[p] /\ pc[p] # "idle"
    BY <2>4 DEF vars
  <2> QED BY <1>2, <2>1, <2>2, <2>3, <2>4 DEF Next, Quiescent
<1> QED BY <1>3, <1>4

\* No screen is ever ahead of the history.
LEMMA ScreenInvariant == Spec => []ScreenInv
<1>1. Init => ScreenInv
  <2>1. ASSUME Init PROVE Screens
    BY <2>1 DEF Init, Screens, Requests
  <2>2. Init => VersionInv
    <3>1. Init => VersionBounded /\ StaleBounded
      BY RequestsAssumption
         DEF Init, VersionBounded, StaleBounded, FreshIdentity, Requests
    <3> QED BY <3>1, InitTypeInv DEF VersionInv
  <2> QED BY <2>1, <2>2 DEF ScreenInv
<1>2. ASSUME ScreenInv, [Next]_vars PROVE ScreenInv'
  <2>1. VersionInv'
    BY <1>2, VersionStep, NextTypeInv DEF ScreenInv, VersionInv
  <2>2. Screens'
    BY <1>2, ScreenStep DEF Screens
  <2> QED BY <2>1, <2>2 DEF ScreenInv
<1> QED BY <1>1, <1>2, PTL DEF Spec

\* Among all writers: as long as the version of a row counts its events, a PATCH
\* that is saved replaced exactly the row its editor was looking at.
THEOREM EditorsLoseNothing == Spec => NoLostUpdate
<1>1. ASSUME ScreenInv, [Next]_vars, NEW p \in Patches, pc[p] = "read", pc'[p] = "saved",
             VersionExact(IdentityOf[target[p]])
      PROVE  seen[p] = identity[IdentityOf[target[p]]]
  <2>1. PatchCommit(p)
    <3>1. Patch(p)
      BY <1>1, PatchFrame, ResetFrame, AnalyzeFrame, RequestsAssumption
         DEF Next, Quiescent, vars, Requests, ScreenInv, VersionInv
    <3> QED
      BY <1>1, <3>1
         DEF Patch, PatchGet, PatchRead, PatchConflict, PatchShow, ScreenInv, VersionInv,
             TypeInv, TypeOK, Requests
  <2>2. identity[IdentityOf[target[p]]].version = seen[p].version
    BY <2>1 DEF PatchCommit, CasMatches
  <2> QED BY <1>1, <2>2 DEF ScreenInv, Screens, OnScreen, VersionExact
<1>2. ScreenInv /\ [Next]_vars =>
        [\A p \in Patches :
            /\ pc[p] = "read" /\ pc'[p] = "saved"
            /\ VersionExact(IdentityOf[target[p]])
            => seen[p] = identity[IdentityOf[target[p]]]]_vars
  BY <1>1
<1> QED BY <1>2, ScreenInvariant, PTL DEF Spec, NoLostUpdate
=============================================================================
