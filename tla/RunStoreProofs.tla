--------------------------- MODULE RunStoreProofs ---------------------------
(* Theorems about RunStore, for every number of reports and requests. *)
EXTENDS RunStore, FiniteSetTheorems, WellFoundedInduction, TLAPS

-----------------------------------------------------------------------------
(* Rows.                                                                   *)

\* A set of naturals that is not empty has a least element.
LEMMA LeastNatural ==
    ASSUME NEW T \in SUBSET Nat, T # {}
    PROVE  \E x \in T : \A y \in T : x <= y
<1>1. PICK x \in T : \A y \in T : ~ (<<y, x>> \in OpToRel(<, Nat))
      BY NatLessThanWellFounded, WFMin
<1>2. \A y \in T : ~(y < x)
      BY <1>1 DEF OpToRel
<1> QED BY <1>2

\* LatestOther is one of the runs it is taken from.
LEMMA LatestOtherIsOther ==
    ASSUME NEW n \in Nat, \A x \in Present : runs[x].at \in 0..(n - 1),
           NEW i, NEW r, Others(i, r) # {}
    PROVE  LatestOther(i, r) \in Others(i, r)
<1> DEFINE T == {n - runs[x].at : x \in Others(i, r)}
<1>1. \A x \in Others(i, r) : runs[x].at \in 0..(n - 1)
      BY DEF Others
<1>2. T \in SUBSET Nat /\ T # {}
  <2>1. \A x \in Others(i, r) : n - runs[x].at \in Nat
        BY <1>1
  <2> QED BY <2>1
<1>3. PICK t \in T : \A s \in T : t <= s
      BY <1>2, LeastNatural
<1>4. PICK x \in Others(i, r) : t = n - runs[x].at
      BY <1>3
<1>5. \A y \in Others(i, r) : runs[y].at <= runs[x].at
  <2> TAKE y \in Others(i, r)
  <2>1. n - runs[y].at \in T
        OBVIOUS
  <2>2. n - runs[x].at <= n - runs[y].at
        BY <1>3, <1>4, <2>1
  <2>3. runs[x].at \in 0..(n - 1) /\ runs[y].at \in 0..(n - 1)
        BY <1>1
  <2> HIDE DEF T
  <2> QED BY <2>2, <2>3
<1> QED BY <1>5 DEF LatestOther

\* The aggregate of the recompute is a table of naturals.
LEMMA CountOfType ==
    ASSUME NEW table, NEW ids, IsFiniteSet(ids)
    PROVE  CountOf(table, ids) \in [VerdictValues -> Nat]
<1> SUFFICES ASSUME NEW v \in VerdictValues
             PROVE  Cardinality({i \in ids : table[i].verdict = v}) \in Nat
  BY DEF CountOf
<1>1. IsFiniteSet({i \in ids : table[i].verdict = v})
  BY FS_Subset
<1> QED BY <1>1, FS_CardinalityType

\* A verdict carried to another run: the row that is written and what it keeps.
LEMMA CarriedRow ==
    ASSUME NEW row \in Snapshot, NEW r \in RunIds
    PROVE  LET new == SystemWrite(row, row, row.verdict, "carried", row.rationale, r) IN
             /\ new \in Snapshot
             /\ new.verdict = row.verdict /\ new.source = row.source
             /\ new.rationale = row.rationale /\ new.attrs = row.attrs
BY DEF SystemWrite, Flush, Column, Assigned, Snapshot

\* The row a PATCH writes.
LEMMA DecidedRow ==
    ASSUME NEW row \in Snapshot, NEW v \in VerdictValues
    PROVE  CasWrite(row, row, v, Editor, Editor, row.version) \in Snapshot
BY DEF CasWrite, Flush, Column, Assigned, Snapshot

\* The events of both.
LEMMA EventType ==
    ASSUME NEW row \in Snapshot, NEW v \in VerdictValues, NEW source \in Sources,
           NEW w \in Uploads \cup {Editor}
    PROVE  EventOf(row, v, source, w) \in VerdictEvent
BY DEF EventOf, VerdictEvent, Snapshot

\* The identities as a table of rows, with their journal.
IdentitiesOK ==
    /\ identity \in [SwbIds -> Snapshot \cup {None}]
    /\ lastSeen \in [SwbIds -> RunIds \cup {None}]
    /\ journal \in [SwbIds -> Seq(VerdictEvent)]

\* What _create_rules_and_findings does to an identity that was there.
KeepsDecision(old, new) ==
    /\ new # None
    /\ \A field \in {"verdict", "source", "rationale", "attrs"} : new[field] = old[field]

\* It keeps the table well typed, every id it gets has an identity afterwards,
\* and none that was there loses its decision.
LEMMA CreateFindingsType ==
    ASSUME IdentitiesOK, NEW r \in RunIds, NEW ids \in SUBSET SwbIds, CreateFindings(r, ids)
    PROVE  /\ IdentitiesOK'
           /\ \A i \in ids : identity'[i] # None
           /\ \A i \in SwbIds : identity[i] # None => KeepsDecision(identity[i], identity'[i])
<1> DEFINE written(i) ==
      SystemWrite(identity[i], identity[i], identity[i].verdict, "carried", identity[i].rationale, r)
<1>1. ASSUME NEW i \in SwbIds, identity[i] # None
      PROVE  /\ identity[i] \in Snapshot
             /\ written(i) \in Snapshot /\ written(i) # None
             /\ KeepsDecision(identity[i], written(i))
             /\ EventOf(identity[i], identity[i].verdict, "carried", r) \in VerdictEvent
  <2>1. identity[i] \in Snapshot
    BY <1>1 DEF IdentitiesOK
  <2>2. /\ written(i) \in Snapshot
        /\ written(i).verdict = identity[i].verdict
        /\ written(i).source = identity[i].source
        /\ written(i).rationale = identity[i].rationale
        /\ written(i).attrs = identity[i].attrs
    BY <2>1, CarriedRow
  <2>3. written(i) # None
    BY <2>2, RowsAssumption
  <2>4. EventOf(identity[i], identity[i].verdict, "carried", r) \in VerdictEvent
    <3>1. identity[i].verdict \in VerdictValues /\ "carried" \in Sources
      BY <2>1 DEF Snapshot, Sources
    <3>2. r \in Uploads \cup {Editor}
      BY DEF RunIds
    <3> QED BY <2>1, <3>1, <3>2, EventType
  <2> HIDE DEF written
  <2> QED BY <2>1, <2>2, <2>3, <2>4 DEF KeepsDecision
<1>2. FreshIdentity \in Snapshot /\ FreshIdentity # None
  <2>1. FreshIdentity \in Snapshot
    BY DEF FreshIdentity, Snapshot, VerdictValues
  <2> QED BY <2>1, RowsAssumption
<1>3. ASSUME NEW i \in SwbIds
      PROVE  /\ identity'[i] = IF i \in ids /\ identity[i] = None THEN FreshIdentity
                               ELSE IF i \in ids /\ Carried(i, r) THEN written(i)
                               ELSE identity[i]
             /\ journal'[i] = IF i \in ids /\ Carried(i, r)
                              THEN Append(journal[i],
                                     EventOf(identity[i], identity[i].verdict, "carried", r))
                              ELSE journal[i]
             /\ Carried(i, r) => identity[i] # None
  BY DEF CreateFindings, Carried
<1> HIDE DEF written
<1>4. ASSUME NEW i \in SwbIds
      PROVE  /\ identity'[i] \in Snapshot \cup {None}
             /\ i \in ids => identity'[i] # None
             /\ identity[i] # None => KeepsDecision(identity[i], identity'[i])
  <2>1. identity[i] \in Snapshot \cup {None}
    BY DEF IdentitiesOK
  <2>2. identity[i] # None => KeepsDecision(identity[i], identity[i])
    BY DEF KeepsDecision
  <2> QED BY <1>1, <1>2, <1>3, <2>1, <2>2
<1>5. ASSUME NEW i \in SwbIds PROVE journal'[i] \in Seq(VerdictEvent)
  <2>1. journal[i] \in Seq(VerdictEvent)
    BY DEF IdentitiesOK
  <2>2. CASE i \in ids /\ Carried(i, r)
    <3>1. EventOf(identity[i], identity[i].verdict, "carried", r) \in VerdictEvent
      BY <1>1, <1>3, <2>2
    <3>2. \A e \in VerdictEvent : Append(journal[i], e) \in Seq(VerdictEvent)
      BY <2>1
    <3> QED BY <1>3, <2>2, <3>1, <3>2
  <2> QED BY <1>3, <2>1, <2>2
<1>6. lastSeen' \in [SwbIds -> RunIds \cup {None}]
  BY DEF CreateFindings, IdentitiesOK
<1>7. identity' = [i \in SwbIds |-> identity'[i]] /\ journal' = [i \in SwbIds |-> journal'[i]]
  BY DEF CreateFindings
<1> QED BY <1>4, <1>5, <1>6, <1>7 DEF IdentitiesOK

-----------------------------------------------------------------------------
(* The invariant.  Of the properties only the type invariant speaks of      *)
(* sessions, and none is inductive: what a later step does to the rows and  *)
(* files depends on what an earlier step of its request has read.           *)

\* The rows: every finding has its identity, and runs are numbered in the
\* order they came, so that the latest of a set of them exists.
RowsOK ==
    /\ project \in BOOLEAN
    /\ baseline \in RunIds \cup {None}
    /\ runs \in [RunIds -> Run \cup {None}]
    /\ IdentitiesOK
    /\ clock \in Nat
    /\ \A r \in Present : /\ runs[r].at \in 0..(clock - 1) /\ IsFiniteSet(runs[r].findings)
                          /\ \A i \in runs[r].findings : identity[i] # None
    /\ ~project => Present = {} /\ baseline = None /\ \A i \in SwbIds : identity[i] = None

\* The sessions.
SessionsOK ==
    /\ blob \in [RunIds -> Metas \cup {None}]
    /\ writer \in Uploads \cup {None}
    /\ activeRuns \subseteq RunIds
    /\ pc \in [Requests -> UploadStates \cup DeleteStates]
    /\ sent \in [Uploads -> Metas \cup {None}]
    /\ found \in [Uploads -> RunIds \cup {None}]
    /\ tallyRead \in [Uploads -> [VerdictValues -> Nat] \cup {None}]
    /\ target \in [Deletes \cup Baselines -> RunIds \cup {None}]
    /\ baseRead \in [Deletes \cup Baselines -> RunIds \cup {None}]
    /\ todo \in [Deletes \cup ProjectDeletes -> SUBSET (SwbIds \cup RunIds)]
    /\ move \in [Deletes -> [id : SwbIds, run : RunIds] \cup {None}]
    /\ \A u \in Uploads : sent[u] = None => pc[u] = "idle"
    /\ \A d \in Deletes : /\ todo[d] \subseteq SwbIds
                          /\ pc[d] = "flush" => move[d] \in [id : SwbIds, run : RunIds]
    /\ \A z \in ProjectDeletes : todo[z] \subseteq RunIds

TypeInv == RowsOK /\ SessionsOK

\* The inductive type invariant contains the one the runs check.
LEMMA TypeInvImpliesTypeOK == TypeInv => TypeOK
BY DEF TypeInv, TypeOK, RowsOK, SessionsOK, IdentitiesOK

\* A run that is or was in the database: its upload has been answered with it.
\* It never comes again once it is deleted.
Stored(r) == pc[r] = "answered" /\ found[r] = r

\* A run has its files and its report is its own.
RunsStored ==
    /\ \A r \in Present : Stored(r) /\ blob[r] # None
    /\ \A r, s \in Present : runs[r].sarif = runs[s].sarif => r = s

\* An upload holds a run of the report it was sent, as long as there is one.
Holding == {"found", "differs", "replaced", "answered"}
UploadHolds(u) ==
    /\ pc[u] = "stored" => blob[u] # None
    /\ pc[u] \in Holding =>
          /\ found[u] \in RunIds /\ Stored(found[u])
          /\ runs[found[u]] # None => runs[found[u]].sarif = SarifOf[sent[u]]
UploadsHold == \A u \in Uploads : UploadHolds(u)

\* A deletion removes files only of runs that are gone for good.
Deleting == {"loaded", "guarded", "moving", "flush", "committed"}
DeletesHold ==
    /\ \A d \in Deletes :
          /\ pc[d] \in Deleting => target[d] \in RunIds /\ Stored(target[d])
          /\ pc[d] = "committed" => runs[target[d]] = None
    /\ \A z \in ProjectDeletes :
          /\ pc[z] \in {"loaded", "guarded", "committed"} => \A r \in todo[z] : Stored(r)
          /\ pc[z] = "committed" => \A r \in todo[z] : runs[r] = None

StoreInv == TypeInv /\ RunsStored /\ UploadsHold /\ DeletesHold

\* The invariant holds initially.
LEMMA InitStoreInv == Init => StoreInv
<1> SUFFICES ASSUME Init PROVE StoreInv
  OBVIOUS
<1>1. Present = {}
  BY DEF Init, Present
<1>2. RowsOK
  <2>1. IdentitiesOK
    BY DEF Init, IdentitiesOK
  <2>2. /\ project = FALSE /\ baseline = None /\ clock = 0
        /\ runs \in [RunIds -> Run \cup {None}]
        /\ \A i \in SwbIds : identity[i] = None
    BY DEF Init
  <2> QED BY <1>1, <2>1, <2>2 DEF RowsOK
<1>3. SessionsOK
  BY DEF Init, SessionsOK, UploadStates, Requests
<1>4. RunsStored
  BY <1>1 DEF RunsStored
<1>5. UploadsHold /\ DeletesHold
  BY DEF Init, UploadsHold, UploadHolds, DeletesHold, Holding, Deleting, Requests
<1> QED BY <1>2, <1>3, <1>4, <1>5 DEF StoreInv, TypeInv

\* The parts of the invariant under steps that leave their variables alone.
LEMMA RowsKept == RowsOK /\ UNCHANGED rowVars => RowsOK'
BY DEF RowsOK, rowVars, IdentitiesOK, Present

\* A step that writes neither runs nor files keeps what is said of both.
LEMMA RunsKept ==
    ASSUME RunsStored, runs \in [RunIds -> Run \cup {None}],
           UNCHANGED <<runs, blob>>, \A r \in RunIds : Stored(r) => Stored(r)'
    PROVE  RunsStored'
BY DEF RunsStored, Present

\* Steps of an upload leave the deletions alone, unless a run that was deleted
\* came again.
LEMMA DeletesKept ==
    ASSUME StoreInv, NEW u \in Uploads, NEW state, pc' = [pc EXCEPT ![u] = state],
           UNCHANGED deleteVars,
           \A r \in RunIds : Stored(r) => Stored(r)' /\ (runs[r] = None => runs'[r] = None)
    PROVE  DeletesHold'
<1>1. \A w \in Deletes \cup ProjectDeletes : pc'[w] = pc[w]
  BY StoreAssumption DEF StoreInv, TypeInv, SessionsOK, Requests
<1>2. /\ target' = target /\ todo' = todo
      /\ \A z \in ProjectDeletes : todo[z] \subseteq RunIds
  BY DEF deleteVars, StoreInv, TypeInv, SessionsOK
<1>3. \A d \in Deletes :
        /\ pc[d] \in Deleting => target[d] \in RunIds /\ Stored(target[d])
        /\ pc[d] = "committed" => runs[target[d]] = None
  BY DEF StoreInv, DeletesHold
<1>4. ASSUME NEW d \in Deletes
      PROVE  /\ pc'[d] \in Deleting => (target[d] \in RunIds /\ Stored(target[d]))'
             /\ pc'[d] = "committed" => runs'[target'[d]] = None
  BY <1>1, <1>2, <1>3 DEF Deleting
<1>5. ASSUME NEW z \in ProjectDeletes
      PROVE  /\ pc'[z] \in {"loaded", "guarded", "committed"} => \A r \in todo'[z] : Stored(r)'
             /\ pc'[z] = "committed" => \A r \in todo'[z] : runs'[r] = None
  BY <1>1, <1>2 DEF StoreInv, DeletesHold
<1> QED BY <1>4, <1>5 DEF DeletesHold

\* An upload keeps hold of its run when another request makes a step.
LEMMA StillHolds ==
    ASSUME StoreInv, NEW x \in Uploads,
           pc'[x] = pc[x] /\ found'[x] = found[x] /\ sent'[x] = sent[x],
           pc[x] = "stored" /\ blob[x] # None => blob'[x] # None,
           \A r \in RunIds : Stored(r) =>
               /\ Stored(r)'
               /\ runs'[r] # None => runs[r] # None /\ runs'[r].sarif = runs[r].sarif
    PROVE  UploadHolds(x)'
<1>1. UploadHolds(x)
  BY DEF StoreInv, UploadsHold
<1>2. ASSUME pc[x] \in Holding
      PROVE  /\ found[x] \in RunIds /\ Stored(found[x])'
             /\ runs'[found[x]] # None => runs'[found[x]].sarif = SarifOf[sent[x]]
  <2> DEFINE r == found[x]
  <2>1. r \in RunIds /\ Stored(r) /\ (runs[r] # None => runs[r].sarif = SarifOf[sent[x]])
    BY <1>1, <1>2 DEF UploadHolds
  <2>2. /\ Stored(r)'
        /\ runs'[r] # None => runs[r] # None /\ runs'[r].sarif = runs[r].sarif
    BY <2>1, <1>2
  <2> QED BY <2>1, <2>2
<1> QED BY <1>1, <1>2 DEF UploadHolds

\* A step of an upload that writes neither rows nor files: where it leads, and
\* the report, the run and the counters its session has afterwards.
QuietUpload(u, state, m, r, tally) ==
    /\ pc[u] # "answered" /\ pc' = [pc EXCEPT ![u] = state] /\ state \in UploadStates
    /\ UNCHANGED rowVars /\ UNCHANGED deleteVars
    /\ blob' = blob /\ activeRuns' = activeRuns /\ writer' \in Uploads \cup {None}
    /\ sent' = [sent EXCEPT ![u] = m] /\ m \in Metas
    /\ found' = [found EXCEPT ![u] = r] /\ r \in RunIds \cup {None}
    /\ tallyRead' = [tallyRead EXCEPT ![u] = tally]
    /\ tally \in [VerdictValues -> Nat] \cup {None}
    /\ state = "stored" => blob[u] # None
    /\ state \in Holding => /\ r \in RunIds /\ Stored(r)
                            /\ runs[r] # None => runs[r].sarif = SarifOf[m]

\* A step of an upload that writes neither rows nor files keeps the invariant.
LEMMA QuietUploadStep ==
    ASSUME StoreInv, NEW u \in Uploads, NEW state, NEW m, NEW r, NEW tally,
           QuietUpload(u, state, m, r, tally)
    PROVE  StoreInv'
<1>0. /\ pc[u] # "answered" /\ pc' = [pc EXCEPT ![u] = state] /\ state \in UploadStates
      /\ UNCHANGED rowVars /\ UNCHANGED deleteVars
      /\ blob' = blob /\ activeRuns' = activeRuns /\ writer' \in Uploads \cup {None}
      /\ sent' = [sent EXCEPT ![u] = m] /\ m \in Metas
      /\ found' = [found EXCEPT ![u] = r] /\ r \in RunIds \cup {None}
      /\ tallyRead' = [tallyRead EXCEPT ![u] = tally]
      /\ tally \in [VerdictValues -> Nat] \cup {None}
      /\ state = "stored" => blob[u] # None
      /\ state \in Holding => /\ r \in RunIds /\ Stored(r)
                              /\ runs[r] # None => runs[r].sarif = SarifOf[m]
  BY DEF QuietUpload
<1>1. /\ u \in Requests /\ runs' = runs /\ blob' = blob /\ pc \in [Requests -> UploadStates \cup DeleteStates]
      /\ found \in [Uploads -> RunIds \cup {None}] /\ sent \in [Uploads -> Metas \cup {None}]
      /\ runs \in [RunIds -> Run \cup {None}]
  BY <1>0 DEF Requests, rowVars, StoreInv, TypeInv, SessionsOK, RowsOK
<1>2. \A x \in Uploads : x # u => /\ pc'[x] = pc[x] /\ found'[x] = found[x]
                                  /\ sent'[x] = sent[x]
  BY <1>0, <1>1 DEF Requests
<1>3. pc'[u] = state /\ found'[u] = r /\ sent'[u] = m
  BY <1>0, <1>1
<1>4. \A x \in RunIds : Stored(x) => Stored(x)'
  BY <1>0, <1>2 DEF Stored, RunIds
<1>5. RowsOK'
  BY <1>0, RowsKept DEF StoreInv, TypeInv
<1>6. SessionsOK'
  <2>1. \A x \in Uploads : sent'[x] = None => pc'[x] = "idle"
    BY <1>0, <1>1, <1>2, <1>3, StoreAssumption DEF StoreInv, TypeInv, SessionsOK
  <2>2. /\ writer' \in Uploads \cup {None}
        /\ pc' \in [Requests -> UploadStates \cup DeleteStates]
        /\ sent' \in [Uploads -> Metas \cup {None}]
        /\ found' \in [Uploads -> RunIds \cup {None}]
    BY <1>0, <1>1
  <2>3. tallyRead' \in [Uploads -> [VerdictValues -> Nat] \cup {None}]
    BY <1>0 DEF StoreInv, TypeInv, SessionsOK
  <2>4. \A d \in Deletes : pc'[d] = pc[d]
    BY <1>0, <1>1, StoreAssumption DEF Requests
  <2> QED BY <1>0, <2>1, <2>2, <2>3, <2>4 DEF StoreInv, TypeInv, SessionsOK, deleteVars
<1>7. RunsStored'
  BY <1>0, <1>1, <1>4, RunsKept DEF StoreInv
<1>8. UploadsHold'
  <2> SUFFICES ASSUME NEW x \in Uploads PROVE UploadHolds(x)'
    BY DEF UploadsHold
  <2>1. CASE x = u
    <3>1. r \in RunIds /\ Stored(r) => pc'[r] = "answered" /\ found'[r] = r
      BY <1>4 DEF Stored
    <3>2. state = "stored" => blob[x] # None
      BY <1>0, <2>1
    <3>3. state \in Holding => /\ r \in RunIds /\ pc'[r] = "answered" /\ found'[r] = r
                               /\ runs[r] # None => runs[r].sarif = SarifOf[m]
      BY <1>0, <3>1
    <3>4. pc'[x] = state /\ found'[x] = r /\ sent'[x] = m /\ runs' = runs /\ blob' = blob
      BY <1>1, <1>3, <2>1
    <3> QED BY <3>2, <3>3, <3>4 DEF Stored, UploadHolds
  <2>2. CASE x # u
    BY <1>1, <1>2, <1>4, <2>2, StillHolds
  <2> QED BY <2>1, <2>2
<1>9. DeletesHold'
  BY <1>0, <1>1, <1>4, DeletesKept
<1> QED BY <1>5, <1>6, <1>7, <1>8, <1>9 DEF StoreInv, TypeInv

-----------------------------------------------------------------------------
(* Uploads.                                                                *)

\* What an upload holds when a lookup of its report gives it a run.
LEMMA HoldRunType ==
    ASSUME StoreInv, NEW u \in Uploads, NEW m \in Metas, NEW r \in SameReport(m)
    PROVE  /\ r \in RunIds /\ Stored(r) /\ runs[r].sarif = SarifOf[m]
           /\ runs[r].tally \in [VerdictValues -> Nat]
BY DEF SameReport, Present, StoreInv, TypeInv, RowsOK, RunsStored, Run

\* The sessions of uploads, as the steps below read them.
LEMMA UploadFacts ==
    ASSUME StoreInv, NEW u \in Uploads
    PROVE  /\ u \in Requests /\ u \in RunIds /\ writer \in Uploads \cup {None}
           /\ found[u] \in RunIds \cup {None} /\ found = [found EXCEPT ![u] = found[u]]
           /\ tallyRead[u] \in [VerdictValues -> Nat] \cup {None}
           /\ tallyRead = [tallyRead EXCEPT ![u] = tallyRead[u]]
           /\ sent = [sent EXCEPT ![u] = sent[u]]
           /\ pc[u] # "idle" => sent[u] \in Metas
BY DEF Requests, RunIds, StoreInv, TypeInv, SessionsOK

\* An upload arrives and looks for its project.
LEMMA UploadArriveStep ==
    ASSUME StoreInv, NEW u \in Uploads, UploadArrive(u) PROVE StoreInv'
<1>1. PICK m \in Metas : sent' = [sent EXCEPT ![u] = m]
  BY DEF UploadArrive
<1>2. PICK state \in {"resolved", "creating"} : pc' = [pc EXCEPT ![u] = state]
  BY DEF UploadArrive, Goto
<1>3. state \in UploadStates /\ state # "stored" /\ state \notin Holding
  BY <1>2 DEF UploadStates, Uploading, Holding
<1>4. QuietUpload(u, state, m, found[u], tallyRead[u])
  BY <1>1, <1>2, <1>3, UploadFacts DEF UploadArrive, QuietUpload
<1> QED BY <1>4, QuietUploadStep

\* An upload creates its project and holds the write lock.
LEMMA UploadCreateStep ==
    ASSUME StoreInv, NEW u \in Uploads, UploadCreate(u) PROVE StoreInv'
<1>1. PICK state \in {"resolved", "failed"} : pc' = [pc EXCEPT ![u] = state]
  BY DEF UploadCreate, Goto
<1>2. state \in UploadStates /\ state # "stored" /\ state \notin Holding
  BY <1>1 DEF UploadStates, Uploading, Ended, Holding
<1>3. sent[u] \in Metas /\ writer' \in Uploads \cup {None}
  BY UploadFacts DEF UploadCreate
<1>4. QuietUpload(u, state, sent[u], found[u], tallyRead[u])
  BY <1>1, <1>2, <1>3, UploadFacts DEF UploadCreate, uploadVars, QuietUpload
<1> QED BY <1>4, QuietUploadStep

\* A lookup by report, from either place, leaves the upload with a run of it
\* or without one.
LEMMA LookupStep ==
    ASSUME StoreInv, NEW u \in Uploads, pc[u] \in {"resolved", "raced"},
           \/ \E r \in SameReport(sent[u]) : HoldRun(u, r)
           \/ /\ Goto(u, "fresh") \/ Goto(u, "failed")
              /\ UNCHANGED <<found, tallyRead>>,
           UNCHANGED <<rowVars, blob, writer, activeRuns, sent, deleteVars, bounds>>
    PROVE  StoreInv'
<1>1. /\ sent[u] \in Metas /\ pc[u] # "answered"
      /\ sent' = [sent EXCEPT ![u] = sent[u]] /\ writer' \in Uploads \cup {None}
  BY UploadFacts
<1>2. CASE \E r \in SameReport(sent[u]) : HoldRun(u, r)
  <2>1. PICK r \in SameReport(sent[u]) : HoldRun(u, r)
    BY <1>2
  <2>2. /\ r \in RunIds /\ Stored(r) /\ runs[r].sarif = SarifOf[sent[u]]
        /\ runs[r].tally \in [VerdictValues -> Nat]
    BY <1>1, HoldRunType
  <2>3. "found" \in UploadStates
    BY DEF UploadStates, Uploading
  <2>4. QuietUpload(u, "found", sent[u], r, runs[r].tally)
    BY <1>1, <2>1, <2>2, <2>3 DEF HoldRun, Goto, QuietUpload
  <2> QED BY <2>4, QuietUploadStep
<1>3. CASE (Goto(u, "fresh") \/ Goto(u, "failed")) /\ UNCHANGED <<found, tallyRead>>
  <2>1. PICK state \in {"fresh", "failed"} : pc' = [pc EXCEPT ![u] = state]
    BY <1>3 DEF Goto
  <2>2. state \in UploadStates /\ state # "stored" /\ state \notin Holding
    BY <2>1 DEF UploadStates, Uploading, Ended, Holding
  <2>3. QuietUpload(u, state, sent[u], found[u], tallyRead[u])
    BY <1>1, <1>3, <2>1, <2>2, UploadFacts DEF QuietUpload
  <2> QED BY <2>3, QuietUploadStep
<1> QED BY <1>2, <1>3

\* An upload looks for a run of the same report.
LEMMA UploadLookupStep ==
    ASSUME StoreInv, NEW u \in Uploads, UploadLookup(u) PROVE StoreInv'
BY LookupStep DEF UploadLookup

\* It looks for the run of the winner, or fails.
LEMMA UploadRefindStep ==
    ASSUME StoreInv, NEW u \in Uploads, UploadRefind(u) PROVE StoreInv'
BY LookupStep DEF UploadRefind

\* An upload that gives up leaves everything as it was.
LEMMA UploadRejectStep ==
    ASSUME StoreInv, NEW u \in Uploads, UploadReject(u) PROVE StoreInv'
<1>1. "refused" \in UploadStates /\ "refused" \notin Holding
  BY DEF UploadStates, Ended, Holding
<1>2. sent[u] \in Metas /\ writer' \in Uploads \cup {None}
  BY UploadFacts DEF UploadReject, Release
<1>3. QuietUpload(u, "refused", sent[u], found[u], tallyRead[u])
  BY <1>1, <1>2, UploadFacts DEF UploadReject, Goto, uploadVars, QuietUpload
<1> QED BY <1>3, QuietUploadStep

\* An upload finds its report inserted, or its project deleted, and is rolled back.
LEMMA UploadRacedStep ==
    ASSUME StoreInv, NEW u \in Uploads, UploadRaced(u) PROVE StoreInv'
<1>1. "raced" \in UploadStates /\ "raced" \notin Holding
  BY DEF UploadStates, Uploading, Holding
<1>2. QuietUpload(u, "raced", sent[u], found[u], tallyRead[u])
  BY <1>1, UploadFacts DEF UploadRaced, Goto, uploadVars, QuietUpload
<1> QED BY <1>2, QuietUploadStep

\* The run to re-ingest is gone.
LEMMA UploadGoneStep ==
    ASSUME StoreInv, NEW u \in Uploads, UploadGone(u) PROVE StoreInv'
<1>1. "failed" \in UploadStates /\ "failed" \notin Holding
  BY DEF UploadStates, Ended, Holding
<1>2. QuietUpload(u, "failed", sent[u], found[u], tallyRead[u])
  BY <1>1, UploadFacts DEF UploadGone, Goto, uploadVars, QuietUpload
<1> QED BY <1>2, QuietUploadStep

\* The comparison with the saved meta keeps the run the upload holds.
LEMMA UploadCompareStep ==
    ASSUME StoreInv, NEW u \in Uploads, UploadCompare(u) PROVE StoreInv'
<1>1. PICK state \in {"answered", "failed", "differs"} : pc' = [pc EXCEPT ![u] = state]
  BY DEF UploadCompare, Goto
<1>2. state \in UploadStates /\ state # "stored"
  BY <1>1 DEF UploadStates, Uploading, Ended
<1>3. /\ found[u] \in RunIds /\ Stored(found[u])
      /\ runs[found[u]] # None => runs[found[u]].sarif = SarifOf[sent[u]]
  BY DEF UploadCompare, StoreInv, UploadsHold, UploadHolds, Holding
<1>4. /\ pc[u] # "answered" /\ pc[u] # "idle"
      /\ UNCHANGED <<rowVars, blob, writer, activeRuns, uploadVars, deleteVars>>
  BY DEF UploadCompare
<1>5. QuietUpload(u, state, sent[u], found[u], tallyRead[u])
  BY <1>1, <1>2, <1>3, <1>4, UploadFacts DEF uploadVars, QuietUpload
<1> QED BY <1>5, QuietUploadStep

\* Saving the blobs of a new run.
LEMMA UploadBlobsStep ==
    ASSUME StoreInv, NEW u \in Uploads, UploadBlobs(u) PROVE StoreInv'
<1>1. /\ pc[u] = "fresh" /\ pc' = [pc EXCEPT ![u] = "stored"]
      /\ blob' = [blob EXCEPT ![u] = sent[u]] /\ sent[u] \in Metas /\ sent[u] # None
      /\ UNCHANGED rowVars /\ UNCHANGED uploadVars /\ UNCHANGED deleteVars
      /\ writer' = writer /\ activeRuns' = activeRuns
  BY UploadFacts, StoreAssumption DEF UploadBlobs, Goto
<1>2. /\ pc \in [Requests -> UploadStates \cup DeleteStates] /\ u \in Requests
      /\ blob \in [RunIds -> Metas \cup {None}]
      /\ runs' = runs /\ found' = found /\ sent' = sent
  BY <1>1, UploadFacts DEF StoreInv, TypeInv, SessionsOK, rowVars, uploadVars
<1>3. \A x \in Uploads : x # u => pc'[x] = pc[x] /\ blob'[x] = blob[x]
  BY <1>1, <1>2 DEF Requests, RunIds
<1>4. \A x \in RunIds : Stored(x) => Stored(x)'
  BY <1>1, <1>2, <1>3 DEF Stored, RunIds
<1>5. RowsOK'
  BY <1>1, RowsKept DEF StoreInv, TypeInv
<1>6. SessionsOK'
  <2>1. \A x \in Uploads : sent'[x] = None => pc'[x] = "idle"
    BY <1>1, <1>2, <1>3 DEF StoreInv, TypeInv, SessionsOK
  <2>2. /\ pc' \in [Requests -> UploadStates \cup DeleteStates]
        /\ blob' \in [RunIds -> Metas \cup {None}]
    BY <1>1, <1>2 DEF UploadStates, Uploading
  <2>3. \A d \in Deletes : pc'[d] = pc[d]
    BY <1>1, <1>2, StoreAssumption DEF Requests
  <2> QED BY <1>1, <2>1, <2>2, <2>3
          DEF StoreInv, TypeInv, SessionsOK, uploadVars, deleteVars
<1>7. RunsStored'
  <2>1. \A r \in RunIds : blob[r] # None => blob'[r] # None
    BY <1>1, <1>2
  <2> QED BY <1>2, <1>4, <2>1 DEF StoreInv, RunsStored, Present
<1>8. UploadsHold'
  <2> SUFFICES ASSUME NEW x \in Uploads PROVE UploadHolds(x)'
    BY DEF UploadsHold
  <2>1. CASE x = u
    BY <1>1, <1>2, <2>1 DEF UploadHolds, Holding, RunIds
  <2>2. CASE x # u
    BY <1>2, <1>3, <1>4, <2>2, StillHolds
  <2> QED BY <2>1, <2>2
<1>9. DeletesHold'
  BY <1>1, <1>2, <1>4, DeletesKept
<1> QED BY <1>5, <1>6, <1>7, <1>8, <1>9 DEF StoreInv, TypeInv

\* Replacing the meta of a run that was known.
LEMMA UploadReplaceStep ==
    ASSUME StoreInv, NEW u \in Uploads, UploadReplace(u) PROVE StoreInv'
<1>1. /\ pc[u] = "differs" /\ pc' = [pc EXCEPT ![u] = "replaced"]
      /\ blob' = [blob EXCEPT ![found[u]] = sent[u]] /\ sent[u] \in Metas /\ sent[u] # None
      /\ UNCHANGED rowVars /\ UNCHANGED uploadVars /\ UNCHANGED deleteVars
      /\ writer' = writer /\ activeRuns' = activeRuns
  BY UploadFacts, StoreAssumption DEF UploadReplace, Goto
<1>2. /\ pc \in [Requests -> UploadStates \cup DeleteStates] /\ u \in Requests
      /\ blob \in [RunIds -> Metas \cup {None}]
      /\ runs' = runs /\ found' = found /\ sent' = sent
      /\ UploadHolds(u)
  BY <1>1, UploadFacts DEF StoreInv, TypeInv, SessionsOK, rowVars, uploadVars, UploadsHold
<1>3. /\ \A x \in Uploads : x # u => pc'[x] = pc[x]
      /\ \A x \in RunIds : blob[x] # None => blob'[x] # None
  BY <1>1, <1>2 DEF Requests, RunIds
<1>4. \A x \in RunIds : Stored(x) => Stored(x)'
  BY <1>1, <1>2, <1>3 DEF Stored, RunIds
<1>5. RowsOK'
  BY <1>1, RowsKept DEF StoreInv, TypeInv
<1>6. SessionsOK'
  <2>1. \A x \in Uploads : sent'[x] = None => pc'[x] = "idle"
    BY <1>1, <1>2, <1>3 DEF StoreInv, TypeInv, SessionsOK
  <2>2. /\ pc' \in [Requests -> UploadStates \cup DeleteStates]
        /\ blob' \in [RunIds -> Metas \cup {None}]
    BY <1>1, <1>2 DEF UploadStates, Uploading
  <2>3. \A d \in Deletes : pc'[d] = pc[d]
    BY <1>1, <1>2, StoreAssumption DEF Requests
  <2> QED BY <1>1, <2>1, <2>2, <2>3
          DEF StoreInv, TypeInv, SessionsOK, uploadVars, deleteVars
<1>7. RunsStored'
  BY <1>2, <1>3, <1>4 DEF StoreInv, RunsStored, Present
<1>8. UploadsHold'
  <2> SUFFICES ASSUME NEW x \in Uploads PROVE UploadHolds(x)'
    BY DEF UploadsHold
  <2>1. CASE x = u
    <3>1. /\ found[u] \in RunIds /\ Stored(found[u])
          /\ runs[found[u]] # None => runs[found[u]].sarif = SarifOf[sent[u]]
      BY <1>1, <1>2 DEF UploadHolds, Holding
    <3>2. Stored(found[u])'
      BY <1>2, <1>4, <3>1 DEF Stored
    <3> QED BY <1>1, <1>2, <2>1, <3>1, <3>2 DEF UploadHolds
  <2>2. CASE x # u
    BY <1>2, <1>3, <1>4, <2>2, StillHolds DEF RunIds
  <2> QED BY <2>1, <2>2
<1>9. DeletesHold'
  BY <1>1, <1>2, <1>4, DeletesKept
<1> QED BY <1>5, <1>6, <1>7, <1>8, <1>9 DEF StoreInv, TypeInv

\* The commit of a new run.
LEMMA UploadCommitStep ==
    ASSUME StoreInv, NEW u \in Uploads, UploadCommit(u) PROVE StoreInv'
<1> DEFINE ids == Reported[sent[u]]
           row == [sarif |-> SarifOf[sent[u]], findings |-> ids,
                   tally |-> CountOf(identity', ids), at |-> clock]
<1>1. /\ pc[u] = "stored" /\ pc' = [pc EXCEPT ![u] = "answered"]
      /\ sent[u] \in Metas /\ SameReport(sent[u]) = {} /\ CreateFindings(u, ids)
      /\ runs' = [runs EXCEPT ![u] = row] /\ clock' = clock + 1 /\ project' = TRUE
      /\ found' = [found EXCEPT ![u] = u] /\ writer' \in Uploads \cup {None}
      /\ baseline' = baseline /\ blob' = blob /\ activeRuns' = activeRuns /\ sent' = sent
      /\ tallyRead' = tallyRead /\ UNCHANGED deleteVars
  BY UploadFacts DEF UploadCommit, Goto, Ready, Release
<1>2. /\ pc \in [Requests -> UploadStates \cup DeleteStates] /\ u \in Requests /\ u \in RunIds
      /\ found \in [Uploads -> RunIds \cup {None}] /\ runs \in [RunIds -> Run \cup {None}]
      /\ clock \in Nat /\ baseline \in RunIds \cup {None} /\ IdentitiesOK
      /\ ids \in SUBSET SwbIds /\ IsFiniteSet(ids)
  BY <1>1, UploadFacts, FilesAssumption DEF StoreInv, TypeInv, SessionsOK, RowsOK
<1>3. /\ IdentitiesOK'
      /\ \A i \in ids : identity'[i] # None
      /\ \A i \in SwbIds : identity[i] # None => identity'[i] # None
  BY <1>1, <1>2, CreateFindingsType DEF KeepsDecision
<1>4. row \in Run /\ row # None
  <2>1. CountOf(identity', ids) \in [VerdictValues -> Nat]
    BY <1>2, CountOfType
  <2>2. row \in Run
    BY <1>1, <1>2, <2>1 DEF Run
  <2> QED BY <2>2, RowsAssumption
<1>5. \A x \in Uploads : x # u => pc'[x] = pc[x] /\ found'[x] = found[x]
  BY <1>1, <1>2 DEF Requests
<1>6. \A x \in RunIds : Stored(x) => x # u /\ Stored(x)'
  BY <1>1, <1>5 DEF Stored, RunIds
<1>7. /\ \A x \in RunIds : runs'[x] = IF x = u THEN row ELSE runs[x]
      /\ Present' = Present \cup {u} /\ u \notin Present
      /\ row.sarif = SarifOf[sent[u]] /\ row.findings = ids /\ row.at = clock
  <2>1. \A x \in RunIds : runs'[x] = IF x = u THEN row ELSE runs[x]
    BY <1>1, <1>2
  <2>2. u \notin Present
    BY <1>1 DEF StoreInv, RunsStored, Stored
  <2> HIDE DEF row
  <2>3. Present' = Present \cup {u}
    BY <1>2, <1>4, <2>1 DEF Present
  <2> QED BY <2>1, <2>2, <2>3 DEF row
<1> HIDE DEF row, ids
<1>8. RowsOK'
  <2>1. runs' \in [RunIds -> Run \cup {None}] /\ clock' \in Nat
    BY <1>1, <1>2, <1>4
  <2>2. ASSUME NEW r \in Present'
        PROVE  /\ runs'[r].at \in 0..(clock' - 1) /\ IsFiniteSet(runs'[r].findings)
               /\ \A i \in runs'[r].findings : identity'[i] # None
    <3>1. CASE r = u
      BY <1>1, <1>2, <1>3, <1>7, <3>1
    <3>2. CASE r # u
      <4>1. r \in Present /\ runs'[r] = runs[r] /\ r \in RunIds
        BY <1>7, <3>2 DEF Present
      <4>2. /\ runs[r].at \in 0..(clock - 1) /\ IsFiniteSet(runs[r].findings)
            /\ \A i \in runs[r].findings : identity[i] # None
            /\ runs[r].findings \subseteq SwbIds
        BY <1>2, <4>1 DEF StoreInv, TypeInv, RowsOK, Present, Run
      <4> QED BY <1>1, <1>2, <1>3, <4>1, <4>2
    <3> QED BY <3>1, <3>2
  <2> QED BY <1>1, <1>2, <1>3, <2>1, <2>2 DEF RowsOK
<1>9. SessionsOK'
  <2>1. \A x \in Uploads : sent'[x] = None => pc'[x] = "idle"
    BY <1>1, <1>5, StoreAssumption DEF StoreInv, TypeInv, SessionsOK
  <2>2. /\ pc' \in [Requests -> UploadStates \cup DeleteStates]
        /\ found' \in [Uploads -> RunIds \cup {None}]
    BY <1>1, <1>2 DEF UploadStates, Ended
  <2>3. \A d \in Deletes : pc'[d] = pc[d]
    BY <1>1, <1>2, StoreAssumption DEF Requests
  <2> QED BY <1>1, <2>1, <2>2, <2>3
          DEF StoreInv, TypeInv, SessionsOK, uploadVars, deleteVars
<1>10. RunsStored'
  <2>1. \A r \in Present' : Stored(r)' /\ blob'[r] # None
    <3>1. Stored(u)'
      BY <1>1, <1>2 DEF Stored
    <3>2. blob'[u] # None
      BY <1>1 DEF StoreInv, UploadsHold, UploadHolds
    <3>3. \A r \in Present : r \in RunIds /\ Stored(r) /\ blob[r] # None
      BY DEF StoreInv, RunsStored, Present
    <3> QED BY <1>1, <1>6, <1>7, <3>1, <3>2, <3>3
  <2>2. \A r \in Present : runs[r].sarif # SarifOf[sent[u]]
    BY <1>1 DEF SameReport
  <2>3. \A r, s \in Present' : runs'[r].sarif = runs'[s].sarif => r = s
    BY <1>7, <2>2 DEF StoreInv, RunsStored, Present
  <2> QED BY <2>1, <2>3 DEF RunsStored
<1>11. UploadsHold'
  <2> SUFFICES ASSUME NEW x \in Uploads PROVE UploadHolds(x)'
    BY DEF UploadsHold
  <2>1. CASE x = u
    BY <1>1, <1>2, <1>7, <2>1 DEF UploadHolds, Holding, Stored
  <2>2. CASE x # u
    BY <1>1, <1>5, <1>6, <1>7, <2>2, StillHolds
  <2> QED BY <2>1, <2>2
<1>12. DeletesHold'
  BY <1>1, <1>6, <1>7, DeletesKept
<1> QED BY <1>8, <1>9, <1>10, <1>11, <1>12 DEF StoreInv, TypeInv

\* A run with its findings and counters replaced.
Updated(row, ids, tally) == [row EXCEPT !.findings = ids, !.tally = tally]
\* A re-ingest replaces the findings of a run, and nothing that identifies it.
LEMMA RunUpdated ==
    ASSUME NEW row \in Run, NEW ids \in SUBSET SwbIds, NEW tally \in [VerdictValues -> Nat]
    PROVE  /\ Updated(row, ids, tally) \in Run
           /\ Updated(row, ids, tally).findings = ids
           /\ Updated(row, ids, tally).sarif = row.sarif
           /\ Updated(row, ids, tally).at = row.at
BY DEF Run, Updated

\* The re-ingest of a run that was known: the row stays the row of its report.
LEMMA ReingestedRun ==
    ASSUME StoreInv, NEW u \in Uploads, UploadReingest(u)
    PROVE  /\ found[u] \in Present
           /\ \E row \in Run : /\ row.sarif = runs[found[u]].sarif /\ row.at = runs[found[u]].at
                               /\ row.findings = Reported[sent[u]]
                               /\ runs' = [runs EXCEPT ![found[u]] = row]
<1> DEFINE r == found[u]
           ids == Reported[sent[u]]
           tally == IF CountOf(identity', ids) = tallyRead[u] THEN runs[r].tally
                    ELSE CountOf(identity', ids)
           row == Updated(runs[r], ids, tally)
<1>1. sent[u] \in Metas /\ pc[u] = "replaced" /\ runs[r] # None
  BY UploadFacts DEF UploadReingest
<1>2. /\ runs \in [RunIds -> Run \cup {None}] /\ ids \in SUBSET SwbIds /\ IsFiniteSet(ids)
      /\ u \in RunIds
  BY <1>1, UploadFacts, FilesAssumption DEF StoreInv, TypeInv, RowsOK
<1>3. r \in RunIds /\ r \in Present /\ runs[r] \in Run
  BY <1>1, <1>2 DEF StoreInv, UploadsHold, UploadHolds, Holding, Present
<1>4. /\ row \in Run /\ row # None
      /\ row.sarif = runs[r].sarif /\ row.findings = ids /\ row.at = runs[r].at
  <2>1. CountOf(identity', ids) \in [VerdictValues -> Nat]
    BY <1>2, CountOfType
  <2>2. tally \in [VerdictValues -> Nat]
    BY <1>3, <2>1 DEF Run
  <2> HIDE DEF tally, ids, r
  <2>3. /\ row \in Run
        /\ row.sarif = runs[r].sarif /\ row.findings = ids /\ row.at = runs[r].at
    <3>1. PICK old \in Run : old = runs[r]
      BY <1>3
    <3>2. ids \in SUBSET SwbIds
      BY <1>2
    <3> QED BY <2>2, <3>1, <3>2, RunUpdated
  <2> HIDE DEF row
  <2> QED BY <2>3, RowsAssumption
<1>5. runs' = [runs EXCEPT ![r] = row]
  <2>1. runs' = [runs EXCEPT ![r].findings = ids, ![r].tally = tally]
    BY DEF UploadReingest
  <2> HIDE DEF tally, ids, r
  <2>2. DOMAIN runs' = RunIds /\ runs' = [x \in DOMAIN runs' |-> runs'[x]]
    BY <1>2, <2>1
  <2>3. \A x \in RunIds : x # r => runs'[x] = runs[x]
    BY <1>2, <2>1
  <2>4. runs'[r] = row
    BY <1>2, <1>3, <2>1 DEF Updated
  <2> HIDE DEF row
  <2> QED BY <1>2, <2>2, <2>3, <2>4
<1> HIDE DEF row, ids, tally, r
<1>6. PICK built \in Run : built = row
  BY <1>4
<1> QED BY <1>3, <1>4, <1>5, <1>6 DEF r, ids

\* It keeps the invariant.
LEMMA UploadReingestStep ==
    ASSUME StoreInv, NEW u \in Uploads, UploadReingest(u) PROVE StoreInv'
<1> DEFINE r == found[u]
           ids == Reported[sent[u]]
<1>1. /\ pc[u] = "replaced" /\ pc' = [pc EXCEPT ![u] = "answered"]
      /\ sent[u] \in Metas /\ runs[r] # None /\ CreateFindings(r, ids)
      /\ UNCHANGED <<project, baseline, clock, blob, writer, activeRuns>>
      /\ UNCHANGED uploadVars /\ UNCHANGED deleteVars
  BY UploadFacts DEF UploadReingest, Goto
<1>2. /\ pc \in [Requests -> UploadStates \cup DeleteStates] /\ u \in Requests /\ u \in RunIds
      /\ runs \in [RunIds -> Run \cup {None}] /\ clock \in Nat /\ IdentitiesOK
      /\ ids \in SUBSET SwbIds /\ IsFiniteSet(ids)
      /\ found' = found /\ sent' = sent
  BY <1>1, UploadFacts, FilesAssumption DEF StoreInv, TypeInv, SessionsOK, RowsOK, uploadVars
<1>3. /\ r \in RunIds /\ Stored(r) /\ r \in Present /\ runs[r] \in Run
      /\ runs[r].sarif = SarifOf[sent[u]]
  BY <1>1, <1>2 DEF StoreInv, UploadsHold, UploadHolds, Holding, Present
<1>4. /\ IdentitiesOK'
      /\ \A i \in ids : identity'[i] # None
      /\ \A i \in SwbIds : identity[i] # None => identity'[i] # None
  BY <1>1, <1>2, <1>3, CreateFindingsType DEF KeepsDecision
<1>5. PICK row \in Run : /\ row.sarif = runs[r].sarif /\ row.at = runs[r].at
                         /\ row.findings = ids
                         /\ runs' = [runs EXCEPT ![r] = row]
  BY ReingestedRun
<1>6. row # None
  BY RowsAssumption
<1>7. \A x \in RunIds : runs'[x] = IF x = r THEN row ELSE runs[x]
  BY <1>2, <1>3, <1>5
<1> HIDE DEF ids, r
<1>8. Present' = Present
  BY <1>3, <1>6, <1>7 DEF Present
<1>9. \A x \in Uploads : x # u => pc'[x] = pc[x]
  BY <1>1, <1>2 DEF Requests
<1>10. \A x \in RunIds : Stored(x) => Stored(x)'
  BY <1>1, <1>2, <1>9 DEF Stored, RunIds
<1>11. RowsOK'
  <2>1. runs' \in [RunIds -> Run \cup {None}]
    BY <1>2, <1>5
  <2>2. ASSUME NEW x \in Present'
        PROVE  /\ runs'[x].at \in 0..(clock' - 1) /\ IsFiniteSet(runs'[x].findings)
               /\ \A i \in runs'[x].findings : identity'[i] # None
    <3>1. /\ x \in Present /\ x \in RunIds /\ runs[x].at \in 0..(clock - 1)
          /\ IsFiniteSet(runs[x].findings)
          /\ \A i \in runs[x].findings : identity[i] # None
          /\ runs[x].findings \subseteq SwbIds
      BY <1>2, <1>8 DEF StoreInv, TypeInv, RowsOK, Present, Run
    <3>2. CASE x = r
      <4>1. runs'[x].at = runs[x].at /\ runs'[x].findings = ids /\ clock' = clock
        BY <1>1, <1>5, <1>7, <3>1, <3>2
      <4>2. runs'[x].at \in 0..(clock' - 1)
        BY <3>1, <4>1
      <4> QED BY <1>2, <1>4, <4>1, <4>2
    <3>3. CASE x # r
      BY <1>1, <1>4, <1>5, <1>7, <3>1, <3>3
    <3> QED BY <3>2, <3>3
  <2>3. ~project' => Present' = {}
    BY <1>1, <1>8 DEF StoreInv, TypeInv, RowsOK
  <2> QED BY <1>1, <1>3, <1>4, <1>8, <2>1, <2>2, <2>3 DEF StoreInv, TypeInv, RowsOK
<1>12. SessionsOK'
  <2>1. \A x \in Uploads : sent'[x] = None => pc'[x] = "idle"
    BY <1>1, <1>2, <1>9, StoreAssumption DEF StoreInv, TypeInv, SessionsOK
  <2>2. pc' \in [Requests -> UploadStates \cup DeleteStates]
    BY <1>1, <1>2 DEF UploadStates, Ended
  <2>3. \A d \in Deletes : pc'[d] = pc[d]
    BY <1>1, <1>2, StoreAssumption DEF Requests
  <2> QED BY <1>1, <2>1, <2>2, <2>3
          DEF StoreInv, TypeInv, SessionsOK, uploadVars, deleteVars
<1>13. RunsStored'
  BY <1>1, <1>5, <1>7, <1>8, <1>10 DEF StoreInv, RunsStored, Present
<1>14. UploadsHold'
  <2> SUFFICES ASSUME NEW x \in Uploads PROVE UploadHolds(x)'
    BY DEF UploadsHold
  <2>1. CASE x = u
    <3>1. pc'[r] = "answered" /\ found'[r] = r /\ found'[u] = r
      BY <1>2, <1>3, <1>10 DEF Stored, r
    <3>2. pc'[u] = "answered" /\ sent'[u] = sent[u] /\ runs'[r].sarif = SarifOf[sent[u]]
      BY <1>1, <1>2, <1>3, <1>5, <1>7
    <3> QED BY <1>3, <2>1, <3>1, <3>2 DEF UploadHolds, Stored
  <2>2. CASE x # u
    BY <1>1, <1>2, <1>3, <1>5, <1>7, <1>9, <1>10, <2>2, StillHolds DEF Present
  <2> QED BY <2>1, <2>2
<1>15. DeletesHold'
  BY <1>1, <1>3, <1>5, <1>7, <1>10, DeletesKept DEF Present
<1> QED BY <1>11, <1>12, <1>13, <1>14, <1>15 DEF StoreInv, TypeInv

-----------------------------------------------------------------------------
(* Deletions and baselines.                                                *)

\* A step of a request that is no upload: where it leads, the columns of its
\* session afterwards, and what it may do to rows and files.
OtherStep(w, state, t, base, list, moving) ==
    /\ pc' = [pc EXCEPT ![w] = state] /\ state \in DeleteStates
    /\ UNCHANGED uploadVars /\ writer' = writer /\ activeRuns' = activeRuns
    /\ target' = [target EXCEPT ![w] = t] /\ t \in RunIds \cup {None}
    /\ baseRead' = [baseRead EXCEPT ![w] = base] /\ base \in RunIds \cup {None}
    /\ todo' = [todo EXCEPT ![w] = list] /\ list \in SUBSET (SwbIds \cup RunIds)
    /\ move' = [move EXCEPT ![w] = moving] /\ moving \in [id : SwbIds, run : RunIds] \cup {None}
    /\ \A r \in RunIds : runs'[r] # None => runs[r] # None /\ runs'[r].sarif = runs[r].sarif
    /\ blob' \in [RunIds -> Metas \cup {None}]
    /\ \A r \in RunIds : blob'[r] = blob[r] \/ (Stored(r) /\ runs[r] = None)
    /\ w \in Deletes => /\ list \subseteq SwbIds
                        /\ state = "flush" => moving \in [id : SwbIds, run : RunIds]
                        /\ state \in Deleting => t \in RunIds /\ Stored(t)
                        /\ state = "committed" => runs'[t] = None
    /\ w \in ProjectDeletes =>
          /\ list \subseteq RunIds
          /\ state \in {"loaded", "guarded", "committed"} => \A r \in list : Stored(r)
          /\ state = "committed" => \A r \in list : runs'[r] = None

\* A step of a request other than an upload that removes no file still needed keeps the
\* invariant.
LEMMA OtherStepKeeps ==
    ASSUME StoreInv, RowsOK', NEW w \in Requests \ Uploads, NEW state, NEW t, NEW base,
           NEW list, NEW moving, OtherStep(w, state, t, base, list, moving)
    PROVE  StoreInv'
<1>1. /\ pc' = [pc EXCEPT ![w] = state] /\ state \in DeleteStates
      /\ UNCHANGED uploadVars /\ writer' = writer /\ activeRuns' = activeRuns
      /\ target' = [target EXCEPT ![w] = t] /\ t \in RunIds \cup {None}
      /\ baseRead' = [baseRead EXCEPT ![w] = base] /\ base \in RunIds \cup {None}
      /\ todo' = [todo EXCEPT ![w] = list] /\ list \in SUBSET (SwbIds \cup RunIds)
      /\ move' = [move EXCEPT ![w] = moving] /\ moving \in [id : SwbIds, run : RunIds] \cup {None}
  BY DEF OtherStep
<1>2. /\ \A r \in RunIds : runs'[r] # None => runs[r] # None /\ runs'[r].sarif = runs[r].sarif
      /\ blob' \in [RunIds -> Metas \cup {None}]
      /\ \A r \in RunIds : blob'[r] = blob[r] \/ (Stored(r) /\ runs[r] = None)
  BY DEF OtherStep
<1>3. /\ w \in Deletes => /\ list \subseteq SwbIds
                          /\ state = "flush" => moving \in [id : SwbIds, run : RunIds]
                          /\ state \in Deleting => t \in RunIds /\ Stored(t)
                          /\ state = "committed" => runs'[t] = None
      /\ w \in ProjectDeletes =>
            /\ list \subseteq RunIds
            /\ state \in {"loaded", "guarded", "committed"} => \A r \in list : Stored(r)
            /\ state = "committed" => \A r \in list : runs'[r] = None
  BY DEF OtherStep
<1>4. /\ pc \in [Requests -> UploadStates \cup DeleteStates]
      /\ target \in [Deletes \cup Baselines -> RunIds \cup {None}]
      /\ baseRead \in [Deletes \cup Baselines -> RunIds \cup {None}]
      /\ todo \in [Deletes \cup ProjectDeletes -> SUBSET (SwbIds \cup RunIds)]
      /\ move \in [Deletes -> [id : SwbIds, run : RunIds] \cup {None}]
      /\ found' = found /\ sent' = sent /\ tallyRead' = tallyRead
  BY <1>1 DEF StoreInv, TypeInv, SessionsOK, uploadVars
<1>5. /\ \A x \in Requests : x # w => pc'[x] = pc[x]
      /\ \A x \in Deletes \cup Baselines : x # w => target'[x] = target[x]
      /\ \A x \in Deletes \cup ProjectDeletes : x # w => todo'[x] = todo[x]
      /\ \A x \in Deletes : x # w => move'[x] = move[x]
  BY <1>1, <1>4
<1>6. /\ pc'[w] = state
      /\ w \in Deletes \cup Baselines => target'[w] = t
      /\ w \in Deletes \cup ProjectDeletes => todo'[w] = list
      /\ w \in Deletes => move'[w] = moving
  BY <1>1, <1>4
<1>7. /\ \A x \in Uploads : x # w /\ pc'[x] = pc[x]
      /\ \A x \in RunIds : Stored(x)' <=> Stored(x)
  BY <1>4, <1>5 DEF Stored, RunIds, Requests
<1>8. SessionsOK'
  <2>1. /\ pc' \in [Requests -> UploadStates \cup DeleteStates]
        /\ target' \in [Deletes \cup Baselines -> RunIds \cup {None}]
        /\ baseRead' \in [Deletes \cup Baselines -> RunIds \cup {None}]
        /\ todo' \in [Deletes \cup ProjectDeletes -> SUBSET (SwbIds \cup RunIds)]
        /\ move' \in [Deletes -> [id : SwbIds, run : RunIds] \cup {None}]
    BY <1>1, <1>4
  <2>2. \A x \in Uploads : sent'[x] = None => pc'[x] = "idle"
    BY <1>4, <1>7 DEF StoreInv, TypeInv, SessionsOK
  <2>3. ASSUME NEW d \in Deletes
        PROVE  /\ todo'[d] \subseteq SwbIds
               /\ pc'[d] = "flush" => move'[d] \in [id : SwbIds, run : RunIds]
    <3>1. CASE d = w
      BY <1>1, <1>3, <1>6, <3>1
    <3>2. CASE d # w
      BY <1>5, <3>2 DEF StoreInv, TypeInv, SessionsOK, Requests
    <3> QED BY <3>1, <3>2
  <2>4. \A z \in ProjectDeletes : todo'[z] \subseteq RunIds
    BY <1>3, <1>5, <1>6 DEF StoreInv, TypeInv, SessionsOK
  <2> QED BY <1>1, <1>2, <1>4, <2>1, <2>2, <2>3, <2>4 DEF StoreInv, TypeInv, SessionsOK
<1>9. RunsStored'
  BY <1>2, <1>7 DEF StoreInv, RunsStored, Present
<1>10. UploadsHold'
  <2> SUFFICES ASSUME NEW x \in Uploads PROVE UploadHolds(x)'
    BY DEF UploadsHold
  <2>1. pc[x] = "stored" /\ blob[x] # None => blob'[x] # None
    BY <1>2 DEF Stored, RunIds
  <2> QED BY <1>2, <1>4, <1>7, <2>1, StillHolds
<1>11. \A r \in RunIds : runs[r] = None => runs'[r] = None
  BY <1>2
<1>12. ASSUME NEW d \in Deletes
       PROVE  (/\ pc[d] \in Deleting => target[d] \in RunIds /\ Stored(target[d])
               /\ pc[d] = "committed" => runs[target[d]] = None)'
  <2>1. CASE d = w
    <3>1. pc'[d] = state /\ target'[d] = t
      BY <1>6, <2>1
    <3>2. /\ state \in Deleting => t \in RunIds /\ Stored(t)'
          /\ state = "committed" => runs'[t] = None
      BY <1>3, <1>7, <2>1
    <3> QED BY <3>1, <3>2 DEF Stored, Deleting
  <2>2. CASE d # w
    <3>1. pc'[d] = pc[d] /\ target'[d] = target[d]
      BY <1>5, <2>2 DEF Requests
    <3>2. /\ pc[d] \in Deleting => target[d] \in RunIds /\ Stored(target[d])
          /\ pc[d] = "committed" => pc[d] \in Deleting /\ runs[target[d]] = None
      BY DEF StoreInv, DeletesHold, Deleting
    <3>3. \A x \in RunIds : Stored(x) => pc'[x] = "answered" /\ found'[x] = x
      BY <1>7 DEF Stored
    <3> QED BY <1>11, <3>1, <3>2, <3>3 DEF Stored, Deleting
  <2> QED BY <2>1, <2>2
<1>13. ASSUME NEW z \in ProjectDeletes
       PROVE  (/\ pc[z] \in {"loaded", "guarded", "committed"} => \A r \in todo[z] : Stored(r)
               /\ pc[z] = "committed" => \A r \in todo[z] : runs[r] = None)'
  <2>1. CASE z = w
    BY <1>3, <1>6, <1>7, <2>1
  <2>2. CASE z # w
    <3>1. pc'[z] = pc[z] /\ todo'[z] = todo[z] /\ todo[z] \subseteq RunIds
      BY <1>5, <2>2 DEF Requests, StoreInv, TypeInv, SessionsOK
    <3> QED BY <1>7, <1>11, <3>1 DEF StoreInv, DeletesHold
  <2> QED BY <2>1, <2>2
<1>14. DeletesHold'
  BY <1>12, <1>13 DEF DeletesHold
<1> QED BY <1>8, <1>9, <1>10, <1>14 DEF StoreInv, TypeInv

\* A column that a request has not, or does not change.
LEMMA ColumnKept ==
    ASSUME NEW D, NEW T, NEW f \in [D -> T], NEW w, NEW x, w \in D => x = f[w]
    PROVE  f = [f EXCEPT ![w] = x]
OBVIOUS

\* The session of a deletion.
LEMMA DeleteFacts ==
    ASSUME StoreInv, NEW d \in Deletes
    PROVE  /\ d \in Requests \ Uploads /\ d \notin ProjectDeletes
           /\ target = [target EXCEPT ![d] = target[d]]
           /\ baseRead = [baseRead EXCEPT ![d] = baseRead[d]]
           /\ todo = [todo EXCEPT ![d] = todo[d]] /\ move = [move EXCEPT ![d] = move[d]]
           /\ target[d] \in RunIds \cup {None} /\ baseRead[d] \in RunIds \cup {None}
           /\ todo[d] \in SUBSET (SwbIds \cup RunIds) /\ todo[d] \subseteq SwbIds
           /\ move[d] \in [id : SwbIds, run : RunIds] \cup {None}
           /\ pc[d] = "flush" => move[d] \in [id : SwbIds, run : RunIds]
           /\ pc[d] \in Deleting => target[d] \in RunIds /\ Stored(target[d])
           /\ blob \in [RunIds -> Metas \cup {None}]
           /\ runs \in [RunIds -> Run \cup {None}]
<1>1. d \in Requests \ Uploads /\ d \notin ProjectDeletes
  BY StoreAssumption DEF Requests
<1>2. /\ target \in [Deletes \cup Baselines -> RunIds \cup {None}]
      /\ baseRead \in [Deletes \cup Baselines -> RunIds \cup {None}]
      /\ todo \in [Deletes \cup ProjectDeletes -> SUBSET (SwbIds \cup RunIds)]
      /\ move \in [Deletes -> [id : SwbIds, run : RunIds] \cup {None}]
      /\ todo[d] \subseteq SwbIds
      /\ pc[d] = "flush" => move[d] \in [id : SwbIds, run : RunIds]
      /\ blob \in [RunIds -> Metas \cup {None}]
      /\ runs \in [RunIds -> Run \cup {None}]
  BY DEF StoreInv, TypeInv, SessionsOK, RowsOK
<1>3. pc[d] \in Deleting => target[d] \in RunIds /\ Stored(target[d])
  BY DEF StoreInv, DeletesHold
<1> QED BY <1>1, <1>2, <1>3, ColumnKept

\* Rows that are not written.
LEMMA RowsUnchanged ==
    ASSUME StoreInv, UNCHANGED rowVars
    PROVE  /\ RowsOK'
           /\ \A r \in RunIds : runs'[r] # None => runs[r] # None /\ runs'[r].sarif = runs[r].sarif
BY RowsKept DEF StoreInv, TypeInv, rowVars

\* A deletion loads its run.
LEMMA DeleteLoadStep ==
    ASSUME StoreInv, NEW d \in Deletes, DeleteLoad(d) PROVE StoreInv'
<1>1. PICK r \in RunIds :
        /\ target' = [target EXCEPT ![d] = r]
        /\ pc' = [pc EXCEPT ![d] = IF runs[r] = None THEN "refused" ELSE "loaded"]
  BY DEF DeleteLoad, Goto
<1>2. runs[r] # None => Stored(r)
  BY DEF StoreInv, RunsStored, Present
<1>3. OtherStep(d, IF runs[r] = None THEN "refused" ELSE "loaded", r, baseRead[d], todo[d], move[d])
  BY <1>1, <1>2, DeleteFacts, RowsUnchanged DEF DeleteLoad, OtherStep, Deleting, DeleteStates, Ended
<1> QED BY <1>3, DeleteFacts, RowsUnchanged, OtherStepKeeps DEF DeleteLoad

\* A deletion reads the guard.
LEMMA DeleteGuardStep ==
    ASSUME StoreInv, NEW d \in Deletes, DeleteGuard(d) PROVE StoreInv'
<1>1. PICK state \in {"refused", "guarded", "failed"} : pc' = [pc EXCEPT ![d] = state]
  BY DEF DeleteGuard, Goto
<1>2. baseline \in RunIds \cup {None} /\ pc[d] \in Deleting
  BY DEF DeleteGuard, Deleting, StoreInv, TypeInv, RowsOK
<1>3. OtherStep(d, state, target[d], baseline, todo[d], move[d])
  BY <1>1, <1>2, DeleteFacts, RowsUnchanged DEF DeleteGuard, OtherStep, DeleteStates, Ended
<1> QED BY <1>3, DeleteFacts, RowsUnchanged, OtherStepKeeps DEF DeleteGuard

\* A deletion lists the identities to move.
LEMMA DeleteScanStep ==
    ASSUME StoreInv, NEW d \in Deletes, DeleteScan(d) PROVE StoreInv'
<1> DEFINE list == {i \in SwbIds : lastSeen[i] = target[d] /\ Others(i, target[d]) # {}}
<1>1. list \subseteq SwbIds /\ pc[d] \in Deleting
  BY DEF DeleteScan, Deleting
<1>2. todo' = [todo EXCEPT ![d] = list] /\ pc' = [pc EXCEPT ![d] = "moving"]
  BY DEF DeleteScan, Goto
<1> HIDE DEF list
<1>3. OtherStep(d, "moving", target[d], baseRead[d], list, move[d])
  BY <1>1, <1>2, DeleteFacts, RowsUnchanged DEF DeleteScan, OtherStep, DeleteStates
<1> QED BY <1>3, DeleteFacts, RowsUnchanged, OtherStepKeeps DEF DeleteScan

\* The transaction of a deletion fails.
LEMMA DeleteFailStep ==
    ASSUME StoreInv, NEW d \in Deletes, DeleteFail(d) PROVE StoreInv'
<1>1. OtherStep(d, "failed", target[d], baseRead[d], todo[d], move[d])
  BY DeleteFacts, RowsUnchanged
     DEF DeleteFail, Goto, deleteVars, OtherStep, DeleteStates, Ended, Deleting
<1> QED BY <1>1, DeleteFacts, RowsUnchanged, OtherStepKeeps DEF DeleteFail

\* The run an identity is moved to is a run that reports it.
LEMMA LatestOtherRun ==
    ASSUME RowsOK, NEW i, NEW r, Others(i, r) # {}
    PROVE  LatestOther(i, r) \in RunIds
BY LatestOtherIsOther DEF RowsOK, Others, Present

\* A deletion reads where the next identity is to go.
LEMMA DeleteMoveStep ==
    ASSUME StoreInv, NEW d \in Deletes, DeleteMove(d) PROVE StoreInv'
<1>1. PICK i \in todo[d] :
        /\ todo' = [todo EXCEPT ![d] = todo[d] \ {i}]
        /\ \/ UNCHANGED <<move, pc>>
           \/ /\ Others(i, target[d]) # {}
              /\ move' = [move EXCEPT ![d] = [id |-> i, run |-> LatestOther(i, target[d])]]
              /\ Goto(d, "flush")
  BY DEF DeleteMove
<1>2. i \in SwbIds /\ todo[d] \ {i} \subseteq SwbIds /\ pc[d] = "moving" /\ pc[d] \in Deleting
  BY DeleteFacts DEF DeleteMove, Deleting
<1>3. CASE UNCHANGED <<move, pc>>
  <2>1. pc' = [pc EXCEPT ![d] = "moving"]
    BY <1>2, <1>3 DEF StoreInv, TypeInv, SessionsOK
  <2>2. OtherStep(d, "moving", target[d], baseRead[d], todo[d] \ {i}, move[d])
    BY <1>1, <1>2, <1>3, <2>1, DeleteFacts, RowsUnchanged
       DEF DeleteMove, OtherStep, DeleteStates, Deleting
  <2> QED BY <2>2, DeleteFacts, RowsUnchanged, OtherStepKeeps DEF DeleteMove
<1>4. CASE /\ Others(i, target[d]) # {}
           /\ move' = [move EXCEPT ![d] = [id |-> i, run |-> LatestOther(i, target[d])]]
           /\ Goto(d, "flush")
  <2> DEFINE moving == [id |-> i, run |-> LatestOther(i, target[d])]
  <2>1. LatestOther(i, target[d]) \in RunIds
    BY <1>4, LatestOtherRun DEF StoreInv, TypeInv
  <2>2. moving \in [id : SwbIds, run : RunIds]
    BY <1>2, <2>1
  <2>3. move' = [move EXCEPT ![d] = moving] /\ pc' = [pc EXCEPT ![d] = "flush"]
    BY <1>4 DEF Goto
  <2> HIDE DEF moving
  <2>4. OtherStep(d, "flush", target[d], baseRead[d], todo[d] \ {i}, moving)
    BY <1>1, <1>2, <2>2, <2>3, DeleteFacts, RowsUnchanged DEF DeleteMove, OtherStep, DeleteStates
  <2> QED BY <2>4, DeleteFacts, RowsUnchanged, OtherStepKeeps DEF DeleteMove
<1> QED BY <1>1, <1>3, <1>4

\* Files go only with the run they are of.
LEMMA DeleteBlobsStep ==
    ASSUME StoreInv, NEW d \in Deletes, DeleteBlobs(d) PROVE StoreInv'
<1>1. /\ target[d] \in RunIds /\ Stored(target[d]) /\ runs[target[d]] = None
  BY DEF DeleteBlobs, StoreInv, DeletesHold, Deleting
<1>2. /\ blob' \in [RunIds -> Metas \cup {None}]
      /\ \A r \in RunIds : blob'[r] = blob[r] \/ r = target[d]
  BY DeleteFacts DEF DeleteBlobs
<1>3. OtherStep(d, "answered", target[d], baseRead[d], todo[d], move[d])
  BY <1>1, <1>2, DeleteFacts, RowsUnchanged
     DEF DeleteBlobs, Goto, deleteVars, OtherStep, DeleteStates, Ended, Deleting
<1> QED BY <1>3, DeleteFacts, RowsUnchanged, OtherStepKeeps DEF DeleteBlobs

\* The commit of a deletion: what a remaining run reports has another run to be
\* reported by, so that its identity stays.
LEMMA DeleteCommitStep ==
    ASSUME StoreInv, NEW d \in Deletes, DeleteCommit(d) PROVE StoreInv'
<1> DEFINE r == target[d]
<1>1. /\ pc[d] \in Deleting /\ r \in RunIds /\ Stored(r)
      /\ runs \in [RunIds -> Run \cup {None}] /\ IdentitiesOK /\ clock \in Nat
      /\ baseline \in RunIds \cup {None}
  BY DeleteFacts DEF DeleteCommit, Deleting, StoreInv, TypeInv, RowsOK
<1>2. /\ runs' = [runs EXCEPT ![r] = None]
      /\ identity' = [i \in SwbIds |-> IF i \in Orphans(r) THEN None ELSE identity[i]]
      /\ journal' = [i \in SwbIds |-> IF i \in Orphans(r) THEN <<>> ELSE journal[i]]
      /\ lastSeen' = [i \in SwbIds |-> IF i \in Orphans(r) THEN None ELSE LastSeenAfter(d)[i]]
      /\ baseline' = IF baseRead[d] = r THEN None ELSE baseline
      /\ clock' = clock /\ project' = project
  BY DEF DeleteCommit
<1>3. \A x \in RunIds : runs'[x] = IF x = r THEN None ELSE runs[x]
  BY <1>1, <1>2
<1>4. /\ \A x \in RunIds : runs'[x] # None => /\ runs[x] # None /\ runs'[x].sarif = runs[x].sarif
                                              /\ runs'[x] = runs[x] /\ x # r
      /\ Present' = Present \ {r}
      /\ runs' \in [RunIds -> Run \cup {None}]
  BY <1>1, <1>2, <1>3 DEF Present
<1>5. IdentitiesOK'
  <2>1. \A i \in SwbIds : LastSeenAfter(d)[i] \in RunIds \cup {None}
    <3> TAKE i \in SwbIds
    <3>1. pc[d] = "flush" => move[d].run \in RunIds
      BY DeleteFacts
    <3>2. Others(i, r) # {} => LatestOther(i, r) \in RunIds
      BY LatestOtherRun DEF StoreInv, TypeInv
    <3>3. lastSeen[i] \in RunIds \cup {None}
      BY <1>1 DEF IdentitiesOK
    <3> QED BY <3>1, <3>2, <3>3 DEF LastSeenAfter
  <2>2. lastSeen' \in [SwbIds -> RunIds \cup {None}]
    BY <1>2, <2>1
  <2>3. identity' \in [SwbIds -> Snapshot \cup {None}]
    BY <1>1, <1>2 DEF IdentitiesOK
  <2>4. <<>> \in Seq(VerdictEvent)
    OBVIOUS
  <2>5. journal' \in [SwbIds -> Seq(VerdictEvent)]
    BY <1>1, <1>2, <2>4 DEF IdentitiesOK
  <2> QED BY <2>2, <2>3, <2>5 DEF IdentitiesOK
<1>6. RowsOK'
  <2>1. ASSUME NEW x \in Present'
        PROVE  /\ runs'[x].at \in 0..(clock' - 1) /\ IsFiniteSet(runs'[x].findings)
               /\ \A i \in runs'[x].findings : identity'[i] # None
    <3>1. x \in Present /\ x \in RunIds /\ x # r /\ runs'[x] = runs[x] /\ runs[x] \in Run
      BY <1>1, <1>4 DEF Present
    <3>2. /\ runs[x].at \in 0..(clock - 1) /\ IsFiniteSet(runs[x].findings)
          /\ \A i \in runs[x].findings : identity[i] # None
      BY <3>1 DEF StoreInv, TypeInv, RowsOK
    <3>3. ASSUME NEW i \in runs[x].findings PROVE i \in SwbIds /\ i \notin Orphans(r)
      <4>1. x \in Others(i, r)
        BY <3>1 DEF Others
      <4>2. i \in SwbIds
        BY <3>1 DEF Run
      <4> QED BY <4>1, <4>2 DEF Orphans
    <3> QED BY <1>2, <3>1, <3>2, <3>3
  <2>2. ~project' => /\ Present' = {} /\ baseline' = None
                     /\ \A i \in SwbIds : identity'[i] = None
    BY <1>2, <1>4 DEF StoreInv, TypeInv, RowsOK
  <2>3. project' \in BOOLEAN /\ baseline' \in RunIds \cup {None} /\ clock' \in Nat
    BY <1>1, <1>2 DEF StoreInv, TypeInv, RowsOK
  <2> QED BY <1>4, <1>5, <2>1, <2>2, <2>3 DEF RowsOK
<1>7. runs'[target[d]] = None
  BY <1>1, <1>3
<1> HIDE DEF r
<1>8. OtherStep(d, "committed", target[d], baseRead[d], {}, None)
  BY <1>1, <1>4, <1>7, DeleteFacts DEF DeleteCommit, Goto, OtherStep, DeleteStates, Deleting, r
<1> QED BY <1>6, <1>8, DeleteFacts, OtherStepKeeps

\* The session of a project deletion.
LEMMA ProjectFacts ==
    ASSUME StoreInv, NEW z \in ProjectDeletes
    PROVE  /\ z \in Requests \ Uploads /\ z \notin Deletes
           /\ target = [target EXCEPT ![z] = None] /\ baseRead = [baseRead EXCEPT ![z] = None]
           /\ todo = [todo EXCEPT ![z] = todo[z]] /\ move = [move EXCEPT ![z] = None]
           /\ todo[z] \in SUBSET (SwbIds \cup RunIds) /\ todo[z] \subseteq RunIds
           /\ blob \in [RunIds -> Metas \cup {None}]
<1>1. z \in Requests \ Uploads /\ z \notin Deletes /\ z \notin Deletes \cup Baselines
  BY StoreAssumption DEF Requests
<1>2. /\ target \in [Deletes \cup Baselines -> RunIds \cup {None}]
      /\ baseRead \in [Deletes \cup Baselines -> RunIds \cup {None}]
      /\ todo \in [Deletes \cup ProjectDeletes -> SUBSET (SwbIds \cup RunIds)]
      /\ move \in [Deletes -> [id : SwbIds, run : RunIds] \cup {None}]
      /\ todo[z] \subseteq RunIds
      /\ blob \in [RunIds -> Metas \cup {None}]
  BY DEF StoreInv, TypeInv, SessionsOK
<1> QED BY <1>1, <1>2, ColumnKept

\* The deletion of a project lists the runs.
LEMMA ProjectListStep ==
    ASSUME StoreInv, NEW z \in ProjectDeletes, ProjectList(z) PROVE StoreInv'
<1>1. PICK state \in {"loaded", "refused"} : pc' = [pc EXCEPT ![z] = state]
  BY DEF ProjectList, Goto
<1>2. Present \subseteq RunIds /\ \A r \in Present : Stored(r)
  BY DEF StoreInv, RunsStored, Present
<1>3. OtherStep(z, state, None, None, Present, None)
  BY <1>1, <1>2, ProjectFacts, RowsUnchanged DEF ProjectList, OtherStep, DeleteStates, Ended
<1> QED BY <1>3, ProjectFacts, RowsUnchanged, OtherStepKeeps DEF ProjectList

\* The deletion of a project reads the guard for each of them.
LEMMA ProjectGuardStep ==
    ASSUME StoreInv, NEW z \in ProjectDeletes, ProjectGuard(z) PROVE StoreInv'
<1>1. PICK state \in {"guarded", "refused"} : pc' = [pc EXCEPT ![z] = state]
  BY DEF ProjectGuard, Goto
<1>2. \A r \in todo[z] : Stored(r)
  BY DEF ProjectGuard, StoreInv, DeletesHold
<1>3. OtherStep(z, state, None, None, todo[z], None)
  BY <1>1, <1>2, ProjectFacts, RowsUnchanged
     DEF ProjectGuard, deleteVars, OtherStep, DeleteStates, Ended
<1> QED BY <1>3, ProjectFacts, RowsUnchanged, OtherStepKeeps DEF ProjectGuard

\* The commit leaves no row at all.
LEMMA ProjectCommitStep ==
    ASSUME StoreInv, NEW z \in ProjectDeletes, ProjectCommit(z) PROVE StoreInv'
<1>1. /\ project' = FALSE /\ baseline' = None /\ clock' = clock
      /\ runs' = [r \in RunIds |-> None] /\ identity' = [i \in SwbIds |-> None]
      /\ lastSeen' = [i \in SwbIds |-> None] /\ journal' = [i \in SwbIds |-> <<>>]
  BY DEF ProjectCommit
<1>2. Present' = {} /\ IdentitiesOK' /\ clock' \in Nat
  <2>1. Present' = {}
    BY <1>1 DEF Present
  <2>2. IdentitiesOK'
    BY <1>1 DEF IdentitiesOK
  <2> QED BY <1>1, <2>1, <2>2 DEF StoreInv, TypeInv, RowsOK
<1>3. RowsOK'
  <2>1. runs' \in [RunIds -> Run \cup {None}] /\ \A i \in SwbIds : identity'[i] = None
    BY <1>1
  <2> QED BY <1>1, <1>2, <2>1 DEF RowsOK
<1>4. \A r \in todo[z] : Stored(r) /\ runs'[r] = None
  BY <1>1, ProjectFacts DEF ProjectCommit, StoreInv, DeletesHold
<1>5. \A r \in RunIds : runs'[r] = None
  BY <1>1
<1>6. OtherStep(z, "committed", None, None, todo[z], None)
  BY <1>4, <1>5, ProjectFacts DEF ProjectCommit, Goto, deleteVars, OtherStep, DeleteStates
<1> QED BY <1>3, <1>6, ProjectFacts, OtherStepKeeps

\* The deletion of a project removes the files after the commit.
LEMMA ProjectBlobsStep ==
    ASSUME StoreInv, NEW z \in ProjectDeletes, ProjectBlobs(z) PROVE StoreInv'
<1>1. \A r \in todo[z] : Stored(r) /\ runs[r] = None
  BY DEF ProjectBlobs, StoreInv, DeletesHold
<1>2. PICK removed \in SUBSET todo[z] :
        blob' = [r \in RunIds |-> IF r \in removed THEN None ELSE blob[r]]
  BY DEF ProjectBlobs
<1>3. /\ blob' \in [RunIds -> Metas \cup {None}]
      /\ \A r \in RunIds : blob'[r] = blob[r] \/ (Stored(r) /\ runs[r] = None)
  BY <1>1, <1>2, ProjectFacts
<1>4. OtherStep(z, "answered", None, None, todo[z], None)
  BY <1>3, ProjectFacts, RowsUnchanged
     DEF ProjectBlobs, Goto, deleteVars, OtherStep, DeleteStates, Ended
<1> QED BY <1>4, ProjectFacts, RowsUnchanged, OtherStepKeeps DEF ProjectBlobs

\* The session of a baseline request.
LEMMA BaselineFacts ==
    ASSUME StoreInv, NEW b \in Baselines
    PROVE  /\ b \in Requests \ Uploads /\ b \notin Deletes /\ b \notin ProjectDeletes
           /\ target = [target EXCEPT ![b] = target[b]]
           /\ baseRead = [baseRead EXCEPT ![b] = baseRead[b]]
           /\ todo = [todo EXCEPT ![b] = {}] /\ move = [move EXCEPT ![b] = None]
           /\ target[b] \in RunIds \cup {None} /\ baseRead[b] \in RunIds \cup {None}
           /\ baseline \in RunIds \cup {None}
           /\ blob \in [RunIds -> Metas \cup {None}]
<1>1. b \in Requests \ Uploads /\ b \notin Deletes /\ b \notin ProjectDeletes
  BY StoreAssumption DEF Requests
<1>2. /\ target \in [Deletes \cup Baselines -> RunIds \cup {None}]
      /\ baseRead \in [Deletes \cup Baselines -> RunIds \cup {None}]
      /\ todo \in [Deletes \cup ProjectDeletes -> SUBSET (SwbIds \cup RunIds)]
      /\ move \in [Deletes -> [id : SwbIds, run : RunIds] \cup {None}]
      /\ baseline \in RunIds \cup {None}
      /\ blob \in [RunIds -> Metas \cup {None}]
  BY DEF StoreInv, TypeInv, SessionsOK, RowsOK
<1>3. b \notin Deletes \cup ProjectDeletes
  BY <1>1
<1> QED BY <1>1, <1>2, <1>3, ColumnKept

\* A baseline is checked or stored.
LEMMA BaselineStep ==
    ASSUME StoreInv, NEW b \in Baselines, Baseline(b) PROVE StoreInv'
<1>1. CASE BaselineLoad(b)
  <2>1. PICK r \in RunIds \cup {None} : target' = [target EXCEPT ![b] = r]
    BY <1>1 DEF BaselineLoad
  <2>2. PICK state \in {"loaded", "refused"} : pc' = [pc EXCEPT ![b] = state]
    BY <1>1 DEF BaselineLoad, Goto
  <2>3. OtherStep(b, state, r, baseline, {}, None)
    BY <1>1, <2>1, <2>2, BaselineFacts, RowsUnchanged
       DEF BaselineLoad, OtherStep, DeleteStates, Ended
  <2> QED BY <1>1, <2>3, BaselineFacts, RowsUnchanged, OtherStepKeeps DEF BaselineLoad
<1>2. CASE BaselineCheck(b)
  <2>1. PICK state \in {"checked", "refused"} : pc' = [pc EXCEPT ![b] = state]
    BY <1>2 DEF BaselineCheck, Goto
  <2>2. OtherStep(b, state, target[b], baseRead[b], {}, None)
    BY <1>2, <2>1, BaselineFacts, RowsUnchanged
       DEF BaselineCheck, deleteVars, OtherStep, DeleteStates, Ended
  <2> QED BY <1>2, <2>2, BaselineFacts, RowsUnchanged, OtherStepKeeps DEF BaselineCheck
<1>3. CASE BaselineCommit(b)
  <2>1. PICK state \in {"answered", "failed"} :
          /\ pc' = [pc EXCEPT ![b] = state]
          /\ baseline' = baseline \/ (project /\ baseline' = target[b])
    BY <1>3 DEF BaselineCommit, Goto
  <2>2. /\ UNCHANGED <<project, runs, identity, lastSeen, journal, clock>>
        /\ UNCHANGED <<blob, writer, activeRuns>> /\ UNCHANGED uploadVars /\ UNCHANGED deleteVars
    BY <1>3 DEF BaselineCommit
  <2>3. RowsOK'
    BY <2>1, <2>2, BaselineFacts DEF StoreInv, TypeInv, RowsOK, IdentitiesOK, Present
  <2>4. OtherStep(b, state, target[b], baseRead[b], {}, None)
    BY <2>1, <2>2, BaselineFacts DEF deleteVars, OtherStep, DeleteStates, Ended
  <2> QED BY <2>3, <2>4, BaselineFacts, OtherStepKeeps
<1> QED BY <1>1, <1>2, <1>3 DEF Baseline

-----------------------------------------------------------------------------
(* Triage, restarts, and the invariant.                                    *)

\* A step that is of no request here: it removes no run and no file.
LEMMA OutsideStep ==
    ASSUME StoreInv, RowsOK', UNCHANGED <<blob, writer, pc>>, UNCHANGED uploadVars,
           UNCHANGED deleteVars, activeRuns' \subseteq RunIds,
           \A r \in RunIds : /\ runs'[r] # None <=> runs[r] # None
                             /\ runs'[r] # None => runs'[r].sarif = runs[r].sarif
    PROVE  StoreInv'
<1>1. SessionsOK'
  BY DEF StoreInv, TypeInv, SessionsOK, uploadVars, deleteVars
<1>2. /\ found' = found /\ sent' = sent /\ target' = target /\ todo' = todo
      /\ \A r : Stored(r)' <=> Stored(r)
      /\ \A z \in ProjectDeletes : todo[z] \subseteq RunIds
  BY DEF uploadVars, deleteVars, Stored, StoreInv, TypeInv, SessionsOK
<1>3. RunsStored'
  BY <1>2 DEF StoreInv, RunsStored, Present
<1>4. UploadsHold'
  BY <1>2, StillHolds DEF UploadsHold
<1>5. DeletesHold'
  <2>1. /\ \A d \in Deletes :
             /\ pc[d] \in Deleting => target[d] \in RunIds /\ Stored(target[d])
             /\ pc[d] = "committed" => pc[d] \in Deleting /\ runs[target[d]] = None
        /\ \A z \in ProjectDeletes :
             /\ pc[z] \in {"loaded", "guarded", "committed"} => \A r \in todo[z] : Stored(r)
             /\ pc[z] = "committed" => \A r \in todo[z] : runs[r] = None
    BY DEF StoreInv, DeletesHold, Deleting
  <2>2. /\ \A d \in Deletes : pc[d] = "committed" => runs'[target[d]] = None
        /\ \A z \in ProjectDeletes : pc[z] = "committed" => \A r \in todo[z] : runs'[r] = None
    BY <1>2, <2>1
  <2> QED BY <1>2, <2>1, <2>2 DEF DeletesHold, Stored
<1> QED BY <1>1, <1>3, <1>4, <1>5 DEF StoreInv, TypeInv

\* A decision changes no more than one verdict and the counters of one run.
LEMMA DecideRuns ==
    ASSUME StoreInv, Decide
    PROVE  /\ RowsOK'
           /\ \A x \in RunIds : /\ runs'[x] # None <=> runs[x] # None
                                /\ runs'[x] # None => runs'[x].sarif = runs[x].sarif
<1>0. PICK r \in Present : \E i \in runs[r].findings : \E v \in VerdictValues :
        /\ identity' = [identity EXCEPT
              ![i] = CasWrite(identity[i], identity[i], v, Editor, Editor, identity[i].version)]
        /\ journal' = [journal EXCEPT
              ![i] = Append(journal[i], EventOf(identity[i], v, "human", Editor))]
        /\ runs' = [runs EXCEPT ![r].tally = CountOf(identity', runs[r].findings)]
  BY DEF Decide
<1>1. PICK i \in runs[r].findings, v \in VerdictValues :
        /\ identity' = [identity EXCEPT
              ![i] = CasWrite(identity[i], identity[i], v, Editor, Editor, identity[i].version)]
        /\ journal' = [journal EXCEPT
              ![i] = Append(journal[i], EventOf(identity[i], v, "human", Editor))]
        /\ runs' = [runs EXCEPT ![r].tally = CountOf(identity', runs[r].findings)]
  BY <1>0
<1> DEFINE ids == runs[r].findings
           tally == CountOf(identity', ids)
<1>2. /\ r \in RunIds /\ runs[r] \in Run /\ ids \subseteq SwbIds /\ i \in SwbIds
      /\ identity[i] \in Snapshot /\ IsFiniteSet(ids)
      /\ runs \in [RunIds -> Run \cup {None}] /\ IdentitiesOK
  <2>1. r \in RunIds /\ runs[r] \in Run /\ IdentitiesOK /\ runs \in [RunIds -> Run \cup {None}]
    BY DEF StoreInv, TypeInv, RowsOK, Present
  <2>2. ids \subseteq SwbIds /\ i \in SwbIds
    BY <2>1 DEF Run
  <2>3. identity[i] # None /\ IsFiniteSet(ids)
    BY DEF StoreInv, TypeInv, RowsOK
  <2> QED BY <2>1, <2>2, <2>3 DEF IdentitiesOK
<1> DEFINE new == CasWrite(identity[i], identity[i], v, Editor, Editor, identity[i].version)
           event == EventOf(identity[i], v, "human", Editor)
<1>3. new \in Snapshot /\ new # None /\ event \in VerdictEvent
  <2>1. new \in Snapshot
    BY <1>2, DecidedRow
  <2>2. event \in VerdictEvent
    BY <1>2, EventType DEF Sources
  <2> QED BY <2>1, <2>2, RowsAssumption
<1>4. /\ identity' = [identity EXCEPT ![i] = new]
      /\ journal' = [journal EXCEPT ![i] = Append(journal[i], event)]
      /\ lastSeen' = lastSeen
  BY <1>1 DEF Decide
<1> HIDE DEF new, event
<1>5. IdentitiesOK' /\ \A x \in SwbIds : identity[x] # None => identity'[x] # None
  <2>1. journal[i] \in Seq(VerdictEvent)
    BY <1>2 DEF IdentitiesOK
  <2>2. \A e \in VerdictEvent : Append(journal[i], e) \in Seq(VerdictEvent)
    BY <2>1
  <2>3. Append(journal[i], event) \in Seq(VerdictEvent)
    BY <1>3, <2>2
  <2>4. journal' \in [SwbIds -> Seq(VerdictEvent)]
    BY <1>2, <1>4, <2>3 DEF IdentitiesOK
  <2>5. /\ identity' \in [SwbIds -> Snapshot \cup {None}]
        /\ \A x \in SwbIds : identity[x] # None => identity'[x] # None
    BY <1>2, <1>3, <1>4 DEF IdentitiesOK
  <2> QED BY <1>2, <1>4, <2>4, <2>5 DEF IdentitiesOK
<1>6. tally \in [VerdictValues -> Nat]
  BY <1>2, CountOfType
<1> DEFINE row == Updated(runs[r], ids, tally)
<1>7. /\ row \in Run /\ row # None
      /\ row.sarif = runs[r].sarif /\ row.findings = ids /\ row.at = runs[r].at
  <2> HIDE DEF tally, ids
  <2>1. /\ row \in Run
        /\ row.sarif = runs[r].sarif /\ row.findings = ids /\ row.at = runs[r].at
    BY <1>2, <1>6, RunUpdated
  <2> HIDE DEF row
  <2> QED BY <2>1, RowsAssumption
<1>8. \A x \in RunIds : runs'[x] = IF x = r THEN row ELSE runs[x]
  <2>1. [runs[r] EXCEPT !.tally = tally] = row
    <3>1. runs[r] = [runs[r] EXCEPT !.findings = ids]
      BY <1>2 DEF Run
    <3> QED BY <1>2, <3>1 DEF Updated, Run
  <2>2. runs' = [runs EXCEPT ![r] = [runs[r] EXCEPT !.tally = tally]]
    BY <1>1
  <2> HIDE DEF row, tally, ids
  <2> QED BY <1>2, <2>1, <2>2
<1> HIDE DEF row, tally, ids
<1>9. Present' = Present /\ runs' \in [RunIds -> Run \cup {None}]
  <2>1. Present' = Present
    BY <1>2, <1>7, <1>8 DEF Present
  <2>2. runs' = [x \in RunIds |-> runs'[x]]
    BY <1>1, <1>2
  <2> QED BY <1>2, <1>7, <1>8, <2>1, <2>2
<1>10. RowsOK'
  <2>1. ASSUME NEW x \in Present'
        PROVE  /\ runs'[x].at \in 0..(clock - 1) /\ IsFiniteSet(runs'[x].findings)
               /\ \A y \in runs'[x].findings : identity'[y] # None
    <3>1. /\ x \in RunIds /\ runs[x].at \in 0..(clock - 1) /\ IsFiniteSet(runs[x].findings)
          /\ \A y \in runs[x].findings : y \in SwbIds /\ identity[y] # None
      BY <1>2, <1>9 DEF StoreInv, TypeInv, RowsOK, Present, Run
    <3>2. runs'[x].at = runs[x].at /\ runs'[x].findings = runs[x].findings
      BY <1>7, <1>8, <3>1 DEF ids
    <3> QED BY <1>5, <3>1, <3>2
  <2>2. project' = project /\ baseline' = baseline /\ clock' = clock
    BY DEF Decide
  <2>3. project
    BY DEF StoreInv, TypeInv, RowsOK
  <2> QED BY <1>5, <1>9, <2>1, <2>2, <2>3 DEF StoreInv, TypeInv, RowsOK
<1>11. \A x \in RunIds : /\ runs'[x] # None <=> runs[x] # None
                         /\ runs'[x] # None => runs'[x].sarif = runs[x].sarif
  BY <1>2, <1>7, <1>8, RowsAssumption
<1> QED BY <1>10, <1>11

\* A decision changes one row and the counters of the run it was opened in.
LEMMA DecideStep ==
    ASSUME StoreInv, Decide PROVE StoreInv'
<1>1. activeRuns' \subseteq RunIds
  BY DEF Decide, StoreInv, TypeInv, SessionsOK
<1> QED BY <1>1, DecideRuns, OutsideStep DEF Decide

\* An analysis enters or leaves the guard.
LEMMA AnalysisStep ==
    ASSUME StoreInv, AnalysisBegins \/ AnalysisEnds PROVE StoreInv'
<1>1. activeRuns' \subseteq RunIds
  BY DEF AnalysisBegins, AnalysisEnds, StoreInv, TypeInv, SessionsOK, Present
<1>2. /\ UNCHANGED rowVars /\ UNCHANGED <<blob, writer, pc>> /\ UNCHANGED uploadVars
      /\ UNCHANGED deleteVars /\ runs' = runs
  BY DEF AnalysisBegins, AnalysisEnds, rowVars
<1> QED BY <1>1, <1>2, RowsUnchanged, OutsideStep

\* A restart forgets what requests were doing, never what was answered.
LEMMA CrashStep ==
    ASSUME StoreInv, Crash PROVE StoreInv'
<1>1. /\ UNCHANGED rowVars /\ UNCHANGED uploadVars /\ UNCHANGED deleteVars
      /\ blob' = blob /\ writer' = None /\ activeRuns' = {}
      /\ pc' = [w \in Requests |-> IF pc[w] \in Ended \cup {"idle"} THEN pc[w] ELSE "lost"]
      /\ runs' = runs /\ found' = found /\ sent' = sent /\ target' = target /\ todo' = todo
      /\ move' = move
  BY DEF Crash, rowVars, uploadVars, deleteVars
<1>2. /\ pc \in [Requests -> UploadStates \cup DeleteStates]
      /\ "lost" \in UploadStates /\ Uploads \subseteq Requests /\ Deletes \subseteq Requests
      /\ ProjectDeletes \subseteq Requests /\ RunIds = Uploads
  BY DEF StoreInv, TypeInv, SessionsOK, UploadStates, Ended, Requests, RunIds
<1>3. \A w \in Requests : \/ pc'[w] = pc[w] /\ pc[w] \in Ended \cup {"idle"}
                          \/ pc'[w] = "lost" /\ pc[w] \notin Ended \cup {"idle"}
  BY <1>1
<1>4. \A x \in RunIds : Stored(x) => Stored(x)'
  BY <1>1, <1>2, <1>3 DEF Stored, Ended
<1>5. RowsOK'
  BY <1>1, RowsKept DEF StoreInv, TypeInv
<1>6. SessionsOK'
  <2>1. pc' \in [Requests -> UploadStates \cup DeleteStates]
    BY <1>1, <1>2
  <2>2. \A u \in Uploads : sent'[u] = None => pc'[u] = "idle"
    BY <1>1, <1>2, <1>3 DEF StoreInv, TypeInv, SessionsOK
  <2>3. \A d \in Deletes : pc'[d] # "flush"
    BY <1>2, <1>3 DEF Ended
  <2> QED BY <1>1, <2>1, <2>2, <2>3 DEF StoreInv, TypeInv, SessionsOK, uploadVars, deleteVars
<1>7. RunsStored'
  BY <1>1, <1>4 DEF StoreInv, RunsStored, Present
<1>8. UploadsHold'
  <2> SUFFICES ASSUME NEW u \in Uploads PROVE UploadHolds(u)'
    BY DEF UploadsHold
  <2>1. pc'[u] = pc[u] \/ pc'[u] = "lost"
    BY <1>2, <1>3
  <2>2. CASE pc'[u] = pc[u]
    BY <1>1, <1>4, <2>2, StillHolds
  <2>3. CASE pc'[u] = "lost"
    BY <2>3 DEF UploadHolds, Holding
  <2> QED BY <2>1, <2>2, <2>3
<1>9. DeletesHold'
  BY <1>2, <1>3 DEF DeletesHold, Deleting, Ended
<1> QED BY <1>5, <1>6, <1>7, <1>8, <1>9 DEF StoreInv, TypeInv

\* Every step keeps the invariant.
LEMMA StoreInvInductive == StoreInv /\ [Next]_vars => StoreInv'
<1> SUFFICES ASSUME StoreInv, [Next]_vars PROVE StoreInv'
  OBVIOUS
<1>1. CASE \E u \in Uploads : Upload(u)
  BY <1>1, UploadArriveStep, UploadCreateStep, UploadLookupStep, UploadRejectStep,
     UploadBlobsStep, UploadCommitStep, UploadRacedStep, UploadRefindStep,
     UploadCompareStep, UploadReplaceStep, UploadReingestStep, UploadGoneStep DEF Upload
<1>2. CASE \E d \in Deletes : Delete(d)
  BY <1>2, DeleteLoadStep, DeleteGuardStep, DeleteScanStep, DeleteMoveStep,
     DeleteCommitStep, DeleteFailStep, DeleteBlobsStep DEF Delete
<1>3. CASE \E z \in ProjectDeletes : ProjectDelete(z)
  BY <1>3, ProjectListStep, ProjectGuardStep, ProjectCommitStep, ProjectBlobsStep
     DEF ProjectDelete
<1>4. CASE \E b \in Baselines : Baseline(b)
  BY <1>4, BaselineStep
<1>5. CASE Decide
  BY <1>5, DecideStep
<1>6. CASE AnalysisBegins \/ AnalysisEnds
  BY <1>6, AnalysisStep
<1>7. CASE Crash
  BY <1>7, CrashStep
<1>8. CASE UNCHANGED vars
  <2>1. /\ UNCHANGED rowVars /\ UNCHANGED <<blob, writer, pc>> /\ UNCHANGED uploadVars
        /\ UNCHANGED deleteVars /\ runs' = runs /\ activeRuns' = activeRuns
    BY <1>8 DEF vars, rowVars
  <2>2. activeRuns' \subseteq RunIds
    BY <2>1 DEF StoreInv, TypeInv, SessionsOK
  <2> QED BY <2>1, <2>2, RowsUnchanged, OutsideStep
<1> QED BY <1>1, <1>2, <1>3, <1>4, <1>5, <1>6, <1>7, <1>8 DEF Next, Quiescent

\* The strengthening: what every request holds, in every reachable state.
THEOREM StoreInvariant == Spec => []StoreInv
BY InitStoreInv, StoreInvInductive, PTL DEF Spec

-----------------------------------------------------------------------------
(* The properties.                                                         *)

\* Rows, blobs and sessions keep their types, whatever is uploaded and deleted.
THEOREM TypeCorrect == Spec => []TypeOK
<1>1. StoreInv => TypeOK
  BY TypeInvImpliesTypeOK DEF StoreInv
<1> QED BY <1>1, StoreInvariant, PTL

\* Every row of runs has its files, in spite of crashes and of deletions that
\* run while a meta is replaced.
THEOREM RowsKeepFiles == Spec => []RowsHaveBlobs
<1>1. StoreInv => RowsHaveBlobs
  BY DEF StoreInv, RunsStored, RowsHaveBlobs
<1> QED BY <1>1, StoreInvariant, PTL

\* Uploads of one report are answered with one run, from any number of server
\* processes: the run is the one the unique constraint lets stand.
THEOREM AnswersNeverDiffer == Spec => []AnswersAgree
<1>1. StoreInv => AnswersAgree
  <2> SUFFICES ASSUME StoreInv, NEW u \in Uploads, NEW v \in Uploads,
                      pc[u] = "answered", pc[v] = "answered",
                      SarifOf[sent[u]] = SarifOf[sent[v]],
                      found[u] \in Present, found[v] \in Present
               PROVE  found[u] = found[v]
    BY DEF AnswersAgree
  <2>1. ASSUME NEW w \in Uploads, pc[w] = "answered", found[w] \in Present
        PROVE  runs[found[w]].sarif = SarifOf[sent[w]]
    BY <2>1 DEF StoreInv, UploadsHold, UploadHolds, Holding, Present
  <2> QED BY <2>1 DEF StoreInv, RunsStored
<1> QED BY <1>1, StoreInvariant, PTL

\* Only steps of its own answer an upload.
LEMMA OthersAnswerNothing ==
    ASSUME StoreInv, [Next]_vars, ~ \E v \in Uploads : Upload(v)
    PROVE  \A u \in Uploads : ~Answered(u)
<1>1. /\ pc \in [Requests -> UploadStates \cup DeleteStates] /\ Uploads \subseteq Requests
      /\ \A w \in Deletes \cup ProjectDeletes \cup Baselines : w \in Requests /\ w \notin Uploads
  BY StoreAssumption DEF StoreInv, TypeInv, SessionsOK, Requests
<1>2. \A w, state : w \in Requests \ Uploads /\ Goto(w, state) =>
          \A u \in Uploads : pc'[u] = pc[u]
  BY <1>1 DEF Goto
<1>3. CASE \E d \in Deletes : Delete(d)
  <2>1. PICK d \in Deletes : Delete(d)
    BY <1>3
  <2>2. pc' = pc \/ \E state : Goto(d, state)
    BY <2>1 DEF Delete, DeleteLoad, DeleteGuard, DeleteScan, DeleteMove, DeleteCommit,
                DeleteFail, DeleteBlobs
  <2> QED BY <1>1, <1>2, <2>2 DEF Answered
<1>4. CASE \E z \in ProjectDeletes : ProjectDelete(z)
  <2>1. PICK z \in ProjectDeletes : ProjectDelete(z)
    BY <1>4
  <2>2. \E state : Goto(z, state)
    BY <2>1 DEF ProjectDelete, ProjectList, ProjectGuard, ProjectCommit, ProjectBlobs
  <2> QED BY <1>1, <1>2, <2>2 DEF Answered
<1>5. CASE \E b \in Baselines : Baseline(b)
  <2>1. PICK b \in Baselines : Baseline(b)
    BY <1>5
  <2>2. \E state : Goto(b, state)
    BY <2>1 DEF Baseline, BaselineLoad, BaselineCheck, BaselineCommit
  <2> QED BY <1>1, <1>2, <2>2 DEF Answered
<1>6. CASE Decide \/ AnalysisBegins \/ AnalysisEnds \/ UNCHANGED vars
  BY <1>6 DEF Decide, AnalysisBegins, AnalysisEnds, vars, Answered
<1>7. CASE Crash
  BY <1>1, <1>7 DEF Crash, Answered
<1> QED BY <1>3, <1>4, <1>5, <1>6, <1>7 DEF Next, Quiescent

\* What the two steps of an upload that write findings give CreateFindings.
LEMMA FindingsFor ==
    ASSUME StoreInv, NEW u \in Uploads, pc[u] \in {"stored", "replaced"}
    PROVE  /\ IdentitiesOK /\ u \in RunIds /\ Reported[sent[u]] \in SUBSET SwbIds
           /\ pc[u] = "replaced" => found[u] \in RunIds
BY UploadFacts, FilesAssumption DEF StoreInv, TypeInv, RowsOK, UploadsHold, UploadHolds, Holding

\* An upload, of a new report or a known one, changes no decision: the write that
\* carries a verdict to the new run keeps verdict, source, rationale and author.
THEOREM UploadsKeepDecisions == Spec => CarryKeepsDecision
<1> DEFINE Kept == \A u \in Uploads : Answered(u) =>
                      \A i \in SwbIds : identity[i] # None => KeepsDecision(identity[i], identity'[i])
<1>1. ASSUME StoreInv, [Next]_vars PROVE Kept
  <2>1. CASE ~ \E v \in Uploads : Upload(v)
    BY <1>1, <2>1, OthersAnswerNothing
  <2>2. CASE \E v \in Uploads : Upload(v)
    <3>1. PICK v \in Uploads : Upload(v)
      BY <2>2
    <3>2. CASE UploadCommit(v)
      BY <1>1, <3>2, FindingsFor, CreateFindingsType DEF UploadCommit, Ready
    <3>3. CASE UploadReingest(v)
      BY <1>1, <3>3, FindingsFor, CreateFindingsType DEF UploadReingest
    <3>4. CASE ~UploadCommit(v) /\ ~UploadReingest(v)
      <4>1. identity' = identity
        BY <3>1, <3>4 DEF Upload, UploadArrive, UploadCreate, UploadLookup, UploadReject,
             UploadBlobs, UploadRaced, UploadRefind, UploadCompare, UploadReplace, UploadGone,
             rowVars
      <4> QED BY <4>1 DEF KeepsDecision
    <3> QED BY <3>2, <3>3, <3>4
  <2> QED BY <2>1, <2>2
<1>2. StoreInv /\ [Next]_vars => [Kept]_vars
  BY <1>1
<1>3. Spec => [][Kept]_vars
  BY <1>2, StoreInvariant, PTL DEF Spec
<1> QED BY <1>3 DEF CarryKeepsDecision, KeepsDecision

\* A step other than the two commits of a deletion removes no run.
LEMMA RunsStay ==
    ASSUME StoreInv, [Next]_vars,
           ~ \E d \in Deletes : DeleteCommit(d), ~ \E z \in ProjectDeletes : ProjectCommit(z)
    PROVE  \A r \in RunIds : runs[r] # None => runs'[r] # None
<1>1. runs \in [RunIds -> Run \cup {None}]
  BY DEF StoreInv, TypeInv, RowsOK
<1>2. CASE \E u \in Uploads : Upload(u)
  <2>1. PICK u \in Uploads : Upload(u)
    BY <1>2
  <2>2. CASE UploadCommit(u)
    <3>1. u \notin Present
      BY <2>2 DEF UploadCommit, Ready, StoreInv, RunsStored, Stored
    <3>2. \A r \in RunIds : r # u => runs'[r] = runs[r]
      BY <1>1, <2>2 DEF UploadCommit
    <3> QED BY <3>1, <3>2 DEF Present
  <2>3. CASE UploadReingest(u)
    <3>1. PICK row \in Run : runs' = [runs EXCEPT ![found[u]] = row]
      BY <2>3, ReingestedRun
    <3> QED BY <1>1, <3>1, RowsAssumption
  <2>4. CASE ~UploadCommit(u) /\ ~UploadReingest(u)
    BY <2>1, <2>4 DEF Upload, UploadArrive, UploadCreate, UploadLookup, UploadReject,
       UploadBlobs, UploadRaced, UploadRefind, UploadCompare, UploadReplace, UploadGone, rowVars
  <2> QED BY <2>2, <2>3, <2>4
<1>3. CASE \E d \in Deletes : Delete(d)
  BY <1>3 DEF Delete, DeleteLoad, DeleteGuard, DeleteScan, DeleteMove, DeleteFail,
     DeleteBlobs, rowVars
<1>4. CASE \E z \in ProjectDeletes : ProjectDelete(z)
  BY <1>4 DEF ProjectDelete, ProjectList, ProjectGuard, ProjectBlobs, rowVars
<1>5. CASE \E b \in Baselines : Baseline(b)
  BY <1>5 DEF Baseline, BaselineLoad, BaselineCheck, BaselineCommit, rowVars
<1>6. CASE Decide
  BY <1>6, DecideRuns
<1>7. CASE AnalysisBegins \/ AnalysisEnds \/ Crash \/ UNCHANGED vars
  BY <1>7 DEF AnalysisBegins, AnalysisEnds, Crash, vars, rowVars
<1> QED BY <1>2, <1>3, <1>4, <1>5, <1>6, <1>7 DEF Next, Quiescent

\* A deletion spares the verdict and the history of what a remaining run reports:
\* such an identity has another run, and orphans are looked for in the same
\* transaction that removes the run.  Of the others, those a run no longer reports
\* since it was enriched again included, nothing is left.
THEOREM DeletionsSpareDecisions == Spec => DecisionSurvives
<1> DEFINE Remains(i) == \E r \in RunIds : runs'[r] # None /\ i \in runs'[r].findings
           Spares(i) == /\ identity[i] # None
                        /\ identity'[i] = identity[i] /\ journal'[i] = journal[i]
           Clears(i) == identity'[i] = None /\ journal'[i] = <<>> /\ lastSeen'[i] = None
           Spared == (\E r \in RunIds : runs[r] # None /\ runs'[r] = None) =>
                        \A i \in SwbIds : IF Remains(i) THEN Spares(i) ELSE Clears(i)
<1>1. ASSUME StoreInv, [Next]_vars PROVE Spared
  <2>1. CASE \E d \in Deletes : DeleteCommit(d)
    <3>1. PICK d \in Deletes : DeleteCommit(d)
      BY <2>1
    <3>2. runs \in [RunIds -> Run \cup {None}] /\ target[d] \in RunIds
      BY <1>1, <3>1, DeleteFacts DEF DeleteCommit, Deleting
    <3>3. \A x \in RunIds : runs'[x] = IF x = target[d] THEN None ELSE runs[x]
      BY <3>1, <3>2 DEF DeleteCommit
    <3>4. ASSUME NEW i \in SwbIds
          PROVE  Remains(i) <=> i \notin Orphans(target[d])
      <4>1. Others(i, target[d]) = {x \in RunIds : runs'[x] # None /\ i \in runs'[x].findings}
        BY <3>3 DEF Others, Present
      <4> QED BY <4>1 DEF Orphans
    <3>5. ASSUME NEW i \in SwbIds, Remains(i) PROVE Spares(i)
      <4>1. i \notin Orphans(target[d])
        BY <3>4, <3>5
      <4>2. PICK x \in RunIds : runs'[x] # None /\ i \in runs'[x].findings
        BY <3>5
      <4>3. x \in Present /\ i \in runs[x].findings
        BY <3>3, <4>2 DEF Present
      <4>4. identity[i] # None
        BY <1>1, <4>3 DEF StoreInv, TypeInv, RowsOK
      <4> QED BY <3>1, <4>1, <4>4 DEF DeleteCommit
    <3>6. ASSUME NEW i \in SwbIds, ~Remains(i) PROVE Clears(i)
      <4>1. i \in Orphans(target[d])
        BY <3>4, <3>6
      <4> QED BY <3>1, <4>1 DEF DeleteCommit
    <3> HIDE DEF Remains, Spares, Clears
    <3> QED BY <3>5, <3>6
  <2>2. CASE \E z \in ProjectDeletes : ProjectCommit(z)
    BY <2>2 DEF ProjectCommit
  <2>3. CASE /\ ~ \E d \in Deletes : DeleteCommit(d)
             /\ ~ \E z \in ProjectDeletes : ProjectCommit(z)
    BY <1>1, <2>3, RunsStay
  <2> QED BY <2>1, <2>2, <2>3
<1>2. StoreInv /\ [Next]_vars => [Spared]_vars
  BY <1>1
<1>3. Spec => [][Spared]_vars
  BY <1>2, StoreInvariant, PTL DEF Spec
<1> QED BY <1>3 DEF DecisionSurvives

-----------------------------------------------------------------------------
(* The audit log of the store.                                             *)

\* The four things a step may do to an identity and its events.
RowInserted(i) ==
    identity[i] = None /\ identity'[i] = FreshIdentity /\ journal'[i] = journal[i]
RowWritten(i) ==
    /\ identity[i] # None /\ identity'[i] # None
    /\ identity'[i].version = identity[i].version + 1
    /\ \E e \in VerdictEvent :
          /\ e.old = identity[i].verdict /\ e.new = identity'[i].verdict
          /\ journal'[i] = Append(journal[i], e)
RowGone(i) == identity'[i] = None /\ journal'[i] = <<>>
RowKept(i) == identity'[i] = identity[i] /\ journal'[i] = journal[i]
RowStep(i) == RowInserted(i) \/ RowWritten(i) \/ RowGone(i) \/ RowKept(i)

\* A row has one version more than events, and no events are left without it.
HistoryExact ==
    \A i \in SwbIds :
        IF identity[i] = None THEN journal[i] = <<>>
        ELSE identity[i].version = 1 + Len(journal[i])

\* A carried verdict raises the version by one and says the same verdict.
LEMMA CarriedVersion ==
    ASSUME NEW row \in Snapshot, NEW r \in RunIds
    PROVE  LET new == SystemWrite(row, row, row.verdict, "carried", row.rationale, r) IN
             new.version = row.version + 1 /\ new.verdict = row.verdict
BY DEF SystemWrite, Flush, Column, Assigned, Snapshot

\* A decision raises the version by one and says its verdict.
LEMMA DecidedVersion ==
    ASSUME NEW row \in Snapshot, NEW v \in VerdictValues
    PROVE  LET new == CasWrite(row, row, v, Editor, Editor, row.version) IN
             new.version = row.version + 1 /\ new.verdict = v
BY DEF CasWrite, Flush, Column, Assigned, Snapshot

\* The findings of an upload insert rows, carry verdicts and touch nothing else.
LEMMA FindingsRowStep ==
    ASSUME IdentitiesOK, NEW r \in RunIds, NEW ids \in SUBSET SwbIds, CreateFindings(r, ids),
           NEW i \in SwbIds
    PROVE  RowStep(i)
<1> DEFINE written == SystemWrite(identity[i], identity[i], identity[i].verdict, "carried",
                                  identity[i].rationale, r)
           event == EventOf(identity[i], identity[i].verdict, "carried", r)
<1>1. /\ identity'[i] = IF i \in ids /\ identity[i] = None THEN FreshIdentity
                        ELSE IF i \in ids /\ Carried(i, r) THEN written
                        ELSE identity[i]
      /\ journal'[i] = IF i \in ids /\ Carried(i, r) THEN Append(journal[i], event)
                       ELSE journal[i]
      /\ Carried(i, r) => identity[i] # None
  BY DEF CreateFindings, Carried
<1>2. CASE i \in ids /\ Carried(i, r)
  <2>1. identity[i] # None /\ identity[i] \in Snapshot
    BY <1>1, <1>2 DEF IdentitiesOK
  <2>2. written.version = identity[i].version + 1 /\ written.verdict = identity[i].verdict
    BY <2>1, CarriedVersion
  <2>3. written # None
    <3>1. written \in Snapshot
      BY <2>1, CarriedRow
    <3> HIDE DEF written
    <3> QED BY <3>1, RowsAssumption
  <2>4. /\ event \in VerdictEvent
        /\ event.old = identity[i].verdict /\ event.new = identity[i].verdict
    <3>1. identity[i].verdict \in VerdictValues /\ "carried" \in Sources
          /\ r \in Uploads \cup {Editor}
      BY <2>1 DEF Snapshot, Sources, RunIds
    <3>2. event \in VerdictEvent
      BY <2>1, <3>1, EventType
    <3> QED BY <3>2 DEF EventOf
  <2>5. identity'[i] = written /\ journal'[i] = Append(journal[i], event)
    BY <1>1, <1>2
  <2> HIDE DEF written, event
  <2>6. RowWritten(i)
    BY <2>1, <2>2, <2>3, <2>4, <2>5 DEF RowWritten
  <2> QED BY <2>6 DEF RowStep
<1>3. CASE ~(i \in ids /\ Carried(i, r))
  <2> HIDE DEF written, event
  <2>1. RowInserted(i) \/ RowKept(i)
    BY <1>1, <1>3 DEF RowInserted, RowKept
  <2> QED BY <2>1 DEF RowStep
<1> QED BY <1>2, <1>3

\* A decision writes one row.
LEMMA DecideRowStep ==
    ASSUME StoreInv, Decide, NEW i \in SwbIds
    PROVE  RowStep(i)
<1>1. PICK r \in Present : \E x \in runs[r].findings : \E v \in VerdictValues :
        /\ identity' = [identity EXCEPT
              ![x] = CasWrite(identity[x], identity[x], v, Editor, Editor, identity[x].version)]
        /\ journal' = [journal EXCEPT
              ![x] = Append(journal[x], EventOf(identity[x], v, "human", Editor))]
  BY DEF Decide
<1>2. PICK x \in runs[r].findings, v \in VerdictValues :
        /\ identity' = [identity EXCEPT
              ![x] = CasWrite(identity[x], identity[x], v, Editor, Editor, identity[x].version)]
        /\ journal' = [journal EXCEPT
              ![x] = Append(journal[x], EventOf(identity[x], v, "human", Editor))]
  BY <1>1
<1> DEFINE new == CasWrite(identity[x], identity[x], v, Editor, Editor, identity[x].version)
           event == EventOf(identity[x], v, "human", Editor)
<1>3. IdentitiesOK /\ identity[x] # None
  BY DEF StoreInv, TypeInv, RowsOK
<1>4. CASE i = x
  <2>1. identity[x] \in Snapshot
    BY <1>3, <1>4 DEF IdentitiesOK
  <2>2. new \in Snapshot /\ new.version = identity[x].version + 1 /\ new.verdict = v
    BY <2>1, DecidedRow, DecidedVersion
  <2>3. event \in VerdictEvent /\ event.old = identity[x].verdict /\ event.new = v
    <3>1. "human" \in Sources /\ Editor \in Uploads \cup {Editor}
      BY DEF Sources
    <3>2. event \in VerdictEvent
      BY <2>1, <3>1, EventType
    <3> QED BY <3>2 DEF EventOf
  <2>4. identity' = [identity EXCEPT ![x] = new]
        /\ journal' = [journal EXCEPT ![x] = Append(journal[x], event)]
    BY <1>2
  <2> HIDE DEF new, event
  <2>5. identity'[x] = new /\ journal'[x] = Append(journal[x], event) /\ new # None
    BY <1>3, <1>4, <2>2, <2>4, RowsAssumption DEF IdentitiesOK
  <2>6. RowWritten(i)
    BY <1>3, <1>4, <2>2, <2>3, <2>5 DEF RowWritten
  <2> QED BY <2>6 DEF RowStep
<1>5. CASE i # x
  <2> HIDE DEF new, event
  <2>1. RowKept(i)
    BY <1>2, <1>3, <1>5 DEF RowKept, IdentitiesOK
  <2> QED BY <2>1 DEF RowStep
<1> QED BY <1>4, <1>5

\* Every step of the store does one of the four things to each identity.
LEMMA EveryRowStep ==
    ASSUME StoreInv, [Next]_vars, NEW i \in SwbIds
    PROVE  RowStep(i)
<1>1. UNCHANGED <<identity, journal>> => RowStep(i)
  BY DEF RowStep, RowKept
<1>2. CASE \E u \in Uploads : Upload(u)
  <2>1. PICK u \in Uploads : Upload(u)
    BY <1>2
  <2>2. CASE UploadCommit(u)
    BY <2>2, FindingsFor, FindingsRowStep DEF UploadCommit, Ready
  <2>3. CASE UploadReingest(u)
    BY <2>3, FindingsFor, FindingsRowStep DEF UploadReingest
  <2>4. CASE ~UploadCommit(u) /\ ~UploadReingest(u)
    BY <1>1, <2>1, <2>4 DEF Upload, UploadArrive, UploadCreate, UploadLookup, UploadReject,
       UploadBlobs, UploadRaced, UploadRefind, UploadCompare, UploadReplace, UploadGone, rowVars
  <2> QED BY <2>2, <2>3, <2>4
<1>3. CASE \E d \in Deletes : Delete(d)
  <2>1. PICK d \in Deletes : Delete(d)
    BY <1>3
  <2>2. CASE DeleteCommit(d)
    BY <2>2 DEF DeleteCommit, RowStep, RowGone, RowKept
  <2>3. CASE ~DeleteCommit(d)
    BY <1>1, <2>1, <2>3 DEF Delete, DeleteLoad, DeleteGuard, DeleteScan, DeleteMove, DeleteFail,
       DeleteBlobs, rowVars
  <2> QED BY <2>2, <2>3
<1>4. CASE \E z \in ProjectDeletes : ProjectDelete(z)
  <2>1. PICK z \in ProjectDeletes : ProjectDelete(z)
    BY <1>4
  <2>2. CASE ProjectCommit(z)
    BY <2>2 DEF ProjectCommit, RowStep, RowGone
  <2>3. CASE ~ProjectCommit(z)
    BY <1>1, <2>1, <2>3 DEF ProjectDelete, ProjectList, ProjectGuard, ProjectBlobs, rowVars
  <2> QED BY <2>2, <2>3
<1>5. CASE \E b \in Baselines : Baseline(b)
  BY <1>1, <1>5 DEF Baseline, BaselineLoad, BaselineCheck, BaselineCommit, rowVars
<1>6. CASE Decide
  BY <1>6, DecideRowStep
<1>7. CASE AnalysisBegins \/ AnalysisEnds \/ Crash \/ UNCHANGED vars
  BY <1>1, <1>7 DEF AnalysisBegins, AnalysisEnds, Crash, vars, rowVars
<1> QED BY <1>2, <1>3, <1>4, <1>5, <1>6, <1>7 DEF Next, Quiescent

\* Whichever it is, the history stays exact.
LEMMA RowStepExact ==
    ASSUME IdentitiesOK, HistoryExact, NEW i \in SwbIds, RowStep(i)
    PROVE  IF identity'[i] = None THEN journal'[i] = <<>>
           ELSE identity'[i].version = 1 + Len(journal'[i])
<1>1. journal[i] \in Seq(VerdictEvent) /\ identity[i] \in Snapshot \cup {None}
  BY DEF IdentitiesOK
<1>2. IF identity[i] = None THEN journal[i] = <<>>
      ELSE identity[i].version = 1 + Len(journal[i])
  BY DEF HistoryExact
<1>3. CASE RowInserted(i)
  <2>1. journal'[i] = <<>> /\ identity'[i] = FreshIdentity
    BY <1>2, <1>3 DEF RowInserted
  <2> QED BY <2>1 DEF FreshIdentity
<1>4. CASE RowWritten(i)
  <2>1. PICK e \in VerdictEvent : journal'[i] = Append(journal[i], e)
    BY <1>4 DEF RowWritten
  <2>2. Len(journal'[i]) = Len(journal[i]) + 1 /\ Len(journal[i]) \in Nat
    BY <1>1, <2>1
  <2>3. /\ identity[i] # None /\ identity'[i] # None
        /\ identity'[i].version = identity[i].version + 1
    BY <1>4 DEF RowWritten
  <2> QED BY <1>2, <2>2, <2>3
<1>5. CASE RowGone(i)
  BY <1>5 DEF RowGone
<1>6. CASE RowKept(i)
  BY <1>2, <1>6 DEF RowKept
<1> QED BY <1>3, <1>4, <1>5, <1>6 DEF RowStep

\* The version of a row counts its writes exactly, across all the runs of a
\* project, and nothing is left of the history of a row that is gone.
THEOREM HistoriesAreExact == Spec => []HistoryExact
<1>1. Init => HistoryExact
  BY DEF Init, HistoryExact
<1>2. StoreInv /\ HistoryExact /\ [Next]_vars => HistoryExact'
  <2> SUFFICES ASSUME StoreInv, HistoryExact, [Next]_vars, NEW i \in SwbIds
               PROVE  IF identity'[i] = None THEN journal'[i] = <<>>
                      ELSE identity'[i].version = 1 + Len(journal'[i])
    BY DEF HistoryExact
  <2>1. IdentitiesOK
    BY DEF StoreInv, TypeInv, RowsOK
  <2> QED BY <2>1, EveryRowStep, RowStepExact
<1> QED BY <1>1, <1>2, StoreInvariant, PTL DEF Spec

\* After a step the log shows a well-typed table.
LEMMA LogTypes ==
    ASSUME IdentitiesOK'
    PROVE  /\ [i \in SwbIds |-> LogRow(i)]' \in [SwbIds -> Log!Row]
           /\ journal' \in [SwbIds -> Seq(VerdictEvent)]
<1>1. ASSUME NEW i \in SwbIds PROVE LogRow(i)' \in Log!Row
  <2>1. CASE identity'[i] = None
    BY <2>1 DEF LogRow, Log!Row, VerdictValues
  <2>2. CASE identity'[i] # None
    <3>1. identity'[i] \in Snapshot
      BY <2>2 DEF IdentitiesOK
    <3> QED BY <2>2, <3>1 DEF LogRow, Log!Row, Snapshot
  <2> QED BY <2>1, <2>2
<1> QED BY <1>1 DEF IdentitiesOK

\* A step on an identity is one of the steps of the log.
LEMMA RowStepIsLogged ==
    ASSUME IdentitiesOK, IdentitiesOK', HistoryExact, HistoryExact', NEW i \in SwbIds, RowStep(i)
    PROVE  Log!Insert(i) \/ Log!Write(i) \/ Log!Forget(i) \/ Log!Keep(i)
<1>1. /\ LogRow(i) = IF identity[i] = None THEN Log!Absent
                     ELSE [verdict |-> identity[i].verdict, version |-> identity[i].version]
      /\ LogRow(i)' = IF identity'[i] = None THEN Log!Absent
                      ELSE [verdict |-> identity'[i].verdict, version |-> identity'[i].version]
  BY DEF LogRow, Log!Absent
<1>2. identity[i] \in Snapshot \cup {None} /\ identity'[i] \in Snapshot \cup {None}
  BY DEF IdentitiesOK
<1>3. CASE RowInserted(i)
  <2>1. journal[i] = <<>> /\ journal'[i] = <<>> /\ FreshIdentity # None
    <3>1. FreshIdentity \in Snapshot
      BY DEF FreshIdentity, Snapshot, VerdictValues
    <3> QED BY <1>3, <3>1, RowsAssumption DEF RowInserted, HistoryExact
  <2>2. LogRow(i)' = Log!Fresh
    BY <1>1, <1>3, <2>1 DEF RowInserted, FreshIdentity, Log!Fresh
  <2>3. LogRow(i) = Log!Absent
    BY <1>1, <1>3 DEF RowInserted
  <2>4. Log!Insert(i)
    BY <2>1, <2>2, <2>3 DEF Log!Insert
  <2> QED BY <2>4
<1>4. CASE RowWritten(i)
  <2>1. PICK e \in VerdictEvent :
          /\ e.old = identity[i].verdict /\ e.new = identity'[i].verdict
          /\ journal'[i] = Append(journal[i], e)
    BY <1>4 DEF RowWritten
  <2>2. /\ identity[i] # None /\ identity'[i] # None
        /\ identity[i] \in Snapshot /\ identity'[i] \in Snapshot
    BY <1>2, <1>4 DEF RowWritten
  <2>3. /\ LogRow(i).version # 0 /\ LogRow(i).verdict = e.old
        /\ LogRow(i)'.verdict = e.new /\ LogRow(i)'.version = 1 + Len(journal'[i])
    <3>1. identity[i].version \in Nat \ {0}
      BY <2>2 DEF Snapshot
    <3>2. identity'[i].version = 1 + Len(journal'[i])
      BY <2>2 DEF HistoryExact
    <3> QED BY <1>1, <2>1, <2>2, <3>1, <3>2
  <2>4. LogRow(i) # Log!Absent
    BY <2>3 DEF Log!Absent
  <2>5. LogRow(i)'.version \in 1..(1 + Len(journal'[i]))
    <3>1. journal'[i] \in Seq(VerdictEvent)
      BY DEF IdentitiesOK
    <3>2. Len(journal'[i]) \in Nat
      BY <3>1
    <3> QED BY <2>3, <3>2
  <2>6. LogRow(i)'.verdict = IF Log!Decides(e) THEN e.new ELSE LogRow(i).verdict
    BY <2>3 DEF Log!Decides
  <2>7. Log!Write(i)
    BY <2>1, <2>4, <2>5, <2>6 DEF Log!Write
  <2> QED BY <2>7
<1>5. CASE RowGone(i)
  <2>1. Log!Forget(i)
    BY <1>1, <1>5 DEF RowGone, Log!Forget
  <2> QED BY <2>1
<1>6. CASE RowKept(i)
  <2>1. Log!Keep(i)
    BY <1>1, <1>6 DEF RowKept, Log!Keep
  <2> QED BY <2>1
<1> QED BY <1>3, <1>4, <1>5, <1>6 DEF RowStep

\* Uploads, re-ingests, deletions, decisions and restarts, however they race,
\* implement the audit log.
THEOREM StoreKeepsLog == Spec => KeepsLog
<1>1. Init => Log!Init
  <2> SUFFICES ASSUME Init PROVE Log!Init
    OBVIOUS
  <2>1. \A i \in SwbIds : LogRow(i) = Log!Absent
    BY DEF Init, LogRow, Log!Absent
  <2>2. journal = [i \in SwbIds |-> <<>>]
    BY DEF Init
  <2> QED BY <2>1, <2>2 DEF Log!Init
<1>2. StoreInv /\ StoreInv' /\ HistoryExact /\ HistoryExact' /\ [Next]_vars
        => [Log!Next]_<<[i \in SwbIds |-> LogRow(i)], journal>>
  <2> SUFFICES ASSUME StoreInv, StoreInv', HistoryExact, HistoryExact', [Next]_vars
               PROVE  Log!Next
    OBVIOUS
  <2>1. IdentitiesOK /\ IdentitiesOK'
    BY DEF StoreInv, TypeInv, RowsOK
  <2>2. ASSUME NEW i \in SwbIds
        PROVE  Log!Insert(i) \/ Log!Write(i) \/ Log!Forget(i) \/ Log!Keep(i)
    BY <2>1, EveryRowStep, RowStepIsLogged
  <2>3. /\ [i \in SwbIds |-> LogRow(i)]' \in [SwbIds -> Log!Row]
        /\ journal' \in [SwbIds -> Seq(VerdictEvent)]
    BY <2>1, LogTypes
  <2> QED BY <2>2, <2>3 DEF Log!Next
<1> QED BY <1>1, <1>2, StoreInvariant, HistoriesAreExact, PTL DEF Spec, KeepsLog, Log!Spec

\* So each verdict, however often it was carried, can be explained from its events.
THEOREM EveryVerdictIsExplained == Spec => []VerdictsExplained
BY StoreKeepsLog, Log!LogExplains, PTL DEF KeepsLog, VerdictsExplained

-----------------------------------------------------------------------------
(* What a 201 means, for a server of one process that is not restarted.    *)

\* Uploads share one event loop, and none of them is cut off.
OneServer == MaxCrashes = 0 /\ \A u, v \in Uploads : Process[u] = Process[v]

\* The findings of a run are those of its saved meta, but for the moment in
\* which an upload has replaced the one and not yet the other; then that upload
\* is the only one under way.
Replacing(u, r) == pc[u] = "replaced" /\ found[u] = r

OneUpload == \A u, v \in Uploads : pc[u] \in Uploading /\ pc[v] \in Uploading => u = v

SavedMeta ==
    /\ \A u \in Uploads : pc[u] = "stored" => blob[u] = sent[u]
    /\ \A u \in Uploads : pc[u] = "replaced" /\ runs[found[u]] # None => blob[found[u]] = sent[u]
    /\ \A r \in Present : \/ runs[r].findings = Reported[blob[r]]
                          \/ \E u \in Uploads : Replacing(u, r)

ServedInv == crashes \in Nat /\ OneUpload /\ SavedMeta

\* Nothing has been stored yet.
LEMMA InitServed == Init => ServedInv
BY DEF Init, ServedInv, OneUpload, SavedMeta, Present, Requests, Uploading

\* A step that is not an upload's: it may delete runs, and then their files.
LEMMA OtherServed ==
    ASSUME StoreInv, ServedInv, crashes' = crashes,
           \A u \in Uploads : pc'[u] = pc[u] /\ found'[u] = found[u] /\ sent'[u] = sent[u],
           \A r \in RunIds : runs'[r] # None =>
               runs[r] # None /\ runs'[r].findings = runs[r].findings /\ blob'[r] = blob[r],
           \A u \in Uploads : pc[u] = "stored" => blob'[u] = blob[u]
    PROVE  ServedInv'
<1>1. OneUpload'
  BY DEF ServedInv, OneUpload
<1>2. \A u \in Uploads : pc[u] = "replaced" => found[u] \in RunIds
  BY DEF StoreInv, UploadsHold, UploadHolds, Holding
<1>3. \A u \in Uploads : pc'[u] = "stored" => blob'[u] = sent'[u]
  BY DEF ServedInv, SavedMeta
<1>4. ASSUME NEW u \in Uploads, pc'[u] = "replaced", runs'[found'[u]] # None
      PROVE  blob'[found'[u]] = sent'[u]
  BY <1>2, <1>4 DEF ServedInv, SavedMeta
<1>5. ASSUME NEW r \in RunIds, runs'[r] # None
      PROVE  \/ runs'[r].findings = Reported[blob'[r]]
             \/ \E u \in Uploads : Replacing(u, r)'
  <2>1. r \in Present /\ runs'[r].findings = runs[r].findings /\ blob'[r] = blob[r]
    BY <1>5 DEF Present
  <2>2. CASE runs[r].findings = Reported[blob[r]]
    BY <2>1, <2>2
  <2>3. CASE \E u \in Uploads : Replacing(u, r)
    BY <2>3 DEF Replacing
  <2> QED BY <2>1, <2>2, <2>3 DEF ServedInv, SavedMeta
<1>6. SavedMeta'
  BY <1>3, <1>4, <1>5 DEF SavedMeta, Present
<1> QED BY <1>1, <1>6 DEF ServedInv

\* No other request rewrites the meta or the findings of a run that stays.
LEMMA OthersServed ==
    ASSUME OneServer, StoreInv, ServedInv, [Next]_vars, ~ \E u \in Uploads : Upload(u)
    PROVE  ServedInv'
<1>1. /\ pc \in [Requests -> UploadStates \cup DeleteStates] /\ Uploads \subseteq Requests
      /\ runs \in [RunIds -> Run \cup {None}] /\ blob \in [RunIds -> Metas \cup {None}]
      /\ RunIds = Uploads
      /\ \A w \in Deletes \cup ProjectDeletes \cup Baselines : w \in Requests /\ w \notin Uploads
  BY StoreAssumption DEF StoreInv, TypeInv, SessionsOK, RowsOK, Requests, RunIds
<1>2. \A w, state : w \in Requests \ Uploads /\ Goto(w, state) =>
          \A u \in Uploads : pc'[u] = pc[u]
  BY <1>1 DEF Goto
<1>3. CASE \E d \in Deletes : Delete(d)
  <2>1. PICK d \in Deletes : Delete(d)
    BY <1>3
  <2>2. pc' = pc \/ \E state : Goto(d, state)
    BY <2>1 DEF Delete, DeleteLoad, DeleteGuard, DeleteScan, DeleteMove, DeleteCommit,
                DeleteFail, DeleteBlobs
  <2>3. \A u \in Uploads : pc'[u] = pc[u]
    BY <1>1, <1>2, <2>2
  <2>4. UNCHANGED uploadVars /\ crashes' = crashes
    BY <2>1 DEF Delete, DeleteLoad, DeleteGuard, DeleteScan, DeleteMove, DeleteCommit,
                DeleteFail, DeleteBlobs, bounds
  <2>5. CASE DeleteCommit(d)
    <3>1. blob' = blob /\ runs' = [runs EXCEPT ![target[d]] = None]
      BY <2>5 DEF DeleteCommit
    <3>2. \A r \in RunIds : runs'[r] # None => runs'[r] = runs[r]
      BY <1>1, <3>1
    <3> QED BY <2>3, <2>4, <3>1, <3>2, OtherServed DEF uploadVars
  <2>6. CASE DeleteBlobs(d)
    <3>1. /\ Stored(target[d]) /\ target[d] \in RunIds /\ runs[target[d]] = None
      BY <2>6 DEF DeleteBlobs, StoreInv, DeletesHold, Deleting
    <3>2. \A r \in RunIds : r # target[d] => blob'[r] = blob[r]
      BY <1>1, <2>6 DEF DeleteBlobs
    <3>3. runs' = runs
      BY <2>6 DEF DeleteBlobs, rowVars
    <3>4. \A u \in Uploads : pc[u] = "stored" => u # target[d]
      BY <3>1 DEF Stored
    <3> QED BY <1>1, <2>3, <2>4, <3>1, <3>2, <3>3, <3>4, OtherServed DEF uploadVars
  <2>7. CASE ~DeleteCommit(d) /\ ~DeleteBlobs(d)
    <3>1. runs' = runs /\ blob' = blob
      BY <2>1, <2>7 DEF Delete, DeleteLoad, DeleteGuard, DeleteScan, DeleteMove, DeleteFail,
                        rowVars
    <3> QED BY <2>3, <2>4, <3>1, OtherServed DEF uploadVars
  <2> QED BY <2>5, <2>6, <2>7
<1>4. CASE \E z \in ProjectDeletes : ProjectDelete(z)
  <2>1. PICK z \in ProjectDeletes : ProjectDelete(z)
    BY <1>4
  <2>2. \E state : Goto(z, state)
    BY <2>1 DEF ProjectDelete, ProjectList, ProjectGuard, ProjectCommit, ProjectBlobs
  <2>3. \A u \in Uploads : pc'[u] = pc[u]
    BY <1>1, <1>2, <2>2
  <2>4. UNCHANGED uploadVars /\ crashes' = crashes
    BY <2>1 DEF ProjectDelete, ProjectList, ProjectGuard, ProjectCommit, ProjectBlobs, bounds
  <2>5. CASE ProjectCommit(z)
    <3>1. blob' = blob /\ \A r \in RunIds : runs'[r] = None
      BY <2>5 DEF ProjectCommit
    <3> QED BY <2>3, <2>4, <3>1, OtherServed DEF uploadVars
  <2>6. CASE ProjectBlobs(z)
    <3>1. PICK removed \in SUBSET todo[z] :
            blob' = [r \in RunIds |-> IF r \in removed THEN None ELSE blob[r]]
      BY <2>6 DEF ProjectBlobs
    <3>2. \A r \in removed : Stored(r) /\ runs[r] = None
      BY <2>6 DEF ProjectBlobs, StoreInv, DeletesHold
    <3>3. runs' = runs
      BY <2>6 DEF ProjectBlobs, rowVars
    <3>4. \A u \in Uploads : pc[u] = "stored" => u \notin removed
      BY <3>2 DEF Stored
    <3> QED BY <1>1, <2>3, <2>4, <3>1, <3>2, <3>3, <3>4, OtherServed DEF uploadVars
  <2>7. CASE ~ProjectCommit(z) /\ ~ProjectBlobs(z)
    <3>1. runs' = runs /\ blob' = blob
      BY <2>1, <2>7 DEF ProjectDelete, ProjectList, ProjectGuard, rowVars
    <3> QED BY <2>3, <2>4, <3>1, OtherServed DEF uploadVars
  <2> QED BY <2>5, <2>6, <2>7
<1>5. CASE \E b \in Baselines : Baseline(b)
  <2>1. PICK b \in Baselines : Baseline(b)
    BY <1>5
  <2>2. \E state : Goto(b, state)
    BY <2>1 DEF Baseline, BaselineLoad, BaselineCheck, BaselineCommit
  <2>3. \A u \in Uploads : pc'[u] = pc[u]
    BY <1>1, <1>2, <2>2
  <2>4. runs' = runs /\ blob' = blob /\ UNCHANGED uploadVars /\ crashes' = crashes
    BY <2>1 DEF Baseline, BaselineLoad, BaselineCheck, BaselineCommit, rowVars, bounds
  <2> QED BY <2>3, <2>4, OtherServed DEF uploadVars
<1>6. CASE Decide
  <2>a. PICK r \in Present :
            \E tally : runs' = [runs EXCEPT ![r].tally = tally]
    BY <1>6 DEF Decide
  <2>1. PICK tally : runs' = [runs EXCEPT ![r].tally = tally]
    BY <2>a
  <2>2. runs[r] \in Run
    BY <1>1, <2>1 DEF Present
  <2>3. [runs[r] EXCEPT !.tally = tally].findings = runs[r].findings
    BY <2>2 DEF Run
  <2>4. \A x \in RunIds : runs'[x] # None =>
            runs[x] # None /\ runs'[x].findings = runs[x].findings
    BY <1>1, <2>1, <2>3 DEF Present
  <2>5. blob' = blob /\ pc' = pc /\ UNCHANGED uploadVars /\ crashes' = crashes
    BY <1>6 DEF Decide
  <2> QED BY <2>4, <2>5, OtherServed DEF uploadVars
<1>7. CASE AnalysisBegins \/ AnalysisEnds \/ UNCHANGED vars
  <2>1. runs' = runs /\ blob' = blob /\ pc' = pc /\ UNCHANGED uploadVars /\ crashes' = crashes
    BY <1>7 DEF AnalysisBegins, AnalysisEnds, vars, rowVars, bounds
  <2> QED BY <2>1, OtherServed DEF uploadVars
<1>8. ~Crash
  BY DEF Crash, OneServer, ServedInv
<1> QED BY <1>3, <1>4, <1>5, <1>6, <1>7, <1>8 DEF Next, Quiescent

\* A step of an upload that leaves rows and files alone and does not stand
\* between the two.
LEMMA QuietServed ==
    ASSUME StoreInv, ServedInv, NEW u \in Uploads, NEW state, Goto(u, state),
           state \notin {"stored", "replaced"},
           state \in Uploading =>
               pc[u] \in Uploading \/ \A v \in Uploads \ {u} : pc[v] \notin Uploading,
           pc[u] = "replaced" => runs[found[u]] = None,
           runs' = runs, blob' = blob, crashes' = crashes,
           \A v \in Uploads \ {u} : found'[v] = found[v] /\ sent'[v] = sent[v]
    PROVE  ServedInv'
<1>1. /\ pc'[u] = state /\ \A v \in Uploads \ {u} : pc'[v] = pc[v]
  BY DEF Goto, StoreInv, TypeInv, SessionsOK, Requests
<1>2. OneUpload'
  BY <1>1 DEF ServedInv, OneUpload
<1>3. ASSUME NEW v \in Uploads, pc'[v] \in {"stored", "replaced"}
      PROVE  v # u /\ pc'[v] = pc[v] /\ found'[v] = found[v] /\ sent'[v] = sent[v]
  BY <1>1, <1>3
<1>4. ASSUME NEW r \in Present, NEW v \in Uploads, Replacing(v, r) PROVE Replacing(v, r)'
  BY <1>1, <1>4 DEF Replacing, Present
<1>5. Present' = Present
  BY DEF Present
<1>6. \A v \in Uploads : pc'[v] = "stored" => blob'[v] = sent'[v]
  BY <1>3 DEF ServedInv, SavedMeta
<1>7. \A v \in Uploads : pc'[v] = "replaced" /\ runs'[found'[v]] # None =>
          blob'[found'[v]] = sent'[v]
  BY <1>3 DEF ServedInv, SavedMeta
<1>8. \A r \in Present : \/ runs'[r].findings = Reported[blob'[r]]
                         \/ \E v \in Uploads : Replacing(v, r)'
  BY <1>4 DEF ServedInv, SavedMeta
<1>9. SavedMeta'
  BY <1>5, <1>6, <1>7, <1>8 DEF SavedMeta
<1> QED BY <1>2, <1>9 DEF ServedInv

\* The four steps of an upload that write rows or files.  While it is under
\* way no other upload is.
LEMMA WritingServed ==
    ASSUME StoreInv, ServedInv, NEW u \in Uploads,
           UploadBlobs(u) \/ UploadCommit(u) \/ UploadReplace(u) \/ UploadReingest(u)
    PROVE  ServedInv'
<1>1. /\ pc \in [Requests -> UploadStates \cup DeleteStates] /\ u \in Requests
      /\ runs \in [RunIds -> Run \cup {None}] /\ blob \in [RunIds -> Metas \cup {None}]
      /\ RunIds = Uploads /\ Uploads \subseteq Requests
  BY DEF StoreInv, TypeInv, SessionsOK, RowsOK, Requests, RunIds
<1>2. pc[u] \in {"fresh", "stored", "differs", "replaced"} /\ crashes' = crashes /\ sent' = sent
  BY DEF UploadBlobs, UploadCommit, Ready, UploadReplace, UploadReingest, uploadVars, bounds
<1>3. PICK state \in {"stored", "replaced", "answered"} : Goto(u, state)
  BY DEF UploadBlobs, UploadCommit, UploadReplace, UploadReingest
<1>4. pc'[u] = state /\ \A v \in Uploads \ {u} : pc'[v] = pc[v] /\ pc[v] \notin Uploading
  BY <1>1, <1>2, <1>3 DEF Goto, ServedInv, OneUpload, Uploading
<1>5. OneUpload'
  BY <1>4 DEF OneUpload
<1>6. \A v \in Uploads \ {u} : pc'[v] \notin {"stored", "replaced"}
  BY <1>4 DEF Uploading
<1>7. \A r \in Present : \/ runs[r].findings = Reported[blob[r]]
                         \/ Replacing(u, r)
  BY <1>4 DEF ServedInv, SavedMeta, Replacing, Uploading
<1>8. CASE UploadBlobs(u)
  <2>1. runs' = runs /\ blob' = [blob EXCEPT ![u] = sent[u]] /\ pc[u] = "fresh"
        /\ pc'[u] = "stored" /\ found' = found
    BY <1>1, <1>8 DEF UploadBlobs, rowVars, uploadVars, Goto
  <2>2. u \notin Present
    BY <2>1 DEF StoreInv, RunsStored, Stored
  <2>3. \A r \in Present : runs'[r].findings = Reported[blob'[r]]
    BY <1>1, <1>7, <2>1, <2>2 DEF Replacing, Present
  <2>4. SavedMeta'
    BY <1>1, <1>2, <1>6, <2>1, <2>3 DEF SavedMeta, Present
  <2> QED BY <1>2, <1>5, <2>4 DEF ServedInv
<1>9. CASE UploadCommit(u)
  <2>1. pc[u] = "stored" /\ pc'[u] = "answered" /\ blob' = blob /\ blob[u] = sent[u]
    BY <1>1, <1>9 DEF UploadCommit, Ready, Goto, ServedInv, SavedMeta
  <2>2. \A r \in RunIds : r # u => runs'[r] = runs[r]
    BY <1>1, <1>9 DEF UploadCommit
  <2>3. runs'[u].findings = Reported[sent[u]]
    BY <1>1, <1>9 DEF UploadCommit
  <2>4. \A r \in RunIds : runs'[r] # None => runs'[r].findings = Reported[blob'[r]]
    BY <1>7, <2>1, <2>2, <2>3 DEF Replacing, Present
  <2>5. SavedMeta'
    BY <1>6, <2>1, <2>4 DEF SavedMeta, Present
  <2> QED BY <1>2, <1>5, <2>5 DEF ServedInv
<1>10. CASE UploadReplace(u)
  <2>1. /\ runs' = runs /\ blob' = [blob EXCEPT ![found[u]] = sent[u]] /\ pc[u] = "differs"
        /\ pc'[u] = "replaced" /\ found' = found
    BY <1>1, <1>10 DEF UploadReplace, rowVars, uploadVars, Goto
  <2>2. found[u] \in RunIds
    BY <2>1 DEF StoreInv, UploadsHold, UploadHolds, Holding
  <2>3. \A r \in Present : \/ runs'[r].findings = Reported[blob'[r]]
                           \/ Replacing(u, r)'
    BY <1>1, <1>7, <2>1 DEF Replacing, Present
  <2>4. blob'[found'[u]] = sent'[u]
    BY <1>1, <1>2, <2>1, <2>2
  <2>5. SavedMeta'
    BY <1>6, <2>1, <2>3, <2>4 DEF SavedMeta, Present
  <2> QED BY <1>2, <1>5, <2>5 DEF ServedInv
<1>11. CASE UploadReingest(u)
  <2>1. pc[u] = "replaced" /\ pc'[u] = "answered" /\ blob' = blob
    BY <1>1, <1>11 DEF UploadReingest, Goto
  <2>2. /\ found[u] \in Present
        /\ \E row \in Run : /\ row.findings = Reported[sent[u]]
                            /\ runs' = [runs EXCEPT ![found[u]] = row]
    BY <1>11, ReingestedRun
  <2>3. PICK row \in Run : /\ row.findings = Reported[sent[u]]
                           /\ runs' = [runs EXCEPT ![found[u]] = row]
    BY <2>2
  <2>4. blob[found[u]] = sent[u]
    BY <2>1, <2>2 DEF ServedInv, SavedMeta, Present
  <2>5. \A r \in RunIds : runs'[r] # None => runs'[r].findings = Reported[blob'[r]]
    BY <1>1, <1>7, <2>1, <2>3, <2>4 DEF Replacing, Present
  <2>6. SavedMeta'
    BY <1>6, <2>1, <2>5 DEF SavedMeta, Present
  <2> QED BY <1>2, <1>5, <2>6 DEF ServedInv
<1> QED BY <1>8, <1>9, <1>10, <1>11

\* An upload leaves a run with the findings of the meta it has saved, or is still
\* between the two.
LEMMA UploadServed ==
    ASSUME OneServer, StoreInv, ServedInv, NEW u \in Uploads, Upload(u)
    PROVE  ServedInv'
<1>1. CASE UploadBlobs(u) \/ UploadCommit(u) \/ UploadReplace(u) \/ UploadReingest(u)
  BY <1>1, WritingServed
<1>2. CASE \/ UploadArrive(u) \/ UploadCreate(u) \/ UploadLookup(u) \/ UploadReject(u)
           \/ UploadRaced(u) \/ UploadRefind(u) \/ UploadCompare(u) \/ UploadGone(u)
  <2>1. runs' = runs /\ blob' = blob /\ crashes' = crashes
    BY <1>2 DEF UploadArrive, UploadCreate, UploadLookup, UploadReject, UploadRaced,
                UploadRefind, UploadCompare, UploadGone, rowVars, bounds
  <2>2. found \in [Uploads -> RunIds \cup {None}] /\ sent \in [Uploads -> Metas \cup {None}]
    BY DEF StoreInv, TypeInv, SessionsOK
  <2>3. \A v \in Uploads \ {u} : found'[v] = found[v] /\ sent'[v] = sent[v]
    BY <1>2, <2>2 DEF UploadArrive, UploadCreate, UploadLookup, UploadReject, UploadRaced,
                UploadRefind, UploadCompare, UploadGone, uploadVars, HoldRun
  <2>4. PICK state \in {"creating", "resolved", "fresh", "raced", "found", "differs",
                        "answered", "refused", "failed"} : Goto(u, state)
    BY <1>2 DEF UploadArrive, UploadCreate, UploadLookup, UploadReject, UploadRaced,
                UploadRefind, UploadCompare, UploadGone, HoldRun
  <2>5. \/ pc[u] \in Uploading
        \/ \A v \in Uploads \ {u} : pc[v] \notin Uploading
    <3>1. CASE UploadArrive(u)
      BY <3>1 DEF UploadArrive, LoopFree, OneServer
    <3>2. CASE ~UploadArrive(u)
      BY <1>2, <3>2 DEF UploadCreate, UploadLookup, UploadReject, UploadRaced,
                UploadRefind, UploadCompare, UploadGone, Uploading
    <3> QED BY <3>1, <3>2
  <2>6. pc[u] = "replaced" => runs[found[u]] = None
    BY <1>2 DEF UploadArrive, UploadCreate, UploadLookup, UploadReject, UploadRaced,
                UploadRefind, UploadCompare, UploadGone
  <2> QED BY <2>1, <2>3, <2>4, <2>5, <2>6, QuietServed
<1> QED BY <1>1, <1>2 DEF Upload

\* The step in which an upload is answered, with findings of its own meta.
LEMMA AnsweredIsServed ==
    ASSUME StoreInv, ServedInv, [Next]_vars, NEW u \in Uploads, Answered(u),
           runs'[found'[u]] # None
    PROVE  runs'[found'[u]].findings = Reported[sent[u]]
<1>1. PICK v \in Uploads : Upload(v)
  BY OthersAnswerNothing
<1>2. /\ pc \in [Requests -> UploadStates \cup DeleteStates] /\ Uploads \subseteq Requests
      /\ runs \in [RunIds -> Run \cup {None}] /\ RunIds = Uploads
      /\ found \in [Uploads -> RunIds \cup {None}]
  BY DEF StoreInv, TypeInv, SessionsOK, RowsOK, Requests, RunIds
<1>3. v = u
  <2>1. PICK state : Goto(v, state)
    BY <1>1 DEF Upload, UploadArrive, UploadCreate, UploadLookup, UploadReject, UploadBlobs,
         UploadCommit, UploadRaced, UploadRefind, UploadCompare, UploadReplace, UploadReingest,
         UploadGone, HoldRun
  <2> QED BY <1>2, <2>1 DEF Goto, Answered
<1>4. CASE UploadCommit(u)
  BY <1>2, <1>4 DEF UploadCommit
<1>5. CASE UploadReingest(u)
  <2>1. PICK row \in Run : /\ row.findings = Reported[sent[u]]
                           /\ runs' = [runs EXCEPT ![found[u]] = row]
    BY <1>5, ReingestedRun
  <2>2. found[u] \in RunIds /\ found' = found
    BY <1>5, ReingestedRun DEF Present, UploadReingest, uploadVars
  <2> QED BY <1>2, <2>1, <2>2
<1>6. CASE UploadCompare(u)
  <2>1. /\ pc[u] = "found" /\ runs' = runs /\ found' = found
        /\ Goto(u, IF SameMeta(u) THEN "answered"
                   ELSE IF blob[found[u]] = None THEN "failed" ELSE "differs")
    BY <1>6 DEF UploadCompare, rowVars, uploadVars
  <2>2. blob[found[u]] = sent[u]
    BY <1>2, <2>1 DEF Goto, Answered, SameMeta
  <2>3. found[u] \in Present
    BY <2>1 DEF StoreInv, UploadsHold, UploadHolds, Holding, Present
  <2>4. \A w \in Uploads : ~Replacing(w, found[u])
    BY <2>1 DEF Replacing, ServedInv, OneUpload, Uploading
  <2> QED BY <2>1, <2>2, <2>3, <2>4 DEF ServedInv, SavedMeta
<1>7. CASE ~UploadCommit(u) /\ ~UploadReingest(u) /\ ~UploadCompare(u)
  <2>1. PICK state : Goto(u, state) /\ state # "answered"
    BY <1>1, <1>3, <1>7 DEF Upload, UploadArrive, UploadCreate, UploadLookup, UploadReject,
         UploadBlobs, UploadRaced, UploadRefind, UploadReplace, UploadGone, HoldRun
  <2> QED BY <1>2, <2>1 DEF Goto, Answered
<1> QED BY <1>4, <1>5, <1>6, <1>7

\* A 201 means that what was sent is what is stored, however uploads of old and
\* new enrichments, deletions and decisions interleave.  It needs a server that
\* is not restarted between the meta blob and the rows, and whose uploads run
\* on one event loop, as deployed (upload_run and _dedup_response, runs.py).
THEOREM AnswersAreIngested ==
    ASSUME OneServer
    PROVE  Spec => AnswerIsIngested
<1> DEFINE Served == \A u \in Uploads : Answered(u) /\ runs'[found'[u]] # None =>
                        runs'[found'[u]].findings = Reported[sent[u]]
<1>1. Init => ServedInv
  BY InitServed
<1>2. ASSUME StoreInv, ServedInv, [Next]_vars PROVE ServedInv'
  BY <1>2, OthersServed, UploadServed
<1>3. ASSUME StoreInv, ServedInv, [Next]_vars PROVE Served
  BY <1>3, AnsweredIsServed
<1>4. StoreInv /\ ServedInv /\ [Next]_vars => ServedInv' /\ [Served]_vars
  BY <1>2, <1>3
<1> HIDE DEF Served
<1>5. Spec => [][Served]_vars
  BY <1>1, <1>4, StoreInvariant, PTL DEF Spec
<1> QED BY <1>5 DEF AnswerIsIngested, Served
=============================================================================
