---------------------------- MODULE EditorProofs ----------------------------
(* Theorems about editors alone: PATCH requests with optimistic locking and *)
(* no reset or analysis, which write without a condition on the version.    *)
EXTENDS TriageProofs, SequenceTheorems

\* A view of a row: not newer than the row, and the row itself at its version.
ViewOf(s, row) ==
    /\ s.version <= row.version
    /\ s.version = row.version => s = row

\* What an editor looks at and what its handler has loaded.
Views(p) ==
    LET row == identity[IdentityOf[target[p]]] IN
    /\ pc[p] # "idle" => ViewOf(seen[p], row)
    /\ pc[p] = "read" => ViewOf(mem[p], row) /\ seen[p].version <= mem[p].version

\* What the journal says of a row.
RowHistory(row, events) ==
    /\ row.version = 1 + Len(events)
    /\ \A n \in DOMAIN events :
         events[n].old = IF n = 1 THEN "unmarked" ELSE events[n - 1].new
    /\ events = <<>> => row.verdict = "unmarked"
    /\ events # <<>> =>
         LET e == events[Len(events)] IN
         row.verdict = e.new /\ row.source = e.source /\ row.rationale = e.by

EditorInv ==
    /\ TypeInv
    /\ \A p \in Patches : Views(p)
    /\ \A i \in Identities : RowHistory(identity[i], journal[i])

\* On an object equal to the row, the conditional write stores what
\* write_verdict assigned.
LEMMA CasWriteCurrent ==
    ASSUME NEW row \in Snapshot, NEW v \in VerdictValues, NEW w \in Requests
    PROVE  CasWrite(row, row, v, w, w, row.version)
             = [verdict |-> v, source |-> "human", rationale |-> w,
                attrs |-> row.attrs, version |-> row.version + 1]
BY DEF CasWrite, Assigned, Flush, Column, Snapshot

\* A sequence with an element appended.
LEMMA AppendFacts ==
    ASSUME NEW S, NEW s \in Seq(S), NEW x \in S
    PROVE  /\ Len(Append(s, x)) = Len(s) + 1 /\ Append(s, x) # <<>>
           /\ Append(s, x)[Len(Append(s, x))] = x
           /\ DOMAIN Append(s, x) = 1 .. Len(s) + 1 /\ Len(s) \in Nat
           /\ \A n \in 1 .. Len(s) : Append(s, x)[n] = s[n]
<1>1. Append(s, x) \in Seq(S) /\ Len(Append(s, x)) = Len(s) + 1 /\ Len(s) \in Nat
  OBVIOUS
<1> QED BY <1>1

\* A row and its history after a write that both come from the same state.
LEMMA HistoryGrows ==
    ASSUME NEW row \in Snapshot, NEW events \in Seq(VerdictEvent),
           RowHistory(row, events),
           NEW v \in VerdictValues, NEW w \in Requests
    PROVE  RowHistory(CasWrite(row, row, v, w, w, row.version),
                      Append(events, EventOf(row, v, "human", w)))
<1> DEFINE e == EventOf(row, v, "human", w)
           new == Append(events, e)
           stored == CasWrite(row, row, v, w, w, row.version)
<1>1. /\ stored.version = row.version + 1 /\ stored.verdict = v
      /\ stored.source = "human" /\ stored.rationale = w
  <2>1. stored = [verdict |-> v, source |-> "human", rationale |-> w,
                  attrs |-> row.attrs, version |-> row.version + 1]
    BY CasWriteCurrent
  <2> QED BY <2>1
<1>2. e \in VerdictEvent /\ e.old = row.verdict /\ e.new = v /\ e.source = "human" /\ e.by = w
  BY EventType DEF EventOf, Sources
<1>3. /\ Len(new) = Len(events) + 1 /\ new # <<>> /\ new[Len(new)] = e
      /\ DOMAIN new = 1 .. Len(events) + 1 /\ Len(events) \in Nat
      /\ \A n \in 1 .. Len(events) : new[n] = events[n]
  BY <1>2, AppendFacts
<1>4. stored.version = 1 + Len(new)
  BY <1>1, <1>3 DEF RowHistory, Snapshot
<1>5. ASSUME NEW n \in DOMAIN new
      PROVE  new[n].old = IF n = 1 THEN "unmarked" ELSE new[n - 1].new
  <2>1. CASE n \in 1 .. Len(events)
    <3>1. events[n].old = IF n = 1 THEN "unmarked" ELSE events[n - 1].new
      BY <2>1 DEF RowHistory
    <3> QED BY <1>3, <2>1, <3>1
  <2>2. CASE n = Len(events) + 1
    <3>1. CASE events = <<>>
      BY <1>2, <1>3, <2>2, <3>1 DEF RowHistory
    <3>2. CASE events # <<>>
      <4>1. Len(events) \in 1 .. Len(events) /\ row.verdict = events[Len(events)].new
        BY <3>2 DEF RowHistory
      <4> QED BY <1>2, <1>3, <2>2, <4>1
    <3> QED BY <3>1, <3>2
  <2> QED BY <1>3, <1>5, <2>1, <2>2
<1> QED BY <1>1, <1>2, <1>3, <1>4, <1>5 DEF RowHistory

\* At the commit of a PATCH the row is the one the editor saw and the handler
\* loaded.
LEMMA CommitIsCurrent ==
    ASSUME EditorInv, NEW p \in Patches, PatchCommit(p)
    PROVE  LET row == identity[IdentityOf[target[p]]] IN
           row \in Snapshot /\ seen[p] = row /\ mem[p] = row
<1> DEFINE row == identity[IdentityOf[target[p]]]
<1>1. /\ pc[p] = "read" /\ row.version = seen[p].version
      /\ target[p] \in Findings
  BY DEF PatchCommit, CasMatches, EditorInv, TypeInv, Sessions, PatchSession
<1>2. row \in Snapshot /\ seen[p] \in Snapshot /\ mem[p] \in Snapshot
  BY <1>1, RowsAssumption DEF EditorInv, TypeInv, TypeOK, Sessions, PatchSession
<1>3. ViewOf(seen[p], row) /\ ViewOf(mem[p], row) /\ seen[p].version <= mem[p].version
  BY <1>1 DEF EditorInv, Views
<1>4. mem[p].version = row.version
  BY <1>1, <1>2, <1>3 DEF ViewOf, Snapshot
<1> QED BY <1>1, <1>2, <1>3, <1>4 DEF ViewOf

\* Every step of an editor keeps the views and the histories.
LEMMA EditorStep ==
    ASSUME EditorInv, NEW p \in Patches, Patch(p)
    PROVE  EditorInv'
<1>1. TypeInv'
  BY NextTypeInv DEF EditorInv, Next
<1>2. CASE PatchCommit(p)
  <2> DEFINE i == IdentityOf[target[p]]
  <2>1. i \in Identities /\ target[p] \in Findings /\ p \in Requests
    BY <1>2, RowsAssumption
       DEF EditorInv, TypeInv, Sessions, PatchSession, PatchCommit, Requests
  <2>2. identity[i] \in Snapshot /\ seen[p] = identity[i] /\ mem[p] = identity[i]
    BY <1>2, CommitIsCurrent
  <2>3. PICK v \in VerdictValues :
          /\ identity' = [identity EXCEPT
                           ![i] = CasWrite(identity[i], identity[i], v, p, p, identity[i].version)]
          /\ journal' = [journal EXCEPT
                           ![i] = Append(journal[i], EventOf(identity[i], v, "human", p))]
    BY <1>2, <2>2 DEF PatchCommit
  <2>4. /\ identity'[i].version = identity[i].version + 1
        /\ \A j \in Identities \ {i} : identity'[j] = identity[j] /\ journal'[j] = journal[j]
    <3>1. /\ identity \in [Identities -> Snapshot]
          /\ journal \in [Identities -> Seq(VerdictEvent)]
          /\ identity[i].version \in Nat \ {0}
      BY <2>1 DEF EditorInv, TypeInv, TypeOK, Snapshot
    <3>2. CasWrite(identity[i], identity[i], v, p, p, identity[i].version).version
            = identity[i].version + 1
      BY <2>1, <2>2, <3>1, CasWriteType
    <3> QED BY <2>1, <2>3, <3>1, <3>2
  <2>5. RowHistory(identity'[i], journal'[i])
    <3>1. RowHistory(identity[i], journal[i]) /\ journal[i] \in Seq(VerdictEvent)
      BY <2>1 DEF EditorInv, TypeInv, TypeOK
    <3>2. /\ identity'[i] = CasWrite(identity[i], identity[i], v, p, p, identity[i].version)
          /\ journal'[i] = Append(journal[i], EventOf(identity[i], v, "human", p))
      BY <2>1, <2>3 DEF EditorInv, TypeInv, TypeOK
    <3> QED BY <2>1, <2>2, <3>1, <3>2, HistoryGrows
  <2>6. \A j \in Identities : RowHistory(identity'[j], journal'[j])
    BY <2>4, <2>5 DEF EditorInv
  <2>7. ASSUME NEW s \in Snapshot, NEW j \in Identities, ViewOf(s, identity[j])
        PROVE  ViewOf(s, identity'[j])
    <3>1. CASE j = i
      BY <2>2, <2>4, <2>7, <3>1 DEF ViewOf, Snapshot
    <3>2. CASE j # i
      BY <2>4, <2>7, <3>2
    <3> QED BY <3>1, <3>2
  <2>8. ASSUME NEW z \in Patches PROVE Views(z)'
    <3>1. /\ target' = target /\ seen' = seen
          /\ pc'[z] # "idle" => pc[z] # "idle"
          /\ pc'[z] = "read" => pc[z] = "read" /\ mem'[z] = mem[z]
      BY <1>2, <2>8 DEF PatchCommit, patchVars, EditorInv, TypeInv, TypeOK
    <3>2. CASE pc[z] = "idle"
      BY <3>1, <3>2 DEF Views
    <3>3. CASE pc[z] # "idle"
      <4>1. IdentityOf[target[z]] \in Identities /\ seen[z] \in Snapshot
        BY <3>3, RowsAssumption DEF EditorInv, TypeInv, TypeOK, Sessions, PatchSession
      <4>2. ViewOf(seen[z], identity'[IdentityOf[target[z]]])
        BY <2>7, <3>3, <4>1 DEF EditorInv, Views
      <4>3. ASSUME pc'[z] = "read"
            PROVE  ViewOf(mem[z], identity'[IdentityOf[target[z]]])
        BY <2>7, <3>1, <4>1, <4>3 DEF EditorInv, Views, TypeInv, Sessions, PatchSession
      <4> QED BY <3>1, <4>2, <4>3 DEF EditorInv, Views
    <3> QED BY <3>2, <3>3
  <2> QED BY <1>1, <2>6, <2>8 DEF EditorInv
<1>3. CASE ~PatchCommit(p)
  <2>1. UNCHANGED <<identity, journal>>
    BY <1>3 DEF Patch, PatchGet, PatchRead, PatchConflict, PatchShow, rows
  <2>2. ASSUME NEW z \in Patches PROVE Views(z)'
    <3>1. CASE z # p
      <4>1. /\ pc'[z] = pc[z] /\ mem'[z] = mem[z] /\ seen'[z] = seen[z]
            /\ target'[z] = target[z]
        BY <1>3, <3>1
           DEF Patch, PatchGet, PatchRead, PatchConflict, PatchShow, EditorInv, TypeInv,
               TypeOK, patchVars, Requests
      <4> QED BY <2>1, <4>1 DEF EditorInv, Views
    <3>2. CASE z = p
      <4>1. \A f \in Findings : identity[IdentityOf[f]] \in Snapshot
        BY RowsAssumption DEF EditorInv, TypeInv, TypeOK
      <4>2. CASE PatchGet(p)
        BY <2>1, <3>2, <4>1, <4>2
           DEF PatchGet, Views, ViewOf, EditorInv, TypeInv, TypeOK, Requests, Snapshot
      <4>3. CASE PatchRead(p)
        <5> DEFINE row == identity[IdentityOf[target[p]]]
        <5>1. /\ pc[p] = "deciding" /\ target' = target /\ seen' = seen
              /\ pc'[p] = "read" /\ mem'[p] = row
          BY <4>3 DEF PatchRead, EditorInv, TypeInv, TypeOK, Requests
        <5>2. row.version \in Nat
          BY <4>1, <5>1 DEF EditorInv, TypeInv, Sessions, PatchSession, Snapshot
        <5>3. ViewOf(seen[p], row)
          BY <5>1 DEF EditorInv, Views
        <5> QED BY <2>1, <3>2, <5>1, <5>2, <5>3 DEF Views, ViewOf
      <4>4. CASE PatchConflict(p)
        BY <2>1, <3>2, <4>4
           DEF PatchConflict, Views, patchVars, EditorInv, TypeInv, TypeOK, Requests
      <4>5. CASE PatchShow(p)
        BY <2>1, <3>2, <4>1, <4>5
           DEF PatchShow, Views, ViewOf, EditorInv, TypeInv, TypeOK, Sessions, PatchSession,
               Requests, Snapshot
      <4> QED BY <1>3, <4>2, <4>3, <4>4, <4>5 DEF Patch
    <3> QED BY <3>1, <3>2
  <2> QED BY <1>1, <2>1, <2>2 DEF EditorInv
<1> QED BY <1>2, <1>3

\* Without resets and analyses the views and the histories are invariant.
LEMMA EditorInvariant ==
    ASSUME Resets = {}, Analyses = {}
    PROVE  Spec => []EditorInv
<1>1. Init => EditorInv
  <2>1. ASSUME Init PROVE \A i \in Identities : RowHistory(identity[i], journal[i])
    BY <2>1 DEF Init, RowHistory, FreshIdentity
  <2>2. ASSUME Init PROVE \A p \in Patches : Views(p)
    BY <2>2 DEF Init, Views, Requests
  <2> QED BY <2>1, <2>2, InitTypeInv DEF EditorInv
<1>2. ASSUME EditorInv, [Next]_vars PROVE EditorInv'
  <2>1. CASE UNCHANGED vars
    <3>1. TypeInv'
      BY <1>2, NextTypeInv DEF EditorInv
    <3> QED BY <1>2, <2>1, <3>1 DEF EditorInv, Views, vars
  <2>2. CASE \E p \in Patches : Patch(p)
    BY <1>2, <2>2, EditorStep
  <2> QED BY <1>2, <2>1, <2>2 DEF Next, Quiescent
<1> QED BY <1>1, <1>2, PTL DEF Spec

\* With editors as the only writers the journal of an identity is its history.
THEOREM EditorsKeepHistory ==
    ASSUME Resets = {}, Analyses = {}
    PROVE  Spec => []JournalIsHistory
<1>1. EditorInv => JournalIsHistory
  BY DEF EditorInv, RowHistory, JournalIsHistory, EventsChain, SnapshotIsLastEvent
<1> QED BY <1>1, EditorInvariant, PTL

\* A write seen by the register for each event of the journal.
LEMMA AppendedWrite ==
    ASSUME NEW events \in Seq(VerdictEvent), NEW e \in VerdictEvent
    PROVE  WritesOf(Append(events, e)) = Append(WritesOf(events), WriteOf(e))
<1> DEFINE Write == [old : VerdictValues, new : VerdictValues, by : Requests]
           n == Len(events)
<1> HIDE DEF Write
<1>0. \A x \in VerdictEvent : WriteOf(x) \in Write
  BY DEF WriteOf, VerdictEvent, Write
<1>1. n \in Nat /\ DOMAIN events = 1 .. n /\ WriteOf(e) \in Write
  BY <1>0
<1>2. WritesOf(events) \in Seq(Write) /\ Len(WritesOf(events)) = n
  <2>1. \A k \in 1 .. n : WriteOf(events[k]) \in Write
    BY <1>0, <1>1
  <2> QED BY <1>1, <2>1 DEF WritesOf
<1>3. /\ Append(events, e) \in Seq(VerdictEvent) /\ DOMAIN Append(events, e) = 1 .. n + 1
      /\ Append(events, e)[n + 1] = e /\ \A k \in 1 .. n : Append(events, e)[k] = events[k]
  BY AppendProperties
<1>4. /\ WritesOf(Append(events, e)) \in Seq(Write)
      /\ Len(WritesOf(Append(events, e))) = n + 1
  <2>1. \A k \in 1 .. n + 1 : WriteOf(Append(events, e)[k]) \in Write
    <3>1. \A k \in 1 .. n + 1 : Append(events, e)[k] \in VerdictEvent
      BY <1>3
    <3> QED BY <1>0, <3>1
  <2> QED BY <1>1, <1>3, <2>1 DEF WritesOf
<1>5. /\ Append(WritesOf(events), WriteOf(e)) \in Seq(Write)
      /\ Len(Append(WritesOf(events), WriteOf(e))) = n + 1
      /\ Append(WritesOf(events), WriteOf(e))[n + 1] = WriteOf(e)
      /\ \A k \in 1 .. n :
           Append(WritesOf(events), WriteOf(e))[k] = WritesOf(events)[k]
  <2> HIDE DEF n
  <2> QED BY <1>1, <1>2, AppendProperties
<1>6. ASSUME NEW k \in 1 .. n + 1
      PROVE  WritesOf(Append(events, e))[k] = Append(WritesOf(events), WriteOf(e))[k]
  <2> HIDE DEF n
  <2>1. WritesOf(Append(events, e))[k] = WriteOf(Append(events, e)[k])
    BY <1>3 DEF WritesOf
  <2>2. CASE k = n + 1
    BY <1>3, <1>5, <2>1, <2>2
  <2>3. CASE k \in 1 .. n
    <3>1. WritesOf(events)[k] = WriteOf(events[k])
      BY <1>1, <2>3 DEF WritesOf
    <3> QED BY <1>3, <1>5, <2>1, <2>3, <3>1
  <2>4. k = n + 1 \/ k \in 1 .. n
    BY <1>1, <1>6
  <2> QED BY <2>2, <2>3, <2>4
<1> HIDE DEF n
<1> QED BY <1>4, <1>5, <1>6, SeqEqual

\* A commit is a write of the register: the row is the one the editor views,
\* and row and history get the same verdict at the same time.
LEMMA CommitIsWrite ==
    ASSUME EditorInv, NEW p \in Patches, PatchCommit(p)
    PROVE  Register!Write(p)
<1> DEFINE i == IdentityOf[target[p]]
           reg == [j \in Identities |-> RowOf(identity[j])]
           hist == [j \in Identities |-> WritesOf(journal[j])]
           shown == [z \in Patches |-> ViewedBy(z)]
<1>1. /\ i \in Identities /\ target[p] \in Findings /\ pc[p] = "read"
      /\ p \in Requests
  BY RowsAssumption DEF EditorInv, TypeInv, Sessions, PatchSession, PatchCommit, Requests
<1>2. identity[i] \in Snapshot /\ seen[p] = identity[i] /\ mem[p] = identity[i]
  BY CommitIsCurrent
<1>3. shown[p].id = i /\ shown[p].row = reg[i]
  BY <1>1, <1>2 DEF ViewedBy
<1>4. PICK v \in VerdictValues :
        /\ identity' = [identity EXCEPT
                         ![i] = CasWrite(identity[i], identity[i], v, p, p, identity[i].version)]
        /\ journal' = [journal EXCEPT
                         ![i] = Append(journal[i], EventOf(identity[i], v, "human", p))]
  BY <1>2 DEF PatchCommit
<1>5. /\ identity \in [Identities -> Snapshot]
      /\ journal \in [Identities -> Seq(VerdictEvent)]
  BY DEF EditorInv, TypeInv, TypeOK
<1>6. reg' = [reg EXCEPT ![i] = [verdict |-> v, by |-> p, version |-> reg[i].version + 1]]
  <2>1. CasWrite(identity[i], identity[i], v, p, p, identity[i].version)
          = [verdict |-> v, source |-> "human", rationale |-> p,
             attrs |-> identity[i].attrs, version |-> identity[i].version + 1]
    BY <1>1, <1>2, CasWriteCurrent
  <2>2. RowOf(identity'[i]) = [verdict |-> v, by |-> p, version |-> identity[i].version + 1]
    BY <1>1, <1>4, <1>5, <2>1 DEF RowOf
  <2>3. \A j \in Identities \ {i} : RowOf(identity'[j]) = RowOf(identity[j])
    BY <1>4, <1>5
  <2>4. reg[i].version = identity[i].version
    BY <1>1 DEF RowOf
  <2> QED BY <1>1, <2>2, <2>3, <2>4
<1>7. hist' = [hist EXCEPT
                ![i] = Append(hist[i], [old |-> reg[i].verdict, new |-> v, by |-> p])]
  <2> DEFINE e == EventOf(identity[i], v, "human", p)
             w == [old |-> reg[i].verdict, new |-> v, by |-> p]
  <2>1. e.old = reg[i].verdict /\ e.new = v /\ e.by = p /\ e \in VerdictEvent
    BY <1>1, <1>2, EventType DEF EventOf, RowOf, Sources
  <2>2. journal'[i] = Append(journal[i], e)
    BY <1>1, <1>4, <1>5
  <2>3. WritesOf(journal'[i]) = Append(WritesOf(journal[i]), w)
    <3>1. WriteOf(e) = w
      BY <2>1 DEF WriteOf
    <3>2. journal[i] \in Seq(VerdictEvent)
      BY <1>1, <1>5
    <3> HIDE DEF e, w, i
    <3> QED BY <2>1, <2>2, <3>1, <3>2, AppendedWrite
  <2>4. /\ \A j \in Identities \ {i} : WritesOf(journal'[j]) = WritesOf(journal[j])
        /\ hist[i] = WritesOf(journal[i])
    BY <1>1, <1>4, <1>5
  <2> QED BY <1>1, <2>3, <2>4
<1>8. shown' = shown
  <2>1. ASSUME NEW z \in Patches PROVE ViewedBy(z)' = ViewedBy(z)
    BY <1>1 DEF PatchCommit, patchVars, ViewedBy, EditorInv, TypeInv, TypeOK
  <2> QED BY <2>1
<1> QED
  <2> HIDE DEF i, reg, hist, shown
  <2> SUFFICES /\ shown[p].id \in Identities
               /\ shown[p].row = reg[shown[p].id]
               /\ reg' = [reg EXCEPT ![shown[p].id] =
                            [verdict |-> v, by |-> p, version |-> @.version + 1]]
               /\ hist' = [hist EXCEPT ![shown[p].id] =
                            Append(@, [old |-> reg[shown[p].id].verdict, new |-> v, by |-> p])]
               /\ shown' = shown
    BY <1>4 DEF Register!Write, reg, hist, shown
  <2> QED BY <1>1, <1>3, <1>6, <1>7, <1>8

\* A fetch, and the drawer's refresh after an answer, look at a register.
LEMMA ShowIsLook ==
    ASSUME EditorInv, NEW p \in Patches, PatchGet(p) \/ PatchShow(p)
    PROVE  Register!Look(p)
<1>1. PICK f \in Findings :
        /\ target' = [target EXCEPT ![p] = f]
        /\ seen' = [seen EXCEPT ![p] = identity[IdentityOf[f]]]
  <2>1. CASE PatchGet(p)
    BY <2>1 DEF PatchGet
  <2>2. CASE PatchShow(p)
    <3>1. target[p] \in Findings
      BY <2>2 DEF PatchShow, EditorInv, TypeInv, Sessions, PatchSession
    <3>2. target' = [target EXCEPT ![p] = target[p]]
      BY <2>2 DEF PatchShow, EditorInv, TypeInv, TypeOK
    <3> QED BY <2>2, <3>1, <3>2 DEF PatchShow
  <2> QED BY <2>1, <2>2
<1>2. IdentityOf[f] \in Identities
  BY RowsAssumption
<1>3. UNCHANGED <<identity, journal>> /\ pc'[p] # "idle"
      /\ \A z \in Patches \ {p} : pc'[z] = pc[z]
  BY DEF PatchGet, PatchShow, rows, EditorInv, TypeInv, TypeOK, Requests
<1>4. ViewedBy(p)' = [id |-> IdentityOf[f], row |-> RowOf(identity[IdentityOf[f]])]
  BY <1>1, <1>3 DEF ViewedBy, EditorInv, TypeInv, TypeOK
<1>5. ASSUME NEW z \in Patches \ {p} PROVE ViewedBy(z)' = ViewedBy(z)
  BY <1>1, <1>3 DEF ViewedBy, EditorInv, TypeInv, TypeOK
<1>6. \A j \in Identities : RowOf(identity'[j]) = RowOf(identity[j]) /\ WritesOf(journal'[j]) = WritesOf(journal[j])
  BY <1>3
<1> QED BY <1>2, <1>3, <1>4, <1>5, <1>6 DEF Register!Look

\* The rest of a request is invisible.
LEMMA RestIsInvisible ==
    ASSUME EditorInv, NEW p \in Patches, PatchRead(p) \/ PatchConflict(p)
    PROVE  UNCHANGED <<[i \in Identities |-> RowOf(identity[i])],
                       [i \in Identities |-> WritesOf(journal[i])],
                       [z \in Patches |-> ViewedBy(z)]>>
<1>1. UNCHANGED <<identity, journal, target, seen>>
  BY DEF PatchRead, PatchConflict, rows, patchVars
<1>2. ASSUME NEW z \in Patches PROVE pc'[z] = "idle" <=> pc[z] = "idle"
  BY DEF PatchRead, PatchConflict, EditorInv, TypeInv, TypeOK, Requests
<1>3. ASSUME NEW z \in Patches PROVE ViewedBy(z)' = ViewedBy(z)
  BY <1>1, <1>2 DEF ViewedBy
<1>4. ASSUME NEW i \in Identities PROVE WritesOf(journal'[i]) = WritesOf(journal[i])
  BY <1>1
<1> QED BY <1>1, <1>3, <1>4

\* Editors alone, whatever they do and however their requests interleave,
\* implement atomic registers.
THEOREM EditorsImplementRegister ==
    ASSUME Resets = {}, Analyses = {}
    PROVE  Spec => EditsAreAtomic
<1> DEFINE shownVars == <<[i \in Identities |-> RowOf(identity[i])],
                          [i \in Identities |-> WritesOf(journal[i])],
                          [p \in Patches |-> ViewedBy(p)]>>
<1>1. Init => Register!Init
  <2> SUFFICES ASSUME Init PROVE Register!Init
    OBVIOUS
  <2>1. \A i \in Identities :
          RowOf(identity[i]) = [verdict |-> "unmarked", by |-> None, version |-> 1]
    BY DEF Init, FreshIdentity, RowOf
  <2>2. \A i \in Identities : WritesOf(journal[i]) = <<>>
    BY DEF Init, WritesOf
  <2>3. \A p \in Patches : ViewedBy(p) = [id |-> None, row |-> None]
    BY DEF Init, ViewedBy, Requests
  <2> QED BY <2>1, <2>2, <2>3 DEF Register!Init, Register!NotViewing
<1>2. EditorInv /\ [Next]_vars => [Register!Next]_shownVars
  <2> SUFFICES ASSUME EditorInv, [Next]_vars PROVE [Register!Next]_shownVars
    OBVIOUS
  <2>1. CASE UNCHANGED vars
    <3>1. UNCHANGED shownVars
      BY <2>1 DEF vars, ViewedBy
    <3> QED BY <3>1
  <2>2. ASSUME NEW p \in Patches, Patch(p) PROVE [Register!Next]_shownVars
    <3>1. CASE PatchCommit(p)
      BY <3>1, CommitIsWrite DEF Register!Next
    <3>2. CASE PatchGet(p) \/ PatchShow(p)
      BY <3>2, ShowIsLook DEF Register!Next
    <3>3. CASE PatchRead(p) \/ PatchConflict(p)
      BY <3>3, RestIsInvisible
    <3> QED BY <2>2, <3>1, <3>2, <3>3 DEF Patch
  <2> QED BY <2>1, <2>2 DEF Next, Quiescent
<1> QED BY <1>1, <1>2, EditorInvariant, PTL DEF Spec, EditsAreAtomic, Register!Spec
=============================================================================
