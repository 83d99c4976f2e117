---------------------------- MODULE ReaderProofs -----------------------------
(***************************************************************************)
(* Theorems about the requests of Listing: the counters of a run, the walk *)
(* over the pages of a listing, the diff and the report, beside any writes *)
(* to what they read.                                                      *)
(*                                                                         *)
(* StoreOK says what is stored is what some report, meta and numbering of  *)
(* rows give; ReaderOK types the request being answered; one more          *)
(* invariant per kind of request says how far it has got while nothing it  *)
(* reads was written (Undisturbed: a commit that leaves the flag alone     *)
(* leaves alone what the request relies on).                               *)
(***************************************************************************)
EXTENDS ListingProofs, FiniteSetTheorems, FunctionTheorems, SequenceTheorems, WellFoundedInduction

Row == [id : Nat, identity : Identities, result : Nat, severity : Severities]
Shown == Range(Verdicts)

\* There are n numbers up to n.
LEMMA CountTo ==
    ASSUME NEW n \in Nat
    PROVE  IsFiniteSet(1..n) /\ Cardinality(1..n) = n
BY FS_Interval

\* A set of numbers that is not empty has a least one.
LEMMA LeastNumber ==
    ASSUME NEW T, T \subseteq Nat, T # {}
    PROVE  \E x \in T : \A y \in T : x <= y
<1>1. PICK x \in T : \A y \in T : ~(<<y, x>> \in OpToRel(<, Nat))
  BY NatLessThanWellFounded, WFMin
<1>2. ASSUME NEW y \in T PROVE x <= y
  <2>1. ~(y < x)
    BY <1>1 DEF OpToRel
  <2>2. QED
    BY <2>1
<1>3. QED
  BY <1>2

-----------------------------------------------------------------------------
(* What the constants may be.                                              *)

\* A numbering of rows as uuid4 gives it: no two alike.
Numbering(ids) == IsInjective(ids) /\ Range(ids) \subseteq Nat

\* What the assumptions say of the values a row or a request may hold.
LEMMA Constants ==
    /\ None \notin Runs /\ Identities \subseteq Nat
    /\ None \notin Shown /\ "gone" \notin Shown /\ "unread" \notin Shown /\ "unmarked" \in Shown
    /\ None # "gone" /\ None # "unread"
    /\ MaxFindings \in Nat /\ MaxWrites \in Nat
    /\ \A r \in Runs : ProjectOf[r] \in Projects
BY ListingAssumption DEF Shown

\* The results of a report are a finite sequence, for each of which there is a row id.
LEMMA ReportConstants ==
    ASSUME NEW r \in Runs, NEW rep \in Reports[r]
    PROVE  /\ rep.results \in Seq(Range(rep.results))
           /\ Len(rep.results) \in Nat /\ DOMAIN rep.results = 1..Len(rep.results)
           /\ \A ids \in RowIds : DOMAIN rep.results \subseteq DOMAIN ids
<1>1. rep.results \in Seq(Range(rep.results))
  BY ListingAssumption
<1>2. \A ids \in RowIds : DOMAIN rep.results \subseteq DOMAIN ids
  BY ListingAssumption
<1>3. QED
  BY <1>1, <1>2

\* The entries of a meta name identities.
LEMMA MetaConstants ==
    ASSUME NEW r \in Runs, NEW m \in Metas[r], NEW n \in DOMAIN m
    PROVE  m[n].identity \in Identities
BY ListingAssumption

\* No two rows get the same id.
LEMMA IdsConstants ==
    ASSUME NEW ids \in RowIds
    PROVE  Numbering(ids)
BY ListingAssumption DEF Numbering

-----------------------------------------------------------------------------
(* The rows of a run.                                                      *)

\* Every result has a severity.
LEMMA SeverityTyped ==
    ASSUME NEW rep, NEW m, NEW n
    PROVE  SeverityOf(rep, m, n) \in Severities
<1>1. \A score : SecSevToEnum(score) \in Severities
  BY DEF SecSevToEnum, Severities, SeverityRank
<1>2. \A level : LevelSeverity(level) \in Severities
  <2>1. TAKE level
  <2>2. CASE level \in {"error", "warning", "note"}
    BY <2>2 DEF LevelSeverity, Severities, SeverityRank
  <2>3. CASE level \notin {"error", "warning", "note"}
    BY <2>3 DEF LevelSeverity, Severities, SeverityRank
  <2>4. QED
    BY <2>2, <2>3
<1>3. QED
  BY <1>1, <1>2 DEF SeverityOf, MapSeverity

\* Rows that a report, a meta and a numbering give.
Proper(rep, m, ids) ==
    /\ Len(rep.results) \in Nat /\ DOMAIN rep.results = 1..Len(rep.results)
    /\ Fits(rep, m) /\ \A n \in DOMAIN m : m[n].identity \in Identities
    /\ Numbering(ids) /\ DOMAIN rep.results \subseteq DOMAIN ids

\* The rows of a report are rows.
LEMMA RowsTyped ==
    ASSUME NEW rep, NEW m, NEW ids, Proper(rep, m, ids)
    PROVE  RowsOf(rep, m, ids) \subseteq Row
<1> SUFFICES ASSUME NEW n \in DOMAIN rep.results
             PROVE  [id |-> ids[n], identity |-> m[n].identity, result |-> n,
                     severity |-> SeverityOf(rep, m, n)] \in Row
  BY DEF RowsOf
<1>1. ids[n] \in Nat /\ m[n].identity \in Identities /\ n \in Nat
  BY DEF Proper, Fits, Numbering, Range
<1>2. SeverityOf(rep, m, n) \in Severities
  BY SeverityTyped
<1>3. QED
  BY <1>1, <1>2 DEF Row

\* No two rows have one id.
Distinct(S) == \A x, y \in S : x.id = y.id => x = y

\* No two rows of a run have the same id.
LEMMA RowsDistinct ==
    ASSUME NEW rep, NEW m, NEW ids, Proper(rep, m, ids)
    PROVE  Distinct(RowsOf(rep, m, ids))
BY DEF Proper, Numbering, IsInjective, RowsOf, Distinct

\* As many rows of a severity as results, and of the whole report.
LEMMA RowsCounted ==
    ASSUME NEW rep, NEW m, NEW ids, Proper(rep, m, ids)
    PROVE  /\ IsFiniteSet(RowsOf(rep, m, ids))
           /\ \A s \in Severities :
                /\ IsFiniteSet({n \in DOMAIN rep.results : SeverityOf(rep, m, n) = s})
                /\ Cardinality({n \in DOMAIN rep.results : SeverityOf(rep, m, n) = s}) =
                     Cardinality({x \in RowsOf(rep, m, ids) : x.severity = s})
<1> DEFINE D == DOMAIN rep.results
           R == RowsOf(rep, m, ids)
           At(n) == [id |-> ids[n], identity |-> m[n].identity, result |-> n,
                     severity |-> SeverityOf(rep, m, n)]
<1>1. IsFiniteSet(D)
  BY CountTo DEF Proper
<1>2. R = {At(n) : n \in D}
  BY DEF RowsOf
<1>3. \A n \in D : At(n).result = n /\ At(n).severity = SeverityOf(rep, m, n)
  OBVIOUS
<1> HIDE DEF D, R, At
<1>4. IsFiniteSet(R)
  <2> DEFINE f == [n \in D |-> At(n)]
  <2>1. f \in Surjection(D, R)
    BY <1>2 DEF Surjection
  <2>2. QED
    BY <1>1, <2>1, FS_Surjection
<1>5. ASSUME NEW s \in Severities
      PROVE  /\ IsFiniteSet({n \in D : SeverityOf(rep, m, n) = s})
             /\ Cardinality({n \in D : SeverityOf(rep, m, n) = s}) = Cardinality({x \in R : x.severity = s})
  <2> DEFINE ns == {n \in D : SeverityOf(rep, m, n) = s}
             xs == {x \in R : x.severity = s}
             f == [n \in ns |-> At(n)]
  <2>1. IsFiniteSet(ns)
    <3>1. ns \in SUBSET D
      OBVIOUS
    <3>2. QED
      BY <1>1, <3>1, FS_Subset
  <2>2. \A n \in ns : f[n] \in xs
    BY <1>2, <1>3
  <2>3. \A x \in xs : \E n \in ns : f[n] = x
    BY <1>2, <1>3
  <2>4. \A a, b \in ns : f[a] = f[b] => a = b
    BY <1>3
  <2> HIDE DEF ns, xs
  <2>5. f \in Bijection(ns, xs)
    BY <2>2, <2>3, <2>4, Fun_IsBij
  <2>6. Cardinality(xs) = Cardinality(ns)
    BY <2>1, <2>5, FS_Bijection DEF ExistsBijection
  <2>7. QED
    BY <2>1, <2>6 DEF ns, xs
<1>6. QED
  BY <1>4, <1>5 DEF D, R

-----------------------------------------------------------------------------
(* What is stored.                                                         *)

\* Rows and counters of a run there is are those of its report and meta.
Ingested(rs, cs, rep, m) ==
    /\ \E ids : Proper(rep, m, ids) /\ rs = RowsOf(rep, m, ids)
    /\ cs = CountsOf(rep, m)

\* The types of what the readers read.
StoreTyped ==
    /\ alive \subseteq Runs /\ writes \in 0..MaxWrites
    /\ rows \in [Runs -> SUBSET Row]
    /\ counts \in [Runs -> [Severities -> Nat]]
    /\ meta = [r \in Runs |-> meta[r]]
    /\ \A r \in Runs : report[r] \in Reports[r]
    /\ verdict \in [Identities -> Shown \cup {None, "gone"}]
    /\ baseline \in [Projects -> Runs \cup {None}] /\ setter \in Runs \cup {None}

\* A run that is there has the rows and counters of one ingest; a run that is
\* gone has no rows.
RowsStand ==
    \A r \in Runs :
      /\ r \in alive => Ingested(rows[r], counts[r], report[r], meta[r])
      /\ r \notin alive => rows[r] = {}

\* A row refers to an identity that exists.
IdentitiesStand == \A r \in Runs : \A x \in rows[r] : verdict[x.identity] \in Shown

\* The invariant of the store.
StoreOK == StoreTyped /\ RowsStand /\ IdentitiesStand

\* The counters of a run are numbers.
LEMMA CountsTyped ==
    ASSUME NEW rep, NEW m, NEW ids, Proper(rep, m, ids)
    PROVE  CountsOf(rep, m) \in [Severities -> Nat]
<1>1. \A s \in Severities : Cardinality({n \in DOMAIN rep.results : SeverityOf(rep, m, n) = s}) \in Nat
  <2> SUFFICES ASSUME NEW s \in Severities
               PROVE  Cardinality({n \in DOMAIN rep.results : SeverityOf(rep, m, n) = s}) \in Nat
    OBVIOUS
  <2>1. IsFiniteSet({n \in DOMAIN rep.results : SeverityOf(rep, m, n) = s})
    BY RowsCounted
  <2>2. QED
    BY <2>1, FS_CardinalityType
<1>2. QED
  BY <1>1 DEF CountsOf

\* The identity of a row is one the meta names.
LEMMA RowsNamed ==
    ASSUME NEW rep, NEW m, NEW ids, Fits(rep, m), NEW x \in RowsOf(rep, m, ids)
    PROVE  \E n \in DOMAIN m : m[n].identity = x.identity
<1>1. PICK n \in DOMAIN rep.results : x.identity = m[n].identity
  BY DEF RowsOf
<1>2. QED
  BY <1>1 DEF Fits

\* A report, a meta that fits it and a numbering of its rows are what RowsOf takes.
LEMMA ProperRows ==
    ASSUME NEW r \in Runs, NEW rep \in Reports[r], NEW m \in Metas[r], Fits(rep, m),
           NEW ids, Numbering(ids), DOMAIN rep.results \subseteq DOMAIN ids
    PROVE  Proper(rep, m, ids)
BY ReportConstants, MetaConstants DEF Proper

\* The store is initially the result of an ingest per run.
LEMMA StoreInit == Init => StoreOK
<1> SUFFICES ASSUME Init PROVE StoreOK
  OBVIOUS
<1>1. PICK ids \in RowIds : rows = [r \in Runs |-> RowsOf(report[r], meta[r], ids)]
  BY DEF Init
<1>2. \A r \in Runs : report[r] \in Reports[r]
  BY DEF Init
<1>3. meta = [r \in Runs |-> meta[r]] /\ \A r \in Runs : meta[r] \in Metas[r] /\ Fits(report[r], meta[r])
  BY DEF Init
<1>4. ASSUME NEW r \in Runs PROVE Proper(report[r], meta[r], ids)
  <2>1. Numbering(ids) /\ DOMAIN report[r].results \subseteq DOMAIN ids
    BY <1>2, IdsConstants, ReportConstants
  <2>2. QED
    BY <1>2, <1>3, <2>1, ProperRows
<1>5. /\ counts = [r \in Runs |-> CountsOf(report[r], meta[r])] /\ alive = Runs
      /\ verdict = [i \in Identities |-> IF \E r \in Runs : i \in IdentitiesIn(r) THEN "unmarked" ELSE None]
      /\ baseline \in [Projects -> {None}] /\ setter = None /\ writes = 0
  BY DEF Init
<1>6. \A r \in Runs : rows[r] \subseteq Row /\ counts[r] \in [Severities -> Nat]
  BY <1>1, <1>4, <1>5, RowsTyped, CountsTyped
<1>7. StoreTyped
  <2>1. rows \in [Runs -> SUBSET Row] /\ counts \in [Runs -> [Severities -> Nat]]
    BY <1>1, <1>5, <1>6
  <2>2. verdict \in [Identities -> Shown \cup {None, "gone"}]
    BY <1>5, Constants
  <2>3. baseline \in [Projects -> Runs \cup {None}] /\ setter \in Runs \cup {None} /\ writes \in 0..MaxWrites
    BY <1>5, Constants
  <2>4. QED
    BY <1>2, <1>3, <1>5, <2>1, <2>2, <2>3 DEF StoreTyped
<1>8. RowsStand
  BY <1>1, <1>4, <1>5 DEF RowsStand, Ingested
<1>9. IdentitiesStand
  <2> SUFFICES ASSUME NEW r \in Runs, NEW x \in rows[r] PROVE verdict[x.identity] \in Shown
    BY DEF IdentitiesStand
  <2>1. x.identity \in Identities /\ x.identity \in IdentitiesIn(r)
    BY <1>6 DEF Row, IdentitiesIn
  <2>2. QED
    BY <1>5, <2>1, Constants
<1>10. QED
  BY <1>7, <1>8, <1>9 DEF StoreOK

\* A writer that leaves the rows alone may change verdicts and the baseline.
LEMMA StoreKept ==
    ASSUME StoreOK, UNCHANGED <<report, meta, rows, counts, alive>>,
           verdict' \in [Identities -> Shown \cup {None, "gone"}],
           \A r \in Runs : \A x \in rows[r] : verdict'[x.identity] \in Shown,
           baseline' \in [Projects -> Runs \cup {None}], setter' \in Runs \cup {None},
           writes' \in 0..MaxWrites
    PROVE  StoreOK'
<1>1. StoreTyped'
  BY DEF StoreOK, StoreTyped
<1>2. RowsStand'
  BY DEF StoreOK, RowsStand
<1>3. IdentitiesStand'
  BY DEF IdentitiesStand
<1>4. QED
  BY <1>1, <1>2, <1>3 DEF StoreOK

\* Writers are counted up to the bound.
LEMMA WritesBound ==
    ASSUME StoreOK, Writes
    PROVE  writes' \in 0..MaxWrites /\ writes' \in Nat
BY Constants DEF StoreOK, StoreTyped, Writes

\* A PATCH changes the verdict of an identity that exists.
LEMMA PatchStore ==
    ASSUME NEW i \in Identities, NEW v \in Range(Verdicts), StoreOK, Patch(i, v)
    PROVE  StoreOK'
<1>1. /\ UNCHANGED <<report, meta, rows, counts, alive, baseline, setter>>
      /\ verdict' = [verdict EXCEPT ![i] = v] /\ Writes
  BY DEF Patch
<1>2. v \in Shown
  BY DEF Shown
<1>3. verdict \in [Identities -> Shown \cup {None, "gone"}] /\ IdentitiesStand
      /\ baseline \in [Projects -> Runs \cup {None}] /\ setter \in Runs \cup {None}
  BY DEF StoreOK, StoreTyped
<1>4. verdict' \in [Identities -> Shown \cup {None, "gone"}]
  BY <1>1, <1>2, <1>3
<1>5. \A r \in Runs : \A x \in rows[r] : verdict'[x.identity] \in Shown
  BY <1>1, <1>2, <1>3 DEF IdentitiesStand
<1>6. QED
  BY <1>1, <1>3, <1>4, <1>5, StoreKept, WritesBound

\* Checking and storing a baseline leave the rows alone.
LEMMA BaselineSteps ==
    ASSUME StoreOK, (\E r \in Runs : BaselineCheck(r)) \/ BaselineStore
    PROVE  StoreOK'
<1>1. /\ verdict \in [Identities -> Shown \cup {None, "gone"}] /\ IdentitiesStand
      /\ baseline \in [Projects -> Runs \cup {None}] /\ setter \in Runs \cup {None}
      /\ writes \in 0..MaxWrites
  BY DEF StoreOK, StoreTyped
<1>2. ASSUME NEW r \in Runs, BaselineCheck(r) PROVE StoreOK'
  <2>1. UNCHANGED <<report, meta, rows, counts, alive, verdict, baseline, writes>> /\ setter' = r
    BY <1>2 DEF BaselineCheck
  <2>2. QED
    BY <1>1, <2>1, StoreKept DEF IdentitiesStand
<1>3. CASE BaselineStore
  <2>1. /\ UNCHANGED <<report, meta, rows, counts, alive, verdict>> /\ setter' = None /\ Writes
        /\ setter \in Runs /\ baseline' = [baseline EXCEPT ![ProjectOf[setter]] = setter]
    BY <1>1, <1>3 DEF BaselineStore
  <2>2. baseline' \in [Projects -> Runs \cup {None}]
    BY <1>1, <2>1
  <2>3. QED
    BY <1>1, <2>1, <2>2, StoreKept, WritesBound DEF IdentitiesStand
<1>4. QED
  BY <1>2, <1>3

\* The rows of the others stay; an identity used is not gone.
LEMMA ReplaceStore ==
    ASSUME NEW r \in Runs, NEW m \in Metas[r], NEW ids \in RowIds, StoreOK, Replace(r, m, ids)
    PROVE  StoreOK'
<1> DEFINE ids2 == [n \in DOMAIN ids |-> 10 * writes' + ids[n]]
<1>1. /\ r \in alive /\ Fits(report[r], m) /\ \A n \in DOMAIN m : verdict[m[n].identity] # "gone"
      /\ Writes /\ meta' = [meta EXCEPT ![r] = m]
      /\ rows' = [rows EXCEPT ![r] = RowsOf(report[r], m, ids2)]
      /\ counts' = [counts EXCEPT ![r] = CountsOf(report[r], m)]
      /\ verdict' = [i \in Identities |->
            IF verdict[i] = None /\ \E n \in DOMAIN m : m[n].identity = i THEN "unmarked" ELSE verdict[i]]
      /\ UNCHANGED <<report, alive, baseline, setter>>
  BY DEF Replace, CountsStored
<1>2. StoreTyped /\ RowsStand /\ IdentitiesStand /\ report[r] \in Reports[r]
  BY DEF StoreOK, StoreTyped
<1>3. writes' \in 0..MaxWrites /\ writes' \in Nat
  BY <1>1, WritesBound
<1>4. Proper(report[r], m, ids2)
  <2>1. Numbering(ids) /\ DOMAIN report[r].results \subseteq DOMAIN ids
    BY <1>2, IdsConstants, ReportConstants
  <2>2. \A n \in DOMAIN ids : ids[n] \in Nat
    BY <2>1 DEF Numbering, Range
  <2>3. \A a, b \in DOMAIN ids : ids[a] = ids[b] => a = b
    BY <2>1 DEF Numbering, IsInjective
  <2>4. DOMAIN ids2 = DOMAIN ids /\ \A n \in DOMAIN ids : ids2[n] = 10 * writes' + ids[n] /\ ids2[n] \in Nat
    BY <1>3, <2>2
  <2> HIDE DEF ids2
  <2>5. \A a, b \in DOMAIN ids2 : ids2[a] = ids2[b] => a = b
    BY <1>3, <2>2, <2>3, <2>4
  <2>6. Numbering(ids2)
    BY <2>4, <2>5 DEF Numbering, IsInjective, Range
  <2>7. QED
    BY <1>1, <1>2, <2>1, <2>4, <2>6, ProperRows
<1> DEFINE fresh == RowsOf(report[r], m, ids2)
<1>5. fresh \subseteq Row /\ CountsOf(report[r], m) \in [Severities -> Nat]
  BY <1>4, RowsTyped, CountsTyped
<1>6. \A x \in fresh : \E n \in DOMAIN m : m[n].identity = x.identity
  BY <1>1, RowsNamed
<1>7. Ingested(fresh, CountsOf(report[r], m), report[r], m)
  BY <1>4 DEF Ingested
<1> HIDE DEF fresh, ids2
<1>8. rows' = [rows EXCEPT ![r] = fresh]
  BY <1>1 DEF fresh
<1>9. /\ rows'[r] = fresh /\ meta'[r] = m /\ counts'[r] = CountsOf(report[r], m)
      /\ \A q \in Runs : q # r => rows'[q] = rows[q] /\ meta'[q] = meta[q] /\ counts'[q] = counts[q]
  BY <1>1, <1>2, <1>8 DEF StoreTyped
<1>10. verdict' \in [Identities -> Shown \cup {None, "gone"}]
  BY <1>1, <1>2, Constants DEF StoreTyped
<1>11. StoreTyped'
  <2>1. rows' \in [Runs -> SUBSET Row]
    BY <1>2, <1>5, <1>8 DEF StoreTyped
  <2>2. counts' \in [Runs -> [Severities -> Nat]]
    BY <1>1, <1>2, <1>5 DEF StoreTyped
  <2>3. meta' = [q \in Runs |-> meta'[q]]
    BY <1>1, <1>2 DEF StoreTyped
  <2>4. alive' \subseteq Runs /\ (\A q \in Runs : report'[q] \in Reports[q])
        /\ baseline' \in [Projects -> Runs \cup {None}] /\ setter' \in Runs \cup {None}
    BY <1>1, <1>2 DEF StoreTyped
  <2>5. QED
    BY <1>3, <1>10, <2>1, <2>2, <2>3, <2>4 DEF StoreTyped
<1>12. RowsStand'
  <2> SUFFICES ASSUME NEW q \in Runs
               PROVE  /\ q \in alive => Ingested(rows'[q], counts'[q], report[q], meta'[q])
                      /\ q \notin alive => rows'[q] = {}
    BY <1>1 DEF RowsStand
  <2>1. CASE q = r
    BY Zenon, <1>1, <1>7, <1>9, <2>1
  <2>2. CASE q # r
    BY Zenon, <1>2, <1>9, <2>2 DEF RowsStand
  <2>3. QED
    BY <2>1, <2>2
<1>13. IdentitiesStand'
  <2> SUFFICES ASSUME NEW q \in Runs, NEW x \in rows'[q] PROVE verdict'[x.identity] \in Shown
    BY DEF IdentitiesStand
  <2>1. CASE q = r
    <3>1. x.identity \in Identities /\ \E n \in DOMAIN m : m[n].identity = x.identity
      BY <1>5, <1>6, <1>9, <2>1 DEF Row
    <3>2. verdict[x.identity] # "gone" /\ verdict[x.identity] \in Shown \cup {None, "gone"}
      BY <1>1, <1>2, <3>1 DEF StoreTyped
    <3>3. QED
      BY <1>1, <3>1, <3>2, Constants
  <2>2. CASE q # r
    <3>1. x \in rows[q] /\ verdict[x.identity] \in Shown /\ x \in Row
      BY <1>2, <1>9, <2>2 DEF IdentitiesStand, StoreTyped
    <3>2. x.identity \in Identities
      BY <3>1 DEF Row
    <3>3. QED
      BY <1>1, <3>1, <3>2, Constants
  <2>3. QED
    BY <2>1, <2>2
<1>14. QED
  BY <1>11, <1>12, <1>13 DEF StoreOK

\* A deletion takes the rows of a run, and the identities no other row refers to.
LEMMA DeleteStore ==
    ASSUME NEW r \in Runs, StoreOK, DeleteRun(r)
    PROVE  StoreOK'
<1>1. /\ r \in alive /\ Writes /\ alive' = alive \ {r} /\ rows' = [rows EXCEPT ![r] = {}]
      /\ verdict' = [i \in Identities |->
            IF /\ i \in IdentitiesOf(ProjectOf[r]) /\ verdict[i] # None
               /\ \A q \in alive' : i \notin IdentitiesIn(q)
            THEN "gone" ELSE verdict[i]]
      /\ baseline' = [baseline EXCEPT ![ProjectOf[r]] = IF @ = r THEN None ELSE @]
      /\ UNCHANGED <<report, meta, counts, setter>>
  BY DEF DeleteRun
<1>2. StoreTyped /\ RowsStand /\ IdentitiesStand
  BY DEF StoreOK
<1>3. writes' \in 0..MaxWrites
  BY <1>1, WritesBound
<1>4. rows'[r] = {} /\ \A q \in Runs : q # r => rows'[q] = rows[q]
  BY <1>1, <1>2 DEF StoreTyped
<1>5. StoreTyped'
  <2>1. rows' \in [Runs -> SUBSET Row]
    BY <1>1, <1>2 DEF StoreTyped
  <2>2. verdict' \in [Identities -> Shown \cup {None, "gone"}]
    BY <1>1, <1>2 DEF StoreTyped
  <2>3. baseline' \in [Projects -> Runs \cup {None}]
    BY <1>1, <1>2 DEF StoreTyped
  <2>4. QED
    BY <1>1, <1>2, <1>3, <2>1, <2>2, <2>3 DEF StoreTyped
<1>6. RowsStand'
  <2> SUFFICES ASSUME NEW q \in Runs
               PROVE  /\ q \in alive' => Ingested(rows'[q], counts[q], report[q], meta[q])
                      /\ q \notin alive' => rows'[q] = {}
    BY <1>1 DEF RowsStand
  <2>1. CASE q = r
    BY <1>1, <1>4, <2>1
  <2>2. CASE q # r
    <3>1. (q \in alive' <=> q \in alive) /\ rows'[q] = rows[q]
      BY <1>1, <1>4, <2>2
    <3>2. QED
      BY Zenon, <1>2, <3>1 DEF RowsStand
  <2>3. QED
    BY <2>1, <2>2
<1>7. IdentitiesStand'
  <2> SUFFICES ASSUME NEW q \in Runs, NEW x \in rows'[q] PROVE verdict'[x.identity] \in Shown
    BY DEF IdentitiesStand
  <2>1. q # r /\ x \in rows[q]
    BY <1>4
  <2>2. q \in alive'
    BY <1>1, <1>2, <2>1 DEF RowsStand
  <2>3. x \in Row /\ verdict[x.identity] \in Shown
    BY <1>2, <2>1 DEF StoreTyped, IdentitiesStand
  <2>4. x.identity \in Identities /\ x.identity \in IdentitiesIn(q)
    BY <2>1, <2>3 DEF Row, IdentitiesIn
  <2>5. QED
    BY <1>1, <2>2, <2>3, <2>4
<1>8. QED
  BY <1>5, <1>6, <1>7 DEF StoreOK

\* A step that reads keeps the store.
LEMMA StoreIdle ==
    ASSUME StoreOK, UNCHANGED store
    PROVE  StoreOK'
<1>1. UNCHANGED <<report, meta, rows, counts, alive, verdict, baseline, setter, writes>>
  BY DEF store
<1>2. QED
  BY <1>1, StoreKept DEF StoreOK, StoreTyped, IdentitiesStand

\* Every step keeps the store.
LEMMA StoreStep ==
    ASSUME StoreOK, [Next]_vars
    PROVE  StoreOK'
<1>1. CASE UNCHANGED vars
  BY <1>1, StoreIdle DEF vars, store
<1>2. CASE UNCHANGED store
  BY <1>2, StoreIdle
<1>3. ASSUME NEW r \in Runs, NEW m \in Metas[r], NEW ids \in RowIds, Replace(r, m, ids) PROVE StoreOK'
  BY <1>3, ReplaceStore
<1>4. ASSUME NEW r \in Runs, DeleteRun(r) PROVE StoreOK'
  BY <1>4, DeleteStore
<1>5. ASSUME NEW i \in Identities, NEW v \in Range(Verdicts), Patch(i, v) PROVE StoreOK'
  BY <1>5, PatchStore
<1>6. QED
  BY Zenon, <1>1, <1>2, <1>3, <1>4, <1>5, BaselineSteps, ReadersOnlyRead DEF Next

\* The store is in order in every behaviour.
LEMMA StoreHolds == Spec => []StoreOK
<1>1. StoreOK /\ [Next]_vars => StoreOK'
  BY StoreStep
<1>2. QED
  BY <1>1, StoreInit, PTL DEF Spec

\* Counters and rows of one ingest agree.
LEMMA StoreCounts == StoreOK => CountsAgree
<1> SUFFICES ASSUME StoreOK, NEW r \in alive, NEW s \in Severities
             PROVE  counts[r][s] = IF s \in DOMAIN Aggregation(r) THEN Aggregation(r)[s] ELSE 0
  BY DEF CountsAgree
<1>1. r \in Runs /\ Ingested(rows[r], counts[r], report[r], meta[r])
  BY DEF StoreOK, StoreTyped, RowsStand
<1>2. PICK ids : Proper(report[r], meta[r], ids) /\ rows[r] = RowsOf(report[r], meta[r], ids)
  BY <1>1 DEF Ingested
<1> DEFINE xs == {x \in rows[r] : x.severity = s}
<1>3. counts[r][s] = Cardinality(xs)
  BY <1>1, <1>2, RowsCounted DEF Ingested, CountsOf
<1>4. CASE s \in {x.severity : x \in rows[r]}
  BY <1>3, <1>4 DEF Aggregation
<1>5. CASE s \notin {x.severity : x \in rows[r]}
  <2>1. xs = {}
    BY <1>5
  <2>2. Cardinality(xs) = 0
    BY <2>1, FS_EmptySet
  <2>3. QED
    BY <1>3, <1>5, <2>2 DEF Aggregation
<1>6. QED
  BY <1>4, <1>5

\* The counters in the list of runs are what a count of the rows gives,
\* whatever has been uploaded, uploaded again or deleted (runs.py:528-540
\* against ingest.py:195-221).
THEOREM CountersMatchRows == Spec => []CountsAgree
BY StoreHolds, StoreCounts, PTL

-----------------------------------------------------------------------------
(* What a reader gets of the rows.                                         *)

\* The rows of a run are finitely many, and told apart by their ids.
LEMMA RowsFine ==
    ASSUME StoreOK, NEW r \in Runs
    PROVE  IsFiniteSet(rows[r]) /\ rows[r] \subseteq Row /\ Distinct(rows[r])
<1>1. CASE r \in alive
  <2>1. PICK ids : Proper(report[r], meta[r], ids) /\ rows[r] = RowsOf(report[r], meta[r], ids)
    BY <1>1 DEF StoreOK, RowsStand, Ingested
  <2>2. QED
    BY <2>1, RowsTyped, RowsDistinct, RowsCounted
<1>2. CASE r \notin alive
  <2>1. rows[r] = {}
    BY <1>2 DEF StoreOK, RowsStand
  <2>2. QED
    BY <2>1, FS_EmptySet DEF Distinct
<1>3. QED
  BY <1>1, <1>2

\* So are those a filter lets through.
LEMMA MatchingFine ==
    ASSUME StoreOK, NEW r \in Runs, NEW verdicts
    PROVE  LET S == Matching(r, verdicts) IN
           /\ IsFiniteSet(S) /\ S \subseteq rows[r] /\ S \subseteq Row /\ Cardinality(S) \in Nat
<1>1. Matching(r, verdicts) \in SUBSET rows[r]
  BY DEF Matching
<1>2. IsFiniteSet(Matching(r, verdicts))
  BY <1>1, RowsFine, FS_Subset
<1>3. QED
  BY <1>1, <1>2, RowsFine, FS_CardinalityType

\* A listing of a set: each member once.
LEMMA ListingOf ==
    ASSUME NEW S, IsFiniteSet(S), NEW s \in SetToSeqs(S)
    PROVE  /\ s \in Seq(S) /\ Len(s) = Cardinality(S) /\ DOMAIN s = 1..Len(s) /\ Len(s) \in Nat
           /\ Range(s) = S
           /\ \A i, j \in DOMAIN s : i # j => s[i] # s[j]
<1> DEFINE n == Cardinality(S)
<1>1. n \in Nat
  BY FS_CardinalityType
<1> HIDE DEF n
<1>2. s \in [1..n -> S] /\ \A i, j \in 1..n : i # j => s[i] # s[j]
  BY DEF SetToSeqs, n
<1>3. s \in Seq(S) /\ Len(s) = n /\ DOMAIN s = 1..n
  BY <1>1, <1>2
<1>4. s \in Injection(1..n, S)
  BY <1>2 DEF Injection, IsInjective
<1>5. s \in Surjection(1..n, S)
  <2>1. IsFiniteSet(1..n) /\ Cardinality(1..n) = n
    BY <1>1, CountTo
  <2>2. QED
    BY <1>4, <2>1, FS_Injection DEF n
<1>6. Range(s) = S
  BY <1>2, <1>5 DEF Surjection, Range
<1>7. QED
  BY <1>1, <1>2, <1>3, <1>6 DEF n

\* The smaller of two numbers.
LEMMA MinOfTwo ==
    ASSUME NEW a \in Int, NEW b \in Int
    PROVE  Min({a, b}) = IF a <= b THEN a ELSE b
BY DEF Min

\* The elements of a stretch of a sequence.
LEMMA Prefix ==
    ASSUME NEW T, NEW s \in Seq(T), NEW lo \in Nat, lo >= 1, NEW hi \in Nat, hi <= Len(s)
    PROVE  /\ SubSeq(s, lo, hi) \in Seq(T)
           /\ Len(SubSeq(s, lo, hi)) = IF lo <= hi THEN hi - lo + 1 ELSE 0
           /\ \A i \in 1..Len(SubSeq(s, lo, hi)) : SubSeq(s, lo, hi)[i] = s[lo + i - 1]
OBVIOUS

\* The clamp of a page size is at least one.
LEMMA SizeFine ==
    ASSUME NEW n \in Int
    PROVE  AtLeastOne(n) \in Nat /\ AtLeastOne(n) >= 1
BY DEF AtLeastOne

\* A page: what there is of the next size rows.
LEMMA PageFine ==
    ASSUME NEW T, NEW s \in Seq(T), NEW offset \in Nat, NEW size \in Nat, size >= 1
    PROVE  LET page == SubSeq(s, offset + 1, Min({offset + size, Len(s)})) IN
           /\ page \in Seq(T)
           /\ offset + size <= Len(s) => Len(page) = size
           /\ offset <= Len(s) /\ Len(s) < offset + size => Len(page) = Len(s) - offset
           /\ \A i \in 1..Len(page) : page[i] = s[offset + i]
<1> DEFINE hi == Min({offset + size, Len(s)})
           page == SubSeq(s, offset + 1, hi)
<1>1. Len(s) \in Nat
  OBVIOUS
<1>2. hi = IF offset + size <= Len(s) THEN offset + size ELSE Len(s)
  BY <1>1, MinOfTwo
<1> HIDE DEF hi
<1>3. hi \in Nat /\ hi <= Len(s)
  BY <1>1, <1>2
<1>4. /\ page \in Seq(T)
      /\ Len(page) = IF offset + 1 <= hi THEN hi - (offset + 1) + 1 ELSE 0
      /\ \A i \in 1..Len(page) : page[i] = s[offset + 1 + i - 1]
  BY <1>3, Prefix
<1> HIDE DEF page
<1>5. \A i \in 1..Len(page) : offset + 1 + i - 1 = offset + i
  OBVIOUS
<1>6. offset + size <= Len(s) => Len(page) = size
  BY <1>1, <1>2, <1>4
<1>7. offset <= Len(s) /\ Len(s) < offset + size => Len(page) = Len(s) - offset
  BY <1>1, <1>2, <1>4
<1>8. QED
  BY <1>4, <1>5, <1>6, <1>7 DEF page, hi

-----------------------------------------------------------------------------
(* The reader, as a record.                                                *)

Loads == Shown \cup {None, "gone", "unread"}
Texts == Shown \cup {None, "unread"}
VerdictFilters == {q.verdicts : q \in Queries}

\* Answers, and the stages of each kind of request.
Statuses == {0, 200, 400, 404, 413}
WalkSteps == {"check", "count", "page", "done"}
DiffSteps == {"run", "project", "exists", "target", "against", "done"}
ReportSteps == {"run", "query", "toc", "cards", "done"}
PageNumbers == Nat \ {0}

\* A request of each kind.
WalkReader ==
    [kind : {"walk"}, pc : WalkSteps, run : Runs, query : Queries,
     page : PageNumbers, items : Seq(Row), total : Nat, status : Statuses, disturbed : BOOLEAN]

DiffReader ==
    [kind : {"diff"}, pc : DiffSteps, run : Runs,
     base : Runs \cup {None}, target : SUBSET Row, against : SUBSET Row,
     status : Statuses, disturbed : BOOLEAN]

ReportReader ==
    [kind : {"report"}, pc : ReportSteps, run : Runs,
     verdicts : VerdictFilters, items : Seq(Row), loaded : [Identities -> Loads],
     toc : Seq(Texts), cards : Seq(Texts), status : Statuses, disturbed : BOOLEAN]

ReaderTyped == reader = Idle \/ reader \in WalkReader \cup DiffReader \cup ReportReader

\* The request under way is of exactly one kind.
LEMMA KindsApart ==
    ASSUME ReaderTyped
    PROVE  /\ reader.kind = "walk" => reader \in WalkReader
           /\ reader.kind = "diff" => reader \in DiffReader
           /\ reader.kind = "report" => reader \in ReportReader
           /\ reader.pc = "idle" <=> reader = Idle
           /\ reader.kind = "none" <=> reader = Idle
BY DEF ReaderTyped, Idle, WalkReader, DiffReader, ReportReader, WalkSteps, DiffSteps, ReportSteps

\* A walk that is disturbed is a walk.
LEMMA WalkFlag ==
    ASSUME NEW d \in WalkReader
    PROVE  [d EXCEPT !.disturbed = TRUE] \in WalkReader
BY Zenon DEF WalkReader

\* A diff that is disturbed is a diff.
LEMMA DiffFlag ==
    ASSUME NEW d \in DiffReader
    PROVE  [d EXCEPT !.disturbed = TRUE] \in DiffReader
BY Zenon DEF DiffReader

\* A report that is disturbed is a report.
LEMMA ReportFlag ==
    ASSUME NEW d \in ReportReader
    PROVE  [d EXCEPT !.disturbed = TRUE] \in ReportReader
BY Zenon DEF ReportReader

\* A commit changes one flag of a request at most.
Flagged == reader' = reader \/ (reader.pc # "idle" /\ reader' = [reader EXCEPT !.disturbed = TRUE])

\* The flag is all a writer changes of a request.
LEMMA FlaggedFields ==
    ASSUME ReaderTyped, Flagged
    PROVE  /\ ReaderTyped'
           /\ reader'.kind = reader.kind /\ reader'.pc = reader.pc
           /\ reader.kind # "none" => reader'.run = reader.run /\ reader'.status = reader.status
           /\ reader.kind = "walk" =>
                /\ reader'.query = reader.query /\ reader'.page = reader.page
                /\ reader'.items = reader.items /\ reader'.total = reader.total
           /\ reader.kind = "diff" =>
                /\ reader'.base = reader.base /\ reader'.target = reader.target
                /\ reader'.against = reader.against
           /\ reader.kind = "report" =>
                /\ reader'.verdicts = reader.verdicts /\ reader'.items = reader.items
                /\ reader'.loaded = reader.loaded /\ reader'.toc = reader.toc
                /\ reader'.cards = reader.cards
<1>1. CASE reader' = reader
  BY <1>1 DEF ReaderTyped
<1>2. CASE reader.pc # "idle" /\ reader' = [reader EXCEPT !.disturbed = TRUE]
  <2>1. CASE reader \in WalkReader
    <3>1. reader' \in WalkReader
      BY Zenon, <1>2, <2>1, WalkFlag
    <3>2. /\ reader'.kind = reader.kind /\ reader'.pc = reader.pc /\ reader'.run = reader.run
          /\ reader'.status = reader.status
          /\ reader'.query = reader.query /\ reader'.page = reader.page
          /\ reader'.items = reader.items /\ reader'.total = reader.total
      BY <1>2, <2>1 DEF WalkReader
    <3>3. reader.kind = "walk"
      BY <2>1 DEF WalkReader
    <3>4. QED
      BY <3>1, <3>2, <3>3 DEF ReaderTyped
  <2>2. CASE reader \in DiffReader
    <3>1. reader' \in DiffReader
      BY Zenon, <1>2, <2>2, DiffFlag
    <3>2. /\ reader'.kind = reader.kind /\ reader'.pc = reader.pc /\ reader'.run = reader.run
          /\ reader'.status = reader.status
          /\ reader'.base = reader.base /\ reader'.target = reader.target /\ reader'.against = reader.against
      BY <1>2, <2>2 DEF DiffReader
    <3>3. reader.kind = "diff"
      BY <2>2 DEF DiffReader
    <3>4. QED
      BY <3>1, <3>2, <3>3 DEF ReaderTyped
  <2>3. CASE reader \in ReportReader
    <3>1. reader' \in ReportReader
      BY Zenon, <1>2, <2>3, ReportFlag
    <3>2. /\ reader'.kind = reader.kind /\ reader'.pc = reader.pc /\ reader'.run = reader.run
          /\ reader'.status = reader.status
          /\ reader'.verdicts = reader.verdicts /\ reader'.items = reader.items
          /\ reader'.loaded = reader.loaded
          /\ reader'.toc = reader.toc /\ reader'.cards = reader.cards
      BY <1>2, <2>3 DEF ReportReader
    <3>3. reader.kind = "report"
      BY <2>3 DEF ReportReader
    <3>4. QED
      BY <3>1, <3>2, <3>3 DEF ReaderTyped
  <2>4. reader # Idle
    BY <1>2 DEF Idle
  <2>5. QED
    BY <2>1, <2>2, <2>3, <2>4 DEF ReaderTyped
<1>3. QED
  BY <1>1, <1>2 DEF Flagged

\* Disturb sets the flag of a request whose reads are touched.
LEMMA DisturbFlags ==
    ASSUME NEW touched \in BOOLEAN, Disturb(touched)
    PROVE  /\ Flagged
           /\ reader.pc # "idle" /\ touched => reader' = [reader EXCEPT !.disturbed = TRUE]
BY DEF Disturb, Flagged

\* The commits of the writers.
Writer ==
    \/ \E r \in Runs : (\E m \in Metas[r], ids \in RowIds : Replace(r, m, ids)) \/ DeleteRun(r)
    \/ \E i \in Identities, v \in Range(Verdicts) : Patch(i, v)
    \/ BaselineStore

\* A writer changes nothing of a request but its flag.
LEMMA WritersFlag == Writer \/ (\E r \in Runs : BaselineCheck(r)) => Flagged
BY Zenon DEF Writer, Replace, DeleteRun, Patch, BaselineStore, BaselineCheck, Disturb, Flagged

-----------------------------------------------------------------------------
(* The steps of a reader, field by field.                                  *)

\* What a step of a request does not change; so below for the other kinds.
WalkSame ==
    /\ reader \in WalkReader /\ reader' \in WalkReader /\ UNCHANGED store
    /\ reader'.kind = "walk"
    /\ reader'.run = reader.run /\ reader'.query = reader.query /\ reader'.disturbed = reader.disturbed

\* Each field of a walk may take each of its values.
LEMMA WalkUpdates ==
    ASSUME NEW d \in WalkReader
    PROVE  /\ \A v \in WalkSteps : [d EXCEPT !.pc = v] \in WalkReader
           /\ \A v \in Statuses : [d EXCEPT !.status = v] \in WalkReader
           /\ \A v \in Nat : [d EXCEPT !.total = v] \in WalkReader
           /\ \A v \in PageNumbers : [d EXCEPT !.page = v] \in WalkReader
           /\ \A v \in Seq(Row) : [d EXCEPT !.items = v] \in WalkReader
BY Zenon DEF WalkReader

\* What the start of a walk does.
LEMMA WalkStartFields ==
    ASSUME NEW r \in Runs, NEW query \in Queries, WalkStart(r, query)
    PROVE  /\ reader' \in WalkReader /\ UNCHANGED store
           /\ reader'.kind = "walk" /\ reader'.pc = "check" /\ reader'.page = 1 /\ reader'.items = <<>>
           /\ reader'.run = r /\ reader'.query = query
<1>1. reader' = [kind |-> "walk", pc |-> "check", run |-> r, query |-> query,
                  page |-> 1, items |-> <<>>, total |-> 0, status |-> 0, disturbed |-> FALSE]
      /\ UNCHANGED store
  BY DEF WalkStart
<1>2. 1 \in PageNumbers /\ <<>> \in Seq(Row) /\ 0 \in Nat /\ 0 \in Statuses /\ FALSE \in BOOLEAN
      /\ "check" \in WalkSteps /\ "walk" \in {"walk"}
  BY DEF PageNumbers, Statuses, WalkSteps
<1>3. reader' \in WalkReader
  BY Zenon, <1>1, <1>2 DEF WalkReader
<1>4. QED
  BY <1>1, <1>3

\* What looking for the run does.
LEMMA WalkCheckFields ==
    ASSUME ReaderTyped, WalkCheck
    PROVE  /\ WalkSame /\ reader.pc = "check"
           /\ reader'.page = reader.page /\ reader'.items = reader.items /\ reader'.total = reader.total
           /\ IF reader.run \in alive THEN reader'.pc = "count"
              ELSE reader'.pc = "done" /\ reader'.status = 404
<1>1. reader \in WalkReader /\ reader.pc = "check" /\ UNCHANGED store
      /\ reader' = IF reader.run \in alive THEN [reader EXCEPT !.pc = "count"]
                   ELSE [reader EXCEPT !.pc = "done", !.status = 404]
  BY KindsApart DEF WalkCheck
<1>2. reader' \in WalkReader
  <2>1. "count" \in WalkSteps /\ "done" \in WalkSteps /\ 404 \in Statuses
    BY DEF WalkSteps, Statuses
  <2>2. \A d : [d EXCEPT !.pc = "done", !.status = 404] = [[d EXCEPT !.pc = "done"] EXCEPT !.status = 404]
    OBVIOUS
  <2>3. CASE reader.run \in alive
    BY Zenon, <1>1, <2>1, <2>3, WalkUpdates
  <2>4. CASE reader.run \notin alive
    <3>1. reader' = [[reader EXCEPT !.pc = "done"] EXCEPT !.status = 404]
      BY Zenon, <1>1, <2>2, <2>4
    <3>2. [reader EXCEPT !.pc = "done"] \in WalkReader
      BY Zenon, <1>1, <2>1, WalkUpdates
    <3>3. QED
      BY Zenon, <2>1, <3>1, <3>2, WalkUpdates
  <2>5. QED
    BY <2>3, <2>4
<1>3. /\ reader'.run = reader.run /\ reader'.query = reader.query /\ reader'.disturbed = reader.disturbed
      /\ reader'.page = reader.page /\ reader'.items = reader.items /\ reader'.total = reader.total
      /\ IF reader.run \in alive THEN reader'.pc = "count"
              ELSE reader'.pc = "done" /\ reader'.status = 404
      /\ reader'.kind = "walk"
  BY <1>1 DEF WalkReader
<1>4. QED
  BY <1>1, <1>2, <1>3 DEF WalkSame

\* What counting the rows does.
LEMMA WalkCountFields ==
    ASSUME StoreOK, ReaderTyped, WalkCount
    PROVE  /\ WalkSame /\ reader.pc = "count" /\ reader'.pc = "page"
           /\ reader'.page = reader.page /\ reader'.items = reader.items
           /\ reader'.total = Cardinality(Matching(reader.run, reader.query.verdicts))
<1> DEFINE n == Cardinality(Matching(reader.run, reader.query.verdicts))
<1>1. reader \in WalkReader /\ reader.pc = "count" /\ UNCHANGED store
      /\ reader' = [reader EXCEPT !.pc = "page", !.total = n]
  BY KindsApart DEF WalkCount
<1>2. reader.run \in Runs
  BY <1>1 DEF WalkReader
<1>3. n \in Nat
  BY <1>2, MatchingFine
<1> HIDE DEF n
<1>4. reader' \in WalkReader
  <2>1. \A d : [d EXCEPT !.pc = "page", !.total = n] = [[d EXCEPT !.pc = "page"] EXCEPT !.total = n]
    OBVIOUS
  <2>2. "page" \in WalkSteps
    BY DEF WalkSteps
  <2>3. QED
    BY Zenon, <1>1, <1>3, <2>1, <2>2, WalkUpdates
<1>5. /\ reader'.run = reader.run /\ reader'.query = reader.query /\ reader'.disturbed = reader.disturbed
      /\ reader'.page = reader.page /\ reader'.items = reader.items /\ reader'.total = n
      /\ reader'.pc = "page" /\ reader'.kind = "walk"
  BY <1>1 DEF WalkReader
<1>6. QED
  BY <1>1, <1>4, <1>5 DEF WalkSame, n

\* The listings of a walk.
WalkListings(r, query) ==
    {s \in SetToSeqs(Matching(r, query.verdicts)) :
       \A i, j \in DOMAIN s : i < j => ~Before(s[j], s[i], query)}

\* What fetching a page does.
LEMMA WalkPageFields ==
    ASSUME StoreOK, ReaderTyped, WalkPage
    PROVE  /\ WalkSame /\ reader.pc = "page" /\ reader'.total = reader.total
           /\ reader'.page = reader.page + 1
           /\ \E s \in WalkListings(reader.run, reader.query) :
                LET size == AtLeastOne(reader.query.size)
                    new == Page(s, reader.page, size) IN
                /\ s \in Seq(Row) /\ new \in Seq(Row)
                /\ reader'.items = reader.items \o new
                /\ IF Len(new) < size THEN reader'.pc = "done" /\ reader'.status = 200
                   ELSE reader'.pc = "check"
<1> DEFINE size == AtLeastOne(reader.query.size)
           Less(x, y) == Before(x, y, reader.query)
<1>1. reader \in WalkReader /\ reader.pc = "page" /\ UNCHANGED store
  BY KindsApart DEF WalkPage
<1>2. reader.run \in Runs /\ reader.page \in Nat /\ reader.page >= 1 /\ reader.items \in Seq(Row)
      /\ reader.page + 1 \in PageNumbers /\ reader.query \in Queries /\ reader.status \in Statuses
  BY <1>1 DEF WalkReader, PageNumbers
<1>3. AtLeastOne(reader.page) = reader.page
  BY <1>2 DEF AtLeastOne
<1>4. PICK s \in WalkListings(reader.run, reader.query) :
          LET new == Page(s, reader.page, size) IN
          reader' = [reader EXCEPT !.items = @ \o new, !.page = @ + 1,
                        !.pc = IF Len(new) < size THEN "done" ELSE "check",
                        !.status = IF Len(new) < size THEN 200 ELSE @]
  BY <1>3 DEF WalkPage, Sorted, WalkListings
<1> DEFINE new == Page(s, reader.page, size)
<1>5. s \in Seq(Row)
  <2>1. IsFiniteSet(Matching(reader.run, reader.query.verdicts))
        /\ Matching(reader.run, reader.query.verdicts) \subseteq Row
    BY <1>2, MatchingFine
  <2>2. s \in SetToSeqs(Matching(reader.run, reader.query.verdicts))
    BY DEF WalkListings
  <2>3. s \in Seq(Matching(reader.run, reader.query.verdicts))
    BY <2>1, <2>2, ListingOf
  <2>4. QED
    BY <2>1, <2>3
<1>6. size \in Nat /\ size >= 1
  <2>1. reader.query.size \in Int
    BY <1>2, ListingAssumption
  <2>2. QED
    BY <2>1, SizeFine
<1> DEFINE offset == (reader.page - 1) * size
<1>7. offset \in Nat
  <2>1. reader.page - 1 \in Nat
    BY <1>2
  <2>2. QED
    BY <1>6, <2>1
<1>8. new \in Seq(Row)
  <2> HIDE DEF size, offset
  <2>1. SubSeq(s, offset + 1, Min({offset + size, Len(s)})) \in Seq(Row)
    BY <1>5, <1>6, <1>7, PageFine
  <2>2. QED
    BY <2>1 DEF Page, offset
<1> HIDE DEF size, new
<1>9. reader.items \o new \in Seq(Row)
  BY <1>2, <1>8
<1> DEFINE all == reader.items \o new
           pc2 == IF Len(new) < size THEN "done" ELSE "check"
           st2 == IF Len(new) < size THEN 200 ELSE reader.status
<1>10. reader' = [reader EXCEPT !.items = all, !.page = reader.page + 1, !.pc = pc2, !.status = st2]
  BY <1>1, <1>4 DEF WalkReader, new
<1>11. all \in Seq(Row) /\ pc2 \in WalkSteps /\ st2 \in Statuses
  BY <1>2, <1>9 DEF WalkSteps, Statuses
<1>16. IF Len(new) < size THEN pc2 = "done" /\ st2 = 200 ELSE pc2 = "check"
  OBVIOUS
<1> DEFINE next == reader.page + 1
<1> HIDE DEF all, pc2, st2, next
<1>12. reader' \in WalkReader
  <2>1. next \in PageNumbers
    BY <1>2 DEF next
  <2>2. \A d : [d EXCEPT !.items = all, !.page = next, !.pc = pc2, !.status = st2]
                 = [[[[d EXCEPT !.items = all] EXCEPT !.page = next] EXCEPT !.pc = pc2] EXCEPT !.status = st2]
    OBVIOUS
  <2>3. reader' = [[[[reader EXCEPT !.items = all] EXCEPT !.page = next] EXCEPT !.pc = pc2] EXCEPT !.status = st2]
    BY Zenon, <1>10, <2>2 DEF next
  <2>4. [reader EXCEPT !.items = all] \in WalkReader
    BY Zenon, <1>1, <1>11, WalkUpdates
  <2>5. [[reader EXCEPT !.items = all] EXCEPT !.page = next] \in WalkReader
    BY Zenon, <2>1, <2>4, WalkUpdates
  <2>6. [[[reader EXCEPT !.items = all] EXCEPT !.page = next] EXCEPT !.pc = pc2] \in WalkReader
    BY Zenon, <1>11, <2>5, WalkUpdates
  <2>7. QED
    BY Zenon, <1>11, <2>3, <2>6, WalkUpdates
<1>13. /\ reader'.run = reader.run /\ reader'.query = reader.query /\ reader'.disturbed = reader.disturbed
       /\ reader'.page = next /\ reader'.items = all /\ reader'.total = reader.total
       /\ reader'.pc = pc2 /\ reader'.kind = "walk" /\ reader'.status = st2
  BY <1>1, <1>10 DEF WalkReader, next
<1>14. WalkSame
  BY <1>1, <1>12, <1>13 DEF WalkSame
<1>15. QED
  BY <1>1, <1>4, <1>5, <1>8, <1>13, <1>14, <1>16 DEF size, new, all, next

DiffSame ==
    /\ reader \in DiffReader /\ reader' \in DiffReader /\ UNCHANGED store
    /\ reader'.kind = "diff" /\ reader'.run = reader.run /\ reader'.disturbed = reader.disturbed

\* Each field of a diff may take each of its values.
LEMMA DiffUpdates ==
    ASSUME NEW d \in DiffReader
    PROVE  /\ \A v \in DiffSteps : [d EXCEPT !.pc = v] \in DiffReader
           /\ \A v \in Statuses : [d EXCEPT !.status = v] \in DiffReader
           /\ \A v \in Runs \cup {None} : [d EXCEPT !.base = v] \in DiffReader
           /\ \A v \in SUBSET Row : [d EXCEPT !.target = v] \in DiffReader
           /\ \A v \in SUBSET Row : [d EXCEPT !.against = v] \in DiffReader
BY Zenon DEF DiffReader

\* So may the pairs of fields a step of a diff writes.
LEMMA DiffMoves ==
    ASSUME NEW d \in DiffReader, NEW p \in DiffSteps
    PROVE  /\ \A v \in Statuses : [d EXCEPT !.pc = p, !.status = v] \in DiffReader
           /\ \A v \in Runs \cup {None} : [d EXCEPT !.pc = p, !.base = v] \in DiffReader
           /\ \A v \in SUBSET Row : [d EXCEPT !.pc = p, !.target = v] \in DiffReader
           /\ \A v \in SUBSET Row, w \in Statuses :
                [d EXCEPT !.pc = p, !.against = v, !.status = w] \in DiffReader
<1> DEFINE e == [d EXCEPT !.pc = p]
<1>1. e \in DiffReader
  BY DiffUpdates
<1>2. /\ \A v : [d EXCEPT !.pc = p, !.status = v] = [e EXCEPT !.status = v]
      /\ \A v : [d EXCEPT !.pc = p, !.base = v] = [e EXCEPT !.base = v]
      /\ \A v : [d EXCEPT !.pc = p, !.target = v] = [e EXCEPT !.target = v]
      /\ \A v, w : [d EXCEPT !.pc = p, !.against = v, !.status = w] = [[e EXCEPT !.against = v] EXCEPT !.status = w]
  OBVIOUS
<1> HIDE DEF e
<1>3. \A v \in SUBSET Row : [e EXCEPT !.against = v] \in DiffReader
  BY Zenon, <1>1, DiffUpdates
<1>4. \A v \in SUBSET Row, w \in Statuses : [[e EXCEPT !.against = v] EXCEPT !.status = w] \in DiffReader
  BY Zenon, <1>3, DiffUpdates
<1>5. \A v \in SUBSET Row : [e EXCEPT !.target = v] \in DiffReader
  BY Zenon, <1>1, DiffUpdates
<1>6. \A v \in Runs \cup {None} : [e EXCEPT !.base = v] \in DiffReader
  BY Zenon, <1>1, DiffUpdates
<1>7. \A v \in Statuses : [e EXCEPT !.status = v] \in DiffReader
  BY Zenon, <1>1, DiffUpdates
<1>8. QED
  BY Zenon, <1>2, <1>4, <1>5, <1>6, <1>7

\* What the start of a diff does.
LEMMA DiffStartFields ==
    ASSUME NEW r \in Runs, NEW asked \in Runs \cup {None}, DiffStart(r, asked)
    PROVE  /\ reader' \in DiffReader /\ UNCHANGED store
           /\ reader'.kind = "diff" /\ reader'.pc = "run" /\ reader'.run = r
<1>1. reader' = [kind |-> "diff", pc |-> "run", run |-> r, base |-> asked,
                  target |-> {}, against |-> {}, status |-> 0, disturbed |-> FALSE]
      /\ UNCHANGED store
  BY DEF DiffStart
<1>2. {} \in SUBSET Row /\ 0 \in Statuses /\ FALSE \in BOOLEAN
      /\ "run" \in DiffSteps /\ "diff" \in {"diff"}
  BY DEF Statuses, DiffSteps
<1>3. reader' \in DiffReader
  BY Zenon, <1>1, <1>2 DEF DiffReader
<1>4. QED
  BY <1>1, <1>3

\* What a diff that answers says.
DiffDone(status) ==
    /\ reader'.pc = "done" /\ reader'.status = status
    /\ reader'.base = reader.base

\* What the answer to a diff does.
LEMMA DiffAnswerFields ==
    ASSUME reader \in DiffReader, UNCHANGED store, NEW status \in Statuses, DiffAnswer(status)
    PROVE  DiffSame /\ DiffDone(status)
<1>1. reader' = [reader EXCEPT !.pc = "done", !.status = status]
  BY DEF DiffAnswer
<1>2. "done" \in DiffSteps
  BY DEF DiffSteps
<1>3. reader' \in DiffReader
  BY Zenon, <1>1, <1>2, DiffMoves
<1>4. /\ reader'.kind = "diff" /\ reader'.run = reader.run /\ reader'.disturbed = reader.disturbed
      /\ reader'.pc = "done" /\ reader'.status = status /\ reader'.base = reader.base
  BY <1>1 DEF DiffReader
<1>5. QED
  BY <1>3, <1>4 DEF DiffSame, DiffDone

\* What looking for the run does.
LEMMA DiffRunFields ==
    ASSUME ReaderTyped, DiffRun
    PROVE  /\ DiffSame /\ reader.pc = "run"
           /\ IF reader.run \in alive THEN reader'.pc = "project" ELSE DiffDone(404)
<1>1. reader \in DiffReader /\ reader.pc = "run" /\ UNCHANGED store
  BY KindsApart DEF DiffRun
<1>2. CASE reader.run \notin alive
  <2>1. DiffAnswer(404) /\ 404 \in Statuses
    BY <1>2 DEF DiffRun, Statuses
  <2>2. QED
    BY <1>1, <1>2, <2>1, DiffAnswerFields
<1>3. CASE reader.run \in alive
  <2>1. reader' = [reader EXCEPT !.pc = "project"] /\ "project" \in DiffSteps
    BY <1>3 DEF DiffRun, DiffSteps
  <2>2. reader' \in DiffReader
    BY Zenon, <1>1, <2>1, DiffUpdates
  <2>3. /\ reader'.kind = "diff" /\ reader'.run = reader.run /\ reader'.disturbed = reader.disturbed
        /\ reader'.pc = "project"
    BY <1>1, <2>1 DEF DiffReader
  <2>4. QED
    BY <1>1, <1>3, <2>2, <2>3 DEF DiffSame
<1>4. QED
  BY <1>2, <1>3

\* What choosing the baseline does.
LEMMA DiffBaselineFields ==
    ASSUME StoreOK, ReaderTyped, DiffBaseline
    PROVE  /\ DiffSame /\ reader.pc = "project"
           /\ LET base == IF reader.base # None THEN reader.base ELSE baseline[ProjectOf[reader.run]] IN
              IF base = None THEN DiffDone(400) /\ reader.base = None
              ELSE reader'.pc = "exists" /\ reader'.base = base /\ base \in Runs
<1> DEFINE base == IF reader.base # None THEN reader.base ELSE baseline[ProjectOf[reader.run]]
<1>1. reader \in DiffReader /\ reader.pc = "project" /\ UNCHANGED store
      /\ IF base = None THEN DiffAnswer(400) ELSE reader' = [reader EXCEPT !.pc = "exists", !.base = base]
  BY KindsApart DEF DiffBaseline
<1>2. reader.base \in Runs \cup {None} /\ reader.run \in Runs
  BY <1>1 DEF DiffReader
<1>3. base \in Runs \cup {None}
  BY <1>2, Constants DEF StoreOK, StoreTyped
<1>4. base = None => reader.base = None
  OBVIOUS
<1> HIDE DEF base
<1>5. CASE base = None
  <2>1. DiffAnswer(400) /\ 400 \in Statuses
    BY <1>1, <1>5 DEF Statuses
  <2>2. QED
    BY <1>1, <1>4, <1>5, <2>1, DiffAnswerFields DEF base
<1>6. CASE base # None
  <2>1. reader' = [reader EXCEPT !.pc = "exists", !.base = base] /\ "exists" \in DiffSteps
    BY <1>1, <1>6 DEF DiffSteps
  <2>2. reader' \in DiffReader
    BY Zenon, <1>1, <1>3, <2>1, DiffMoves
  <2>3. /\ reader'.kind = "diff" /\ reader'.run = reader.run /\ reader'.disturbed = reader.disturbed
        /\ reader'.pc = "exists" /\ reader'.base = base
    BY <1>1, <2>1 DEF DiffReader
  <2>4. QED
    BY <1>1, <1>3, <1>6, <2>2, <2>3 DEF DiffSame, base
<1>7. QED
  BY <1>5, <1>6

\* What looking for the baseline run does.
LEMMA DiffExistsFields ==
    ASSUME ReaderTyped, DiffExists
    PROVE  /\ DiffSame /\ reader.pc = "exists"
           /\ IF reader.base \notin alive THEN DiffDone(404)
              ELSE IF ProjectOf[reader.base] # ProjectOf[reader.run] THEN DiffDone(400)
              ELSE reader'.pc = "target" /\ reader'.base = reader.base
<1>1. reader \in DiffReader /\ reader.pc = "exists" /\ UNCHANGED store
      /\ IF reader.base \notin alive THEN DiffAnswer(404)
         ELSE IF ProjectOf[reader.base] # ProjectOf[reader.run] THEN DiffAnswer(400)
         ELSE reader' = [reader EXCEPT !.pc = "target"]
  BY KindsApart DEF DiffExists, BaselineExists
<1>2. 400 \in Statuses /\ 404 \in Statuses /\ "target" \in DiffSteps
  BY DEF Statuses, DiffSteps
<1>3. CASE reader.base \notin alive
  BY <1>1, <1>2, <1>3, DiffAnswerFields
<1>4. CASE reader.base \in alive /\ ProjectOf[reader.base] # ProjectOf[reader.run]
  BY <1>1, <1>2, <1>4, DiffAnswerFields
<1>5. CASE reader.base \in alive /\ ~(ProjectOf[reader.base] # ProjectOf[reader.run])
  <2>1. reader' = [reader EXCEPT !.pc = "target"]
    BY <1>1, <1>5
  <2>2. reader' \in DiffReader
    BY Zenon, <1>1, <1>2, <2>1, DiffUpdates
  <2>3. /\ reader'.kind = "diff" /\ reader'.run = reader.run /\ reader'.disturbed = reader.disturbed
        /\ reader'.pc = "target" /\ reader'.base = reader.base
    BY <1>1, <2>1 DEF DiffReader
  <2>4. QED
    BY <1>1, <1>5, <2>2, <2>3 DEF DiffSame
<1>6. QED
  BY <1>3, <1>4, <1>5

\* Past the check a diff has its baseline.
DiffHasBase ==
    reader.kind = "diff" /\ reader.pc \in {"exists", "target", "against"} => reader.base \in Runs

\* What reading the two sets of rows does.
LEMMA DiffReadsFields ==
    ASSUME StoreOK, ReaderTyped, DiffHasBase, DiffTarget \/ DiffAgainst
    PROVE  /\ DiffSame /\ reader'.base = reader.base
           /\ \/ reader.pc = "target" /\ reader'.pc = "against" /\ reader'.target = rows[reader.run]
              \/ /\ reader.pc = "against" /\ reader'.pc = "done" /\ reader'.status = 200
                 /\ reader'.target = reader.target /\ reader'.against = rows[reader.base]
<1>1. reader \in DiffReader /\ UNCHANGED store
  BY KindsApart DEF DiffTarget, DiffAgainst
<1>2. reader.run \in Runs /\ reader.base \in Runs \cup {None}
  BY <1>1 DEF DiffReader
<1>3. CASE DiffTarget
  <2>1. reader' = [reader EXCEPT !.pc = "against", !.target = rows[reader.run]]
        /\ reader.pc = "target" /\ "against" \in DiffSteps
    BY <1>3 DEF DiffTarget, DiffSteps
  <2>2. rows[reader.run] \in SUBSET Row
    BY <1>2 DEF StoreOK, StoreTyped
  <2>3. reader' \in DiffReader
    BY Zenon, <1>1, <2>1, <2>2, DiffMoves
  <2>4. /\ reader'.kind = "diff" /\ reader'.run = reader.run /\ reader'.disturbed = reader.disturbed
        /\ reader'.pc = "against" /\ reader'.base = reader.base /\ reader'.target = rows[reader.run]
    BY <1>1, <2>1 DEF DiffReader
  <2>5. QED
    BY <1>1, <2>1, <2>3, <2>4 DEF DiffSame
<1>4. CASE DiffAgainst
  <2>1. reader' = [reader EXCEPT !.pc = "done", !.against = rows[reader.base], !.status = 200]
        /\ reader.pc = "against" /\ "done" \in DiffSteps /\ 200 \in Statuses
    BY <1>4 DEF DiffAgainst, DiffSteps, Statuses
  <2>2. rows[reader.base] \in SUBSET Row
    <3>1. reader.base \in Runs
      BY <1>4 DEF DiffAgainst, DiffHasBase
    <3>2. QED
      BY <3>1 DEF StoreOK, StoreTyped
  <2>3. reader' \in DiffReader
    BY Zenon, <1>1, <2>1, <2>2, DiffMoves
  <2>4. /\ reader'.kind = "diff" /\ reader'.run = reader.run /\ reader'.disturbed = reader.disturbed
        /\ reader'.pc = "done" /\ reader'.base = reader.base /\ reader'.target = reader.target
        /\ reader'.against = rows[reader.base] /\ reader'.status = 200
    BY <1>1, <2>1 DEF DiffReader
  <2>5. QED
    BY <1>1, <2>1, <2>3, <2>4 DEF DiffSame
<1>5. QED
  BY <1>3, <1>4

ReportSame ==
    /\ reader \in ReportReader /\ reader' \in ReportReader /\ UNCHANGED store
    /\ reader'.kind = "report" /\ reader'.run = reader.run /\ reader'.verdicts = reader.verdicts
    /\ reader'.disturbed = reader.disturbed

\* Each field of a report may take each of its values.
LEMMA ReportUpdates ==
    ASSUME NEW d \in ReportReader
    PROVE  /\ \A v \in ReportSteps : [d EXCEPT !.pc = v] \in ReportReader
           /\ \A v \in Statuses : [d EXCEPT !.status = v] \in ReportReader
           /\ \A v \in Seq(Row) : [d EXCEPT !.items = v] \in ReportReader
           /\ \A v \in [Identities -> Loads] : [d EXCEPT !.loaded = v] \in ReportReader
           /\ \A v \in Seq(Texts) : [d EXCEPT !.toc = v] \in ReportReader
           /\ \A v \in Seq(Texts) : [d EXCEPT !.cards = v] \in ReportReader
BY Zenon DEF ReportReader

\* What the start of a report does.
LEMMA ReportStartFields ==
    ASSUME NEW r \in Runs, NEW verdicts \in VerdictFilters, ReportStart(r, verdicts)
    PROVE  /\ reader' \in ReportReader /\ UNCHANGED store
           /\ reader'.kind = "report" /\ reader'.pc = "run" /\ reader'.run = r
           /\ reader'.items = <<>> /\ reader'.toc = <<>> /\ reader'.cards = <<>>
<1> DEFINE none == [i \in Identities |-> "unread"]
<1>1. reader' = [kind |-> "report", pc |-> "run", run |-> r, verdicts |-> verdicts,
                  items |-> <<>>, loaded |-> none,
                  toc |-> <<>>, cards |-> <<>>, status |-> 0, disturbed |-> FALSE]
      /\ UNCHANGED store
  BY DEF ReportStart
<1>2. <<>> \in Seq(Row) /\ <<>> \in Seq(Texts) /\ 0 \in Statuses /\ FALSE \in BOOLEAN
      /\ "run" \in ReportSteps /\ "report" \in {"report"}
  BY DEF Statuses, ReportSteps
<1>3. none \in [Identities -> Loads]
  BY DEF Loads
<1> HIDE DEF none
<1>4. reader' \in ReportReader
  BY Zenon, <1>1, <1>2, <1>3 DEF ReportReader
<1>5. QED
  BY <1>1, <1>4

\* A refusal.
ReportRefused(status) ==
    /\ reader'.pc = "done" /\ reader'.status = status /\ reader'.items = reader.items
    /\ reader'.toc = reader.toc /\ reader'.cards = reader.cards /\ reader'.loaded = reader.loaded

\* What the answer to a report does.
LEMMA ReportAnswerFields ==
    ASSUME reader \in ReportReader, UNCHANGED store, NEW status \in Statuses, ReportAnswer(status)
    PROVE  ReportSame /\ ReportRefused(status)
<1>1. reader' = [reader EXCEPT !.pc = "done", !.status = status]
  BY DEF ReportAnswer
<1>2. "done" \in ReportSteps
  BY DEF ReportSteps
<1> DEFINE e == [reader EXCEPT !.pc = "done"]
<1>3. reader' = [e EXCEPT !.status = status]
  BY <1>1
<1>4. e \in ReportReader
  BY Zenon, <1>2, ReportUpdates
<1> HIDE DEF e
<1>5. reader' \in ReportReader
  BY Zenon, <1>3, <1>4, ReportUpdates
<1>6. /\ reader'.kind = "report" /\ reader'.run = reader.run /\ reader'.disturbed = reader.disturbed
      /\ reader'.verdicts = reader.verdicts
      /\ reader'.pc = "done" /\ reader'.status = status /\ reader'.items = reader.items
      /\ reader'.toc = reader.toc /\ reader'.cards = reader.cards /\ reader'.loaded = reader.loaded
  BY <1>1 DEF ReportReader
<1>7. QED
  BY <1>5, <1>6 DEF ReportSame, ReportRefused

\* What looking for the run does.
LEMMA ReportRunFields ==
    ASSUME ReaderTyped, ReportRun
    PROVE  /\ ReportSame /\ reader.pc = "run"
           /\ reader'.items = reader.items /\ reader'.toc = reader.toc
           /\ reader'.cards = reader.cards /\ reader'.loaded = reader.loaded
           /\ IF reader.run \in alive THEN reader'.pc = "query" ELSE ReportRefused(404)
<1>1. reader \in ReportReader /\ reader.pc = "run" /\ UNCHANGED store
  BY KindsApart DEF ReportRun
<1>2. CASE reader.run \notin alive
  <2>1. ReportAnswer(404) /\ 404 \in Statuses
    BY <1>2 DEF ReportRun, Statuses
  <2>2. ReportSame /\ ReportRefused(404)
    BY <1>1, <2>1, ReportAnswerFields
  <2>3. QED
    BY <1>1, <1>2, <2>2 DEF ReportRefused
<1>3. CASE reader.run \in alive
  <2>1. reader' = [reader EXCEPT !.pc = "query"] /\ "query" \in ReportSteps
    BY <1>3 DEF ReportRun, ReportSteps
  <2>2. reader' \in ReportReader
    BY Zenon, <1>1, <2>1, ReportUpdates
  <2>3. /\ reader'.kind = "report" /\ reader'.run = reader.run /\ reader'.disturbed = reader.disturbed
        /\ reader'.verdicts = reader.verdicts /\ reader'.pc = "query"
        /\ reader'.items = reader.items /\ reader'.toc = reader.toc
        /\ reader'.cards = reader.cards /\ reader'.loaded = reader.loaded
    BY <1>1, <2>1 DEF ReportReader
  <2>4. QED
    BY <1>1, <1>3, <2>2, <2>3 DEF ReportSame
<1>4. QED
  BY <1>2, <1>3

\* Cut one past the limit, a listing tells how it compares with the limit.
LEMMA CutFine ==
    ASSUME NEW T, NEW s \in Seq(T)
    PROVE  LET found == SubSeq(s, 1, Min({Fetched, Len(s)})) IN
           /\ found \in Seq(T)
           /\ found = <<>> <=> Len(s) = 0
           /\ Len(found) > MaxFindings <=> Len(s) > MaxFindings
           /\ Len(s) <= MaxFindings => found = s
<1> DEFINE n == Len(s)
           hi == Min({Fetched, n})
<1>1. n \in Nat /\ Fetched \in Nat /\ Fetched = MaxFindings + 1 /\ MaxFindings \in Nat
  BY Constants DEF Fetched
<1>2. hi = IF Fetched <= n THEN Fetched ELSE n
  BY <1>1, MinOfTwo
<1>3. hi \in Nat /\ hi <= n /\ (n <= MaxFindings => hi = n) /\ (n > MaxFindings => hi = MaxFindings + 1)
  BY <1>1, <1>2
<1> HIDE DEF hi
<1> DEFINE found == SubSeq(s, 1, hi)
<1>4. found \in Seq(T) /\ Len(found) = hi
  BY <1>3, Prefix
<1>5. hi = n => found = s
  BY <1>3
<1>6. found = <<>> <=> hi = 0
  BY <1>3, <1>4
<1>7. hi = 0 <=> n = 0
  BY <1>1, <1>3
<1>8. hi > MaxFindings <=> n > MaxFindings
  BY <1>1, <1>3
<1>9. QED
  BY <1>3, <1>4, <1>5, <1>6, <1>7, <1>8 DEF hi, found

\* What selecting the findings does: all of them, or an answer that refuses.
LEMMA ReportQueryFields ==
    ASSUME StoreOK, ReaderTyped, ReportQuery
    PROVE  /\ ReportSame /\ reader.pc = "query"
           /\ reader'.toc = reader.toc /\ reader'.cards = reader.cards /\ reader'.loaded = reader.loaded
           /\ LET S == Matching(reader.run, reader.verdicts) IN
              IF S = {} THEN ReportRefused(404)
              ELSE IF Cardinality(S) > MaxFindings THEN ReportRefused(413)
              ELSE /\ reader'.pc = "toc" /\ Range(reader'.items) = S /\ Len(reader'.items) > 0
<1> DEFINE S == Matching(reader.run, reader.verdicts)
           Less(x, y) == SeverityRank[x.severity] < SeverityRank[y.severity]
<1>1. reader \in ReportReader /\ reader.pc = "query" /\ UNCHANGED store
  BY KindsApart DEF ReportQuery
<1>2. PICK s \in SetToSeqs(S) :
        LET found == SubSeq(s, 1, Min({Fetched, Len(s)})) IN
         IF found = <<>> THEN ReportAnswer(404)
         ELSE IF Len(found) > MaxFindings THEN ReportAnswer(413)
         ELSE reader' = [reader EXCEPT !.pc = "toc", !.items = found]
  BY DEF ReportQuery, Sorted
<1>3. IsFiniteSet(S) /\ S \subseteq Row
  <2>1. reader.run \in Runs
    BY <1>1 DEF ReportReader
  <2>2. QED
    BY <2>1, MatchingFine
<1> HIDE DEF S
<1>4. s \in Seq(S) /\ Len(s) = Cardinality(S) /\ Range(s) = S /\ Len(s) \in Nat
  BY <1>3, ListingOf
<1>5. s \in Seq(Row)
  BY <1>3, <1>4
<1>6. Len(s) = 0 <=> S = {}
  <2>1. Cardinality(S) = 0 <=> S = {}
    BY <1>3, FS_EmptySet
  <2>2. QED
    BY <1>4, <2>1
<1> DEFINE found == SubSeq(s, 1, Min({Fetched, Len(s)}))
<1>7. /\ found \in Seq(Row)
      /\ found = <<>> <=> Len(s) = 0
      /\ Len(found) > MaxFindings <=> Len(s) > MaxFindings
      /\ Len(s) <= MaxFindings => found = s
  BY <1>5, CutFine
<1>8. IF found = <<>> THEN ReportAnswer(404)
         ELSE IF Len(found) > MaxFindings THEN ReportAnswer(413)
         ELSE reader' = [reader EXCEPT !.pc = "toc", !.items = found]
  BY <1>2
<1> HIDE DEF found
<1>9. 404 \in Statuses /\ 413 \in Statuses /\ "toc" \in ReportSteps
  BY DEF Statuses, ReportSteps
<1>10. CASE S = {}
  <2>1. ReportSame /\ ReportRefused(404)
    BY <1>1, <1>6, <1>7, <1>8, <1>9, <1>10, ReportAnswerFields
  <2>2. QED
    BY <1>1, <1>10, <2>1 DEF S, ReportRefused
<1>11. CASE S # {} /\ Cardinality(S) > MaxFindings
  <2>1. ReportSame /\ ReportRefused(413)
    BY <1>1, <1>4, <1>6, <1>7, <1>8, <1>9, <1>11, ReportAnswerFields
  <2>2. QED
    BY <1>1, <1>11, <2>1 DEF S, ReportRefused
<1>12. CASE S # {} /\ ~(Cardinality(S) > MaxFindings)
  <2>1. reader' = [reader EXCEPT !.pc = "toc", !.items = found]
    BY <1>4, <1>6, <1>7, <1>8, <1>12
  <2>2. found = s /\ Len(s) > 0
    <3>1. Len(s) <= MaxFindings /\ Len(s) # 0
      BY <1>4, <1>6, <1>12, Constants
    <3>2. Len(s) > 0
      BY <1>4, <3>1
    <3>3. QED
      BY <1>7, <3>1, <3>2
  <2> DEFINE e == [reader EXCEPT !.pc = "toc"]
  <2>3. reader' = [e EXCEPT !.items = found]
    BY <2>1
  <2>4. e \in ReportReader
    BY Zenon, <1>1, <1>9, ReportUpdates
  <2>5. reader' \in ReportReader
    <3> HIDE DEF e
    <3>1. QED
      BY Zenon, <1>7, <2>3, <2>4, ReportUpdates
  <2>6. /\ reader'.kind = "report" /\ reader'.run = reader.run /\ reader'.disturbed = reader.disturbed
        /\ reader'.verdicts = reader.verdicts /\ reader'.pc = "toc"
        /\ reader'.items = found /\ reader'.toc = reader.toc
        /\ reader'.cards = reader.cards /\ reader'.loaded = reader.loaded
    BY <1>1, <2>1 DEF ReportReader
  <2>7. QED
    BY <1>1, <1>4, <1>12, <2>2, <2>5, <2>6 DEF ReportSame, S
<1>13. QED
  BY <1>10, <1>11, <1>12

\* An identity is read once; what it said then is what is printed from then on.
LEMMA LoadFine ==
    ASSUME StoreOK, NEW loaded \in [Identities -> Loads], NEW i \in Identities
    PROVE  LET new == Loaded(loaded, i) IN
           /\ new \in [Identities -> Loads] /\ new[i] # "unread"
           /\ \A j \in Identities : loaded[j] # "unread" => new[j] = loaded[j]
           /\ Printed(new[i]) \in Texts
<1> DEFINE new == Loaded(loaded, i)
<1>1. verdict[i] \in Shown \cup {None, "gone"} /\ verdict[i] # "unread" /\ verdict[i] \in Loads
  BY Constants DEF StoreOK, StoreTyped, Loads
<1>2. CASE loaded[i] = "unread"
  <2>1. new = [loaded EXCEPT ![i] = verdict[i]]
    BY <1>2 DEF Loaded
  <2>2. new \in [Identities -> Loads] /\ new[i] = verdict[i] /\ \A j \in Identities : j # i => new[j] = loaded[j]
    BY <1>1, <2>1
  <2>3. Printed(new[i]) \in Texts
    BY <1>1, <2>2, Constants DEF Printed, Texts
  <2>4. QED
    BY <1>1, <1>2, <2>2, <2>3
<1>3. CASE loaded[i] # "unread"
  <2>1. new = loaded
    BY <1>3 DEF Loaded
  <2>2. Printed(new[i]) \in Texts
    BY <2>1, Constants DEF Printed, Texts, Loads
  <2>3. QED
    BY <1>3, <2>1, <2>2
<1>4. QED
  BY <1>2, <1>3

\* What has been printed is what the session holds of the identity.
Says(items, loaded, texts) ==
    \A k \in 1..Len(texts) :
      loaded[items[k].identity] # "unread" /\ texts[k] = Printed(loaded[items[k].identity])

\* The table is printed first, then the cards, an entry a step.
Stages(pc, items, toc, cards) ==
    /\ Len(toc) <= Len(items) /\ Len(cards) <= Len(toc)
    /\ pc \in {"run", "query"} => Len(toc) = 0 /\ Len(cards) = 0
    /\ pc = "toc" => Len(toc) < Len(items) /\ Len(cards) = 0
    /\ pc = "cards" => Len(toc) = Len(items) /\ Len(cards) < Len(items)

\* What a report has printed so far.
Spoken ==
    reader.kind = "report" =>
      /\ Stages(reader.pc, reader.items, reader.toc, reader.cards)
      /\ Says(reader.items, reader.loaded, reader.toc)
      /\ Says(reader.items, reader.loaded, reader.cards)

\* Reading one more identity leaves what was said as it is.
LEMMA SaysStill ==
    ASSUME NEW items \in Seq(Row), NEW loaded \in [Identities -> Loads], NEW new \in [Identities -> Loads],
           \A j \in Identities : loaded[j] # "unread" => new[j] = loaded[j],
           NEW texts \in Seq(Texts), Len(texts) <= Len(items), Says(items, loaded, texts)
    PROVE  Says(items, new, texts)
<1> SUFFICES ASSUME NEW k \in 1..Len(texts)
             PROVE  new[items[k].identity] # "unread" /\ texts[k] = Printed(new[items[k].identity])
  BY DEF Says
<1>1. items[k] \in Row
  OBVIOUS
<1>2. items[k].identity \in Identities
  BY <1>1 DEF Row
<1>3. QED
  BY <1>2 DEF Says

\* A list that says what was read goes on to do so with one more entry.
LEMMA SaysMore ==
    ASSUME NEW items \in Seq(Row), NEW loaded \in [Identities -> Loads],
           NEW texts \in Seq(Texts), Len(texts) < Len(items), Says(items, loaded, texts),
           loaded[items[Len(texts) + 1].identity] # "unread",
           Printed(loaded[items[Len(texts) + 1].identity]) \in Texts
    PROVE  LET more == Append(texts, Printed(loaded[items[Len(texts) + 1].identity])) IN
           more \in Seq(Texts) /\ Len(more) = Len(texts) + 1 /\ Says(items, loaded, more)
<1> DEFINE n == Len(texts) + 1
           w == Printed(loaded[items[n].identity])
           more == Append(texts, w)
<1>1. w \in Texts /\ Len(texts) \in Nat /\ loaded[items[n].identity] # "unread"
  OBVIOUS
<1> DEFINE same == w
<1> HIDE DEF w
<1>2. more \in Seq(Texts) /\ Len(more) = n /\ more[n] = w /\ \A k \in 1..Len(texts) : more[k] = texts[k]
  BY <1>1
<1> HIDE DEF more
<1>3. ASSUME NEW k \in 1..Len(more)
      PROVE  loaded[items[k].identity] # "unread" /\ more[k] = Printed(loaded[items[k].identity])
  <2>1. CASE k = n
    BY <1>1, <1>2, <2>1 DEF w
  <2>2. CASE k # n
    <3>1. k \in 1..Len(texts)
      BY <1>1, <1>2, <2>2
    <3>2. QED
      BY <1>2, <3>1 DEF Says
  <2>3. QED
    BY <2>1, <2>2
<1>4. QED
  BY <1>2, <1>3 DEF Says, more, w

\* What printing a line of the table of contents does.
LEMMA ReportTocFields ==
    ASSUME StoreOK, ReaderTyped, Spoken, ReportToc
    PROVE  /\ ReportSame /\ reader.pc = "toc" /\ reader'.pc \in {"toc", "cards"}
           /\ reader'.items = reader.items /\ Spoken'
<1>1. reader \in ReportReader /\ reader.pc = "toc" /\ reader.kind = "report" /\ UNCHANGED store
  BY KindsApart DEF ReportToc
<1>2. /\ reader.items \in Seq(Row) /\ reader.loaded \in [Identities -> Loads]
      /\ reader.toc \in Seq(Texts) /\ reader.cards \in Seq(Texts)
  BY <1>1 DEF ReportReader
<1>3. /\ Len(reader.toc) < Len(reader.items) /\ Len(reader.cards) = 0
      /\ Says(reader.items, reader.loaded, reader.toc)
  BY <1>1 DEF Spoken, Stages
<1> DEFINE n == Len(reader.toc) + 1
           i == reader.items[n].identity
           new == Loaded(reader.loaded, i)
           more == Append(reader.toc, Printed(new[i]))
           pc2 == IF Len(more) = Len(reader.items) THEN "cards" ELSE "toc"
<1>4. i \in Identities
  <2>1. n \in 1..Len(reader.items)
    BY <1>2, <1>3
  <2>2. reader.items[n] \in Row
    BY <1>2, <2>1
  <2>3. QED
    BY <2>2 DEF Row
<1>5. reader' = [reader EXCEPT !.loaded = new, !.toc = more, !.pc = pc2]
  BY DEF ReportToc
<1>6. new \in [Identities -> Loads] /\ new[i] # "unread" /\ Printed(new[i]) \in Texts
      /\ \A j \in Identities : reader.loaded[j] # "unread" => new[j] = reader.loaded[j]
  <2> HIDE DEF i, n
  <2>1. QED
    BY <1>2, <1>4, LoadFine
<1> HIDE DEF new
<1>7. Says(reader.items, new, reader.toc)
  <2>1. Len(reader.toc) <= Len(reader.items)
    BY <1>2, <1>3
  <2>2. QED
    BY <1>2, <1>3, <1>6, <2>1, SaysStill
<1>8. more \in Seq(Texts) /\ Len(more) = Len(reader.toc) + 1 /\ Says(reader.items, new, more)
  BY <1>2, <1>3, <1>6, <1>7, SaysMore
<1>9. pc2 \in ReportSteps /\ pc2 \in {"toc", "cards"} /\ (pc2 = "cards" <=> Len(more) = Len(reader.items))
  BY DEF ReportSteps
<1> HIDE DEF more, pc2, i, n
<1>10. reader' \in ReportReader
  <2> DEFINE d1 == [reader EXCEPT !.loaded = new]
             d2 == [d1 EXCEPT !.toc = more]
  <2>1. reader' = [d2 EXCEPT !.pc = pc2]
    BY <1>5
  <2>2. d1 \in ReportReader
    BY Zenon, <1>1, <1>6, ReportUpdates
  <2> HIDE DEF d1
  <2>3. d2 \in ReportReader
    BY Zenon, <1>8, <2>2, ReportUpdates
  <2> HIDE DEF d2
  <2>4. QED
    BY Zenon, <1>9, <2>1, <2>3, ReportUpdates
<1>11. /\ reader'.kind = "report" /\ reader'.run = reader.run /\ reader'.disturbed = reader.disturbed
       /\ reader'.verdicts = reader.verdicts /\ reader'.pc = pc2
       /\ reader'.items = reader.items /\ reader'.toc = more
       /\ reader'.cards = reader.cards /\ reader'.loaded = new
  BY <1>1, <1>5 DEF ReportReader
<1>12. Stages(pc2, reader.items, more, reader.cards)
  <2>1. Len(more) \in Nat /\ Len(reader.items) \in Nat /\ Len(more) = Len(reader.toc) + 1
        /\ Len(reader.toc) < Len(reader.items) /\ Len(reader.toc) \in Nat /\ Len(reader.cards) = 0
    BY <1>2, <1>3, <1>8
  <2>2. Len(more) <= Len(reader.items) /\ (Len(more) # Len(reader.items) => Len(more) < Len(reader.items))
        /\ 0 <= Len(more) /\ 0 < Len(reader.items)
    BY <2>1
  <2>3. QED
    BY <1>9, <2>1, <2>2 DEF Stages
<1>13. Says(reader.items, new, reader.cards)
  <2>1. 1..Len(reader.cards) = {}
    BY <1>3
  <2>2. QED
    BY <2>1 DEF Says
<1>14. Spoken'
  BY Zenon, <1>8, <1>11, <1>12, <1>13 DEF Spoken
<1>15. QED
  BY <1>1, <1>9, <1>10, <1>11, <1>14 DEF ReportSame

\* What printing a card does.
LEMMA ReportCardFields ==
    ASSUME StoreOK, ReaderTyped, Spoken, ReportCard
    PROVE  /\ ReportSame /\ reader.pc = "cards"
           /\ \/ reader'.pc = "cards"
              \/ reader'.pc = "done" /\ reader'.status = 200
           /\ reader'.items = reader.items /\ Spoken'
<1>1. reader \in ReportReader /\ reader.pc = "cards" /\ reader.kind = "report" /\ UNCHANGED store
  BY KindsApart DEF ReportCard
<1>2. /\ reader.items \in Seq(Row) /\ reader.loaded \in [Identities -> Loads]
      /\ reader.toc \in Seq(Texts) /\ reader.cards \in Seq(Texts) /\ reader.status \in Statuses
  BY <1>1 DEF ReportReader
<1>3. /\ Len(reader.cards) < Len(reader.items) /\ Len(reader.toc) = Len(reader.items)
      /\ Says(reader.items, reader.loaded, reader.toc)
      /\ Says(reader.items, reader.loaded, reader.cards)
  BY <1>1 DEF Spoken, Stages
<1> DEFINE n == Len(reader.cards) + 1
           i == reader.items[n].identity
           new == Loaded(reader.loaded, i)
           more == Append(reader.cards, Printed(new[i]))
           last == Len(more) = Len(reader.items)
           pc2 == IF last THEN "done" ELSE "cards"
           st2 == IF last THEN 200 ELSE reader.status
<1>4. i \in Identities
  <2>1. n \in 1..Len(reader.items)
    BY <1>2, <1>3
  <2>2. reader.items[n] \in Row
    BY <1>2, <2>1
  <2>3. QED
    BY <2>2 DEF Row
<1>5. reader' = [reader EXCEPT !.loaded = new, !.cards = more, !.pc = pc2, !.status = st2]
  BY <1>1 DEF ReportCard, ReportReader
<1>6. new \in [Identities -> Loads] /\ new[i] # "unread" /\ Printed(new[i]) \in Texts
      /\ \A j \in Identities : reader.loaded[j] # "unread" => new[j] = reader.loaded[j]
  <2> HIDE DEF i, n
  <2>1. QED
    BY <1>2, <1>4, LoadFine
<1> HIDE DEF new
<1>7. Says(reader.items, new, reader.toc) /\ Says(reader.items, new, reader.cards)
  <2>1. Len(reader.toc) <= Len(reader.items) /\ Len(reader.cards) <= Len(reader.items)
    BY <1>2, <1>3
  <2>2. Says(reader.items, new, reader.toc)
    BY <1>2, <1>3, <1>6, <2>1, SaysStill
  <2>3. Says(reader.items, new, reader.cards)
    BY <1>2, <1>3, <1>6, <2>1, SaysStill
  <2>4. QED
    BY <2>2, <2>3
<1>8. more \in Seq(Texts) /\ Len(more) = Len(reader.cards) + 1 /\ Says(reader.items, new, more)
  BY <1>2, <1>3, <1>6, <1>7, SaysMore
<1>9. (pc2 = "cards" \/ (pc2 = "done" /\ st2 = 200)) /\ (pc2 = "cards" => ~last)
  OBVIOUS
<1>16. pc2 \in ReportSteps /\ st2 \in Statuses
  BY <1>2 DEF ReportSteps, Statuses
<1> HIDE DEF more, pc2, st2, i, n
<1>10. reader' \in ReportReader
  <2> DEFINE d1 == [reader EXCEPT !.loaded = new]
             d2 == [d1 EXCEPT !.cards = more]
             d3 == [d2 EXCEPT !.pc = pc2]
  <2>1. reader' = [d3 EXCEPT !.status = st2]
    BY <1>5
  <2>2. d1 \in ReportReader
    BY Zenon, <1>1, <1>6, ReportUpdates
  <2> HIDE DEF d1
  <2>3. d2 \in ReportReader
    BY Zenon, <1>8, <2>2, ReportUpdates
  <2> HIDE DEF d2
  <2>4. d3 \in ReportReader
    BY Zenon, <1>16, <2>3, ReportUpdates
  <2> HIDE DEF d3
  <2>5. QED
    BY Zenon, <1>16, <2>1, <2>4, ReportUpdates
<1>11. /\ reader'.kind = "report" /\ reader'.run = reader.run /\ reader'.disturbed = reader.disturbed
       /\ reader'.verdicts = reader.verdicts /\ reader'.pc = pc2 /\ reader'.status = st2
       /\ reader'.items = reader.items /\ reader'.toc = reader.toc
       /\ reader'.cards = more /\ reader'.loaded = new
  BY <1>1, <1>5 DEF ReportReader
<1>12. Stages(pc2, reader.items, reader.toc, more)
  <2>1. Len(more) \in Nat /\ Len(reader.items) \in Nat /\ Len(more) = Len(reader.cards) + 1
        /\ Len(reader.toc) = Len(reader.items) /\ Len(reader.cards) < Len(reader.items)
        /\ Len(reader.cards) \in Nat
    BY <1>2, <1>3, <1>8
  <2>2. Len(more) <= Len(reader.toc) /\ (Len(more) # Len(reader.items) => Len(more) < Len(reader.items))
        /\ Len(reader.toc) <= Len(reader.items)
    BY <2>1
  <2>3. QED
    BY <1>9, <2>1, <2>2 DEF Stages
<1>14. Spoken'
  BY Zenon, <1>7, <1>8, <1>11, <1>12 DEF Spoken
<1>15. QED
  BY <1>1, <1>9, <1>10, <1>11, <1>14 DEF ReportSame

-----------------------------------------------------------------------------
(* What holds of the reader at all times.                                  *)

\* A page that is not the last has added something, so the page number is bounded.
WalkPaced ==
    reader.kind = "walk" =>
      /\ reader.pc = "done" => reader.page - 2 <= Len(reader.items)
      /\ reader.pc # "done" => reader.page - 1 <= Len(reader.items)

\* The invariant of the request, whatever the writers do.
ReaderOK == ReaderTyped /\ DiffHasBase /\ Spoken /\ WalkPaced

\* The steps of each kind of request.
WalkActs == (\E r \in Runs, query \in Queries : WalkStart(r, query)) \/ Walk
DiffActs == (\E r \in Runs, asked \in Runs \cup {None} : DiffStart(r, asked)) \/ Diff
ReportActs == (\E r \in Runs, verdicts \in VerdictFilters : ReportStart(r, verdicts)) \/ Report

\* A step is one of a reader, of a writer, or none.
LEMMA StepsOfAReader ==
    ASSUME [Next]_vars
    PROVE  \/ WalkActs \/ DiffActs \/ ReportActs \/ Answered
           \/ Writer \/ (\E r \in Runs : BaselineCheck(r)) \/ UNCHANGED vars
BY Zenon DEF Next, WalkActs, DiffActs, ReportActs, VerdictFilters, Writer

\* The steps of a walk keep what is known of the request.
LEMMA WalkKeeps ==
    ASSUME StoreOK, ReaderOK, WalkActs
    PROVE  ReaderOK'
<1>1. reader' \in WalkReader /\ reader'.kind = "walk" => ReaderTyped' /\ DiffHasBase' /\ Spoken'
  BY DEF ReaderTyped, DiffHasBase, Spoken
<1>2. ReaderTyped
  BY DEF ReaderOK
<1>3. ASSUME NEW r \in Runs, NEW query \in Queries, WalkStart(r, query) PROVE ReaderOK'
  <2>1. /\ reader' \in WalkReader /\ reader'.kind = "walk" /\ reader'.pc = "check" /\ reader'.page = 1
        /\ reader'.items = <<>>
    BY <1>3, WalkStartFields
  <2>2. WalkPaced'
    BY <2>1 DEF WalkPaced
  <2>3. QED
    BY <1>1, <2>1, <2>2 DEF ReaderOK
<1>4. CASE WalkCheck
  <2>1. /\ WalkSame /\ reader.pc = "check"
        /\ reader'.page = reader.page /\ reader'.items = reader.items
        /\ IF reader.run \in alive THEN reader'.pc = "count"
              ELSE reader'.pc = "done" /\ reader'.status = 404
    BY <1>2, <1>4, WalkCheckFields
  <2>2. reader.page \in Nat /\ Len(reader.items) \in Nat /\ reader.page - 1 <= Len(reader.items)
    BY <2>1 DEF WalkSame, WalkReader, PageNumbers, ReaderOK, WalkPaced
  <2>3. WalkPaced'
    BY <2>1, <2>2 DEF WalkPaced
  <2>4. QED
    BY <1>1, <2>1, <2>3 DEF ReaderOK, WalkSame
<1>5. CASE WalkCount
  <2>1. /\ WalkSame /\ reader.pc = "count" /\ reader'.pc = "page"
        /\ reader'.page = reader.page /\ reader'.items = reader.items
    BY <1>2, <1>5, WalkCountFields
  <2>2. reader.page - 1 <= Len(reader.items)
    BY <2>1 DEF WalkSame, WalkReader, ReaderOK, WalkPaced
  <2>3. WalkPaced'
    BY <2>1, <2>2 DEF WalkPaced
  <2>4. QED
    BY <1>1, <2>1, <2>3 DEF ReaderOK, WalkSame
<1>6. CASE WalkPage
  <2> DEFINE size == AtLeastOne(reader.query.size)
  <2>1. /\ WalkSame /\ reader.pc = "page" /\ reader'.page = reader.page + 1
        /\ \E s \in WalkListings(reader.run, reader.query) :
             LET new == Page(s, reader.page, size) IN
                /\ s \in Seq(Row) /\ new \in Seq(Row)
                /\ reader'.items = reader.items \o new
                /\ IF Len(new) < size THEN reader'.pc = "done" /\ reader'.status = 200
                   ELSE reader'.pc = "check"
    BY <1>2, <1>6, WalkPageFields
  <2>2. PICK new \in Seq(Row) :
                /\ reader'.items = reader.items \o new
                /\ IF Len(new) < size THEN reader'.pc = "done" /\ reader'.status = 200
                   ELSE reader'.pc = "check"
    BY <2>1
  <2>3. reader.items \in Seq(Row) /\ reader.page \in Nat /\ reader.page - 1 <= Len(reader.items)
    BY <2>1 DEF WalkSame, WalkReader, PageNumbers, ReaderOK, WalkPaced
  <2>4. size \in Nat /\ size >= 1
    <3>1. reader.query \in Queries
      BY <2>1 DEF WalkSame, WalkReader
    <3>2. reader.query.size \in Int
      BY <3>1, ListingAssumption
    <3>3. QED
      BY <3>2, SizeFine
  <2> HIDE DEF size
  <2>5. Len(reader'.items) = Len(reader.items) + Len(new) /\ Len(reader.items) \in Nat /\ Len(new) \in Nat
    BY <2>2, <2>3
  <2>6. CASE Len(new) < size
    <3>1. reader'.pc = "done"
      BY <2>2, <2>6
    <3>2. reader'.page - 2 <= Len(reader'.items)
      BY <2>1, <2>3, <2>5
    <3>3. QED
      BY <1>1, <2>1, <3>1, <3>2 DEF WalkPaced, ReaderOK, WalkSame
  <2>7. CASE ~(Len(new) < size)
    <3>1. reader'.pc = "check"
      BY <2>2, <2>7
    <3>2. Len(new) >= 1
      BY <2>4, <2>5, <2>7
    <3>3. reader'.page - 1 <= Len(reader'.items)
      BY <2>1, <2>3, <2>5, <3>2
    <3>4. QED
      BY <1>1, <2>1, <3>1, <3>3 DEF WalkPaced, ReaderOK, WalkSame
  <2>8. QED
    BY <2>6, <2>7
<1>7. QED
  BY <1>3, <1>4, <1>5, <1>6 DEF WalkActs, Walk

\* So do those of a diff.
LEMMA DiffKeeps ==
    ASSUME StoreOK, ReaderOK, DiffActs
    PROVE  ReaderOK'
<1>1. reader' \in DiffReader /\ reader'.kind = "diff" => ReaderTyped' /\ WalkPaced' /\ Spoken'
  BY DEF ReaderTyped, WalkPaced, Spoken
<1>2. ReaderTyped /\ DiffHasBase
  BY DEF ReaderOK
<1>3. ASSUME NEW r \in Runs, NEW asked \in Runs \cup {None}, DiffStart(r, asked) PROVE ReaderOK'
  <2>1. /\ reader' \in DiffReader /\ reader'.kind = "diff" /\ reader'.pc = "run"
    BY <1>3, DiffStartFields
  <2>2. DiffHasBase'
    BY <2>1 DEF DiffHasBase
  <2>3. QED
    BY <1>1, <2>1, <2>2 DEF ReaderOK
<1>4. CASE DiffRun
  <2>1. DiffSame /\ reader'.pc \in {"project", "done"}
    BY <1>2, <1>4, DiffRunFields DEF DiffDone
  <2>2. DiffHasBase'
    BY <2>1 DEF DiffHasBase
  <2>3. QED
    BY <1>1, <2>1, <2>2 DEF ReaderOK, DiffSame
<1>5. CASE DiffBaseline
  <2>1. DiffSame /\ (reader'.pc = "done" \/ (reader'.pc = "exists" /\ reader'.base \in Runs))
    BY <1>2, <1>5, DiffBaselineFields DEF DiffDone
  <2>2. DiffHasBase'
    BY <2>1 DEF DiffHasBase
  <2>3. QED
    BY <1>1, <2>1, <2>2 DEF ReaderOK, DiffSame
<1>6. CASE DiffExists
  <2>1. DiffSame /\ reader.pc = "exists" /\ reader'.base = reader.base
    BY <1>2, <1>6, DiffExistsFields DEF DiffDone
  <2>2. DiffHasBase'
    BY <1>2, <2>1 DEF DiffHasBase, DiffSame, DiffReader
  <2>3. QED
    BY <1>1, <2>1, <2>2 DEF ReaderOK, DiffSame
<1>7. CASE DiffTarget \/ DiffAgainst
  <2>1. DiffSame /\ reader.pc \in {"target", "against"} /\ reader'.base = reader.base
    BY <1>2, <1>7, DiffReadsFields
  <2>2. DiffHasBase'
    BY <1>2, <2>1 DEF DiffHasBase, DiffSame, DiffReader
  <2>3. QED
    BY <1>1, <2>1, <2>2 DEF ReaderOK, DiffSame
<1>8. QED
  BY <1>3, <1>4, <1>5, <1>6, <1>7 DEF DiffActs, Diff

\* So do those of a report.
LEMMA ReportKeeps ==
    ASSUME StoreOK, ReaderOK, ReportActs
    PROVE  ReaderOK'
<1>1. reader' \in ReportReader /\ reader'.kind = "report" => ReaderTyped' /\ WalkPaced' /\ DiffHasBase'
  BY DEF ReaderTyped, WalkPaced, DiffHasBase
<1>2. ReaderTyped /\ Spoken
  BY DEF ReaderOK
<1>3. ASSUME NEW r \in Runs, NEW verdicts \in VerdictFilters, ReportStart(r, verdicts) PROVE ReaderOK'
  <2>1. /\ reader' \in ReportReader /\ reader'.kind = "report" /\ reader'.pc = "run"
        /\ reader'.items = <<>> /\ reader'.toc = <<>> /\ reader'.cards = <<>>
    BY <1>3, ReportStartFields
  <2>2. Spoken'
    BY <2>1 DEF Spoken, Stages, Says
  <2>3. QED
    BY <1>1, <2>1, <2>2 DEF ReaderOK
<1>4. CASE ReportRun
  <2>1. /\ ReportSame /\ reader.pc = "run" /\ reader'.pc \in {"query", "done"}
        /\ reader'.items = reader.items /\ reader'.toc = reader.toc
        /\ reader'.cards = reader.cards /\ reader'.loaded = reader.loaded
    BY <1>2, <1>4, ReportRunFields DEF ReportRefused
  <2>2. reader.kind = "report" /\ reader'.kind = "report"
    BY <2>1 DEF ReportSame, ReportReader
  <2>3. /\ Stages(reader.pc, reader.items, reader.toc, reader.cards)
        /\ Says(reader.items, reader.loaded, reader.toc)
        /\ Says(reader.items, reader.loaded, reader.cards)
    BY <1>2, <2>2 DEF Spoken
  <2>4. Stages(reader'.pc, reader.items, reader.toc, reader.cards)
    BY <2>1, <2>3 DEF Stages
  <2>5. Spoken'
    BY Zenon, <2>1, <2>3, <2>4 DEF Spoken
  <2>6. QED
    BY <1>1, <2>1, <2>2, <2>5 DEF ReaderOK, ReportSame
<1>5. CASE ReportQuery
  <2> DEFINE S == Matching(reader.run, reader.verdicts)
  <2>1. /\ ReportSame /\ reader.pc = "query"
        /\ reader'.toc = reader.toc /\ reader'.cards = reader.cards /\ reader'.loaded = reader.loaded
        /\ \/ reader'.pc = "done" /\ reader'.items = reader.items
           \/ reader'.pc = "toc" /\ Len(reader'.items) > 0
    BY <1>2, <1>5, ReportQueryFields DEF ReportRefused
  <2>2. reader.kind = "report" /\ reader'.kind = "report"
        /\ reader.toc \in Seq(Texts) /\ reader.cards \in Seq(Texts) /\ reader.items \in Seq(Row)
        /\ reader'.items \in Seq(Row)
    BY <2>1 DEF ReportSame, ReportReader
  <2>3. Len(reader.toc) = 0 /\ Len(reader.cards) = 0
    BY <1>2, <2>1, <2>2 DEF Spoken, Stages
  <2>4. Stages(reader'.pc, reader'.items, reader'.toc, reader'.cards)
    BY <2>1, <2>2, <2>3 DEF Stages
  <2>5. 1..Len(reader'.toc) = {} /\ 1..Len(reader'.cards) = {}
    BY <2>1, <2>3
  <2>6. Spoken'
    BY <2>4, <2>5 DEF Spoken, Says
  <2>7. QED
    BY <1>1, <2>1, <2>2, <2>6 DEF ReaderOK, ReportSame
<1>6. CASE ReportToc
  BY <1>1, <1>2, <1>6, ReportTocFields DEF ReaderOK, ReportSame
<1>7. CASE ReportCard
  BY <1>1, <1>2, <1>7, ReportCardFields DEF ReaderOK, ReportSame
<1>8. QED
  BY <1>3, <1>4, <1>5, <1>6, <1>7 DEF ReportActs, Report

\* So do the writers.
LEMMA FlagKeeps ==
    ASSUME ReaderOK, Flagged
    PROVE  ReaderOK'
<1>1. ReaderTyped /\ DiffHasBase /\ Spoken /\ WalkPaced
  BY DEF ReaderOK
<1>2. ReaderTyped' /\ reader'.kind = reader.kind /\ reader'.pc = reader.pc
  BY <1>1, FlaggedFields
<1>3. DiffHasBase'
  BY <1>1, <1>2, FlaggedFields DEF DiffHasBase
<1>4. WalkPaced'
  BY <1>1, <1>2, FlaggedFields DEF WalkPaced
<1>5. Spoken'
  <2>1. CASE reader.kind = "report"
    <3>1. /\ reader'.items = reader.items
          /\ reader'.loaded = reader.loaded /\ reader'.toc = reader.toc
          /\ reader'.cards = reader.cards
      BY <1>1, <2>1, FlaggedFields
    <3>2. QED
      BY Zenon, <1>1, <1>2, <3>1 DEF Spoken
  <2>2. CASE reader.kind # "report"
    BY <1>2, <2>2 DEF Spoken
  <2>3. QED
    BY <2>1, <2>2
<1>6. QED
  BY <1>2, <1>3, <1>4, <1>5 DEF ReaderOK

\* No request is under way initially.
LEMMA ReaderInit == Init => ReaderOK
BY DEF Init, Idle, ReaderOK, ReaderTyped, DiffHasBase, Spoken, WalkPaced

\* Every step keeps what is known of the request.
LEMMA ReaderStep ==
    ASSUME StoreOK, ReaderOK, [Next]_vars
    PROVE  ReaderOK'
<1>1. CASE Answered
  <2>1. reader' = Idle
    BY <1>1 DEF Answered
  <2>2. QED
    BY <2>1 DEF Idle, ReaderOK, ReaderTyped, DiffHasBase, Spoken, WalkPaced
<1>2. CASE UNCHANGED vars
  <2>1. Flagged
    BY <1>2 DEF vars, Flagged
  <2>2. QED
    BY <2>1, FlagKeeps
<1>3. CASE Writer \/ (\E r \in Runs : BaselineCheck(r))
  BY <1>3, WritersFlag, FlagKeeps
<1>4. QED
  BY <1>1, <1>2, <1>3, StepsOfAReader, WalkKeeps, DiffKeeps, ReportKeeps

\* It is known in every behaviour.
LEMMA ReaderHolds == Spec => []ReaderOK
<1>1. StoreOK /\ ReaderOK /\ [Next]_vars => ReaderOK'
  BY ReaderStep
<1>2. QED
  BY <1>1, ReaderInit, StoreHolds, PTL DEF Spec

\* Table and cards that say what was read first agree with each other.
LEMMA ReportSpeaks == ReaderOK => ReportSpeaksOnce
<1> SUFFICES ASSUME ReaderOK, reader.kind = "report", NEW i \in DOMAIN reader.toc
             PROVE  /\ i \in DOMAIN reader.cards => reader.toc[i] = reader.cards[i]
                    /\ \A j \in DOMAIN reader.toc :
                         reader.items[i].identity = reader.items[j].identity => reader.toc[i] = reader.toc[j]
  BY DEF ReportSpeaksOnce
<1>1. /\ Says(reader.items, reader.loaded, reader.toc)
      /\ Says(reader.items, reader.loaded, reader.cards)
  BY DEF ReaderOK, Spoken
<1>2. reader.toc \in Seq(Texts) /\ reader.cards \in Seq(Texts)
  BY KindsApart DEF ReaderOK, ReportReader
<1>3. DOMAIN reader.toc = 1..Len(reader.toc) /\ DOMAIN reader.cards = 1..Len(reader.cards)
  BY <1>2
<1>4. \A j \in DOMAIN reader.toc : reader.toc[j] = Printed(reader.loaded[reader.items[j].identity])
  BY Zenon, <1>1, <1>3 DEF Says
<1>5. \A j \in DOMAIN reader.cards : reader.cards[j] = Printed(reader.loaded[reader.items[j].identity])
  BY Zenon, <1>1, <1>3 DEF Says
<1>6. QED
  BY Zenon, <1>4, <1>5

\* Whatever verdicts change, runs are replaced and identities deleted while a
\* report is built, a finding and all that share its identity are printed
\* with one verdict (report_gen.py:329-374).
THEOREM ReportHasOneVerdict == Spec => []ReportSpeaksOnce
BY ReaderHolds, ReportSpeaks, PTL

\* Store and request together give the type invariant.
LEMMA ListingTyped == StoreOK /\ ReaderOK => TypeOK
<1> SUFFICES ASSUME StoreOK, ReaderOK PROVE TypeOK
  OBVIOUS
<1>1. StoreTyped /\ IdentitiesStand /\ WalkPaced /\ ReaderTyped
  BY DEF StoreOK, ReaderOK
<1>2. \A r \in Runs : \A x \in rows[r] : RowType(x) /\ verdict[x.identity] \in Range(Verdicts)
  BY <1>1 DEF StoreTyped, IdentitiesStand, Row, RowType, Shown
<1>3. reader.kind = "walk" => reader.page - 2 <= Len(reader.items)
  <2> SUFFICES ASSUME reader.kind = "walk" PROVE reader.page - 2 <= Len(reader.items)
    OBVIOUS
  <2>1. reader.page \in Nat /\ Len(reader.items) \in Nat
    BY <1>1, KindsApart DEF WalkReader, PageNumbers
  <2>2. QED
    BY <1>1, <2>1 DEF WalkPaced
<1>4. QED
  BY <1>1, <1>2, <1>3 DEF StoreTyped, TypeOK, Shown

\* The types of the model, and that a walk makes progress: a page that is
\* not the last brings a row (runs.py:466-476).
THEOREM ListingTypes == Spec => []TypeOK
BY StoreHolds, ReaderHolds, ListingTyped, PTL

-----------------------------------------------------------------------------
(* What a commit leaves alone.                                             *)

\* The run, its rows, and the verdicts on them are as before.
Stays(r) == (r \in alive' <=> r \in alive) /\ rows'[r] = rows[r]
VerdictsStay(r) == \A x \in rows[r] : verdict'[x.identity] = verdict[x.identity]

\* A re-ingest leaves the other runs alone.
LEMMA ReplaceLeaves ==
    ASSUME StoreOK, NEW r \in Runs, NEW m \in Metas[r], NEW ids \in RowIds, Replace(r, m, ids),
           NEW q \in Runs, q # r
    PROVE  Stays(q) /\ VerdictsStay(q) /\ baseline' = baseline
<1>1. /\ \E fresh : rows' = [rows EXCEPT ![r] = fresh]
      /\ verdict' = [i \in Identities |->
            IF verdict[i] = None /\ \E n \in DOMAIN m : m[n].identity = i THEN "unmarked" ELSE verdict[i]]
      /\ UNCHANGED <<alive, baseline>>
  BY DEF Replace
<1>2. Stays(q)
  BY <1>1 DEF Stays, StoreOK, StoreTyped
<1>3. VerdictsStay(q)
  <2> SUFFICES ASSUME NEW x \in rows[q] PROVE verdict'[x.identity] = verdict[x.identity]
    BY DEF VerdictsStay
  <2>1. x \in Row /\ verdict[x.identity] \in Shown
    BY DEF StoreOK, StoreTyped, IdentitiesStand
  <2>2. x.identity \in Identities /\ verdict[x.identity] # None
    BY <2>1, Constants DEF Row
  <2>3. QED
    BY <1>1, <2>2
<1>4. QED
  BY <1>1, <1>2, <1>3

\* So does a deletion, but for the baseline of its project.
LEMMA DeleteLeaves ==
    ASSUME StoreOK, NEW r \in Runs, DeleteRun(r), NEW q \in Runs, q # r
    PROVE  /\ Stays(q) /\ VerdictsStay(q)
           /\ \A p \in Projects : p # ProjectOf[r] => baseline'[p] = baseline[p]
<1>1. /\ rows' = [rows EXCEPT ![r] = {}] /\ alive' = alive \ {r}
      /\ verdict' = [i \in Identities |->
            IF /\ i \in IdentitiesOf(ProjectOf[r]) /\ verdict[i] # None
               /\ \A p \in alive' : i \notin IdentitiesIn(p)
            THEN "gone" ELSE verdict[i]]
      /\ \E b : baseline' = [baseline EXCEPT ![ProjectOf[r]] = b]
  BY DEF DeleteRun
<1>2. Stays(q)
  BY <1>1 DEF Stays, StoreOK, StoreTyped
<1>3. VerdictsStay(q)
  <2> SUFFICES ASSUME NEW x \in rows[q] PROVE verdict'[x.identity] = verdict[x.identity]
    BY DEF VerdictsStay
  <2>1. x \in Row /\ q \in alive
    BY DEF StoreOK, StoreTyped, RowsStand
  <2>2. x.identity \in Identities /\ x.identity \in IdentitiesIn(q) /\ q \in alive'
    BY <1>1, <2>1 DEF Row, IdentitiesIn
  <2>3. QED
    BY <1>1, <2>2
<1>4. \A p \in Projects : p # ProjectOf[r] => baseline'[p] = baseline[p]
  BY <1>1 DEF StoreOK, StoreTyped
<1>5. QED
  BY <1>2, <1>3, <1>4

\* A PATCH leaves all rows alone, and the verdicts of runs that do not refer to its
\* identity.
LEMMA PatchLeaves ==
    ASSUME StoreOK, NEW i \in Identities, NEW v \in Range(Verdicts), Patch(i, v), NEW q \in Runs
    PROVE  /\ Stays(q) /\ baseline' = baseline
           /\ i \notin IdentitiesIn(q) => VerdictsStay(q)
<1>1. verdict' = [verdict EXCEPT ![i] = v] /\ UNCHANGED <<rows, alive, baseline>>
  BY DEF Patch
<1>2. Stays(q)
  BY <1>1 DEF Stays
<1>3. ASSUME i \notin IdentitiesIn(q), NEW x \in rows[q] PROVE verdict'[x.identity] = verdict[x.identity]
  <2>1. x.identity # i
    BY <1>3 DEF IdentitiesIn
  <2>2. x \in Row
    BY DEF StoreOK, StoreTyped
  <2>3. QED
    BY <1>1, <2>1, <2>2 DEF Row, StoreOK, StoreTyped
<1>4. QED
  BY <1>1, <1>2, <1>3 DEF VerdictsStay

\* A baseline that is stored concerns its own project.
LEMMA BaselineLeaves ==
    ASSUME StoreOK, BaselineStore, NEW q \in Runs
    PROVE  /\ Stays(q) /\ VerdictsStay(q) /\ setter \in Runs
           /\ \A p \in Projects : p # ProjectOf[setter] => baseline'[p] = baseline[p]
<1>1. UNCHANGED <<rows, alive, verdict>> /\ setter # None
      /\ baseline' = [baseline EXCEPT ![ProjectOf[setter]] = setter]
  BY DEF BaselineStore
<1>2. QED
  BY <1>1 DEF Stays, VerdictsStay, StoreOK, StoreTyped

-----------------------------------------------------------------------------
(* What a request that no commit disturbs can rely on.                     *)

\* A request that is not disturbed by a commit was not touched by it.
LEMMA NotTouched ==
    ASSUME ReaderTyped, reader.kind # "none", NEW touched \in BOOLEAN, Disturb(touched),
           ~reader'.disturbed
    PROVE  ~touched /\ reader' = reader
<1>1. reader.pc # "idle"
  BY KindsApart
<1>2. ASSUME touched PROVE FALSE
  <2>1. reader' = [reader EXCEPT !.disturbed = TRUE]
    BY <1>1, <1>2 DEF Disturb
  <2>2. reader'.disturbed = TRUE
    <3>1. reader \in WalkReader \/ reader \in DiffReader \/ reader \in ReportReader
      BY <1>1 DEF ReaderTyped, Idle
    <3>2. CASE reader \in WalkReader
      BY <2>1, <3>2 DEF WalkReader
    <3>3. CASE reader \in DiffReader
      BY <2>1, <3>3 DEF DiffReader
    <3>4. CASE reader \in ReportReader
      BY <2>1, <3>4 DEF ReportReader
    <3>5. QED
      BY <3>1, <3>2, <3>3, <3>4
  <2>3. QED
    BY <2>2
<1>3. QED
  BY <1>2 DEF Disturb

\* The verdicts of the run are read by a filter or a sort.
ByVerdict ==
    \/ reader.kind = "walk" /\ (reader.query.verdicts # None \/ reader.query.sort = "verdict")
    \/ reader.kind = "report" /\ reader.verdicts # None

\* The runs a request reads, and the baseline.
Relies ==
    /\ Stays(reader.run)
    /\ ByVerdict => VerdictsStay(reader.run)
    /\ reader.kind = "diff" =>
         /\ baseline'[ProjectOf[reader.run]] = baseline[ProjectOf[reader.run]]
         /\ reader.base \in Runs => Stays(reader.base)

Commit == Writer \/ (\E r \in Runs : BaselineCheck(r)) \/ UNCHANGED vars

\* A commit that does not disturb the request leaves what the request relies on.
LEMMA Undisturbed ==
    ASSUME StoreOK, ReaderTyped, Commit, reader.kind # "none", ~reader'.disturbed
    PROVE  reader' = reader /\ Relies
<1>1. reader.run \in Runs /\ reader.pc # "idle" /\ ProjectOf[reader.run] \in Projects
  <2>1. reader \in WalkReader \/ reader \in DiffReader \/ reader \in ReportReader
    BY KindsApart DEF ReaderTyped
  <2>2. reader.run \in Runs
    BY <2>1 DEF WalkReader, DiffReader, ReportReader
  <2>3. QED
    BY <2>2, KindsApart, Constants
<1>2. CASE (\E r \in Runs : BaselineCheck(r)) \/ UNCHANGED vars
  <2>1. UNCHANGED <<alive, rows, verdict, baseline, reader>>
    BY <1>2 DEF BaselineCheck, vars
  <2>2. QED
    BY <2>1 DEF Relies, Stays, VerdictsStay
<1>3. ASSUME NEW r \in Runs, NEW m \in Metas[r], NEW ids \in RowIds, Replace(r, m, ids)
      PROVE  reader' = reader /\ Relies
  <2>1. Reads(r) \in BOOLEAN /\ Disturb(Reads(r))
    BY <1>3 DEF Replace, Reads
  <2>2. ~Reads(r) /\ reader' = reader
    BY <2>1, NotTouched
  <2>3. reader.run # r /\ (reader.kind = "diff" => reader.base # r)
    BY <1>1, <2>2 DEF Reads
  <2>4. \A q \in Runs : q # r => Stays(q) /\ VerdictsStay(q) /\ baseline' = baseline
    BY <1>3, ReplaceLeaves
  <2>5. QED
    BY <1>1, <2>2, <2>3, <2>4 DEF Relies
<1>4. ASSUME NEW r \in Runs, DeleteRun(r) PROVE reader' = reader /\ Relies
  <2>1. Reads(r) \in BOOLEAN /\ Disturb(Reads(r))
    BY <1>4 DEF DeleteRun, Reads
  <2>2. ~Reads(r) /\ reader' = reader
    BY <2>1, NotTouched
  <2>3. reader.run # r
        /\ (reader.kind = "diff" => reader.base # r /\ ProjectOf[reader.run] # ProjectOf[r])
    BY <1>1, <2>2 DEF Reads
  <2>4. \A q \in Runs : q # r =>
          /\ Stays(q) /\ VerdictsStay(q)
          /\ \A p \in Projects : p # ProjectOf[r] => baseline'[p] = baseline[p]
    BY <1>4, DeleteLeaves
  <2>5. QED
    BY <1>1, <2>2, <2>3, <2>4 DEF Relies
<1>5. ASSUME NEW i \in Identities, NEW v \in Range(Verdicts), Patch(i, v)
      PROVE  reader' = reader /\ Relies
  <2>1. ReadsVerdictOf(i) \in BOOLEAN /\ Disturb(ReadsVerdictOf(i))
    BY <1>5 DEF Patch, ReadsVerdictOf
  <2>2. ~ReadsVerdictOf(i) /\ reader' = reader
    BY <2>1, NotTouched
  <2>3. ByVerdict => i \notin IdentitiesIn(reader.run)
    BY <2>2 DEF ByVerdict, ReadsVerdictOf
  <2>4. \A q \in Runs : Stays(q) /\ baseline' = baseline /\ (i \notin IdentitiesIn(q) => VerdictsStay(q))
    BY <1>5, PatchLeaves
  <2>5. QED
    BY <1>1, <2>2, <2>3, <2>4 DEF Relies
<1>6. CASE BaselineStore
  <2>1. Reads(setter) \in BOOLEAN /\ Disturb(Reads(setter))
    BY <1>6 DEF BaselineStore, Reads
  <2>2. ~Reads(setter) /\ reader' = reader
    BY <2>1, NotTouched
  <2>3. reader.kind = "diff" => ProjectOf[reader.run] # ProjectOf[setter]
    BY <1>1, <2>2 DEF Reads
  <2>4. \A q \in Runs :
          /\ Stays(q) /\ VerdictsStay(q)
          /\ \A p \in Projects : p # ProjectOf[setter] => baseline'[p] = baseline[p]
    BY <1>6, BaselineLeaves
  <2>5. QED
    BY <1>1, <2>2, <2>3, <2>4 DEF Relies
<1>7. QED
  BY <1>2, <1>3, <1>4, <1>5, <1>6 DEF Commit, Writer

\* What matches stays the same.
LEMMA MatchingStays ==
    ASSUME NEW r \in Runs, NEW verdicts, Stays(r), verdicts # None => VerdictsStay(r)
    PROVE  {x \in rows'[r] : verdicts = None \/ verdict'[x.identity] \in verdicts} = Matching(r, verdicts)
BY DEF Matching, Stays, VerdictsStay

-----------------------------------------------------------------------------
(* A report while nothing it reads changes.                                *)

\* What a report was asked for, and a report of exactly that.
Asked == Matching(reader.run, reader.verdicts)

Whole == Asked # {} /\ ~(Cardinality(Asked) > MaxFindings) /\ Range(reader.items) = Asked

\* How far a report is, in terms of the store.
ReportFine ==
    reader.kind = "report" /\ ~reader.disturbed =>
      /\ reader.pc \in {"toc", "cards"} => Whole
      /\ reader.pc = "done" =>
           \/ Asked = {} /\ reader.status = 404
           \/ Asked # {} /\ Cardinality(Asked) > MaxFindings /\ reader.status = 413
           \/ Whole /\ reader.status = 200

\* Of a deleted run nothing matches.
LEMMA NothingOfADeleted ==
    ASSUME StoreOK, NEW r \in Runs, r \notin alive, NEW verdicts
    PROVE  Matching(r, verdicts) = {}
BY DEF StoreOK, RowsStand, Matching

\* A report that is not disturbed has selected what the store still holds.
LEMMA ReportFineStep ==
    ASSUME StoreOK, ReaderOK, ReportFine, [Next]_vars
    PROVE  ReportFine'
<1>1. ReaderTyped /\ Spoken
  BY DEF ReaderOK
<1>2. CASE WalkActs
  <2>1. reader'.kind = "walk"
    BY <1>1, <1>2, WalkStartFields, WalkCheckFields, WalkCountFields, WalkPageFields
       DEF WalkActs, Walk, WalkSame
  <2>2. QED
    BY <2>1 DEF ReportFine
<1>3. CASE DiffActs
  <2>1. reader'.kind = "diff"
    BY <1>1, <1>3, DiffStartFields, DiffRunFields, DiffBaselineFields, DiffExistsFields, DiffReadsFields
       DEF DiffActs, Diff, DiffSame, ReaderOK
  <2>2. QED
    BY <2>1 DEF ReportFine
<1>4. CASE Answered
  <2>1. reader' = Idle
    BY <1>4 DEF Answered
  <2>2. QED
    BY <2>1 DEF Idle, ReportFine
<1>5. CASE Commit
  <2> SUFFICES ASSUME reader'.kind = "report", ~reader'.disturbed PROVE ReportFine'
    BY DEF ReportFine
  <2>1. reader.kind = "report"
    <3>1. Flagged
      BY <1>5, WritersFlag DEF Commit, vars, Flagged
    <3>2. QED
      BY <1>1, <3>1, FlaggedFields
  <2>2. reader' = reader /\ Relies
    BY <1>1, <1>5, <2>1, Undisturbed
  <2>3. reader.run \in Runs
    BY <1>1, <2>1, KindsApart DEF ReportReader
  <2>4. Asked' = Asked
    <3>1. Stays(reader.run) /\ (reader.verdicts # None => VerdictsStay(reader.run))
      BY <2>1, <2>2 DEF Relies, ByVerdict
    <3>2. {x \in rows'[reader.run] : reader.verdicts = None \/ verdict'[x.identity] \in reader.verdicts} = Asked
      BY <2>3, <3>1, MatchingStays DEF Asked
    <3>3. QED
      BY <2>2, <3>2 DEF Asked, Matching
  <2>5. QED
    BY <2>1, <2>2, <2>4 DEF ReportFine, Whole
<1>6. ASSUME ReportSame PROVE Asked' = Asked /\ (reader'.disturbed = reader.disturbed)
                              /\ reader.kind = "report" /\ reader.run \in Runs
  <2>1. reader'.run = reader.run /\ reader'.verdicts = reader.verdicts /\ rows' = rows /\ verdict' = verdict
    BY <1>6 DEF ReportSame, store
  <2>2. QED
    BY <1>6, <2>1 DEF ReportSame, Asked, Matching, ReportReader
<1>7. ASSUME NEW r \in Runs, NEW verdicts \in VerdictFilters, ReportStart(r, verdicts) PROVE ReportFine'
  BY <1>7, ReportStartFields DEF ReportFine
<1>8. CASE ReportRun
  <2>1. /\ ReportSame /\ reader.pc = "run"
        /\ IF reader.run \in alive THEN reader'.pc = "query" ELSE ReportRefused(404)
    BY <1>1, <1>8, ReportRunFields
  <2>2. CASE reader.run \in alive
    BY <2>1, <2>2 DEF ReportFine
  <2>3. CASE reader.run \notin alive
    <3>1. Asked' = {}
      BY <1>6, <2>1, <2>3, NothingOfADeleted DEF Asked
    <3>2. QED
      BY <2>1, <2>3, <3>1 DEF ReportFine, ReportRefused
  <2>4. QED
    BY <2>2, <2>3
<1>9. CASE ReportQuery
  <2>1. /\ ReportSame
        /\ IF Asked = {} THEN ReportRefused(404)
           ELSE IF Cardinality(Asked) > MaxFindings THEN ReportRefused(413)
           ELSE /\ reader'.pc = "toc" /\ Range(reader'.items) = Asked
    BY <1>1, <1>9, ReportQueryFields DEF Asked
  <2>2. Asked' = Asked
    BY <1>6, <2>1
  <2>3. QED
    BY <2>1, <2>2 DEF ReportFine, ReportRefused, Whole
<1>10. CASE ReportToc
  <2>1. ReportSame /\ reader.pc = "toc" /\ reader'.pc \in {"toc", "cards"} /\ reader'.items = reader.items
    BY <1>1, <1>10, ReportTocFields
  <2>2. QED
    BY <1>6, <2>1 DEF ReportFine, Whole
<1>11. CASE ReportCard
  <2>1. /\ ReportSame /\ reader.pc = "cards" /\ reader'.items = reader.items
        /\ (reader'.pc = "cards" \/ (reader'.pc = "done" /\ reader'.status = 200))
    BY <1>1, <1>11, ReportCardFields
  <2>2. QED
    BY <1>6, <2>1 DEF ReportFine, Whole
<1>12. QED
  BY Zenon, <1>2, <1>3, <1>4, <1>5, <1>7, <1>8, <1>9, <1>10, <1>11, StepsOfAReader
     DEF ReportActs, Report, Commit

\* No report is under way initially.
LEMMA ReportFineInit == Init => ReportFine
BY DEF Init, Idle, ReportFine

\* Hence its answer is whole, or refuses.
LEMMA ReportAnswersWhole == StoreOK /\ ReaderOK /\ ReportFine => ReportWholeOrRefused
<1> SUFFICES ASSUME StoreOK, ReaderOK, ReportFine,
                    reader.kind = "report", reader.pc = "done", ~reader.disturbed
             PROVE  ReportWholeOrRefused
  BY DEF ReportWholeOrRefused
<1>1. reader.run \in Runs
  BY KindsApart DEF ReaderOK, ReportReader
<1>2. (IF reader.run \in alive THEN Matching(reader.run, reader.verdicts) ELSE {}) = Asked
  BY <1>1, NothingOfADeleted DEF Asked
<1>3. \/ Asked = {} /\ reader.status = 404
      \/ Asked # {} /\ Cardinality(Asked) > MaxFindings /\ reader.status = 413
      \/ Whole /\ reader.status = 200
  BY DEF ReportFine
<1>4. Cardinality({}) = 0 /\ MaxFindings \in Nat
  BY FS_EmptySet, Constants
<1>5. Asked = {} => ~(Cardinality(Asked) > MaxFindings)
  BY <1>4
<1>6. QED
  BY <1>2, <1>3, <1>5 DEF ReportWholeOrRefused, Whole

\* A report asked for while nothing it reads changes holds every finding that
\* was asked for or is refused, whatever the limit (report.py:40-69).
THEOREM ReportIsWhole == Spec => []ReportWholeOrRefused
<1>1. StoreOK /\ ReaderOK /\ ReportFine /\ [Next]_vars => ReportFine'
  BY ReportFineStep
<1>2. QED
  BY <1>1, ReportFineInit, ReportAnswersWhole, StoreHolds, ReaderHolds, PTL DEF Spec

-----------------------------------------------------------------------------
(* A diff while nothing of its project changes.                            *)

SameProject == ProjectOf[reader.base] = ProjectOf[reader.run]

\* How far a diff is, and what each answer says of the store.
DiffFine ==
    reader.kind = "diff" /\ ~reader.disturbed =>
      /\ reader.pc \in {"project", "exists", "target", "against"} => reader.run \in alive
      /\ reader.pc \in {"target", "against"} => reader.base \in alive /\ SameProject
      /\ reader.pc = "against" => reader.target = rows[reader.run]
      /\ reader.pc = "done" =>
           \/ reader.run \notin alive /\ reader.status = 404
           \/ /\ reader.run \in alive /\ reader.base = None /\ baseline[ProjectOf[reader.run]] = None
              /\ reader.status = 400
           \/ /\ reader.run \in alive /\ reader.base \in Runs /\ reader.base \notin alive
              /\ reader.status = 404
           \/ /\ reader.run \in alive /\ reader.base \in alive /\ ~SameProject
              /\ reader.status = 400
           \/ /\ reader.run \in alive /\ reader.base \in alive /\ SameProject /\ reader.status = 200
              /\ reader.target = rows[reader.run] /\ reader.against = rows[reader.base]

\* A diff that is not disturbed has read what the store still holds.
LEMMA DiffFineStep ==
    ASSUME StoreOK, ReaderOK, DiffFine, [Next]_vars
    PROVE  DiffFine'
<1>1. ReaderTyped /\ Spoken /\ DiffHasBase
  BY DEF ReaderOK
<1>2. CASE WalkActs
  <2>1. reader'.kind = "walk"
    BY <1>1, <1>2, WalkStartFields, WalkCheckFields, WalkCountFields, WalkPageFields
       DEF WalkActs, Walk, WalkSame
  <2>2. QED
    BY <2>1 DEF DiffFine
<1>3. CASE ReportActs
  <2>1. reader'.kind = "report"
    BY <1>1, <1>3, ReportStartFields, ReportRunFields, ReportQueryFields, ReportTocFields, ReportCardFields
       DEF ReportActs, Report, ReportSame
  <2>2. QED
    BY <2>1 DEF DiffFine
<1>4. CASE Answered
  <2>1. reader' = Idle
    BY <1>4 DEF Answered
  <2>2. QED
    BY <2>1 DEF Idle, DiffFine
<1>5. CASE Commit
  <2> SUFFICES ASSUME reader'.kind = "diff", ~reader'.disturbed PROVE DiffFine'
    BY DEF DiffFine
  <2>1. reader.kind = "diff"
    <3>1. Flagged
      BY <1>5, WritersFlag DEF Commit, vars, Flagged
    <3>2. QED
      BY <1>1, <3>1, FlaggedFields
  <2>2. reader' = reader /\ Relies
    BY <1>1, <1>5, <2>1, Undisturbed
  <2>3. reader.run \in Runs /\ reader.base \in Runs \cup {None} /\ None \notin alive
    BY <1>1, <2>1, KindsApart, Constants DEF DiffReader, StoreOK, StoreTyped
  <2>4. /\ reader.run \in alive' <=> reader.run \in alive
        /\ rows'[reader.run] = rows[reader.run]
        /\ baseline'[ProjectOf[reader.run]] = baseline[ProjectOf[reader.run]]
    BY <2>1, <2>2 DEF Relies, Stays
  <2>5. reader.base \in Runs =>
          (reader.base \in alive' <=> reader.base \in alive) /\ rows'[reader.base] = rows[reader.base]
    BY <2>1, <2>2 DEF Relies, Stays
  <2>6. reader.base \in alive => reader.base \in Runs
    BY DEF StoreOK, StoreTyped
  <2>7. QED
    BY <2>1, <2>2, <2>3, <2>4, <2>5, <2>6 DEF DiffFine, SameProject
<1>6. ASSUME DiffSame
      PROVE  /\ alive' = alive /\ rows' = rows /\ baseline' = baseline
             /\ reader'.run = reader.run /\ reader'.disturbed = reader.disturbed
             /\ reader.kind = "diff" /\ reader.base \in Runs \cup {None}
  BY <1>6 DEF DiffSame, store, DiffReader
<1>7. ASSUME NEW r \in Runs, NEW asked \in Runs \cup {None}, DiffStart(r, asked) PROVE DiffFine'
  BY <1>7, DiffStartFields DEF DiffFine
<1>8. CASE DiffRun
  <2>1. /\ DiffSame /\ reader.pc = "run"
        /\ IF reader.run \in alive THEN reader'.pc = "project" ELSE DiffDone(404)
    BY <1>1, <1>8, DiffRunFields
  <2>2. QED
    BY <1>6, <2>1 DEF DiffFine, DiffDone
<1>9. CASE DiffBaseline
  <2> DEFINE base == IF reader.base # None THEN reader.base ELSE baseline[ProjectOf[reader.run]]
  <2>1. /\ DiffSame /\ reader.pc = "project"
        /\ IF base = None THEN DiffDone(400) /\ reader.base = None
           ELSE reader'.pc = "exists" /\ reader'.base = base /\ base \in Runs
    BY <1>1, <1>9, DiffBaselineFields
  <2>2. ~reader.disturbed => reader.run \in alive
    BY <1>6, <2>1 DEF DiffFine
  <2>3. CASE base = None
    BY <1>6, <2>1, <2>2, <2>3 DEF DiffFine, DiffDone
  <2>4. CASE base # None
    BY <1>6, <2>1, <2>2, <2>4 DEF DiffFine
  <2>5. QED
    BY <2>3, <2>4
<1>10. CASE DiffExists
  <2>1. /\ DiffSame /\ reader.pc = "exists"
        /\ IF reader.base \notin alive THEN DiffDone(404)
              ELSE IF ProjectOf[reader.base] # ProjectOf[reader.run] THEN DiffDone(400)
              ELSE reader'.pc = "target" /\ reader'.base = reader.base
    BY <1>1, <1>10, DiffExistsFields
  <2>2. reader.base \in Runs
    BY <1>1, <1>6, <2>1 DEF DiffHasBase
  <2>3. ~reader.disturbed => reader.run \in alive
    BY <1>6, <2>1 DEF DiffFine
  <2>4. QED
    BY <1>6, <2>1, <2>2, <2>3 DEF DiffFine, DiffDone, SameProject
<1>11. CASE DiffTarget \/ DiffAgainst
  <2>1. /\ DiffSame /\ reader'.base = reader.base
        /\ \/ reader.pc = "target" /\ reader'.pc = "against" /\ reader'.target = rows[reader.run]
           \/ /\ reader.pc = "against" /\ reader'.pc = "done" /\ reader'.status = 200
              /\ reader'.target = reader.target /\ reader'.against = rows[reader.base]
    BY <1>1, <1>11, DiffReadsFields
  <2>2. ~reader.disturbed =>
          /\ reader.run \in alive /\ reader.base \in alive /\ SameProject
          /\ reader.pc = "against" => reader.target = rows[reader.run]
    BY <1>6, <2>1 DEF DiffFine
  <2>3. QED
    BY <1>6, <2>1, <2>2 DEF DiffFine, SameProject
<1>12. QED
  BY Zenon, <1>2, <1>3, <1>4, <1>5, <1>7, <1>8, <1>9, <1>10, <1>11, StepsOfAReader
     DEF DiffActs, Diff, Commit

\* No diff is under way initially.
LEMMA DiffFineInit == Init => DiffFine
BY DEF Init, Idle, DiffFine

\* What the three lists of a diff say of the rows of the two runs.
LEMMA DiffLists ==
    ASSUME NEW S, NEW T
    PROVE  /\ Without(S, T) \cup With(S, T) = S
           /\ \A i \in {x.identity : x \in S} \cup {x.identity : x \in T} :
                /\ i \notin {x.identity : x \in T} <=> \E x \in Without(S, T) : x.identity = i
                /\ i \notin {x.identity : x \in S} <=> \E x \in Without(T, S) : x.identity = i
BY DEF Without, With

\* Hence its answer is the one the store gives.
LEMMA DiffAnswers == StoreOK /\ ReaderOK /\ DiffFine => DiffAnswersStore
<1> SUFFICES ASSUME StoreOK, ReaderOK, DiffFine,
                    reader.kind = "diff", reader.pc = "done", ~reader.disturbed
             PROVE  DiffAnswersStore
  BY DEF DiffAnswersStore
<1> DEFINE run == reader.run
           base == IF reader.base = None THEN baseline[ProjectOf[reader.run]] ELSE reader.base
           Lists == /\ DiffNew \cup DiffUnchanged = rows[reader.run]
                    /\ \A i \in IdentitiesIn(reader.run) \cup IdentitiesIn(base) :
                         /\ i \notin IdentitiesIn(base) <=> \E x \in DiffNew : x.identity = i
                         /\ i \notin IdentitiesIn(reader.run) <=> \E x \in DiffClosed : x.identity = i
           Answer ==
             CASE run \notin alive -> reader.status = 404
               [] run \in alive /\ base = None -> reader.status = 400
               [] run \in alive /\ base # None /\ base \notin alive -> reader.status = 404
               [] run \in alive /\ base \in alive ->
                    IF ProjectOf[base] # ProjectOf[run] THEN reader.status = 400
                    ELSE reader.status = 200 /\ Lists
<1>1. reader.base \in Runs \cup {None} /\ None \notin Runs /\ None \notin alive
  BY KindsApart, Constants DEF ReaderOK, DiffReader, StoreOK, StoreTyped
<1>2. Answer => DiffAnswersStore
  BY Zenon DEF DiffAnswersStore
<1>3. \/ run \notin alive /\ reader.status = 404
      \/ run \in alive /\ base = None /\ reader.status = 400
      \/ run \in alive /\ base # None /\ base \notin alive /\ reader.status = 404
      \/ run \in alive /\ base \in alive /\ ProjectOf[base] # ProjectOf[run] /\ reader.status = 400
      \/ /\ run \in alive /\ base \in alive /\ ProjectOf[base] = ProjectOf[run] /\ reader.status = 200
         /\ reader.target = rows[run] /\ reader.against = rows[base]
  BY <1>1 DEF DiffFine, SameProject
<1>4. reader.target = rows[run] /\ reader.against = rows[base] => Lists
  <2> HIDE DEF base
  <2>1. ASSUME reader.target = rows[run], reader.against = rows[base] PROVE Lists
    <3>1. /\ Without(rows[run], rows[base]) \cup With(rows[run], rows[base]) = rows[run]
          /\ \A i \in IdentitiesIn(run) \cup IdentitiesIn(base) :
               /\ i \notin IdentitiesIn(base) <=> \E x \in Without(rows[run], rows[base]) : x.identity = i
               /\ i \notin IdentitiesIn(run) <=> \E x \in Without(rows[base], rows[run]) : x.identity = i
      BY DiffLists DEF IdentitiesIn
    <3>2. QED
      BY Zenon, <2>1, <3>1 DEF DiffNew, DiffUnchanged, DiffClosed
  <2>2. QED
    BY <2>1
<1> HIDE DEF run, base, Lists
<1>5. Answer
  <2>1. CASE run \notin alive /\ reader.status = 404
    BY Zenon, <2>1
  <2>2. CASE run \in alive /\ base = None /\ reader.status = 400
    BY Zenon, <1>1, <2>2
  <2>3. CASE run \in alive /\ base # None /\ base \notin alive /\ reader.status = 404
    BY Zenon, <1>1, <2>3
  <2>4. CASE run \in alive /\ base \in alive /\ ProjectOf[base] # ProjectOf[run] /\ reader.status = 400
    BY Zenon, <1>1, <2>4
  <2>5. CASE /\ run \in alive /\ base \in alive /\ ProjectOf[base] = ProjectOf[run] /\ reader.status = 200
             /\ reader.target = rows[run] /\ reader.against = rows[base]
    BY Zenon, <1>1, <1>4, <2>5
  <2>6. QED
    BY <1>3, <2>1, <2>2, <2>3, <2>4, <2>5
<1>6. QED
  BY <1>2, <1>5

\* A diff while nothing of its project changes answers what is stored of the
\* two runs, and a baseline that is gone is refused (runs.py:543-594).
THEOREM DiffIsOfTheStore == Spec => []DiffAnswersStore
<1>1. StoreOK /\ ReaderOK /\ DiffFine /\ [Next]_vars => DiffFine'
  BY DiffFineStep
<1>2. QED
  BY <1>1, DiffFineInit, DiffAnswers, StoreHolds, ReaderHolds, PTL DEF Spec

-----------------------------------------------------------------------------
(* The order of a listing, of the rows rs with the verdicts v.             *)

KeyBy(v, x, sort) ==
    CASE sort = "severity" -> SeverityRank[x.severity]
      [] sort = "verdict" -> VerdictRank(v[x.identity])
      [] sort = "swb_id" -> x.identity
      [] OTHER -> x.id

BeforeBy(v, x, y, query) ==
    \/ IF query.dir = "desc" THEN KeyBy(v, x, query.sort) > KeyBy(v, y, query.sort)
       ELSE KeyBy(v, x, query.sort) < KeyBy(v, y, query.sort)
    \/ KeyBy(v, x, query.sort) = KeyBy(v, y, query.sort) /\ x.id < y.id

MatchingBy(rs, v, verdicts) == {x \in rs : verdicts = None \/ v[x.identity] \in verdicts}

ListingsBy(rs, v, query) ==
    {s \in SetToSeqs(MatchingBy(rs, v, query.verdicts)) :
       \A i, j \in DOMAIN s : i < j => ~BeforeBy(v, s[j], s[i], query)}

\* The sort key, with the verdicts made a parameter.
LEMMA SameKey ==
    ASSUME NEW x, NEW sort
    PROVE  SortKey(x, sort) = KeyBy(verdict, x, sort)
BY Zenon DEF SortKey, KeyBy

\* The order of a listing, likewise.
LEMMA SameOrder ==
    ASSUME NEW x, NEW y, NEW query
    PROVE  Before(x, y, query) <=> BeforeBy(verdict, x, y, query)
BY Zenon, SameKey DEF Before, BeforeBy

\* The rows a filter lets through, likewise.
LEMMA SameMatching ==
    ASSUME NEW r, NEW verdicts
    PROVE  Matching(r, verdicts) = MatchingBy(rows[r], verdict, verdicts)
BY DEF Matching, MatchingBy

\* The listings a query allows, likewise.
LEMMA SameListings ==
    ASSUME NEW r, NEW query
    PROVE  WalkListings(r, query) = ListingsBy(rows[r], verdict, query)
BY SameMatching, SameOrder DEF WalkListings, ListingsBy

\* A listing lists rows of the run.
LEMMA InListing ==
    ASSUME NEW rs, NEW v, NEW query, NEW s \in SetToSeqs(MatchingBy(rs, v, query.verdicts)), NEW i \in DOMAIN s
    PROVE  s[i] \in rs
<1> DEFINE M == MatchingBy(rs, v, query.verdicts)
<1>1. s[i] \in M
  <2> HIDE DEF M
  <2>1. s \in SetToSeqs(M)
    BY DEF M
  <2>2. s \in [1..Cardinality(M) -> M]
    BY <2>1 DEF SetToSeqs
  <2>3. QED
    BY <2>2
<1>2. QED
  BY <1>1 DEF MatchingBy

\* Listings depend on the verdicts of the rows, if the query reads them.
LEMMA ListingsAgree ==
    ASSUME NEW rs, NEW v, NEW w, NEW query,
           query.verdicts # None \/ query.sort = "verdict" => \A x \in rs : v[x.identity] = w[x.identity]
    PROVE  /\ MatchingBy(rs, v, query.verdicts) = MatchingBy(rs, w, query.verdicts)
           /\ ListingsBy(rs, v, query) = ListingsBy(rs, w, query)
<1>1. MatchingBy(rs, v, query.verdicts) = MatchingBy(rs, w, query.verdicts)
  BY DEF MatchingBy
<1>2. ASSUME NEW x \in rs PROVE KeyBy(v, x, query.sort) = KeyBy(w, x, query.sort)
  BY DEF KeyBy
<1>3. \A x, y \in rs : BeforeBy(v, x, y, query) <=> BeforeBy(w, x, y, query)
  BY Zenon, <1>2 DEF BeforeBy
<1>4. \A s \in SetToSeqs(MatchingBy(rs, v, query.verdicts)) : \A i \in DOMAIN s : s[i] \in rs
  BY InListing
<1>5. QED
  BY <1>1, <1>3, <1>4 DEF ListingsBy

\* The keys are numbers, so the ORDER BY with its row id is total.
LEMMA KeysAreNumbers ==
    ASSUME NEW x \in Row, NEW v, v[x.identity] \in Shown, NEW sort
    PROVE  KeyBy(v, x, sort) \in Int
<1>1. x.id \in Int /\ x.identity \in Int /\ x.severity \in Severities
  <2>1. x.id \in Nat /\ x.identity \in Identities /\ x.severity \in Severities
    BY DEF Row
  <2>2. x.identity \in Nat
    BY <2>1, Constants
  <2>3. QED
    BY <2>1, <2>2
<1>2. SeverityRank[x.severity] \in Int
  BY <1>1 DEF Severities, SeverityRank
<1>3. VerdictRank(v[x.identity]) \in Int
  <2>1. \E n \in DOMAIN Verdicts : Verdicts[n] = v[x.identity]
    BY DEF Shown, Range
  <2>2. VerdictRank(v[x.identity]) \in DOMAIN Verdicts
    BY <2>1 DEF VerdictRank
  <2>3. DOMAIN Verdicts \subseteq Nat
    <3>1. Verdicts \in Seq(Range(Verdicts))
      BY ListingAssumption
    <3>2. QED
      BY <3>1
  <2>4. QED
    BY <2>2, <2>3
<1>4. QED
  BY <1>1, <1>2, <1>3 DEF KeyBy

\* ORDER BY with the id of the row last leaves no two rows equal.
LEMMA OrderTotal ==
    ASSUME NEW rs, rs \subseteq Row, Distinct(rs), NEW v, \A x \in rs : v[x.identity] \in Shown, NEW query,
           NEW x \in rs, NEW y \in rs, ~BeforeBy(v, x, y, query), ~BeforeBy(v, y, x, query)
    PROVE  x = y
<1> DEFINE a == KeyBy(v, x, query.sort)
           b == KeyBy(v, y, query.sort)
<1>1. a \in Int /\ b \in Int
  BY KeysAreNumbers
<1>2. x.id \in Nat /\ y.id \in Nat
  BY DEF Row
<1>3. (~(a > b) /\ ~(b > a)) \/ (~(a < b) /\ ~(b < a))
  BY DEF BeforeBy
<1>4. (a = b => ~(x.id < y.id)) /\ (b = a => ~(y.id < x.id))
  BY DEF BeforeBy
<1> HIDE DEF a, b
<1>5. a = b
  BY <1>1, <1>3
<1>6. x.id = y.id
  BY <1>2, <1>4, <1>5
<1>7. QED
  BY <1>6 DEF Distinct

\* So there is one listing, and what the pages of two SELECTs show fits.
LEMMA OneListing ==
    ASSUME NEW rs, rs \subseteq Row, IsFiniteSet(rs), Distinct(rs),
           NEW v, \A x \in rs : v[x.identity] \in Shown, NEW query,
           NEW s \in ListingsBy(rs, v, query), NEW t \in ListingsBy(rs, v, query)
    PROVE  s = t
<1> DEFINE M == MatchingBy(rs, v, query.verdicts)
<1>1. IsFiniteSet(M) /\ M \subseteq rs
  <2>1. M \subseteq rs
    BY DEF MatchingBy
  <2>2. QED
    BY <2>1, FS_Subset
<1> HIDE DEF M
<1>2. /\ s \in SetToSeqs(M) /\ t \in SetToSeqs(M)
      /\ \A i, j \in DOMAIN s : i < j => ~BeforeBy(v, s[j], s[i], query)
      /\ \A i, j \in DOMAIN t : i < j => ~BeforeBy(v, t[j], t[i], query)
  BY DEF ListingsBy, M
<1> DEFINE n == Cardinality(M)
<1>3. /\ s \in Seq(M) /\ DOMAIN s = 1..n /\ Range(s) = M /\ Len(s) = n /\ n \in Nat
      /\ \A i, j \in DOMAIN s : i # j => s[i] # s[j]
  BY <1>1, <1>2, ListingOf
<1>4. /\ t \in Seq(M) /\ DOMAIN t = 1..n /\ Range(t) = M /\ Len(t) = n
      /\ \A i, j \in DOMAIN t : i # j => t[i] # t[j]
  BY <1>1, <1>2, ListingOf
<1> HIDE DEF n
<1> DEFINE D == {i \in 1..n : s[i] # t[i]}
<1>5. D = {}
  <2> SUFFICES ASSUME D # {} PROVE FALSE
    OBVIOUS
  <2>1. D \subseteq Nat
    OBVIOUS
  <2>2. PICK k \in D : \A i \in D : k <= i
    BY <2>1, LeastNumber
  <2>3. k \in 1..n /\ s[k] # t[k] /\ \A i \in 1..n : i < k => s[i] = t[i]
    BY <1>3, <2>2
  <2>4. s[k] \in M /\ t[k] \in M
    BY <1>3, <1>4, <2>3
  <2>5. PICK j \in 1..n : t[j] = s[k]
    BY <1>3, <1>4, <2>4 DEF Range
  <2>6. PICK l \in 1..n : s[l] = t[k]
    BY <1>3, <1>4, <2>4 DEF Range
  <2>7. ~(j < k) /\ j # k
    BY <1>3, <2>3, <2>5
  <2>8. ~(l < k) /\ l # k
    BY <1>4, <2>3, <2>6
  <2>9. k < j /\ k < l
    BY <1>3, <2>3, <2>5, <2>6, <2>7, <2>8
  <2>10. ~BeforeBy(v, t[j], t[k], query)
    BY <1>2, <1>4, <2>3, <2>5, <2>9
  <2>11. ~BeforeBy(v, s[l], s[k], query)
    BY <1>2, <1>3, <2>3, <2>6, <2>9
  <2>12. s[k] \in rs /\ t[k] \in rs
    BY <1>1, <2>4
  <2>13. ~BeforeBy(v, s[k], t[k], query) /\ ~BeforeBy(v, t[k], s[k], query)
    BY <2>5, <2>6, <2>10, <2>11
  <2>14. s[k] = t[k]
    BY <2>12, <2>13, OrderTotal
  <2>15. QED
    BY <2>3, <2>14
<1>6. \A i \in 1..n : s[i] = t[i]
  BY <1>5
<1>7. QED
  BY <1>3, <1>4, <1>6

-----------------------------------------------------------------------------
(* A walk while nothing it reads changes.                                  *)

\* What has been shown of a walk is the beginning of the listing.
Begun(items, rs, v, query) ==
    /\ Len(items) <= Cardinality(MatchingBy(rs, v, query.verdicts))
    /\ \A s \in ListingsBy(rs, v, query) : \A i \in 1..Len(items) : items[i] = s[i]

\* How far a walk is: whole pages so far, the beginning of the listing.
WalkFine ==
    reader.kind = "walk" /\ ~reader.disturbed =>
      /\ reader.pc \in {"count", "page"} => reader.run \in alive
      /\ reader.pc # "done" =>
           /\ (reader.page - 1) * AtLeastOne(reader.query.size) = Len(reader.items)
           /\ Begun(reader.items, rows[reader.run], verdict, reader.query)
      /\ reader.pc = "page" =>
           reader.total = Cardinality(MatchingBy(rows[reader.run], verdict, reader.query.verdicts))
      /\ reader.pc = "done" =>
           \/ reader.run \notin alive /\ reader.status = 404
           \/ /\ reader.run \in alive /\ reader.status = 200
              /\ reader.total = Cardinality(MatchingBy(rows[reader.run], verdict, reader.query.verdicts))
              /\ reader.items \in ListingsBy(rows[reader.run], verdict, reader.query)

\* Where the next page begins.
LEMMA OnePageOn ==
    ASSUME NEW p \in Nat, p >= 1, NEW size \in Nat
    PROVE  (p + 1 - 1) * size = (p - 1) * size + size /\ (p - 1) * size \in Nat
OBVIOUS

\* One page more.
LEMMA PageBegun ==
    ASSUME NEW rs, rs \subseteq Row, IsFiniteSet(rs), Distinct(rs),
           NEW v, \A x \in rs : v[x.identity] \in Shown, NEW query \in Queries,
           NEW items \in Seq(Row), NEW p \in Nat, p >= 1,
           (p - 1) * AtLeastOne(query.size) = Len(items), Begun(items, rs, v, query),
           NEW s \in ListingsBy(rs, v, query)
    PROVE  LET size == AtLeastOne(query.size)
               new == Page(s, p, size)
               all == items \o new
           IN  /\ Len(new) < size => all = s
               /\ ~(Len(new) < size) => (p + 1 - 1) * size = Len(all) /\ Begun(all, rs, v, query)
<1> DEFINE M == MatchingBy(rs, v, query.verdicts)
           size == AtLeastOne(query.size)
           offset == (p - 1) * size
           new == Page(s, p, size)
           all == items \o new
<1>1. size \in Nat /\ size >= 1
  <2>1. query.size \in Int
    BY ListingAssumption
  <2>2. QED
    BY <2>1, SizeFine
<1>2. (p + 1 - 1) * size = offset + size /\ offset \in Nat
  <2> HIDE DEF size
  <2>1. QED
    BY <1>1, OnePageOn
<1>3. IsFiniteSet(M) /\ M \subseteq rs
  <2>1. M \subseteq rs
    BY DEF MatchingBy
  <2>2. QED
    BY <2>1, FS_Subset
<1>4. s \in SetToSeqs(M) /\ Len(items) <= Cardinality(M) /\ Len(items) = offset
      /\ \A i \in 1..Len(items) : items[i] = s[i]
  BY DEF ListingsBy, Begun
<1> HIDE DEF M, size
<1>5. s \in Seq(M) /\ Len(s) = Cardinality(M) /\ Len(s) \in Nat /\ DOMAIN s = 1..Len(s)
  BY <1>3, <1>4, ListingOf
<1> DEFINE o == offset
<1>6. o \in Nat /\ o <= Len(s) /\ Len(items) = o /\ (p + 1 - 1) * size = o + size
  BY <1>2, <1>4, <1>5
<1>7. new = SubSeq(s, o + 1, Min({o + size, Len(s)}))
  BY DEF Page
<1> HIDE DEF new, o
<1>8. /\ new \in Seq(M)
      /\ o + size <= Len(s) => Len(new) = size
      /\ o <= Len(s) /\ Len(s) < o + size => Len(new) = Len(s) - o
      /\ \A i \in 1..Len(new) : new[i] = s[o + i]
  <2> DEFINE page == SubSeq(s, o + 1, Min({o + size, Len(s)}))
  <2>1. /\ page \in Seq(M)
        /\ o + size <= Len(s) => Len(page) = size
        /\ o <= Len(s) /\ Len(s) < o + size => Len(page) = Len(s) - o
        /\ \A i \in 1..Len(page) : page[i] = s[o + i]
    <3>1. s \in Seq(M) /\ o \in Nat /\ size \in Nat /\ size >= 1
      BY <1>1, <1>5, <1>6
    <3>2. QED
      BY Zenon, <3>1, PageFine
  <2>2. new = page
    BY <1>7
  <2> HIDE DEF page
  <2>3. QED
    BY Zenon, <2>1, <2>2
<1>9. Len(new) \in Nat
  BY <1>8
<1>10. all \in Seq(Row) /\ Len(all) = o + Len(new)
       /\ (\A i \in 1..o : all[i] = items[i])
       /\ (\A i \in 1..Len(new) : all[o + i] = new[i])
  <2>1. new \in Seq(Row)
    BY <1>3, <1>8
  <2>2. QED
    BY <1>6, <2>1
<1> HIDE DEF all
<1>11. ASSUME NEW i \in 1..Len(all) PROVE all[i] = s[i]
  <2>1. CASE i <= o
    BY <1>4, <1>6, <1>10, <2>1
  <2>2. CASE ~(i <= o)
    <3>1. i - o \in 1..Len(new) /\ o + (i - o) = i
      BY <1>6, <1>9, <1>10, <2>2
    <3>2. all[o + (i - o)] = new[i - o] /\ new[i - o] = s[o + (i - o)]
      BY <1>8, <1>10, <3>1
    <3>3. QED
      BY <3>1, <3>2
  <2>3. QED
    BY <2>1, <2>2
<1>12. ASSUME Len(new) < size PROVE all = s
  <2>1. Len(s) < o + size
    BY <1>1, <1>5, <1>6, <1>8, <1>9, <1>12
  <2>2. Len(new) = Len(s) - o
    BY <1>6, <1>8, <2>1
  <2>3. Len(all) = Len(s)
    BY <1>5, <1>6, <1>10, <2>2
  <2>4. s \in Seq(Row)
    BY <1>3, <1>5
  <2>5. QED
    BY <1>10, <1>11, <2>3, <2>4
<1>13. ASSUME ~(Len(new) < size) PROVE (p + 1 - 1) * size = Len(all) /\ Begun(all, rs, v, query)
  <2>1. o + size <= Len(s)
    BY <1>1, <1>5, <1>6, <1>8, <1>9, <1>13
  <2>2. Len(new) = size
    BY <1>8, <2>1
  <2>3. (p + 1 - 1) * size = Len(all)
    BY <1>6, <1>10, <2>2
  <2>4. Len(all) <= Cardinality(M)
    BY <1>5, <1>10, <2>1, <2>2
  <2>5. \A t \in ListingsBy(rs, v, query) : t = s
    BY OneListing
  <2>6. QED
    BY <1>11, <2>3, <2>4, <2>5 DEF Begun, M
<1>14. QED
  BY <1>12, <1>13 DEF all, new, size

\* A commit that does not disturb the walk leaves its listing what it was.
LEMMA WalkFineCommit ==
    ASSUME StoreOK, ReaderOK, WalkFine, Commit, reader'.kind = "walk", ~reader'.disturbed
    PROVE  WalkFine'
<1>1. ReaderTyped
  BY DEF ReaderOK
<1>2. reader.kind = "walk"
  <2>1. Flagged
    BY WritersFlag DEF Commit, vars, Flagged
  <2>2. QED
    BY <1>1, <2>1, FlaggedFields
<1>3. reader' = reader /\ Relies
  BY <1>1, <1>2, Undisturbed
<1> DEFINE r == reader.run
           query == reader.query
<1>4. /\ r \in alive' <=> r \in alive
      /\ rows'[r] = rows[r]
      /\ (query.verdicts # None \/ query.sort = "verdict") =>
            \A x \in rows[r] : verdict'[x.identity] = verdict[x.identity]
  BY <1>2, <1>3 DEF Relies, Stays, VerdictsStay, ByVerdict
<1>5. /\ MatchingBy(rows[r], verdict, query.verdicts) = MatchingBy(rows[r], verdict', query.verdicts)
      /\ ListingsBy(rows[r], verdict, query) = ListingsBy(rows[r], verdict', query)
  <2> DEFINE rs == rows[r]
             v == verdict
             w == verdict'
             qq == query
  <2>1. qq.verdicts # None \/ qq.sort = "verdict" => \A x \in rs : v[x.identity] = w[x.identity]
    BY <1>4
  <2> HIDE DEF rs, v, w, qq
  <2>2. /\ MatchingBy(rs, v, qq.verdicts) = MatchingBy(rs, w, qq.verdicts)
        /\ ListingsBy(rs, v, qq) = ListingsBy(rs, w, qq)
    BY <2>1, ListingsAgree
  <2>3. QED
    BY <2>2 DEF rs, v, w, qq
<1>6. /\ MatchingBy(rows'[r], verdict', query.verdicts) = MatchingBy(rows[r], verdict, query.verdicts)
      /\ ListingsBy(rows'[r], verdict', query) = ListingsBy(rows[r], verdict, query)
  BY Zenon, <1>4, <1>5
<1>7. reader'.run = r /\ reader'.query = query /\ reader'.pc = reader.pc /\ reader'.items = reader.items
      /\ reader'.page = reader.page /\ reader'.total = reader.total /\ reader'.status = reader.status
      /\ ~reader.disturbed
  BY <1>3
<1>8. Begun(reader'.items, rows'[reader'.run], verdict', reader'.query)
        <=> Begun(reader.items, rows[r], verdict, query)
  BY Zenon, <1>6, <1>7 DEF Begun
<1>9. /\ MatchingBy(rows'[reader'.run], verdict', reader'.query.verdicts)
           = MatchingBy(rows[r], verdict, query.verdicts)
      /\ ListingsBy(rows'[reader'.run], verdict', reader'.query) = ListingsBy(rows[r], verdict, query)
  BY Zenon, <1>6, <1>7
<1>10. /\ reader.pc \in {"count", "page"} => r \in alive
       /\ reader.pc # "done" =>
           /\ (reader.page - 1) * AtLeastOne(query.size) = Len(reader.items)
           /\ Begun(reader.items, rows[r], verdict, query)
       /\ reader.pc = "page" => reader.total = Cardinality(MatchingBy(rows[r], verdict, query.verdicts))
       /\ reader.pc = "done" =>
           \/ r \notin alive /\ reader.status = 404
           \/ /\ r \in alive /\ reader.status = 200
              /\ reader.total = Cardinality(MatchingBy(rows[r], verdict, query.verdicts))
              /\ reader.items \in ListingsBy(rows[r], verdict, query)
  BY <1>2, <1>7 DEF WalkFine
<1>11. QED
  BY <1>4, <1>7, <1>8, <1>9, <1>10 DEF WalkFine

\* The pages so far are a first part of the one listing, and the next one is the stretch
\* that follows.
LEMMA WalkFineActs ==
    ASSUME StoreOK, ReaderOK, WalkFine, WalkActs, ~reader'.disturbed
    PROVE  WalkFine'
<1>1. ReaderTyped
  BY DEF ReaderOK
<1>2. ASSUME WalkSame
      PROVE  /\ reader.kind = "walk" /\ ~reader.disturbed /\ reader.run \in Runs /\ reader.query \in Queries
             /\ reader'.run = reader.run /\ reader'.query = reader.query
             /\ alive' = alive /\ rows' = rows /\ verdict' = verdict
             /\ reader.items \in Seq(Row) /\ reader.page \in Nat /\ reader.page >= 1
  BY <1>2 DEF WalkSame, store, WalkReader, PageNumbers
<1>3. ASSUME NEW r \in Runs, NEW query \in Queries, WalkStart(r, query) PROVE WalkFine'
  <2>1. /\ reader'.pc = "check" /\ reader'.page = 1 /\ reader'.items = <<>>
        /\ reader'.run = r /\ reader'.query = query
        /\ rows' = rows /\ verdict' = verdict
    BY <1>3, WalkStartFields DEF store
  <2>2. AtLeastOne(query.size) \in Nat
    BY SizeFine, ListingAssumption
  <2>3. (1 - 1) * AtLeastOne(query.size) = 0
    BY <2>2
  <2>4. Len(<<>>) = 0 /\ 1..Len(<<>>) = {}
    OBVIOUS
  <2>5. Cardinality(MatchingBy(rows[r], verdict, query.verdicts)) \in Nat
    <3>1. Matching(r, query.verdicts) = MatchingBy(rows[r], verdict, query.verdicts)
      BY SameMatching
    <3>2. Cardinality(Matching(r, query.verdicts)) \in Nat
      BY MatchingFine
    <3>3. QED
      BY Zenon, <3>1, <3>2
  <2>6. 0 <= Cardinality(MatchingBy(rows[r], verdict, query.verdicts))
    BY <2>5
  <2>7. Begun(<<>>, rows[r], verdict, query)
    BY <2>4, <2>6 DEF Begun
  <2>8. QED
    BY <2>1, <2>3, <2>4, <2>7 DEF WalkFine
<1>4. CASE WalkCheck
  <2>1. /\ WalkSame /\ reader.pc = "check"
        /\ reader'.page = reader.page /\ reader'.items = reader.items
        /\ IF reader.run \in alive THEN reader'.pc = "count"
              ELSE reader'.pc = "done" /\ reader'.status = 404
    BY <1>1, <1>4, WalkCheckFields
  <2>2. QED
    BY <1>2, <2>1 DEF WalkFine
<1>5. CASE WalkCount
  <2>1. /\ WalkSame /\ reader.pc = "count" /\ reader'.pc = "page"
        /\ reader'.page = reader.page /\ reader'.items = reader.items
        /\ reader'.total = Cardinality(Matching(reader.run, reader.query.verdicts))
    BY <1>1, <1>5, WalkCountFields
  <2>2. Matching(reader.run, reader.query.verdicts)
          = MatchingBy(rows[reader.run], verdict, reader.query.verdicts)
    BY DEF Matching, MatchingBy
  <2>3. QED
    BY <1>2, <2>1, <2>2 DEF WalkFine
<1>6. CASE WalkPage
  <2> DEFINE r == reader.run
             query == reader.query
             rs == rows[r]
             v == verdict
             p == reader.page
             items == reader.items
             size == AtLeastOne(query.size)
  <2>1. /\ WalkSame /\ reader.pc = "page" /\ reader'.total = reader.total
        /\ reader'.page = p + 1
    BY <1>1, <1>6, WalkPageFields
  <2>2. PICK s \in WalkListings(r, query) :
             /\ reader'.items = items \o Page(s, p, size)
             /\ IF Len(Page(s, p, size)) < size THEN reader'.pc = "done" /\ reader'.status = 200
                ELSE reader'.pc = "check"
    BY <1>1, <1>6, WalkPageFields
  <2>3. s \in ListingsBy(rs, v, query)
    BY <2>2 DEF WalkListings, ListingsBy, Matching, MatchingBy, Before, BeforeBy, SortKey, KeyBy
  <2>4. r \in Runs /\ query \in Queries /\ items \in Seq(Row) /\ p \in Nat /\ p >= 1
        /\ reader'.run = r /\ reader'.query = query
        /\ alive' = alive /\ rows' = rows /\ verdict' = verdict
    BY <1>2, <2>1
  <2>5. /\ r \in alive /\ (p - 1) * size = Len(items) /\ Begun(items, rs, v, query)
        /\ reader.total = Cardinality(MatchingBy(rs, v, query.verdicts))
    BY <1>2, <2>1 DEF WalkFine
  <2>6. rs \subseteq Row /\ IsFiniteSet(rs) /\ Distinct(rs) /\ \A x \in rs : v[x.identity] \in Shown
    BY <2>4, RowsFine DEF StoreOK, IdentitiesStand
  <2> DEFINE new == Page(s, p, size)
             all == items \o new
  <2>7. /\ Len(new) < size => all = s
        /\ ~(Len(new) < size) => (p + 1 - 1) * size = Len(all) /\ Begun(all, rs, v, query)
    <3> HIDE DEF r, query, rs, v, p, items
    <3>1. QED
      BY <2>3, <2>4, <2>5, <2>6, PageBegun
  <2>8. reader'.items = all
    BY <2>2
  <2>9. IF Len(new) < size THEN reader'.pc = "done" /\ reader'.status = 200 ELSE reader'.pc = "check"
    BY <2>2
  <2>13. p \in Nat /\ size \in Nat
    BY <2>4, SizeFine, ListingAssumption
  <2> HIDE DEF all, new
  <2>10. CASE Len(new) < size
    <3>1. reader'.items \in ListingsBy(rs, v, query) /\ reader'.pc = "done" /\ reader'.status = 200
      BY <2>3, <2>7, <2>8, <2>9, <2>10
    <3>2. QED
      BY <2>1, <2>4, <2>5, <3>1 DEF WalkFine
  <2>11. CASE ~(Len(new) < size)
    <3>1. (p + 1 - 1) * size = Len(all) /\ Begun(all, rs, v, query)
      BY <2>7, <2>11
    <3>2. reader'.pc = "check"
      BY <2>9, <2>11
    <3>3. reader'.page = p + 1 /\ reader'.items = all
      BY <2>1, <2>8
    <3>4. (reader'.page - 1) * size = Len(reader'.items)
      <4> DEFINE k == reader'.page
      <4>1. k = p + 1
        BY <3>3
      <4> HIDE DEF p, size, k, all
      <4>2. (k - 1) * size = Len(all)
        BY <2>13, <3>1, <4>1
      <4>3. QED
        BY Zenon, <3>3, <4>2 DEF k
    <3>5. Begun(reader'.items, rs, v, query)
      <4> HIDE DEF rs, v, query
      <4>1. QED
        BY Zenon, <3>1, <3>3
    <3>6. QED
      BY <2>1, <2>4, <3>2, <3>4, <3>5 DEF WalkFine
  <2>12. QED
    BY <2>10, <2>11
<1>7. QED
  BY <1>3, <1>4, <1>5, <1>6 DEF WalkActs, Walk

\* Every step keeps this of a walk that is not disturbed.
LEMMA WalkFineStep ==
    ASSUME StoreOK, ReaderOK, WalkFine, [Next]_vars
    PROVE  WalkFine'
<1>1. ReaderTyped /\ Spoken /\ DiffHasBase
  BY DEF ReaderOK
<1>2. CASE DiffActs
  <2>1. reader'.kind = "diff"
    BY <1>1, <1>2, DiffStartFields, DiffRunFields, DiffBaselineFields, DiffExistsFields, DiffReadsFields
       DEF DiffActs, Diff, DiffSame
  <2>2. QED
    BY <2>1 DEF WalkFine
<1>3. CASE ReportActs
  <2>1. reader'.kind = "report"
    BY <1>1, <1>3, ReportStartFields, ReportRunFields, ReportQueryFields, ReportTocFields, ReportCardFields
       DEF ReportActs, Report, ReportSame
  <2>2. QED
    BY <2>1 DEF WalkFine
<1>4. CASE Answered
  <2>1. reader' = Idle
    BY <1>4 DEF Answered
  <2>2. QED
    BY <2>1 DEF Idle, WalkFine
<1>5. CASE WalkActs
  <2>1. CASE reader'.disturbed
    BY <2>1 DEF WalkFine
  <2>2. QED
    BY <1>5, <2>1, WalkFineActs
<1>6. CASE Commit
  <2>1. CASE reader'.disturbed \/ reader'.kind # "walk"
    BY <2>1 DEF WalkFine
  <2>2. QED
    BY <1>6, <2>1, WalkFineCommit
<1>7. QED
  BY Zenon, <1>2, <1>3, <1>4, <1>5, <1>6, StepsOfAReader DEF Commit

\* No walk is under way initially.
LEMMA WalkFineInit == Init => WalkFine
BY DEF Init, Idle, WalkFine

\* A walk that has come to its last page has listed every row once, in order.
LEMMA WalkExact == StoreOK /\ ReaderOK /\ WalkFine => WalkIsExact
<1> SUFFICES ASSUME StoreOK, ReaderOK, WalkFine,
                    reader.kind = "walk", reader.pc = "done", ~reader.disturbed, reader.run \in alive
             PROVE  LET query == reader.query IN
                    /\ reader.status = 200
                    /\ reader.total = Len(reader.items)
                    /\ Range(reader.items) = Matching(reader.run, query.verdicts)
                    /\ \A i, j \in DOMAIN reader.items : i < j =>
                         /\ reader.items[i].id # reader.items[j].id
                         /\ LET a == SortKey(reader.items[i], query.sort)
                                b == SortKey(reader.items[j], query.sort)
                            IN  IF query.dir = "desc" THEN a >= b ELSE a <= b
  BY DEF WalkIsExact, WalkFine
<1> DEFINE items == reader.items
           query == reader.query
           rs == rows[reader.run]
           M == MatchingBy(rs, verdict, query.verdicts)
<1>1. reader.status = 200 /\ reader.total = Cardinality(M) /\ items \in ListingsBy(rs, verdict, query)
  BY DEF WalkFine
<1>2. reader.run \in Runs
  BY DEF StoreOK, StoreTyped
<1>3. rs \subseteq Row /\ IsFiniteSet(rs) /\ Distinct(rs) /\ \A x \in rs : verdict[x.identity] \in Shown
  BY <1>2, RowsFine DEF StoreOK, IdentitiesStand
<1>4. IsFiniteSet(M) /\ M \subseteq rs /\ Matching(reader.run, query.verdicts) = M
  <2>1. M \subseteq rs
    BY DEF MatchingBy
  <2>2. Matching(reader.run, query.verdicts) = M
    BY DEF Matching, MatchingBy
  <2>3. QED
    BY <1>3, <2>1, <2>2, FS_Subset
<1>5. /\ items \in SetToSeqs(M)
      /\ \A i, j \in DOMAIN items : i < j => ~BeforeBy(verdict, items[j], items[i], query)
  BY <1>1 DEF ListingsBy
<1> HIDE DEF M, rs, items, query
<1>6. /\ items \in Seq(M) /\ Len(items) = Cardinality(M) /\ DOMAIN items = 1..Len(items) /\ Range(items) = M
      /\ \A i, j \in DOMAIN items : i # j => items[i] # items[j]
  BY <1>4, <1>5, ListingOf
<1>7. ASSUME NEW i \in DOMAIN items, NEW j \in DOMAIN items, i < j
      PROVE  /\ items[i].id # items[j].id
             /\ LET a == SortKey(items[i], query.sort)
                    b == SortKey(items[j], query.sort)
                IN  IF query.dir = "desc" THEN a >= b ELSE a <= b
  <2> DEFINE x == items[i]
             y == items[j]
             a == KeyBy(verdict, x, query.sort)
             b == KeyBy(verdict, y, query.sort)
  <2>1. x \in rs /\ y \in rs /\ x # y
    <3>1. i # j
      BY <1>6, <1>7
    <3>2. QED
      BY <1>4, <1>6, <3>1
  <2>2. x.id # y.id
    BY <1>3, <2>1 DEF Distinct
  <2>3. ~BeforeBy(verdict, y, x, query)
    BY <1>5, <1>7
  <2>4. a \in Int /\ b \in Int
    <3> HIDE DEF x, y
    <3>1. x \in Row /\ y \in Row /\ verdict[x.identity] \in Shown /\ verdict[y.identity] \in Shown
      BY <1>3, <2>1
    <3>2. QED
      BY <3>1, KeysAreNumbers
  <2>5. IF query.dir = "desc" THEN ~(b > a) ELSE ~(b < a)
    BY <2>3 DEF BeforeBy
  <2>6. SortKey(items[i], query.sort) = a /\ SortKey(items[j], query.sort) = b
    BY Zenon DEF SortKey, KeyBy
  <2> HIDE DEF a, b
  <2>7. IF query.dir = "desc" THEN a >= b ELSE a <= b
    BY <2>4, <2>5
  <2>8. QED
    BY Zenon, <2>2, <2>6, <2>7
<1>8. QED
  BY <1>1, <1>4, <1>6, <1>7 DEF items, query

\* A client that walks all pages of a listing while nothing it reads changes
\* is shown each matching finding once, in order, and as many as it was
\* told: whatever the sort, the direction and the page size, because the row
\* id makes the order total (runs.py:402-476).
THEOREM WalkShowsEachOnce == Spec => []WalkIsExact
<1>1. StoreOK /\ ReaderOK /\ WalkFine /\ [Next]_vars => WalkFine'
  BY WalkFineStep
<1>2. QED
  BY <1>1, WalkFineInit, WalkExact, StoreHolds, ReaderHolds, PTL DEF Spec
=============================================================================
