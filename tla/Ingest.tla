------------------------------- MODULE Ingest -------------------------------
(***************************************************************************)
(* From a SARIF report to the findings the server stores: `swb-cli enrich` *)
(* writes one finding per located result (enrich.py), the file may be      *)
(* edited or damaged on its way, and the upload checks it against the      *)
(* report before anything is stored (server/swb_server/ingest.py).         *)
(*                                                                         *)
(* The results of a report are numbered through: the pair (run, result) of *)
(* a locator is one number, and one past the end stands for every pair     *)
(* that points at nothing.                                                 *)
(***************************************************************************)
EXTENDS SwbIds

CONSTANTS
    Results,        \* the results that reports are made of
    Sources,        \* the checkouts: the lines of each uri, None if unreadable
    Lines,          \* what a line of source may be
    MaxResults,     \* bound: results in a report
    MaxEdits        \* bound: edits of a swbmeta file before its upload

ASSUME BoundsAssumption ==
    MaxWindow \in Nat /\ MaxResults \in Nat /\ MaxEdits \in Nat

ASSUME NoneAssumption == None \notin Int /\ None \notin Seq(Lines)

\* uri and message stand for strings, which the code orders; lines count from
\* one (SARIF 2.1.0); a region may lack its end and its column.  rest is what
\* enrichment takes over unread: code flows, severity, properties.
ASSUME ResultsAssumption ==
    \A r \in Results :
        /\ r = [located |-> r.located, uri |-> r.uri, tool |-> r.tool, rule |-> r.rule,
                start |-> r.start, end |-> r.end, column |-> r.column,
                message |-> r.message, fingerprints |-> r.fingerprints,
                partial |-> r.partial, rest |-> r.rest]
        /\ r.located \in BOOLEAN
        /\ r.uri \in Int /\ r.message \in Int
        /\ r.start \in Nat \ {0}
        /\ r.end \in Int \cup {None}
        /\ r.column \in Int \cup {None}

ASSUME SourcesAssumption ==
    \A s \in Sources, r \in Results : s[r.uri] \in Seq(Lines) \cup {None}

VARIABLES
    report,     \* the SARIF file: its results
    source,     \* the checkout it is enriched against
    at,         \* the next result of the first pass of _build_findings
    prepared,   \* prepared and identity_sources: what that pass has gathered
    meta,       \* the findings of the swbmeta file
    edits,      \* how often the file was edited
    pc          \* gathering -> enriched -> accepted or refused

vars == <<report, source, at, prepared, meta, edits, pc>>

Reports == UNION {[1..n -> Results] : n \in 0..MaxResults}

Init ==
    /\ report \in Reports
    /\ source \in Sources
    /\ at = 1
    /\ prepared = <<>>
    /\ meta = <<>>
    /\ edits = 0
    /\ pc = "gathering"

-----------------------------------------------------------------------------
(* swb-cli enrich.                                                         *)

\* First pass of _build_findings: a result with a location is prepared.
GatherResult ==
    /\ pc = "gathering"
    /\ at \in DOMAIN report
    /\ report[at].located
    /\ prepared' = Append(prepared,
         [locator |-> at, item |-> IdentitySource(report[at], source[report[at].uri])])
    /\ at' = at + 1
    /\ UNCHANGED <<report, source, meta, edits, pc>>

\* A result without locations is counted and left out.
\* With a bug: the one after it is left out too.
AfterSkipTwo == at + 2
AfterSkip == at + 1

SkipResult ==
    /\ pc = "gathering"
    /\ at \in DOMAIN report
    /\ ~report[at].located
    /\ at' = AfterSkip
    /\ UNCHANGED <<report, source, prepared, meta, edits, pc>>

\* Second pass: the ids, the findings, the file.
Items == [i \in DOMAIN prepared |-> prepared[i].item]

WriteMeta ==
    /\ pc = "gathering"
    /\ at \notin DOMAIN report
    /\ meta' = [i \in DOMAIN prepared |->
         [locator |-> prepared[i].locator, swb_id |-> AssignSwbIds(Items)[i]]]
    /\ pc' = "enriched"
    /\ UNCHANGED <<report, source, at, prepared, edits>>

-----------------------------------------------------------------------------
(* The file between the two programs.  External: nothing in the code edits *)
(* it, but the upload takes any file.                                      *)

\* The empty swb_id.
NoId == [level |-> "", base |-> <<>>, occurrence |-> 0]

Without(s, i) == SubSeq(s, 1, i - 1) \o SubSeq(s, i + 1, Len(s))

EditsOf(m) ==
       {Without(m, i) : i \in DOMAIN m}
    \cup {Append(m, m[i]) : i \in DOMAIN m}
    \cup {[m EXCEPT ![i].locator = l] : i \in DOMAIN m, l \in 1..(Len(report) + 1)}
    \cup {[m EXCEPT ![i].swb_id = NoId] : i \in DOMAIN m}

EditMeta ==
    /\ pc = "enriched"
    /\ edits < MaxEdits
    /\ meta' \in EditsOf(meta)
    /\ edits' = edits + 1
    /\ UNCHANGED <<report, source, at, prepared, pc>>

-----------------------------------------------------------------------------
(* ingest: both checks, and the outcome of the upload.                     *)

\* _validate_meta_findings: an empty swb_id is refused.
ValidFindings == \A i \in DOMAIN meta : meta[i].swb_id # NoId

\* _reconcile_results_and_meta.
WithLocations == {n \in DOMAIN report : report[n].located}
Unanchored == {i \in DOMAIN meta : meta[i].locator \notin WithLocations}
Seen == {meta[i].locator : i \in DOMAIN meta \ Unanchored}
\* With a bug: a result may be claimed twice.
NeverClaimedTwice == {}
ClaimedTwice ==
    {n \in Seen : \E i, j \in DOMAIN meta : i # j /\ meta[i].locator = n /\ meta[j].locator = n}
Missing == WithLocations \ Seen

Reconciled == Unanchored = {} /\ ClaimedTwice = {} /\ Missing = {}

Accept ==
    /\ pc = "enriched"
    /\ ValidFindings
    /\ Reconciled
    /\ pc' = "accepted"
    /\ UNCHANGED <<report, source, at, prepared, meta, edits>>

\* MetaValidationError: 422, nothing is stored.
Refuse ==
    /\ pc = "enriched"
    /\ ~(ValidFindings /\ Reconciled)
    /\ pc' = "refused"
    /\ UNCHANGED <<report, source, at, prepared, meta, edits>>

Next == GatherResult \/ SkipResult \/ WriteMeta \/ EditMeta \/ Accept \/ Refuse

Spec == Init /\ [][Next]_vars

-----------------------------------------------------------------------------
(* Correctness.                                                            *)

\* The numbers are where the pass stands, and the outcome is one of four.
TypeOK ==
    /\ report \in Reports
    /\ source \in Sources
    /\ at \in 1..(Len(report) + 1)
    /\ edits \in 0..MaxEdits
    /\ pc \in {"gathering", "enriched", "accepted", "refused"}
    /\ \A i \in DOMAIN meta : meta[i].locator \in 1..(Len(report) + 1)

\* The file as enrich wrote it.
Written == pc = "enriched" /\ edits = 0

\* swb_id is the key of a finding: assign_swb_ids gives no two findings of a
\* file the same one, however alike they are.
IdsDistinct ==
    Written => \A i, j \in DOMAIN meta : i # j => meta[i].swb_id # meta[j].swb_id

\* The result a finding was made of, and the findings that numbering cannot tell
\* from it: the same level, material and sort key.
ResultOf(i) == report[prepared[i].locator]
Tied(i) == {j \in Group(Items, i) : SortKey(Items[j]) = SortKey(Items[i])}

Reorderings ==
    {p \in [DOMAIN prepared -> DOMAIN prepared] :
        \A i, j \in DOMAIN prepared : i # j => p[i] # p[j]}

\* "occurrence must not depend on result order" (enrich.py:162-164): whatever
\* order the scanner lists its results in, a result gets the same ids unless a
\* different one ties with it, and those that tie share the same ids between
\* them.  Which of them gets which follows the order of the file, where
\* fingerprints.py:209-210 promises that of byte-identical duplicates only:
\* results that differ in their end line, column 0 or none, or rest tie too.
OrderIndependent ==
    Written => \A p \in Reorderings, i \in DOMAIN prepared :
        LET ids      == AssignSwbIds([j \in DOMAIN prepared |-> Items[p[j]]])
            Same(j)  == ResultOf(j) = ResultOf(i)
        IN  /\ {ids[j] : j \in {k \in DOMAIN prepared : p[k] \in Tied(i)}} =
                  {meta[j].swb_id : j \in Tied(i)}
            /\ (\A j \in Tied(i) : Same(j)) =>
                  {ids[j] : j \in {k \in DOMAIN prepared : Same(p[k])}} =
                     {meta[j].swb_id : j \in {k \in DOMAIN prepared : Same(k)}}

\* A finding keeps its id when a line is inserted at the top of a file, its own
\* or another one, unless it has neither a fingerprint of the tool nor source
\* that can be read.
Shifted(r) ==
    [r EXCEPT !.start = @ + 1, !.end = IF @ = None THEN None ELSE @ + 1]

AfterInsertion(r, u, text) ==
    IF r.uri # u THEN IdentitySource(r, source[r.uri])
    ELSE IdentitySource(Shifted(r),
            IF source[u] = None THEN None ELSE <<text>> \o source[u])

ShiftKeepsIds ==
    Written => \A u \in DOMAIN source, text \in Lines :
        LET ids == AssignSwbIds([i \in DOMAIN prepared |->
                        AfterInsertion(report[prepared[i].locator], u, text)])
        IN  \A i \in DOMAIN prepared :
                Items[i].level # "legacy" => ids[i] = meta[i].swb_id

\* When a finding is fixed, and nothing else changes in what the scanner
\* reports, the others keep their ids, and with them their verdicts, but for
\* those of the same material that come after it.
FixKeepsOthers ==
    Written => \A gone, i \in DOMAIN prepared :
        \/ Items[i].level # Items[gone].level
        \/ Items[i].base # Items[gone].base
        \/ Precedes(Items, i, gone)
        => AssignSwbIds(Without(Items, gone))[IF i < gone THEN i ELSE i - 1] = meta[i].swb_id

\* What enrich writes is accepted as it is: no report makes the two programs
\* disagree on which results have a finding.
EnrichedIsAccepted == pc = "refused" => edits > 0

\* "claimed by exactly one meta finding" (ingest.py): whatever was done to the
\* file, when it is accepted every located result has exactly one finding,
\* every finding one located result, and no finding lacks an id.
AcceptedIsOneToOne ==
    pc = "accepted" =>
        /\ \A n \in DOMAIN report : report[n].located =>
              \E i \in DOMAIN meta : meta[i].locator = n
        /\ \A i \in DOMAIN meta :
              /\ meta[i].locator \in DOMAIN report
              /\ report[meta[i].locator].located
              /\ meta[i].swb_id # NoId
        /\ \A i, j \in DOMAIN meta : meta[i].locator = meta[j].locator => i = j
=============================================================================
