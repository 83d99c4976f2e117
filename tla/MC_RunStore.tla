---------------------------- MODULE MC_RunStore -----------------------------
(* RunStore on small instances: one project, one to three uploads. *)
EXTENDS RunStore, TLC

CONSTANTS u1, u2, u3, m1, m2, m3, m4, s1, s2, i1, i2, w1, w2

\* m1 and m2 are two enrichments of one report, m3 that of a later one,
\* m4 does not fit its report.
MCSarifOf == (m1 :> s1) @@ (m2 :> s1) @@ (m3 :> s2) @@ (m4 :> s1)
MCReported == (m1 :> {i1}) @@ (m2 :> {i2}) @@ (m3 :> {i1}) @@ (m4 :> {i1})

\* The same, when the two enrichments agree on the finding.
MCReportedSame == (m1 :> {i1}) @@ (m2 :> {i1}) @@ (m3 :> {i1})

\* Two reports, each enriched once; both find i1.
MCSarifOfTwo == (m1 :> s1) @@ (m3 :> s2)
MCReportedTwo == (m1 :> {i1}) @@ (m3 :> {i1, i2})

\* One server process, as deployed, or two behind one database.
MCOneProcess == [u \in Uploads |-> w1]
MCTwoProcesses == [u \in Uploads |-> IF u = u1 THEN w1 ELSE w2]
=============================================================================
