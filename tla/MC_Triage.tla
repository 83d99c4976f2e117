----------------------------- MODULE MC_Triage ------------------------------
(* Triage on small instances: two runs of one project that share an identity. *)
EXTENDS Triage, TLC

CONSTANTS r1, r2, i1, i2, f1, f2, f3

\* r1 reports i1 and i2; r2, a later scan, reports i1 again.
MCRunOf == (f1 :> r1) @@ (f2 :> r1) @@ (f3 :> r2)
MCIdentityOf == (f1 :> i1) @@ (f2 :> i2) @@ (f3 :> i1)

\* One run with two findings.
MCRunOfOne == (f1 :> r1) @@ (f2 :> r1)
MCIdentityOfOne == (f1 :> i1) @@ (f2 :> i2)

\* One run with one finding.
MCRunOfSingle == f1 :> r1
MCIdentityOfSingle == f1 :> i1

\* Editors are interchangeable.
MCSymmetry == Permutations(Patches)
=============================================================================
