CONSTANTS
    r1 = r1  r2 = r2  i1 = i1  i2 = i2  f1 = f1  f2 = f2  f3 = f3
    Runs = {r1}
    Identities = {i1, i2}
    Findings = {f1, f2}
    RunOf <- MCRunOfOne
    IdentityOf <- MCIdentityOfOne
    Marks = {"tp"}
    None = None
    Patches = {p1}
    Resets = {q1}
    Analyses = {a1}
    MaxTries = 2
    MaxErrors = 1
SPECIFICATION Spec
INVARIANTS TypeOK BreakerHolds
PROPERTIES CountsFresh AnalysisSparesDecision NoLostUpdate ResetClears KeepsLog
