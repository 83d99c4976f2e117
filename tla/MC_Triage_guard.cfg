CONSTANTS
    r1 = r1  r2 = r2  i1 = i1  i2 = i2  f1 = f1  f2 = f2  f3 = f3
    Runs = {r1, r2}
    Identities = {i1, i2}
    Findings = {f1, f2}
    RunOf <- MCRunOfOne
    IdentityOf <- MCIdentityOfOne
    Marks = {"tp"}
    None = None
    Patches = {}
    Resets = {}
    Analyses = {a1, a2}
    MaxTries = 1
    MaxErrors = 1
SPECIFICATION FairSpec
INVARIANTS SoleAnalysisGuarded GuardNotLeaked
PROPERTIES AnalysisEnds
