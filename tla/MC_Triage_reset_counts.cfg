CONSTANTS
    r1 = r1  r2 = r2  i1 = i1  i2 = i2  f1 = f1  f2 = f2  f3 = f3
    Runs = {r1}
    Identities = {i1}
    Findings = {f1}
    RunOf <- MCRunOfSingle
    IdentityOf <- MCIdentityOfSingle
    Marks = {"tp", "fp"}
    None = None
    Patches = {p1}
    Resets = {q1}
    Analyses = {}
    MaxTries = 1
    MaxErrors = 1
SPECIFICATION Spec
INVARIANTS CountsNeverLost
