CONSTANTS
    r1 = r1  r2 = r2  i1 = i1  i2 = i2  f1 = f1  f2 = f2  f3 = f3
    Runs = {r1, r2}
    Identities = {i1, i2}
    Findings = {f1, f2, f3}
    RunOf <- MCRunOf
    IdentityOf <- MCIdentityOf
    Marks = {"tp", "fp"}
    None = None
    Patches = {p1, p2}
    Resets = {}
    Analyses = {}
    MaxTries = 2
    MaxErrors = 1
SYMMETRY MCSymmetry
SPECIFICATION Spec
INVARIANTS JournalIsHistory
PROPERTIES EditsAreAtomic
