CONSTANTS
    r1 = r1  r2 = r2  r3 = r3  p1 = p1  p2 = p2
    None = None  Junk = Junk  NaN = NaN
    Runs = {r1, r2, r3}
    Projects = {p1, p2}
    ProjectOf <- MCProjectOf
    Identities = {1, 2, 3, 4}
    Verdicts <- MCVerdicts
    Reports <- MCReports
    Metas <- MCMetas
    RowIds <- MCRowIds
    Queries <- MCQueries
    MaxFindings = 2
    MaxWrites = 2
SPECIFICATION Spec
INVARIANTS TypeOK CountsAgree SeverityMonotone WalkIsExact DiffAnswersStore
    ReportWholeOrRefused ReportSpeaksOnce
