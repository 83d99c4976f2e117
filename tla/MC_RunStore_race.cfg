CONSTANTS
    u1 = u1  u2 = u2  u3 = u3  m1 = m1  m2 = m2  m3 = m3  m4 = m4
    s1 = s1  s2 = s2  i1 = i1  i2 = i2  w1 = w1  w2 = w2
    SwbIds = {i1, i2}
    Metas = {m1, m2}
    SarifOf <- MCSarifOf
    Reported <- MCReported
    Malformed = {}
    Uploads = {u1, u2}
    Process <- MCTwoProcesses
    Deletes = {d1}
    ProjectDeletes = {z1}
    Baselines = {b1}
    Analysed = {u1}
    Marks = {"tp"}
    None = None
    MaxDecisions = 1
    MaxCrashes = 1
SPECIFICATION Spec
INVARIANTS TypeOK AnswersAgree RowsHaveBlobs
