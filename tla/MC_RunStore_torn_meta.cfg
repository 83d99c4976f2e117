CONSTANTS
    u1 = u1  u2 = u2  u3 = u3  m1 = m1  m2 = m2  m3 = m3  m4 = m4
    s1 = s1  s2 = s2  i1 = i1  i2 = i2  w1 = w1  w2 = w2
    SwbIds = {i1, i2}
    Metas = {m1, m2}
    SarifOf <- MCSarifOf
    Reported <- MCReported
    Malformed = {}
    Uploads = {u1, u2, u3}
    Process <- MCOneProcess
    Deletes = {}
    ProjectDeletes = {}
    Baselines = {}
    Analysed = {}
    Marks = {"tp"}
    None = None
    MaxDecisions = 0
    MaxCrashes = 1
SPECIFICATION Spec
PROPERTIES AnswerIsIngested
