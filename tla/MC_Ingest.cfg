SPECIFICATION Spec
CONSTANTS
    None = None
    Fp = Fp
    MaxWindow = 2
    MaxResults = 3
    MaxEdits = 2
    Results <- MCResults
    Sources <- MCSources
    Lines <- MCLines
INVARIANTS
    TypeOK
    IdsDistinct
    OrderIndependent
    ShiftKeepsIds
    FixKeepsOthers
    EnrichedIsAccepted
    AcceptedIsOneToOne
CHECK_DEADLOCK FALSE
