SPECIFICATION Spec
CONSTANTS
    served = served
    unserved = unserved
    x1 = x1
    x2 = x2
    y = y
    z = z
    Attempts = {a1, a2}
    Incidents = {served, unserved}
    Bindings <- MCBindings
    Selectors <- MCSelectors
    Known <- MCKnown
    EvidenceIds = {x1, x2, y, z}
    AuditBindings = {"changes"}
    Evidence <- MCEvidence
INVARIANTS
    TypeOK
    ConclusionCitesWhatWasShown
    CitedEvidenceOpens
    ConclusionSawEveryBinding
SYMMETRY Interchangeable
CHECK_DEADLOCK FALSE
