SPECIFICATION Spec
CONSTANTS
    r1 = r1
    r2 = r2
    r3 = r3
    l1 = l1
    a = a
    Recordings = {r1, r2, r3}
    Uploads = {r1}
    Labels = {l1}
    LabelsOf <- Voices
    Names = {a}
    NoName = NoName
    MaxSessions = 2
    TTL = 1
    MaxClock = 2
    MaxRenames = 2
    MaxLate = 1
    MaxEdits = 1
    MaxRestarts = 1
    MaxRuns = 1
SYMMETRY Symmetry
INVARIANTS
    ReadsAllNames
    NamesKept
PROPERTY SessionsLastWhileUsed
CHECK_DEADLOCK FALSE
