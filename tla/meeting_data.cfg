SPECIFICATION Spec
CONSTANTS
    r1 = r1
    r2 = r2
    c1 = c1
    d1 = d1
    d2 = d2
    q1 = q1
    q2 = q2
    x = x
    y = y
    z = z
    Recordings = {r1, r2}
    Comparisons = {c1}
    Deletes = {d1, d2}
    Asks = {q1}
    Transcripts <- MCTranscripts
    Raw <- MCRaw
    None = None
    MaxScripts = 2
    MaxCrashes = 1
    MaxStuck = 1
    MaxRows = 2
SYMMETRY Symmetry
CONSTRAINT OneFailure
INVARIANTS
    AudioKept
    FilesHaveOwners
    CompletePairs
    SourcesShowWhatWasCited
CHECK_DEADLOCK FALSE
