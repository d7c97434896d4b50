SPECIFICATION FairSpec
CONSTANTS
    NumMeetings = 2
    s1 = s1
    s2 = s2
    p1 = p1
    p2 = p2
    Slots = {s1, s2}
    Procs = {p1}
    ProcOf <- OneProcess
    Requests = {r1}
    Transcripts = {t1, NoTurns}
    NoTurns = NoTurns
    NoInput = NoInput
    Lease = 1
    JobsOutliveLease = TRUE
    RequestsOverlap = FALSE
PROPERTIES
    QueuedWorkRuns
    ExpiredJobsRecovered
