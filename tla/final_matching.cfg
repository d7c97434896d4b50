SPECIFICATION FinalSpec
CONSTANTS
    Labels = {1, 2, 3}
    Diarized = {1, 2, 3}
    Timelines <- MCTimelines
    WordSpans <- MCWordSpans
INVARIANT MaximumWeight
CHECK_DEADLOCK FALSE
