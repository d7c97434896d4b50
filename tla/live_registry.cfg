SPECIFICATION Spec
CONSTANTS
    Talks <- MCTalks
    Clusters = 2
    Voices = {"a", "b"}
INVARIANTS
    DenseAndBounded
    PromotedOnTwoWindows
    OneVoicePerLabel
    SpeakersHaveSpeech
    PureLabels
PROPERTY NoNewSpeakerInSilence
CHECK_DEADLOCK FALSE
