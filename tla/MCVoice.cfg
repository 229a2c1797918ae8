\* One peer talks, so that every generation meets frames still under way; MaxGen 4
\* reuses a tag.  A stream of four slots: a gap of one is filled, one of two is not;
\* the buffer is one or two deep; two telemetry rows.
CONSTANTS
    caller = caller
    listener = listener
    Peers = {caller, listener}
    Talkers = {caller}
    WindowSize = 2
    MaxSeq = 11
    MaxDelay = 1
    CtlDelay = 1
    RetireAfter = 3
    MaxGen = 4
    Slots = 4
    Depths = {1, 2}
    MaxGap = 1
    MaxSamples = 2
    MaxRejects = 1
SPECIFICATION VSpec
INVARIANTS
    InFlightSurvives
    NeverWrongKey
    PlayedInOrder
    EveryDatagramCountedOnce
    LossNotHidden
