\* Rotations are processed within nine frame times, three times as late as keys retire.
CONSTANTS
    caller = caller
    listener = listener
    Peers = {caller, listener}
    Talkers = {caller}
    WindowSize = 2
    MaxSeq = 12
    MaxDelay = 1
    CtlDelay = 9
    RetireAfter = 3
    MaxGen = 4
SPECIFICATION Spec
INVARIANT AtMostThreeLive
