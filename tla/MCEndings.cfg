CONSTANTS
    caller = caller
    listener = listener
    Peers = {caller, listener}
    MaxGen = 1
    HangUppers = {caller}
    Finite = {}
    Faults = {"crash", "reset"}
    UiSetsStop = TRUE
SPECIFICATION FairSpec
PROPERTIES
    HangUpEndsBoth
    DeadPeerEndsCall
