CONSTANTS
    caller = caller
    listener = listener
    Peers = {caller, listener}
    MaxGen = 0
    HangUppers = {caller}
    Finite = {}
    Faults = {}
    UiSetsStop = FALSE
SPECIFICATION FairSpec
PROPERTY HangUpEndsBoth
