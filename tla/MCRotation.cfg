CONSTANTS
    caller = caller
    listener = listener
    Peers = {caller, listener}
    MaxGen = 3
    HangUppers = {}
    Finite = {caller}
    Faults = {"partition"}
    UiSetsStop = TRUE
SPECIFICATION Spec
SYMMETRY Symmetry
INVARIANTS
    NoProtocolError
    Convergence
PROPERTY RotationsAgree
