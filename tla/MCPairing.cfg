\* Three connections exceed two slots and two attempts; two nonces can differ.  No
\* symmetry: the run checks liveness.
CONSTANTS
    c1 = c1
    c2 = c2
    c3 = c3
    Conns = {c1, c2, c3}
    MaxHandshakes = 2
    MaxAttempts = 2
    Nonces = {1, 2}
SPECIFICATION PSpec
INVARIANTS
    SlotsMatchHandshakes
    OneAtATime
    NothingSavedUnreported
    SavedMeansBothSaidYes
    HonestPeersAgree
    OneSidedIsAnInterruption
PROPERTIES
    AllowPairingReturns
    RunsEnd
