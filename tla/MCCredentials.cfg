CONSTANTS
    Payloads <- MCPayloads
    MaxSends = 1
    Breaks = {"timeout", "reset"}
    gui = gui
    cli = cli
    tool = tool
    alice = alice
    bob = bob
    Programs = {gui, cli, tool}
    MaxRuns = 2
    Faults = {"disk_full", "denied", "acl", "crash"}
    Friends = {alice, bob}
    MaxWrites = 3
SPECIFICATION CSpec
SYMMETRY Symmetry
INVARIANTS
    OneIdentity
    StoreAlwaysWhole
    PairedStays
    CallerReturnsAccepted
    CallsArePinned
    FramesArriveWhole
