\* A disk that fills up while two programs create the identity.
CONSTANTS
    gui = gui
    cli = cli
    alice = alice
    Programs = {gui, cli}
    MaxRuns = 1
    Faults = {"disk_full"}
    Friends = {alice}
    MaxWrites = 1
SPECIFICATION FilesSpec
INVARIANT NeverHalfAnIdentity
