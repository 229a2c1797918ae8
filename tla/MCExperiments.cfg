CONSTANTS
    MaxSeq = 2
    FileFrames = 1
    LossPcts = {0, 30, 75, 150}
    BurstLens = {0, 3}
    QueueMax = 2
    MaxRead = 3
    Datagrams <- MCDatagrams
    Transports = {"tcp", "udp-naive", "udp-retry"}
    Attempts = 2
    MaxHellos = 3
    MaxDups = 1
SPECIFICATION ESpec
INVARIANTS
    EveryFrameAccounted
    InflightIsWhatWaits
PROPERTIES
    CompletedIsSuccess
    SenderEnds
CHECK_DEADLOCK FALSE
