CONSTANTS
    KindOrder <- AllStreams
    r1 = r1
    Requests = {r1}
    FailingReads = {"toDevice", "invite"}
    MaxItems = 2
    MaxFaults = 1
SPECIFICATION FairSpec
INVARIANTS NothingMissed
PROPERTIES EventuallyReceived
