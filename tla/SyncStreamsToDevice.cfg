CONSTANTS
    KindOrder <- ToDeviceOnly
    r1 = r1
    r2 = r2
    Requests = {r1, r2}
    FailingReads = {"toDevice"}
    MaxItems = 3
    MaxFaults = 2
SPECIFICATION Spec
SYMMETRY RequestSymmetry
INVARIANTS KeptUntilReceived NoLostWakeUp TokenIsKnown
