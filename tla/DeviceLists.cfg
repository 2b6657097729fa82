\* One user with one device, an upload, a call and Start, and one failure.
CONSTANTS
    Users = {u1}
    Devices = {d1}
    Keys = {k1}
    Uploads = {p1}
    Calls = {t1}
    Starter = starter
    Capacity = 1
    MaxStream = 2
    MaxFaults = 1
SPECIFICATION FairSpec
INVARIANTS StaleIsAttended WaitsOnLiveChannel 
PROPERTIES StaleIsRefreshed
CHECK_DEADLOCK FALSE
