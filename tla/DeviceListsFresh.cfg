\* One user with one device and nothing that fails.
CONSTANTS
    Users = {u1}
    Devices = {d1}
    Keys = {k1}
    Uploads = {p1}
    Calls = {t1}
    Starter = starter
    Capacity = 1
    MaxStream = 2
    MaxFaults = 0
SPECIFICATION Spec
INVARIANTS FreshIsLatest
CHECK_DEADLOCK FALSE
