CONSTANTS
    Users = {bob, carol}
    Calls = {c1, c2}
    Public = TRUE
    MaxEvents = 3
    MaxFaults = 1
SPECIFICATION Spec
SYMMETRY Symmetry
INVARIANT ActiveInviteMeansInvited
 
INVARIANT JoinsAreReleased
INVARIANT ResidentRowsFollowState
CHECK_DEADLOCK FALSE
