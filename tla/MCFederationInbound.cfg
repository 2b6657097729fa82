CONSTANTS
    r = r
    a1 = a1
    a2 = a2
    a3 = a3
    b1 = b1
    b2 = b2
    m = m
    n = n
    A = A
    B = B
    C = C
    Events <- Graph
    Root = r
    Prev <- PrevOf
    Auth <- AuthOf
    KeyOf <- KeysOf
    NoKey = "none"
    Rank <- RankOf
    Origins = {A, B, C}
    Transactions <- Pushed
    Handlers = {h1, h2}
    None = None
    Limit = 3
    MaxFaults = 1
SPECIFICATION Spec
INVARIANT TypeOK
INVARIANT StateIsRight
 
PROPERTY NoOriginIsWedged
CHECK_DEADLOCK FALSE
