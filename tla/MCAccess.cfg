\* Two keys, two browser sessions, two runs and two processes in flight.
CONSTANTS
    Keys = {k1, k2}
    Verifiers = {v1, v2}
    Runs = {r1, r2}
    Processes = {p1, p2}
    NoRun = NoRun
    NoKey = NoKey
    NoSession = NoSession
    Lifetime = 1
    Ages <- MCAges
    PurgeLimit = 1
    MaxTime = 2
SPECIFICATION Spec
SYMMETRY Symmetry
INVARIANTS
    RevokedOnce
    ChangesAreAuthorised
PROPERTY OutIsOut
CHECK_DEADLOCK FALSE
