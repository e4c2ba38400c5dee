\* Two workers and one direct executor compete for one job with two attempts
\* and two targets, while one cancellation is in flight.
SPECIFICATION FairSpec
CONSTANTS
    Jobs = {j1}
    Bundled = {}
    Workers = {w1, w2}
    Direct = {d1}
    Users = {u1}
    Targets = {t1, t2}
    MaxAttempts = 2
    ReapLimit = 1
    None = None
INVARIANTS
    TypeOK
    AttemptUnique
    CompletedCoversTargets
PROPERTIES
    TerminalIsFinal
    RevivedByStaleSession
    ImplementsLedger
    SettlesOrStrands
\* The queue may drain: an empty poll changes no row.
CHECK_DEADLOCK FALSE
