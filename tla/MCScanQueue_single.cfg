\* One polling worker over two jobs, one of a review bundle.  Its reaper takes one
\* row at a time, so a job may be left for a later poll: with nobody to race with,
\* every job ends all the same.
SPECIFICATION FairSpec
CONSTANTS
    Jobs = {j1, j2}
    Bundled = {j2}
    Workers = {w1}
    Direct = {}
    Users = {u1}
    Targets = {t1}
    MaxAttempts = 2
    ReapLimit = 1
    None = None
INVARIANTS
    NoJobStranded
PROPERTIES
    EveryJobSettles
\* The queue may drain: an empty poll changes no row.
CHECK_DEADLOCK FALSE
