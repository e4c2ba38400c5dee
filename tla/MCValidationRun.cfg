\* A request of the run's owner and one of a colleague, two tools.
SPECIFICATION Spec
CONSTANTS
    Handlers = {h1, h2}
    Colleagues = {h2}
    Tools = {t1, t2}
    None = None
SYMMETRY Symmetry
INVARIANTS
    TypeOK
    
PROPERTIES
    
    LostByStaleCopyOnly
    PartedByRunnerOrStaleCopy
    DecidedAgainByStaleCopyOnly
\* A run that has concluded, or was rejected, is at rest.
CHECK_DEADLOCK FALSE
