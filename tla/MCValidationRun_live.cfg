\* A request of the run's owner and one of a colleague, one tool.
SPECIFICATION FairSpec
CONSTANTS
    Handlers = {h1, h2}
    Colleagues = {h2}
    Tools = {t1}
    None = None
PROPERTIES
    RunConcludesOrCancelled
\* A run that has concluded, or was rejected, is at rest.
CHECK_DEADLOCK FALSE
