\* One worker, one task with a second attempt.
SPECIFICATION Spec
CONSTANTS
    Tasks = {t1}
    Reasoning = {}
    Workers = {w1}
    Callers = {}
    MaxAttempts = 2
    None = None
INVARIANTS
    StaleHasOutlivedWindow
CHECK_DEADLOCK FALSE
