\* Two workers and a second attempt.
SPECIFICATION FairSpec
CONSTANTS
    Tasks = {t1, t2}
    Reasoning = {t2}
    Workers = {w1, w2}
    Callers = {}
    MaxAttempts = 2
    None = None
INVARIANTS
    TypeOK
PROPERTIES
    JobStaysEnded
    AttemptsOnlyGrow
    EndsOrIsLeftBehind
\* Once the job has ended the workers find nothing to do.
CHECK_DEADLOCK FALSE
