\* Two polling workers and a request that runs the same job, one attempt per
\* task, the default.
SPECIFICATION Spec
CONSTANTS
    Tasks = {t1, t2}
    Reasoning = {t2}
    Workers = {w1, w2}
    Callers = {c1}
    MaxAttempts = 1
    None = None
SYMMETRY Symmetry
INVARIANTS
    EndedJobHasNoOpenTask
    CompletedJobMeansCompletedTasks
PROPERTIES
    OutcomeStands
\* Once the job has ended nobody needs to do anything.
CHECK_DEADLOCK FALSE
