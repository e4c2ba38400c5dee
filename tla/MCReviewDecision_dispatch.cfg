\* A delivery ends after the row was queued again for another decision.
SPECIFICATION Spec
CONSTANTS
    Handlers = {h1, h2}
    MaxEvents = 5
    None = None
SYMMETRY Symmetry
INVARIANTS
    DispatchedMeansShown
\* The bound on events is reached.
CHECK_DEADLOCK FALSE
