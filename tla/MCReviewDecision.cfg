\* Two requests over one review, at most five requests and outside events in all:
\* enough for two deliveries that overlap, the finding, an acceptance and its expiry.
SPECIFICATION Spec
CONSTANTS
    Handlers = {h1, h2}
    MaxEvents = 5
    None = None
SYMMETRY Symmetry
INVARIANTS
    TypeOK
    DispatchedShowsOneDecision
    CompletedIsDecided
PROPERTIES
    SplitByStaleEvaluation
\* The bound on events is reached.
CHECK_DEADLOCK FALSE
