\* Two confirmations in flight, with the keys of two requests, and two issues:
\* enough for a retry that overlaps the delivery it repeats.
SPECIFICATION HandoffSpec
CONSTANTS
    Confirmers = {c1, c2}
    Keys = {k1, k2}
    MaxIssues = 2
    MaxRefs = 2
    NoTicket = NoTicket
SYMMETRY Symmetry
INVARIANTS
    HandoffTypeOK
PROPERTIES
    PartedByStaleCopyOnly
    SecondIssueByStaleCopyOnly
    RefLostByStaleCopyOnly
\* The bounds on issues and references are reached.
CHECK_DEADLOCK FALSE
