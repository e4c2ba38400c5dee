\* Two acceptances and three requests: a revocation, a sweep and a second
\* revocation of the same row may be open at once.
SPECIFICATION Spec
CONSTANTS
    Acceptances = {a1, a2}
    Handlers = {h1, h2, h3}
SYMMETRY Symmetry
INVARIANTS
    TypeOK
PROPERTIES
    ImplementsLife
    RevocationKept
    UnrevokedByStaleSweep
    TrailLostByStaleWriter
\* Nothing is left to do once every row has been revoked.
CHECK_DEADLOCK FALSE
