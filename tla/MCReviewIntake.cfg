\* Two requests in flight and two contents of the bundle.
SPECIFICATION Spec
CONSTANTS
    Handlers = {h1, h2}
    Bundles = {1, 2}
SYMMETRY Symmetry
INVARIANTS
    TypeOK
    OneReadyBundle
    StatusHasBacking
PROPERTIES
    OnlyStaleCopiesLeaveTable
