--------------------------- MODULE MCReviewDecision ---------------------------
EXTENDS ReviewDecision, TLC

Symmetry == Permutations(Handlers)
=============================================================================
