--------------------------- MODULE MCValidationRun ---------------------------
EXTENDS ValidationRun, TLC

Symmetry ==
    Permutations(Handlers \ Colleagues) \union Permutations(Colleagues)
        \union Permutations(Tools)
=============================================================================
