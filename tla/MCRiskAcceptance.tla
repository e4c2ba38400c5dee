-------------------------- MODULE MCRiskAcceptance --------------------------
EXTENDS RiskAcceptance, TLC

Symmetry == Permutations(Handlers)
=============================================================================
