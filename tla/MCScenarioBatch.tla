--------------------------- MODULE MCScenarioBatch ---------------------------
EXTENDS ScenarioBatch, TLC

Symmetry == Permutations(Runs) \cup Permutations(Workers)
=============================================================================
