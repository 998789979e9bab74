--------------------------- MODULE MCMultiplexer ---------------------------
EXTENDS Multiplexer, TLC

Symmetry == Permutations(Queries)
=============================================================================
