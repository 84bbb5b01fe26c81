--------------------------- MODULE MCAccountPool ----------------------------
\* The account pool on a small instance.
EXTENDS AccountPool, TLC

\* Tokens are interchangeable: the pool only compares them.
TokenSymmetry == Permutations(Tokens)
=============================================================================
