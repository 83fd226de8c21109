------------------------------ MODULE MCEngine ------------------------------
EXTENDS Engine, TLC

\* Jobs and the ids of one slice are interchangeable.
Symmetry == Permutations(Jobs) \union Permutations(Mints)
=============================================================================
