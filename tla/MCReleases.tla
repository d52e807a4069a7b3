------------------------------ MODULE MCReleases ------------------------------
EXTENDS Releases, TLC

Symmetry == Permutations(Docs)
=============================================================================
