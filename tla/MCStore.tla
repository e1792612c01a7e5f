------------------------------- MODULE MCStore -------------------------------
EXTENDS Store

SaverSymmetry == Permutations(Savers)
=============================================================================
