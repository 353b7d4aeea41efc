---------------------------- MODULE MCWorldCache ----------------------------
\* Small instances of the world cache: what a user may start by hand.
EXTENDS WorldCache, TLC

Nothing     == {}
WholeWorld  == { AllScope }
JobSymmetry == Permutations(Jobs)
=============================================================================
