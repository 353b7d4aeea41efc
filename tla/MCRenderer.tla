------------------------------- MODULE MCRenderer -------------------------------
EXTENDS Renderer, TLC

Symmetric == Permutations(Images)
================================================================================
