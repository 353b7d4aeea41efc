-------------------------- MODULE MCWallpaperControl --------------------------
(* Instances of WallpaperControl for TLC. *)
EXTENDS WallpaperControl, TLC

CONSTANTS k1, k2

OneOutput  == k1 :> 1
TwoOutputs == k1 :> 2
BothCounts == k1 :> 1 @@ k2 :> 2

WallSymmetry == Permutations(Walls)
=============================================================================
