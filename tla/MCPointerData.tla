--------------------------- MODULE MCPointerData ---------------------------
(***************************************************************************)
(* PointerData for TLC.                                                    *)
(***************************************************************************)
EXTENDS PointerData, TLC

CONSTANTS c1, c2, c3, b1, b2

MCDepth == (b1 :> 1) @@ (b2 :> 2)

CallerSymmetry == Permutations(Caller)
============================================================================
