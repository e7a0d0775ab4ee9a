--------------------------- MODULE MCMallocDebug ---------------------------
(***************************************************************************)
(* MallocDebug for TLC.                                                    *)
(***************************************************************************)
EXTENDS MallocDebug, TLC

CONSTANTS t1, t2, t3, b1, b2

MCCaller == Thread \X {"main", "sig"}
MCDepth  == (b1 :> 1) @@ (b2 :> 2)

ThreadSymmetry == Permutations(Thread)
============================================================================
