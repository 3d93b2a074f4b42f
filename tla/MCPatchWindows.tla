--------------------------- MODULE MCPatchWindows ---------------------------
(***************************************************************************)
(* Instances of PatchWindows for TLC: a schedule that matches every minute, *)
(* one that matches every third, and a computeNextRun that looks two        *)
(* minutes ahead, so that the latter is at first out of its reach.          *)
(***************************************************************************)
EXTENDS PatchWindows, TLC

CONSTANTS w1, w2, each, third, e1, e2

CronMatches == (each :> 1 .. MaxTime + 2) @@ (third :> {3, 6})

=============================================================================
