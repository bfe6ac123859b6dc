--------------------------- MODULE MCCheckerPool ---------------------------
(* Instances of CheckerPool for TLC.                                       *)
EXTENDS CheckerPool, TLC

CONSTANTS p1, p2, p3

(* Two of the goroutines nest their acquisitions or come back.             *)
TwiceOnceTwice == (p1 :> 2) @@ (p2 :> 1) @@ (p3 :> 2)
Once == [p \in Procs |-> 1]
=============================================================================
