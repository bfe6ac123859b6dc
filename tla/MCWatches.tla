----------------------------- MODULE MCWatches -----------------------------
(* Instances of Watches for TLC.                                           *)
EXTENDS Watches, TLC

(* One update after the other; and two tasks in any order, with adopted    *)
(* clones and one request that the client refuses.                         *)
AllWorkloads ==
    {[orderly |-> TRUE, owners |-> Owners, ids |-> 3, count |-> 2, refusals |-> 0],
     [orderly |-> FALSE, owners |-> AutoImports, ids |-> 3, count |-> 1, refusals |-> 1]}

Symmetry == Permutations(Tasks)
=============================================================================
