------------------------ MODULE MCSnapshotLifecycle ------------------------
(* Instances of SnapshotLifecycle for TLC.                                 *)
EXTENDS SnapshotLifecycle, TLC

(* Requests of the editor, one background task.                            *)
Editing == [kinds |-> {"plain", "ref", "idle", "global"}, tasks |-> 1, edits |-> 1, configs |-> 1]

(* Clones for auto imports, two background tasks.                          *)
AutoImporting == [kinds |-> {"ref"}, tasks |-> 2, edits |-> 2, configs |-> 0]

(* With the API, the inferred-project options and documents without a      *)
(* project.                                                                *)
Irregular == [kinds |-> {"orphan", "api", "options", "global"}, tasks |-> 1, edits |-> 1, configs |-> 0]

AllWorkloads == {Editing, AutoImporting, Irregular}

(* The name a step gives to a new snapshot is any name that occurs nowhere *)
(* in the state, so that steps commute with permutations of the names.     *)
Symmetry == Permutations(Requests) \cup Permutations(Tasks) \cup Permutations(Ids)
=============================================================================
