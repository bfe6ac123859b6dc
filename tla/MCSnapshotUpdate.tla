-------------------------- MODULE MCSnapshotUpdate --------------------------
(* Instances of SnapshotUpdate for TLC.                                    *)
EXTENDS SnapshotUpdate, TLC

CONSTANTS a  \* the root file in OneRoot

(* A document is its file.                                                 *)
OwnPath == [u \in Uris |-> u]

(* All files are root files and none imports another.                      *)
RootsOnly(volatile, delayed) ==
    [touched |-> Uris, maxPending |-> 2, volatile |-> volatile, delayed |-> delayed,
     roots |-> Paths, importing |-> {}, api |-> FALSE]

(* Other programs create, rewrite and delete files and the event comes at  *)
(* once.                                                                   *)
AtOnce == {RootsOnly(Paths, FALSE)}

(* They only rewrite them and the event comes late.                        *)
Late == {RootsOnly({}, TRUE)}

(* One root file, which imports the others if it holds one text and not if *)
(* it holds the other; files also change without an event and the API says *)
(* so.                                                                     *)
Unwatched ==
    {[touched |-> Uris, maxPending |-> 2, volatile |-> {}, delayed |-> FALSE,
      roots |-> {p}, importing |-> {c}, api |-> TRUE] :
        p \in Paths, c \in Contents}

(* One document in long batches.                                           *)
Deep == {[RootsOnly({u}, FALSE) EXCEPT !.touched = {u}, !.maxPending = 4] : u \in Uris}

AllSettings == Deep \cup AtOnce \cup Late \cup Unwatched

(* One root file; other programs create and delete the others.             *)
OneRoot == {[RootsOnly(Paths \ {a}, FALSE) EXCEPT !.roots = {a}, !.maxPending = 3]}

(* Every permutation of files and texts maps the settings of a run to      *)
(* settings of the run.                                                    *)
Symmetry == Permutations(Paths) \cup Permutations(Contents)
=============================================================================
