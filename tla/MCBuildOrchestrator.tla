------------------------ MODULE MCBuildOrchestrator ------------------------
(* Instances of BuildOrchestrator for TLC.                                 *)
EXTENDS BuildOrchestrator, BuildGraph, TLC

CONSTANTS a, b, c

(* c references b, which references a.                                     *)
Chain == (a :> <<>>) @@ (b :> <<a>>) @@ (c :> <<b>>)
(* c references a and b.                                                   *)
Fork == (a :> <<>>) @@ (b :> <<>>) @@ (c :> <<a, b>>)

SameRefs == [p \in Projects |-> {}]
(* The fork loses its second project; a and c may form a cycle.            *)
Dropped == (a :> {<<c>>}) @@ (b :> {}) @@ (c :> {<<a>>})

(* A chain of projects is watched and their sources are edited.            *)
Watching ==
    [roots |-> <<a, b, c>>, refs |-> Chain, otherRefs |-> SameRefs, missing |-> {},
     watch |-> TRUE, stopOnErrors |-> FALSE, modes |-> {"build"},
     during |-> FALSE, edits |-> {"touch", "api", "error"}, maxEdits |-> 3]

(* The same, with edits while builds are under way.                        *)
EditingDuring == [Watching EXCEPT !.during = TRUE, !.edits = {"body", "api"}, !.maxEdits = 2]

(* A fork is watched and its references are edited as well.                *)
Reconfiguring ==
    [Watching EXCEPT !.roots = <<c>>, !.refs = Fork, !.otherRefs = Dropped,
                     !.edits = {"touch", "api", "config"}, !.maxEdits = 2]

(* Invocations that stop on errors, of all modes, over all kinds of edits. *)
Invoking ==
    [Watching EXCEPT !.watch = FALSE, !.stopOnErrors = TRUE, !.modes = {"build", "force", "clean"},
                     !.edits = {"touch", "body", "api", "error", "config", "remove"}, !.maxEdits = 2]

AllUses == {Watching, EditingDuring, Reconfiguring, Invoking}
=============================================================================
