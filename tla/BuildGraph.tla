----------------------------- MODULE BuildGraph -----------------------------
(***************************************************************************)
(* The order in which projects that reference each other are built         *)
(* (internal/execute/build/orchestrator.go).                               *)
(***************************************************************************)
EXTENDS Sequences, SequencesExt

(* setupBuildTask: the projects after those they reference.                *)
RECURSIVE setupBuildTask(_, _, _)
setupBuildTask(refs, s, p) ==
    IF Contains(s.order, p) THEN s
    ELSE IF p \in s.analyzing THEN [s EXCEPT !.cyclic = TRUE]
    ELSE LET t == FoldLeft(LAMBDA acc, u : setupBuildTask(refs, acc, u),
                           [s EXCEPT !.analyzing = @ \cup {p}], refs[p])
         IN  [t EXCEPT !.order = Append(@, p)]

GenerateGraph(roots, refs) ==
    FoldLeft(LAMBDA acc, p : setupBuildTask(refs, acc, p),
             [order |-> <<>>, analyzing |-> {}, cyclic |-> FALSE], roots)
=============================================================================
