---------------------------- MODULE SettledFile ----------------------------
(***************************************************************************)
(* What the file system of a snapshot promises about one path, to the      *)
(* goroutines that build the snapshot and to the readers of the finished   *)
(* one: the file has one text, or is missing, and everybody who asks gets  *)
(* the same answer.  DiskFileCache implements this.                        *)
(***************************************************************************)
CONSTANTS Procs, Texts, Missing, Unknown

Answers == Texts \cup {Missing}

VARIABLES
    phase,       \* "mark": changes are recorded; "build": goroutines ask;
                 \* "cleaned": the text will not be kept
    file,        \* the text of the file in the snapshot being made
    got,         \* what each goroutine was told
    published    \* the text of the file in the finished snapshot

vars == <<phase, file, got, published>>

Init ==
    /\ phase = "mark"
    /\ file \in Answers \cup {Unknown}
    /\ got = [p \in Procs |-> Unknown]
    /\ published \in Answers \cup {Unknown}

(* Before anybody asks, what is known may change or be forgotten.          *)
Mark ==
    /\ phase = "mark" /\ phase' \in {"mark", "build"}
    /\ file' \in Answers \cup {Unknown}
    /\ UNCHANGED <<got, published>>

Settle ==
    /\ phase = "build" /\ file = Unknown
    /\ file' \in Answers
    /\ UNCHANGED <<phase, got, published>>

Tell(p) ==
    /\ phase = "build" /\ file # Unknown
    /\ got' = [got EXCEPT ![p] = file]
    /\ UNCHANGED <<phase, file, published>>

(* A reader of the finished snapshot asks first.                           *)
Read ==
    /\ published = Unknown
    /\ published' \in Answers
    /\ UNCHANGED <<phase, file, got>>

(* Nobody asks any more, and the text is dropped.                          *)
Forget ==
    /\ phase = "build" /\ phase' = "cleaned"
    /\ file' \in Answers \cup {Unknown}
    /\ UNCHANGED <<got, published>>

(* The new snapshot replaces the finished one.  It has the text that       *)
(* goroutines were told, unless that was dropped; a file that was missing  *)
(* is looked for again.                                                    *)
Kept(answer) == IF phase = "cleaned" \/ answer = Missing THEN Unknown ELSE answer

Publish ==
    /\ phase \in {"build", "cleaned"} /\ phase' = "mark"
    /\ got' = [p \in Procs |-> Unknown]
    /\ published' \in Answers \cup {Unknown}
    /\ \A p \in Procs : got[p] # Unknown => published' = Kept(got[p])
    /\ file' \in Answers \cup {Unknown}

Next == Mark \/ Settle \/ (\E p \in Procs : Tell(p)) \/ Read \/ Forget \/ Publish

Spec == Init /\ [][Next]_vars
=============================================================================
