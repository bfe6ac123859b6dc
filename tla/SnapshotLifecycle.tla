------------------------- MODULE SnapshotLifecycle -------------------------
(***************************************************************************)
(* The snapshots of a session (internal/project/session.go, snapshot.go):  *)
(* how pending changes become the next snapshot, who holds references to   *)
(* snapshots, and when a snapshot and its program are released.            *)
(*                                                                         *)
(* Requests flush the pending changes and replace the session's snapshot   *)
(* under snapshotUpdateMu; updateSnapshot clones and installs under        *)
(* snapshotMu.  Two kinds of clone are made outside of both locks, from a  *)
(* snapshot the caller keeps alive: for auto imports, by a request or by   *)
(* the warming task, to be adopted later if the session has not moved on.  *)
(*                                                                         *)
(* Documents are the number of edits made so far, preferences the number   *)
(* of changes of the user's configuration; a program is named after the    *)
(* snapshot whose clone created it.  The parse cache and the config cache  *)
(* behind a program are the subject of RefCountCache.                      *)
(***************************************************************************)
EXTENDS Integers, Sequences, FiniteSets

CONSTANTS
    Requests,    \* handlers of requests, the API and the idle timer
    Tasks,       \* background goroutines
    Workloads,   \* what the clients ask of the session
    MaxLost,     \* bound: references to a snapshot when one of them is lost
    Ids,         \* bound: snapshots in memory
    None

(* Kinds of requests.  "orphan": a request like "ref" about a document for *)
(* which no project is found.                                              *)
AllKinds == {"plain", "ref", "orphan", "api", "idle", "options", "global"}

(* The kinds of requests made, and bounds: background goroutines at work   *)
(* at a time, edits of documents, changes of the configuration.            *)
Workload == [kinds : SUBSET AllKinds, tasks : Nat, edits : Nat, configs : Nat]

(* A snapshot: its references, the edits and preferences it has, and the   *)
(* snapshot whose clone created its program.                               *)
Snapshot == [refs : Nat, overlays : Nat, prefs : Nat, program : Ids]

ASSUME LifecycleAssumption ==
    /\ Workloads \subseteq Workload /\ MaxLost \in Nat /\ Ids # {}
    /\ None \notin Ids \cup Requests \cup Tasks \cup Nat \cup Snapshot
    /\ Requests \cap Tasks = {}

Procs == Requests \cup Tasks

VARIABLES
    edits,       \* edits reported by the client
    overlays,    \* edits processed by overlayFS
    prefs,       \* workspaceUserPreferences
    newPrefs,    \* pendingUserConfigChanges
    snapshots,   \* id -> snapshot, or None once it is disposed
    current,     \* the session's snapshot
    programs,    \* programCounter
    updateMu,    \* holder of snapshotUpdateMu
    mu,          \* holder of snapshotMu
    job,         \* what each goroutine is doing
    panicked,
    load         \* the workload of this behaviour

vars == <<edits, overlays, prefs, newPrefs, snapshots, current, programs, updateMu, mu, job,
          panicked, load>>

Kinds == load.kinds
MaxEdits == load.edits
MaxConfigs == load.configs

(* drops: the references to release, in order; an entry whose count has    *)
(* reached zero is marked to be disposed.                                  *)
Drops == [snapshot : Ids, dispose : BOOLEAN]
Drop(s) == [snapshot |-> s, dispose |-> FALSE]
PCs == {"idle", "flushed", "installed", "using", "warm", "cloning", "cloned", "adopt", "dropping"}
Job == [pc : PCs, kind : AllKinds, base : Ids \cup {None}, new : Ids \cup {None},
        drops : Seq(Drops), overlays : Nat, changed : BOOLEAN, prefs : Nat \cup {None}]
Idle == [pc |-> "idle", kind |-> "plain", base |-> None, new |-> None, drops |-> <<>>,
         overlays |-> 0, changed |-> FALSE, prefs |-> None]

Free == {i \in Ids :
            /\ snapshots[i] = None
            /\ \A p \in Procs : job[p].base # i /\ job[p].new # i
            /\ \A j \in Ids : snapshots[j] # None => snapshots[j].program # i}

(* The name of a new snapshot; free names are interchangeable.             *)
NewId(i) == i \in Free /\ i = CHOOSE j \in Free : TRUE

(* Bound: work that will make a snapshot starts when there is room for it. *)
Room == Cardinality(Free) > Cardinality({p \in Procs : job[p].pc \in {"flushed", "cloning"}})

(* A background task may start as t.                                       *)
CanStart(t) == job[t].pc = "idle" /\ Cardinality({u \in Tasks : job[u].pc # "idle"}) < load.tasks

Go(p, step) == job' = [job EXCEPT ![p] = step]

----------------------------------------------------------------------------
(* Reference counts *)

(* Fault: a program that the clone shares with its base is not counted.    *)
NewSnapshotUncounted(i, b, ov, pf, r) ==
    LET program == IF ov = snapshots[b].overlays THEN snapshots[b].program ELSE i
    IN  /\ snapshots' = [snapshots EXCEPT
               ![i] = [refs |-> r, overlays |-> ov, prefs |-> pf, program |-> program]]
        /\ programs' = [programs EXCEPT ![i] = IF program = i THEN @ + 1 ELSE @]

(* The clone of snapshot b under the new name i, with r references.  Its   *)
(* program is a new one if the documents changed, and counted either way.  *)
NewSnapshot(i, b, ov, pf, r) ==
    LET program == IF ov = snapshots[b].overlays THEN snapshots[b].program ELSE i
    IN  /\ snapshots' = [snapshots EXCEPT
               ![i] = [refs |-> r, overlays |-> ov, prefs |-> pf, program |-> program]]
        /\ programs' = [programs EXCEPT ![program] = @ + 1]

ref(s) ==
    /\ snapshots' = [snapshots EXCEPT ![s].refs = @ + 1]
    /\ panicked' = (panicked \/ snapshots[s].refs <= 0)

(* The next step of releasing: Deref of a snapshot, or its disposal, which *)
(* takes its program out of the counter.                                   *)
Release(p) ==
    LET d == Head(job[p].drops)
        s == d.snapshot
    IN  /\ job[p].drops # <<>>
        /\ IF d.dispose
           THEN /\ programs' = [programs EXCEPT ![snapshots[s].program] = @ - 1]
                /\ snapshots' = [snapshots EXCEPT ![s] = None]
                /\ job' = [job EXCEPT ![p].drops = Tail(@)]
                /\ UNCHANGED panicked
           ELSE IF snapshots[s] = None \/ snapshots[s].refs = 0
           THEN panicked' = TRUE /\ UNCHANGED <<programs, snapshots, job>>
           ELSE /\ snapshots' = [snapshots EXCEPT ![s].refs = @ - 1]
                /\ job' = [job EXCEPT ![p].drops =
                              IF snapshots[s].refs = 1
                              THEN <<[d EXCEPT !.dispose = TRUE]>> \o Tail(@) ELSE Tail(@)]
                /\ UNCHANGED <<programs, panicked>>

----------------------------------------------------------------------------
Init ==
    /\ load \in Workloads
    /\ edits = 0 /\ overlays = 0 /\ prefs = 0 /\ newPrefs = FALSE
    /\ current = CHOOSE i \in Ids : TRUE
    /\ snapshots = [i \in Ids |-> IF i = current
                       THEN [refs |-> 1, overlays |-> 0, prefs |-> 0, program |-> i] ELSE None]
    /\ programs = [i \in Ids |-> IF i = current THEN 1 ELSE 0]
    /\ updateMu = None /\ mu = None
    /\ job = [p \in Procs |-> Idle]
    /\ panicked = FALSE

(* DidChangeFile and the like                                              *)
DidChangeFile ==
    /\ edits < MaxEdits
    /\ edits' = edits + 1
    /\ UNCHANGED <<overlays, prefs, newPrefs, snapshots, current, programs, updateMu, mu, job,
                   panicked>>

Configure ==
    /\ prefs < MaxConfigs
    /\ prefs' = prefs + 1
    /\ newPrefs' = TRUE
    /\ UNCHANGED <<edits, overlays, snapshots, current, programs, updateMu, mu, job, panicked>>

(* Fault: the flush does not wait for the update of another flush.         *)
flushChangesUnlocked(p, kind) ==
    /\ job[p].pc = "idle" /\ Room
    /\ overlays' = edits
    /\ newPrefs' = FALSE
    /\ Go(p, [Idle EXCEPT !.pc = "flushed", !.kind = kind, !.overlays = edits,
                          !.changed = (edits # overlays \/ newPrefs),
                          !.prefs = IF newPrefs /\ kind # "api" THEN prefs ELSE None])
    /\ UNCHANGED <<edits, prefs, snapshots, current, programs, mu, updateMu, panicked>>

(* A request locks snapshotUpdateMu and flushes the pending changes.  The  *)
(* API's callers do not take the new preferences.                          *)
flushChanges(p, kind) ==
    /\ job[p].pc = "idle" /\ Room /\ updateMu = None
    /\ updateMu' = p
    /\ overlays' = edits
    /\ newPrefs' = FALSE
    /\ Go(p, [Idle EXCEPT !.pc = "flushed", !.kind = kind, !.overlays = edits,
                          !.changed = (edits # overlays \/ newPrefs),
                          !.prefs = IF newPrefs /\ kind # "api" THEN prefs ELSE None])
    /\ UNCHANGED <<edits, prefs, snapshots, current, programs, mu, panicked>>

(* DidChangeCompilerOptionsForInferredProjects: no flush and no lock.      *)
ReadOverlays(p) ==
    /\ job[p].pc = "idle" /\ Room
    /\ Go(p, [Idle EXCEPT !.pc = "flushed", !.kind = "options", !.overlays = overlays])
    /\ UNCHANGED <<edits, overlays, prefs, newPrefs, snapshots, current, programs, updateMu, mu,
                   panicked>>

CallerRef(kind) == kind \in {"ref", "orphan", "api"}

(* updateSnapshot, which a request without pending changes also needs when *)
(* the project is dirty or not loaded.                                     *)
updateSnapshot(p, i) ==
    LET j == job[p]
    IN  /\ j.pc = "flushed" /\ mu = None /\ NewId(i)
        /\ mu' = p
        /\ NewSnapshot(i, current, j.overlays,
                       IF j.prefs = None THEN snapshots[current].prefs ELSE j.prefs,
                       IF CallerRef(j.kind) THEN 2 ELSE 1)
        /\ current' = i
        /\ Go(p, [j EXCEPT !.pc = "installed", !.base = i, !.drops = <<Drop(current)>>])
        /\ UNCHANGED <<edits, overlays, prefs, newPrefs, updateMu, panicked>>

(* The old snapshot is released before snapshotMu is.                      *)
ReleaseOld(p) ==
    /\ job[p].pc = "installed"
    /\ Release(p)
    /\ UNCHANGED <<edits, overlays, prefs, newPrefs, current, updateMu, mu>>

(* What a request does when it has its snapshot.                           *)
Obtained(j) == IF CallerRef(j.kind) THEN [j EXCEPT !.pc = "using"] ELSE Idle

(* Both locks are released; a change of an open document may start the     *)
(* warming of the auto-import cache in the background.                     *)
Unlock(p) ==
    LET j == job[p]
        done == [job EXCEPT ![p] = Obtained(j)]
    IN  /\ j.pc = "installed" /\ j.drops = <<>>
        /\ mu' = None
        /\ updateMu' = IF updateMu = p THEN None ELSE updateMu
        /\ \/ job' = done
           \/ /\ j.changed
              /\ \E t \in Tasks : /\ CanStart(t)
                                  /\ job' = [done EXCEPT ![t] = [Idle EXCEPT !.pc = "warm",
                                                                             !.base = j.base]]
        /\ UNCHANGED <<edits, overlays, prefs, newPrefs, snapshots, current, programs, panicked>>

(* Nothing is pending: the current snapshot will do.                       *)
Reuse(p) ==
    LET j == job[p]
    IN  /\ j.pc = "flushed" /\ mu = None
        /\ j.kind \in {"plain", "ref", "orphan"} /\ ~j.changed
        /\ IF CallerRef(j.kind) THEN ref(current) ELSE UNCHANGED <<snapshots, panicked>>
        /\ Go(p, Obtained([j EXCEPT !.base = current]))
        /\ updateMu' = None
        /\ UNCHANGED <<edits, overlays, prefs, newPrefs, current, programs, mu>>

(* publishGlobalDiagnostics takes the current snapshot as it is.           *)
RefCurrent(p) ==
    /\ job[p].pc = "idle" /\ mu = None
    /\ ref(current)
    /\ Go(p, [Idle EXCEPT !.pc = "using", !.kind = "global", !.base = current])
    /\ UNCHANGED <<edits, overlays, prefs, newPrefs, current, programs, updateMu, mu>>

(* Fault: the snapshot is released by the handler and by its caller.       *)
DoneTwice(p) ==
    /\ job[p].pc = "using" /\ job[p].kind # "orphan"
    /\ Go(p, [job[p] EXCEPT !.pc = "dropping",
                            !.drops = <<Drop(job[p].base), Drop(job[p].base)>>])
    /\ UNCHANGED <<edits, overlays, prefs, newPrefs, snapshots, current, programs, updateMu, mu,
                   panicked>>

(* The caller is done with its snapshot.                                   *)
Done(p) ==
    /\ job[p].pc = "using" /\ job[p].kind # "orphan"
    /\ Go(p, [job[p] EXCEPT !.pc = "dropping", !.drops = <<Drop(job[p].base)>>])
    /\ UNCHANGED <<edits, overlays, prefs, newPrefs, snapshots, current, programs, updateMu, mu,
                   panicked>>

(* getSnapshotAndDefaultProject finds no project and returns an error only.*)
NoProjectFound(p) ==
    /\ job[p].pc = "using" /\ job[p].kind = "orphan"
    /\ Go(p, Idle)
    /\ UNCHANGED <<edits, overlays, prefs, newPrefs, snapshots, current, programs, updateMu, mu,
                   panicked>>

----------------------------------------------------------------------------
(* Clones for auto imports *)

(* The warming task may find its snapshot disposed (tryRef).               *)
tryRef(t) ==
    LET b == job[t].base
        alive == snapshots[b] # None /\ snapshots[b].refs > 0
    IN  /\ job[t].pc = "warm" /\ Room
        /\ IF alive
           THEN snapshots' = [snapshots EXCEPT ![b].refs = @ + 1]
           ELSE UNCHANGED snapshots
        /\ Go(t, IF alive THEN [job[t] EXCEPT !.pc = "cloning"] ELSE Idle)
        /\ UNCHANGED <<edits, overlays, prefs, newPrefs, current, programs, updateMu, mu, panicked>>

StartClone(p) ==
    /\ job[p].pc = "using" /\ job[p].kind = "ref" /\ Room
    /\ Go(p, [job[p] EXCEPT !.pc = "cloning"])
    /\ UNCHANGED <<edits, overlays, prefs, newPrefs, snapshots, current, programs, updateMu, mu,
                   panicked>>

Clone(p, i) ==
    LET b == job[p].base
    IN  /\ job[p].pc = "cloning" /\ NewId(i)
        /\ NewSnapshot(i, b, snapshots[b].overlays, snapshots[b].prefs, 1)
        /\ Go(p, [job[p] EXCEPT !.pc = "cloned", !.new = i])
        /\ UNCHANGED <<edits, overlays, prefs, newPrefs, current, updateMu, mu, panicked>>

(* The clone is of no use: the document has no project in it, or the       *)
(* warming was cancelled.                                                  *)
Discard(p) ==
    /\ job[p].pc = "cloned"
    /\ Go(p, [job[p] EXCEPT !.pc = "dropping", !.new = None,
                            !.drops = <<Drop(job[p].new), Drop(job[p].base)>>])
    /\ UNCHANGED <<edits, overlays, prefs, newPrefs, snapshots, current, programs, updateMu, mu,
                   panicked>>

(* A request hands the clone, and its reference, to a background task, and *)
(* releases the snapshot it started from.                                  *)
EnqueueAdopt(p, t) ==
    /\ job[p].pc = "cloned" /\ p \in Requests /\ CanStart(t)
    /\ job' = [job EXCEPT ![p] = [@ EXCEPT !.pc = "dropping", !.new = None,
                                          !.drops = <<Drop(job[p].base)>>],
                          ![t] = [Idle EXCEPT !.pc = "adopt", !.base = job[p].base,
                                              !.new = job[p].new]]
    /\ UNCHANGED <<edits, overlays, prefs, newPrefs, snapshots, current, programs, updateMu, mu,
                   panicked>>

(* Fault: the clone is adopted whatever the session did in the meantime.   *)
adoptAlways(t) ==
    LET j == job[t]
        own == IF j.pc = "cloned" THEN <<Drop(j.base)>> ELSE <<>>
    IN  /\ j.pc = "adopt" \/ (j.pc = "cloned" /\ t \in Tasks)
        /\ mu = None
        /\ current' = j.new
        /\ Go(t, [j EXCEPT !.pc = "dropping", !.new = None, !.drops = <<Drop(current)>> \o own])
        /\ UNCHANGED <<edits, overlays, prefs, newPrefs, snapshots, programs, updateMu, mu, panicked>>

(* Fault: the reference of the snapshot that is replaced is not released.  *)
adoptKeepOld(t) ==
    LET j == job[t]
        adopted == current = j.base
        own == IF j.pc = "cloned" THEN <<Drop(j.base)>> ELSE <<>>
    IN  /\ j.pc = "adopt" \/ (j.pc = "cloned" /\ t \in Tasks)
        /\ mu = None
        /\ current' = IF adopted THEN j.new ELSE current
        /\ Go(t, [j EXCEPT !.pc = "dropping", !.new = None,
                           !.drops = (IF adopted THEN <<>> ELSE <<Drop(j.new)>>) \o own])
        /\ UNCHANGED <<edits, overlays, prefs, newPrefs, snapshots, programs, updateMu, mu, panicked>>

(* Fault: a clone that lost waits for its base to be current again.        *)
adoptWait(t) ==
    LET j == job[t]
    IN  /\ j.pc = "adopt" \/ (j.pc = "cloned" /\ t \in Tasks)
        /\ mu = None /\ current = j.base
        /\ current' = j.new
        /\ Go(t, [j EXCEPT !.pc = "dropping", !.new = None, !.drops = <<Drop(j.base)>>])
        /\ UNCHANGED <<edits, overlays, prefs, newPrefs, snapshots, programs, updateMu, mu, panicked>>

(* The clone replaces the snapshot it was made from, if that is still the  *)
(* current one.  The loser of the two is released, without the lock.  The  *)
(* warming task then gives up its own reference as well.                   *)
adoptSnapshotChange(t) ==
    LET j == job[t]
        adopted == current = j.base
        own == IF j.pc = "cloned" THEN <<Drop(j.base)>> ELSE <<>>
    IN  /\ j.pc = "adopt" \/ (j.pc = "cloned" /\ t \in Tasks)
        /\ mu = None
        /\ current' = IF adopted THEN j.new ELSE current
        /\ Go(t, [j EXCEPT !.pc = "dropping", !.new = None,
                           !.drops = <<Drop(IF adopted THEN j.base ELSE j.new)>> \o own])
        /\ UNCHANGED <<edits, overlays, prefs, newPrefs, snapshots, programs, updateMu, mu, panicked>>

Deref(p) ==
    /\ job[p].pc = "dropping"
    /\ Release(p)
    /\ UNCHANGED <<edits, overlays, prefs, newPrefs, current, updateMu, mu>>

Finish(p) ==
    /\ job[p].pc = "dropping" /\ job[p].drops = <<>>
    /\ Go(p, Idle)
    /\ UNCHANGED <<edits, overlays, prefs, newPrefs, snapshots, current, programs, updateMu, mu,
                   panicked>>

----------------------------------------------------------------------------
(* Steps that begin new work, and steps of work that has begun.            *)
Start(p) ==
    \/ \E kind \in Kinds \ {"options", "global"} :
          /\ kind = "orphan" => snapshots[current].refs < MaxLost
          /\ flushChanges(p, kind)
    \/ "options" \in Kinds /\ ReadOverlays(p)
    \/ "global" \in Kinds /\ RefCurrent(p)

Continue(p) ==
    \/ \E i \in Ids : updateSnapshot(p, i)
    \/ ReleaseOld(p) \/ Unlock(p)
    \/ Reuse(p)
    \/ Done(p) \/ NoProjectFound(p)
    \/ tryRef(p)
    \/ StartClone(p)
    \/ \E i \in Ids : Clone(p, i)
    \/ Discard(p)
    \/ \E t \in Tasks : EnqueueAdopt(p, t)
    \/ adoptSnapshotChange(p)
    \/ Deref(p) \/ Finish(p)

Next ==
    /\ \/ DidChangeFile \/ Configure
       \/ \E p \in Requests : Start(p)
       \/ \E p \in Procs : Continue(p)
    /\ UNCHANGED load

Spec == Init /\ [][Next]_vars

----------------------------------------------------------------------------
(* Properties *)

(* The types of the variables.                                             *)
TypeOK ==
    /\ edits \in Nat /\ overlays \in Nat /\ prefs \in Nat /\ newPrefs \in BOOLEAN
    /\ snapshots \in [Ids -> Snapshot \cup {None}]
    /\ current \in Ids /\ programs \in [Ids -> Nat]
    /\ updateMu \in Procs \cup {None} /\ mu \in Procs \cup {None}
    /\ job \in [Procs -> Job]
    /\ panicked \in BOOLEAN /\ load \in Workloads

(* The references to snapshot s that a goroutine with job j holds: those   *)
(* it has still to release, counted from the last, the snapshot it uses    *)
(* (0) and the clone it made (-1).                                         *)
Uses(j) == j.pc \in {"using", "cloning", "cloned"} \/ (j.pc = "installed" /\ CallerRef(j.kind))
Made(j) == j.pc \in {"cloned", "adopt"}

Dropped(drops, s) == {k \in 1 .. Len(drops) : drops[Len(drops) + 1 - k] = Drop(s)}

JobHolds(j, s) ==
    Dropped(j.drops, s) \cup (IF Uses(j) /\ j.base = s THEN {0} ELSE {})
                        \cup (IF Made(j) /\ j.new = s THEN {-1} ELSE {})

(* All references to snapshot s, that of the session included.             *)
Holders(s) ==
    (IF current = s THEN {<<None, 0>>} ELSE {})
        \cup UNION {{p} \X JobHolds(job[p], s) : p \in Procs}

(* Goroutine p has released the last reference to s.                       *)
Disposes(p, s) == job[p].drops # <<>> /\ Head(job[p].drops) = [snapshot |-> s, dispose |-> TRUE]

(* The count of a snapshot is what its holders account for: one for the    *)
(* session's current snapshot and one for each request, task or release in *)
(* progress; at zero, somebody is about to dispose it.  No reference is    *)
(* lost and none is released twice, so that when all work has come to an   *)
(* end only the current snapshot is left, as long as every document has a  *)
(* project.                                                                *)
RefsAccounted ==
    \A s \in Ids : "orphan" \notin Kinds /\ snapshots[s] # None =>
        /\ snapshots[s].refs = Cardinality(Holders(s))
        /\ snapshots[s].refs = 0 => \E p \in Procs : Disposes(p, s)

(* ref never meets a disposed snapshot and no count goes below zero: the   *)
(* panics of ref and Deref are unreachable.                                *)
NoPanic == TypeOK /\ ~panicked

(* The session's snapshot, and every snapshot in use or being cloned, is   *)
(* alive, and so is its program: the program of a snapshot that is not     *)
(* disposed is counted once for each such snapshot.                        *)
ProgramsAlive ==
    /\ snapshots[current] # None
    /\ \A p \in Procs : job[p].pc \in {"using", "cloning"} => snapshots[job[p].base] # None
    /\ \A i \in Ids : programs[i] = Cardinality({s \in Ids : snapshots[s] # None /\ snapshots[s].program = i})

(* Every update but that of the inferred-project options is serialised by  *)
(* snapshotUpdateMu.                                                       *)
Serialised == "options" \notin Kinds

(* A request gets a snapshot with every edit made before it flushed.       *)
RequestSeesEdits ==
    \A p \in Requests : Serialised /\ job[p].pc \in {"using", "installed"} /\ job[p].kind # "global" =>
        snapshots[job[p].base].overlays >= job[p].overlays

(* Once no flush is under way, the current snapshot has all the edits that *)
(* were processed and, unless a change is pending, the latest preferences: *)
(* nothing will process them again.  Exceptions: edits when the options of *)
(* inferred projects change, preferences when the API, which drops them,   *)
(* is in use.                                                              *)
CurrentIsLatest ==
    updateMu = None =>
        /\ Serialised => snapshots[current].overlays = overlays
        /\ "api" \notin Kinds /\ ~newPrefs => snapshots[current].prefs = prefs

(* No order of the two locks blocks everybody: while a request or a task   *)
(* is under way, one that is under way can go on.  No step of one undoes a *)
(* step of another, so whatever was started ends.  A snapshot that is      *)
(* never released takes a name of the model, so every document is to have  *)
(* a project.                                                              *)
Unstuck ==
    "orphan" \notin Kinds /\ (\E p \in Procs : job[p].pc # "idle") =>
        \E p \in Procs : ENABLED (Continue(p) /\ UNCHANGED load)

(* The session's snapshot never goes back to older documents, if updates   *)
(* are serialised, or older preferences, not even when a clone made        *)
(* without the locks is adopted.                                           *)
NeverBack ==
    [][/\ Serialised => snapshots'[current'].overlays >= snapshots[current].overlays
       /\ snapshots'[current'].prefs >= snapshots[current].prefs]_vars
=============================================================================
