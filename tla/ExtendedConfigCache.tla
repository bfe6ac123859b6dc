------------------------ MODULE ExtendedConfigCache ------------------------
(***************************************************************************)
(* The cache of configuration files that others extend                     *)
(* (internal/project/ownercache.go, extendedconfigcache.go), as the clones *)
(* of snapshots and the parser of configurations use it                    *)
(* (configfileregistrybuilder.go, snapshot.go, tsoptions).                 *)
(*                                                                         *)
(* A clone parses the configurations whose files changed, each in its own  *)
(* goroutine.  Parsing walks the extends clauses through LoadAndAcquire,   *)
(* which holds the lock of an entry while it parses the entry's own        *)
(* extends clauses.  At the end the clone adds itself as an owner of every *)
(* file its configurations extend; disposing a snapshot releases them.     *)
(*                                                                         *)
(* A text is a version and the list of files it extends.  What parsing     *)
(* yields is the texts it used, by file: two results differ exactly when   *)
(* these do.  Hash compares the same texts.                                *)
(***************************************************************************)
EXTENDS Integers, Sequences, FiniteSets, Functions

CONSTANTS
    Roots,       \* configurations of projects
    Configs,     \* files they extend, directly or not
    Worlds,      \* the texts each file may have, and the handlers at work
    Requests,    \* handlers that keep a snapshot alive
    Ids,         \* bound: snapshots alive at a time
    Objects,     \* bound: cache entries in memory
    None

Files == Roots \cup Configs
Updater == "updateSnapshot"
Procs == Requests \cup {Updater}

TextsOf(w) == UNION {w.texts[f] : f \in Files}
ValuesOf(w) == UNION {[S -> TextsOf(w)] : S \in SUBSET Files}
SnapshotsOf(w) ==
    [cmds : [Roots -> ValuesOf(w)], fs : [Files -> TextsOf(w)], pending : SUBSET Roots, refs : Nat]

ASSUME ConfigAssumption ==
    /\ Roots \cap Configs = {} /\ None \notin Roots \cup Configs \cup Ids \cup Objects
    /\ Ids # {} /\ IsFiniteSet(Requests) /\ Updater \notin Requests
    /\ \A w \in Worlds : None \notin SnapshotsOf(w)
    /\ \A w \in Worlds : /\ w.requests \in Nat
                          /\ \A f \in Files : \A t \in w.texts[f] : t.extends \in Seq(Configs)

VARIABLES
    files,       \* texts the next clone reads
    entries,     \* OwnerCache.entries
    heap,        \* the entries: owners, value, lock
    snapshots,   \* snapshots in use
    current,     \* the session's snapshot
    clone,       \* the clone being made
    parser,      \* the goroutine that parses each root
    job,         \* the reference a handler has, and the entries it is releasing
    panicked,
    world        \* the world of this behaviour

vars == <<files, entries, heap, snapshots, current, clone, parser, job, panicked, world>>

Variants == world.texts

Texts == TextsOf(world)
Values == ValuesOf(world)
Merge(v, w) == [f \in DOMAIN v \cup DOMAIN w |-> IF f \in DOMAIN v THEN v[f] ELSE w[f]]
ExtendedFileNames(v, f) == DOMAIN v \ {f}

(* The source files that a snapshot's registry says are extended, once for *)
(* every configuration that extends them.                                  *)
Extended(cmds) ==
    LET list(S) == CHOOSE s \in [1 .. Cardinality(S) -> S] : Range(s) = S
    IN  FoldFunction(LAMBDA names, s : list(names) \o s, <<>>,
                     [r \in Roots |-> ExtendedFileNames(cmds[r], r)])

NoClone == [pc |-> "idle", id |-> None, fs |-> files, cmds |-> snapshots[current].cmds,
            pending |-> {}, todo |-> <<>>, loaded |-> None]
Parked == [frames |-> <<>>, waitsFor |-> None]
NoJob == [snapshot |-> None, id |-> None, todo |-> <<>>, loaded |-> None]
Unused == [owners |-> {}, value |-> None, mu |-> None]

(* Entries nothing refers to any more, and snapshots nothing refers to.    *)
FreeObjects == {o \in Objects :
    /\ \A f \in Configs : entries[f] # o
    /\ clone.loaded # o
    /\ \A p \in Procs : job[p].loaded # o
    /\ \A r \in Roots : parser[r].waitsFor # o
                        /\ \A k \in DOMAIN parser[r].frames : parser[r].frames[k].entry # o}
FreeIds == {i \in Ids :
    /\ snapshots[i] = None /\ clone.id # i
    /\ \A o \in Objects \ FreeObjects : i \notin heap[o].owners
    /\ \A p \in Procs : job[p].id # i}

(* One of the free entries or snapshots, which are interchangeable.        *)
AnyOf(S) == CHOOSE x \in S : TRUE

----------------------------------------------------------------------------
(* Parsing *)

Frame(f, o, fs, stack) ==
    [path |-> f, entry |-> o, acc |-> [g \in {f} |-> fs[f]],
     todo |-> IF \E k \in DOMAIN stack : stack[k].path = f THEN <<>> ELSE fs[f].extends]

Top(r) == parser[r].frames[Len(parser[r].frames)]
Push(r, f, o) == Append(parser[r].frames, Frame(f, o, clone.fs, parser[r].frames))

(* The caller's frame, the last of the stack, after the call for the head  *)
(* of its list returned v.                                                 *)
Returned(frame, v) == [frame EXCEPT !.acc = Merge(@, v), !.todo = Tail(@)]
ReturnTo(frames, v) == [frames EXCEPT ![Len(frames)] = Returned(@, v)]

(* Fault: only the entry's own text is compared.                           *)
isExpiredOwnText(f, v, fs) == v[f] # fs[f]

isExpired(f, v, fs) == \E g \in DOMAIN v : v[g] # fs[g]

(* loadOrStoreLockedEntry: LoadOrStore of a new entry that is locked.      *)
(* Without an entry for the file, the new one is parsed.                   *)
LoadOrStore(r) ==
    /\ parser[r].frames # <<>> /\ parser[r].waitsFor = None /\ Top(r).todo # <<>>
    /\ LET f == Head(Top(r).todo)
       IN  IF entries[f] # None
           THEN /\ parser' = [parser EXCEPT ![r].waitsFor = entries[f]]
                /\ UNCHANGED <<entries, heap>>
           ELSE \E o \in FreeObjects :
                /\ o = AnyOf(FreeObjects)
                /\ entries' = [entries EXCEPT ![f] = o]
                /\ heap' = [heap EXCEPT ![o] = [Unused EXCEPT !.mu = r]]
                /\ parser' = [parser EXCEPT ![r].frames = Push(r, f, o)]
    /\ UNCHANGED <<files, snapshots, current, clone, job, panicked>>

(* Fault: an entry that was released meanwhile is used.                    *)
LockExistingAnyway(r) ==
    LET o == parser[r].waitsFor
    IN  /\ o # None /\ heap[o].mu = None
        /\ heap' = [heap EXCEPT ![o].owners = @ \cup {clone.id}]
        /\ parser' = [parser EXCEPT ![r] =
               [waitsFor |-> None, frames |-> ReturnTo(@.frames, heap[o].value)]]
        /\ UNCHANGED <<files, entries, snapshots, current, clone, job, panicked>>

(* The lock of an existing entry: if all its owners released it meanwhile, *)
(* the call starts again; if its value is expired, it is parsed anew.      *)
LockExisting(r) ==
    LET o == parser[r].waitsFor
        f == Head(Top(r).todo)
    IN  /\ o # None /\ heap[o].mu = None
        /\ IF heap[o].owners = {}
           THEN /\ parser' = [parser EXCEPT ![r].waitsFor = None]
                /\ UNCHANGED heap
           ELSE IF isExpired(f, heap[o].value, clone.fs)
           THEN /\ parser' = [parser EXCEPT ![r] = [waitsFor |-> None, frames |-> Push(r, f, o)]]
                /\ heap' = [heap EXCEPT ![o].mu = r]
           ELSE /\ heap' = [heap EXCEPT ![o].owners = @ \cup {clone.id}]
                /\ parser' = [parser EXCEPT ![r] =
                       [waitsFor |-> None, frames |-> ReturnTo(@.frames, heap[o].value)]]
        /\ UNCHANGED <<files, entries, snapshots, current, clone, job, panicked>>

(* The end of LoadAndAcquire for an entry that was parsed.                 *)
Acquired(r) ==
    LET o == Top(r).entry
    IN  /\ Len(parser[r].frames) > 1 /\ parser[r].waitsFor = None /\ Top(r).todo = <<>>
        /\ heap' = [heap EXCEPT ![o] = [owners |-> @.owners \cup {clone.id},
                                        value |-> Top(r).acc, mu |-> None]]
        /\ parser' = [parser EXCEPT ![r].frames = ReturnTo(SubSeq(@, 1, Len(@) - 1), Top(r).acc)]
        /\ UNCHANGED <<files, entries, snapshots, current, clone, job, panicked>>

(* The end of parsing a root.                                              *)
Parsed(r) ==
    /\ Len(parser[r].frames) = 1 /\ parser[r].waitsFor = None /\ Top(r).todo = <<>>
    /\ clone' = [clone EXCEPT !.cmds[r] = Top(r).acc]
    /\ parser' = [parser EXCEPT ![r] = Parked]
    /\ UNCHANGED <<files, entries, heap, snapshots, current, job, panicked>>

----------------------------------------------------------------------------
(* Snapshots *)

Init ==
    /\ world \in Worlds
    /\ files \in [Files -> Texts] /\ \A f \in Files : files[f] \in Variants[f]
    /\ \A r \in Roots : files[r].extends = <<>>
    /\ current = AnyOf(Ids)
    /\ snapshots = [i \in Ids |-> IF i = current
           THEN [cmds |-> [r \in Roots |-> [f \in {r} |-> files[r]]], fs |-> files,
                 pending |-> {}, refs |-> 1]
           ELSE None]
    /\ entries = [f \in Configs |-> None]
    /\ heap = [o \in Objects |-> Unused]
    /\ clone = NoClone
    /\ parser = [r \in Roots |-> Parked]
    /\ job = [p \in Procs |-> NoJob]
    /\ panicked = FALSE

(* A configuration file is edited.                                         *)
Edit(f) ==
    /\ clone.pc = "idle"
    /\ \E t \in Variants[f] \ {files[f]} : files' = [files EXCEPT ![f] = t]
    /\ clone' = [clone EXCEPT !.fs = files']
    /\ UNCHANGED <<entries, heap, snapshots, current, parser, job, panicked>>

(* A clone starts.  The configurations that the changes affect are marked, *)
(* and those that some project asks for are reloaded.                      *)
Clone ==
    LET base == snapshots[current]
        pending == base.pending \cup {r \in Roots : isExpired(r, base.cmds[r], files)}
    IN
    /\ clone.pc = "idle" /\ job[Updater] = NoJob
    /\ files # base.fs \/ base.pending # {}
    /\ FreeIds # {}
    /\ \E reload \in SUBSET pending :
              /\ clone' = [NoClone EXCEPT !.pc = "parse", !.id = AnyOf(FreeIds), !.pending = pending \ reload]
              /\ parser' = [r \in Roots |->
                     IF r \in reload THEN [Parked EXCEPT !.frames = <<Frame(r, None, files, <<>>)>>]
                     ELSE Parked]
    /\ UNCHANGED <<files, entries, heap, snapshots, current, job, panicked>>

(* The parsing goroutines have ended.                                      *)
Finalize ==
    /\ clone.pc = "parse" /\ \A r \in Roots : parser[r] = Parked
    /\ clone' = [clone EXCEPT !.pc = "own", !.todo = Extended(clone.cmds)]
    /\ UNCHANGED <<files, entries, heap, snapshots, current, parser, job, panicked>>

(* Fault: the clone relies on the entries it acquired while parsing.       *)
AddOwnerSkipped ==
    /\ clone.pc = "own" /\ clone.todo # <<>>
    /\ clone' = [clone EXCEPT !.todo = <<>>]
    /\ UNCHANGED <<files, entries, heap, snapshots, current, parser, job, panicked>>

(* AddOwner looks the entry up and locks it; an entry that is gone or has  *)
(* no owners is a panic.                                                   *)
AddOwner ==
    LET f == Head(clone.todo)
        o == clone.loaded
    IN  /\ clone.pc = "own" /\ clone.todo # <<>> /\ ~panicked
        /\ IF o = None
           THEN /\ clone' = [clone EXCEPT !.loaded = entries[f]]
                /\ panicked' = (entries[f] = None)
                /\ UNCHANGED heap
           ELSE /\ heap[o].mu = None
                /\ panicked' = (heap[o].owners = {})
                /\ heap' = [heap EXCEPT ![o].owners = @ \cup {clone.id}]
                /\ clone' = [clone EXCEPT !.loaded = None, !.todo = Tail(@)]
        /\ UNCHANGED <<files, entries, snapshots, current, parser, job>>

(* Snapshot s with one reference less.                                     *)
Unref(s) == IF s.refs = 1 THEN None ELSE [s EXCEPT !.refs = @ - 1]

(* The release of p's reference, the last one of snapshot s, disposes it.  *)
Deref(p, s) ==
    LET todo == IF snapshots[s].refs > 1 THEN <<>> ELSE Extended(snapshots[s].cmds)
    IN  job' = [job EXCEPT ![p] = IF todo = <<>> THEN NoJob
                                  ELSE [NoJob EXCEPT !.id = s, !.todo = todo]]

(* The clone becomes the session's snapshot, which releases the old one.   *)
Install ==
    /\ clone.pc = "own" /\ clone.todo = <<>> /\ ~panicked
    /\ snapshots' = [snapshots EXCEPT
           ![clone.id] = [cmds |-> clone.cmds, fs |-> clone.fs, pending |-> clone.pending, refs |-> 1],
           ![current] = Unref(@)]
    /\ current' = clone.id
    /\ clone' = [clone EXCEPT !.pc = "idle", !.id = None, !.pending = {}]
    /\ Deref(Updater, current)
    /\ UNCHANGED <<files, entries, heap, parser, panicked>>

(* A request takes a reference to the session's snapshot.                  *)
Ref(q) ==
    /\ job[q] = NoJob /\ Cardinality({p \in Requests : job[p] # NoJob}) < world.requests
    /\ snapshots' = [snapshots EXCEPT ![current].refs = @ + 1]
    /\ job' = [job EXCEPT ![q].snapshot = current]
    /\ UNCHANGED <<files, entries, heap, current, clone, parser, panicked>>

(* A request ends.                                                         *)
End(q) ==
    LET s == job[q].snapshot
    IN  /\ s # None
        /\ snapshots' = [snapshots EXCEPT ![s] = Unref(@)]
        /\ Deref(q, s)
        /\ UNCHANGED <<files, entries, heap, current, clone, parser, panicked>>

(* Fault: an entry without owners stays in the map.                        *)
ReleaseKeep(p) ==
    LET f == Head(job[p].todo)
    IN  /\ job[p].todo # <<>>
        /\ heap' = IF entries[f] = None THEN heap
                   ELSE [heap EXCEPT ![entries[f]].owners = @ \ {job[p].id}]
        /\ job' = [job EXCEPT ![p] = IF Len(@.todo) = 1 THEN NoJob ELSE [@ EXCEPT !.todo = Tail(@)]]
        /\ UNCHANGED <<files, entries, snapshots, current, clone, parser, panicked>>

(* Release looks the entry up, then locks it; without owners it is deleted *)
(* from the map by its key.                                                *)
Release(p) ==
    LET f == Head(job[p].todo)
        o == job[p].loaded
        next == IF Len(job[p].todo) = 1 THEN NoJob
                ELSE [job[p] EXCEPT !.todo = Tail(@), !.loaded = None]
    IN  /\ job[p].todo # <<>>
        /\ IF o = None
           THEN /\ job' = [job EXCEPT ![p] =
                              IF entries[f] = None THEN next ELSE [@ EXCEPT !.loaded = entries[f]]]
                /\ UNCHANGED <<entries, heap>>
           ELSE /\ heap[o].mu = None
                /\ heap' = [heap EXCEPT ![o].owners = @ \ {job[p].id}]
                /\ entries' = [entries EXCEPT ![f] = IF heap'[o].owners = {} THEN None ELSE @]
                /\ job' = [job EXCEPT ![p] = next]
        /\ UNCHANGED <<files, snapshots, current, clone, parser, panicked>>

(* The goroutine that makes the clone, and the one that parses root r.     *)
CloneStep == Finalize \/ AddOwner \/ Install
ParseStep(r) == LoadOrStore(r) \/ LockExisting(r) \/ Acquired(r) \/ Parsed(r)

Next ==
    /\ \/ \E f \in Files : Edit(f)
       \/ Clone \/ CloneStep
       \/ \E r \in Roots : ParseStep(r)
       \/ \E q \in Requests : Ref(q) \/ End(q)
       \/ \E p \in Procs : Release(p)
    /\ UNCHANGED world

Spec == Init /\ [][Next]_vars

(* Goroutines that can run do.                                             *)
FairSpec ==
    /\ Spec
    /\ WF_vars(CloneStep /\ UNCHANGED world)
    /\ \A r \in Roots : WF_vars(ParseStep(r) /\ UNCHANGED world)
    /\ \A p \in Procs : WF_vars(Release(p) /\ UNCHANGED world)

----------------------------------------------------------------------------
TypeOK ==
    /\ files \in [Files -> Texts]
    /\ entries \in [Configs -> Objects \cup {None}]
    /\ \A o \in Objects : /\ heap[o].owners \subseteq Ids /\ heap[o].mu \in Roots \cup {None}
                          /\ heap[o].value = None \/ heap[o].value \in Values
    /\ current \in Ids /\ snapshots[current] # None
    /\ \A i \in Ids : snapshots[i] # None =>
          /\ snapshots[i].refs \in 1..(Cardinality(Requests) + 1)
          /\ snapshots[i].cmds \in [Roots -> Values]
    /\ clone.pc \in {"idle", "parse", "own"} /\ clone.id \in Ids \cup {None}
    /\ \A r \in Roots : parser[r].waitsFor \in Objects \cup {None}
    /\ \A p \in Procs : job[p].snapshot \in Ids \cup {None} /\ job[p].todo \in Seq(Configs)
    /\ panicked \in BOOLEAN /\ world \in Worlds

(* AddOwner finds the entry of every file the new snapshot extends, with   *)
(* an owner: the comment on AddOwner asks its callers to keep it alive.    *)
NoPanic == TypeOK /\ ~panicked

(* What a snapshot has for a configuration that is not marked for reload   *)
(* is what parsing the snapshot's files without a cache yields: its texts  *)
(* are the snapshot's, and every file that one of them extends is there.   *)
NeverStale ==
    \A i \in Ids : snapshots[i] # None =>
        \A r \in Roots \ snapshots[i].pending :
            LET v == snapshots[i].cmds[r]
            IN  /\ r \in DOMAIN v
                /\ \A f \in DOMAIN v : v[f] = snapshots[i].fs[f] /\ Range(v[f].extends) \subseteq DOMAIN v

(* The cache has an entry for every file that the configurations of a live *)
(* snapshot extend, and the snapshot is one of its owners.  Between        *)
(* updates, with no release under way, it holds entries of live snapshots  *)
(* only.                                                                   *)
Owned ==
    /\ \A i \in Ids : snapshots[i] # None =>
          \A r \in Roots : \A f \in ExtendedFileNames(snapshots[i].cmds[r], r) :
              entries[f] # None /\ i \in heap[entries[f]].owners
    /\ (clone.pc = "idle" /\ \A p \in Procs : job[p].todo = <<>>) =>
          \A f \in Configs : entries[f] # None =>
              heap[entries[f]].owners # {} /\ \A i \in heap[entries[f]].owners : snapshots[i] # None

(* The parsing of a configuration ends, whatever it extends: a circle is   *)
(* reported, not followed.                                                 *)
ParsesEnd == \A r \in Roots : (parser[r] # Parked) ~> (parser[r] = Parked)
=============================================================================
