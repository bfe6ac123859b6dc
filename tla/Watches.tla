------------------------------ MODULE Watches ------------------------------
(***************************************************************************)
(* The file watches a session keeps registered with its client             *)
(* (internal/project/session.go updateWatch and updateWatches, watch.go).  *)
(*                                                                         *)
(* Each configuration file, each project and the auto-import registry of a *)
(* snapshot owns a WatchedFiles: a set of globs under an id that changes   *)
(* when the globs do.  After a new snapshot is installed, a background     *)
(* task compares the ids of the old and the new snapshot, owner by owner,  *)
(* and moves the counts in session.watches; the first use of a glob is     *)
(* registered with the client and the last one unregistered, while         *)
(* watchesMu is held.  Tasks are goroutines: nothing orders them.          *)
(*                                                                         *)
(* A glob is a number, its place in the list its owner computes.  Ids come *)
(* from one counter in the code; here the smallest one that is not in use, *)
(* since they are only compared for equality between two WatchedFiles of   *)
(* the same owner.                                                         *)
(***************************************************************************)
EXTENDS Integers, FiniteSets

CONSTANTS
    Owners,        \* configuration files, projects, the auto-import registry
    AutoImports,   \* the owners every snapshot has, and that an adopted clone may change
    NumGlobs,      \* bound: globs
    Tasks,         \* background tasks
    Workloads,     \* what happens in a session
    None

Globs == 1..NumGlobs

(* orderly: updateWatches of one update ends before the next update, every *)
(* snapshot is installed by updateSnapshot and the client refuses nothing. *)
(* Bounds: the owners that change, ids of WatchedFiles of one owner in use *)
(* at a time, the count of a glob when a snapshot is installed, requests   *)
(* the client answers with an error.                                       *)
Workload == [orderly : BOOLEAN, owners : SUBSET Owners, ids : Nat, count : Nat, refusals : Nat]

ASSUME WatchesAssumption ==
    /\ IsFiniteSet(Owners) /\ AutoImports \subseteq Owners /\ NumGlobs \in Nat
    /\ Workloads \subseteq Workload
    /\ \A l \in Workloads : l.ids > 0 /\ (l.orderly => l.refusals = 0)
    /\ None \notin Tasks \cup Owners
    /\ None \notin [id : Nat, globs : SUBSET Globs] /\ None \notin [owner : Owners, id : Nat, index : Globs]

VARIABLES
    current,       \* WatchedFiles of the session's snapshot, or None, by owner
    tasks,         \* the updateWatches calls
    watches,       \* session.watches: count (0 when absent) and id of each glob
    registered,    \* registrations the client has: id and glob
    mu,            \* task that holds watchesMu
    refusals,      \* requests the client has refused
    load           \* the workload of this behaviour

vars == <<current, tasks, watches, registered, mu, refusals, load>>

Ids == 0..load.ids

WatchedFiles == [id : Ids, globs : SUBSET Globs]
WatcherID == [owner : Owners, id : Ids, index : Globs]
Globber(w) == IF w = None THEN {} ELSE w.globs
SameID(v, w) == (v = None /\ w = None) \/ (v # None /\ w # None /\ v.id = w.id)

(* todo: owners still to be compared; owner: the one being updated.        *)
Task == [old : [Owners -> WatchedFiles \cup {None}], new : [Owners -> WatchedFiles \cup {None}],
         todo : SUBSET Owners, owner : Owners \cup {None}]
Free == [old |-> [o \in Owners |-> None], new |-> [o \in Owners |-> None],
         todo |-> {}, owner |-> None]

(* The id of the watcher for glob g in the list of w.                      *)
globId(o, w, g) ==
    [owner |-> o, id |-> w.id, index |-> Cardinality({h \in w.globs : h <= g})]

Quiet == \A t \in Tasks : tasks[t] = Free

InUse(o, i) ==
    \/ current[o] # None /\ current[o].id = i
    \/ \E t \in Tasks : \E w \in {tasks[t].old[o], tasks[t].new[o]} : w # None /\ w.id = i
    \/ \E g \in Globs : watches[g].count > 0 /\ watches[g].id.owner = o /\ watches[g].id.id = i
    \/ \E r \in registered : r.id.owner = o /\ r.id.id = i

(* A new id from the counter; there is none when the bound is reached.     *)
FreshIds(o) == {i \in Ids \ {0} : ~InUse(o, i) /\ \A j \in 1..(i - 1) : InUse(o, j)}

Init ==
    /\ load \in Workloads
    /\ current = [o \in Owners |-> IF o \in AutoImports THEN [id |-> 1, globs |-> {}] ELSE None]
    /\ tasks = [t \in Tasks |-> Free]
    /\ watches = [g \in Globs |-> [count |-> 0, id |-> None]]
    /\ registered = {}
    /\ mu = None
    /\ refusals = 0

(* NewWatchedFiles                                                         *)
NewWatchedFiles(o) == {[id |-> i, globs |-> G] : i \in FreshIds(o), G \in SUBSET Globs}

(* WatchedFiles.Clone, and its globs once they are computed: a new id if   *)
(* they differ, otherwise the id is left at zero.                          *)
Clone(o, w) ==
    {[id |-> i, globs |-> G] : i \in FreshIds(o), G \in (SUBSET Globs) \ {w.globs}}
        \cup {[id |-> 0, globs |-> w.globs]}

(* What the next snapshot may have for owner o.                            *)
Successors(o) ==
    IF o \in AutoImports THEN Clone(o, current[o])
    ELSE IF o \notin load.owners THEN {current[o]}
    ELSE {current[o], None} \cup NewWatchedFiles(o)
         \cup (IF current[o] = None THEN {} ELSE Clone(o, current[o]))

NextSnapshots ==
    {new \in [Owners -> UNION {Successors(o) : o \in Owners}] : \A o \in Owners : new[o] \in Successors(o)}

(* updateSnapshot installs the next snapshot and enqueues updateWatches.   *)
updateSnapshot(t) ==
    /\ tasks[t] = Free /\ (load.orderly => Quiet)
    /\ \A g \in Globs : watches[g].count <= load.count
    /\ \E new \in NextSnapshots :
          /\ current' = new
          /\ LET todo == {o \in Owners : ~SameID(current[o], new[o])}
             IN  tasks' = [tasks EXCEPT ![t] =
                              IF todo = {} THEN Free
                              ELSE [old |-> current, new |-> new, todo |-> todo, owner |-> None]]
    /\ UNCHANGED <<watches, registered, mu, refusals>>

(* adoptSnapshotChange installs a clone made for auto imports, with a new  *)
(* set of node_modules directories to watch.                               *)
adoptSnapshotChange ==
    /\ ~load.orderly
    /\ \E o \in AutoImports : \E w \in Clone(o, current[o]) : current' = [current EXCEPT ![o] = w]
    /\ UNCHANGED <<tasks, watches, registered, mu, refusals>>

(* updateWatch locks watchesMu for one owner of its task.                  *)
Lock(t, o) ==
    /\ mu = None
    /\ o \in tasks[t].todo
    /\ mu' = t
    /\ tasks' = [tasks EXCEPT ![t].owner = o]
    /\ UNCHANGED <<current, watches, registered, refusals>>

(* Requests of which the client may refuse some.                           *)
Refuse(R) == refusals' = refusals + Cardinality(R) /\ refusals' <= load.refusals

(* Fault: every user of a glob registers it.                               *)
AddWatchesEach(t, o) ==
    /\ LET w == tasks[t].new[o]
           G == Globber(w)
       IN  /\ watches' = [g \in Globs |->
                 IF g \notin G THEN watches[g]
                 ELSE [count |-> watches[g].count + 1, id |-> globId(o, w, g)]]
           /\ registered' = registered \cup {[id |-> globId(o, w, g), glob |-> g] : g \in G}
    /\ UNCHANGED refusals

(* The new globs are counted, and the ones not watched yet registered.     *)
AddWatches(t, o) ==
    LET w == tasks[t].new[o]
        G == Globber(w)
        added == {g \in G : watches[g].count = 0}
    IN  /\ watches' = [g \in Globs |->
               IF g \in added THEN [count |-> 1, id |-> globId(o, w, g)]
               ELSE IF g \in G THEN [watches[g] EXCEPT !.count = @ + 1] ELSE watches[g]]
        /\ \E R \in SUBSET added :
              /\ registered' = registered \cup {[id |-> globId(o, w, g), glob |-> g] : g \in added \ R}
              /\ Refuse(R)

(* Fault: a glob other owners use is unregistered as well.                 *)
RemoveWatchesShared(t, o) ==
    LET G == {g \in Globber(tasks[t].old[o]) : watches[g].count > 0}
    IN  /\ watches' = [g \in Globs |->
               IF g \in G THEN [count |-> 0, id |-> None] ELSE watches[g]]
        /\ registered' = {r \in registered : \A g \in G : r.id # watches[g].id}
        /\ UNCHANGED refusals

(* The old globs are no longer counted; the ones nobody uses are           *)
(* unregistered.  Globs that are not in session.watches are skipped.       *)
RemoveWatches(t, o) ==
    LET G == Globber(tasks[t].old[o])
        removed == {g \in G : watches[g].count = 1}
    IN  /\ watches' = [g \in Globs |->
               IF g \in removed THEN [count |-> 0, id |-> None]
               ELSE IF g \in G /\ watches[g].count > 1 THEN [watches[g] EXCEPT !.count = @ - 1]
               ELSE watches[g]]
        /\ \E R \in SUBSET {g \in removed : \E r \in registered : r.id = watches[g].id} :
              /\ registered' = {r \in registered : \A g \in removed \ R : r.id # watches[g].id}
              /\ Refuse(R)

(* Fault: the old globs are removed before the new ones are added.         *)
updateWatchOldFirst(t, o) ==
    /\ mu = t /\ tasks[t].owner = o
    /\ IF o \in tasks[t].todo
       THEN /\ RemoveWatches(t, o)
            /\ tasks' = [tasks EXCEPT ![t].todo = @ \ {o}]
            /\ UNCHANGED <<current, mu>>
       ELSE /\ AddWatches(t, o)
            /\ tasks' = [tasks EXCEPT ![t] = IF @.todo = {} THEN Free ELSE [@ EXCEPT !.owner = None]]
            /\ mu' = None
            /\ UNCHANGED current

(* updateWatch: first the new globs, then, when the client has answered,   *)
(* the old ones.                                                           *)
updateWatch(t, o) ==
    /\ mu = t /\ tasks[t].owner = o
    /\ IF o \in tasks[t].todo
       THEN /\ AddWatches(t, o)
            /\ tasks' = [tasks EXCEPT ![t].todo = @ \ {o}]
            /\ UNCHANGED <<current, mu>>
       ELSE /\ RemoveWatches(t, o)
            /\ tasks' = [tasks EXCEPT ![t] = IF @.todo = {} THEN Free ELSE [@ EXCEPT !.owner = None]]
            /\ mu' = None
            /\ UNCHANGED current

Next ==
    /\ \/ \E t \in Tasks : updateSnapshot(t)
       \/ adoptSnapshotChange
       \/ \E t \in Tasks, o \in Owners : Lock(t, o) \/ updateWatch(t, o)
    /\ UNCHANGED load

Spec == Init /\ [][Next]_vars

----------------------------------------------------------------------------
TypeOK ==
    /\ current \in [Owners -> WatchedFiles \cup {None}]
    /\ tasks \in [Tasks -> Task]
    /\ watches \in [Globs -> [count : Nat, id : WatcherID \cup {None}]]
    /\ \A g \in Globs : watches[g].count = 0 <=> watches[g].id = None
    /\ registered \subseteq [id : WatcherID, glob : Globs]
    /\ mu \in Tasks \cup {None}
    /\ refusals \in 0..load.refusals /\ load \in Workloads

(* Once the tasks have run, one after the other, session.watches counts    *)
(* for each glob the WatchedFiles of the session's snapshot that use it,   *)
(* as the comment on Session.watches says.                                 *)
WatchesMatch ==
    load.orderly /\ Quiet => \A g \in Globs : watches[g].count = Cardinality({o \in Owners : g \in Globber(current[o])})

(* Whenever watchesMu is free, the registrations of the client are the     *)
(* ones session.watches names, except for one glob per request that the    *)
(* client refused: none is left behind without an owner, none was removed  *)
(* under another glob's id, and an error of one glob is not one of others. *)
ClientAgrees ==
    LET named == {[id |-> watches[g].id, glob |-> g] : g \in {h \in Globs : watches[h].count > 0}}
    IN  /\ TypeOK
        /\ mu = None =>
              Cardinality((registered \ named) \cup (named \ registered)) <= refusals

(* While a task replaces the WatchedFiles of an owner, a glob that both    *)
(* the old and the new one use stays registered: no event is missed        *)
(* because of the exchange, if the tasks run one after the other.          *)
Unbroken ==
    load.orderly => \A t \in Tasks : \A o \in Owners :
        \A g \in Globber(tasks[t].old[o]) \cap Globber(tasks[t].new[o]) :
            \E r \in registered : r.glob = g
=============================================================================
