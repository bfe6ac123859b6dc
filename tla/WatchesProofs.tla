--------------------------- MODULE WatchesProofs ---------------------------
(***************************************************************************)
(* Proofs about Watches, for every set of owners, globs and tasks and      *)
(* every workload: the client's registrations are the ones session.watches *)
(* names, and, if the tasks run one after the other, the counts are those  *)
(* of the session's snapshot and no glob is let go while it is needed.     *)
(***************************************************************************)
EXTENDS Watches, FiniteSetTheorems, TLAPS

(* Most steps are first-order reasoning about sets, functions and records, *)
(* which is Zenon's; those with arithmetic in them cite SMT.               *)
USE Zenon

(* The WatchedFiles of an owner that somebody still has.                   *)
Live(o, w) ==
    \/ w = current[o]
    \/ \E t \in Tasks : w = tasks[t].old[o] \/ w = tasks[t].new[o]

(* The id tells which globs: two WatchedFiles with the same one do not     *)
(* differ, unless it was never set.                                        *)
IdsTell ==
    \A o \in Owners : \A v, w \in WatchedFiles :
        Live(o, v) /\ Live(o, w) /\ v.id = w.id /\ v.id # 0 => v.globs = w.globs

Listed(g) == watches[g].count > 0

(* A watcher is named after the place of its glob in the list it comes     *)
(* from, as long as somebody has that list.  An id that was never set is   *)
(* in use only while the task that has it holds watchesMu.                 *)
NameOK(g) ==
    LET x == watches[g].id
    IN  IF x.id # 0
        THEN \A w \in WatchedFiles : Live(x.owner, w) /\ w.id = x.id =>
                 g \in w.globs /\ x = globId(x.owner, w, g)
        ELSE /\ mu # None /\ tasks[mu].owner = x.owner /\ x.owner \notin tasks[mu].todo
             /\ tasks[mu].new[x.owner] # None /\ tasks[mu].new[x.owner].id = 0
             /\ g \in tasks[mu].new[x.owner].globs
             /\ x = globId(x.owner, tasks[mu].new[x.owner], g)
             /\ watches[g].count = 1

NamesDiffer ==
    \A g, h \in Globs : Listed(g) /\ Listed(h) /\ watches[g].id = watches[h].id => g = h

(* A task has the owner it updates exactly while it holds watchesMu, and   *)
(* an id that was not set means that the globs are the same.               *)
TaskOK(t) ==
    /\ mu = t <=> tasks[t].owner # None
    /\ \A o \in Owners : LET v == tasks[t].old[o]
                             w == tasks[t].new[o]
                         IN  (o \in tasks[t].todo \/ o = tasks[t].owner) /\ w # None /\ w.id = 0 =>
                                 v # None /\ v.globs = w.globs

(* What the client has and what session.watches lists.                     *)
Named == {[id |-> watches[g].id, glob |-> g] : g \in {h \in Globs : Listed(h)}}
Differ == (registered \ Named) \cup (Named \ registered)
Agree == IsFiniteSet(Differ) /\ Cardinality(Differ) <= refusals

(* Who is counted for glob g while a task is under way: the old globs of   *)
(* an owner that is still to be compared, the new ones of the others, and  *)
(* both for the owner whose new globs were just added.                     *)
Users(W, g) == {o \in Owners : g \in Globber(W[o])}
View(T) == [o \in Owners |-> IF o \in T.todo THEN T.old[o] ELSE T.new[o]]
Extra(T, g) ==
    IF T.owner # None /\ T.owner \notin T.todo /\ g \in Globber(T.old[T.owner]) THEN 1 ELSE 0

InOrder ==
    /\ \A t, u \in Tasks : tasks[t] # Free /\ tasks[u] # Free => t = u
    /\ Quiet => \A g \in Globs : watches[g].count = Cardinality(Users(current, g))
    /\ \A t \in Tasks : tasks[t] # Free =>
          /\ current = tasks[t].new
          /\ \A g \in Globs : watches[g].count = Cardinality(Users(View(tasks[t]), g)) + Extra(tasks[t], g)

(* The inductive invariant.                                                *)
IInv ==
    /\ TypeOK /\ IdsTell /\ NamesDiffer /\ Agree
    /\ \A g \in Globs : Listed(g) => NameOK(g)
    /\ \A t \in Tasks : TaskOK(t)
    /\ \A o \in AutoImports : current[o] # None
    /\ load.orderly => InOrder

----------------------------------------------------------------------------
(* Sets and their sizes *)

LEMMA GlobsFinite == IsFiniteSet(Globs) /\ Cardinality(Globs) = NumGlobs
<1>1. NumGlobs \in Nat
  BY WatchesAssumption
<1>2. NumGlobs \in Int /\ 1 \in Int
  BY <1>1, SMT
<1>3. IsFiniteSet(1 .. NumGlobs) /\ Cardinality(1 .. NumGlobs) = IF 1 > NumGlobs THEN 0 ELSE NumGlobs - 1 + 1
  BY <1>2, FS_Interval
<1>4. Cardinality(1 .. NumGlobs) = NumGlobs
  BY <1>1, <1>3, SMT
<1> QED
  BY <1>3, <1>4 DEF Globs

(* The place of a glob in a list is a number of a glob, and no two have    *)
(* the same.                                                               *)
Place(G, g) == {h \in G : h <= g}

LEMMA PlaceFinite ==
    ASSUME NEW G \in SUBSET Globs, NEW g
    PROVE  IsFiniteSet(Place(G, g)) /\ Cardinality(Place(G, g)) <= NumGlobs
           /\ Cardinality(Place(G, g)) \in Nat
<1>1. Place(G, g) \in SUBSET Globs
  BY DEF Place
<1> QED
  BY <1>1, GlobsFinite, FS_Subset, FS_CardinalityType

LEMMA PlaceType ==
    ASSUME NEW G \in SUBSET Globs, NEW g \in G
    PROVE  Cardinality(Place(G, g)) \in Globs
<1>1. g \in Int /\ g <= g
  BY SMT DEF Globs
<1>2. Place(G, g) # {}
  BY <1>1 DEF Place
<1>3. Cardinality(Place(G, g)) # 0
  BY <1>2, PlaceFinite, FS_EmptySet
<1>4. NumGlobs \in Nat
  BY WatchesAssumption
<1> HIDE DEF Place
<1> QED
  BY <1>3, <1>4, PlaceFinite, SMT DEF Globs

LEMMA PlaceOrder ==
    ASSUME NEW G \in SUBSET Globs, NEW g \in G, NEW h \in G, g < h,
           Cardinality(Place(G, g)) = Cardinality(Place(G, h))
    PROVE  FALSE
<1>1. g \in Int /\ h \in Int /\ h <= h /\ ~(h <= g)
  BY SMT DEF Globs
<1>2. Place(G, g) \in SUBSET Place(G, h)
  <2>1. \A x \in G : x <= g => x <= h
    BY SMT DEF Globs
  <2> QED
    BY <2>1 DEF Place
<1>3. Place(G, g) = Place(G, h)
  BY <1>2, PlaceFinite, FS_Subset
<1>4. h \in Place(G, h) /\ h \notin Place(G, g)
  BY <1>1 DEF Place
<1> QED
  BY <1>3, <1>4

LEMMA PlaceTells ==
    ASSUME NEW G \in SUBSET Globs, NEW g \in G, NEW h \in G,
           Cardinality(Place(G, g)) = Cardinality(Place(G, h))
    PROVE  g = h
<1>1. g < h \/ h < g \/ g = h
  BY SMT DEF Globs
<1> QED
  BY <1>1, PlaceOrder

LEMMA SizeWithout ==
    ASSUME NEW S, IsFiniteSet(S), NEW x
    PROVE  /\ IsFiniteSet(S \ {x}) /\ Cardinality(S \ {x}) \in Nat
           /\ x \in S => Cardinality(S) = Cardinality(S \ {x}) + 1
           /\ x \notin S => Cardinality(S) = Cardinality(S \ {x})
<1>1. /\ IsFiniteSet(S \ {x})
      /\ Cardinality(S \ {x}) = IF x \in S THEN Cardinality(S) - 1 ELSE Cardinality(S)
  BY FS_RemoveElement
<1>2. Cardinality(S) \in Nat /\ Cardinality(S \ {x}) \in Nat
  BY <1>1, FS_CardinalityType
<1>3. x \in S => Cardinality(S) = Cardinality(S \ {x}) + 1
  BY <1>1, <1>2, SMT
<1>4. x \notin S => Cardinality(S) = Cardinality(S \ {x})
  BY <1>1
<1> QED
  BY <1>1, <1>2, <1>3, <1>4

(* What a function makes of a finite set, and a set that grows at most by  *)
(* that.                                                                   *)
LEMMA SizeOfImage ==
    ASSUME NEW R, IsFiniteSet(R), NEW f, NEW I, f \in [R -> I], \A x \in I : \E g \in R : x = f[g]
    PROVE  IsFiniteSet(I) /\ Cardinality(I) <= Cardinality(R)
<1>1. f \in Surjection(R, I)
  BY DEF Surjection
<1> QED
  BY <1>1, FS_Surjection

LEMMA GrowsBy ==
    ASSUME NEW D, IsFiniteSet(D), NEW n \in Nat, Cardinality(D) <= n,
           NEW I, IsFiniteSet(I), NEW m \in Nat, Cardinality(I) <= m,
           NEW E, E \subseteq D \cup I
    PROVE  IsFiniteSet(E) /\ Cardinality(E) <= n + m
<1>1. IsFiniteSet(D \cup I) /\ Cardinality(D \cup I) = Cardinality(D) + Cardinality(I) - Cardinality(D \cap I)
  BY FS_Union
<1>2. D \cap I \in SUBSET D /\ E \in SUBSET (D \cup I)
  OBVIOUS
<1>3. IsFiniteSet(D \cap I) /\ IsFiniteSet(E) /\ Cardinality(E) <= Cardinality(D \cup I)
  BY <1>1, <1>2, FS_Subset
<1>4. /\ Cardinality(D) \in Nat /\ Cardinality(I) \in Nat /\ Cardinality(E) \in Nat
      /\ Cardinality(D \cap I) \in Nat /\ Cardinality(D \cup I) \in Nat
  BY <1>1, <1>3, FS_CardinalityType
<1>5. Cardinality(E) <= n + m
  BY <1>1, <1>3, <1>4, SMT
<1> QED
  BY <1>3, <1>5

----------------------------------------------------------------------------
(* The parts of the state *)

LEMMA Types ==
    ASSUME TypeOK
    PROVE  /\ load.ids \in Nat /\ load.refusals \in Nat /\ refusals \in Nat /\ load \in Workloads
           /\ load.orderly => load.refusals = 0
           /\ Ids \in SUBSET Nat /\ 0 \in Ids /\ 1 \in Ids
           /\ None \notin WatchedFiles /\ None \notin WatcherID
           /\ None \notin Tasks /\ None \notin Owners
<1>1. load \in Workload /\ load \in Workloads /\ load.ids > 0 /\ (load.orderly => load.refusals = 0)
  BY WatchesAssumption DEF TypeOK
<1>2. load.ids \in Nat /\ load.refusals \in Nat
  BY <1>1 DEF Workload
<1>3. Ids \in SUBSET Nat /\ 0 \in Ids /\ 1 \in Ids /\ refusals \in Nat
  BY <1>1, <1>2, SMT DEF Ids, TypeOK
<1>4. None \notin WatchedFiles /\ None \notin WatcherID
  BY <1>3, WatchesAssumption DEF WatchedFiles, WatcherID
<1> QED
  BY <1>1, <1>2, <1>3, <1>4, WatchesAssumption

LEMMA FreeTask == Free.owner = None /\ Free.todo = {}
BY DEF Free

LEMMA ListedName ==
    ASSUME TypeOK, NEW g \in Globs, Listed(g)
    PROVE  watches[g].id \in WatcherID /\ watches[g].count \in Nat \ {0}
<1>1. watches[g] \in [count : Nat, id : WatcherID \cup {None}]
  BY DEF TypeOK
<1>2. watches[g].count \in Nat \ {0}
  BY <1>1, SMT DEF Listed
<1> QED
  BY <1>1, <1>2 DEF TypeOK

LEMMA LiveType ==
    ASSUME TypeOK, NEW o \in Owners, NEW w, Live(o, w)
    PROVE  w \in WatchedFiles \cup {None}
<1>1. current[o] \in WatchedFiles \cup {None}
  BY DEF TypeOK
<1>2. \A t \in Tasks : tasks[t] \in Task
  BY DEF TypeOK
<1>3. \A t \in Tasks : /\ tasks[t].old[o] \in WatchedFiles \cup {None}
                       /\ tasks[t].new[o] \in WatchedFiles \cup {None}
  BY <1>2 DEF Task
<1> QED
  BY <1>1, <1>3 DEF Live

LEMMA GlobberType ==
    ASSUME TypeOK, NEW w \in WatchedFiles \cup {None}
    PROVE  /\ Globber(w) \in SUBSET Globs
           /\ w # None => w.id \in Ids /\ w.globs \in SUBSET Globs /\ Globber(w) = w.globs
           /\ \A g \in Globber(w) : w # None
BY Types DEF Globber, WatchedFiles

LEMMA NameType ==
    ASSUME TypeOK, NEW o \in Owners, NEW w \in WatchedFiles, NEW g \in w.globs
    PROVE  /\ globId(o, w, g) \in WatcherID /\ globId(o, w, g).owner = o /\ globId(o, w, g).id = w.id
           /\ globId(o, w, g) # None
<1>1. Cardinality(Place(w.globs, g)) \in Globs
  BY PlaceType DEF WatchedFiles
<1>2. globId(o, w, g) = [owner |-> o, id |-> w.id, index |-> Cardinality(Place(w.globs, g))]
  BY DEF globId, Place
<1>3. globId(o, w, g) \in WatcherID
  BY <1>1, <1>2, SMT DEF WatcherID, WatchedFiles
<1>4. globId(o, w, g).owner = o /\ globId(o, w, g).id = w.id
  BY DEF globId
<1> QED
  BY <1>3, <1>4, Types

LEMMA NameTells ==
    ASSUME NEW o, NEW w \in WatchedFiles, NEW g \in w.globs, NEW h \in w.globs,
           globId(o, w, g) = globId(o, w, h)
    PROVE  g = h
<1>1. \A x : globId(o, w, x).index = Cardinality(Place(w.globs, x))
  BY DEF globId, Place
<1>2. Cardinality(Place(w.globs, g)) = Cardinality(Place(w.globs, h))
  BY <1>1
<1>3. w.globs \in SUBSET Globs
  BY DEF WatchedFiles
<1> QED
  BY <1>2, <1>3, PlaceTells

LEMMA SameName ==
    ASSUME NEW o, NEW v, NEW w, v.id = w.id, v.globs = w.globs, NEW g
    PROVE  globId(o, v, g) = globId(o, w, g)
BY DEF globId

LEMMA NamedElement == \A x : x \in Named <=> \E g \in Globs : Listed(g) /\ x = [id |-> watches[g].id, glob |-> g]
BY DEF Named

LEMMA NamedElementNext ==
    \A x : x \in Named' <=> \E g \in Globs : Listed(g)' /\ x = [id |-> watches'[g].id, glob |-> g]
BY DEF Named

(* An id that somebody has is in use.                                      *)
LEMMA LiveInUse ==
    ASSUME TypeOK, NEW o \in Owners, NEW w \in WatchedFiles, Live(o, w)
    PROVE  InUse(o, w.id)
<1>1. w # None
  BY Types
<1>2. CASE w = current[o]
  BY <1>1, <1>2 DEF InUse
<1>3. ASSUME NEW t \in Tasks, w = tasks[t].old[o] \/ w = tasks[t].new[o] PROVE InUse(o, w.id)
  <2>1. w \in {tasks[t].old[o], tasks[t].new[o]}
    BY <1>3
  <2> QED
    BY <1>1, <2>1 DEF InUse
<1> QED
  BY <1>2, <1>3 DEF Live

LEMMA ListedInUse ==
    ASSUME NEW g \in Globs, Listed(g)
    PROVE  InUse(watches[g].id.owner, watches[g].id.id)
BY DEF Listed, InUse

(* What the next snapshot has for an owner.                                *)
Follows(o, w) ==
    \/ w = None
    \/ w = current[o]
    \/ current[o] # None /\ w = [id |-> 0, globs |-> current[o].globs]
    \/ w # None /\ w.id # 0 /\ ~InUse(o, w.id)

LEMMA FreshIdsType ==
    ASSUME TypeOK, NEW o, NEW i \in FreshIds(o)
    PROVE  i \in Ids /\ i # 0 /\ ~InUse(o, i)
BY DEF FreshIds

LEMMA CloneFollows ==
    ASSUME TypeOK, NEW o \in Owners, current[o] # None, NEW w \in Clone(o, current[o])
    PROVE  Follows(o, w) /\ w \in WatchedFiles
<1>1. current[o].globs \in SUBSET Globs
  BY GlobberType DEF TypeOK
<1>2. CASE w = [id |-> 0, globs |-> current[o].globs]
  <2>1. w \in WatchedFiles
    BY <1>1, <1>2, Types DEF WatchedFiles
  <2> QED
    BY <1>2, <2>1 DEF Follows
<1>3. ASSUME NEW i \in FreshIds(o), NEW G \in SUBSET Globs, w = [id |-> i, globs |-> G]
      PROVE  Follows(o, w) /\ w \in WatchedFiles
  <2>1. w \in WatchedFiles
    BY <1>3, FreshIdsType DEF WatchedFiles
  <2>2. w.id # 0 /\ ~InUse(o, w.id) /\ w # None
    BY <1>3, <2>1, FreshIdsType, Types
  <2> QED
    BY <2>1, <2>2 DEF Follows
<1> QED
  BY <1>2, <1>3, SMT DEF Clone

LEMMA SuccessorFollows ==
    ASSUME IInv, NEW o \in Owners, NEW w \in Successors(o)
    PROVE  Follows(o, w) /\ w \in WatchedFiles \cup {None} /\ (o \in AutoImports => w # None)
<1>1. TypeOK /\ current[o] \in WatchedFiles \cup {None} /\ (o \in AutoImports => current[o] # None)
  BY DEF IInv, TypeOK
<1>2. CASE current[o] # None /\ w \in Clone(o, current[o])
  BY <1>1, <1>2, CloneFollows, Types
<1>3. CASE o \notin AutoImports /\ (w = current[o] \/ w = None)
  BY <1>1, <1>3 DEF Follows
<1>4. CASE o \notin AutoImports /\ w \in NewWatchedFiles(o)
  <2>1. PICK i \in FreshIds(o), G \in SUBSET Globs : w = [id |-> i, globs |-> G]
    BY <1>4, SMT DEF NewWatchedFiles
  <2>2. w \in WatchedFiles
    BY <1>1, <2>1, FreshIdsType DEF WatchedFiles
  <2>3. w.id # 0 /\ ~InUse(o, w.id) /\ w # None
    BY <1>1, <2>1, <2>2, FreshIdsType, Types
  <2> QED
    BY <1>4, <2>2, <2>3 DEF Follows
<1>5. \/ current[o] # None /\ w \in Clone(o, current[o])
      \/ o \notin AutoImports /\ (w = current[o] \/ w = None \/ w \in NewWatchedFiles(o))
  <2>1. CASE o \in AutoImports
    BY <1>1, <2>1 DEF Successors
  <2>2. CASE o \notin AutoImports /\ o \notin load.owners
    BY <2>2 DEF Successors
  <2>3. CASE o \notin AutoImports /\ o \in load.owners
    BY <2>3 DEF Successors
  <2> QED
    BY <2>1, <2>2, <2>3
<1> QED
  BY <1>2, <1>3, <1>4, <1>5

----------------------------------------------------------------------------
(* Steps that install a snapshot *)

(* The WatchedFiles of the new snapshot are the only ones that are new, so *)
(* no id means other globs than before.                                    *)
LEMMA InstallKeeps ==
    ASSUME IInv, load' = load, UNCHANGED <<watches, registered, mu, refusals>>,
           \A o \in Owners : Follows(o, current'[o]),
           \A o \in Owners : \A w \in WatchedFiles : Live(o, w)' => Live(o, w) \/ w = current'[o],
           \A t \in Tasks : tasks[t] # Free => tasks'[t] = tasks[t]
    PROVE  IdsTell' /\ NamesDiffer' /\ Agree' /\ \A g \in Globs : Listed(g)' => NameOK(g)'
<1>1. TypeOK /\ IdsTell /\ WatchedFiles' = WatchedFiles
  BY DEF IInv, WatchedFiles, Ids
<1>2. ASSUME NEW o \in Owners, NEW w \in WatchedFiles, Live(o, w)', w.id # 0, ~Live(o, w)
      PROVE  w = current'[o] /\ ~InUse(o, w.id)
  <2>1. w = current'[o] /\ w # None /\ w # current[o]
    BY <1>1, <1>2, Types DEF Live
  <2>2. w # [id |-> 0, globs |-> current[o].globs]
    BY <1>2, SMT
  <2> QED
    BY <2>1, <2>2 DEF Follows
<1>3. IdsTell'
  <2>1. ASSUME NEW o \in Owners, NEW v \in WatchedFiles, NEW w \in WatchedFiles,
               Live(o, v)', Live(o, w)', v.id = w.id, v.id # 0
        PROVE  v.globs = w.globs
    <3>1. CASE Live(o, v) /\ Live(o, w)
      BY <1>1, <2>1, <3>1 DEF IdsTell
    <3>2. CASE ~Live(o, v) /\ ~Live(o, w)
      BY <1>2, <2>1, <3>2
    <3>3. CASE Live(o, v) /\ ~Live(o, w)
      BY <1>1, <1>2, <2>1, <3>3, LiveInUse
    <3>4. CASE ~Live(o, v) /\ Live(o, w)
      BY <1>1, <1>2, <2>1, <3>4, LiveInUse
    <3> QED
      BY <3>1, <3>2, <3>3, <3>4
  <2> QED
    BY <1>1, <2>1, SMT DEF IdsTell
<1>4. NamesDiffer'
  BY DEF IInv, NamesDiffer, Listed
<1>5. Agree'
  BY DEF IInv, Agree, Differ, Named, Listed
<1>6. ASSUME NEW g \in Globs, Listed(g) PROVE NameOK(g)'
  <2>1. PICK x : x = watches[g].id
    OBVIOUS
  <2>2. NameOK(g) /\ x' = x /\ watches'[g] = watches[g]
    BY <1>6, <2>1 DEF IInv
  <2>3. x.owner \in Owners
    BY <1>1, <1>6, <2>1, ListedName DEF WatcherID
  <2>4. CASE x.id # 0
    <3>1. ASSUME NEW w \in WatchedFiles, Live(x.owner, w)', w.id = x.id
          PROVE  g \in w.globs /\ x = globId(x.owner, w, g)
      <4>1. InUse(x.owner, x.id)
        BY <1>6, <2>1, ListedInUse
      <4>2. Live(x.owner, w)
        BY <1>2, <2>3, <2>4, <3>1, <4>1
      <4> QED
        BY <2>1, <2>2, <2>4, <3>1, <4>2 DEF NameOK
    <3> QED
      BY <1>1, <2>1, <2>2, <2>4, <3>1 DEF NameOK
  <2>5. CASE x.id = 0
    <3>1. mu # None /\ tasks[mu].owner = x.owner /\ mu \in Tasks
      BY <1>1, <2>1, <2>2, <2>5 DEF NameOK, TypeOK
    <3>2. tasks[mu] # Free
      BY <1>1, <2>3, <3>1, Types, FreeTask
    <3>3. tasks'[mu] = tasks[mu]
      BY <3>1, <3>2
    <3> QED
      BY <2>1, <2>2, <2>5, <3>3 DEF NameOK
  <2> QED
    BY <2>4, <2>5
<1> QED
  BY <1>3, <1>4, <1>5, <1>6 DEF Listed

LEMMA StepAdopt ==
    ASSUME IInv, load' = load, adoptSnapshotChange
    PROVE  IInv'
<1>1. PICK o \in AutoImports : \E w \in Clone(o, current[o]) : current' = [current EXCEPT ![o] = w]
  BY DEF adoptSnapshotChange
<1>2. PICK w \in Clone(o, current[o]) : current' = [current EXCEPT ![o] = w]
  BY <1>1
<1>3. TypeOK /\ o \in Owners /\ current[o] # None /\ ~load.orderly
  BY WatchesAssumption DEF IInv, adoptSnapshotChange
<1>4. Follows(o, w) /\ w \in WatchedFiles /\ w # None
  BY <1>2, <1>3, CloneFollows, Types
<1>5. current'[o] = w /\ \A q \in Owners : q # o => current'[q] = current[q]
  BY <1>2, <1>3 DEF TypeOK
<1>6. UNCHANGED <<tasks, watches, registered, mu, refusals>>
  BY DEF adoptSnapshotChange
<1>7. \A q \in Owners : Follows(q, current'[q])
  BY <1>4, <1>5 DEF Follows
<1>8. \A q \in Owners : \A v \in WatchedFiles : Live(q, v)' => Live(q, v) \/ v = current'[q]
  BY <1>6 DEF Live
<1>9. IdsTell' /\ NamesDiffer' /\ Agree' /\ \A g \in Globs : Listed(g)' => NameOK(g)'
  BY <1>6, <1>7, <1>8, InstallKeeps
<1>10. TypeOK'
  <2>1. current' \in [Owners -> WatchedFiles \cup {None}]
    BY <1>2, <1>3, <1>4 DEF TypeOK
  <2> QED
    BY <1>3, <1>6, <2>1 DEF TypeOK, WatchedFiles, WatcherID, Ids, Task
<1>11. \A q \in AutoImports : current'[q] # None
  BY <1>4, <1>5, WatchesAssumption DEF IInv
<1>12. \A t \in Tasks : TaskOK(t)'
  BY <1>6 DEF IInv, TaskOK
<1> QED
  BY <1>3, <1>9, <1>10, <1>11, <1>12 DEF IInv

(* An owner whose id does not change keeps its globs.                      *)
LEMMA SameIDSameGlobs ==
    ASSUME TypeOK, NEW o \in Owners, NEW w, Follows(o, w), SameID(current[o], w)
    PROVE  Globber(current[o]) = Globber(w)
<1>1. current[o] \in WatchedFiles \cup {None}
  BY DEF TypeOK
<1>2. CASE current[o] = None
  BY <1>2 DEF SameID
<1>3. CASE current[o] # None
  <2>1. w # None /\ w.id = current[o].id
    BY <1>3 DEF SameID
  <2>2. InUse(o, w.id)
    BY <1>1, <1>3, <2>1, LiveInUse DEF Live
  <2>3. w = current[o] \/ w = [id |-> 0, globs |-> current[o].globs]
    BY <2>1, <2>2 DEF Follows
  <2>4. w.globs = current[o].globs
    BY <2>3, SMT
  <2> QED
    BY <1>3, <2>1, <2>4 DEF Globber
<1> QED
  BY <1>2, <1>3

(* The task is given what it has to compare; one with nothing to compare   *)
(* is not started.                                                         *)
LEMMA StepUpdateSnapshot ==
    ASSUME IInv, load' = load, NEW t \in Tasks, updateSnapshot(t)
    PROVE  IInv'
<1>1. PICK new \in NextSnapshots :
          /\ current' = new
          /\ LET todo == {o \in Owners : ~SameID(current[o], new[o])}
             IN  tasks' = [tasks EXCEPT ![t] =
                              IF todo = {} THEN Free
                              ELSE [old |-> current, new |-> new, todo |-> todo, owner |-> None]]
  BY DEF updateSnapshot
<1> DEFINE todo == {o \in Owners : ~SameID(current[o], new[o])}
           T == [old |-> current, new |-> new, todo |-> todo, owner |-> None]
<1>2. /\ TypeOK /\ tasks[t] = Free /\ (load.orderly => Quiet)
      /\ UNCHANGED <<watches, registered, mu, refusals>>
  BY DEF IInv, updateSnapshot
<1>3. \A o \in Owners : new[o] \in Successors(o)
  BY DEF NextSnapshots
<1>4. \A o \in Owners : /\ Follows(o, new[o]) /\ new[o] \in WatchedFiles \cup {None}
                        /\ o \in AutoImports => new[o] # None
  BY <1>3, SuccessorFollows
<1>5. new \in [Owners -> WatchedFiles \cup {None}]
  BY <1>4, SMT DEF NextSnapshots
<1>6. Free \in Task /\ T \in Task
  <2>1. Free \in Task
    BY DEF Free, Task
  <2>2. T \in Task
    BY <1>2, <1>5 DEF Task, TypeOK
  <2> QED
    BY <2>1, <2>2
<1>7. /\ tasks' \in [Tasks -> Task] /\ \A u \in Tasks : u # t => tasks'[u] = tasks[u]
      /\ tasks'[t] = IF todo = {} THEN Free ELSE T
  BY <1>1, <1>2, <1>6 DEF TypeOK
<1>8. /\ T.old = current /\ T.new = new /\ T.todo = todo /\ T.owner = None
      /\ todo \in SUBSET Owners
  OBVIOUS
<1>9. \A o \in todo : o \in Owners /\ ~SameID(current[o], new[o])
  OBVIOUS
<1>10. \A o \in Owners \ todo : SameID(current[o], new[o])
  OBVIOUS
<1> HIDE DEF T, todo
<1>11. \A o \in Owners : \A w \in WatchedFiles : Live(o, w)' => Live(o, w) \/ w = current'[o]
  <2>1. \A o \in Owners : Free.old[o] = None /\ Free.new[o] = None
    BY DEF Free
  <2>2. \A o \in Owners : \A w \in WatchedFiles :
            w = tasks'[t].old[o] \/ w = tasks'[t].new[o] => w = current[o] \/ w = current'[o]
    BY <1>1, <1>2, <1>7, <1>8, <2>1, Types
  <2> QED
    BY <1>7, <2>2 DEF Live
<1>12. IdsTell' /\ NamesDiffer' /\ Agree' /\ \A g \in Globs : Listed(g)' => NameOK(g)'
  BY <1>1, <1>2, <1>4, <1>7, <1>11, InstallKeeps
<1>13. TypeOK'
  BY <1>1, <1>2, <1>5, <1>7 DEF TypeOK, WatchedFiles, WatcherID, Ids, Task
<1>14. \A o \in AutoImports : current'[o] # None
  BY <1>1, <1>4, WatchesAssumption
<1>15. ASSUME NEW u \in Tasks PROVE TaskOK(u)'
  <2>1. CASE u # t
    <3>1. TaskOK(u) /\ tasks'[u] = tasks[u] /\ mu' = mu
      BY <1>2, <1>7, <2>1 DEF IInv
    <3> QED
      BY <3>1 DEF TaskOK
  <2>2. CASE u = t
    <3>1. mu # t /\ mu' = mu
      BY <1>2, FreeTask DEF IInv, TaskOK
    <3>2. CASE todo = {}
      BY <1>2, <1>7, <2>2, <3>1, <3>2, FreeTask, Types DEF TaskOK
    <3>3. CASE todo # {}
      <4>1. tasks'[t] = T
        BY <1>7, <3>3
      <4>2. ASSUME NEW o \in todo, new[o] # None, new[o].id = 0
            PROVE  current[o] # None /\ current[o].globs = new[o].globs
        <5>1. o \in Owners /\ new[o] # current[o]
          BY <1>9 DEF SameID
        <5>2. new[o] = [id |-> 0, globs |-> current[o].globs] /\ current[o] # None
          BY <1>4, <4>2, <5>1 DEF Follows
        <5> QED
          BY <5>2, SMT
      <4> QED
        BY <1>2, <1>8, <2>2, <3>1, <4>1, <4>2, Types DEF TaskOK
    <3> QED
      BY <3>2, <3>3
  <2> QED
    BY <2>1, <2>2
<1>16. ASSUME load.orderly PROVE InOrder'
  <2>1. \A u \in Tasks : tasks[u] = Free
    BY <1>2, <1>16 DEF Quiet
  <2>2. \A g \in Globs : watches[g].count = Cardinality(Users(current, g))
    BY <1>2, <1>16 DEF IInv, InOrder
  <2>3. \A o \in Owners \ todo : Globber(current[o]) = Globber(new[o])
    BY <1>2, <1>4, <1>10, SameIDSameGlobs
  <2>4. CASE todo = {}
    <3>1. \A u \in Tasks : tasks'[u] = Free
      BY <1>7, <2>1, <2>4
    <3>2. ASSUME NEW g \in Globs PROVE Users(new, g) = Users(current, g)
      BY <2>3, <2>4 DEF Users
    <3> QED
      BY <1>1, <1>2, <2>2, <3>1, <3>2 DEF InOrder
  <2>5. CASE todo # {}
    <3>1. tasks'[t] = T /\ \A u \in Tasks : u # t => tasks'[u] = Free
      BY <1>7, <2>1, <2>5
    <3>2. T # Free
      BY <1>8, <2>5, FreeTask
    <3>3. ~Quiet'
      BY <3>1, <3>2 DEF Quiet
    <3>4. ASSUME NEW g \in Globs PROVE Users(View(T), g) = Users(current, g) /\ Extra(T, g) = 0
      <4>1. \A o \in Owners : Globber(View(T)[o]) = Globber(current[o])
        BY <1>8, <2>3 DEF View
      <4> QED
        BY <1>8, <4>1 DEF Users, Extra
    <3>5. ASSUME NEW g \in Globs
          PROVE  watches'[g].count = Cardinality(Users(View(T), g)) + Extra(T, g)
      <4>1. watches[g].count \in Nat
        BY <1>2 DEF TypeOK
      <4>2. watches[g].count + 0 = watches[g].count
        BY <4>1, SMT
      <4> QED
        BY <1>2, <2>2, <3>4, <4>2
    <3> QED
      BY <1>1, <1>8, <3>1, <3>3, <3>5 DEF InOrder
  <2> QED
    BY <2>4, <2>5
<1> QED
  BY <1>12, <1>13, <1>14, <1>15, <1>16 DEF IInv

----------------------------------------------------------------------------
(* The steps of updateWatch *)

(* While a task is at work, nobody has other WatchedFiles than before.     *)
SameLists ==
    /\ current' = current /\ load' = load
    /\ \A u \in Tasks : \/ tasks'[u].old = tasks[u].old /\ tasks'[u].new = tasks[u].new
                        \/ tasks'[u] = Free

LEMMA LiveBefore ==
    ASSUME TypeOK, SameLists, NEW o \in Owners, NEW w \in WatchedFiles, Live(o, w)'
    PROVE  Live(o, w)
<1>1. \A u \in Tasks : w = tasks'[u].old[o] \/ w = tasks'[u].new[o] =>
          w = tasks[u].old[o] \/ w = tasks[u].new[o]
  <2>1. Free.old[o] = None /\ Free.new[o] = None
    BY DEF Free
  <2> QED
    BY <2>1, Types DEF SameLists
<1> QED
  BY <1>1 DEF Live, SameLists

LEMMA IdsTellSame ==
    ASSUME IInv, SameLists
    PROVE  IdsTell'
<1>1. TypeOK /\ IdsTell /\ WatchedFiles' = WatchedFiles
  BY DEF IInv, SameLists, WatchedFiles, Ids
<1>2. \A o \in Owners : \A w \in WatchedFiles : Live(o, w)' => Live(o, w)
  BY <1>1, LiveBefore
<1> QED
  BY <1>1, <1>2 DEF IdsTell

(* A watcher that stays under an id that was set stays properly named.     *)
LEMMA NameStays ==
    ASSUME IInv, SameLists, NEW g \in Globs, Listed(g), watches[g].id.id # 0,
           watches'[g].id = watches[g].id
    PROVE  NameOK(g)'
<1>1. TypeOK /\ NameOK(g) /\ WatchedFiles' = WatchedFiles
  BY DEF IInv, SameLists, WatchedFiles, Ids
<1>2. PICK x : x = watches[g].id /\ x = watches'[g].id
  OBVIOUS
<1>3. x.owner \in Owners /\ x.id # 0
  BY <1>1, <1>2, ListedName DEF WatcherID
<1>4. \A w \in WatchedFiles : Live(x.owner, w)' /\ w.id = x.id => g \in w.globs /\ x = globId(x.owner, w, g)
  BY <1>1, <1>2, <1>3, LiveBefore DEF NameOK
<1> QED
  BY <1>1, <1>2, <1>3, <1>4 DEF NameOK

LEMMA StepLock ==
    ASSUME IInv, load' = load, NEW t \in Tasks, NEW o \in Owners, Lock(t, o)
    PROVE  IInv'
<1>1. /\ TypeOK /\ mu = None /\ mu' = t /\ o \in tasks[t].todo
      /\ UNCHANGED <<current, watches, registered, refusals>>
  BY DEF Lock, IInv
<1>2. PICK T : T = tasks[t]
  OBVIOUS
<1>3. PICK T1 : T1 = [T EXCEPT !.owner = o]
  OBVIOUS
<1>4. T \in Task
  BY <1>1, <1>2 DEF TypeOK
<1>5. /\ T1 \in Task /\ T1.old = T.old /\ T1.new = T.new /\ T1.todo = T.todo /\ T1.owner = o
  BY <1>3, <1>4 DEF Task
<1>6. /\ tasks' \in [Tasks -> Task] /\ tasks'[t] = T1 /\ \A u \in Tasks : u # t => tasks'[u] = tasks[u]
  BY <1>1, <1>2, <1>3, <1>5 DEF Lock, TypeOK
<1>7. TypeOK'
  BY <1>1, <1>6 DEF TypeOK, WatchedFiles, WatcherID, Ids, Task
<1>8. SameLists
  BY <1>1, <1>2, <1>5, <1>6 DEF SameLists
<1>9. IdsTell'
  BY <1>8, IdsTellSame
<1>10. NamesDiffer' /\ Agree'
  BY <1>1 DEF IInv, NamesDiffer, Agree, Differ, Named, Listed
<1>11. ASSUME NEW g \in Globs, Listed(g)' PROVE NameOK(g)'
  <2>1. Listed(g) /\ watches'[g] = watches[g]
    BY <1>1, <1>11 DEF Listed
  <2>2. watches[g].id.id # 0
    BY <1>1, <2>1 DEF IInv, NameOK
  <2> QED
    BY <1>8, <2>1, <2>2, NameStays
<1>12. ASSUME NEW u \in Tasks PROVE TaskOK(u)'
  <2>0. TaskOK(u) /\ TaskOK(t)
    BY DEF IInv
  <2>1. CASE u = t
    <3>1. tasks'[u] = T1 /\ tasks[u] = T /\ mu' = u /\ o # None
      BY <1>1, <1>2, <1>6, <2>1, Types
    <3>2. \A q \in Owners : q \in T1.todo \/ q = T1.owner => q \in T.todo
      BY <1>1, <1>2, <1>5
    <3> QED
      BY <1>5, <2>0, <3>1, <3>2 DEF TaskOK
  <2>2. CASE u # t
    <3>1. tasks'[u] = tasks[u] /\ mu' # u /\ mu # u
      BY <1>1, <1>6, <2>2, Types
    <3> QED
      BY <2>0, <3>1 DEF TaskOK
  <2> QED
    BY <2>1, <2>2
<1>13. \A q \in AutoImports : current'[q] # None
  BY <1>1 DEF IInv
<1>14. ASSUME load.orderly PROVE InOrder'
  <2>1. InOrder /\ T # Free /\ T1 # Free /\ T.owner = None
    BY <1>1, <1>2, <1>5, <1>14, FreeTask, Types DEF IInv, TaskOK
  <2>2. ~Quiet'
    BY <1>6, <2>1 DEF Quiet
  <2>3. \A u \in Tasks : tasks'[u] # Free => u = t
    BY <1>2, <1>6, <2>1 DEF InOrder
  <2>4. current = T.new /\ \A g \in Globs : watches[g].count = Cardinality(Users(View(T), g)) + Extra(T, g)
    BY <1>2, <2>1 DEF InOrder
  <2>5. View(T1) = View(T) /\ \A g \in Globs : Extra(T1, g) = Extra(T, g)
    BY <1>1, <1>2, <1>5, <2>1 DEF View, Extra
  <2> QED
    BY <1>1, <1>5, <1>6, <2>2, <2>3, <2>4, <2>5 DEF InOrder
<1> QED
  BY <1>7, <1>9, <1>10, <1>11, <1>12, <1>13, <1>14 DEF IInv

(* What AddWatches does to one glob, and that it leaves types as they are. *)
Counted(o, w, g) ==
    /\ g \notin Globber(w) => watches'[g] = watches[g]
    /\ g \in Globber(w) => /\ w \in WatchedFiles /\ g \in w.globs
                           /\ watches'[g].count = watches[g].count + 1
                           /\ watches[g].count = 0 => watches'[g].id = globId(o, w, g)
                           /\ watches[g].count # 0 => watches'[g].id = watches[g].id

WatchOK(g) ==
    /\ watches[g] \in [count : Nat, id : WatcherID \cup {None}]
    /\ watches[g].count = 0 <=> watches[g].id = None

LEMMA Adding ==
    ASSUME TypeOK, load' = load, NEW t \in Tasks, NEW o \in Owners, AddWatches(t, o),
           NEW w, w = tasks[t].new[o], NEW g \in Globs
    PROVE  Counted(o, w, g) /\ WatchOK(g)'
<1>1. w \in WatchedFiles \cup {None}
  BY LiveType DEF Live
<1>2. WatchOK(g) /\ WatcherID' = WatcherID
  BY DEF TypeOK, WatchOK, WatcherID, Ids
<1>3. watches'[g] = IF g \in Globber(w) /\ watches[g].count = 0 THEN [count |-> 1, id |-> globId(o, w, g)]
                    ELSE IF g \in Globber(w) THEN [watches[g] EXCEPT !.count = @ + 1] ELSE watches[g]
  BY DEF AddWatches
<1>4. CASE g \notin Globber(w)
  BY <1>2, <1>3, <1>4 DEF Counted, WatchOK
<1>5. CASE g \in Globber(w)
  <2>1. w \in WatchedFiles /\ g \in w.globs
    BY <1>1, <1>5, GlobberType
  <2>2. CASE watches[g].count = 0
    <3>1. watches'[g] = [count |-> 1, id |-> globId(o, w, g)]
      BY <1>3, <1>5, <2>2
    <3>2. globId(o, w, g) \in WatcherID /\ globId(o, w, g) # None
      BY <2>1, NameType
    <3>3. watches'[g].count = 1 /\ watches'[g].id = globId(o, w, g)
      BY <3>1, SMT
    <3>4. 1 = watches[g].count + 1 /\ 1 # 0 /\ 1 \in Nat
      BY <2>2, SMT
    <3>5. watches'[g] \in [count : Nat, id : WatcherID \cup {None}]
      BY <3>1, <3>2, <3>4, SMT
    <3> QED
      BY <1>2, <1>5, <2>1, <2>2, <3>2, <3>3, <3>4, <3>5 DEF Counted, WatchOK
  <2>3. CASE watches[g].count # 0
    <3>1. watches'[g] = [watches[g] EXCEPT !.count = @ + 1]
      BY <1>3, <1>5, <2>3
    <3>2. watches'[g].count = watches[g].count + 1 /\ watches'[g].id = watches[g].id
      BY <1>2, <3>1, SMT DEF WatchOK
    <3>3. watches[g].count + 1 \in Nat /\ watches[g].count + 1 # 0
      BY <1>2, SMT DEF WatchOK
    <3>4. watches'[g] \in [count : Nat, id : WatcherID \cup {None}]
      BY <1>2, <3>1, <3>3, SMT DEF WatchOK
    <3>5. watches[g].id # None
      BY <1>2, <2>3 DEF WatchOK
    <3> QED
      BY <1>2, <1>5, <2>1, <2>3, <3>2, <3>3, <3>4, <3>5 DEF Counted, WatchOK
  <2> QED
    BY <2>2, <2>3
<1> QED
  BY <1>4, <1>5

(* A registration the client refuses is the only difference there may be   *)
(* afterwards that was not there before.                                   *)
LEMMA AddingAgrees ==
    ASSUME IInv, load' = load, NEW t \in Tasks, NEW o \in Owners, AddWatches(t, o)
    PROVE  Agree' /\ refusals' \in Nat /\ registered' \subseteq [id : WatcherID, glob : Globs]
           /\ refusals' <= load.refusals
<1>1. PICK w : w = tasks[t].new[o]
  OBVIOUS
<1> DEFINE added == {g \in Globber(w) : watches[g].count = 0}
           x(g) == [id |-> globId(o, w, g), glob |-> g]
<1>2. TypeOK /\ w \in WatchedFiles \cup {None} /\ Globber(w) \in SUBSET Globs
  BY <1>1, LiveType, GlobberType DEF IInv, Live
<1>3. PICK R \in SUBSET added : /\ registered' = registered \cup {x(g) : g \in added \ R}
                                /\ Refuse(R)
  BY <1>1 DEF AddWatches
<1>4. added \in SUBSET Globs
  BY <1>2
<1>a. \A g \in Globs : Counted(o, w, g)
  BY <1>1, <1>2, Adding
<1>5. ASSUME NEW g \in added
      PROVE  /\ g \in Globs /\ watches'[g].id = globId(o, w, g) /\ Listed(g)'
             /\ x(g) \in [id : WatcherID, glob : Globs]
  <2>1. g \in Globs /\ g \in Globber(w) /\ watches[g].count = 0 /\ g \in w.globs /\ w \in WatchedFiles
    BY <1>2, GlobberType
  <2>2. watches'[g].count = 0 + 1 /\ watches'[g].id = globId(o, w, g)
    BY <1>a, <2>1 DEF Counted
  <2>3. watches'[g].count > 0
    BY <2>2, SMT
  <2>4. globId(o, w, g) \in WatcherID
    BY <1>2, <2>1, NameType
  <2>5. x(g) \in [id : WatcherID, glob : Globs]
    BY <2>1, <2>4, SMT
  <2> QED
    BY <2>1, <2>2, <2>3, <2>5 DEF Listed
<1>6. ASSUME NEW g \in Globs, g \notin added
      PROVE  watches'[g].id = watches[g].id /\ (Listed(g)' <=> Listed(g))
  <2>1. CASE g \notin Globber(w)
    BY <1>a, <2>1 DEF Counted, Listed
  <2>2. CASE g \in Globber(w)
    <3>1. watches[g].count # 0 /\ watches[g].count \in Nat
      BY <1>2, <1>6, <2>2 DEF TypeOK
    <3>2. watches'[g].id = watches[g].id /\ watches'[g].count = watches[g].count + 1
      BY <1>a, <2>2, <3>1 DEF Counted
    <3>3. watches[g].count > 0 /\ watches[g].count + 1 > 0
      BY <3>1, SMT
    <3> QED
      BY <3>2, <3>3 DEF Listed
  <2> QED
    BY <2>1, <2>2
<1> HIDE DEF added
<1>7. ASSUME NEW d \in Differ' PROVE d \in Differ \/ \E g \in R : d = x(g)
  <2>1. CASE d \in registered' /\ d \notin Named'
    <3>1. \A g \in added : d # x(g)
      BY <1>5, <2>1, NamedElementNext
    <3>2. d \in registered
      BY <1>3, <2>1, <3>1
    <3>3. d \notin Named
      <4>1. ASSUME NEW g \in Globs, Listed(g), d = [id |-> watches[g].id, glob |-> g] PROVE FALSE
        <5>1. g \notin added
          <6>1. CASE g \in added
            <7>1. watches[g].count = 0
              BY <6>1 DEF added
            <7>2. ~(0 > 0)
              BY SMT
            <7> QED
              BY <4>1, <7>1, <7>2 DEF Listed
          <6> QED
            BY <6>1
        <5> QED
          BY <1>6, <2>1, <4>1, <5>1, NamedElementNext
      <4> QED
        BY <4>1, NamedElement
    <3> QED
      BY <3>2, <3>3 DEF Differ
  <2>2. CASE d \in Named' /\ d \notin registered'
    <3>1. PICK g \in Globs : Listed(g)' /\ d = [id |-> watches'[g].id, glob |-> g]
      BY <2>2, NamedElementNext
    <3>2. CASE g \in added
      <4>1. d = x(g)
        BY <1>5, <3>1, <3>2
      <4>2. g \in R
        BY <1>3, <2>2, <3>2, <4>1
      <4> QED
        BY <4>1, <4>2
    <3>3. CASE g \notin added
      <4>1. d \in Named
        BY <1>6, <3>1, <3>3, NamedElement
      <4>2. d \notin registered
        BY <1>3, <2>2
      <4> QED
        BY <4>1, <4>2 DEF Differ
    <3> QED
      BY <3>2, <3>3
  <2> QED
    BY <2>1, <2>2 DEF Differ
<1> HIDE DEF x
<1>8. IsFiniteSet(R) /\ Cardinality(R) \in Nat
  BY <1>3, <1>4, GlobsFinite, FS_Subset, FS_CardinalityType
<1>9. PICK I, f : I = {x(g) : g \in R} /\ f = [g \in R |-> x(g)]
  OBVIOUS
<1>10. f \in [R -> I] /\ \A d \in I : \E g \in R : d = f[g]
  BY <1>9
<1>11. IsFiniteSet(I) /\ Cardinality(I) <= Cardinality(R)
  BY <1>8, <1>10, SizeOfImage
<1>12. IsFiniteSet(Differ) /\ Cardinality(Differ) <= refusals /\ refusals \in Nat
  BY <1>2, Types DEF IInv, Agree
<1>13. IsFiniteSet(Differ') /\ Cardinality(Differ') <= refusals + Cardinality(R)
  <2>1. PICK E : E = Differ'
    OBVIOUS
  <2>2. E \subseteq Differ \cup I
    BY <1>7, <1>9, <2>1
  <2>3. IsFiniteSet(E) /\ Cardinality(E) <= refusals + Cardinality(R)
    BY <1>8, <1>11, <1>12, <2>2, GrowsBy
  <2> QED
    BY <2>1, <2>3
<1>14. refusals' = refusals + Cardinality(R) /\ refusals' <= load.refusals
  BY <1>3 DEF Refuse
<1>15. refusals' \in Nat
  BY <1>8, <1>12, <1>14, SMT
<1>16. registered' \subseteq [id : WatcherID, glob : Globs]
  BY <1>2, <1>3, <1>5, SMT DEF TypeOK
<1> QED
  BY <1>13, <1>14, <1>15, <1>16 DEF Agree

(* What RemoveWatches does to one glob.                                    *)
Uncounted(w, g) ==
    /\ g \notin Globber(w) \/ watches[g].count = 0 => watches'[g] = watches[g]
    /\ g \in Globber(w) /\ watches[g].count # 0 =>
          /\ watches[g].count = watches'[g].count + 1
          /\ watches[g].count # 1 => watches'[g].id = watches[g].id

LEMMA Removing ==
    ASSUME TypeOK, load' = load, NEW t \in Tasks, NEW o \in Owners, RemoveWatches(t, o),
           NEW w, w = tasks[t].old[o], NEW g \in Globs
    PROVE  Uncounted(w, g) /\ WatchOK(g)'
<1>1. WatchOK(g) /\ WatcherID' = WatcherID
  BY DEF TypeOK, WatchOK, WatcherID, Ids
<1>2. watches'[g] = IF g \in Globber(w) /\ watches[g].count = 1 THEN [count |-> 0, id |-> None]
                    ELSE IF g \in Globber(w) /\ watches[g].count > 1 THEN [watches[g] EXCEPT !.count = @ - 1]
                    ELSE watches[g]
  BY DEF RemoveWatches
<1>3. watches[g].count \in Nat
  BY <1>1 DEF WatchOK
<1>4. CASE g \notin Globber(w) \/ watches[g].count = 0
  <2>1. ~(0 > 1) /\ 0 # 1
    BY SMT
  <2>2. watches'[g] = watches[g]
    BY <1>2, <1>4, <2>1
  <2> QED
    BY <1>1, <1>4, <2>2 DEF Uncounted, WatchOK
<1>5. CASE g \in Globber(w) /\ watches[g].count = 1
  <2>1. watches'[g] = [count |-> 0, id |-> None]
    BY <1>2, <1>5
  <2>2. watches'[g].count = 0 /\ watches'[g].id = None /\ 1 = 0 + 1 /\ 1 # 0 /\ 0 \in Nat
    BY <2>1, SMT
  <2>3. watches'[g] \in [count : Nat, id : WatcherID \cup {None}]
    BY <2>1, SMT
  <2> QED
    BY <1>1, <1>5, <2>2, <2>3 DEF Uncounted, WatchOK
<1>6. CASE g \in Globber(w) /\ watches[g].count \notin {0, 1}
  <2>1. watches[g].count > 1
    BY <1>3, <1>6, SMT
  <2>2. watches'[g] = [watches[g] EXCEPT !.count = @ - 1]
    BY <1>2, <1>6, <2>1
  <2>3. watches'[g].count = watches[g].count - 1 /\ watches'[g].id = watches[g].id
    BY <1>1, <2>2, SMT DEF WatchOK
  <2>4. watches'[g].count \in Nat \ {0} /\ watches[g].count = watches'[g].count + 1
    BY <1>3, <2>1, <2>3, SMT
  <2>5. watches'[g] \in [count : Nat, id : WatcherID \cup {None}]
    BY <1>1, <2>2, <2>3, <2>4, SMT DEF WatchOK
  <2> QED
    BY <1>1, <1>6, <2>3, <2>4, <2>5 DEF Uncounted, WatchOK
<1> QED
  BY <1>4, <1>5, <1>6

(* Unregistering goes by the id: no other watcher is gone with it, and one *)
(* that the client refuses to give up is the only new difference.          *)
LEMMA RemovingAgrees ==
    ASSUME IInv, load' = load, NEW t \in Tasks, NEW o \in Owners, RemoveWatches(t, o)
    PROVE  Agree' /\ refusals' \in Nat /\ registered' \subseteq [id : WatcherID, glob : Globs]
           /\ refusals' <= load.refusals
<1>1. PICK w : w = tasks[t].old[o]
  OBVIOUS
<1> DEFINE removed == {g \in Globber(w) : watches[g].count = 1}
           x(g) == [id |-> watches[g].id, glob |-> g]
<1>2. TypeOK /\ w \in WatchedFiles \cup {None} /\ Globber(w) \in SUBSET Globs
  BY <1>1, LiveType, GlobberType DEF IInv, Live
<1>3. PICK R \in SUBSET {g \in removed : \E r \in registered : r.id = watches[g].id} :
         /\ registered' = {r \in registered : \A g \in removed \ R : r.id # watches[g].id}
         /\ Refuse(R)
  BY <1>1 DEF RemoveWatches
<1>4. removed \in SUBSET Globs /\ R \in SUBSET Globs
  BY <1>2
<1>5. \A g \in Globs : Uncounted(w, g) /\ watches[g].count \in Nat /\ watches'[g].count \in Nat
  <2>1. \A g \in Globs : Uncounted(w, g) /\ WatchOK(g)'
    BY <1>1, <1>2, Removing
  <2> QED
    BY <1>2, <2>1 DEF TypeOK, WatchOK
<1>6. ASSUME NEW g \in removed PROVE g \in Globs /\ Listed(g) /\ ~Listed(g)'
  <2>1. g \in Globs /\ g \in Globber(w) /\ watches[g].count = 1
    BY <1>2
  <2>2. 1 = watches'[g].count + 1 /\ watches'[g].count \in Nat
    BY <1>5, <2>1, SMT DEF Uncounted
  <2>3. 1 > 0 /\ ~(watches'[g].count > 0)
    BY <2>2, SMT
  <2> QED
    BY <2>1, <2>3 DEF Listed
<1>7. ASSUME NEW g \in Globs, g \notin removed
      PROVE  /\ Listed(g)' <=> Listed(g)
             /\ Listed(g) => watches'[g].id = watches[g].id
  <2>1. CASE g \notin Globber(w) \/ watches[g].count = 0
    BY <1>5, <2>1 DEF Uncounted, Listed
  <2>2. CASE g \in Globber(w) /\ watches[g].count # 0
    <3>1. watches[g].count # 1
      BY <1>7, <2>2
    <3>2. watches[g].count = watches'[g].count + 1 /\ watches'[g].id = watches[g].id
      BY <1>5, <2>2, <3>1 DEF Uncounted
    <3>3. watches[g].count > 0 /\ watches'[g].count > 0
      BY <1>5, <2>2, <3>1, <3>2, SMT
    <3> QED
      BY <3>2, <3>3 DEF Listed
  <2> QED
    BY <2>1, <2>2
<1> HIDE DEF removed
<1>8. ASSUME NEW d \in Differ' PROVE d \in Differ \/ \E g \in R : d = x(g)
  <2>1. CASE d \in registered' /\ d \notin Named'
    <3>1. d \in registered /\ \A g \in removed \ R : d.id # watches[g].id
      BY <1>3, <2>1
    <3>2. CASE d \in Named
      <4>1. PICK g \in Globs : Listed(g) /\ d = x(g)
        BY <3>2, NamedElement
      <4>2. g \in removed
        BY <1>7, <2>1, <4>1, NamedElementNext
      <4>3. d.id = watches[g].id
        BY <4>1, SMT
      <4> QED
        BY <3>1, <4>1, <4>2, <4>3
    <3>3. CASE d \notin Named
      BY <3>1, <3>3 DEF Differ
    <3> QED
      BY <3>2, <3>3
  <2>2. CASE d \in Named' /\ d \notin registered'
    <3>1. PICK g \in Globs : Listed(g)' /\ d = [id |-> watches'[g].id, glob |-> g]
      BY <2>2, NamedElementNext
    <3>2. g \notin removed
      BY <1>6, <3>1
    <3>3. Listed(g) /\ d = x(g)
      BY <1>7, <3>1, <3>2
    <3>4. d \in Named
      BY <3>3, NamedElement
    <3>5. d \notin registered
      <4>1. ASSUME d \in registered PROVE FALSE
        <5>1. PICK h \in removed : d.id = watches[h].id
          BY <1>3, <2>2, <4>1
        <5>2. watches[h].id = watches[g].id
          BY <3>3, <5>1, SMT
        <5>3. h = g
          BY <1>6, <3>3, <5>2 DEF IInv, NamesDiffer
        <5> QED
          BY <3>2, <5>3
      <4> QED
        BY <4>1
    <3> QED
      BY <3>4, <3>5 DEF Differ
  <2> QED
    BY <2>1, <2>2 DEF Differ
<1> HIDE DEF x
<1>9. IsFiniteSet(R) /\ Cardinality(R) \in Nat
  BY <1>4, GlobsFinite, FS_Subset, FS_CardinalityType
<1>10. PICK I, f : I = {x(g) : g \in R} /\ f = [g \in R |-> x(g)]
  OBVIOUS
<1>11. f \in [R -> I] /\ \A d \in I : \E g \in R : d = f[g]
  BY <1>10
<1>12. IsFiniteSet(I) /\ Cardinality(I) <= Cardinality(R)
  BY <1>9, <1>11, SizeOfImage
<1>13. IsFiniteSet(Differ) /\ Cardinality(Differ) <= refusals /\ refusals \in Nat
  BY <1>2, Types DEF IInv, Agree
<1>14. IsFiniteSet(Differ') /\ Cardinality(Differ') <= refusals + Cardinality(R)
  <2>1. PICK E : E = Differ'
    OBVIOUS
  <2>2. E \subseteq Differ \cup I
    BY <1>8, <1>10, <2>1
  <2>3. IsFiniteSet(E) /\ Cardinality(E) <= refusals + Cardinality(R)
    BY <1>9, <1>12, <1>13, <2>2, GrowsBy
  <2> QED
    BY <2>1, <2>3
<1>15. refusals' = refusals + Cardinality(R) /\ refusals' <= load.refusals
  BY <1>3 DEF Refuse
<1>16. refusals' \in Nat
  BY <1>9, <1>13, <1>15, SMT
<1>17. registered' \subseteq [id : WatcherID, glob : Globs]
  BY <1>2, <1>3 DEF TypeOK
<1> QED
  BY <1>14, <1>15, <1>16, <1>17 DEF Agree

LEMMA SizesDiffer ==
    ASSUME NEW S, NEW S1, IsFiniteSet(S), IsFiniteSet(S1), NEW x, S \ {x} = S1 \ {x}
    PROVE  \E n \in Nat : /\ Cardinality(S) = IF x \in S THEN n + 1 ELSE n
                          /\ Cardinality(S1) = IF x \in S1 THEN n + 1 ELSE n
<1>1. /\ Cardinality(S \ {x}) \in Nat
      /\ x \in S => Cardinality(S) = Cardinality(S \ {x}) + 1
      /\ x \notin S => Cardinality(S) = Cardinality(S \ {x})
  BY SizeWithout
<1>2. /\ x \in S1 => Cardinality(S1) = Cardinality(S1 \ {x}) + 1
      /\ x \notin S1 => Cardinality(S1) = Cardinality(S1 \ {x})
  BY SizeWithout
<1> QED
  BY <1>1, <1>2, SMT

LEMMA TypesStay ==
    ASSUME TypeOK, load' = load, current' = current, tasks' \in [Tasks -> Task], mu' \in Tasks \cup {None},
           NEW f, watches' = [g \in Globs |-> f[g]], \A g \in Globs : WatchOK(g)',
           registered' \subseteq [id : WatcherID, glob : Globs],
           refusals' \in Nat, refusals' <= load.refusals
    PROVE  TypeOK'
<1>1. /\ Ids' = Ids /\ WatchedFiles' = WatchedFiles /\ WatcherID' = WatcherID /\ Task' = Task
  BY DEF Ids, WatchedFiles, WatcherID, Task
<1>2. refusals' \in 0 .. load'.refusals
  BY Types, SMT
<1>3. watches' \in [Globs -> [count : Nat, id : WatcherID \cup {None}]]
  BY <1>1 DEF WatchOK
<1>4. \A g \in Globs : watches'[g].count = 0 <=> watches'[g].id = None
  BY DEF WatchOK
<1> QED
  BY <1>1, <1>2, <1>3, <1>4 DEF TypeOK

(* The new globs of an owner are counted; the old ones still are.          *)
LEMMA StepAdd ==
    ASSUME IInv, load' = load, NEW t \in Tasks, NEW o \in Owners, updateWatch(t, o), o \in tasks[t].todo
    PROVE  IInv'
<1>1. /\ TypeOK /\ mu = t /\ mu' = t /\ tasks[t].owner = o /\ current' = current
      /\ AddWatches(t, o) /\ tasks' = [tasks EXCEPT ![t].todo = @ \ {o}]
  BY DEF updateWatch, IInv
<1>2. PICK T, T1, w : T = tasks[t] /\ T1 = [T EXCEPT !.todo = @ \ {o}] /\ w = T.new[o]
  OBVIOUS
<1>3. T \in Task /\ T.owner = o /\ o \in T.todo
  BY <1>1, <1>2 DEF TypeOK
<1>4. /\ T1 \in Task /\ T1.old = T.old /\ T1.new = T.new /\ T1.todo = T.todo \ {o} /\ T1.owner = o
  BY <1>2, <1>3 DEF Task
<1>5. /\ tasks' \in [Tasks -> Task] /\ tasks'[t] = T1 /\ \A u \in Tasks : u # t => tasks'[u] = tasks[u]
  BY <1>1, <1>2, <1>4 DEF TypeOK
<1>6. \A g \in Globs : /\ Counted(o, w, g) /\ WatchOK(g)' /\ watches[g].count \in Nat
                       /\ watches'[g].count \in Nat
  <2>1. \A g \in Globs : Counted(o, w, g) /\ WatchOK(g)'
    BY <1>1, <1>2, Adding
  <2> QED
    BY <1>1, <2>1 DEF TypeOK, WatchOK
<1>7. Agree' /\ TypeOK'
  <2>1. PICK f : watches' = [g \in Globs |-> f[g]]
    <3>1. watches' = [g \in Globs |-> watches'[g]]
      BY <1>1, SMT DEF AddWatches
    <3>2. PICK f : f = watches'
      OBVIOUS
    <3> QED
      BY <3>1, <3>2
  <2> QED
    BY <1>1, <1>5, <1>6, <2>1, AddingAgrees, TypesStay
<1>8. SameLists /\ WatchedFiles' = WatchedFiles
  BY <1>1, <1>2, <1>4, <1>5 DEF SameLists, WatchedFiles, Ids
<1>9. IdsTell'
  BY <1>8, IdsTellSame
<1>10. Live(o, w)
  BY <1>2 DEF Live
<1>11. ASSUME NEW g \in Globs, Listed(g) PROVE watches[g].id.id # 0 /\ watches'[g].id = watches[g].id
  <2>1. NameOK(g) /\ watches[g].count # 0
    BY <1>1, <1>11, ListedName DEF IInv
  <2>2. watches[g].id.id # 0
    BY <1>1, <2>1 DEF NameOK
  <2> QED
    BY <1>6, <2>1, <2>2 DEF Counted
<1>12. ASSUME NEW g \in Globs, Listed(g)', ~Listed(g)
       PROVE  /\ w \in WatchedFiles /\ g \in w.globs /\ watches'[g].id = globId(o, w, g)
              /\ watches'[g].count = 1
  <2>1. watches[g].count = 0
    BY <1>6, <1>12, SMT DEF Listed
  <2>2. watches'[g] # watches[g]
    BY <1>12 DEF Listed
  <2>3. 0 + 1 = 1
    BY SMT
  <2> QED
    BY <1>6, <2>1, <2>2, <2>3 DEF Counted
<1>13. ASSUME NEW g \in Globs, Listed(g)' PROVE NameOK(g)'
  <2>1. CASE Listed(g)
    BY <1>8, <1>11, <2>1, NameStays
  <2>2. CASE ~Listed(g)
    <3>1. PICK x : x = watches'[g].id
      OBVIOUS
    <3>2. w \in WatchedFiles /\ g \in w.globs /\ x = globId(o, w, g) /\ watches'[g].count = 1
      BY <1>12, <1>13, <2>2, <3>1
    <3>3. x.owner = o /\ x.id = w.id /\ w # None
      BY <1>1, <3>2, NameType, Types
    <3>4. CASE x.id # 0
      <4>1. ASSUME NEW v \in WatchedFiles, Live(o, v)', v.id = x.id PROVE g \in v.globs /\ x = globId(o, v, g)
        <5>1. Live(o, v)
          BY <1>1, <1>8, <4>1, LiveBefore
        <5>2. v.globs = w.globs
          BY <1>10, <3>2, <3>3, <3>4, <4>1, <5>1 DEF IInv, IdsTell
        <5> QED
          BY <3>2, <3>3, <4>1, <5>2 DEF globId
      <4> QED
        BY <1>8, <3>1, <3>3, <3>4, <4>1 DEF NameOK
    <3>5. CASE x.id = 0
      <4>1. /\ mu' # None /\ tasks'[mu'].owner = o /\ o \notin tasks'[mu'].todo
            /\ tasks'[mu'].new[o] = w
        BY <1>1, <1>2, <1>4, <1>5, Types
      <4> QED
        BY <3>1, <3>2, <3>3, <3>5, <4>1 DEF NameOK
    <3> QED
      BY <3>4, <3>5
  <2> QED
    BY <2>1, <2>2
<1>14. NamesDiffer'
  <2>1. ASSUME NEW g \in Globs, NEW h \in Globs, Listed(g)', ~Listed(g), Listed(h), watches'[g].id = watches'[h].id
        PROVE  g = h
    <3>1. w \in WatchedFiles /\ g \in w.globs /\ watches'[g].id = globId(o, w, g)
      BY <1>12, <2>1
    <3>2. watches[h].id = globId(o, w, g) /\ watches[h].id.id # 0
      BY <1>11, <2>1, <3>1
    <3>3. watches[h].id.owner = o /\ watches[h].id.id = w.id
      <4>1. globId(o, w, g).owner = o /\ globId(o, w, g).id = w.id
        BY <1>1, <3>1, NameType
      <4> QED
        BY <3>2, <4>1
    <3>4. NameOK(h)
      BY <2>1 DEF IInv
    <3>5. h \in w.globs /\ watches[h].id = globId(o, w, h)
      BY <1>10, <3>1, <3>2, <3>3, <3>4 DEF NameOK
    <3> QED
      BY <3>1, <3>2, <3>5, NameTells
  <2>2. ASSUME NEW g \in Globs, NEW h \in Globs, Listed(g)', Listed(h)', watches'[g].id = watches'[h].id
        PROVE  g = h
    <3>1. CASE Listed(g) /\ Listed(h)
      BY <1>11, <2>2, <3>1 DEF IInv, NamesDiffer
    <3>2. CASE ~Listed(g) /\ ~Listed(h)
      <4>1. w \in WatchedFiles /\ g \in w.globs /\ watches'[g].id = globId(o, w, g)
        BY <1>12, <2>2, <3>2
      <4>2. h \in w.globs /\ watches'[h].id = globId(o, w, h)
        BY <1>12, <2>2, <3>2
      <4>3. globId(o, w, g) = globId(o, w, h)
        BY <2>2, <4>1, <4>2
      <4> QED
        BY <4>1, <4>2, <4>3, NameTells
    <3> QED
      BY <2>1, <2>2, <3>1, <3>2
  <2> QED
    BY <2>2 DEF NamesDiffer
<1>15. ASSUME NEW u \in Tasks PROVE TaskOK(u)'
  <2>1. TaskOK(u)
    BY DEF IInv
  <2>2. CASE u = t
    <3>1. tasks'[u] = T1 /\ tasks[u] = T /\ mu' = u /\ o # None
      BY <1>1, <1>2, <1>5, <2>2, Types
    <3>2. \A q \in Owners : q \in T1.todo \/ q = T1.owner => q \in T.todo \/ q = T.owner
      BY <1>3, <1>4
    <3> QED
      BY <1>4, <2>1, <3>1, <3>2 DEF TaskOK
  <2>3. CASE u # t
    BY <1>1, <1>5, <2>1, <2>3 DEF TaskOK
  <2> QED
    BY <2>2, <2>3
<1>16. \A q \in AutoImports : current'[q] # None
  BY <1>1 DEF IInv
<1>17. ASSUME load.orderly PROVE InOrder'
  <2>1. InOrder /\ T # Free /\ T1 # Free
    BY <1>3, <1>4, <1>17, FreeTask, Types DEF IInv
  <2>2. ~Quiet'
    BY <1>5, <2>1 DEF Quiet
  <2>3. \A u \in Tasks : tasks'[u] # Free => u = t
    BY <1>2, <1>5, <2>1 DEF InOrder
  <2>4. current = T.new /\ \A g \in Globs : watches[g].count = Cardinality(Users(View(T), g)) + Extra(T, g)
    BY <1>2, <2>1 DEF InOrder
  <2>5. ASSUME NEW g \in Globs
        PROVE  watches'[g].count = Cardinality(Users(View(T1), g)) + Extra(T1, g)
    <3>1. PICK U, U1 : U = Users(View(T), g) /\ U1 = Users(View(T1), g)
      OBVIOUS
    <3>2. IsFiniteSet(U) /\ IsFiniteSet(U1)
      <4>1. U \in SUBSET Owners /\ U1 \in SUBSET Owners
        BY <3>1 DEF Users
      <4> QED
        BY <4>1, WatchesAssumption, FS_Subset
    <3>3. o \in U <=> g \in Globber(T.old[o])
      BY <1>3, <3>1 DEF Users, View
    <3>4. o \in U1 <=> g \in Globber(w)
      BY <1>2, <1>4, <3>1 DEF Users, View
    <3>5. U \ {o} = U1 \ {o}
      BY <1>4, <3>1 DEF Users, View
    <3>6. Extra(T, g) = 0 /\ Extra(T1, g) = IF g \in Globber(T.old[o]) THEN 1 ELSE 0
      <4>1. Extra(T, g) = 0
        BY <1>3 DEF Extra
      <4>2. T1.owner # None /\ T1.owner \notin T1.todo /\ T1.old[T1.owner] = T.old[o]
        BY <1>1, <1>4, Types
      <4> QED
        BY <4>1, <4>2 DEF Extra
    <3>7. PICK n \in Nat : /\ Cardinality(U) = IF o \in U THEN n + 1 ELSE n
                           /\ Cardinality(U1) = IF o \in U1 THEN n + 1 ELSE n
      BY <3>2, <3>5, SizesDiffer, SMT
    <3>8. watches'[g].count = IF g \in Globber(w) THEN watches[g].count + 1 ELSE watches[g].count
      BY <1>6 DEF Counted
    <3> QED
      BY <2>4, <3>1, <3>3, <3>4, <3>6, <3>7, <3>8, SMT
  <2> QED
    BY <1>1, <1>4, <1>5, <2>2, <2>3, <2>4, <2>5 DEF InOrder
<1> QED
  BY <1>7, <1>9, <1>13, <1>14, <1>15, <1>16, <1>17 DEF IInv

(* The old globs of the owner are no longer counted, and its task goes on  *)
(* to the next owner, or ends.                                             *)
LEMMA StepRemove ==
    ASSUME IInv, load' = load, NEW t \in Tasks, NEW o \in Owners, updateWatch(t, o), o \notin tasks[t].todo
    PROVE  IInv'
<1>1. /\ TypeOK /\ mu = t /\ mu' = None /\ tasks[t].owner = o /\ current' = current
      /\ RemoveWatches(t, o)
      /\ tasks' = [tasks EXCEPT ![t] = IF @.todo = {} THEN Free ELSE [@ EXCEPT !.owner = None]]
  BY DEF updateWatch, IInv
<1>2. PICK T, T1, v : /\ T = tasks[t] /\ T1 = (IF T.todo = {} THEN Free ELSE [T EXCEPT !.owner = None])
                      /\ v = T.old[o]
  OBVIOUS
<1>3. T \in Task /\ T.owner = o /\ o \notin T.todo /\ o # None
  BY <1>1, <1>2, Types DEF TypeOK
<1>4. T1.todo = T.todo /\ T1.owner = None /\ (T.todo # {} => T1.old = T.old /\ T1.new = T.new)
  BY <1>2, <1>3, FreeTask DEF Task
<1>5. T1 \in Task
  <2>1. Free \in Task /\ [T EXCEPT !.owner = None] \in Task
    BY <1>3 DEF Free, Task
  <2> QED
    BY <1>2, <2>1
<1>6. /\ tasks' \in [Tasks -> Task] /\ tasks'[t] = T1 /\ \A u \in Tasks : u # t => tasks'[u] = tasks[u]
  BY <1>1, <1>2, <1>5 DEF TypeOK
<1>7. \A g \in Globs : /\ Uncounted(v, g) /\ WatchOK(g)' /\ watches[g].count \in Nat
                       /\ watches'[g].count \in Nat
  <2>1. \A g \in Globs : Uncounted(v, g) /\ WatchOK(g)'
    BY <1>1, <1>2, Removing
  <2> QED
    BY <1>1, <2>1 DEF TypeOK, WatchOK
<1>8. Agree' /\ TypeOK'
  <2>1. PICK f : watches' = [g \in Globs |-> f[g]]
    <3>1. watches' = [g \in Globs |-> watches'[g]]
      BY <1>1, SMT DEF RemoveWatches
    <3>2. PICK f : f = watches'
      OBVIOUS
    <3> QED
      BY <3>1, <3>2
  <2> QED
    BY <1>1, <1>6, <1>7, <2>1, RemovingAgrees, TypesStay
<1>9. SameLists
  BY <1>1, <1>2, <1>4, <1>6 DEF SameLists
<1>10. IdsTell'
  BY <1>9, IdsTellSame
<1>11. ASSUME NEW g \in Globs, Listed(g)'
       PROVE  /\ Listed(g) /\ watches'[g].id = watches[g].id
              /\ ~(g \in Globber(v) /\ watches[g].count = 1)
  <2>1. CASE g \notin Globber(v) \/ watches[g].count = 0
    <3>1. watches'[g] = watches[g]
      BY <1>7, <2>1 DEF Uncounted
    <3>2. watches[g].count > 0 /\ ~(0 > 0)
      BY <1>11, <3>1, SMT DEF Listed
    <3> QED
      BY <2>1, <3>1, <3>2 DEF Listed
  <2>2. CASE g \in Globber(v) /\ watches[g].count # 0
    <3>1. /\ watches[g].count = watches'[g].count + 1 /\ watches'[g].count > 0
          /\ watches[g].count # 1 => watches'[g].id = watches[g].id
      BY <1>7, <1>11, <2>2 DEF Uncounted, Listed
    <3>2. watches[g].count # 1 /\ watches[g].count > 0
      BY <1>7, <3>1, SMT
    <3> QED
      BY <3>1, <3>2 DEF Listed
  <2> QED
    BY <2>1, <2>2
<1>12. NamesDiffer'
  BY <1>11 DEF IInv, NamesDiffer
<1>13. ASSUME NEW g \in Globs, Listed(g)' PROVE NameOK(g)'
  <2>1. Listed(g) /\ watches'[g].id = watches[g].id /\ NameOK(g)
    BY <1>11, <1>13 DEF IInv
  <2>2. watches[g].id.id # 0
    <3>1. ASSUME watches[g].id.id = 0 PROVE FALSE
      <4>1. watches[g].id.owner = o /\ T.new[o] # None /\ T.new[o].id = 0 /\ g \in T.new[o].globs
            /\ watches[g].count = 1
        BY <1>1, <1>2, <2>1, <3>1 DEF NameOK
      <4>2. v # None /\ v.globs = T.new[o].globs
        BY <1>2, <1>3, <4>1 DEF IInv, TaskOK
      <4> QED
        BY <1>11, <1>13, <4>1, <4>2 DEF Globber
    <3> QED
      BY <3>1
  <2> QED
    BY <1>9, <2>1, <2>2, NameStays
<1>14. ASSUME NEW u \in Tasks PROVE TaskOK(u)'
  <2>1. TaskOK(u) /\ mu' # u
    BY <1>1, Types DEF IInv
  <2>2. CASE u = t
    <3>1. tasks'[u] = T1 /\ tasks[u] = T
      BY <1>2, <1>6, <2>2
    <3>2. \A q \in Owners : q \in T1.todo \/ q = T1.owner => q \in T.todo /\ T1.old = T.old /\ T1.new = T.new
      BY <1>1, <1>4, Types
    <3> QED
      BY <1>4, <2>1, <3>1, <3>2 DEF TaskOK
  <2>3. CASE u # t
    BY <1>1, <1>6, <2>1, <2>3 DEF TaskOK
  <2> QED
    BY <2>2, <2>3
<1>15. \A q \in AutoImports : current'[q] # None
  BY <1>1 DEF IInv
<1>16. ASSUME load.orderly PROVE InOrder'
  <2>1. InOrder /\ T # Free
    BY <1>3, <1>16, FreeTask DEF IInv
  <2>2. \A u \in Tasks : u # t => tasks'[u] = Free
    BY <1>2, <1>6, <2>1 DEF InOrder
  <2>3. current = T.new /\ \A g \in Globs : watches[g].count = Cardinality(Users(View(T), g)) + Extra(T, g)
    BY <1>2, <2>1 DEF InOrder
  <2>4. ASSUME NEW g \in Globs PROVE watches'[g].count = Cardinality(Users(View(T), g))
    <3>1. Extra(T, g) = IF g \in Globber(v) THEN 1 ELSE 0
      BY <1>2, <1>3 DEF Extra
    <3>2. Cardinality(Users(View(T), g)) \in Nat
      <4>1. Users(View(T), g) \in SUBSET Owners
        BY DEF Users
      <4> QED
        BY <4>1, WatchesAssumption, FS_Subset, FS_CardinalityType
    <3>3. CASE g \in Globber(v)
      <4>1. watches[g].count = Cardinality(Users(View(T), g)) + 1
        BY <2>3, <3>1, <3>3
      <4>2. watches[g].count # 0
        BY <3>2, <4>1, SMT
      <4>3. watches[g].count = watches'[g].count + 1
        BY <1>7, <3>3, <4>2 DEF Uncounted
      <4> QED
        BY <1>7, <3>2, <4>1, <4>3, SMT
    <3>4. CASE g \notin Globber(v)
      <4>1. watches[g].count = Cardinality(Users(View(T), g)) + 0
        BY <2>3, <3>1, <3>4
      <4>2. watches'[g] = watches[g]
        BY <1>7, <3>4 DEF Uncounted
      <4> QED
        BY <3>2, <4>1, <4>2, SMT
    <3> QED
      BY <3>3, <3>4
  <2>5. CASE T.todo = {}
    <3>1. \A u \in Tasks : tasks'[u] = Free
      BY <1>2, <1>6, <2>2, <2>5
    <3>2. \A g \in Globs : Users(View(T), g) = Users(current, g)
      BY <2>3, <2>5 DEF Users, View
    <3> QED
      BY <1>1, <2>4, <3>1, <3>2 DEF InOrder, Users
  <2>6. CASE T.todo # {}
    <3>1. T1 # Free /\ T1.new = T.new
      BY <1>4, <2>6, FreeTask
    <3>2. ~Quiet' /\ \A u \in Tasks : tasks'[u] # Free => u = t
      BY <1>6, <2>2, <3>1 DEF Quiet
    <3>3. View(T1) = View(T) /\ \A g : Extra(T1, g) = 0
      BY <1>4, <2>6 DEF View, Extra
    <3>4. ASSUME NEW g \in Globs PROVE watches'[g].count = Cardinality(Users(View(T1), g)) + Extra(T1, g)
      BY <1>7, <2>4, <3>3, SMT
    <3> QED
      BY <1>1, <1>6, <2>3, <3>1, <3>2, <3>4 DEF InOrder
  <2> QED
    BY <2>5, <2>6
<1> QED
  BY <1>8, <1>10, <1>12, <1>13, <1>14, <1>15, <1>16 DEF IInv

----------------------------------------------------------------------------
(* The theorems *)

LEMMA InitIInv == Init => IInv
<1> SUFFICES ASSUME Init PROVE IInv
  OBVIOUS
<1>1. load \in Workload /\ load \in Workloads /\ load.ids > 0
  BY WatchesAssumption DEF Init
<1>2. load.ids \in Nat /\ load.refusals \in Nat
  BY <1>1 DEF Workload
<1>3. 1 \in Ids /\ refusals \in 0 .. load.refusals /\ 0 \in Nat /\ ~(0 > 0)
  BY <1>1, <1>2, SMT DEF Ids, Init
<1>4. [id |-> 1, globs |-> {}] \in WatchedFiles /\ \A w \in WatchedFiles : w.id \in Ids
  BY <1>3 DEF WatchedFiles
<1>5. Free \in Task
  BY DEF Free, Task
<1>6. \A g \in Globs : watches[g] = [count |-> 0, id |-> None]
  BY DEF Init
<1>7. \A g \in Globs : watches[g].count = 0 /\ watches[g].id = None
  BY <1>6, SMT
<1>8. TypeOK
  <2>1. current \in [Owners -> WatchedFiles \cup {None}]
    BY <1>4 DEF Init
  <2>2. tasks \in [Tasks -> Task]
    BY <1>5 DEF Init
  <2>3. [count |-> 0, id |-> None] \in [count : Nat, id : WatcherID \cup {None}]
    BY <1>3
  <2>4. watches \in [Globs -> [count : Nat, id : WatcherID \cup {None}]]
    BY <2>3 DEF Init
  <2> QED
    BY <1>1, <1>3, <1>7, <2>1, <2>2, <2>4 DEF Init, TypeOK
<1>9. \A t \in Tasks : tasks[t] = Free
  BY DEF Init
<1>10. \A g \in Globs : ~Listed(g)
  BY <1>3, <1>7 DEF Listed
<1>11. IdsTell
  <2>1. \A o \in Owners : Free.old[o] = None /\ Free.new[o] = None
    BY DEF Free
  <2>2. \A o \in Owners : \A w \in WatchedFiles : Live(o, w) => w = current[o]
    BY <1>8, <1>9, <2>1, Types DEF Live
  <2> QED
    BY <2>2 DEF IdsTell
<1>12. Agree
  <2>1. Differ = {}
    BY <1>10, NamedElement DEF Differ, Init
  <2>2. IsFiniteSet(Differ) /\ Cardinality(Differ) = 0
    BY <2>1, FS_EmptySet
  <2>3. 0 <= refusals
    BY SMT DEF Init
  <2> QED
    BY <2>2, <2>3 DEF Agree
<1>13. \A t \in Tasks : TaskOK(t)
  <2>1. mu = None
    BY DEF Init
  <2> QED
    BY <1>8, <1>9, <2>1, FreeTask, Types DEF TaskOK
<1>14. \A o \in AutoImports : current[o] # None
  BY <1>4, <1>8, WatchesAssumption, Types DEF Init
<1>15. InOrder
  <2>1. \A o \in Owners : Globber(current[o]) = {}
    BY DEF Globber, Init
  <2>2. \A g \in Globs : Users(current, g) = {}
    BY <2>1 DEF Users
  <2>3. \A g \in Globs : watches[g].count = Cardinality(Users(current, g))
    BY <1>7, <2>2, FS_EmptySet
  <2> QED
    BY <1>9, <2>3 DEF InOrder
<1> QED
  BY <1>8, <1>10, <1>11, <1>12, <1>13, <1>14, <1>15 DEF IInv, NamesDiffer

LEMMA NextIInv == IInv /\ [Next]_vars => IInv'
<1> SUFFICES ASSUME IInv, [Next]_vars PROVE IInv'
  OBVIOUS
<1>1. ASSUME NEW t \in Tasks, updateSnapshot(t), load' = load PROVE IInv'
  BY <1>1, StepUpdateSnapshot
<1>2. ASSUME adoptSnapshotChange, load' = load PROVE IInv'
  BY <1>2, StepAdopt
<1>3. ASSUME NEW t \in Tasks, NEW o \in Owners, Lock(t, o), load' = load PROVE IInv'
  BY <1>3, StepLock
<1>4. ASSUME NEW t \in Tasks, NEW o \in Owners, updateWatch(t, o), load' = load PROVE IInv'
  BY <1>4, StepAdd, StepRemove
<1>5. CASE UNCHANGED vars
  <2>1. TypeOK'
    BY <1>5 DEF vars, IInv, TypeOK, WatchedFiles, WatcherID, Ids, Task
  <2>2. IdsTell'
    <3>1. SameLists
      BY <1>5 DEF vars, SameLists
    <3> QED
      BY <3>1, IdsTellSame
  <2>3. NamesDiffer' /\ Agree'
    BY <1>5 DEF vars, IInv, NamesDiffer, Agree, Differ, Named, Listed
  <2>4. \A g \in Globs : Listed(g)' => NameOK(g)'
    BY <1>5 DEF vars, IInv, Listed, NameOK, Live, WatchedFiles, Ids
  <2>5. \A t \in Tasks : TaskOK(t)'
    BY <1>5 DEF vars, IInv, TaskOK
  <2>6. load'.orderly => InOrder'
    BY <1>5 DEF vars, IInv, InOrder, Quiet
  <2>7. \A o \in AutoImports : current'[o] # None
    BY <1>5 DEF vars, IInv
  <2> QED
    BY <2>1, <2>2, <2>3, <2>4, <2>5, <2>6, <2>7 DEF IInv
<1> QED
  BY <1>1, <1>2, <1>3, <1>4, <1>5 DEF Next

(* The invariant behind the theorems: names of watchers tell globs apart,  *)
(* the client and session.watches differ by refused requests only, and the *)
(* counts are those of the owners already compared and still to compare.   *)
THEOREM AlwaysIInv == Spec => []IInv
BY InitIInv, NextIInv, PTL DEF Spec

(* Once the tasks of updateWatches have run, one after the other, the      *)
(* counts in session.watches are the numbers of WatchedFiles of the        *)
(* session's snapshot that use each glob: nothing that updateWatch adds or *)
(* removes is lost or done twice, even where Clone leaves an id at zero.   *)
THEOREM CountsMatchSnapshot == Spec => []WatchesMatch
<1>1. IInv => WatchesMatch
  BY DEF IInv, InOrder, WatchesMatch, Users
<1> QED
  BY <1>1, AlwaysIInv, PTL

(* Whatever the order of the tasks, and whatever the client refuses,       *)
(* updateWatch leaves the client's registrations and session.watches apart *)
(* by no more than the refused requests: unregistering goes by the id, and *)
(* no two globs are ever watched under the same one.                       *)
THEOREM ClientHasWhatIsNamed == Spec => []ClientAgrees
<1>1. IInv => ClientAgrees
  BY DEF IInv, Agree, Differ, Named, Listed, ClientAgrees
<1> QED
  BY <1>1, AlwaysIInv, PTL

(* If the tasks run one after the other, a glob that the old and the new   *)
(* WatchedFiles of an owner share stays registered while updateWatch       *)
(* replaces the one by the other.                                          *)
THEOREM NoGlobIsLetGo == Spec => []Unbroken
<1>1. ASSUME IInv, load.orderly, NEW t \in Tasks, NEW o \in Owners,
             NEW g \in Globber(tasks[t].old[o]) \cap Globber(tasks[t].new[o])
      PROVE  \E r \in registered : r.glob = g
  <2>1. PICK T : T = tasks[t]
    OBVIOUS
  <2>2. TypeOK /\ InOrder /\ Agree /\ T \in Task
    BY <1>1, <2>1 DEF IInv, TypeOK
  <2>3. T.old[o] \in WatchedFiles \cup {None}
    BY <2>2 DEF Task
  <2>4. g \in Globs /\ T.old[o] # None
    BY <2>1, <2>2, <2>3, GlobberType
  <2>5. T # Free
    <3>1. Free.old[o] = None
      BY DEF Free
    <3> QED
      BY <2>4, <3>1
  <2>6. watches[g].count = Cardinality(Users(View(T), g)) + Extra(T, g)
    BY <2>1, <2>2, <2>4, <2>5 DEF InOrder
  <2>7. o \in Users(View(T), g)
    BY <2>1 DEF Users, View
  <2>8. Cardinality(Users(View(T), g)) \in Nat \ {0}
    <3>1. Users(View(T), g) \in SUBSET Owners
      BY DEF Users
    <3>2. IsFiniteSet(Users(View(T), g))
      BY <3>1, WatchesAssumption, FS_Subset
    <3> QED
      BY <2>7, <3>2, FS_CardinalityType, FS_EmptySet
  <2>9. Extra(T, g) \in {0, 1}
    BY DEF Extra
  <2>10. Listed(g)
    BY <2>6, <2>8, <2>9, SMT DEF Listed
  <2>11. PICK x : x = [id |-> watches[g].id, glob |-> g]
    OBVIOUS
  <2>12. x \in Named /\ x.glob = g
    BY <2>4, <2>10, <2>11, NamedElement
  <2>13. load.refusals = 0 /\ refusals \in 0 .. load.refusals
    BY <1>1, <2>2, Types DEF TypeOK
  <2>14. IsFiniteSet(Differ) /\ Cardinality(Differ) \in Nat /\ Cardinality(Differ) <= refusals
    BY <2>2, FS_CardinalityType DEF Agree
  <2>15. Cardinality(Differ) = 0
    BY <2>13, <2>14, SMT
  <2>16. Differ = {}
    BY <2>14, <2>15, FS_EmptySet
  <2>17. x \in registered
    BY <2>12, <2>16 DEF Differ
  <2> QED
    BY <2>12, <2>17
<1>2. IInv => Unbroken
  BY <1>1 DEF Unbroken
<1> QED
  BY <1>2, AlwaysIInv, PTL
============================================================================
