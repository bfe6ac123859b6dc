---------------------- MODULE SnapshotLifecycleProofs ----------------------
(***************************************************************************)
(* The theorems about SnapshotLifecycle, for every number of requests,     *)
(* tasks and snapshots and every workload.  First the references: every    *)
(* step keeps the inductive invariant, so counts are exact, nothing in use *)
(* is disposed and no panic is reachable.  Then what is in the snapshots:  *)
(* the session's never falls behind what was flushed, and a request gets   *)
(* what it flushed.                                                        *)
(***************************************************************************)
EXTENDS SnapshotLifecycle, FiniteSetTheorems, TLAPS

(* Most steps are first-order reasoning about sets, functions and records, *)
(* which is Zenon's; those with arithmetic in them cite SMT.               *)
USE Zenon

(* What a goroutine has at hand at each of its steps.                      *)
JobOK(j) ==
    /\ j.drops # <<>> => j.pc \in {"installed", "dropping"}
    /\ \A k \in 2 .. Len(j.drops) : ~j.drops[k].dispose
    /\ j.pc \in {"installed", "using", "warm", "cloning", "cloned", "adopt"} => j.base \in Ids
    /\ j.pc \in {"cloned", "adopt"} => j.new \in Ids /\ j.new # j.base
    /\ j.kind \in {"options", "api", "orphan"} => j.kind \in Kinds
    /\ j.pc \in {"flushed", "installed"} => j.kind # "global"
    /\ j.pc = "flushed" /\ j.prefs # None => j.changed /\ j.kind # "options"

(* A goroutine holds snapshotMu exactly while it is done with               *)
(* installing a snapshot and has not unlocked it, and                      *)
(* snapshotUpdateMu from its flush until then; until then the snapshot it  *)
(* works with stays the session's.                                         *)
Locked(p) ==
    /\ mu = p <=> job[p].pc = "installed"
    /\ updateMu = p <=> job[p].pc \in {"flushed", "installed"} /\ job[p].kind # "options"
    /\ job[p].pc = "installed" => job[p].base = current

(* Whoever refers to a snapshot finds it there, its count is the number of *)
(* those who do (no less, where a reference is lost on the way), and a     *)
(* snapshot whose count is 0 has exactly one goroutine that is about to    *)
(* dispose it.                                                             *)
Alive(s) ==
    /\ Holders(s) # {} => snapshots[s] # None
    /\ snapshots[s] # None =>
          /\ IsFiniteSet(Holders(s))
          /\ Cardinality(Holders(s)) <= snapshots[s].refs
          /\ "orphan" \notin Kinds => Cardinality(Holders(s)) = snapshots[s].refs
          /\ snapshots[s].refs = 0 => \E p \in Procs : Disposes(p, s)
    /\ \A p \in Procs : Disposes(p, s) =>
          /\ snapshots[s] # None /\ snapshots[s].refs = 0
          /\ \A q \in Procs : Disposes(q, s) => q = p

(* A program is counted once for each snapshot that has it.                *)
Users(i) == {s \in Ids : snapshots[s] # None /\ snapshots[s].program = i}
Counted(i) == IsFiniteSet(Users(i)) /\ programs[i] = Cardinality(Users(i))

(* The inductive invariant.                                                *)
IInv ==
    /\ TypeOK /\ ~panicked
    /\ \A p \in Procs : JobOK(job[p]) /\ Locked(p)
    /\ \A s \in Ids : Alive(s) /\ Counted(s)

----------------------------------------------------------------------------
(* Releases are counted from the last, so that one that is done takes no   *)
(* other with it.                                                          *)
LEMMA DroppedTail ==
    ASSUME NEW d \in Seq(Drops), d # <<>>, NEW s
    PROVE  /\ Tail(d) \in Seq(Drops)
           /\ Dropped(Tail(d), s) = Dropped(d, s) \ {Len(d)}
           /\ Len(d) \in Dropped(d, s) <=> Head(d) = Drop(s)
<1>1. Len(d) \in Nat \ {0} /\ Tail(d) \in Seq(Drops) /\ Len(Tail(d)) = Len(d) - 1
  BY SMT
<1>2. \A i \in 1 .. Len(d) - 1 : Tail(d)[i] = d[i + 1]
  BY <1>1, SMT
<1>3. \A k \in 1 .. Len(d) - 1 : Tail(d)[Len(d) - k] = d[Len(d) + 1 - k]
  <2> TAKE k \in 1 .. Len(d) - 1
  <2>1. Len(d) - k \in 1 .. Len(d) - 1 /\ (Len(d) - k) + 1 = Len(d) + 1 - k
    BY <1>1, SMT
  <2> QED
    BY <2>1, <1>2
<1>4. Dropped(Tail(d), s) = {k \in 1 .. Len(d) - 1 : d[Len(d) + 1 - k] = Drop(s)}
  BY <1>1, <1>3, SMT DEF Dropped
<1>5. Dropped(Tail(d), s) = Dropped(d, s) \ {Len(d)}
  BY <1>1, <1>4, SMT DEF Dropped
<1>6. d[Len(d) + 1 - Len(d)] = Head(d)
  BY <1>1, SMT
<1>7. Len(d) \in Dropped(d, s) <=> Head(d) = Drop(s)
  BY <1>1, <1>6, SMT DEF Dropped
<1> QED
  BY <1>1, <1>5, <1>7

(* The head may be replaced by the mark that its snapshot is to be         *)
(* disposed, which is no reference.                                        *)
LEMMA DroppedMark ==
    ASSUME NEW d \in Seq(Drops), d # <<>>, NEW m \in Drops, m.dispose, NEW s
    PROVE  LET e == <<m>> \o Tail(d)
           IN  /\ e \in Seq(Drops) /\ Len(e) = Len(d) /\ e # <<>> /\ Head(e) = m
               /\ \A k \in 2 .. Len(d) : e[k] = d[k]
               /\ Dropped(e, s) = Dropped(d, s) \ {Len(d)}
<1> DEFINE e == <<m>> \o Tail(d)
<1>1. Len(d) \in Nat \ {0} /\ Tail(d) \in Seq(Drops) /\ Len(Tail(d)) = Len(d) - 1
  BY SMT
<1>2. \A i \in 1 .. Len(d) - 1 : Tail(d)[i] = d[i + 1]
  BY <1>1, SMT
<1>3. <<m>> \in Seq(Drops) /\ Len(<<m>>) = 1
  BY SMT
<1>4. e \in Seq(Drops) /\ Len(e) = Len(d)
  BY <1>1, <1>3, SMT
<1>5. \A k \in 1 .. Len(d) : e[k] = IF k <= 1 THEN m ELSE Tail(d)[k - 1]
  BY <1>1, <1>3, SMT
<1>6. \A k \in 2 .. Len(d) : e[k] = d[k]
  <2> TAKE k \in 2 .. Len(d)
  <2>1. k \in 1 .. Len(d) /\ ~(k <= 1) /\ k - 1 \in 1 .. Len(d) - 1 /\ (k - 1) + 1 = k
    BY <1>1, SMT
  <2> QED
    BY <2>1, <1>5, <1>2
<1>7. e[1] = m /\ e # <<>> /\ Head(e) = m
  <2>1. 1 \in 1 .. Len(d)
    BY <1>1, SMT
  <2>2. e[1] = m
    BY <2>1, <1>5, SMT
  <2>3. e # <<>>
    BY <1>1, <1>4
  <2> HIDE DEF e
  <2> QED
    BY <2>2, <2>3, <1>4, SMT
<1>8. Dropped(e, s) = Dropped(d, s) \ {Len(d)}
  <2> HIDE DEF e
  <2>1. Drop(s) # m
    BY SMT DEF Drop, Drops
  <2>2. ASSUME NEW k \in 1 .. Len(d), k # Len(d)
        PROVE  e[Len(e) + 1 - k] = d[Len(d) + 1 - k]
    <3>1. \A n \in Nat : \A x \in 1 .. n : x # n => n + 1 - x \in 2 .. n
      BY SMT
    <3>2. Len(d) + 1 - k \in 2 .. Len(d)
      BY <1>1, <2>2, <3>1
    <3> QED
      BY <3>2, <1>4, <1>6
  <2>3. e[Len(e) + 1 - Len(d)] # Drop(s)
    BY <1>1, <1>4, <1>7, <2>1, SMT
  <2> QED
    BY <2>2, <2>3, <1>4 DEF Dropped
<1> QED
  BY <1>4, <1>6, <1>7, <1>8

(* The lists of releases a goroutine starts with.                          *)
LEMMA DroppedOne ==
    ASSUME NEW a \in Ids, NEW s
    PROVE  Dropped(<<Drop(a)>>, s) = IF a = s THEN {1} ELSE {}
<1>1. \A x : Drop(x) = Drop(s) <=> x = s
  BY DEF Drop
<1> QED
  BY <1>1, SMT DEF Dropped

LEMMA DroppedTwo ==
    ASSUME NEW a \in Ids, NEW b \in Ids, NEW s
    PROVE  Dropped(<<Drop(a), Drop(b)>>, s) =
               (IF b = s THEN {1} ELSE {}) \cup (IF a = s THEN {2} ELSE {})
<1>1. \A x : Drop(x) = Drop(s) <=> x = s
  BY DEF Drop
<1> QED
  BY <1>1, SMT DEF Dropped

LEMMA DroppedNew ==
    ASSUME NEW a \in Ids, NEW b \in Ids, NEW s
    PROVE  /\ <<>> \in Seq(Drops) /\ Dropped(<<>>, s) = {}
           /\ <<Drop(a)>> \in Seq(Drops) /\ Len(<<Drop(a)>>) = 1
           /\ Dropped(<<Drop(a)>>, s) = (IF a = s THEN {1} ELSE {})
           /\ <<Drop(a), Drop(b)>> \in Seq(Drops) /\ Len(<<Drop(a), Drop(b)>>) = 2
           /\ Dropped(<<Drop(a), Drop(b)>>, s) =
                 (IF b = s THEN {1} ELSE {}) \cup (IF a = s THEN {2} ELSE {})
<1>1. Drop(a) \in Drops /\ Drop(b) \in Drops
  BY DEF Drop, Drops
<1>2. <<>> \in Seq(Drops) /\ Dropped(<<>>, s) = {}
  BY SMT DEF Dropped
<1>3. <<Drop(a)>> \in Seq(Drops) /\ Len(<<Drop(a)>>) = 1
  BY <1>1, SMT
<1>4. <<Drop(a), Drop(b)>> \in Seq(Drops) /\ Len(<<Drop(a), Drop(b)>>) = 2
  BY <1>1, SMT
<1> QED
  BY <1>2, <1>3, <1>4, DroppedOne, DroppedTwo, SMT


----------------------------------------------------------------------------
(* How the holders of a snapshot change with those of one goroutine.       *)
LEMMA HoldersElement ==
    ASSUME NEW s, NEW h
    PROVE  h \in Holders(s) <=> \/ h = <<None, 0>> /\ current = s
                                \/ \E p \in Procs : \E k \in JobHolds(job[p], s) : h = <<p, k>>
BY SMT DEF Holders

LEMMA NoHolders ==
    ASSUME NEW s, Holders(s) = {}
    PROVE  \A p \in Procs : JobHolds(job[p], s) = {}
<1>1. ASSUME NEW p \in Procs, NEW k \in JobHolds(job[p], s) PROVE FALSE
  <2>1. <<p, k>> \in Holders(s)
    BY HoldersElement
  <2> QED
    BY <2>1
<1> QED
  BY <1>1

LEMMA HoldersElementNext ==
    ASSUME NEW s, NEW h
    PROVE  h \in Holders(s)' <=> \/ h = <<None, 0>> /\ current' = s
                                 \/ \E p \in Procs : \E k \in JobHolds(job'[p], s) : h = <<p, k>>
BY SMT DEF Holders

SameFor(s, P) == \A q \in Procs \ P : JobHolds(job'[q], s) = JobHolds(job[q], s)
SameSession(s) == current' = s <=> current = s

LEMMA HoldersKeep ==
    ASSUME NEW s, SameSession(s), SameFor(s, {})
    PROVE  Holders(s)' = Holders(s)
BY HoldersElement, HoldersElementNext, SMT DEF SameFor, SameSession

LEMMA HoldersGain ==
    ASSUME NEW s, NEW p \in Procs, NEW k, SameSession(s), SameFor(s, {p}), IsFiniteSet(Holders(s)),
           k \notin JobHolds(job[p], s), JobHolds(job'[p], s) = JobHolds(job[p], s) \cup {k}
    PROVE  /\ IsFiniteSet(Holders(s))' /\ <<p, k>> \in Holders(s)'
           /\ Cardinality(Holders(s))' = Cardinality(Holders(s)) + 1
<1>1. Holders(s)' = Holders(s) \cup {<<p, k>>}
  BY HoldersElement, HoldersElementNext, SMT DEF SameFor, SameSession
<1>2. <<p, k>> \notin Holders(s)
  BY HoldersElement, LifecycleAssumption, SMT DEF Procs
<1> QED
  BY <1>1, <1>2, FS_AddElement

LEMMA HoldersLose ==
    ASSUME NEW s, NEW p \in Procs, NEW k, SameSession(s), SameFor(s, {p}), IsFiniteSet(Holders(s)),
           k \in JobHolds(job[p], s), JobHolds(job'[p], s) = JobHolds(job[p], s) \ {k}
    PROVE  /\ IsFiniteSet(Holders(s))' /\ <<p, k>> \in Holders(s)
           /\ Cardinality(Holders(s))' = Cardinality(Holders(s)) - 1
<1>1. Holders(s)' = Holders(s) \ {<<p, k>>}
  <2>1. ASSUME NEW h, h \in Holders(s)', h # <<p, k>>
        PROVE  h \in Holders(s)
    BY <2>1, HoldersElement, HoldersElementNext, SMT DEF SameFor, SameSession
  <2>2. ASSUME NEW h, h \in Holders(s), h # <<p, k>>
        PROVE  h \in Holders(s)'
    BY <2>2, HoldersElement, HoldersElementNext, SMT DEF SameFor, SameSession
  <2>3. <<p, k>> \notin Holders(s)'
    BY HoldersElementNext, LifecycleAssumption, SMT DEF Procs
  <2> QED
    BY <2>1, <2>2, <2>3
<1>2. <<p, k>> \in Holders(s)
  BY HoldersElement
<1> QED
  BY <1>1, <1>2, FS_RemoveElement


----------------------------------------------------------------------------
(* What the invariant says of a snapshot that somebody holds.              *)
LEMMA HoldersFinite ==
    ASSUME NEW s, Alive(s)
    PROVE  IsFiniteSet(Holders(s)) /\ Cardinality(Holders(s)) \in Nat
<1>1. IsFiniteSet(Holders(s))
  BY FS_EmptySet DEF Alive
<1> QED
  BY <1>1, FS_CardinalityType

LEMMA HeldAlive ==
    ASSUME IInv, NEW s \in Ids, NEW h \in Holders(s)
    PROVE  /\ snapshots[s] # None /\ snapshots[s] \in Snapshot /\ snapshots[s].refs \in Nat \ {0}
           /\ \A p \in Procs : ~Disposes(p, s)
<1>1. Alive(s) /\ TypeOK
  BY DEF IInv
<1>2. snapshots[s] # None /\ snapshots[s] \in Snapshot
  BY <1>1 DEF Alive, TypeOK
<1>3. snapshots[s].refs \in Nat /\ Cardinality(Holders(s)) <= snapshots[s].refs
  BY <1>1, <1>2 DEF Alive, Snapshot
<1>4. Cardinality(Holders(s)) # 0 /\ Cardinality(Holders(s)) \in Nat
  BY <1>1, HoldersFinite, FS_EmptySet
<1>5. snapshots[s].refs # 0
  BY <1>3, <1>4, SMT
<1> QED
  BY <1>1, <1>2, <1>3, <1>5 DEF Alive

LEMMA CurrentAlive ==
    ASSUME IInv
    PROVE  /\ current \in Ids /\ snapshots[current] # None /\ snapshots[current] \in Snapshot
           /\ snapshots[current].refs \in Nat \ {0} /\ \A p \in Procs : ~Disposes(p, current)
<1>1. current \in Ids
  BY DEF IInv, TypeOK
<1>2. <<None, 0>> \in Holders(current)
  BY HoldersElement
<1> QED
  BY <1>1, <1>2, HeldAlive

LEMMA BaseAlive ==
    ASSUME IInv, NEW p \in Procs, Uses(job[p])
    PROVE  LET b == job[p].base
           IN  /\ b \in Ids /\ snapshots[b] # None /\ snapshots[b] \in Snapshot
               /\ snapshots[b].refs \in Nat \ {0} /\ \A q \in Procs : ~Disposes(q, b)
<1>1. job[p].base \in Ids
  BY DEF IInv, JobOK, Uses
<1>2. 0 \in JobHolds(job[p], job[p].base)
  BY DEF JobHolds
<1>3. <<p, 0>> \in Holders(job[p].base)
  BY <1>2, HoldersElement
<1> QED
  BY <1>1, <1>3, HeldAlive

LEMMA NewAlive ==
    ASSUME IInv, NEW p \in Procs, Made(job[p])
    PROVE  LET n == job[p].new
           IN  /\ n \in Ids /\ snapshots[n] # None /\ snapshots[n] \in Snapshot
               /\ snapshots[n].refs \in Nat \ {0} /\ \A q \in Procs : ~Disposes(q, n)
<1>1. job[p].new \in Ids
  BY DEF IInv, JobOK, Made
<1>2. -1 \in JobHolds(job[p], job[p].new)
  BY DEF JobHolds
<1>3. <<p, -1>> \in Holders(job[p].new)
  BY <1>2, HoldersElement
<1> QED
  BY <1>1, <1>3, HeldAlive

(* A release never panics: the snapshot it is about is there, with a count *)
(* that is zero exactly if it is to be disposed.                           *)
LEMMA ReleaseSafe ==
    ASSUME IInv, NEW p \in Procs, job[p].drops # <<>>
    PROVE  LET d == Head(job[p].drops)
               s == d.snapshot
           IN  /\ d \in Drops /\ s \in Ids /\ snapshots[s] # None /\ snapshots[s] \in Snapshot
               /\ d.dispose => Disposes(p, s) /\ snapshots[s].refs = 0
               /\ ~d.dispose => /\ d = Drop(s) /\ snapshots[s].refs \in Nat \ {0}
                                /\ Len(job[p].drops) \in JobHolds(job[p], s)
<1> DEFINE d == Head(job[p].drops)
           s == d.snapshot
<1>1. job[p].drops \in Seq(Drops)
  BY DEF IInv, TypeOK, Job
<1>2. d \in Drops
  BY <1>1, SMT
<1>3. s \in Ids /\ d.dispose \in BOOLEAN
  BY <1>2 DEF Drops
<1>4. ASSUME d.dispose
      PROVE  Disposes(p, s) /\ snapshots[s] # None /\ snapshots[s].refs = 0
  <2>1. d = [snapshot |-> s, dispose |-> TRUE]
    <3>1. d.dispose = TRUE
      BY <1>3, <1>4
    <3> QED
      BY <3>1, <1>2 DEF Drops
  <2>2. Disposes(p, s)
    BY <2>1 DEF Disposes
  <2>3. Alive(s)
    BY <1>3 DEF IInv
  <2> HIDE DEF s, d
  <2> QED
    BY <2>2, <2>3 DEF Alive
<1>5. ASSUME ~d.dispose
      PROVE  d = Drop(s) /\ Len(job[p].drops) \in JobHolds(job[p], s)
  <2>1. d = Drop(s)
    BY <1>2, <1>5 DEF Drops, Drop
  <2>2. Len(job[p].drops) \in Dropped(job[p].drops, s)
    BY <2>1, <1>1, DroppedTail
  <2> QED
    BY <2>1, <2>2 DEF JobHolds
<1>6. ASSUME ~d.dispose
      PROVE  snapshots[s] # None /\ snapshots[s].refs \in Nat \ {0}
  <2>1. <<p, Len(job[p].drops)>> \in Holders(s)
    BY <1>5, <1>6, HoldersElement
  <2> QED
    BY <2>1, <1>3, HeldAlive
<1>7. snapshots[s] # None /\ snapshots[s] \in Snapshot
  BY <1>3, <1>4, <1>6 DEF IInv, TypeOK
<1> QED
  BY <1>2, <1>3, <1>4, <1>5, <1>6, <1>7

----------------------------------------------------------------------------
(* Programs *)

(* A step that neither makes nor disposes a snapshot.                      *)
LEMMA CountedKeep ==
    ASSUME \A i \in Ids : Counted(i), programs' = programs,
           \A s \in Ids : /\ snapshots'[s] # None <=> snapshots[s] # None
                          /\ snapshots[s] # None => snapshots'[s].program = snapshots[s].program
    PROVE  \A i \in Ids : Counted(i)'
<1> SUFFICES ASSUME NEW i \in Ids PROVE Counted(i)'
  OBVIOUS
<1>1. Users(i)' = Users(i)
  BY DEF Users
<1> QED
  BY <1>1 DEF Counted

(* A new snapshot counts its program, which is its own or that of a live   *)
(* snapshot: no snapshot has the name of a new one for its program.        *)
LEMMA CountedNew ==
    ASSUME IInv, NEW i \in Free, NEW b \in Ids, snapshots[b] # None, NEW ov \in Nat, NEW pf \in Nat, NEW r \in Nat,
           NewSnapshot(i, b, ov, pf, r)
    PROVE  /\ i \in Ids /\ snapshots[i] = None /\ snapshots'[i] # None
           /\ snapshots' \in [Ids -> Snapshot \cup {None}] /\ programs' \in [Ids -> Nat]
           /\ snapshots'[i].refs = r /\ snapshots'[i].overlays = ov /\ snapshots'[i].prefs = pf
           /\ \A s \in Ids : s # i => snapshots'[s] = snapshots[s]
           /\ \A j \in Ids : Counted(j)'
<1> DEFINE g == IF ov = snapshots[b].overlays THEN snapshots[b].program ELSE i
<1>1. i \in Ids /\ snapshots[i] = None /\ snapshots \in [Ids -> Snapshot \cup {None}]
      /\ programs \in [Ids -> Nat] /\ snapshots[b] \in Snapshot
  BY DEF Free, IInv, TypeOK
<1>2. g \in Ids
  BY <1>1 DEF Snapshot
<1>3. /\ snapshots' = [snapshots EXCEPT
             ![i] = [refs |-> r, overlays |-> ov, prefs |-> pf, program |-> g]]
      /\ programs' = [programs EXCEPT ![g] = @ + 1]
  BY DEF NewSnapshot
<1>4. [refs |-> r, overlays |-> ov, prefs |-> pf, program |-> g] # None
  BY <1>2, LifecycleAssumption, SMT DEF Snapshot
<1> HIDE DEF g
<1>5. /\ snapshots'[i] # None /\ snapshots'[i].program = g
      /\ snapshots'[i].refs = r /\ snapshots'[i].overlays = ov /\ snapshots'[i].prefs = pf
      /\ \A s \in Ids : s # i => snapshots'[s] = snapshots[s]
  BY <1>1, <1>3, <1>4
<1>6. ASSUME NEW j \in Ids PROVE Counted(j)'
  <2>1. Users(j)' = IF j = g THEN Users(j) \cup {i} ELSE Users(j)
    BY <1>1, <1>5 DEF Users
  <2>2. i \notin Users(j)
    BY <1>1 DEF Users
  <2>3. Counted(j)
    BY DEF IInv
  <2>4. programs'[j] = IF j = g THEN programs[j] + 1 ELSE programs[j]
    BY <1>1, <1>2, <1>3
  <2>5. CASE j = g
    <3>1. IsFiniteSet(Users(j) \cup {i}) /\ Cardinality(Users(j) \cup {i}) = Cardinality(Users(j)) + 1
      BY <2>2, <2>3, FS_AddElement DEF Counted
    <3> QED
      BY <3>1, <2>1, <2>3, <2>4, <2>5 DEF Counted
  <2>6. CASE j # g
    BY <2>1, <2>3, <2>4, <2>6 DEF Counted
  <2> QED
    BY <2>5, <2>6
<1>7. programs' \in [Ids -> Nat] /\ snapshots' \in [Ids -> Snapshot \cup {None}]
  BY <1>1, <1>2, <1>3, SMT DEF Snapshot
<1> QED
  BY <1>1, <1>2, <1>5, <1>6, <1>7

----------------------------------------------------------------------------
(* References *)

LEMMA SetSwap ==
    ASSUME NEW S, IsFiniteSet(S), NEW a \in S, NEW b, b \notin S
    PROVE  /\ IsFiniteSet((S \ {a}) \cup {b})
           /\ Cardinality((S \ {a}) \cup {b}) = Cardinality(S)
<1>1. IsFiniteSet(S \ {a}) /\ Cardinality(S \ {a}) = Cardinality(S) - 1 /\ Cardinality(S) \in Nat
  BY FS_RemoveElement, FS_CardinalityType
<1>2. /\ IsFiniteSet((S \ {a}) \cup {b})
      /\ Cardinality((S \ {a}) \cup {b}) = Cardinality(S \ {a}) + 1
  BY <1>1, FS_AddElement
<1> QED
  BY <1>1, <1>2, SMT

(* A goroutine keeps a reference for another purpose.                      *)
LEMMA HoldersMove ==
    ASSUME NEW s, NEW p \in Procs, NEW k, NEW l, SameSession(s), SameFor(s, {p}),
           IsFiniteSet(Holders(s)), k \in JobHolds(job[p], s), l \notin JobHolds(job[p], s),
           JobHolds(job'[p], s) = (JobHolds(job[p], s) \ {k}) \cup {l}
    PROVE  IsFiniteSet(Holders(s))' /\ Cardinality(Holders(s))' = Cardinality(Holders(s))
<1>1. ASSUME NEW h PROVE h \in Holders(s)' <=> (h \in Holders(s) /\ h # <<p, k>>) \/ h = <<p, l>>
  <2>1. <<p, l>> \in Holders(s)' /\ k # l
    BY HoldersElementNext
  <2>2. <<p, k>> \notin Holders(s)'
    BY <2>1, HoldersElementNext, LifecycleAssumption, SMT DEF Procs
  <2>3. ASSUME h \in Holders(s), h # <<p, k>> PROVE h \in Holders(s)'
    BY <2>3, HoldersElement, HoldersElementNext, SMT DEF SameFor, SameSession
  <2>4. ASSUME h \in Holders(s)', h # <<p, l>> PROVE h \in Holders(s)
    BY <2>4, HoldersElement, HoldersElementNext, SMT DEF SameFor, SameSession
  <2> QED
    BY <2>1, <2>2, <2>3, <2>4
<1>2. <<p, k>> \in Holders(s)
  BY HoldersElement
<1>3. <<p, l>> \notin Holders(s)
  BY HoldersElement, LifecycleAssumption, SMT DEF Procs
<1>4. Holders(s)' = (Holders(s) \ {<<p, k>>}) \cup {<<p, l>>}
  BY <1>1
<1> QED
  BY <1>2, <1>3, <1>4, SetSwap, SMT

(* Nobody is to dispose snapshots, or those who are stay the same.         *)
SameDisposal(s) == \A p \in Procs : Disposes(p, s)' <=> Disposes(p, s)

LEMMA DisposalKeep ==
    ASSUME NEW s, NEW p \in Procs, \A q \in Procs : q # p => job'[q] = job[q],
           ~Disposes(p, s), ~Disposes(p, s)'
    PROVE  SameDisposal(s)
BY DEF SameDisposal, Disposes

LEMMA DropsDisposeNothing ==
    ASSUME NEW a, NEW b, NEW s
    PROVE  /\ Head(<<Drop(a)>>) # [snapshot |-> s, dispose |-> TRUE]
           /\ Head(<<Drop(a), Drop(b)>>) # [snapshot |-> s, dispose |-> TRUE]
<1>1. Drop(a) # [snapshot |-> s, dispose |-> TRUE]
  <2>1. Drop(a).dispose = FALSE /\ [snapshot |-> s, dispose |-> TRUE].dispose = TRUE
    BY DEF Drop
  <2> QED
    BY <2>1
<1> QED
  BY <1>1, SMT

(* The snapshot is as it was, and so is the number of its holders.         *)
LEMMA AliveKeep ==
    ASSUME NEW s, Alive(s), snapshots'[s] = snapshots[s], load' = load, SameDisposal(s),
           IsFiniteSet(Holders(s))', Cardinality(Holders(s))' = Cardinality(Holders(s))
    PROVE  Alive(s)'
<1>1. Holders(s)' # {} => Holders(s) # {}
  BY HoldersFinite, FS_EmptySet
<1> QED
  BY <1>1 DEF Alive, SameDisposal, Kinds

LEMMA AliveSame ==
    ASSUME NEW s, Alive(s), snapshots'[s] = snapshots[s], load' = load, SameDisposal(s),
           Holders(s)' = Holders(s)
    PROVE  Alive(s)'
BY HoldersFinite, AliveKeep

(* One more reference, and one more holder.                                *)
LEMMA AliveGain ==
    ASSUME NEW s, Alive(s), snapshots[s] \in Snapshot, snapshots'[s] # None, load' = load,
           snapshots[s].refs \in Nat \ {0}, snapshots'[s].refs = snapshots[s].refs + 1,
           SameDisposal(s), IsFiniteSet(Holders(s))',
           Cardinality(Holders(s))' = Cardinality(Holders(s)) + 1
    PROVE  Alive(s)'
<1>1. Cardinality(Holders(s)) \in Nat /\ snapshots[s] # None
  BY HoldersFinite, LifecycleAssumption
<1>2. \A p \in Procs : ~Disposes(p, s)'
  BY DEF Alive, SameDisposal
<1>3. /\ Cardinality(Holders(s))' <= snapshots'[s].refs
      /\ "orphan" \notin Kinds => Cardinality(Holders(s))' = snapshots'[s].refs
      /\ snapshots'[s].refs # 0
  BY <1>1, SMT DEF Alive
<1> QED
  BY <1>2, <1>3 DEF Alive, Kinds

----------------------------------------------------------------------------
(* Steps that leave all references as they are *)

(* A goroutine's job as a function of its process.                         *)
LEMMA OneJob ==
    ASSUME TypeOK, NEW p \in Procs, NEW j \in Job, Go(p, j)
    PROVE  /\ job' \in [Procs -> Job] /\ job'[p] = j
           /\ \A q \in Procs : q # p => job'[q] = job[q]
BY DEF TypeOK, Go

LEMMA IdleHolds ==
    ASSUME NEW j \in Job, j.drops = <<>>, ~Uses(j), ~Made(j), NEW s
    PROVE  JobHolds(j, s) = {}
<1>1. Dropped(<<>>, s) = {}
  BY SMT DEF Dropped
<1> QED
  BY <1>1 DEF JobHolds

LEMMA NeitherHolds ==
    ASSUME NEW j \in Job, j.drops = <<>>, j.pc \in {"idle", "flushed", "warm", "dropping"},
           NEW k \in Job, k.drops = <<>>, k.pc \in {"idle", "flushed", "warm", "dropping"}
    PROVE  \A s : JobHolds(j, s) = {} /\ JobHolds(k, s) = {}
<1>1. ~Uses(j) /\ ~Made(j) /\ ~Uses(k) /\ ~Made(k)
  BY DEF Uses, Made
<1> QED
  BY <1>1, IdleHolds

(* One goroutine goes on with what it holds.                               *)
LEMMA QuietStep ==
    ASSUME IInv, TypeOK', load' = load, UNCHANGED <<snapshots, programs, current, panicked>>,
           NEW p \in Procs, \A q \in Procs : q # p => job'[q] = job[q],
           job[p].drops = <<>>, job'[p].drops = <<>>,
           \A s \in Ids : JobHolds(job'[p], s) = JobHolds(job[p], s),
           JobOK(job[p])', \A q \in Procs : Locked(q)'
    PROVE  IInv'
<1>1. ASSUME NEW s \in Ids PROVE Alive(s)'
  <2>1. Holders(s)' = Holders(s)
    BY HoldersKeep DEF SameFor, SameSession
  <2>2. SameDisposal(s)
    BY DEF SameDisposal, Disposes
  <2>3. Alive(s) /\ snapshots'[s] = snapshots[s]
    BY DEF IInv
  <2> QED
    BY <2>1, <2>2, <2>3, AliveSame
<1>2. \A s \in Ids : Counted(s)'
  BY DEF IInv, Counted, Users
<1>3. ASSUME NEW q \in Procs PROVE JobOK(job[q])'
  BY DEF IInv, JobOK, Kinds
<1>4. ~panicked'
  BY DEF IInv
<1> QED
  BY <1>1, <1>2, <1>3, <1>4 DEF IInv

LEMMA NoneIsNoProc == None \notin Procs
BY LifecycleAssumption DEF Procs

(* A goroutine that is not releasing anything has nothing to release.      *)
LEMMA NothingDropped ==
    ASSUME IInv, NEW p \in Procs, job[p].pc \notin {"installed", "dropping"}
    PROVE  job[p] \in Job /\ job[p].drops = <<>>
BY DEF IInv, JobOK, TypeOK

LEMMA StepFlush ==
    ASSUME IInv, load' = load, NEW p \in Procs, NEW kind \in Kinds \ {"options", "global"},
           kind \in AllKinds, flushChanges(p, kind)
    PROVE  IInv'
<1> DEFINE j == [Idle EXCEPT !.pc = "flushed", !.kind = kind, !.overlays = edits,
                          !.changed = (edits # overlays \/ newPrefs),
                          !.prefs = IF newPrefs /\ kind # "api" THEN prefs ELSE None]
<1>1. /\ j.pc = "flushed" /\ j.kind = kind /\ j.drops = <<>> /\ j.base = None /\ j.new = None
      /\ j.prefs # None => j.changed
  BY DEF Idle
<1>2. j \in Job
  BY DroppedNew, LifecycleAssumption DEF Job, Idle, IInv, TypeOK, PCs, AllKinds
<1>3. Go(p, j) /\ job[p].pc = "idle" /\ TypeOK
  BY DEF flushChanges, IInv
<1> HIDE DEF j
<1>4. /\ job' \in [Procs -> Job] /\ job'[p] = j
      /\ \A q \in Procs : q # p => job'[q] = job[q]
  BY <1>2, <1>3, OneJob
<1>5. TypeOK'
  BY <1>4 DEF IInv, TypeOK, flushChanges
<1>6. job[p].drops = <<>> /\ \A s \in Ids : JobHolds(job'[p], s) = JobHolds(job[p], s)
  <2>1. job[p] \in Job /\ job[p].drops = <<>>
    BY <1>3, NothingDropped
  <2>2. /\ j.pc \in {"idle", "flushed", "warm", "dropping"}
        /\ job[p].pc \in {"idle", "flushed", "warm", "dropping"}
    BY <1>1, <1>3
  <2>3. \A s : JobHolds(j, s) = {} /\ JobHolds(job[p], s) = {}
    BY <2>1, <2>2, <1>1, <1>2, NeitherHolds
  <2> QED
    BY <2>1, <2>3, <1>4
<1>7. JobOK(job[p])'
  BY <1>1, <1>4, SMT DEF JobOK, Kinds
<1>8. \A q \in Procs : Locked(q)'
  BY <1>1, <1>3, <1>4, NoneIsNoProc, SMT DEF IInv, Locked, flushChanges
<1> QED
  BY <1>1, <1>4, <1>5, <1>6, <1>7, <1>8, QuietStep DEF flushChanges

LEMMA StepReadOverlays ==
    ASSUME IInv, load' = load, NEW p \in Procs, "options" \in Kinds, ReadOverlays(p)
    PROVE  IInv'
<1> DEFINE j == [Idle EXCEPT !.pc = "flushed", !.kind = "options", !.overlays = overlays]
<1>1. /\ j.pc = "flushed" /\ j.kind = "options" /\ j.drops = <<>> /\ j.base = None /\ j.new = None
      /\ j.prefs = None
  BY DEF Idle
<1>2. j \in Job
  BY DroppedNew, LifecycleAssumption DEF Job, Idle, IInv, TypeOK, PCs, AllKinds
<1>3. Go(p, j) /\ job[p].pc = "idle" /\ TypeOK
  BY DEF ReadOverlays, IInv
<1> HIDE DEF j
<1>4. /\ job' \in [Procs -> Job] /\ job'[p] = j
      /\ \A q \in Procs : q # p => job'[q] = job[q]
  BY <1>2, <1>3, OneJob
<1>5. TypeOK'
  BY <1>4 DEF IInv, TypeOK, ReadOverlays
<1>6. job[p].drops = <<>> /\ \A s \in Ids : JobHolds(job'[p], s) = JobHolds(job[p], s)
  <2>1. job[p] \in Job /\ job[p].drops = <<>>
    BY <1>3, NothingDropped
  <2>2. /\ j.pc \in {"idle", "flushed", "warm", "dropping"}
        /\ job[p].pc \in {"idle", "flushed", "warm", "dropping"}
    BY <1>1, <1>3
  <2>3. \A s : JobHolds(j, s) = {} /\ JobHolds(job[p], s) = {}
    BY <2>1, <2>2, <1>1, <1>2, NeitherHolds
  <2> QED
    BY <2>1, <2>3, <1>4
<1>7. JobOK(job[p])'
  BY <1>1, <1>4, SMT DEF JobOK, Kinds
<1>8. \A q \in Procs : Locked(q)'
  BY <1>1, <1>3, <1>4, NoneIsNoProc DEF IInv, Locked, ReadOverlays
<1> QED
  BY <1>1, <1>4, <1>5, <1>6, <1>7, <1>8, QuietStep DEF ReadOverlays

LEMMA StepStartClone ==
    ASSUME IInv, load' = load, NEW p \in Procs, StartClone(p)
    PROVE  IInv'
<1> DEFINE j == [job[p] EXCEPT !.pc = "cloning"]
<1>1. job[p] \in Job /\ job[p].drops = <<>> /\ job[p].pc = "using" /\ TypeOK
  BY NothingDropped DEF StartClone, IInv
<1>2. /\ j.pc = "cloning" /\ j.kind = job[p].kind /\ j.drops = <<>> /\ j.base = job[p].base
      /\ j.new = job[p].new
  BY <1>1 DEF Job
<1>3. j \in Job /\ Go(p, j)
  BY <1>1 DEF Job, PCs, StartClone
<1> HIDE DEF j
<1>4. /\ job' \in [Procs -> Job] /\ job'[p] = j
      /\ \A q \in Procs : q # p => job'[q] = job[q]
  BY <1>1, <1>3, OneJob
<1>5. TypeOK'
  BY <1>4 DEF IInv, TypeOK, StartClone
<1>6. \A s \in Ids : JobHolds(job'[p], s) = JobHolds(job[p], s)
  BY <1>1, <1>2, <1>4 DEF JobHolds, Uses, Made
<1>7. JobOK(job[p])'
  BY <1>1, <1>2, <1>4 DEF JobOK, Kinds, IInv
<1>8. \A q \in Procs : Locked(q)'
  BY <1>1, <1>2, <1>4, NoneIsNoProc DEF IInv, Locked, StartClone
<1> QED
  BY <1>1, <1>2, <1>4, <1>5, <1>6, <1>7, <1>8, QuietStep DEF StartClone

LEMMA IdleType == Idle \in Job /\ Idle.pc = "idle" /\ Idle.drops = <<>> /\ Idle.kind = "plain"
BY SMT DEF Idle, Job, PCs, AllKinds

LEMMA StepFinish ==
    ASSUME IInv, load' = load, NEW p \in Procs, Finish(p)
    PROVE  IInv'
<1>1. job[p] \in Job /\ job[p].drops = <<>> /\ job[p].pc = "dropping" /\ TypeOK
  BY DEF Finish, IInv, TypeOK
<1>2. /\ job' \in [Procs -> Job] /\ job'[p] = Idle
      /\ \A q \in Procs : q # p => job'[q] = job[q]
  BY <1>1, OneJob, IdleType DEF Finish
<1>3. TypeOK'
  BY <1>2 DEF IInv, TypeOK, Finish
<1>4. \A s \in Ids : JobHolds(job'[p], s) = JobHolds(job[p], s)
  <2>1. /\ Idle.pc \in {"idle", "flushed", "warm", "dropping"}
        /\ job[p].pc \in {"idle", "flushed", "warm", "dropping"}
    BY <1>1, IdleType
  <2> QED
    BY <2>1, <1>1, <1>2, IdleType, NeitherHolds
<1>5. JobOK(job[p])'
  BY <1>2, IdleType, SMT DEF JobOK, Kinds
<1>6. \A q \in Procs : Locked(q)'
  BY <1>1, <1>2, IdleType, NoneIsNoProc DEF IInv, Locked, Finish
<1> QED
  BY <1>1, <1>2, <1>3, <1>4, <1>5, <1>6, IdleType, QuietStep DEF Finish

----------------------------------------------------------------------------
(* Steps in which references change hands *)

LEMMA SameCounts ==
    ASSUME IInv, TypeOK', load' = load, UNCHANGED <<snapshots, programs, panicked>>,
           \A q \in Procs : JobOK(job[q])' /\ Locked(q)',
           \A s \in Ids : /\ SameDisposal(s) /\ IsFiniteSet(Holders(s))'
                          /\ Cardinality(Holders(s))' = Cardinality(Holders(s))
    PROVE  IInv'
<1>1. ASSUME NEW s \in Ids PROVE Alive(s)'
  <2>1. Alive(s) /\ snapshots'[s] = snapshots[s]
    BY DEF IInv
  <2> QED
    BY <2>1, AliveKeep
<1>2. \A s \in Ids : Counted(s)'
  BY DEF IInv, Counted, Users
<1>3. ~panicked'
  BY DEF IInv
<1> QED
  BY <1>1, <1>2, <1>3 DEF IInv

LEMMA HoldsNow ==
    ASSUME NEW j \in Job, j.drops = <<>>, NEW s
    PROVE  JobHolds(j, s) = (IF Uses(j) /\ j.base = s THEN {0} ELSE {})
                                \cup (IF Made(j) /\ j.new = s THEN {-1} ELSE {})
<1>1. Dropped(<<>>, s) = {}
  BY SMT DEF Dropped
<1> QED
  BY <1>1 DEF JobHolds

LEMMA HoldsDropping ==
    ASSUME NEW j \in Job, j.pc = "dropping", NEW s
    PROVE  JobHolds(j, s) = Dropped(j.drops, s)
<1>1. ~Uses(j) /\ ~Made(j)
  BY DEF Uses, Made
<1> QED
  BY <1>1 DEF JobHolds

(* The invariant on the jobs of the goroutines that do not move.           *)
LEMMA OtherJobs ==
    ASSUME IInv, load' = load, NEW q \in Procs, job'[q] = job[q]
    PROVE  JobOK(job[q])'
BY DEF IInv, JobOK, Kinds

LEMMA StepDone ==
    ASSUME IInv, load' = load, NEW p \in Procs, Done(p)
    PROVE  IInv'
<1> DEFINE b == job[p].base
           j == [job[p] EXCEPT !.pc = "dropping", !.drops = <<Drop(b)>>]
<1>1. job[p] \in Job /\ job[p].drops = <<>> /\ job[p].pc = "using" /\ TypeOK /\ Uses(job[p])
  BY NothingDropped DEF Done, IInv, Uses
<1>2. b \in Ids /\ ~Made(job[p])
  BY <1>1, BaseAlive DEF Made
<1>3. j.pc = "dropping" /\ j.kind = job[p].kind /\ j.drops = <<Drop(b)>>
  BY <1>1 DEF Job
<1>4. j \in Job /\ Go(p, j)
  BY <1>1, <1>2, DroppedNew DEF Job, PCs, Done
<1> HIDE DEF b, j
<1>5. /\ job' \in [Procs -> Job] /\ job'[p] = j
      /\ \A q \in Procs : q # p => job'[q] = job[q]
  BY <1>1, <1>4, OneJob
<1>6. TypeOK'
  BY <1>5 DEF IInv, TypeOK, Done
<1>7. JobOK(job[p])'
  <2>1. Len(j.drops) = 1
    BY <1>2, <1>3, DroppedNew
  <2> QED
    BY <1>1, <1>3, <1>5, <2>1, SMT DEF JobOK, Kinds, IInv
<1>8. \A q \in Procs : JobOK(job[q])'
  BY <1>5, <1>7, OtherJobs
<1>9. \A q \in Procs : Locked(q)'
  BY <1>1, <1>3, <1>5 DEF IInv, Locked, Done
<1>10. ASSUME NEW s \in Ids
       PROVE  /\ SameDisposal(s) /\ IsFiniteSet(Holders(s))'
              /\ Cardinality(Holders(s))' = Cardinality(Holders(s))
  <2>1. SameDisposal(s)
    <3>1. ~Disposes(p, s) /\ ~Disposes(p, s)'
      BY <1>1, <1>3, <1>5, DropsDisposeNothing DEF Disposes
    <3> QED
      BY <3>1, <1>5, DisposalKeep
  <2>2. SameSession(s) /\ SameFor(s, {p}) /\ IsFiniteSet(Holders(s))
    BY <1>5, HoldersFinite DEF SameSession, SameFor, Done, IInv
  <2>3. JobHolds(job[p], s) = IF b = s THEN {0} ELSE {}
    BY <1>1, <1>2, HoldsNow DEF b
  <2>4. JobHolds(job'[p], s) = IF b = s THEN {1} ELSE {}
    <3>1. JobHolds(job'[p], s) = Dropped(<<Drop(b)>>, s)
      BY <1>3, <1>4, <1>5, HoldsDropping
    <3> QED
      BY <3>1, <1>2, DroppedOne
  <2>5. CASE b = s
    BY <2>2, <2>3, <2>4, <2>5, <2>1, HoldersMove, SMT
  <2>6. CASE b # s
    <3>1. SameFor(s, {})
      BY <2>2, <2>3, <2>4, <2>6 DEF SameFor
    <3> QED
      BY <3>1, <2>1, <2>2, HoldersKeep
  <2> QED
    BY <2>5, <2>6
<1> QED
  BY <1>6, <1>8, <1>9, <1>10, SameCounts DEF Done

LEMMA StepDiscard ==
    ASSUME IInv, load' = load, NEW p \in Procs, Discard(p)
    PROVE  IInv'
<1> DEFINE b == job[p].base
           n == job[p].new
           j == [job[p] EXCEPT !.pc = "dropping", !.new = None, !.drops = <<Drop(n), Drop(b)>>]
<1>1. /\ job[p] \in Job /\ job[p].drops = <<>> /\ job[p].pc = "cloned" /\ TypeOK
      /\ Uses(job[p]) /\ Made(job[p])
  BY NothingDropped DEF Discard, IInv, Uses, Made
<1>2. b \in Ids /\ n \in Ids /\ b # n
  BY <1>1 DEF IInv, JobOK
<1>3. j.pc = "dropping" /\ j.kind = job[p].kind /\ j.drops = <<Drop(n), Drop(b)>>
  BY <1>1 DEF Job
<1>4. j \in Job /\ Go(p, j)
  BY <1>1, <1>2, DroppedNew DEF Job, PCs, Discard
<1> HIDE DEF b, n, j
<1>5. /\ job' \in [Procs -> Job] /\ job'[p] = j
      /\ \A q \in Procs : q # p => job'[q] = job[q]
  BY <1>1, <1>4, OneJob
<1>6. TypeOK'
  BY <1>5 DEF IInv, TypeOK, Discard
<1>7. JobOK(job[p])'
  <2>1. Len(j.drops) = 2 /\ ~j.drops[2].dispose
    BY <1>2, <1>3, DroppedNew, SMT DEF Drop
  <2> QED
    BY <1>1, <1>3, <1>5, <2>1, SMT DEF JobOK, Kinds, IInv
<1>8. \A q \in Procs : JobOK(job[q])'
  BY <1>5, <1>7, OtherJobs
<1>9. \A q \in Procs : Locked(q)'
  BY <1>1, <1>3, <1>5 DEF IInv, Locked, Discard
<1>10. ASSUME NEW s \in Ids
       PROVE  /\ SameDisposal(s) /\ IsFiniteSet(Holders(s))'
              /\ Cardinality(Holders(s))' = Cardinality(Holders(s))
  <2>1. SameDisposal(s)
    <3>1. ~Disposes(p, s) /\ ~Disposes(p, s)'
      BY <1>1, <1>3, <1>5, DropsDisposeNothing DEF Disposes
    <3> QED
      BY <3>1, <1>5, DisposalKeep
  <2>2. SameSession(s) /\ SameFor(s, {p}) /\ IsFiniteSet(Holders(s))
    BY <1>5, HoldersFinite DEF SameSession, SameFor, Discard, IInv
  <2>3. JobHolds(job[p], s) = (IF b = s THEN {0} ELSE {}) \cup (IF n = s THEN {-1} ELSE {})
    BY <1>1, HoldsNow DEF b, n
  <2>4. JobHolds(job'[p], s) = (IF b = s THEN {1} ELSE {}) \cup (IF n = s THEN {2} ELSE {})
    <3>1. JobHolds(job'[p], s) = Dropped(<<Drop(n), Drop(b)>>, s)
      BY <1>3, <1>4, <1>5, HoldsDropping
    <3> QED
      BY <3>1, <1>2, DroppedTwo, SMT
  <2>5. CASE b = s
    <3>1. JobHolds(job[p], s) = {0} /\ JobHolds(job'[p], s) = {1}
      BY <1>2, <2>3, <2>4, <2>5
    <3>2. /\ 0 \in JobHolds(job[p], s) /\ 1 \notin JobHolds(job[p], s)
          /\ JobHolds(job'[p], s) = (JobHolds(job[p], s) \ {0}) \cup {1}
      BY <3>1, SMT
    <3> QED
      BY <3>2, <2>1, <2>2, HoldersMove
  <2>6. CASE n = s
    <3>1. JobHolds(job[p], s) = {-1} /\ JobHolds(job'[p], s) = {2}
      BY <1>2, <2>3, <2>4, <2>6
    <3>2. /\ -1 \in JobHolds(job[p], s) /\ 2 \notin JobHolds(job[p], s)
          /\ JobHolds(job'[p], s) = (JobHolds(job[p], s) \ {-1}) \cup {2}
      BY <3>1, SMT
    <3> QED
      BY <3>2, <2>1, <2>2, HoldersMove
  <2>7. CASE b # s /\ n # s
    <3>1. SameFor(s, {})
      BY <2>2, <2>3, <2>4, <2>7 DEF SameFor
    <3> QED
      BY <3>1, <2>1, <2>2, HoldersKeep
  <2> QED
    BY <2>5, <2>6, <2>7
<1> QED
  BY <1>6, <1>8, <1>9, <1>10, SameCounts DEF Discard

LEMMA StepEnqueueAdopt ==
    ASSUME IInv, load' = load, NEW p \in Procs, NEW t \in Tasks, EnqueueAdopt(p, t)
    PROVE  IInv'
<1> DEFINE b == job[p].base
           n == job[p].new
           j == [job[p] EXCEPT !.pc = "dropping", !.new = None, !.drops = <<Drop(b)>>]
           k == [Idle EXCEPT !.pc = "adopt", !.base = b, !.new = n]
<1>1. /\ job[p] \in Job /\ job[p].drops = <<>> /\ job[p].pc = "cloned" /\ TypeOK
      /\ Uses(job[p]) /\ Made(job[p])
  BY NothingDropped DEF EnqueueAdopt, IInv, Uses, Made
<1>2. b \in Ids /\ n \in Ids /\ b # n
  BY <1>1 DEF IInv, JobOK
<1>3. t \in Procs /\ t # p /\ job[t].pc = "idle" /\ job[t] \in Job /\ job[t].drops = <<>>
  BY <1>1, NothingDropped DEF EnqueueAdopt, CanStart, Procs
<1>4. j.pc = "dropping" /\ j.kind = job[p].kind /\ j.drops = <<Drop(b)>>
  BY <1>1 DEF Job
<1>5. k.pc = "adopt" /\ k.kind = "plain" /\ k.drops = <<>> /\ k.base = b /\ k.new = n
  BY DEF Idle
<1>6. j \in Job /\ k \in Job
  BY <1>1, <1>2, DroppedNew DEF Job, PCs, Idle, AllKinds
<1>7. job' = [job EXCEPT ![p] = j, ![t] = k]
  BY <1>3 DEF EnqueueAdopt, IInv, TypeOK
<1> HIDE DEF b, n, j, k
<1>8. /\ job' \in [Procs -> Job] /\ job'[p] = j /\ job'[t] = k
      /\ \A q \in Procs : q # p /\ q # t => job'[q] = job[q]
  BY <1>1, <1>3, <1>6, <1>7 DEF TypeOK
<1>9. TypeOK'
  BY <1>8 DEF IInv, TypeOK, EnqueueAdopt
<1>10. JobOK(job[p])'
  <2>1. Len(j.drops) = 1
    BY <1>2, <1>4, DroppedNew
  <2> QED
    BY <1>1, <1>4, <1>8, <2>1, SMT DEF JobOK, Kinds, IInv
<1>11. JobOK(job[t])'
  <2>1. Len(k.drops) = 0
    BY <1>5, SMT
  <2> QED
    BY <1>2, <1>5, <1>8, <2>1, SMT DEF JobOK, Kinds
<1>12. \A q \in Procs : JobOK(job[q])'
  BY <1>8, <1>10, <1>11, OtherJobs
<1>13. \A q \in Procs : Locked(q)'
  BY <1>1, <1>3, <1>4, <1>5, <1>8 DEF IInv, Locked, EnqueueAdopt
<1>14. ASSUME NEW s \in Ids
       PROVE  /\ SameDisposal(s) /\ IsFiniteSet(Holders(s))'
              /\ Cardinality(Holders(s))' = Cardinality(Holders(s))
  <2>1. SameDisposal(s)
    <3>1. ~Disposes(p, s) /\ ~Disposes(p, s)'
      BY <1>1, <1>4, <1>8, DropsDisposeNothing DEF Disposes
    <3>2. ~Disposes(t, s) /\ ~Disposes(t, s)'
      BY <1>3, <1>5, <1>8 DEF Disposes
    <3> QED
      BY <3>1, <3>2, <1>8 DEF SameDisposal, Disposes
  <2>2. SameSession(s) /\ SameFor(s, {p, t}) /\ IsFiniteSet(Holders(s))
    BY <1>8, HoldersFinite DEF SameSession, SameFor, EnqueueAdopt, IInv
  <2>3. JobHolds(job[p], s) = (IF b = s THEN {0} ELSE {}) \cup (IF n = s THEN {-1} ELSE {})
    BY <1>1, HoldsNow DEF b, n
  <2>4. JobHolds(job'[p], s) = IF b = s THEN {1} ELSE {}
    <3>1. JobHolds(job'[p], s) = Dropped(<<Drop(b)>>, s)
      BY <1>4, <1>6, <1>8, HoldsDropping
    <3> QED
      BY <3>1, <1>2, DroppedOne
  <2>5. JobHolds(job[t], s) = {}
    BY <1>3, IdleHolds DEF Uses, Made
  <2>6. JobHolds(job'[t], s) = IF n = s THEN {-1} ELSE {}
    <3>1. ~Uses(k) /\ Made(k)
      BY <1>5 DEF Uses, Made
    <3> QED
      BY <3>1, <1>5, <1>6, <1>8, HoldsNow
  <2>7. CASE b = s
    <3>1. SameFor(s, {p})
      BY <1>2, <2>2, <2>5, <2>6, <2>7 DEF SameFor
    <3> QED
      BY <3>1, <1>2, <2>2, <2>3, <2>4, <2>7, <2>1, HoldersMove, SMT
  <2>8. CASE n = s
    <3>1. JobHolds(job[p], s) = {-1} /\ JobHolds(job'[p], s) = {} /\ JobHolds(job'[t], s) = {-1}
      BY <1>2, <2>3, <2>4, <2>6, <2>8
    <3>2. <<p, -1>> \in Holders(s) /\ <<t, -1>> \in Holders(s)'
      BY <3>1, <1>3, HoldersElement, HoldersElementNext
    <3>3. <<t, -1>> \notin Holders(s)
      BY <2>5, <1>3, NoneIsNoProc, HoldersElement
    <3>4. <<p, -1>> \notin Holders(s)'
      BY <3>1, <1>3, NoneIsNoProc, HoldersElementNext
    <3>5. ASSUME NEW h, h \in Holders(s), h # <<p, -1>> PROVE h \in Holders(s)'
      BY <3>1, <3>5, <2>2, <2>5, HoldersElement, HoldersElementNext, SMT DEF SameFor, SameSession
    <3>6. ASSUME NEW h, h \in Holders(s)', h # <<t, -1>> PROVE h \in Holders(s)
      BY <3>1, <3>6, <2>2, <2>5, HoldersElement, HoldersElementNext, SMT DEF SameFor, SameSession
    <3>7. Holders(s)' = (Holders(s) \ {<<p, -1>>}) \cup {<<t, -1>>}
      BY <3>2, <3>4, <3>5, <3>6
    <3> QED
      BY <3>2, <3>3, <3>7, <2>1, <2>2, SetSwap, SMT
  <2>9. CASE b # s /\ n # s
    <3>1. SameFor(s, {})
      BY <2>2, <2>3, <2>4, <2>5, <2>6, <2>9 DEF SameFor
    <3> QED
      BY <3>1, <2>1, <2>2, HoldersKeep
  <2> QED
    BY <2>7, <2>8, <2>9
<1> QED
  BY <1>9, <1>12, <1>13, <1>14, SameCounts DEF EnqueueAdopt

(* A request gives up without releasing its snapshot: the count stays, one *)
(* more than there are holders.                                            *)
LEMMA StepNoProjectFound ==
    ASSUME IInv, load' = load, NEW p \in Procs, NoProjectFound(p)
    PROVE  IInv'
<1> DEFINE b == job[p].base
<1>1. /\ job[p] \in Job /\ job[p].drops = <<>> /\ job[p].pc = "using" /\ TypeOK /\ Uses(job[p])
      /\ ~Made(job[p])
  BY NothingDropped DEF NoProjectFound, IInv, Uses, Made
<1>2. b \in Ids /\ snapshots[b] \in Snapshot /\ snapshots[b].refs \in Nat \ {0}
  BY <1>1, BaseAlive
<1>3. "orphan" \in Kinds
  BY DEF NoProjectFound, IInv, JobOK
<1> HIDE DEF b
<1>4. /\ job' \in [Procs -> Job] /\ job'[p] = Idle
      /\ \A q \in Procs : q # p => job'[q] = job[q]
  BY <1>1, OneJob, IdleType DEF NoProjectFound
<1>5. TypeOK'
  BY <1>4 DEF IInv, TypeOK, NoProjectFound
<1>6. \A q \in Procs : JobOK(job[q])'
  <2>1. JobOK(job[p])'
    BY <1>4, IdleType, SMT DEF JobOK, Kinds
  <2> QED
    BY <2>1, <1>4, OtherJobs
<1>7. \A q \in Procs : Locked(q)'
  BY <1>1, <1>4, IdleType DEF IInv, Locked, NoProjectFound
<1>8. ASSUME NEW s \in Ids PROVE Alive(s)'
  <2>1. SameDisposal(s) /\ Alive(s) /\ snapshots'[s] = snapshots[s]
    <3>1. ~Disposes(p, s) /\ ~Disposes(p, s)'
      BY <1>1, <1>4, IdleType DEF Disposes
    <3> QED
      BY <3>1, <1>4, DisposalKeep DEF NoProjectFound, IInv
  <2>2. SameSession(s) /\ SameFor(s, {p}) /\ IsFiniteSet(Holders(s)) /\ Cardinality(Holders(s)) \in Nat
    BY <1>4, HoldersFinite DEF SameSession, SameFor, NoProjectFound, IInv
  <2>3. JobHolds(job[p], s) = IF b = s THEN {0} ELSE {}
    BY <1>1, HoldsNow DEF b
  <2>4. JobHolds(job'[p], s) = {}
    <3>1. ~Uses(Idle) /\ ~Made(Idle)
      BY IdleType DEF Uses, Made
    <3> QED
      BY <3>1, <1>4, IdleType, IdleHolds
  <2>5. CASE b = s
    <3>1. /\ IsFiniteSet(Holders(s))'
          /\ Cardinality(Holders(s))' = Cardinality(Holders(s)) - 1
      BY <2>2, <2>3, <2>4, <2>5, HoldersLose
    <3>2. /\ snapshots'[s] # None /\ snapshots'[s].refs \in Nat \ {0} /\ "orphan" \in Kinds'
          /\ Cardinality(Holders(s))' <= snapshots'[s].refs
      BY <1>2, <1>3, <2>1, <2>2, <2>5, <3>1, LifecycleAssumption, SMT DEF Alive, Kinds
    <3>3. \A q \in Procs : ~Disposes(q, s)'
      BY <1>2, <2>1, <2>5 DEF SameDisposal, Alive
    <3> QED
      BY <3>1, <3>2, <3>3 DEF Alive
  <2>6. CASE b # s
    <3>1. SameFor(s, {})
      BY <2>2, <2>3, <2>4, <2>6 DEF SameFor
    <3> QED
      BY <3>1, <2>1, <2>2, HoldersKeep, AliveSame
  <2> QED
    BY <2>5, <2>6
<1>9. \A s \in Ids : Counted(s)'
  BY DEF IInv, Counted, Users, NoProjectFound
<1>10. ~panicked'
  BY DEF IInv, NoProjectFound
<1> QED
  BY <1>5, <1>6, <1>7, <1>8, <1>9, <1>10 DEF IInv

LEMMA StepUnlock ==
    ASSUME IInv, load' = load, NEW p \in Procs, Unlock(p)
    PROVE  IInv'
<1> DEFINE j == Obtained(job[p])
           warm == [Idle EXCEPT !.pc = "warm", !.base = job[p].base]
<1>1. job[p] \in Job /\ job[p].drops = <<>> /\ job[p].pc = "installed" /\ TypeOK
  BY DEF Unlock, IInv, TypeOK
<1>2. /\ j \in Job /\ j.drops = <<>> /\ j.pc \in {"using", "idle"}
      /\ j.pc = "using" => j.base = job[p].base /\ j.kind = job[p].kind
      /\ j.pc = "idle" => j.kind = "plain"
      /\ j.pc = "using" <=> CallerRef(job[p].kind)
  BY <1>1, IdleType DEF Obtained, Job, PCs
<1>3. job[p].base \in Ids
  BY <1>1 DEF IInv, JobOK
<1>4. warm \in Job /\ warm.drops = <<>> /\ warm.pc = "warm" /\ warm.base \in Ids /\ warm.kind = "plain"
  BY <1>3, DroppedNew DEF Idle, Job, PCs, AllKinds
<1> HIDE DEF j, warm
<1>5. PICK t \in Procs :
         /\ job' \in [Procs -> Job] /\ job'[p] = j
         /\ \A q \in Procs : q # p => job'[q] = job[q] \/ (q = t /\ job'[q] = warm /\ job[q].pc = "idle")
  <2>1. CASE job' = [job EXCEPT ![p] = j]
    BY <2>1, <1>1, <1>2, OneJob DEF Go
  <2>2. CASE \E t \in Tasks : CanStart(t) /\ job' = [[job EXCEPT ![p] = j] EXCEPT ![t] = warm]
    <3>1. PICK t \in Tasks : CanStart(t) /\ job' = [[job EXCEPT ![p] = j] EXCEPT ![t] = warm]
      BY <2>2
    <3>2. t \in Procs /\ t # p /\ job[t].pc = "idle"
      BY <3>1, <1>1 DEF CanStart, Procs
    <3>3. job' \in [Procs -> Job] /\ job'[p] = j /\ job'[t] = warm /\ \A q \in Procs : q # p /\ q # t => job'[q] = job[q]
      BY <3>1, <3>2, <1>1, <1>2, <1>4 DEF TypeOK
    <3> QED
      BY <3>2, <3>3
  <2> QED
    BY <2>1, <2>2 DEF Unlock, j, warm
<1>6. TypeOK'
  BY <1>5 DEF IInv, TypeOK, Unlock
<1>7. ASSUME NEW q \in Procs PROVE JobOK(job[q])'
  <2>1. CASE q = p
    BY <2>1, <1>1, <1>2, <1>3, <1>5 DEF JobOK, Kinds, IInv
  <2>2. CASE job'[q] = warm
    BY <2>2, <1>4, SMT DEF JobOK, Kinds
  <2> QED
    BY <2>1, <2>2, <1>5, OtherJobs
<1>8. ASSUME NEW q \in Procs PROVE Locked(q)'
  <2>1. mu = p /\ mu' = None /\ updateMu' = IF updateMu = p THEN None ELSE updateMu
    BY <1>1 DEF IInv, Locked, Unlock
  <2>2. CASE q = p
    BY <2>1, <2>2, <1>2, <1>5, NoneIsNoProc DEF Locked
  <2>3. CASE q # p /\ job'[q] = warm /\ job[q].pc = "idle"
    BY <2>1, <2>3, <1>4, NoneIsNoProc DEF IInv, Locked
  <2>4. CASE q # p /\ job'[q] = job[q]
    BY <2>1, <2>4, NoneIsNoProc DEF IInv, Locked
  <2> QED
    BY <2>2, <2>3, <2>4, <1>5
<1>9. ASSUME NEW s \in Ids
      PROVE  /\ SameDisposal(s) /\ IsFiniteSet(Holders(s))'
             /\ Cardinality(Holders(s))' = Cardinality(Holders(s))
  <2>1. ASSUME NEW q \in Procs
        PROVE  JobHolds(job'[q], s) = JobHolds(job[q], s) /\ (Disposes(q, s)' <=> Disposes(q, s))
    <3>1. CASE q = p
      <4>1. /\ ~Made(job[p]) /\ ~Made(j)
            /\ Uses(job[p]) <=> Uses(j)
            /\ Uses(j) => job[p].base = j.base
        BY <1>1, <1>2 DEF Uses, Made
      <4>2. JobHolds(j, s) = JobHolds(job[p], s)
        <5>1. JobHolds(job[p], s) = IF Uses(job[p]) /\ job[p].base = s THEN {0} ELSE {}
          BY <4>1, <1>1, HoldsNow
        <5>2. JobHolds(j, s) = IF Uses(j) /\ j.base = s THEN {0} ELSE {}
          BY <4>1, <1>2, HoldsNow
        <5> QED
          BY <4>1, <5>1, <5>2
      <4> QED
        BY <3>1, <4>2, <1>1, <1>2, <1>5 DEF Disposes
    <3>2. CASE job'[q] = warm /\ job[q].pc = "idle"
      <4>1. job[q] \in Job /\ job[q].drops = <<>>
        BY <3>2, NothingDropped
      <4>2. warm.pc \in {"idle", "flushed", "warm", "dropping"} /\ job[q].pc \in {"idle", "flushed", "warm", "dropping"}
        BY <3>2, <1>4
      <4>3. JobHolds(warm, s) = JobHolds(job[q], s)
        BY <4>1, <4>2, <1>4, NeitherHolds
      <4> QED
        BY <3>2, <4>1, <4>3, <1>4 DEF Disposes
    <3>3. CASE job'[q] = job[q]
      BY <3>3 DEF Disposes
    <3> QED
      BY <3>1, <3>2, <3>3, <1>5
  <2>2. Holders(s)' = Holders(s)
    BY <2>1, HoldersKeep DEF SameFor, SameSession, Unlock
  <2> QED
    BY <2>1, <2>2, HoldersFinite DEF SameDisposal, IInv
<1> QED
  BY <1>6, <1>7, <1>8, <1>9, SameCounts DEF Unlock

LEMMA Pairs ==
    ASSUME NEW a, NEW b
    PROVE  <<a>> \o <<>> = <<a>> /\ <<a>> \o <<b>> = <<a, b>>
<1>1. <<a>> \o <<>> = <<a>>
  BY SMT
<1>2. <<a>> \o <<b>> = <<a, b>>
  <2> DEFINE u == <<a>> \o <<b>>
             v == <<a, b>>
  <2>1. <<a>> \in Seq({a, b}) /\ <<b>> \in Seq({a, b}) /\ v \in Seq({a, b})
    BY SMT
  <2>2. Len(<<a>>) = 1 /\ Len(<<b>>) = 1 /\ <<a>>[1] = a /\ <<b>>[1] = b
    OBVIOUS
  <2>3. Len(v) = 2 /\ v[1] = a /\ v[2] = b
    OBVIOUS
  <2>4. /\ u \in Seq({a, b}) /\ Len(u) = 2
        /\ \A i \in 1 .. 2 : u[i] = IF i <= 1 THEN <<a>>[i] ELSE <<b>>[i - 1]
    BY <2>1, <2>2, SMT
  <2> HIDE DEF u, v
  <2>5. u[1] = a /\ u[2] = b
    BY <2>2, <2>4, SMT
  <2>6. \A i \in 1 .. Len(u) : u[i] = v[i]
    BY <2>3, <2>4, <2>5, SMT
  <2>7. u = v
    BY <2>1, <2>3, <2>4, <2>6, SMT
  <2> QED
    BY <2>7 DEF u, v
<1> QED
  BY <1>1, <1>2

(* The session's reference passes from one snapshot to its clone, or the   *)
(* clone's reference is given up.                                          *)
LEMMA StepAdopt ==
    ASSUME IInv, load' = load, NEW p \in Procs, adoptSnapshotChange(p)
    PROVE  IInv'
<1> DEFINE b == job[p].base
           n == job[p].new
           loser == IF current = b THEN b ELSE n
           cloned == job[p].pc = "cloned"
           drops == IF cloned THEN <<Drop(loser), Drop(b)>> ELSE <<Drop(loser)>>
           j == [job[p] EXCEPT !.pc = "dropping", !.new = None, !.drops = drops]
<1>1. /\ job[p] \in Job /\ job[p].drops = <<>> /\ job[p].pc \in {"adopt", "cloned"} /\ TypeOK
      /\ Made(job[p]) /\ mu = None
      /\ Uses(job[p]) <=> cloned
  BY NothingDropped DEF adoptSnapshotChange, IInv, Uses, Made
<1>2. b \in Ids /\ n \in Ids /\ b # n /\ loser \in Ids
  BY <1>1 DEF IInv, JobOK
<1>3. /\ <<Drop(loser)>> \o <<>> = <<Drop(loser)>>
      /\ <<Drop(loser)>> \o <<Drop(b)>> = <<Drop(loser), Drop(b)>>
  BY Pairs
<1>4. drops \in Seq(Drops)
  BY <1>2, DroppedNew
<1>5. Go(p, j) /\ current' = IF current = b THEN n ELSE current
  BY <1>3 DEF adoptSnapshotChange
<1> HIDE DEF drops
<1>6. j \in Job /\ j.pc = "dropping" /\ j.kind = job[p].kind /\ j.drops = drops
  BY <1>1, <1>4 DEF Job, PCs
<1> HIDE DEF b, n, j, loser, cloned
<1>7. /\ job' \in [Procs -> Job] /\ job'[p] = j
      /\ \A q \in Procs : q # p => job'[q] = job[q]
  BY <1>1, <1>5, <1>6, OneJob
<1>8. TypeOK'
  BY <1>2, <1>5, <1>7 DEF IInv, TypeOK, adoptSnapshotChange
<1>9. JobOK(job[p])'
  <2>1. \A k \in 2 .. Len(drops) : ~drops[k].dispose
    <3>1. CASE cloned
      <4>1. drops = <<Drop(loser), Drop(b)>> /\ Len(drops) = 2 /\ drops[2] = Drop(b)
        BY <3>1 DEF drops
      <4> QED
        BY <4>1, SMT DEF Drop
    <3>2. CASE ~cloned
      <4>1. drops = <<Drop(loser)>> /\ Len(drops) = 1
        BY <3>2 DEF drops
      <4> QED
        BY <4>1, SMT
    <3> QED
      BY <3>1, <3>2
  <2> QED
    BY <1>1, <1>6, <1>7, <2>1 DEF JobOK, Kinds, IInv
<1>10. \A q \in Procs : JobOK(job[q])'
  BY <1>7, <1>9, OtherJobs
<1>11. \A q \in Procs : Locked(q)'
  <2>1. \A q \in Procs : job[q].pc # "installed"
    BY <1>1, NoneIsNoProc DEF IInv, Locked
  <2> QED
    BY <1>1, <1>6, <1>7, <2>1 DEF IInv, Locked, adoptSnapshotChange
<1>12. ASSUME NEW s \in Ids
       PROVE  /\ SameDisposal(s) /\ IsFiniteSet(Holders(s))'
              /\ Cardinality(Holders(s))' = Cardinality(Holders(s))
  <2>1. SameDisposal(s)
    <3>1. ~Disposes(p, s)
      BY <1>1 DEF Disposes
    <3>2. ~Disposes(p, s)'
      BY <1>6, <1>7, DropsDisposeNothing DEF Disposes, drops
    <3> QED
      BY <3>1, <3>2, <1>7, DisposalKeep
  <2>2. SameFor(s, {p}) /\ IsFiniteSet(Holders(s))
    BY <1>7, HoldersFinite DEF SameFor, IInv
  <2>3. JobHolds(job[p], s) = (IF cloned /\ b = s THEN {0} ELSE {}) \cup (IF n = s THEN {-1} ELSE {})
    BY <1>1, HoldsNow DEF b, n
  <2>4. JobHolds(job'[p], s) =
           IF cloned THEN (IF b = s THEN {1} ELSE {}) \cup (IF loser = s THEN {2} ELSE {})
                     ELSE IF loser = s THEN {1} ELSE {}
    <3>1. JobHolds(job'[p], s) = Dropped(drops, s)
      BY <1>6, <1>7, HoldsDropping
    <3>2. CASE cloned
      BY <3>1, <3>2, <1>2, DroppedTwo, SMT DEF drops
    <3>3. CASE ~cloned
      BY <3>1, <3>3, <1>2, DroppedOne DEF drops
    <3> QED
      BY <3>2, <3>3
  <2>5. CASE current # b
    <3>1. SameSession(s) /\ loser = n
      BY <1>5, <2>5 DEF SameSession, loser
    <3>2. CASE n = s
      <4>1. JobHolds(job[p], s) = {-1} /\ JobHolds(job'[p], s) = {IF cloned THEN 2 ELSE 1}
        BY <3>1, <3>2, <1>2, <2>3, <2>4
      <4>2. PICK k : JobHolds(job'[p], s) = {k} /\ k \in {1, 2}
        BY <4>1
      <4>3. /\ -1 \in JobHolds(job[p], s) /\ k \notin JobHolds(job[p], s)
            /\ JobHolds(job'[p], s) = (JobHolds(job[p], s) \ {-1}) \cup {k}
        BY <4>1, <4>2, SMT
      <4> QED
        BY <3>1, <4>3, <2>1, <2>2, HoldersMove
    <3>3. CASE b = s /\ cloned
      <4>1. n # s
        BY <3>3, <1>2
      <4>2. JobHolds(job[p], s) = {0} /\ JobHolds(job'[p], s) = {1}
        BY <3>1, <3>3, <4>1, <2>3, <2>4
      <4>3. /\ 0 \in JobHolds(job[p], s) /\ 1 \notin JobHolds(job[p], s)
            /\ JobHolds(job'[p], s) = (JobHolds(job[p], s) \ {0}) \cup {1}
        BY <4>2, SMT
      <4> QED
        BY <3>1, <4>3, <2>1, <2>2, HoldersMove
    <3>4. CASE n # s /\ ~(b = s /\ cloned)
      <4>1. JobHolds(job'[p], s) = JobHolds(job[p], s)
        BY <3>1, <3>4, <2>3, <2>4
      <4>2. SameFor(s, {})
        BY <4>1, <2>2 DEF SameFor
      <4> QED
        BY <3>1, <4>2, <2>1, <2>2, HoldersKeep
    <3> QED
      BY <3>2, <3>3, <3>4
  <2>6. CASE current = b /\ n = s
    <3>1. current # s /\ current' = s /\ loser # s /\ b # s
      BY <1>2, <1>5, <2>6 DEF loser
    <3>2. JobHolds(job[p], s) = {-1} /\ JobHolds(job'[p], s) = {}
      BY <3>1, <2>3, <2>4, <2>6
    <3>3. <<p, -1>> \in Holders(s) /\ <<None, 0>> \in Holders(s)'
      BY <3>1, <3>2, HoldersElement, HoldersElementNext
    <3>4. <<None, 0>> \notin Holders(s)
      BY <3>1, NoneIsNoProc, HoldersElement, SMT
    <3>5. <<p, -1>> \notin Holders(s)'
      BY <3>2, NoneIsNoProc, HoldersElementNext, SMT
    <3>6. ASSUME NEW h, h \in Holders(s), h # <<p, -1>> PROVE h \in Holders(s)'
      BY <3>1, <3>2, <3>6, <2>2, HoldersElement, HoldersElementNext, SMT DEF SameFor
    <3>7. ASSUME NEW h, h \in Holders(s)', h # <<None, 0>> PROVE h \in Holders(s)
      BY <3>1, <3>2, <3>7, <2>2, HoldersElement, HoldersElementNext, SMT DEF SameFor
    <3>8. Holders(s)' = (Holders(s) \ {<<p, -1>>}) \cup {<<None, 0>>}
      BY <3>3, <3>5, <3>6, <3>7
    <3> QED
      BY <3>3, <3>4, <3>8, <2>1, <2>2, SetSwap, SMT
  <2>7. CASE current = b /\ b = s
    <3> DEFINE k == IF cloned THEN 2 ELSE 1
               H == (Holders(s) \ {<<None, 0>>}) \cup {<<p, k>>}
    <3>1. current = s /\ current' # s /\ loser = s /\ n # s
      BY <1>2, <1>5, <2>7 DEF loser
    <3>2. <<None, 0>> \in Holders(s) /\ <<None, 0>> \notin Holders(s)' /\ p # None
      BY <3>1, NoneIsNoProc, HoldersElement, HoldersElementNext, SMT
    <3>3. JobHolds(job[p], s) = (IF cloned THEN {0} ELSE {})
      BY <3>1, <2>3, <2>7
    <3>4. JobHolds(job'[p], s) = (IF cloned THEN {1, 2} ELSE {1})
      BY <3>1, <2>4, <2>7
    <3>5. <<p, k>> \notin Holders(s)
      BY <3>2, <3>3, HoldersElement, SMT
    <3>6. IsFiniteSet(H) /\ Cardinality(H) = Cardinality(Holders(s))
      BY <3>2, <3>5, <2>2, SetSwap
    <3>7. ASSUME NEW h, h \in Holders(s), h # <<None, 0>>, h # <<p, 0>> PROVE h \in Holders(s)'
      BY <3>1, <3>3, <3>7, <2>2, HoldersElement, HoldersElementNext, SMT DEF SameFor
    <3>8. ASSUME NEW h, h \in Holders(s)', h # <<p, 1>>, h # <<p, 2>> PROVE h \in Holders(s)
      BY <3>1, <3>4, <3>8, <2>2, HoldersElement, HoldersElementNext, SMT DEF SameFor
    <3>9. CASE ~cloned
      <4>1. <<p, 1>> \in Holders(s)' /\ <<p, 2>> \notin Holders(s)' /\ <<p, 0>> \notin Holders(s)
        BY <3>2, <3>3, <3>4, <3>9, HoldersElement, HoldersElementNext, SMT
      <4>2. Holders(s)' = H
        BY <4>1, <3>2, <3>7, <3>8, <3>9
      <4> QED
        BY <4>2, <3>6, <2>1, SMT
    <3>10. CASE cloned
      <4>1. /\ <<p, 1>> \in Holders(s)' /\ <<p, 2>> \in Holders(s)' /\ <<p, 0>> \notin Holders(s)'
            /\ <<p, 0>> \in Holders(s) /\ <<p, 1>> \notin Holders(s)
        BY <3>2, <3>3, <3>4, <3>10, HoldersElement, HoldersElementNext, SMT
      <4>2. <<p, 0>> \in H /\ <<p, 1>> \notin H
        BY <4>1, <3>2, <3>10, SMT
      <4>3. Holders(s)' = (H \ {<<p, 0>>}) \cup {<<p, 1>>}
        BY <4>1, <3>2, <3>7, <3>8, <3>10
      <4> HIDE DEF H
      <4> QED
        BY <4>2, <4>3, <3>6, <2>1, SetSwap, SMT
    <3> QED
      BY <3>9, <3>10
  <2>8. CASE current = b /\ b # s /\ n # s
    <3>1. SameSession(s) /\ loser # s
      BY <1>5, <2>8 DEF SameSession, loser
    <3>2. JobHolds(job'[p], s) = JobHolds(job[p], s)
      BY <3>1, <2>3, <2>4, <2>8
    <3>3. SameFor(s, {})
      BY <3>2, <2>2 DEF SameFor
    <3> QED
      BY <3>1, <3>3, <2>1, <2>2, HoldersKeep
  <2> QED
    BY <2>5, <2>6, <2>7, <2>8
<1> QED
  BY <1>8, <1>10, <1>11, <1>12, SameCounts DEF adoptSnapshotChange

----------------------------------------------------------------------------
(* Steps that take a reference *)

(* One more reference to b, in the next state.                             *)
LEMMA OneMore ==
    ASSUME TypeOK, NEW b \in Ids, snapshots[b] # None,
           snapshots' = [snapshots EXCEPT ![b].refs = @ + 1]
    PROVE  /\ snapshots' \in [Ids -> Snapshot \cup {None}] /\ snapshots'[b] # None
           /\ snapshots'[b].refs = snapshots[b].refs + 1
           /\ snapshots'[b].program = snapshots[b].program
           /\ snapshots'[b].overlays = snapshots[b].overlays
           /\ snapshots'[b].prefs = snapshots[b].prefs
           /\ \A s \in Ids : s # b => snapshots'[s] = snapshots[s]
<1> DEFINE x == [snapshots[b] EXCEPT !.refs = @ + 1]
<1>1. snapshots[b] \in Snapshot
  BY DEF TypeOK
<1>2. /\ x \in Snapshot /\ x.refs = snapshots[b].refs + 1 /\ x.program = snapshots[b].program
      /\ x.overlays = snapshots[b].overlays /\ x.prefs = snapshots[b].prefs
  BY <1>1, SMT DEF Snapshot
<1>3. snapshots'[b] = x /\ \A s \in Ids : s # b => snapshots'[s] = snapshots[s]
  BY DEF TypeOK
<1>4. snapshots' \in [Ids -> Snapshot \cup {None}]
  BY <1>2 DEF TypeOK
<1>5. x # None
  BY <1>2, LifecycleAssumption
<1> HIDE DEF x
<1> QED
  BY <1>2, <1>3, <1>4, <1>5

LEMMA GainStep ==
    ASSUME IInv, TypeOK', load' = load, UNCHANGED <<programs, current>>, ~panicked',
           NEW p \in Procs, \A q \in Procs : q # p => job'[q] = job[q],
           job[p].drops = <<>>, job'[p].drops = <<>>,
           NEW b \in Ids, snapshots[b] # None, snapshots[b].refs \in Nat \ {0},
           snapshots' = [snapshots EXCEPT ![b].refs = @ + 1],
           \A s \in Ids : JobHolds(job[p], s) = {},
           \A s \in Ids : JobHolds(job'[p], s) = IF b = s THEN {0} ELSE {},
           JobOK(job[p])', \A q \in Procs : Locked(q)'
    PROVE  IInv'
<1>1. TypeOK
  BY DEF IInv
<1>2. /\ snapshots'[b] # None /\ snapshots'[b].refs = snapshots[b].refs + 1
      /\ snapshots'[b].program = snapshots[b].program
      /\ \A s \in Ids : s # b => snapshots'[s] = snapshots[s]
  BY <1>1, OneMore
<1>3. ASSUME NEW s \in Ids PROVE Alive(s)'
  <2>1. SameDisposal(s)
    BY DEF SameDisposal, Disposes
  <2>2. Alive(s) /\ SameSession(s) /\ SameFor(s, {p})
    BY DEF IInv, SameSession, SameFor
  <2>3. IsFiniteSet(Holders(s))
    BY <2>2, HoldersFinite
  <2>4. CASE s = b
    <3>1. IsFiniteSet(Holders(s))' /\ Cardinality(Holders(s))' = Cardinality(Holders(s)) + 1
      BY <2>2, <2>3, <2>4, HoldersGain
    <3>2. snapshots[s] \in Snapshot
      BY <1>1, <2>4 DEF TypeOK
    <3> QED
      BY <3>1, <3>2, <1>2, <2>1, <2>2, <2>4, AliveGain
  <2>5. CASE s # b
    <3>1. SameFor(s, {})
      BY <2>2, <2>5 DEF SameFor
    <3> QED
      BY <3>1, <1>2, <2>1, <2>2, <2>5, HoldersKeep, AliveSame
  <2> QED
    BY <2>4, <2>5
<1>4. \A s \in Ids : Counted(s)'
  <2>1. \A s \in Ids : /\ snapshots'[s] # None <=> snapshots[s] # None
                       /\ snapshots[s] # None => snapshots'[s].program = snapshots[s].program
    BY <1>2
  <2>2. \A s \in Ids : Counted(s)
    BY DEF IInv
  <2> QED
    BY <2>1, <2>2, CountedKeep
<1>5. \A q \in Procs : JobOK(job[q])'
  BY OtherJobs
<1> QED
  BY <1>3, <1>4, <1>5 DEF IInv

(* ref finds the current snapshot alive.                                   *)
LEMMA RefSafe ==
    ASSUME IInv, ref(current)
    PROVE  ~panicked' /\ panicked' \in BOOLEAN
<1>1. ~(snapshots[current].refs <= 0)
  <2>1. snapshots[current].refs \in Nat \ {0}
    BY CurrentAlive
  <2> QED
    BY <2>1, SMT
<1>2. ~panicked
  BY DEF IInv
<1>3. panicked' = (panicked \/ snapshots[current].refs <= 0)
  BY DEF ref
<1> QED
  BY <1>1, <1>2, <1>3

LEMMA StepRefCurrent ==
    ASSUME IInv, load' = load, NEW p \in Procs, RefCurrent(p)
    PROVE  IInv'
<1> DEFINE j == [Idle EXCEPT !.pc = "using", !.kind = "global", !.base = current]
<1>1. job[p] \in Job /\ job[p].drops = <<>> /\ job[p].pc = "idle" /\ TypeOK
  BY NothingDropped DEF RefCurrent, IInv
<1>2. current \in Ids /\ snapshots[current] # None /\ snapshots[current].refs \in Nat \ {0}
  BY CurrentAlive
<1>3. /\ j \in Job /\ j.pc = "using" /\ j.kind = "global" /\ j.base = current /\ j.drops = <<>>
  BY <1>2, DroppedNew DEF Idle, Job, PCs, AllKinds
<1>4. Go(p, j) /\ snapshots' = [snapshots EXCEPT ![current].refs = @ + 1]
  BY DEF RefCurrent, ref
<1> HIDE DEF j
<1>5. /\ job' \in [Procs -> Job] /\ job'[p] = j
      /\ \A q \in Procs : q # p => job'[q] = job[q]
  BY <1>1, <1>3, <1>4, OneJob
<1>6. ~panicked' /\ panicked' \in BOOLEAN
  BY RefSafe DEF RefCurrent
<1>7. snapshots' \in [Ids -> Snapshot \cup {None}]
  BY <1>1, <1>2, <1>4, OneMore
<1>8. TypeOK'
  BY <1>5, <1>6, <1>7 DEF IInv, TypeOK, RefCurrent
<1>9. \A s \in Ids : JobHolds(job[p], s) = {}
  BY <1>1, IdleHolds DEF Uses, Made
<1>10. \A s \in Ids : JobHolds(job'[p], s) = IF current = s THEN {0} ELSE {}
  <2>1. Uses(j) /\ ~Made(j)
    BY <1>3 DEF Uses, Made
  <2> QED
    BY <2>1, <1>3, <1>5, HoldsNow
<1>11. JobOK(job[p])'
  BY <1>2, <1>3, <1>5, SMT DEF JobOK, Kinds
<1>12. \A q \in Procs : Locked(q)'
  BY <1>1, <1>3, <1>5 DEF IInv, Locked, RefCurrent
<1> QED
  BY <1>1, <1>2, <1>3, <1>4, <1>5, <1>6, <1>8, <1>9, <1>10, <1>11, <1>12, GainStep DEF RefCurrent

LEMMA StepReuse ==
    ASSUME IInv, load' = load, NEW p \in Procs, Reuse(p)
    PROVE  IInv'
<1> DEFINE j == Obtained([job[p] EXCEPT !.base = current])
<1>1. job[p] \in Job /\ job[p].drops = <<>> /\ job[p].pc = "flushed" /\ TypeOK
  BY NothingDropped DEF Reuse, IInv
<1>2. current \in Ids /\ snapshots[current] # None /\ snapshots[current].refs \in Nat \ {0}
  BY CurrentAlive
<1>3. /\ j \in Job /\ j.drops = <<>>
      /\ CallerRef(job[p].kind) => j.pc = "using" /\ j.base = current /\ j.kind = job[p].kind
      /\ ~CallerRef(job[p].kind) => j.pc = "idle" /\ j.kind = "plain"
  BY <1>1, <1>2, IdleType DEF Obtained, Job, PCs
<1>4. Go(p, j)
  BY DEF Reuse
<1> HIDE DEF j
<1>5. /\ job' \in [Procs -> Job] /\ job'[p] = j
      /\ \A q \in Procs : q # p => job'[q] = job[q]
  BY <1>1, <1>3, <1>4, OneJob
<1>6. JobOK(job[p])'
  <2>1. CASE CallerRef(job[p].kind)
    BY <2>1, <1>1, <1>2, <1>3, <1>5 DEF IInv, JobOK, Kinds
  <2>2. CASE ~CallerRef(job[p].kind)
    BY <2>2, <1>3, <1>5, SMT DEF JobOK, Kinds
  <2> QED
    BY <2>1, <2>2
<1>7. \A q \in Procs : Locked(q)'
  <2>1. updateMu = p /\ updateMu' = None /\ mu' = mu /\ current' = current
    BY <1>1 DEF IInv, Locked, Reuse
  <2>2. Locked(p)'
    BY <2>1, <1>1, <1>3, <1>5, NoneIsNoProc DEF IInv, Locked
  <2> QED
    BY <2>1, <2>2, <1>5, NoneIsNoProc, SMT DEF IInv, Locked
<1>8. \A s \in Ids : JobHolds(job[p], s) = {}
  BY <1>1, IdleHolds DEF Uses, Made
<1>9. CASE CallerRef(job[p].kind)
  <2>1. snapshots' = [snapshots EXCEPT ![current].refs = @ + 1]
    BY <1>9 DEF Reuse, ref
  <2>2. ~panicked' /\ panicked' \in BOOLEAN
    BY <1>9, RefSafe DEF Reuse
  <2>3. snapshots' \in [Ids -> Snapshot \cup {None}]
    BY <1>1, <1>2, <2>1, OneMore
  <2>4. TypeOK'
    BY <1>5, <2>2, <2>3 DEF IInv, TypeOK, Reuse
  <2>5. \A s \in Ids : JobHolds(job'[p], s) = IF current = s THEN {0} ELSE {}
    <3>1. Uses(j) /\ ~Made(j)
      BY <1>3, <1>9 DEF Uses, Made
    <3> QED
      BY <3>1, <1>3, <1>5, <1>9, HoldsNow, SMT
  <2> QED
    BY <1>1, <1>2, <1>3, <1>5, <1>6, <1>7, <1>8, <2>1, <2>2, <2>4, <2>5, GainStep DEF Reuse
<1>10. CASE ~CallerRef(job[p].kind)
  <2>1. UNCHANGED <<snapshots, programs, current, panicked>>
    BY <1>10 DEF Reuse
  <2>2. TypeOK'
    BY <1>5, <2>1 DEF IInv, TypeOK, Reuse
  <2>3. \A s \in Ids : JobHolds(job'[p], s) = JobHolds(job[p], s)
    <3>1. ~Uses(j) /\ ~Made(j)
      BY <1>3, <1>10 DEF Uses, Made
    <3> QED
      BY <3>1, <1>3, <1>5, <1>8, IdleHolds
  <2> QED
    BY <1>1, <1>3, <1>5, <1>6, <1>7, <2>1, <2>2, <2>3, QuietStep
<1> QED
  BY <1>9, <1>10

LEMMA StepTryRef ==
    ASSUME IInv, load' = load, NEW p \in Procs, tryRef(p)
    PROVE  IInv'
<1> DEFINE b == job[p].base
           alive == snapshots[b] # None /\ snapshots[b].refs > 0
           j == IF alive THEN [job[p] EXCEPT !.pc = "cloning"] ELSE Idle
<1>1. job[p] \in Job /\ job[p].drops = <<>> /\ job[p].pc = "warm" /\ TypeOK
  BY NothingDropped DEF tryRef, IInv
<1>2. b \in Ids /\ (alive => snapshots[b].refs \in Nat \ {0})
  BY <1>1, SMT DEF IInv, JobOK, TypeOK, Snapshot
<1>3. /\ j \in Job /\ j.drops = <<>>
      /\ alive => j.pc = "cloning" /\ j.base = b /\ j.kind = job[p].kind
      /\ ~alive => j.pc = "idle" /\ j.kind = "plain"
  BY <1>1, <1>2, IdleType DEF Job, PCs
<1>4. /\ Go(p, j) /\ UNCHANGED <<programs, current, panicked, mu, updateMu>>
      /\ snapshots' = IF alive THEN [snapshots EXCEPT ![b].refs = @ + 1] ELSE snapshots
  BY DEF tryRef
<1> HIDE DEF j
<1>5. /\ job' \in [Procs -> Job] /\ job'[p] = j
      /\ \A q \in Procs : q # p => job'[q] = job[q]
  BY <1>1, <1>3, <1>4, OneJob
<1>6. JobOK(job[p])'
  <2>1. CASE alive
    BY <2>1, <1>1, <1>2, <1>3, <1>5 DEF IInv, JobOK, Kinds
  <2>2. CASE ~alive
    BY <2>2, <1>3, <1>5, SMT DEF JobOK, Kinds
  <2> QED
    BY <2>1, <2>2
<1>7. \A q \in Procs : Locked(q)'
  BY <1>1, <1>3, <1>4, <1>5 DEF IInv, Locked
<1>8. \A s \in Ids : JobHolds(job[p], s) = {}
  BY <1>1, IdleHolds DEF Uses, Made
<1>9. CASE alive
  <2>1. snapshots' = [snapshots EXCEPT ![b].refs = @ + 1] /\ snapshots[b] # None
    BY <1>4, <1>9
  <2>2. ~panicked' /\ snapshots[b].refs \in Nat \ {0}
    BY <1>2, <1>4, <1>9 DEF IInv
  <2>3. snapshots' \in [Ids -> Snapshot \cup {None}]
    BY <1>1, <1>2, <2>1, OneMore
  <2>4. TypeOK'
    BY <1>5, <2>3 DEF IInv, TypeOK, tryRef
  <2>5. \A s \in Ids : JobHolds(job'[p], s) = IF b = s THEN {0} ELSE {}
    <3>1. Uses(j) /\ ~Made(j) /\ j.base = b
      BY <1>3, <1>9 DEF Uses, Made
    <3> HIDE DEF alive
    <3> QED
      BY <3>1, <1>3, <1>5, HoldsNow, SMT
  <2> HIDE DEF alive, b
  <2> QED
    BY <1>1, <1>2, <1>3, <1>4, <1>5, <1>6, <1>7, <1>8, <2>1, <2>2, <2>4, <2>5, GainStep
<1>10. CASE ~alive
  <2>1. UNCHANGED <<snapshots, programs, current, panicked>>
    BY <1>4, <1>10
  <2>2. TypeOK'
    BY <1>5, <2>1 DEF IInv, TypeOK, tryRef
  <2>3. \A s \in Ids : JobHolds(job'[p], s) = JobHolds(job[p], s)
    <3>1. ~Uses(j) /\ ~Made(j)
      BY <1>3, <1>10 DEF Uses, Made
    <3> QED
      BY <3>1, <1>3, <1>5, <1>8, IdleHolds
  <2> HIDE DEF alive, b
  <2> QED
    BY <1>1, <1>3, <1>5, <1>6, <1>7, <2>1, <2>2, <2>3, QuietStep
<1> QED
  BY <1>9, <1>10


----------------------------------------------------------------------------
(* Steps that make a snapshot *)

(* Nothing refers to a name that is free.                                  *)
LEMMA FreeId ==
    ASSUME IInv, NEW i \in Free
    PROVE  /\ i \in Ids /\ snapshots[i] = None /\ Holders(i) = {} /\ i # current
           /\ \A p \in Procs : /\ ~Disposes(p, i) /\ JobHolds(job[p], i) = {}
                               /\ job[p].base # i /\ job[p].new # i
<1>1. i \in Ids /\ snapshots[i] = None /\ \A p \in Procs : job[p].base # i /\ job[p].new # i
  BY DEF Free
<1>2. Alive(i)
  BY <1>1 DEF IInv
<1>3. Holders(i) = {} /\ \A p \in Procs : ~Disposes(p, i)
  BY <1>1, <1>2 DEF Alive
<1>4. i # current
  BY <1>1, CurrentAlive
<1>5. \A p \in Procs : JobHolds(job[p], i) = {}
  BY <1>3, NoHolders
<1> QED
  BY <1>1, <1>3, <1>4, <1>5

LEMMA StepClone ==
    ASSUME IInv, load' = load, NEW p \in Procs, NEW i \in Ids, Clone(p, i)
    PROVE  IInv'
<1> DEFINE b == job[p].base
           j == [job[p] EXCEPT !.pc = "cloned", !.new = i]
<1>1. /\ job[p] \in Job /\ job[p].drops = <<>> /\ job[p].pc = "cloning" /\ TypeOK
      /\ Uses(job[p]) /\ ~Made(job[p]) /\ i \in Free
  BY NothingDropped DEF Clone, IInv, Uses, Made, NewId
<1>2. b \in Ids /\ snapshots[b] # None /\ snapshots[b].overlays \in Nat /\ snapshots[b].prefs \in Nat
  BY <1>1, BaseAlive DEF Snapshot
<1>3. b # i
  BY <1>1, FreeId
<1>4. /\ j.pc = "cloned" /\ j.kind = job[p].kind /\ j.drops = <<>> /\ j.base = b /\ j.new = i
      /\ j \in Job
  BY <1>1 DEF Job, PCs
<1>5. Go(p, j) /\ NewSnapshot(i, b, snapshots[b].overlays, snapshots[b].prefs, 1)
  BY DEF Clone
<1> HIDE DEF b, j
<1>6. /\ job' \in [Procs -> Job] /\ job'[p] = j
      /\ \A q \in Procs : q # p => job'[q] = job[q]
  BY <1>1, <1>4, <1>5, OneJob
<1>7. /\ snapshots[i] = None /\ snapshots'[i] # None /\ snapshots'[i].refs = 1
      /\ snapshots' \in [Ids -> Snapshot \cup {None}] /\ programs' \in [Ids -> Nat]
      /\ \A s \in Ids : s # i => snapshots'[s] = snapshots[s]
      /\ \A s \in Ids : Counted(s)'
  BY <1>1, <1>2, <1>5, CountedNew
<1>8. TypeOK'
  BY <1>6, <1>7 DEF IInv, TypeOK, Clone
<1>9. \A q \in Procs : JobOK(job[q])'
  <2>1. JobOK(job[p])'
    BY <1>1, <1>2, <1>3, <1>4, <1>6 DEF IInv, JobOK, Kinds
  <2> QED
    BY <2>1, <1>6, OtherJobs
<1>10. \A q \in Procs : Locked(q)'
  BY <1>1, <1>4, <1>6 DEF IInv, Locked, Clone
<1>11. ASSUME NEW s \in Ids PROVE Alive(s)'
  <2>1. SameDisposal(s)
    BY <1>1, <1>4, <1>6 DEF SameDisposal, Disposes
  <2>2. Alive(s) /\ SameSession(s) /\ SameFor(s, {p})
    BY <1>6 DEF IInv, SameSession, SameFor, Clone
  <2>3. JobHolds(job[p], s) = IF b = s THEN {0} ELSE {}
    BY <1>1, HoldsNow DEF b
  <2>4. JobHolds(job'[p], s) = (IF b = s THEN {0} ELSE {}) \cup (IF i = s THEN {-1} ELSE {})
    <3>1. Uses(j) /\ Made(j)
      BY <1>4 DEF Uses, Made
    <3> QED
      BY <3>1, <1>4, <1>6, HoldsNow
  <2>5. CASE s = i
    <3>1. /\ IsFiniteSet(Holders(i)) /\ Cardinality(Holders(i)) = 0
          /\ \A q \in Procs : ~Disposes(q, i)
      BY <1>1, FreeId, FS_EmptySet
    <3>2. IsFiniteSet(Holders(i))' /\ Cardinality(Holders(i))' = Cardinality(Holders(i)) + 1
      BY <3>1, <1>3, <2>2, <2>3, <2>4, <2>5, HoldersGain
    <3>3. \A q \in Procs : ~Disposes(q, i)'
      BY <3>1, <2>1, <2>5 DEF SameDisposal
    <3>4. Cardinality(Holders(i))' = 1
      BY <3>1, <3>2, SMT
    <3> QED
      BY <3>2, <3>3, <3>4, <1>7, <2>5, SMT DEF Alive
  <2>6. CASE s # i
    <3>1. SameFor(s, {})
      BY <2>2, <2>3, <2>4, <2>6 DEF SameFor
    <3> QED
      BY <3>1, <1>7, <2>1, <2>2, <2>6, HoldersKeep, AliveSame
  <2> QED
    BY <2>5, <2>6
<1>12. ~panicked'
  BY DEF IInv, Clone
<1> QED
  BY <1>7, <1>8, <1>9, <1>10, <1>11, <1>12 DEF IInv

LEMMA StepUpdateSnapshot ==
    ASSUME IInv, load' = load, NEW p \in Procs, NEW i \in Ids, updateSnapshot(p, i)
    PROVE  IInv'
<1> DEFINE c == current
           j == [job[p] EXCEPT !.pc = "installed", !.base = i, !.drops = <<Drop(c)>>]
           r == IF CallerRef(job[p].kind) THEN 2 ELSE 1
           pf == IF job[p].prefs = None THEN snapshots[c].prefs ELSE job[p].prefs
<1>1. /\ job[p] \in Job /\ job[p].drops = <<>> /\ job[p].pc = "flushed" /\ TypeOK /\ i \in Free
      /\ mu = None
  BY NothingDropped DEF updateSnapshot, IInv, NewId
<1>2. c \in Ids /\ snapshots[c] # None /\ snapshots[c].prefs \in Nat /\ c # i
  BY <1>1, CurrentAlive, FreeId DEF Snapshot
<1>3. /\ j.pc = "installed" /\ j.kind = job[p].kind /\ j.drops = <<Drop(c)>> /\ j.base = i
      /\ j \in Job
  BY <1>1, <1>2, DroppedNew DEF Job, PCs
<1>4. job[p].overlays \in Nat /\ pf \in Nat /\ r \in Nat
  BY <1>1, <1>2 DEF Job
<1>5. Go(p, j) /\ NewSnapshot(i, c, job[p].overlays, pf, r) /\ current' = i /\ mu' = p
  BY DEF updateSnapshot
<1> HIDE DEF c, j, pf
<1>6. /\ job' \in [Procs -> Job] /\ job'[p] = j
      /\ \A q \in Procs : q # p => job'[q] = job[q]
  BY <1>1, <1>3, <1>5, OneJob
<1>7. /\ snapshots[i] = None /\ snapshots'[i] # None /\ snapshots'[i].refs = r
      /\ snapshots' \in [Ids -> Snapshot \cup {None}] /\ programs' \in [Ids -> Nat]
      /\ \A s \in Ids : s # i => snapshots'[s] = snapshots[s]
      /\ \A s \in Ids : Counted(s)'
  <2> HIDE DEF r
  <2> QED
    BY <1>1, <1>2, <1>4, <1>5, CountedNew
<1>8. TypeOK'
  BY <1>5, <1>6, <1>7 DEF IInv, TypeOK, updateSnapshot
<1>9. \A q \in Procs : JobOK(job[q])'
  <2>1. Len(j.drops) = 1
    BY <1>2, <1>3, DroppedNew
  <2>2. JobOK(job[p])'
    BY <2>1, <1>1, <1>3, <1>6, SMT DEF IInv, JobOK, Kinds
  <2> QED
    BY <2>2, <1>6, OtherJobs
<1>10. \A q \in Procs : Locked(q)'
  <2>1. \A q \in Procs : job[q].pc # "installed"
    BY <1>1, NoneIsNoProc DEF IInv, Locked
  <2>2. updateMu' = updateMu
    BY DEF updateSnapshot
  <2>3. Locked(p)'
    BY <2>2, <1>1, <1>3, <1>5, <1>6 DEF IInv, Locked
  <2> QED
    BY <2>1, <2>2, <2>3, <1>5, <1>6, SMT DEF IInv, Locked
<1>11. ASSUME NEW s \in Ids PROVE Alive(s)'
  <2>1. SameDisposal(s)
    <3>1. ~Disposes(p, s) /\ ~Disposes(p, s)'
      BY <1>1, <1>3, <1>6, DropsDisposeNothing DEF Disposes
    <3> QED
      BY <3>1, <1>6, DisposalKeep
  <2>2. Alive(s) /\ SameFor(s, {p}) /\ load' = load
    BY <1>6 DEF IInv, SameFor
  <2>3. JobHolds(job[p], s) = {}
    BY <1>1, IdleHolds DEF Uses, Made
  <2>4. JobHolds(job'[p], s) = (IF c = s THEN {1} ELSE {})
                                   \cup (IF CallerRef(job[p].kind) /\ i = s THEN {0} ELSE {})
    <3>1. ~Made(j) /\ (Uses(j) <=> CallerRef(job[p].kind))
      BY <1>3 DEF Uses, Made
    <3>2. Dropped(j.drops, s) = IF c = s THEN {1} ELSE {}
      BY <1>2, <1>3, DroppedOne
    <3> QED
      BY <3>1, <3>2, <1>3, <1>6 DEF JobHolds
  <2>5. CASE s = i
    <3> DEFINE H == {<<None, 0>>} \cup IF CallerRef(job[p].kind) THEN {<<p, 0>>} ELSE {}
    <3>1. Holders(i)' = H
      <4>1. \A q \in Procs : q # p => JobHolds(job'[q], i) = {}
        BY <1>1, <2>2, <2>5, FreeId DEF SameFor
      <4>2. JobHolds(job'[p], i) = IF CallerRef(job[p].kind) THEN {0} ELSE {}
        BY <1>2, <2>4, <2>5
      <4> QED
        BY <4>1, <4>2, <1>5, HoldersElementNext
    <3>2. IsFiniteSet({<<None, 0>>}) /\ Cardinality({<<None, 0>>}) = 1
      BY FS_Singleton
    <3>3. <<p, 0>> \notin {<<None, 0>>}
      BY NoneIsNoProc
    <3>4. IsFiniteSet(H) /\ Cardinality(H) = r
      <4>1. /\ IsFiniteSet({<<None, 0>>} \cup {<<p, 0>>})
            /\ Cardinality({<<None, 0>>} \cup {<<p, 0>>}) = Cardinality({<<None, 0>>}) + 1
        BY <3>2, <3>3, FS_AddElement
      <4>2. CASE CallerRef(job[p].kind)
        <5>1. H = {<<None, 0>>} \cup {<<p, 0>>} /\ r = 2
          BY <4>2
        <5> HIDE DEF H, r
        <5> QED
          BY <5>1, <4>1, <3>2, SMT
      <4>3. CASE ~CallerRef(job[p].kind)
        <5>1. H = {<<None, 0>>} /\ r = 1
          BY <4>3
        <5> HIDE DEF H, r
        <5> QED
          BY <5>1, <3>2
      <4> QED
        BY <4>2, <4>3
    <3>5. \A q \in Procs : ~Disposes(q, i)'
      BY <2>1, <2>5, <1>1, FreeId DEF SameDisposal
    <3>6. r # 0 /\ r <= r
      BY SMT
    <3> HIDE DEF H, r
    <3> QED
      BY <3>1, <3>4, <3>5, <3>6, <1>7, <2>5 DEF Alive
  <2>6. CASE s = c
    <3>1. current = s /\ current' # s
      BY <1>2, <1>5, <2>6 DEF c
    <3>2. JobHolds(job'[p], s) = {1}
      BY <1>2, <2>4, <2>6
    <3>3. <<None, 0>> \in Holders(s) /\ <<p, 1>> \in Holders(s)'
      BY <3>1, <3>2, HoldersElement, HoldersElementNext
    <3>4. <<p, 1>> \notin Holders(s)
      BY <2>3, NoneIsNoProc, HoldersElement, SMT
    <3>5. <<None, 0>> \notin Holders(s)'
      BY <3>1, NoneIsNoProc, HoldersElementNext, SMT
    <3>6. ASSUME NEW h, h \in Holders(s), h # <<None, 0>> PROVE h \in Holders(s)'
      BY <3>1, <3>2, <3>6, <2>2, <2>3, HoldersElement, HoldersElementNext, SMT DEF SameFor
    <3>7. ASSUME NEW h, h \in Holders(s)', h # <<p, 1>> PROVE h \in Holders(s)
      BY <3>1, <3>2, <3>7, <2>2, <2>3, HoldersElement, HoldersElementNext, SMT DEF SameFor
    <3>8. Holders(s)' = (Holders(s) \ {<<None, 0>>}) \cup {<<p, 1>>}
      BY <3>3, <3>5, <3>6, <3>7
    <3>9. IsFiniteSet(Holders(s))' /\ Cardinality(Holders(s))' = Cardinality(Holders(s))
      BY <3>3, <3>4, <3>8, <2>2, HoldersFinite, SetSwap, SMT
    <3> QED
      BY <3>9, <1>2, <1>7, <2>1, <2>2, <2>6, AliveKeep
  <2>7. CASE s # i /\ s # c
    <3>1. SameFor(s, {}) /\ SameSession(s)
      BY <1>5, <2>2, <2>3, <2>4, <2>7 DEF SameFor, SameSession, c
    <3> QED
      BY <3>1, <1>7, <2>1, <2>2, <2>7, HoldersKeep, AliveSame
  <2> QED
    BY <2>5, <2>6, <2>7
<1>12. ~panicked'
  BY DEF IInv, updateSnapshot
<1> QED
  BY <1>7, <1>8, <1>9, <1>10, <1>11, <1>12 DEF IInv

----------------------------------------------------------------------------
(* Steps that release a reference *)

(* A disposal takes the snapshot, and only it, out of the users of its     *)
(* program.                                                                *)
LEMMA CountedDispose ==
    ASSUME IInv, NEW s \in Ids, snapshots[s] # None,
           programs' = [programs EXCEPT ![snapshots[s].program] = @ - 1],
           snapshots' = [snapshots EXCEPT ![s] = None]
    PROVE  /\ snapshots' \in [Ids -> Snapshot \cup {None}] /\ programs' \in [Ids -> Nat]
           /\ snapshots'[s] = None /\ \A i \in Ids : i # s => snapshots'[i] = snapshots[i]
           /\ \A i \in Ids : Counted(i)'
<1> DEFINE g == snapshots[s].program
<1>1. /\ snapshots \in [Ids -> Snapshot \cup {None}] /\ programs \in [Ids -> Nat] /\ g \in Ids
  BY DEF IInv, TypeOK, Snapshot
<1>2. /\ snapshots' \in [Ids -> Snapshot \cup {None}]
      /\ snapshots'[s] = None /\ \A i \in Ids : i # s => snapshots'[i] = snapshots[i]
  BY <1>1
<1>3. \A i \in Ids : programs'[i] = IF i = g THEN programs[i] - 1 ELSE programs[i]
  BY <1>1
<1>4. ASSUME NEW i \in Ids PROVE Counted(i)' /\ programs'[i] \in Nat
  <2>1. Users(i)' = IF i = g THEN Users(i) \ {s} ELSE Users(i)
    BY <1>2 DEF Users
  <2>2. Counted(i) /\ programs[i] \in Nat
    BY <1>1 DEF IInv
  <2>3. CASE i = g
    <3>1. s \in Users(i)
      BY <2>3 DEF Users
    <3>2. IsFiniteSet(Users(i) \ {s}) /\ Cardinality(Users(i) \ {s}) = Cardinality(Users(i)) - 1
      BY <3>1, <2>2, FS_RemoveElement DEF Counted
    <3>3. Cardinality(Users(i) \ {s}) \in Nat
      BY <3>2, FS_CardinalityType
    <3> QED
      BY <3>2, <3>3, <2>1, <2>2, <2>3, <1>3 DEF Counted
  <2>4. CASE i # g
    BY <2>1, <2>2, <2>4, <1>3 DEF Counted
  <2> QED
    BY <2>3, <2>4
<1>5. programs' \in [Ids -> Nat]
  BY <1>1, <1>4
<1> QED
  BY <1>2, <1>4, <1>5

(* One reference less to s, in the next state.                             *)
LEMMA OneLess ==
    ASSUME TypeOK, NEW s \in Ids, snapshots[s] # None, snapshots[s].refs \in Nat \ {0},
           snapshots' = [snapshots EXCEPT ![s].refs = @ - 1]
    PROVE  /\ snapshots' \in [Ids -> Snapshot \cup {None}] /\ snapshots'[s] # None
           /\ snapshots'[s].refs = snapshots[s].refs - 1
           /\ snapshots'[s].program = snapshots[s].program
           /\ snapshots'[s].overlays = snapshots[s].overlays
           /\ snapshots'[s].prefs = snapshots[s].prefs
           /\ \A i \in Ids : i # s => snapshots'[i] = snapshots[i]
<1> DEFINE x == [snapshots[s] EXCEPT !.refs = @ - 1]
<1>1. snapshots[s] \in Snapshot
  BY DEF TypeOK
<1>2. /\ x \in Snapshot /\ x.refs = snapshots[s].refs - 1 /\ x.program = snapshots[s].program
      /\ x.overlays = snapshots[s].overlays /\ x.prefs = snapshots[s].prefs
  BY <1>1, SMT DEF Snapshot
<1>3. snapshots'[s] = x /\ \A i \in Ids : i # s => snapshots'[i] = snapshots[i]
  BY DEF TypeOK
<1>4. snapshots' \in [Ids -> Snapshot \cup {None}]
  BY <1>2 DEF TypeOK
<1>5. x # None
  BY <1>2, LifecycleAssumption
<1> HIDE DEF x
<1> QED
  BY <1>2, <1>3, <1>4, <1>5

(* Only the list of releases of p is different, in the next state.         *)
LEMMA DropsChange ==
    ASSUME TypeOK, NEW p \in Procs, NEW d \in Seq(Drops), job' = [job EXCEPT ![p].drops = d]
    PROVE  /\ job' \in [Procs -> Job] /\ job'[p].drops = d
           /\ job'[p].pc = job[p].pc /\ job'[p].kind = job[p].kind /\ job'[p].base = job[p].base
           /\ job'[p].new = job[p].new /\ job'[p].prefs = job[p].prefs
           /\ job'[p].overlays = job[p].overlays /\ job'[p].changed = job[p].changed
           /\ \A q \in Procs : q # p => job'[q] = job[q]
<1>1. job[p] \in Job /\ job'[p] = [job[p] EXCEPT !.drops = d]
  BY DEF TypeOK
<1>2. job'[p] \in Job
  BY <1>1, SMTT(20) DEF Job
<1> QED
  BY <1>1, <1>2 DEF TypeOK, Job

(* The next entry of the list is not one to be disposed.                   *)
LEMMA SecondOfList ==
    ASSUME NEW ds \in Seq(Drops), ds # <<>>, \A k \in 2 .. Len(ds) : ~ds[k].dispose,
           Tail(ds) # <<>>, NEW x
    PROVE  Head(Tail(ds)) # [snapshot |-> x, dispose |-> TRUE]
<1> DEFINE t == Tail(ds)
<1>1. t \in Seq(Drops) /\ Len(t) = Len(ds) - 1 /\ \A i \in 1 .. Len(t) : t[i] = ds[i + 1]
  BY SMT
<1> HIDE DEF t
<1>2. Len(t) \in Nat \ {0} /\ Len(ds) \in Nat
  BY <1>1, SMT DEF t
<1>3. 1 \in 1 .. Len(t) /\ 2 \in 2 .. Len(ds)
  BY <1>1, <1>2, SMT
<1>4. t[1] = ds[2]
  BY <1>1, <1>3, SMT
<1>5. Head(t) = ds[2] /\ ~ds[2].dispose
  BY <1>1, <1>3, <1>4, SMT
<1>6. [snapshot |-> x, dispose |-> TRUE].dispose
  OBVIOUS
<1>7. Head(t) # [snapshot |-> x, dispose |-> TRUE]
  BY <1>5, <1>6
<1> QED
  BY <1>7 DEF t

LEMMA Mark ==
    ASSUME NEW d \in Drops
    PROVE  LET m == [d EXCEPT !.dispose = TRUE]
           IN  m \in Drops /\ m.dispose /\ m = [snapshot |-> d.snapshot, dispose |-> TRUE]
<1> DEFINE m == [d EXCEPT !.dispose = TRUE]
<1>1. m \in Drops /\ m.snapshot = d.snapshot /\ m.dispose = TRUE /\ d.snapshot \in Ids
  BY DEF Drops
<1> HIDE DEF m
<1>2. m = [snapshot |-> d.snapshot, dispose |-> TRUE]
  BY <1>1 DEF Drops
<1>3. [snapshot |-> d.snapshot, dispose |-> TRUE] \in Drops
  BY <1>1 DEF Drops
<1> QED
  BY <1>1, <1>2, <1>3 DEF m

(* The release of the head of the list: the rest of the list is as it was, *)
(* or the head is marked, and there is one holder less.                    *)
LEMMA StepRelease ==
    ASSUME IInv, load' = load, NEW p \in Procs, job[p].pc \in {"installed", "dropping"}, Release(p),
           UNCHANGED <<edits, overlays, prefs, newPrefs, current, updateMu, mu>>
    PROVE  IInv'
<1>0. PICK ds, d, s, m : /\ ds = job[p].drops /\ d = Head(ds) /\ s = d.snapshot
                         /\ m = [d EXCEPT !.dispose = TRUE]
  OBVIOUS
<1> DEFINE marked == ~d.dispose /\ snapshots[s].refs = 1
<1>1. ds \in Seq(Drops) /\ ds # <<>> /\ TypeOK /\ Len(ds) \in Nat \ {0}
  <2>1. TypeOK /\ job[p] \in Job /\ job[p].drops # <<>>
    BY DEF Release, IInv, TypeOK
  <2>2. ds \in Seq(Drops) /\ ds # <<>>
    BY <2>1, <1>0 DEF Job
  <2> QED
    BY <2>1, <2>2, SMT
<1>2. /\ d \in Drops /\ s \in Ids /\ snapshots[s] # None /\ snapshots[s] \in Snapshot
      /\ d.dispose => Disposes(p, s) /\ snapshots[s].refs = 0
      /\ ~d.dispose => d = Drop(s) /\ snapshots[s].refs \in Nat \ {0} /\ Len(ds) \in JobHolds(job[p], s)
  BY <1>0, <1>1, ReleaseSafe
<1>3. m \in Drops /\ m.dispose /\ m = [snapshot |-> s, dispose |-> TRUE]
  BY <1>0, <1>2, Mark
<1>4. \A k \in 2 .. Len(ds) : ~ds[k].dispose
  BY <1>0 DEF IInv, JobOK
<1>5. PICK ds1 : ds1 = IF marked THEN <<m>> \o Tail(ds) ELSE Tail(ds)
  OBVIOUS
<1>6. /\ ds1 \in Seq(Drops) /\ \A k \in 2 .. Len(ds1) : ~ds1[k].dispose
      /\ \A x : Dropped(ds1, x) = Dropped(ds, x) \ {Len(ds)}
      /\ marked => ds1 # <<>> /\ Head(ds1) = m
  <2>1. CASE marked
    <3>1. ds1 = <<m>> \o Tail(ds)
      BY <2>1, <1>5
    <3>2. /\ ds1 \in Seq(Drops) /\ Len(ds1) = Len(ds) /\ ds1 # <<>> /\ Head(ds1) = m
          /\ \A k \in 2 .. Len(ds) : ds1[k] = ds[k]
      BY <3>1, <1>1, <1>3, DroppedMark
    <3>3. \A x : Dropped(ds1, x) = Dropped(ds, x) \ {Len(ds)}
      BY <3>1, <1>1, <1>3, DroppedMark
    <3> QED
      BY <3>2, <3>3, <1>4
  <2>2. CASE ~marked
    <3>1. ds1 = Tail(ds)
      BY <2>2, <1>5
    <3>2. Len(ds1) = Len(ds) - 1 /\ \A k \in 1 .. Len(ds) - 1 : ds1[k] = ds[k + 1]
      BY <3>1, <1>1, SMT
    <3>3. ASSUME NEW k \in 2 .. Len(ds1) PROVE ~ds1[k].dispose
      <4>1. k \in 1 .. Len(ds) - 1 /\ k + 1 \in 2 .. Len(ds)
        BY <3>2, <1>1, SMT
      <4> QED
        BY <4>1, <3>2, <1>4
    <3> QED
      BY <2>2, <3>1, <3>3, <1>1, DroppedTail
  <2> QED
    BY <2>1, <2>2
<1>7. job' = [job EXCEPT ![p].drops = ds1] /\ panicked' = panicked
  <2>1. ~(snapshots[s] = None \/ snapshots[s].refs = 0) \/ d.dispose
    BY <1>2
  <2> QED
    BY <2>1, <1>0, <1>5 DEF Release
<1>8. /\ job' \in [Procs -> Job] /\ job'[p].drops = ds1
      /\ job'[p].pc = job[p].pc /\ job'[p].kind = job[p].kind /\ job'[p].base = job[p].base
      /\ job'[p].new = job[p].new /\ job'[p].prefs = job[p].prefs
      /\ job'[p].changed = job[p].changed
      /\ \A q \in Procs : q # p => job'[q] = job[q]
  BY <1>1, <1>6, <1>7, DropsChange
<1>9. \A q \in Procs : JobOK(job[q])'
  <2>1. JobOK(job[p])'
    BY <1>6, <1>8 DEF IInv, JobOK, Kinds
  <2> QED
    BY <2>1, <1>8, OtherJobs
<1>10. \A q \in Procs : Locked(q)'
  <2>1. \A q \in Procs : /\ job'[q].pc = job[q].pc /\ job'[q].kind = job[q].kind
                         /\ job'[q].base = job[q].base
    BY <1>8
  <2> QED
    BY <2>1 DEF IInv, Locked
<1>11. ~panicked'
  BY <1>7 DEF IInv
<1>12. ASSUME NEW x \in Ids
       PROVE  /\ JobHolds(job'[p], x) = JobHolds(job[p], x) \ {Len(ds)}
              /\ SameFor(x, {p}) /\ SameSession(x)
  <2>1. Uses(job'[p]) <=> Uses(job[p])
    BY <1>8 DEF Uses
  <2>2. Made(job'[p]) <=> Made(job[p])
    BY <1>8 DEF Made
  <2>3. Dropped(job'[p].drops, x) = Dropped(job[p].drops, x) \ {Len(ds)}
    BY <1>0, <1>6, <1>8
  <2>4. Len(ds) # 0 /\ Len(ds) # -1
    BY <1>1, SMT
  <2>5. JobHolds(job'[p], x) = JobHolds(job[p], x) \ {Len(ds)}
    BY <2>1, <2>2, <2>3, <2>4, <1>8 DEF JobHolds
  <2> QED
    BY <2>5, <1>8 DEF SameFor, SameSession
<1>13. ASSUME ~marked, NEW x PROVE ~Disposes(p, x)'
  <2>1. ASSUME ds1 # <<>> PROVE Head(ds1) # [snapshot |-> x, dispose |-> TRUE]
    BY <1>1, <1>4, <1>5, <1>13, <2>1, SecondOfList
  <2> QED
    BY <2>1, <1>8 DEF Disposes
<1>14. ASSUME NEW x \in Ids, x # s
       PROVE  Holders(x)' = Holders(x) /\ SameDisposal(x)
  <2>1. Len(ds) \notin JobHolds(job[p], x)
    <3>1. Head(ds) # Drop(x)
      BY <1>0, <1>14, SMT DEF Drop
    <3>2. Len(ds) \notin Dropped(ds, x)
      BY <3>1, <1>1, DroppedTail
    <3>3. Len(ds) # 0 /\ Len(ds) # -1
      BY <1>1, SMT
    <3> QED
      BY <3>2, <3>3, <1>0 DEF JobHolds
  <2>2. JobHolds(job'[p], x) = JobHolds(job[p], x)
    BY <2>1, <1>12
  <2>3. SameFor(x, {}) /\ SameSession(x)
    BY <2>2, <1>12 DEF SameFor
  <2>4. ~Disposes(p, x)
    <3>1. [snapshot |-> x, dispose |-> TRUE].snapshot = x
      OBVIOUS
    <3> QED
      BY <3>1, <1>0, <1>14 DEF Disposes
  <2>5. ~Disposes(p, x)'
    <3>1. CASE marked
      <4>1. m # [snapshot |-> x, dispose |-> TRUE]
        BY <1>3, <1>14
      <4> QED
        BY <4>1, <3>1, <1>6, <1>8 DEF Disposes
    <3> QED
      BY <3>1, <1>13
  <2> QED
    BY <2>3, <2>4, <2>5, <1>8, HoldersKeep, DisposalKeep
<1>15. ASSUME \A x \in Ids : x # s => snapshots'[x] = snapshots[x], NEW x \in Ids, x # s
       PROVE  Alive(x)'
  <2>1. Alive(x) /\ snapshots'[x] = snapshots[x]
    BY <1>15 DEF IInv
  <2> QED
    BY <2>1, <1>14, <1>15, AliveSame
<1>16. CASE d.dispose
  <2>1. /\ programs' = [programs EXCEPT ![snapshots[s].program] = @ - 1]
        /\ snapshots' = [snapshots EXCEPT ![s] = None]
    BY <1>0, <1>16 DEF Release
  <2>2. /\ snapshots' \in [Ids -> Snapshot \cup {None}] /\ programs' \in [Ids -> Nat]
        /\ snapshots'[s] = None /\ \A i \in Ids : i # s => snapshots'[i] = snapshots[i]
        /\ \A i \in Ids : Counted(i)'
    BY <2>1, <1>2, CountedDispose
  <2>3. TypeOK'
    BY <1>7, <1>8, <2>2 DEF IInv, TypeOK
  <2>4. Alive(s)'
    <3>1. Alive(s) /\ Disposes(p, s) /\ snapshots[s].refs = 0
      BY <1>2, <1>16 DEF IInv
    <3>2. Holders(s) = {}
      <4>1. IsFiniteSet(Holders(s)) /\ Cardinality(Holders(s)) \in Nat /\ Cardinality(Holders(s)) <= 0
        BY <3>1, HoldersFinite DEF Alive
      <4>2. Cardinality(Holders(s)) = 0
        BY <4>1, SMT
      <4> QED
        BY <4>1, <4>2, FS_EmptySet
    <3>3. Holders(s)' = {}
      <4>1. \A q \in Procs : JobHolds(job[q], s) = {}
        BY <3>2, NoHolders
      <4>2. \A q \in Procs : JobHolds(job'[q], s) = {}
        BY <4>1, <1>2, <1>12 DEF SameFor
      <4>3. current' # s
        BY <3>2, <1>2, <1>12, HoldersElement DEF SameSession
      <4> QED
        BY <4>2, <4>3, HoldersElementNext
    <3>4. \A q \in Procs : ~Disposes(q, s)'
      <4>1. \A q \in Procs : q # p => ~Disposes(q, s)
        BY <3>1 DEF Alive
      <4>2. \A q \in Procs : q # p => ~Disposes(q, s)'
        BY <4>1, <1>8 DEF Disposes
      <4> QED
        BY <4>2, <1>13, <1>16
    <3> QED
      BY <3>3, <3>4, <2>2 DEF Alive
  <2> QED
    BY <2>2, <2>3, <2>4, <1>9, <1>10, <1>11, <1>15 DEF IInv
<1>17. CASE ~d.dispose
  <2>1. /\ snapshots' = [snapshots EXCEPT ![s].refs = @ - 1] /\ programs' = programs
        /\ d = Drop(s) /\ snapshots[s].refs \in Nat \ {0} /\ Len(ds) \in JobHolds(job[p], s)
    <3>1. ~(snapshots[s] = None \/ snapshots[s].refs = 0)
      BY <1>2, <1>17
    <3> QED
      BY <3>1, <1>0, <1>2, <1>17 DEF Release
  <2>2. /\ snapshots' \in [Ids -> Snapshot \cup {None}] /\ snapshots'[s] # None
        /\ snapshots'[s].refs = snapshots[s].refs - 1
        /\ snapshots'[s].program = snapshots[s].program
        /\ \A i \in Ids : i # s => snapshots'[i] = snapshots[i]
    BY <1>1, <1>2, <2>1, OneLess
  <2>3. TypeOK'
    BY <1>7, <1>8, <2>1, <2>2 DEF IInv, TypeOK
  <2>4. Alive(s)'
    <3>1. Alive(s) /\ \A q \in Procs : ~Disposes(q, s)
      BY <1>2, <2>1 DEF IInv, Alive
    <3>2. IsFiniteSet(Holders(s)) /\ Cardinality(Holders(s)) \in Nat
      BY <3>1, HoldersFinite
    <3>3. /\ IsFiniteSet(Holders(s))'
          /\ Cardinality(Holders(s))' = Cardinality(Holders(s)) - 1
      BY <3>2, <2>1, <1>2, <1>12, HoldersLose
    <3>4. /\ Cardinality(Holders(s))' <= snapshots'[s].refs
          /\ "orphan" \notin Kinds' => Cardinality(Holders(s))' = snapshots'[s].refs
      BY <3>1, <3>2, <3>3, <2>1, <2>2, <1>2, SMT DEF Alive, Kinds
    <3>5. \A q \in Procs : q # p => ~Disposes(q, s)'
      BY <3>1, <1>8 DEF Disposes
    <3>6. CASE marked
      <4>1. Disposes(p, s)'
        BY <3>6, <1>3, <1>6, <1>8 DEF Disposes
      <4>2. snapshots'[s].refs = 0
        BY <3>6, <2>2, SMT
      <4> QED
        BY <4>1, <4>2, <3>3, <3>4, <3>5, <2>2 DEF Alive
    <3>7. CASE ~marked
      <4>1. snapshots'[s].refs # 0
        BY <3>7, <1>17, <2>1, <2>2, SMT
      <4>2. ~Disposes(p, s)'
        BY <3>7, <1>13
      <4> QED
        BY <4>1, <4>2, <3>3, <3>4, <3>5, <2>2 DEF Alive
    <3> QED
      BY <3>6, <3>7
  <2>5. \A i \in Ids : Counted(i)'
    <3>1. \A i \in Ids : /\ snapshots'[i] # None <=> snapshots[i] # None
                         /\ snapshots[i] # None => snapshots'[i].program = snapshots[i].program
      BY <1>2, <2>2
    <3>2. \A i \in Ids : Counted(i)
      BY DEF IInv
    <3> QED
      BY <3>1, <3>2, <2>1, CountedKeep
  <2> QED
    BY <2>2, <2>3, <2>4, <2>5, <1>9, <1>10, <1>11, <1>15 DEF IInv
<1> QED
  BY <1>16, <1>17

----------------------------------------------------------------------------
(* The invariant *)

LEMMA InitIInv == ASSUME Init PROVE IInv
<1>1. current \in Ids
  BY LifecycleAssumption DEF Init
<1>2. \A p \in Procs : job[p] = Idle
  BY DEF Init
<1>3. /\ snapshots[current] = [refs |-> 1, overlays |-> 0, prefs |-> 0, program |-> current]
      /\ \A s \in Ids : s # current => snapshots[s] = None
      /\ snapshots[current] \in Snapshot /\ snapshots[current] # None
  <2>1. /\ snapshots[current] = [refs |-> 1, overlays |-> 0, prefs |-> 0, program |-> current]
        /\ \A s \in Ids : s # current => snapshots[s] = None
    BY <1>1 DEF Init
  <2>2. snapshots[current] \in Snapshot
    BY <2>1, <1>1, SMT DEF Snapshot
  <2> QED
    BY <2>1, <2>2, LifecycleAssumption
<1>4. TypeOK
  <2>1. snapshots \in [Ids -> Snapshot \cup {None}]
    BY <1>1 DEF Init, Snapshot
  <2>2. job \in [Procs -> Job]
    BY IdleType DEF Init
  <2>3. programs \in [Ids -> Nat] /\ load \in Workloads
    BY DEF Init
  <2>4. edits \in Nat /\ overlays \in Nat /\ prefs \in Nat
    BY DEF Init
  <2>5. newPrefs \in BOOLEAN /\ panicked \in BOOLEAN
    BY DEF Init
  <2>6. updateMu \in Procs \cup {None} /\ mu \in Procs \cup {None}
    BY DEF Init
  <2> QED
    BY <2>1, <2>2, <2>3, <2>4, <2>5, <2>6, <1>1 DEF TypeOK
<1>5. ASSUME NEW p \in Procs PROVE JobOK(job[p]) /\ Locked(p)
  BY <1>2, IdleType, NoneIsNoProc, SMT DEF JobOK, Locked, Init
<1>6. ASSUME NEW s \in Ids PROVE Alive(s)
  <2>1. \A p \in Procs : JobHolds(job[p], s) = {} /\ ~Disposes(p, s)
    <3>1. ~Uses(Idle) /\ ~Made(Idle)
      BY IdleType DEF Uses, Made
    <3>2. JobHolds(Idle, s) = {}
      BY <3>1, IdleType, IdleHolds
    <3> QED
      BY <3>2, <1>2, IdleType DEF Disposes
  <2>2. CASE s = current
    <3>1. Holders(s) = {<<None, 0>>}
      BY <2>1, <2>2, HoldersElement
    <3>2. IsFiniteSet(Holders(s)) /\ Cardinality(Holders(s)) = 1
      BY <3>1, FS_Singleton
    <3> QED
      BY <3>2, <2>1, <2>2, <1>3, SMT DEF Alive
  <2>3. CASE s # current
    <3>1. Holders(s) = {}
      BY <2>1, <2>3, HoldersElement
    <3> QED
      BY <3>1, <2>1, <2>3, <1>3 DEF Alive
  <2> QED
    BY <2>2, <2>3
<1>7. ASSUME NEW i \in Ids PROVE Counted(i)
  <2>1. CASE i = current
    <3>1. Users(i) = {current} /\ programs[i] = 1
      BY <2>1, <1>1, <1>3 DEF Users, Init
    <3> QED
      BY <3>1, FS_Singleton DEF Counted
  <2>2. CASE i # current
    <3>1. Users(i) = {} /\ programs[i] = 0
      BY <2>2, <1>1, <1>3 DEF Users, Init
    <3> QED
      BY <3>1, FS_EmptySet DEF Counted
  <2> QED
    BY <2>1, <2>2
<1>8. ~panicked
  BY DEF Init
<1> QED
  BY <1>4, <1>5, <1>6, <1>7, <1>8 DEF IInv

(* Nothing of what the invariant is about changes.                         *)
LEMMA StillIInv ==
    ASSUME IInv, TypeOK', UNCHANGED <<snapshots, current, programs, updateMu, mu, job, panicked, load>>
    PROVE  IInv'
<1>1. ASSUME NEW s \in Ids PROVE SameDisposal(s) /\ Holders(s)' = Holders(s)
  BY HoldersKeep DEF SameDisposal, Disposes, SameFor, SameSession
<1>2. \A q \in Procs : JobOK(job[q])' /\ Locked(q)'
  <2>1. \A q \in Procs : JobOK(job[q])'
    BY OtherJobs
  <2>2. \A q \in Procs : Locked(q)'
    BY DEF IInv, Locked
  <2> QED
    BY <2>1, <2>2
<1>3. \A s \in Ids : IsFiniteSet(Holders(s))
  BY HoldersFinite DEF IInv
<1> QED
  BY <1>1, <1>2, <1>3, SameCounts

LEMMA NextIInv == ASSUME IInv, [Next]_vars PROVE IInv'
<1>1. CASE UNCHANGED vars
  <2>1. TypeOK'
    BY <1>1 DEF IInv, TypeOK, vars
  <2> QED
    BY <1>1, <2>1, StillIInv DEF vars
<1>2. CASE Next
  <2>1. load' = load
    BY <1>2 DEF Next
  <2>2. CASE DidChangeFile
    <3>1. TypeOK'
      BY <2>1, <2>2, SMT DEF IInv, TypeOK, DidChangeFile
    <3> QED
      BY <2>1, <2>2, <3>1, StillIInv DEF DidChangeFile
  <2>3. CASE Configure
    <3>1. TypeOK'
      BY <2>1, <2>3, SMT DEF IInv, TypeOK, Configure
    <3> QED
      BY <2>1, <2>3, <3>1, StillIInv DEF Configure
  <2>4. ASSUME NEW p \in Requests, Start(p) PROVE IInv'
    <3>1. p \in Procs
      BY DEF Procs
    <3>2. ASSUME NEW kind \in Kinds \ {"options", "global"}, flushChanges(p, kind) PROVE IInv'
      <4>1. Kinds \subseteq AllKinds
        BY LifecycleAssumption DEF IInv, TypeOK, Kinds, Workload
      <4> QED
        BY <3>1, <3>2, <4>1, <2>1, StepFlush
    <3> QED
      BY <3>1, <3>2, <2>1, <2>4, StepReadOverlays, StepRefCurrent DEF Start
  <2>5. ASSUME NEW p \in Procs, Continue(p) PROVE IInv'
    <3>1. ASSUME NEW i \in Ids, updateSnapshot(p, i) PROVE IInv'
      BY <2>1, <3>1, StepUpdateSnapshot
    <3>2. ASSUME NEW i \in Ids, Clone(p, i) PROVE IInv'
      BY <2>1, <3>2, StepClone
    <3>3. CASE ReleaseOld(p)
      BY <2>1, <3>3, StepRelease DEF ReleaseOld
    <3>4. CASE Deref(p)
      BY <2>1, <3>4, StepRelease DEF Deref
    <3>5. CASE Unlock(p)
      BY <2>1, <3>5, StepUnlock
    <3>6. CASE Reuse(p)
      BY <2>1, <3>6, StepReuse
    <3>7. CASE Done(p)
      BY <2>1, <3>7, StepDone
    <3>8. CASE NoProjectFound(p)
      BY <2>1, <3>8, StepNoProjectFound
    <3>9. CASE tryRef(p)
      BY <2>1, <3>9, StepTryRef
    <3>10. CASE StartClone(p)
      BY <2>1, <3>10, StepStartClone
    <3>11. CASE Discard(p)
      BY <2>1, <3>11, StepDiscard
    <3>12. ASSUME NEW t \in Tasks, EnqueueAdopt(p, t) PROVE IInv'
      BY <2>1, <3>12, StepEnqueueAdopt
    <3>13. CASE adoptSnapshotChange(p)
      BY <2>1, <3>13, StepAdopt
    <3>14. CASE Finish(p)
      BY <2>1, <3>14, StepFinish
    <3> QED
      BY <2>5, <3>1, <3>2, <3>3, <3>4, <3>5, <3>6, <3>7, <3>8, <3>9, <3>10, <3>11, <3>12, <3>13,
         <3>14 DEF Continue
  <2> QED
    BY <1>2, <2>2, <2>3, <2>4, <2>5 DEF Next
<1> QED
  BY <1>1, <1>2

LEMMA AlwaysIInv == Spec => []IInv
BY InitIInv, NextIInv, PTL DEF Spec

----------------------------------------------------------------------------
(* ref and Deref never panic: whoever takes a reference to the current     *)
(* snapshot finds it alive, and nobody releases a reference it does not    *)
(* hold, whatever the interleaving of requests, tasks and releases.        *)
THEOREM NeverPanics == Spec => []NoPanic
<1>1. IInv => NoPanic
  BY DEF IInv, NoPanic
<1> QED
  BY <1>1, AlwaysIInv, PTL

(* The reference count of every snapshot is exactly the number of those    *)
(* who hold one, as long as every document has a project, and a count of   *)
(* zero is always about to be followed by the disposal.                    *)
THEOREM CountsAreExact == Spec => []RefsAccounted
<1>1. IInv => RefsAccounted
  BY DEF IInv, RefsAccounted, Alive
<1> QED
  BY <1>1, AlwaysIInv, PTL

(* The session's snapshot and the snapshots in use or being cloned are     *)
(* never disposed, and a program is counted once for each snapshot with    *)
(* it: none is closed under a request.                                     *)
THEOREM NothingInUseIsDisposed == Spec => []ProgramsAlive
<1>1. ASSUME IInv PROVE ProgramsAlive
  <2>1. snapshots[current] # None
    BY <1>1, CurrentAlive
  <2>2. ASSUME NEW p \in Procs, job[p].pc \in {"using", "cloning"} PROVE snapshots[job[p].base] # None
    <3>1. Uses(job[p])
      BY <2>2 DEF Uses
    <3> QED
      BY <1>1, <3>1, BaseAlive
  <2>3. ASSUME NEW i \in Ids
        PROVE  programs[i] = Cardinality({s \in Ids : snapshots[s] # None /\ snapshots[s].program = i})
    BY <1>1 DEF IInv, Counted, Users
  <2> QED
    BY <2>1, <2>2, <2>3 DEF ProgramsAlive
<1> QED
  BY <1>1, AlwaysIInv, PTL
----------------------------------------------------------------------------

(* What a request flushed is not older than the session's snapshot, and    *)
(* makes it the latest.  Preferences that were not taken along are those   *)
(* the session's snapshot has.                                             *)
FlushedOK(p) ==
    LET j == job[p]
        c == snapshots[current]
    IN  j.pc = "flushed" =>
            /\ Serialised => /\ j.overlays = overlays /\ c.overlays <= overlays
                             /\ ~j.changed => c.overlays = overlays
            /\ j.prefs # None => c.prefs <= j.prefs /\ j.prefs <= prefs
            /\ "api" \notin Kinds /\ ~newPrefs /\ j.kind # "options" =>
                  IF j.prefs = None THEN c.prefs = prefs ELSE j.prefs = prefs

InstalledOK(p) ==
    LET j == job[p]
        c == snapshots[current]
    IN  j.pc = "installed" =>
            /\ Serialised => c.overlays = overlays
            /\ "api" \notin Kinds /\ ~newPrefs /\ j.kind # "options" => c.prefs = prefs

(* A request sees what it flushed.                                         *)
SeesOwn(p) ==
    LET j == job[p]
    IN  j.pc \in {"using", "installed"} /\ Serialised /\ j.kind # "global" =>
            snapshots[j.base].overlays >= j.overlays

(* A clone has the documents and preferences of its base.                  *)
CloneOK(p) ==
    LET j == job[p]
    IN  Made(j) /\ snapshots[j.base] # None =>
            /\ snapshots[j.new].overlays = snapshots[j.base].overlays
            /\ snapshots[j.new].prefs = snapshots[j.base].prefs

FInv ==
    /\ overlays <= edits
    /\ snapshots[current].prefs <= prefs
    /\ CurrentIsLatest
    /\ \A p \in Procs : FlushedOK(p) /\ InstalledOK(p) /\ SeesOwn(p) /\ CloneOK(p)

----------------------------------------------------------------------------
(* What is in a snapshot does not change while it lives, and a name is     *)
(* given to a new one only when it is free.                                *)
Kept ==
    \A s \in Ids : snapshots'[s] # None =>
        IF snapshots[s] = None THEN s \in Free
        ELSE /\ snapshots'[s].overlays = snapshots[s].overlays
             /\ snapshots'[s].prefs = snapshots[s].prefs

LEMMA KeptSame == ASSUME UNCHANGED snapshots PROVE Kept
BY DEF Kept

LEMMA KeptMore ==
    ASSUME IInv, NEW b \in Ids, snapshots[b] # None,
           snapshots' = [snapshots EXCEPT ![b].refs = @ + 1]
    PROVE  Kept
<1>1. /\ snapshots'[b].overlays = snapshots[b].overlays
      /\ snapshots'[b].prefs = snapshots[b].prefs
      /\ \A s \in Ids : s # b => snapshots'[s] = snapshots[s]
  BY OneMore DEF IInv
<1> QED
  BY <1>1 DEF Kept

LEMMA KeptNew ==
    ASSUME IInv, NEW i \in Free, NEW b \in Ids, snapshots[b] # None, NEW ov \in Nat, NEW pf \in Nat,
           NEW r \in Nat, NewSnapshot(i, b, ov, pf, r)
    PROVE  /\ Kept /\ snapshots[i] = None /\ snapshots'[i] # None
           /\ snapshots'[i].overlays = ov /\ snapshots'[i].prefs = pf
           /\ \A s \in Ids : s # i => snapshots'[s] = snapshots[s]
<1>1. /\ snapshots[i] = None /\ snapshots'[i] # None
      /\ snapshots'[i].overlays = ov /\ snapshots'[i].prefs = pf
      /\ \A s \in Ids : s # i => snapshots'[s] = snapshots[s]
  BY CountedNew
<1> QED
  BY <1>1 DEF Kept

LEMMA KeptRelease ==
    ASSUME IInv, NEW p \in Procs, Release(p)
    PROVE  Kept
<1>0. PICK d, s : d = Head(job[p].drops) /\ s = d.snapshot
  OBVIOUS
<1>1. /\ s \in Ids /\ snapshots[s] # None
      /\ ~d.dispose => snapshots[s].refs \in Nat \ {0}
  BY <1>0, ReleaseSafe DEF Release
<1>2. CASE d.dispose
  <2>1. snapshots' = [snapshots EXCEPT ![s] = None]
    BY <1>0, <1>2 DEF Release
  <2> QED
    BY <2>1 DEF Kept, IInv, TypeOK
<1>3. CASE ~d.dispose
  <2>1. ~(snapshots[s] = None \/ snapshots[s].refs = 0)
    BY <1>1, <1>3
  <2>2. snapshots' = [snapshots EXCEPT ![s].refs = @ - 1]
    BY <1>0, <1>3, <2>1 DEF Release
  <2>3. /\ snapshots'[s].overlays = snapshots[s].overlays
        /\ snapshots'[s].prefs = snapshots[s].prefs
        /\ \A i \in Ids : i # s => snapshots'[i] = snapshots[i]
    BY <1>1, <1>3, <2>2, OneLess DEF IInv
  <2> QED
    BY <2>3, <1>1 DEF Kept
<1> QED
  BY <1>2, <1>3

(* What is held is alive, and so it is in the next state.                  *)
HeldAreAlive ==
    /\ snapshots[current] # None
    /\ \A p \in Procs : /\ Uses(job[p]) => snapshots[job[p].base] # None
                        /\ Made(job[p]) => snapshots[job[p].new] # None

LEMMA HeldAreAliveNow == IInv => HeldAreAlive
BY CurrentAlive, BaseAlive, NewAlive DEF HeldAreAlive

LEMMA HeldAreAliveNext == IInv' => HeldAreAlive'
BY HeldAreAliveNow, PTL

(* The session's snapshot has the same documents and preferences.          *)
SameCurrent ==
    /\ snapshots'[current'].overlays = snapshots[current].overlays
    /\ snapshots'[current'].prefs = snapshots[current].prefs

LEMMA CurrentKept ==
    ASSUME IInv, IInv', Kept, current' = current
    PROVE  SameCurrent
<1>1. current \in Ids /\ snapshots[current] # None
  BY CurrentAlive
<1>2. snapshots'[current'] # None
  BY HeldAreAliveNext DEF HeldAreAlive
<1> QED
  BY <1>1, <1>2 DEF Kept, SameCurrent

(* A goroutine that does not move, or only releases a reference.           *)
SameWork(q) ==
    /\ job'[q].pc = job[q].pc /\ job'[q].kind = job[q].kind /\ job'[q].base = job[q].base
    /\ job'[q].new = job[q].new /\ job'[q].overlays = job[q].overlays
    /\ job'[q].changed = job[q].changed /\ job'[q].prefs = job[q].prefs

LEMMA SameJob == ASSUME NEW q, job'[q] = job[q] PROVE SameWork(q)
BY DEF SameWork

(* The facts about a goroutine that does not move.                         *)
LEMMA OthersUse ==
    ASSUME IInv, IInv', FInv, Kept, load' = load, NEW q \in Procs, SameWork(q),
           job[q].pc = "installed" => SameCurrent
    PROVE  SeesOwn(q)' /\ CloneOK(q)'
<1>1. SeesOwn(q)'
  <2>1. CASE job[q].pc = "using"
    <3>1. Uses(job[q]) /\ Uses(job'[q])
      BY <2>1 DEF Uses, SameWork
    <3>2. job[q].base \in Ids /\ snapshots[job[q].base] # None
      BY <3>1, BaseAlive
    <3>3. snapshots'[job'[q].base] # None
      BY <3>1, HeldAreAliveNext DEF HeldAreAlive
    <3>4. snapshots'[job[q].base].overlays = snapshots[job[q].base].overlays
      BY <3>2, <3>3 DEF Kept, SameWork
    <3> QED
      BY <3>4 DEF FInv, SeesOwn, Serialised, Kinds, SameWork
  <2>2. CASE job[q].pc = "installed"
    <3>1. job[q].base = current /\ job'[q].base = current'
      BY <2>2 DEF IInv, Locked, SameWork
    <3> QED
      BY <2>2, <3>1 DEF FInv, SeesOwn, Serialised, Kinds, SameWork, SameCurrent
  <2> QED
    BY <2>1, <2>2 DEF SeesOwn, SameWork
<1>2. CloneOK(q)'
  <2> DEFINE b == job[q].base
             n == job[q].new
  <2>1. CASE Made(job[q]) /\ snapshots'[b] # None
    <3>1. n \in Ids /\ snapshots[n] # None
      BY <2>1, NewAlive
    <3>2. snapshots'[n] # None
      <4>1. Made(job'[q])
        BY <2>1 DEF SameWork, Made
      <4>2. snapshots'[job'[q].new] # None
        BY <4>1, HeldAreAliveNext DEF HeldAreAlive
      <4> QED
        BY <4>2 DEF SameWork
    <3>3. b \in Ids
      BY <2>1 DEF IInv, JobOK, Made
    <3>4. b \notin Free
      BY DEF Free
    <3>5. snapshots[b] # None
      BY <2>1, <3>3, <3>4 DEF Kept
    <3> QED
      BY <2>1, <3>1, <3>2, <3>3, <3>5, SMT DEF FInv, CloneOK, Kept, SameWork
  <2> QED
    BY <2>1 DEF CloneOK, SameWork, Made
<1> QED
  BY <1>1, <1>2

LEMMA OthersFlush ==
    ASSUME FInv, SameCurrent, UNCHANGED <<overlays, prefs, newPrefs, load>>, NEW q \in Procs,
           SameWork(q)
    PROVE  FlushedOK(q)' /\ InstalledOK(q)'
BY DEF FInv, FlushedOK, InstalledOK, SameCurrent, Serialised, Kinds, SameWork

----------------------------------------------------------------------------
(* Steps that change neither what was flushed nor what the session has.    *)
LEMMA FQuiet ==
    ASSUME IInv, IInv', FInv, Kept, SameCurrent,
           UNCHANGED <<edits, overlays, prefs, newPrefs, updateMu, load>>,
           \A q \in Procs : \/ SameWork(q)
                            \/ /\ job'[q].pc \notin {"flushed", "installed"}
                               /\ SeesOwn(q)' /\ CloneOK(q)'
    PROVE  FInv'
<1>1. ASSUME NEW q \in Procs
      PROVE  FlushedOK(q)' /\ InstalledOK(q)' /\ SeesOwn(q)' /\ CloneOK(q)'
  <2>1. CASE SameWork(q)
    BY <2>1, OthersUse, OthersFlush
  <2>2. CASE job'[q].pc \notin {"flushed", "installed"} /\ SeesOwn(q)' /\ CloneOK(q)'
    BY <2>2 DEF FlushedOK, InstalledOK
  <2> QED
    BY <2>1, <2>2
<1>2. CurrentIsLatest'
  BY DEF FInv, CurrentIsLatest, SameCurrent, Serialised, Kinds
<1>3. overlays' <= edits' /\ snapshots'[current'].prefs <= prefs'
  BY DEF FInv, SameCurrent
<1> QED
  BY <1>1, <1>2, <1>3 DEF FInv

(* A goroutine that is done with its snapshot, or only clones it.          *)
LEMMA NothingToSee ==
    ASSUME NEW q \in Procs, job'[q].pc \in {"idle", "warm", "cloning", "dropping"}
    PROVE  job'[q].pc \notin {"flushed", "installed"} /\ SeesOwn(q)' /\ CloneOK(q)'
BY DEF SeesOwn, CloneOK, Made

LEMMA FreshRefCurrent ==
    ASSUME IInv, IInv', FInv, load' = load, NEW p \in Procs, RefCurrent(p)
    PROVE  FInv' /\ SameCurrent
<1>1. Kept
  BY CurrentAlive, KeptMore DEF RefCurrent, ref
<1>2. SameCurrent
  BY <1>1, CurrentKept DEF RefCurrent
<1>3. job'[p].pc = "using" /\ job'[p].kind = "global" /\ \A q \in Procs : q # p => job'[q] = job[q]
  BY DEF RefCurrent, Go, Idle, IInv, TypeOK
<1>4. job'[p].pc \notin {"flushed", "installed"} /\ SeesOwn(p)' /\ CloneOK(p)'
  BY <1>3 DEF SeesOwn, CloneOK, Made
<1> QED
  BY <1>1, <1>2, <1>3, <1>4, SameJob, FQuiet DEF RefCurrent

LEMMA FreshLeave ==
    ASSUME IInv, IInv', FInv, load' = load, NEW p \in Procs,
           UNCHANGED <<edits, overlays, prefs, newPrefs, current, updateMu>>, Kept,
           job'[p].pc \in {"idle", "warm", "cloning", "dropping"},
           \A q \in Procs : q # p => job'[q] = job[q]
    PROVE  FInv' /\ SameCurrent
<1>1. SameCurrent
  BY CurrentKept
<1> QED
  BY <1>1, SameJob, NothingToSee, FQuiet

LEMMA FreshLeaves ==
    ASSUME IInv, IInv', FInv, load' = load, NEW p \in Procs,
           \/ Done(p) \/ NoProjectFound(p) \/ StartClone(p) \/ Discard(p) \/ Finish(p) \/ tryRef(p)
    PROVE  FInv' /\ SameCurrent
<1>1. job \in [Procs -> Job]
  BY DEF IInv, TypeOK
<1>2. ASSUME Done(p) \/ NoProjectFound(p) \/ StartClone(p) \/ Discard(p) \/ Finish(p)
      PROVE  FInv' /\ SameCurrent
  <2>1. /\ job'[p].pc \in {"idle", "warm", "cloning", "dropping"}
        /\ \A q \in Procs : q # p => job'[q] = job[q]
    <3>1. CASE Done(p)
      BY <3>1, <1>1 DEF Done, Go, Job
    <3>2. CASE StartClone(p)
      BY <3>2, <1>1 DEF StartClone, Go, Job
    <3>3. CASE Discard(p)
      BY <3>3, <1>1 DEF Discard, Go, Job
    <3>4. CASE NoProjectFound(p) \/ Finish(p)
      BY <3>4, <1>1, IdleType DEF NoProjectFound, Finish, Go
    <3> QED
      BY <1>2, <3>1, <3>2, <3>3, <3>4
  <2>2. UNCHANGED <<edits, overlays, prefs, newPrefs, current, updateMu, snapshots>>
    BY <1>2 DEF Done, NoProjectFound, StartClone, Discard, Finish
  <2> QED
    BY <2>1, <2>2, KeptSame, FreshLeave
<1>3. CASE tryRef(p)
  <2>1. /\ job'[p].pc \in {"idle", "warm", "cloning", "dropping"}
        /\ \A q \in Procs : q # p => job'[q] = job[q]
    BY <1>1, <1>3, IdleType DEF tryRef, Go, Job
  <2>2. UNCHANGED <<edits, overlays, prefs, newPrefs, current, updateMu>>
    BY <1>3 DEF tryRef
  <2>3. Kept
    <3>1. job[p].base \in Ids
      BY <1>3 DEF tryRef, IInv, JobOK
    <3>2. CASE snapshots[job[p].base] # None /\ snapshots[job[p].base].refs > 0
      BY <3>1, <3>2, <1>3, KeptMore DEF tryRef
    <3>3. CASE ~(snapshots[job[p].base] # None /\ snapshots[job[p].base].refs > 0)
      BY <3>3, <1>3, KeptSame DEF tryRef
    <3> QED
      BY <3>2, <3>3
  <2> QED
    BY <2>1, <2>2, <2>3, FreshLeave
<1> QED
  BY <1>2, <1>3

LEMMA FreshRelease ==
    ASSUME IInv, IInv', FInv, load' = load, NEW p \in Procs, Release(p),
           UNCHANGED <<edits, overlays, prefs, newPrefs, current, updateMu, mu>>
    PROVE  FInv' /\ SameCurrent
<1>1. Kept
  BY KeptRelease
<1>2. SameCurrent
  BY <1>1, CurrentKept
<1>3. PICK d : job' = job \/ job' = [job EXCEPT ![p].drops = d]
  BY DEF Release
<1>4. \A q \in Procs : SameWork(q)
  <2>1. job \in [Procs -> Job]
    BY DEF IInv, TypeOK
  <2>2. CASE job' = job
    BY <2>2 DEF SameWork
  <2>3. CASE job' = [job EXCEPT ![p].drops = d]
    <3>1. job'[p] = [job[p] EXCEPT !.drops = d] /\ \A q \in Procs : q # p => job'[q] = job[q]
      BY <2>1, <2>3
    <3>2. SameWork(p)
      BY <2>1, <3>1 DEF SameWork, Job
    <3> QED
      BY <3>1, <3>2, SameJob
  <2> QED
    BY <1>3, <2>2, <2>3
<1> QED
  BY <1>1, <1>2, <1>4, FQuiet

LEMMA FreshClone ==
    ASSUME IInv, IInv', FInv, load' = load, NEW p \in Procs, NEW i \in Ids, Clone(p, i)
    PROVE  FInv' /\ SameCurrent
<1> DEFINE b == job[p].base
<1>1. job[p] \in Job /\ job \in [Procs -> Job] /\ Uses(job[p]) /\ i \in Free
  BY DEF Clone, Uses, NewId, IInv, TypeOK
<1>2. /\ b \in Ids /\ snapshots[b] # None /\ b # i
      /\ snapshots[b].overlays \in Nat /\ snapshots[b].prefs \in Nat
  BY <1>1, BaseAlive, FreeId DEF Snapshot
<1>3. /\ Kept /\ snapshots'[i].overlays = snapshots[b].overlays
      /\ snapshots'[i].prefs = snapshots[b].prefs
      /\ \A s \in Ids : s # i => snapshots'[s] = snapshots[s]
  <2>1. NewSnapshot(i, b, snapshots[b].overlays, snapshots[b].prefs, 1)
    BY DEF Clone
  <2> HIDE DEF b
  <2> QED
    BY <2>1, <1>1, <1>2, KeptNew
<1>4. SameCurrent
  BY <1>3, CurrentKept DEF Clone
<1>5. /\ job'[p].pc = "cloned" /\ job'[p].new = i /\ job'[p].base = b
      /\ \A q \in Procs : q # p => job'[q] = job[q]
  BY <1>1 DEF Clone, Go, Job
<1>6. job'[p].pc \notin {"flushed", "installed"} /\ SeesOwn(p)' /\ CloneOK(p)'
  <2>1. snapshots'[b] = snapshots[b]
    BY <1>2, <1>3
  <2>2. CloneOK(p)'
    BY <2>1, <1>3, <1>5 DEF CloneOK
  <2> QED
    BY <2>2, <1>5 DEF SeesOwn
<1> QED
  BY <1>3, <1>4, <1>5, <1>6, SameJob, FQuiet DEF Clone

LEMMA FreshEnqueueAdopt ==
    ASSUME IInv, IInv', FInv, load' = load, NEW p \in Procs, NEW t \in Tasks, EnqueueAdopt(p, t)
    PROVE  FInv' /\ SameCurrent
<1>1. /\ job[p] \in Job /\ job \in [Procs -> Job] /\ job[p].pc = "cloned" /\ t # p /\ t \in Procs
      /\ snapshots' = snapshots
  BY DEF EnqueueAdopt, CanStart, IInv, TypeOK, Procs
<1>2. Kept /\ SameCurrent
  BY <1>1, KeptSame, CurrentKept DEF EnqueueAdopt
<1>3. /\ job'[p].pc = "dropping"
      /\ job'[t].pc = "adopt" /\ job'[t].base = job[p].base /\ job'[t].new = job[p].new
      /\ \A q \in Procs : q # p /\ q # t => job'[q] = job[q]
  BY <1>1 DEF EnqueueAdopt, Job, Idle
<1>4. CloneOK(t)' /\ SeesOwn(t)' /\ job'[t].pc \notin {"flushed", "installed"}
  <2>1. CloneOK(p) /\ Made(job[p])
    BY <1>1 DEF FInv, Made
  <2> QED
    BY <2>1, <1>1, <1>3 DEF CloneOK, SeesOwn
<1>5. job'[p].pc \notin {"flushed", "installed"} /\ SeesOwn(p)' /\ CloneOK(p)'
  BY <1>3, NothingToSee
<1> QED
  BY <1>2, <1>3, <1>4, <1>5, SameJob, FQuiet DEF EnqueueAdopt

----------------------------------------------------------------------------
(* Flushing, installing and adopting *)

(* Nobody else has flushed while the lock is free, or held by p, except    *)
(* to change the options of inferred projects.                             *)
LEMMA OneFlush ==
    ASSUME IInv, NEW p, updateMu = None \/ updateMu = p, NEW q \in Procs, q # p,
           job[q].pc \in {"flushed", "installed"}
    PROVE  job[q].kind = "options" /\ ~Serialised /\ (job[q].pc = "flushed" => job[q].prefs = None)
<1>1. JobOK(job[q]) /\ Locked(q) /\ updateMu # q
  BY NoneIsNoProc DEF IInv
<1>2. job[q].kind = "options"
  BY <1>1 DEF Locked
<1> QED
  BY <1>1, <1>2 DEF JobOK, Serialised

LEMMA FreshEdit ==
    ASSUME FInv, IInv, load' = load, DidChangeFile \/ Configure
    PROVE  FInv' /\ SameCurrent
<1>1. UNCHANGED <<overlays, snapshots, current, updateMu, job>>
  BY DEF DidChangeFile, Configure
<1>2. /\ prefs \in Nat /\ edits \in Nat /\ overlays \in Nat /\ snapshots[current].prefs \in Nat
      /\ job \in [Procs -> Job]
  BY CurrentAlive DEF IInv, TypeOK, Snapshot
<1>3. /\ prefs' \in Nat /\ prefs <= prefs' /\ edits' \in Nat /\ edits <= edits'
      /\ newPrefs' \/ (newPrefs' = newPrefs /\ prefs' = prefs)
  BY <1>2, SMT DEF DidChangeFile, Configure
<1>4. SameCurrent
  BY <1>1 DEF SameCurrent
<1>5. overlays' <= edits' /\ snapshots'[current'].prefs <= prefs'
  BY <1>1, <1>2, <1>3, SMT DEF FInv
<1>6. CurrentIsLatest'
  BY <1>1, <1>3, SMT DEF FInv, CurrentIsLatest, Serialised, Kinds
<1>7. ASSUME NEW q \in Procs PROVE InstalledOK(q)' /\ SeesOwn(q)' /\ CloneOK(q)'
  BY <1>1, <1>3, SMT DEF FInv, InstalledOK, SeesOwn, CloneOK, Serialised, Kinds
<1>8. ASSUME NEW q \in Procs PROVE FlushedOK(q)'
  <2>1. job[q].prefs \in Nat \cup {None}
    BY <1>2 DEF Job
  <2>2. job[q].prefs # None /\ job[q].prefs <= prefs => job[q].prefs <= prefs'
    BY <1>2, <1>3, <2>1, SMT
  <2> QED
    BY <1>1, <1>3, <2>2, SMT DEF FInv, FlushedOK, Serialised, Kinds
<1> QED
  BY <1>4, <1>5, <1>6, <1>7, <1>8 DEF FInv

LEMMA FreshFlush ==
    ASSUME IInv, IInv', FInv, load' = load, NEW p \in Procs, NEW kind \in Kinds \ {"options", "global"},
           flushChanges(p, kind)
    PROVE  FInv' /\ SameCurrent
<1>1. /\ UNCHANGED <<snapshots, current, prefs, edits>> /\ overlays' = edits /\ newPrefs' = FALSE
      /\ updateMu = None /\ updateMu' = p /\ p # None /\ job[p].pc = "idle"
      /\ job \in [Procs -> Job]
  BY NoneIsNoProc DEF flushChanges, IInv, TypeOK
<1>2. /\ job'[p].pc = "flushed" /\ job'[p].kind = kind /\ job'[p].overlays = edits
      /\ job'[p].changed = (edits # overlays \/ newPrefs)
      /\ job'[p].prefs = IF newPrefs /\ kind # "api" THEN prefs ELSE None
      /\ \A q \in Procs : q # p => job'[q] = job[q]
  BY <1>1 DEF flushChanges, Go, Idle
<1>3. /\ overlays \in Nat /\ edits \in Nat /\ overlays <= edits /\ prefs \in Nat
      /\ snapshots[current].prefs <= prefs
      /\ Serialised => snapshots[current].overlays = overlays
      /\ "api" \notin Kinds /\ ~newPrefs => snapshots[current].prefs = prefs
  BY <1>1 DEF FInv, IInv, TypeOK, CurrentIsLatest
<1>4. SameCurrent /\ Kept
  BY <1>1, KeptSame DEF SameCurrent
<1>5. FlushedOK(p)'
  <2>1. Serialised' => /\ job'[p].overlays = overlays' /\ snapshots'[current'].overlays <= overlays'
                       /\ ~job'[p].changed => snapshots'[current'].overlays = overlays'
    <3>1. ~job'[p].changed => edits = overlays
      BY <1>2
    <3> QED
      BY <3>1, <1>1, <1>2, <1>3 DEF Serialised, Kinds
  <2>2. job'[p].prefs # None => snapshots'[current'].prefs <= job'[p].prefs /\ job'[p].prefs <= prefs'
    BY <1>1, <1>2, <1>3, SMT
  <2>3. "api" \notin Kinds' =>
           IF job'[p].prefs = None THEN snapshots'[current'].prefs = prefs' ELSE job'[p].prefs = prefs'
    <3>1. prefs # None
      BY <1>3, LifecycleAssumption
    <3>2. "api" \notin Kinds' => kind # "api" /\ "api" \notin Kinds
      BY DEF Kinds
    <3>3. CASE newPrefs
      BY <3>1, <3>2, <3>3, <1>1, <1>2
    <3>4. CASE ~newPrefs
      BY <3>2, <3>4, <1>1, <1>2, <1>3
    <3> QED
      BY <3>3, <3>4
  <2> QED
    BY <2>1, <2>2, <2>3 DEF FlushedOK
<1>6. InstalledOK(p)' /\ SeesOwn(p)' /\ CloneOK(p)'
  BY <1>2 DEF InstalledOK, SeesOwn, CloneOK, Made
<1>7. ASSUME NEW q \in Procs, q # p
      PROVE  FlushedOK(q)' /\ InstalledOK(q)' /\ SeesOwn(q)' /\ CloneOK(q)'
  <2>1. job'[q] = job[q] /\ SameWork(q)
    BY <1>2, <1>7, SameJob
  <2>2. SeesOwn(q)' /\ CloneOK(q)'
    BY <2>1, <1>4, OthersUse
  <2>3. job[q].pc \in {"flushed", "installed"} =>
           /\ job[q].kind = "options" /\ ~Serialised
           /\ job[q].pc = "flushed" => job[q].prefs = None
    BY <1>1, <1>7, OneFlush
  <2>4. FlushedOK(q)' /\ InstalledOK(q)'
    BY <2>1, <2>3 DEF FlushedOK, InstalledOK, Serialised, Kinds
  <2> QED
    BY <2>2, <2>4
<1>8. CurrentIsLatest'
  BY <1>1 DEF CurrentIsLatest
<1>9. overlays' <= edits' /\ snapshots'[current'].prefs <= prefs'
  BY <1>1, <1>3, SMT
<1> QED
  BY <1>4, <1>5, <1>6, <1>7, <1>8, <1>9 DEF FInv

LEMMA FreshReadOverlays ==
    ASSUME IInv, IInv', FInv, load' = load, NEW p \in Procs, "options" \in Kinds, ReadOverlays(p)
    PROVE  FInv' /\ SameCurrent
<1>1. UNCHANGED <<snapshots, current, prefs, edits, overlays, newPrefs, updateMu>>
  BY DEF ReadOverlays
<1>2. /\ job'[p].pc = "flushed" /\ job'[p].kind = "options" /\ job'[p].prefs = None
      /\ \A q \in Procs : q # p => job'[q] = job[q]
  BY DEF ReadOverlays, Go, Idle, IInv, TypeOK
<1>3. SameCurrent /\ Kept
  BY <1>1, KeptSame DEF SameCurrent
<1>4. FlushedOK(p)' /\ InstalledOK(p)' /\ SeesOwn(p)' /\ CloneOK(p)'
  BY <1>2 DEF FlushedOK, InstalledOK, SeesOwn, CloneOK, Made, Serialised, Kinds
<1>5. ASSUME NEW q \in Procs, q # p
      PROVE  FlushedOK(q)' /\ InstalledOK(q)' /\ SeesOwn(q)' /\ CloneOK(q)'
  BY <1>1, <1>2, <1>3, <1>5, SameJob, OthersUse, OthersFlush
<1>6. CurrentIsLatest' /\ overlays' <= edits' /\ snapshots'[current'].prefs <= prefs'
  BY <1>1 DEF FInv, CurrentIsLatest, Serialised, Kinds
<1> QED
  BY <1>3, <1>4, <1>5, <1>6 DEF FInv

LEMMA FreshUpdateSnapshot ==
    ASSUME IInv, IInv', FInv, load' = load, NEW p \in Procs, NEW i \in Ids, updateSnapshot(p, i)
    PROVE  /\ FInv'
           /\ Serialised => snapshots'[current'].overlays >= snapshots[current].overlays
           /\ snapshots'[current'].prefs >= snapshots[current].prefs
<1> DEFINE c == current
           j == job[p]
           pf == IF j.prefs = None THEN snapshots[c].prefs ELSE j.prefs
           r == IF CallerRef(j.kind) THEN 2 ELSE 1
<1>1. /\ job \in [Procs -> Job] /\ j \in Job /\ j.pc = "flushed" /\ i \in Free /\ mu = None /\ JobOK(j)
      /\ UNCHANGED <<edits, overlays, prefs, newPrefs, updateMu>> /\ current' = i
  BY DEF updateSnapshot, NewId, IInv, TypeOK
<1>2. /\ c \in Ids /\ snapshots[c] # None /\ c # i
      /\ snapshots[c].overlays \in Nat /\ snapshots[c].prefs \in Nat
  BY <1>1, CurrentAlive, FreeId DEF Snapshot
<1>3. j.overlays \in Nat /\ pf \in Nat /\ r \in Nat
  BY <1>1, <1>2 DEF Job
<1>4. /\ Kept /\ snapshots'[i].overlays = j.overlays /\ snapshots'[i].prefs = pf
  <2>1. NewSnapshot(i, c, j.overlays, pf, r)
    BY DEF updateSnapshot
  <2> HIDE DEF c, j, pf, r
  <2> QED
    BY <2>1, <1>1, <1>2, <1>3, KeptNew
<1>5. /\ job'[p].pc = "installed" /\ job'[p].kind = j.kind /\ job'[p].base = i
      /\ job'[p].overlays = j.overlays
      /\ \A q \in Procs : q # p => job'[q] = job[q]
  BY <1>1 DEF updateSnapshot, Go, Job
<1>6. /\ overlays \in Nat /\ prefs \in Nat
      /\ Serialised => j.overlays = overlays /\ snapshots[c].overlays <= overlays
      /\ j.prefs # None => snapshots[c].prefs <= j.prefs /\ j.prefs <= prefs
      /\ "api" \notin Kinds /\ ~newPrefs /\ j.kind # "options" =>
            IF j.prefs = None THEN snapshots[c].prefs = prefs ELSE j.prefs = prefs
  BY <1>1 DEF FInv, FlushedOK, IInv, TypeOK
<1>7. /\ snapshots[c].prefs <= prefs /\ snapshots[c].prefs <= pf /\ pf <= prefs
      /\ "api" \notin Kinds /\ ~newPrefs /\ j.kind # "options" => pf = prefs
      /\ j.kind = "options" => pf = snapshots[c].prefs /\ ~Serialised
  <2>1. snapshots[c].prefs <= prefs
    BY DEF FInv
  <2>2. j.kind = "options" => j.prefs = None /\ ~Serialised
    BY <1>1 DEF JobOK, Serialised
  <2>3. CASE j.prefs = None
    BY <2>1, <2>2, <2>3, <1>2, <1>6, SMT
  <2>4. CASE j.prefs # None
    BY <2>1, <2>2, <2>4, <1>2, <1>6
  <2> QED
    BY <2>3, <2>4
<1>8. /\ Serialised => snapshots'[current'].overlays >= snapshots[current].overlays
      /\ snapshots'[current'].prefs >= snapshots[current].prefs
      /\ snapshots'[current'].prefs <= prefs'
  BY <1>1, <1>2, <1>3, <1>4, <1>6, <1>7
<1> HIDE DEF c, j, pf, r
<1>9. FlushedOK(p)' /\ InstalledOK(p)' /\ SeesOwn(p)' /\ CloneOK(p)'
  <2>1. Serialised' => snapshots'[i].overlays = overlays' /\ snapshots'[i].overlays >= job'[p].overlays
    BY <1>1, <1>3, <1>4, <1>5, <1>6, SMT DEF Serialised, Kinds
  <2>2. "api" \notin Kinds' /\ ~newPrefs' /\ job'[p].kind # "options" => snapshots'[i].prefs = prefs'
    BY <1>1, <1>4, <1>5, <1>7 DEF Kinds
  <2> QED
    BY <2>1, <2>2, <1>1, <1>5 DEF FlushedOK, InstalledOK, SeesOwn, CloneOK, Made
<1>10. ASSUME NEW q \in Procs, q # p
       PROVE  FlushedOK(q)' /\ InstalledOK(q)' /\ SeesOwn(q)' /\ CloneOK(q)'
  <2>1. job'[q] = job[q] /\ SameWork(q) /\ job[q].pc # "installed"
    BY <1>1, <1>5, <1>10, SameJob, NoneIsNoProc DEF IInv, Locked
  <2>2. SeesOwn(q)' /\ CloneOK(q)'
    BY <2>1, <1>4, OthersUse
  <2>3. InstalledOK(q)'
    BY <2>1 DEF InstalledOK
  <2>4. FlushedOK(q)'
    <3>1. CASE job[q].pc = "flushed" /\ job[q].kind = "options"
      <4>1. job[q].prefs = None /\ ~Serialised
        BY <3>1 DEF IInv, JobOK, Serialised
      <4> QED
        BY <3>1, <4>1, <2>1 DEF FlushedOK, Serialised, Kinds
    <3>2. CASE job[q].pc = "flushed" /\ job[q].kind # "options"
      <4>1. updateMu = q
        BY <3>2 DEF IInv, Locked
      <4>2. j.kind = "options"
        BY <4>1, <1>1, <1>10, OneFlush DEF j
      <4>3. ~Serialised /\ snapshots'[current'].prefs = snapshots[current].prefs
        BY <4>2, <1>1, <1>4, <1>7 DEF c
      <4> QED
        BY <4>3, <2>1, <1>1 DEF FInv, FlushedOK, Serialised, Kinds
    <3> QED
      BY <3>1, <3>2, <2>1 DEF FlushedOK
  <2> QED
    BY <2>2, <2>3, <2>4
<1>11. CurrentIsLatest'
  <2>1. ASSUME updateMu = None
        PROVE  j.kind = "options"
    BY <2>1, <1>1, NoneIsNoProc DEF IInv, Locked, j
  <2>2. ASSUME updateMu = None
        PROVE  ~Serialised /\ snapshots'[current'].prefs = snapshots[current].prefs
    BY <2>1, <2>2, <1>1, <1>4, <1>7 DEF c
  <2> QED
    BY <2>2, <1>1 DEF FInv, CurrentIsLatest, Serialised, Kinds
<1>12. overlays' <= edits'
  BY <1>1 DEF FInv
<1> QED
  BY <1>8, <1>9, <1>10, <1>11, <1>12 DEF FInv

LEMMA FreshUnlock ==
    ASSUME IInv, IInv', FInv, load' = load, NEW p \in Procs, Unlock(p)
    PROVE  FInv' /\ SameCurrent
<1>1. /\ job \in [Procs -> Job] /\ job[p] \in Job /\ job[p].pc = "installed"
      /\ UNCHANGED <<edits, overlays, prefs, newPrefs, snapshots, current>>
      /\ updateMu' = IF updateMu = p THEN None ELSE updateMu
  BY DEF Unlock, IInv, TypeOK
<1>2. Kept /\ SameCurrent
  BY <1>1, KeptSame DEF SameCurrent
<1>3. \A q \in Procs : \/ q = p /\ job'[q] = Obtained(job[p])
                       \/ q # p /\ job'[q] = job[q]
                       \/ q # p /\ job'[q].pc = "warm"
  <2>1. CASE job' = [job EXCEPT ![p] = Obtained(job[p])]
    BY <1>1, <2>1
  <2>2. ASSUME NEW t \in Tasks, CanStart(t),
               job' = [[job EXCEPT ![p] = Obtained(job[p])] EXCEPT
                           ![t] = [Idle EXCEPT !.pc = "warm", !.base = job[p].base]]
        PROVE  \A q \in Procs : \/ q = p /\ job'[q] = Obtained(job[p])
                                \/ q # p /\ job'[q] = job[q]
                                \/ q # p /\ job'[q].pc = "warm"
    <3>1. t # p /\ t \in Procs
      BY <1>1, <2>2 DEF CanStart, Procs
    <3> QED
      BY <1>1, <2>2, <3>1 DEF Idle
  <2> QED
    BY <2>1, <2>2 DEF Unlock
<1>4. ASSUME NEW q \in Procs
      PROVE  FlushedOK(q)' /\ InstalledOK(q)' /\ SeesOwn(q)' /\ CloneOK(q)'
  <2>1. CASE q = p /\ job'[q] = Obtained(job[p])
    <3>1. CASE CallerRef(job[p].kind)
      <4>1. /\ job'[p].pc = "using" /\ job'[p].kind = job[p].kind /\ job'[p].base = job[p].base
            /\ job'[p].overlays = job[p].overlays
        BY <2>1, <3>1, <1>1 DEF Obtained, Job
      <4> QED
        BY <2>1, <4>1, <1>1 DEF FInv, FlushedOK, InstalledOK, SeesOwn, CloneOK, Made, Serialised, Kinds
    <3>2. CASE ~CallerRef(job[p].kind)
      <4>1. job'[p].pc = "idle"
        BY <2>1, <3>2, SMT DEF Obtained, Idle
      <4> QED
        BY <2>1, <4>1 DEF FlushedOK, InstalledOK, SeesOwn, CloneOK, Made
    <3> QED
      BY <3>1, <3>2
  <2>2. CASE q # p /\ job'[q] = job[q]
    BY <2>2, <1>1, <1>2, SameJob, OthersUse, OthersFlush
  <2>3. CASE q # p /\ job'[q].pc = "warm"
    BY <2>3 DEF FlushedOK, InstalledOK, SeesOwn, CloneOK, Made
  <2> QED
    BY <1>3, <2>1, <2>2, <2>3
<1>5. CurrentIsLatest'
  <2>1. CASE updateMu = p
    <3>1. job[p].kind # "options"
      BY <2>1 DEF IInv, Locked
    <3>2. InstalledOK(p)
      BY DEF FInv
    <3> QED
      BY <3>1, <3>2, <1>1 DEF CurrentIsLatest, InstalledOK, Serialised, Kinds
  <2>2. CASE updateMu # p
    BY <2>2, <1>1 DEF FInv, CurrentIsLatest, Serialised, Kinds
  <2> QED
    BY <2>1, <2>2
<1>6. overlays' <= edits' /\ snapshots'[current'].prefs <= prefs'
  BY <1>1 DEF FInv
<1> QED
  BY <1>2, <1>4, <1>5, <1>6 DEF FInv

LEMMA FreshReuse ==
    ASSUME IInv, IInv', FInv, load' = load, NEW p \in Procs, Reuse(p)
    PROVE  FInv' /\ SameCurrent
<1> DEFINE j == job[p]
<1>1. /\ job \in [Procs -> Job] /\ j \in Job /\ j.pc = "flushed" /\ ~j.changed
      /\ j.kind \in {"plain", "ref", "orphan"}
      /\ UNCHANGED <<edits, overlays, prefs, newPrefs, current>> /\ updateMu' = None
  BY DEF Reuse, IInv, TypeOK
<1>2. Kept
  <2>1. current \in Ids /\ snapshots[current] # None
    BY CurrentAlive
  <2>2. CASE CallerRef(j.kind)
    BY <2>1, <2>2, KeptMore DEF Reuse, ref
  <2>3. CASE ~CallerRef(j.kind)
    BY <2>3, KeptSame DEF Reuse
  <2> QED
    BY <2>2, <2>3
<1>3. SameCurrent
  BY <1>1, <1>2, CurrentKept
<1>4. j.prefs = None /\ FlushedOK(p)
  BY <1>1 DEF IInv, JobOK, FInv
<1>5. /\ Serialised => snapshots[current].overlays = overlays /\ j.overlays = overlays
      /\ "api" \notin Kinds /\ ~newPrefs => snapshots[current].prefs = prefs
  BY <1>1, <1>4 DEF FlushedOK
<1>6. \A q \in Procs : q # p => job'[q] = job[q]
  BY <1>1 DEF Reuse, Go
<1>7. FlushedOK(p)' /\ InstalledOK(p)' /\ SeesOwn(p)' /\ CloneOK(p)'
  <2>1. CASE CallerRef(j.kind)
    <3>1. job'[p].pc = "using" /\ job'[p].base = current /\ job'[p].overlays = j.overlays
      BY <2>1, <1>1 DEF Reuse, Go, Obtained, Job
    <3>2. Serialised' => snapshots'[job'[p].base].overlays >= job'[p].overlays
      <4>1. overlays \in Nat
        BY DEF IInv, TypeOK
      <4> QED
        BY <4>1, <3>1, <1>1, <1>3, <1>5, SMT DEF SameCurrent, Serialised, Kinds
    <3> QED
      BY <3>1, <3>2 DEF FlushedOK, InstalledOK, SeesOwn, CloneOK, Made
  <2>2. CASE ~CallerRef(j.kind)
    <3>1. job'[p].pc = "idle"
      BY <2>2, <1>1 DEF Reuse, Go, Obtained, Idle, Job
    <3> QED
      BY <3>1 DEF FlushedOK, InstalledOK, SeesOwn, CloneOK, Made
  <2> QED
    BY <2>1, <2>2
<1>8. ASSUME NEW q \in Procs, q # p
      PROVE  FlushedOK(q)' /\ InstalledOK(q)' /\ SeesOwn(q)' /\ CloneOK(q)'
  <2>1. SameWork(q)
    BY <1>6, <1>8, SameJob
  <2> QED
    BY <2>1, <1>1, <1>2, <1>3, OthersUse, OthersFlush
<1>9. CurrentIsLatest'
  BY <1>1, <1>3, <1>5 DEF CurrentIsLatest, SameCurrent, Serialised, Kinds
<1>10. overlays' <= edits' /\ snapshots'[current'].prefs <= prefs'
  BY <1>1, <1>3 DEF FInv, SameCurrent
<1> QED
  BY <1>3, <1>7, <1>8, <1>9, <1>10 DEF FInv

(* A clone that is adopted has what its base, the session's snapshot, has. *)
LEMMA FreshAdopt ==
    ASSUME IInv, IInv', FInv, load' = load, NEW p \in Procs, adoptSnapshotChange(p)
    PROVE  FInv' /\ SameCurrent
<1>1. /\ job \in [Procs -> Job] /\ job[p] \in Job /\ Made(job[p])
      /\ UNCHANGED <<edits, overlays, prefs, newPrefs, snapshots, updateMu>>
      /\ current' = IF current = job[p].base THEN job[p].new ELSE current
  BY DEF adoptSnapshotChange, IInv, TypeOK, Made
<1>2. Kept
  BY <1>1, KeptSame
<1>3. SameCurrent
  <2>1. CloneOK(p) /\ snapshots[current] # None
    BY CurrentAlive DEF FInv
  <2> QED
    BY <2>1, <1>1 DEF CloneOK, SameCurrent
<1>4. job'[p].pc = "dropping" /\ \A q \in Procs : q # p => job'[q] = job[q]
  BY <1>1 DEF adoptSnapshotChange, Go, Job
<1>5. job'[p].pc \notin {"flushed", "installed"} /\ SeesOwn(p)' /\ CloneOK(p)'
  BY <1>4, NothingToSee
<1> QED
  BY <1>1, <1>2, <1>3, <1>4, <1>5, SameJob, FQuiet

----------------------------------------------------------------------------
(* A step never takes the session's snapshot back.                         *)
Forward ==
    /\ Serialised => snapshots'[current'].overlays >= snapshots[current].overlays
    /\ snapshots'[current'].prefs >= snapshots[current].prefs

LEMMA SameForward == ASSUME IInv, SameCurrent PROVE Forward
<1>1. snapshots[current].overlays \in Nat /\ snapshots[current].prefs \in Nat
  BY CurrentAlive DEF Snapshot
<1> QED
  BY <1>1, SMT DEF SameCurrent, Forward

LEMMA InitFInv == ASSUME Init PROVE FInv
<1>1. current \in Ids
  BY LifecycleAssumption DEF Init
<1>2. snapshots[current] = [refs |-> 1, overlays |-> 0, prefs |-> 0, program |-> current]
  BY <1>1 DEF Init
<1>3. snapshots[current].overlays = 0 /\ snapshots[current].prefs = 0
  BY <1>2, SMT
<1>4. CurrentIsLatest /\ overlays <= edits /\ snapshots[current].prefs <= prefs
  BY <1>3, SMT DEF Init, CurrentIsLatest
<1>5. \A p \in Procs : job[p].pc = "idle"
  BY IdleType DEF Init
<1>6. \A p \in Procs : FlushedOK(p) /\ InstalledOK(p) /\ SeesOwn(p) /\ CloneOK(p)
  BY <1>5 DEF FlushedOK, InstalledOK, SeesOwn, CloneOK, Made
<1> QED
  BY <1>4, <1>6 DEF FInv

LEMMA NextFInv == ASSUME IInv, IInv', FInv, Next PROVE FInv' /\ Forward
<1>1. load' = load
  BY DEF Next
<1>2. CASE DidChangeFile \/ Configure
  BY <1>1, <1>2, FreshEdit, SameForward
<1>3. ASSUME NEW p \in Requests, Start(p) PROVE FInv' /\ Forward
  <2>1. p \in Procs
    BY DEF Procs
  <2>2. ASSUME NEW kind \in Kinds \ {"options", "global"}, flushChanges(p, kind) PROVE FInv' /\ SameCurrent
    BY <2>1, <2>2, <1>1, FreshFlush
  <2>3. FInv' /\ SameCurrent
    BY <2>1, <2>2, <1>1, <1>3, FreshReadOverlays, FreshRefCurrent DEF Start
  <2> QED
    BY <2>3, SameForward
<1>4. ASSUME NEW p \in Procs, Continue(p) PROVE FInv' /\ Forward
  <2>1. ASSUME NEW i \in Ids, updateSnapshot(p, i) PROVE FInv' /\ Forward
    BY <2>1, <1>1, FreshUpdateSnapshot DEF Forward
  <2>2. ASSUME NEW i \in Ids, Clone(p, i) PROVE FInv' /\ SameCurrent
    BY <2>2, <1>1, FreshClone
  <2>3. CASE ReleaseOld(p) \/ Deref(p)
    BY <2>3, <1>1, FreshRelease, SameForward DEF ReleaseOld, Deref
  <2>4. CASE Unlock(p)
    BY <2>4, <1>1, FreshUnlock, SameForward
  <2>5. CASE Reuse(p)
    BY <2>5, <1>1, FreshReuse, SameForward
  <2>6. CASE Done(p) \/ NoProjectFound(p) \/ StartClone(p) \/ Discard(p) \/ Finish(p) \/ tryRef(p)
    BY <2>6, <1>1, FreshLeaves, SameForward
  <2>7. ASSUME NEW t \in Tasks, EnqueueAdopt(p, t) PROVE FInv' /\ SameCurrent
    BY <2>7, <1>1, FreshEnqueueAdopt
  <2>8. CASE adoptSnapshotChange(p)
    BY <2>8, <1>1, FreshAdopt, SameForward
  <2> QED
    BY <1>4, <2>1, <2>2, <2>3, <2>4, <2>5, <2>6, <2>7, <2>8, SameForward DEF Continue
<1> QED
  BY <1>2, <1>3, <1>4 DEF Next

LEMMA StutterFInv == ASSUME FInv, UNCHANGED vars PROVE FInv'
<1>1. CurrentIsLatest' /\ overlays' <= edits' /\ snapshots'[current'].prefs <= prefs'
  BY DEF FInv, vars, CurrentIsLatest, Serialised, Kinds
<1>2. ASSUME NEW p \in Procs PROVE FlushedOK(p)' /\ InstalledOK(p)' /\ SeesOwn(p)' /\ CloneOK(p)'
  BY DEF FInv, vars, FlushedOK, InstalledOK, SeesOwn, CloneOK, Serialised, Kinds
<1> QED
  BY <1>1, <1>2 DEF FInv

LEMMA AlwaysFInv == Spec => [](IInv /\ FInv)
<1>1. Init => FInv
  BY InitFInv
<1>2. IInv /\ IInv' /\ FInv /\ [Next]_vars => FInv'
  BY NextFInv, StutterFInv
<1> QED
  BY <1>1, <1>2, AlwaysIInv, PTL DEF Spec

----------------------------------------------------------------------------
(* A request's snapshot has every edit made before the request flushed,    *)
(* however many requests, clones and releases are under way, as long as    *)
(* the options of inferred projects are not changed from the side.         *)
THEOREM RequestsSeeTheirEdits == Spec => []RequestSeesEdits
<1>1. FInv => RequestSeesEdits
  BY DEF FInv, RequestSeesEdits, SeesOwn, Procs
<1> QED
  BY <1>1, AlwaysFInv, PTL

(* Between flushes the session's snapshot has all that was flushed.        *)
THEOREM SessionIsUpToDate == Spec => []CurrentIsLatest
<1>1. FInv => CurrentIsLatest
  BY DEF FInv
<1> QED
  BY <1>1, AlwaysFInv, PTL

(* No step takes the session back to older documents or preferences: not   *)
(* an update that lost a race, and not the adoption of a clone that was    *)
(* made without the locks.                                                 *)
THEOREM SessionNeverGoesBack == Spec => NeverBack
<1>1. IInv /\ IInv' /\ FInv /\ [Next]_vars => [Forward]_vars
  BY NextFInv
<1>2. Spec => [][Forward]_vars
  BY <1>1, AlwaysFInv, AlwaysIInv, PTL DEF Spec
<1> QED
  BY <1>2 DEF NeverBack, Forward
============================================================================
