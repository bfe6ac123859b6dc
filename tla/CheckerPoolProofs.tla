------------------------- MODULE CheckerPoolProofs -------------------------
(***************************************************************************)
(* Proofs about CheckerPool, for every pool size, every set of goroutines  *)
(* and every nesting depth: the inductive invariant, what the operations   *)
(* on the stack of acquisitions preserve, the types, that acquisitions are *)
(* exclusive, and that the pool loses no wakeup and no global diagnostic.  *)
(***************************************************************************)
EXTENDS CheckerPool, FiniteSetTheorems, TLAPS

(* Most steps are first-order reasoning about sets, functions and records, *)
(* which is Zenon's; those with arithmetic in them cite SMT.               *)
USE Zenon

(* A checker is in one slot only, and was created before.                  *)
DistinctCheckers ==
    /\ \A i \in Slots : checkers[i] # None => checkers[i] <= created
    /\ \A i, j \in Slots : i # j /\ checkers[i] # None => checkers[i] # checkers[j]

(* An acquisition that owns its checker pins it: the checker stays in its  *)
(* slot and in use.  The outermost acquisition of a stack owns; so does    *)
(* every acquisition of an anonymous process.  The other acquisitions of   *)
(* an identified process repeat the outermost one.                         *)
HeldIsPinned ==
    \A p \in Procs : \A k \in 1 .. Len(held[p]) :
        /\ checkers[held[p][k].slot] = held[p][k].checker
        /\ held[p][k].checker \in inUse
        /\ held[p][k].owns <=> (k = 1 \/ p \in Anonymous)
        /\ p \notin Anonymous => held[p][k].slot = held[p][1].slot

(* Owners have slots of their own, also within one stack.                  *)
OwnersDisjoint ==
    \A p, q \in Procs : \A k \in 1 .. Len(held[p]), l \in 1 .. Len(held[q]) :
        /\ p # q => held[p][k].slot # held[q][l].slot
        /\ p \in Anonymous /\ p = q /\ k # l => held[p][k].slot # held[q][l].slot

(* The association of an identified process is the slot it holds, and only *)
(* processes without a checker wait.                                       *)
AssociationMatches ==
    \A p \in Procs :
        /\ p \in Anonymous \/ held[p] = <<>> => requestAssociations[p] = None
        /\ p \notin Anonymous /\ held[p] # <<>> =>
              requestAssociations[p] = held[p][1].slot
        /\ p \notin Anonymous /\ pc[p] # "run" => held[p] = <<>>

IInv == TypeOK /\ DistinctCheckers /\ HeldIsPinned /\ OwnersDisjoint /\ AssociationMatches

----------------------------------------------------------------------------
(* What an acquisition appends to the stack of its process.                *)
LEMMA HandleType ==
    ASSUME NEW i \in Slots, NEW c \in CheckerIds, NEW b \in BOOLEAN
    PROVE  [slot |-> i, checker |-> c, owns |-> b] \in Handle
BY DEF Handle

(* Appending to and popping one stack.                                     *)
LEMMA PushStack ==
    ASSUME TypeOK, NEW p \in Procs, NEW h \in Handle,
           held' = [held EXCEPT ![p] = Append(@, h)]
    PROVE  /\ held' \in [Procs -> Seq(Handle)]
           /\ \A q \in Procs : q # p => held'[q] = held[q]
           /\ Len(held'[p]) = Len(held[p]) + 1
           /\ Len(held[p]) \in Nat
           /\ held'[p] # <<>>
           /\ held'[p][Len(held[p]) + 1] = h
           /\ \A k \in 1 .. Len(held[p]) : held'[p][k] = held[p][k]
<1>1. held[p] \in Seq(Handle)  BY DEF TypeOK
<1>2. held'[p] = Append(held[p], h)  BY DEF TypeOK
<1> QED  BY <1>1, <1>2, SMT DEF TypeOK

LEMMA PopStack ==
    ASSUME TypeOK, NEW p \in Procs, held[p] # <<>>,
           held' = [held EXCEPT ![p] = SubSeq(@, 1, Len(@) - 1)]
    PROVE  /\ held' \in [Procs -> Seq(Handle)]
           /\ \A q \in Procs : q # p => held'[q] = held[q]
           /\ Len(held'[p]) = Len(held[p]) - 1
           /\ Len(held[p]) \in Nat \ {0}
           /\ held'[p] = <<>> <=> Len(held[p]) = 1
           /\ \A k \in 1 .. Len(held[p]) - 1 : held'[p][k] = held[p][k]
           /\ Top(p) \in Handle
<1>1. held[p] \in Seq(Handle)  BY DEF TypeOK
<1>2. held'[p] = SubSeq(held[p], 1, Len(held[p]) - 1)  BY DEF TypeOK
<1>3. Len(held[p]) \in Nat \ {0}  BY <1>1, SMT
<1>4. Len(held'[p]) = Len(held[p]) - 1  BY <1>1, <1>2, <1>3, SMT
<1>5. held'[p] \in Seq(Handle)  BY <1>1, <1>2, <1>3, SMT
<1>6. \A k \in 1 .. Len(held[p]) - 1 : held'[p][k] = held[p][k]
  BY <1>1, <1>2, <1>3, SMT
<1>7. Top(p) \in Handle  BY <1>1, <1>3, SMT DEF Top
<1>8. held' \in [Procs -> Seq(Handle)]  BY <1>5, <1>2 DEF TypeOK
<1>9. held'[p] = <<>> <=> Len(held[p]) = 1
  <2>1. held'[p] = <<>> => Len(held'[p]) = 0  OBVIOUS
  <2>2. held'[p] # <<>> => Len(held'[p]) # 0
    <3>1. \A h \in Seq(Handle) : h # <<>> => Len(h) # 0  BY SMT
    <3> QED  BY <3>1, <1>5
  <2>3. Len(held'[p]) = 0 <=> Len(held[p]) = 1
    <3>1. \A m, n \in Int : m = n - 1 => (m = 0 <=> n = 1)  BY SMT
    <3>2. Len(held'[p]) \in Int /\ Len(held[p]) \in Int  BY <1>3, <1>4, SMT
    <3> QED  BY <3>1, <3>2, <1>4
  <2> QED  BY <2>1, <2>2, <2>3
<1> QED  BY <1>3, <1>4, <1>6, <1>7, <1>8, <1>9 DEF TypeOK

(* The slots and checkers a process names exist.                           *)
LEMMA AvailableType ==
    ASSUME TypeOK, NEW i \in Available
    PROVE  i \in Slots /\ checkers[i] \in CheckerIds /\ checkers[i] \notin inUse
BY DEF Available, TypeOK

LEMMA HandleFields ==
    ASSUME TypeOK, NEW q \in Procs, NEW k \in 1 .. Len(held[q])
    PROVE  /\ held[q][k] \in Handle
           /\ held[q][k].slot \in Slots
           /\ held[q][k].checker \in CheckerIds
<1>1. held[q] \in Seq(Handle)  BY DEF TypeOK
<1>2. held[q][k] \in Handle  BY <1>1, SMT
<1> QED  BY <1>2 DEF Handle

(* Granting a checker that nobody uses, or a new one in an empty slot,     *)
(* keeps the acquisitions pinned and disjoint.                             *)
LEMMA GrantKeeps ==
    ASSUME IInv, NEW p \in Procs, NEW i \in Slots, NEW c \in CheckerIds,
           Grant(p, i, c),
           p \in Anonymous \/ held[p] = <<>>,
           c \notin inUse \/ checkers[i] = None,
           checkers[i] = None \/ checkers[i] = c,
           checkers' = [checkers EXCEPT ![i] = c],
           pc'[p] = "run", \A q \in Procs : q # p => pc'[q] = pc[q]
    PROVE  HeldIsPinned' /\ OwnersDisjoint' /\ AssociationMatches'
<1> DEFINE h == [slot |-> i, checker |-> c, owns |-> TRUE]
<1>1. h \in Handle  BY HandleType
<1>2. TypeOK  BY DEF IInv
<1>3. held' = [held EXCEPT ![p] = Append(@, h)]  BY DEF Grant
<1> HIDE DEF h
<1>4. /\ \A q \in Procs : q # p => held'[q] = held[q]
      /\ Len(held'[p]) = Len(held[p]) + 1
      /\ Len(held[p]) \in Nat
      /\ held'[p] # <<>>
      /\ held'[p][Len(held[p]) + 1] = h
      /\ \A k \in 1 .. Len(held[p]) : held'[p][k] = held[p][k]
  BY <1>1, <1>2, <1>3, PushStack
<1>5. h.slot = i /\ h.checker = c /\ h.owns = TRUE  BY DEF h
<1>6. \A q \in Procs : \A k \in 1 .. Len(held[q]) :
         held[q][k] \in Handle /\ held[q][k].slot \in Slots /\ held[q][k].checker \in CheckerIds
  BY <1>2, HandleFields
(* No earlier acquisition is for slot i.                                   *)
<1>7. \A q \in Procs : \A k \in 1 .. Len(held[q]) : held[q][k].slot # i
  <2> SUFFICES ASSUME NEW q \in Procs, NEW k \in 1 .. Len(held[q]),
                      held[q][k].slot = i
               PROVE  FALSE
    OBVIOUS
  <2>1. checkers[i] = held[q][k].checker /\ held[q][k].checker \in inUse
    BY DEF IInv, HeldIsPinned
  <2>2. checkers[i] # None  BY <2>1, <1>6, PoolAssumption DEF CheckerIds
  <2> QED  BY <2>1, <2>2
<1>8. \A q \in Procs : \A k \in 1 .. Len(held[q]) :
         checkers'[held[q][k].slot] = checkers[held[q][k].slot]
  BY <1>2, <1>6, <1>7 DEF TypeOK
<1>9. checkers'[i] = c /\ inUse' = inUse \cup {c}  BY <1>2 DEF TypeOK, Grant
<1>10. HeldIsPinned'
  <2> SUFFICES ASSUME NEW q \in Procs, NEW k \in 1 .. Len(held'[q])
               PROVE  /\ checkers'[held'[q][k].slot] = held'[q][k].checker
                      /\ held'[q][k].checker \in inUse'
                      /\ held'[q][k].owns <=> (k = 1 \/ q \in Anonymous)
                      /\ q \notin Anonymous => held'[q][k].slot = held'[q][1].slot
    BY DEF HeldIsPinned
  <2>1. CASE q # p
    BY <2>1, <1>4, <1>8, <1>9, SMT DEF IInv, HeldIsPinned
  <2>2. CASE q = p /\ k \in 1 .. Len(held[p])
    <3>1. p \in Anonymous
      BY <2>2, <1>2, SMT DEF TypeOK
    <3> QED  BY <2>2, <3>1, <1>4, <1>8, <1>9, SMT DEF IInv, HeldIsPinned
  <2>3. CASE q = p /\ k = Len(held[p]) + 1
    <3>1. p \notin Anonymous => k = 1
      BY <2>3, SMT
    <3> QED  BY <2>3, <3>1, <1>4, <1>5, <1>9
  <2> QED  BY SMTT(60), <2>1, <2>2, <2>3, <1>4
<1>11. OwnersDisjoint'
  <2> SUFFICES ASSUME NEW q \in Procs, NEW r \in Procs,
                      NEW k \in 1 .. Len(held'[q]), NEW l \in 1 .. Len(held'[r])
               PROVE  /\ q # r => held'[q][k].slot # held'[r][l].slot
                      /\ q \in Anonymous /\ q = r /\ k # l =>
                            held'[q][k].slot # held'[r][l].slot
    BY DEF OwnersDisjoint
  <2>1. \/ k \in 1 .. Len(held[q]) /\ held'[q][k] = held[q][k]
        \/ q = p /\ k = Len(held[p]) + 1 /\ held'[q][k] = h
    BY <1>4, SMT
  <2>2. \/ l \in 1 .. Len(held[r]) /\ held'[r][l] = held[r][l]
        \/ r = p /\ l = Len(held[p]) + 1 /\ held'[r][l] = h
    BY <1>4, SMT
  <2>3. CASE /\ k \in 1 .. Len(held[q]) /\ held'[q][k] = held[q][k]
             /\ l \in 1 .. Len(held[r]) /\ held'[r][l] = held[r][l]
    <3>1. OwnersDisjoint  BY DEF IInv
    <3> QED  BY <2>3, <3>1, SMT DEF OwnersDisjoint
  <2>4. CASE /\ q = p /\ k = Len(held[p]) + 1 /\ held'[q][k] = h
             /\ l \in 1 .. Len(held[r]) /\ held'[r][l] = held[r][l]
    BY <2>4, <1>5, <1>7, SMT
  <2>5. CASE /\ k \in 1 .. Len(held[q]) /\ held'[q][k] = held[q][k]
             /\ r = p /\ l = Len(held[p]) + 1 /\ held'[r][l] = h
    BY <2>5, <1>5, <1>7, SMT
  <2>6. CASE q = p /\ r = p /\ k = l
    BY <2>6
  <2> QED  BY <2>1, <2>2, <2>3, <2>4, <2>5, <2>6
<1>12. AssociationMatches'
  <2> SUFFICES ASSUME NEW q \in Procs
               PROVE  /\ q \in Anonymous \/ held'[q] = <<>> => requestAssociations'[q] = None
                      /\ q \notin Anonymous /\ held'[q] # <<>> =>
                            requestAssociations'[q] = held'[q][1].slot
                      /\ q \notin Anonymous /\ pc'[q] # "run" => held'[q] = <<>>
    BY DEF AssociationMatches
  <2>1. CASE q # p
    BY <2>1, <1>4, <1>2 DEF IInv, AssociationMatches, Grant, TypeOK
  <2>2. CASE q = p /\ p \in Anonymous
    BY <2>2, <1>4 DEF IInv, AssociationMatches, Grant, Identified
  <2>3. CASE q = p /\ p \notin Anonymous
    <3>1. held'[p][1] = h
      BY <2>3, <1>4, SMT
    <3> QED  BY <2>3, <3>1, <1>2, <1>4, <1>5 DEF TypeOK, Grant, Identified
  <2> QED  BY <2>1, <2>2, <2>3
<1> QED  BY <1>10, <1>11, <1>12

----------------------------------------------------------------------------
(* The number of diagnostics in a slot is a natural number.                *)
LEMMA CountType ==
    ASSUME TypeOK, NEW i \in Slots
    PROVE  Cardinality(globals[i]) \in Nat
<1>1. globals[i] \subseteq Diags  BY DEF TypeOK
<1>2. IsFiniteSet(globals[i])  BY <1>1, PoolAssumption, FS_Subset
<1> QED  BY <1>2, FS_CardinalityType

(* Grant and Associate keep the types of what they assign.                 *)
LEMMA GrantType ==
    ASSUME TypeOK, NEW p \in Procs, NEW i \in Slots, NEW c \in CheckerIds, Grant(p, i, c)
    PROVE  /\ inUse' \subseteq CheckerIds
           /\ requestAssociations' \in [Procs -> Slots \cup {None}]
           /\ held' \in [Procs -> Seq(Handle)]
<1>1. inUse' \subseteq CheckerIds  BY DEF Grant, TypeOK
<1>2. requestAssociations' \in [Procs -> Slots \cup {None}]  BY DEF Grant, TypeOK
<1>3. held' \in [Procs -> Seq(Handle)]
  BY HandleType, PushStack DEF Grant
<1> QED  BY <1>1, <1>2, <1>3

LEMMA AssociateType ==
    ASSUME TypeOK, NEW f, NEW i \in Slots, Associate(f, i)
    PROVE  fileAssociations' \in [Files -> Slots \cup {None}]
BY DEF TypeOK, Associate

LEMMA TypeStep == TypeOK /\ [Next]_vars => TypeOK'
<1> SUFFICES ASSUME TypeOK, [Next]_vars
             PROVE  TypeOK'
  OBVIOUS
<1>1. ASSUME NEW p \in Procs, GetRequestChecker(p)
      PROVE  TypeOK'
  <2>1. /\ requestAssociations[p] \in Slots
        /\ checkers[requestAssociations[p]] \in CheckerIds
    BY <1>1 DEF GetRequestChecker, HasRequestChecker, TypeOK
  <2>2. /\ inUse' \subseteq CheckerIds
        /\ requestAssociations' \in [Procs -> Slots \cup {None}]
        /\ held' \in [Procs -> Seq(Handle)]
    <3>1. CASE checkers[requestAssociations[p]] \in inUse
      <4>1. held' \in [Procs -> Seq(Handle)]
        BY <1>1, <2>1, <3>1, HandleType, PushStack DEF GetRequestChecker
      <4> QED  BY <1>1, <3>1, <4>1 DEF GetRequestChecker, TypeOK
    <3>2. CASE checkers[requestAssociations[p]] \notin inUse
      BY <1>1, <2>1, <3>2, GrantType DEF GetRequestChecker
    <3> QED  BY <3>1, <3>2
  <2>3. gets' \in [Procs -> Nat]  BY <1>1, SMT DEF GetRequestChecker, Calls, TypeOK
  <2> QED  BY <1>1, <2>2, <2>3 DEF GetRequestChecker, TypeOK, diagVars
<1>2. ASSUME NEW p \in Procs, NEW f \in Files \cup {None}, GetFileChecker(p, f)
      PROVE  TypeOK'
  <2>1. fileAssociations[f] \in Slots /\ checkers[fileAssociations[f]] \in CheckerIds
    BY <1>2, AvailableType DEF GetFileChecker, HasFileChecker
  <2>2. /\ inUse' \subseteq CheckerIds
        /\ requestAssociations' \in [Procs -> Slots \cup {None}]
        /\ held' \in [Procs -> Seq(Handle)]
    BY <1>2, <2>1, GrantType DEF GetFileChecker
  <2>3. gets' \in [Procs -> Nat]  BY <1>2, SMT DEF GetFileChecker, Calls, TypeOK
  <2> QED  BY <1>2, <2>2, <2>3 DEF GetFileChecker, TypeOK, diagVars
<1>3. ASSUME NEW p \in Procs, NEW f \in Files \cup {None}, GetAvailable(p, f)
      PROVE  TypeOK'
  <2>1. PICK i \in First(Available) : Grant(p, i, checkers[i]) /\ Associate(f, i)
    BY <1>3 DEF GetAvailable
  <2>2. i \in Slots /\ checkers[i] \in CheckerIds
    BY AvailableType DEF First
  <2>3. /\ inUse' \subseteq CheckerIds
        /\ requestAssociations' \in [Procs -> Slots \cup {None}]
        /\ held' \in [Procs -> Seq(Handle)]
        /\ fileAssociations' \in [Files -> Slots \cup {None}]
    BY <2>1, <2>2, GrantType, AssociateType
  <2>4. gets' \in [Procs -> Nat]  BY <1>3, SMT DEF GetAvailable, Calls, TypeOK
  <2> QED  BY <1>3, <2>3, <2>4 DEF GetAvailable, TypeOK, diagVars
<1>4. ASSUME NEW p \in Procs, NEW f \in Files \cup {None}, Create(p, f)
      PROVE  TypeOK'
  <2>1. PICK i \in First(Empty) :
           /\ checkers' = [checkers EXCEPT ![i] = created + 1]
           /\ \E ds \in SUBSET Diags : globals' = [globals EXCEPT ![i] = ds]
           /\ Grant(p, i, created + 1)
           /\ Associate(f, i)
    BY <1>4 DEF Create
  <2>2. i \in Slots /\ created + 1 \in CheckerIds
    BY SMT DEF First, Empty, TypeOK, CheckerIds
  <2>3. /\ inUse' \subseteq CheckerIds
        /\ requestAssociations' \in [Procs -> Slots \cup {None}]
        /\ held' \in [Procs -> Seq(Handle)]
        /\ fileAssociations' \in [Files -> Slots \cup {None}]
    BY <2>1, <2>2, GrantType, AssociateType
  <2>4. gets' \in [Procs -> Nat]  BY <1>4, SMT DEF Create, Calls, TypeOK
  <2>5. /\ checkers' \in [Slots -> CheckerIds \cup {None}]
        /\ created' \in Nat
        /\ globals' \in [Slots -> SUBSET Diags]
    <3>1. checkers' \in [Slots -> CheckerIds \cup {None}]  BY <2>1, <2>2 DEF TypeOK
    <3>2. created' \in Nat  BY <1>4, SMT DEF Create, TypeOK
    <3>3. globals' \in [Slots -> SUBSET Diags]  BY <2>1, <2>2 DEF TypeOK
    <3> QED  BY <3>1, <3>2, <3>3
  <2> QED  BY <1>4, <2>3, <2>4, <2>5 DEF Create, TypeOK, diagVars
<1>5. ASSUME NEW p \in Procs, NEW f \in Files \cup {None}, Wait(p, f)
      PROVE  TypeOK'
  BY <1>5, SMT DEF Wait, Calls, TypeOK, poolVars, diagVars
<1>6. ASSUME NEW p \in Procs, Wake(p)
      PROVE  TypeOK'
  <2>1. CASE Available # {}
    <3>1. PICK i \in First(Available) :
             Grant(p, i, checkers[i]) /\ Associate(wanted[p], i)
      BY <1>6, <2>1 DEF Wake
    <3>2. i \in Slots /\ checkers[i] \in CheckerIds
      BY AvailableType DEF First
    <3>3. /\ inUse' \subseteq CheckerIds
          /\ requestAssociations' \in [Procs -> Slots \cup {None}]
          /\ held' \in [Procs -> Seq(Handle)]
          /\ fileAssociations' \in [Files -> Slots \cup {None}]
      BY <3>1, <3>2, GrantType, AssociateType
    <3> QED  BY <1>6, <2>1, <3>3 DEF Wake, TypeOK, diagVars
  <2>2. CASE Available = {}
    BY <1>6, <2>2 DEF Wake, TypeOK, diagVars
  <2> QED  BY <2>1, <2>2
<1>7. ASSUME NEW p \in Procs, NEW d \in Diags, Check(p, d)
      PROVE  TypeOK'
  BY <1>7 DEF Check, TypeOK, poolVars, diagVars
<1>8. ASSUME NEW p \in Procs, Cancel(p)
      PROVE  TypeOK'
  <2>1. Top(p).checker \in CheckerIds
    <3>1. held[p] \in Seq(Handle) /\ Len(held[p]) \in 1 .. Len(held[p])
      BY <1>8, SMT DEF Cancel, TypeOK
    <3> QED  BY <3>1, HandleFields DEF Top
  <2> QED  BY <1>8, <2>1 DEF Cancel, TypeOK, poolVars, diagVars
<1>9. ASSUME NEW p \in Procs, Release(p)
      PROVE  TypeOK'
  <2>1. held' \in [Procs -> Seq(Handle)] /\ Top(p) \in Handle
    BY <1>9, PopStack DEF Release
  <2>2. Top(p).slot \in Slots  BY <2>1 DEF Handle
  <2>3. CASE Top(p).owns
    <3>1. /\ checkers' \in [Slots -> CheckerIds \cup {None}]
          /\ accumulated' \subseteq Diags
          /\ changed' \in BOOLEAN
          /\ count' \in [Slots -> Nat]
      <4>1. Return(Top(p))  BY <1>9, <2>3 DEF Release
      <4>2. CASE Top(p).checker \in canceled
        <5>1. checkers' \in [Slots -> CheckerIds \cup {None}]
          BY <4>1, <4>2, <2>2 DEF Return, TypeOK
        <5>2. count' \in [Slots -> Nat]  BY SMTT(60), <4>1, <4>2, <2>2 DEF Return, TypeOK
        <5> QED  BY <4>1, <4>2, <5>1, <5>2 DEF Return, TypeOK
      <4>3. CASE Top(p).checker \notin canceled
        BY <4>1, <4>3, <2>2, CountType DEF Return, Merge, TypeOK
      <4> QED  BY <4>2, <4>3
    <3>2. pc' \in [Procs -> {"run", "waiting", "woken"}]
      BY <1>9, <2>3 DEF Release, Signal, TypeOK
    <3>3. /\ inUse' \subseteq CheckerIds
          /\ requestAssociations' \in [Procs -> Slots \cup {None}]
      BY <1>9, <2>3 DEF Release, TypeOK
    <3> QED  BY <1>9, <2>1, <3>1, <3>2, <3>3 DEF Release, TypeOK
  <2>4. CASE ~Top(p).owns
    BY <1>9, <2>1, <2>4 DEF Release, TypeOK
  <2> QED  BY <2>3, <2>4
<1>10. CASE TakeNewGlobalDiagnostics
  BY <1>10 DEF TakeNewGlobalDiagnostics, TypeOK, poolVars
<1>11. CASE UNCHANGED vars
  BY <1>11 DEF vars, TypeOK, poolVars, diagVars
<1> QED
  BY <1>1, <1>2, <1>3, <1>4, <1>5, <1>6, <1>7, <1>8, <1>9, <1>10, <1>11
  DEF Next, GetChecker

----------------------------------------------------------------------------

(* An identified process for which getRequestCheckerLocked finds nothing   *)
(* holds no checker; one for which it finds a checker uses it already.     *)
LEMMA NoRequestChecker ==
    ASSUME IInv, NEW p \in Procs, ~HasRequestChecker(p), p \notin Anonymous
    PROVE  held[p] = <<>>
<1> SUFFICES ASSUME held[p] # <<>> PROVE FALSE  OBVIOUS
<1>1. TypeOK /\ HeldIsPinned /\ AssociationMatches  BY DEF IInv
<1>2. 1 \in 1 .. Len(held[p])
  <2>1. held[p] \in Seq(Handle)  BY <1>1 DEF TypeOK
  <2>2. Len(held[p]) \in Nat \ {0}  BY <2>1, SMT
  <2> QED  BY <2>2, SMT
<1>3. held[p][1].slot \in Slots /\ held[p][1].checker \in CheckerIds
  BY <1>1, <1>2, HandleFields
<1>4. checkers[held[p][1].slot] = held[p][1].checker  BY <1>1, <1>2 DEF HeldIsPinned
<1>5. requestAssociations[p] = held[p][1].slot  BY <1>1 DEF AssociationMatches
<1>6. None \notin Slots /\ None \notin CheckerIds
  BY PoolAssumption, SMT DEF Slots, CheckerIds
<1> QED  BY <1>3, <1>4, <1>5, <1>6 DEF HasRequestChecker, Identified

LEMMA RequestCheckerInUse ==
    ASSUME IInv, NEW p \in Procs, HasRequestChecker(p)
    PROVE  /\ p \notin Anonymous
           /\ 1 \in 1 .. Len(held[p])
           /\ requestAssociations[p] = held[p][1].slot
           /\ checkers[requestAssociations[p]] = held[p][1].checker
           /\ checkers[requestAssociations[p]] \in inUse
<1>1. TypeOK /\ HeldIsPinned /\ AssociationMatches  BY DEF IInv
<1>2. p \notin Anonymous /\ held[p] # <<>>
  BY <1>1 DEF HasRequestChecker, Identified, AssociationMatches
<1>3. 1 \in 1 .. Len(held[p])
  <2>1. held[p] \in Seq(Handle)  BY <1>1 DEF TypeOK
  <2>2. Len(held[p]) \in Nat \ {0}  BY <1>2, <2>1, SMT
  <2> QED  BY <2>2, SMT
<1> QED  BY SMTT(60), <1>1, <1>2, <1>3 DEF HeldIsPinned, AssociationMatches

(* The release of an acquisition that owns its checker.                    *)
LEMMA ReleaseOwnedKeeps ==
    ASSUME IInv, NEW p \in Procs, Release(p), Top(p).owns
    PROVE  DistinctCheckers' /\ HeldIsPinned' /\ OwnersDisjoint' /\ AssociationMatches'
<1> DEFINE n == Len(held[p])
<1>1. TypeOK /\ DistinctCheckers /\ HeldIsPinned /\ OwnersDisjoint /\ AssociationMatches
  BY DEF IInv
<1>2. /\ \A q \in Procs : q # p => held'[q] = held[q]
      /\ Len(held'[p]) = n - 1
      /\ n \in Nat \ {0}
      /\ held'[p] = <<>> <=> n = 1
      /\ \A k \in 1 .. n - 1 : held'[p][k] = held[p][k]
      /\ Top(p) = held[p][n]
  BY <1>1, PopStack DEF Release, Top
<1>3. \A q \in Procs : \A k \in 1 .. Len(held'[q]) :
         /\ k \in 1 .. Len(held[q])
         /\ held'[q][k] = held[q][k]
         /\ q = p => k < n
  BY <1>2, SMT
<1> HIDE DEF n
(* Only the outermost acquisition of an identified process owns.           *)
<1>4. p \notin Anonymous => n = 1
  BY SMTT(60), <1>1, <1>2 DEF HeldIsPinned, n
<1>5. \A q \in Procs : \A k \in 1 .. Len(held'[q]) :
         held[q][k].slot # held[p][n].slot
  BY SMTT(60), <1>1, <1>2, <1>3, <1>4 DEF OwnersDisjoint, n
<1>6. held[p][n].slot \in Slots /\ \A q \in Procs : \A k \in 1 .. Len(held[q]) :
         held[q][k].slot \in Slots /\ held[q][k].checker \in CheckerIds
  BY SMTT(60), <1>1, <1>2, HandleFields DEF n
<1>7. /\ \A i \in Slots : checkers'[i] = checkers[i] \/ checkers'[i] = None
      /\ \A i \in Slots : i # held[p][n].slot => checkers'[i] = checkers[i]
      /\ inUse' = inUse \ {held[p][n].checker}
      /\ created' = created
  <2>1. Return(Top(p)) /\ inUse' = inUse \ {Top(p).checker} /\ created' = created
    BY DEF Release
  <2> QED  BY SMTT(60), <1>1, <1>2, <1>6, <2>1 DEF Return, TypeOK
<1>8. DistinctCheckers'
  BY <1>1, <1>7, PoolAssumption DEF DistinctCheckers
<1>9. \A q \in Procs : \A k \in 1 .. Len(held'[q]) :
         held[q][k].checker # held[p][n].checker
  <2> SUFFICES ASSUME NEW q \in Procs, NEW k \in 1 .. Len(held'[q])
               PROVE  held[q][k].checker # held[p][n].checker
    OBVIOUS
  <2>1. k \in 1 .. Len(held[q]) /\ n \in 1 .. Len(held[p])  BY <1>2, <1>3, SMT DEF n
  <2>2. /\ checkers[held[q][k].slot] = held[q][k].checker
        /\ checkers[held[p][n].slot] = held[p][n].checker
    BY <1>1, <2>1 DEF HeldIsPinned
  <2>3. held[q][k].slot \in Slots /\ held[q][k].checker # None
    BY <1>6, <2>1, PoolAssumption DEF CheckerIds
  <2> QED  BY <1>1, <1>5, <1>6, <2>2, <2>3 DEF DistinctCheckers
<1>10. HeldIsPinned'
  <2> SUFFICES ASSUME NEW q \in Procs, NEW k \in 1 .. Len(held'[q])
               PROVE  /\ checkers'[held'[q][k].slot] = held'[q][k].checker
                      /\ held'[q][k].checker \in inUse'
                      /\ held'[q][k].owns <=> (k = 1 \/ q \in Anonymous)
                      /\ q \notin Anonymous => held'[q][k].slot = held'[q][1].slot
    BY DEF HeldIsPinned
  <2>1. k \in 1 .. Len(held[q]) /\ held'[q][k] = held[q][k] /\ held'[q][1] = held[q][1]
    BY <1>2, <1>3, SMT DEF n
  <2> QED  BY SMTT(120), <1>1, <1>5, <1>6, <1>7, <1>9, <2>1 DEF HeldIsPinned
<1>11. OwnersDisjoint'
  <2> SUFFICES ASSUME NEW q \in Procs, NEW r \in Procs,
                      NEW k \in 1 .. Len(held'[q]), NEW l \in 1 .. Len(held'[r])
               PROVE  /\ q # r => held'[q][k].slot # held'[r][l].slot
                      /\ q \in Anonymous /\ q = r /\ k # l =>
                            held'[q][k].slot # held'[r][l].slot
    BY DEF OwnersDisjoint
  <2>1. /\ k \in 1 .. Len(held[q]) /\ held'[q][k] = held[q][k]
        /\ l \in 1 .. Len(held[r]) /\ held'[r][l] = held[r][l]
    BY <1>3
  <2> QED  BY SMTT(60), <1>1, <2>1 DEF OwnersDisjoint
<1>12. AssociationMatches'
  <2> SUFFICES ASSUME NEW q \in Procs
               PROVE  /\ q \in Anonymous \/ held'[q] = <<>> => requestAssociations'[q] = None
                      /\ q \notin Anonymous /\ held'[q] # <<>> =>
                            requestAssociations'[q] = held'[q][1].slot
                      /\ q \notin Anonymous /\ pc'[q] # "run" => held'[q] = <<>>
    BY DEF AssociationMatches
  <2>1. pc[q] = "run" => pc'[q] = "run"
    BY <1>1 DEF Release, Signal, TypeOK
  <2>2. CASE q # p
    BY SMTT(60), <1>1, <1>2, <2>1, <2>2 DEF AssociationMatches, Release, TypeOK
  <2>3. CASE q = p /\ p \in Anonymous
    BY <1>1, <2>3 DEF AssociationMatches, Release, Identified
  <2>4. CASE q = p /\ p \notin Anonymous
    BY <1>1, <1>2, <1>4, <2>4 DEF Release, Identified, TypeOK
  <2> QED  BY <2>2, <2>3, <2>4
<1> QED  BY <1>8, <1>10, <1>11, <1>12

(* The release of a nested acquisition of an identified process.           *)
LEMMA ReleaseNestedKeeps ==
    ASSUME IInv, NEW p \in Procs, Release(p), ~Top(p).owns
    PROVE  DistinctCheckers' /\ HeldIsPinned' /\ OwnersDisjoint' /\ AssociationMatches'
<1> DEFINE n == Len(held[p])
<1>1. TypeOK /\ DistinctCheckers /\ HeldIsPinned /\ OwnersDisjoint /\ AssociationMatches
  BY DEF IInv
<1>2. /\ \A q \in Procs : q # p => held'[q] = held[q]
      /\ Len(held'[p]) = n - 1
      /\ n \in Nat \ {0}
      /\ held'[p] = <<>> <=> n = 1
      /\ \A k \in 1 .. n - 1 : held'[p][k] = held[p][k]
      /\ Top(p) = held[p][n]
  BY <1>1, PopStack DEF Release, Top
<1>3. \A q \in Procs : \A k \in 1 .. Len(held'[q]) :
         /\ k \in 1 .. Len(held[q])
         /\ held'[q][k] = held[q][k]
         /\ held'[q][1] = held[q][1]
  BY SMTT(60), <1>2
<1> HIDE DEF n
<1>4. n # 1 /\ p \notin Anonymous
  BY SMTT(60), <1>1, <1>2 DEF HeldIsPinned, n
<1>5. UNCHANGED <<checkers, inUse, requestAssociations, pc, created>>
  BY DEF Release
<1>6. DistinctCheckers'
  BY <1>1, <1>5 DEF DistinctCheckers
<1>7. HeldIsPinned'
  BY SMTT(60), <1>1, <1>3, <1>5 DEF HeldIsPinned
<1>8. OwnersDisjoint'
  <2> SUFFICES ASSUME NEW q \in Procs, NEW r \in Procs,
                      NEW k \in 1 .. Len(held'[q]), NEW l \in 1 .. Len(held'[r])
               PROVE  /\ q # r => held'[q][k].slot # held'[r][l].slot
                      /\ q \in Anonymous /\ q = r /\ k # l =>
                            held'[q][k].slot # held'[r][l].slot
    BY DEF OwnersDisjoint
  <2>1. /\ k \in 1 .. Len(held[q]) /\ held'[q][k] = held[q][k]
        /\ l \in 1 .. Len(held[r]) /\ held'[r][l] = held[r][l]
    BY <1>3
  <2> QED  BY SMTT(60), <1>1, <2>1 DEF OwnersDisjoint
<1>9. AssociationMatches'
  <2> SUFFICES ASSUME NEW q \in Procs
               PROVE  /\ q \in Anonymous \/ held'[q] = <<>> => requestAssociations'[q] = None
                      /\ q \notin Anonymous /\ held'[q] # <<>> =>
                            requestAssociations'[q] = held'[q][1].slot
                      /\ q \notin Anonymous /\ pc'[q] # "run" => held'[q] = <<>>
    BY DEF AssociationMatches
  <2>1. CASE q # p
    BY <1>1, <1>2, <1>5, <2>1 DEF AssociationMatches
  <2>2. CASE q = p
    <3>1. held'[p] # <<>> /\ held[p] # <<>> /\ pc[p] = "run"
      BY <1>2, <1>4 DEF Release
    <3>2. held'[p][1] = held[p][1]
      BY SMTT(60), <1>2, <1>4
    <3> QED  BY <1>1, <1>4, <1>5, <2>2, <3>1, <3>2 DEF AssociationMatches
  <2> QED  BY <2>1, <2>2
<1> QED  BY <1>6, <1>7, <1>8, <1>9

(* A nested acquisition repeats the outermost one.                         *)
LEMMA RepeatKeeps ==
    ASSUME IInv, NEW p \in Procs, GetRequestChecker(p)
    PROVE  DistinctCheckers' /\ HeldIsPinned' /\ OwnersDisjoint' /\ AssociationMatches'
<1> DEFINE i == requestAssociations[p]
           h == [slot |-> i, checker |-> checkers[i], owns |-> FALSE]
<1>1. TypeOK /\ DistinctCheckers /\ HeldIsPinned /\ OwnersDisjoint /\ AssociationMatches
  BY DEF IInv
<1>2. HasRequestChecker(p)  BY DEF GetRequestChecker
<1>3. /\ p \notin Anonymous
      /\ 1 \in 1 .. Len(held[p])
      /\ i = held[p][1].slot
      /\ checkers[i] = held[p][1].checker
      /\ checkers[i] \in inUse
  BY <1>2, RequestCheckerInUse
<1>4. /\ held' = [held EXCEPT ![p] = Append(@, h)]
      /\ UNCHANGED <<checkers, inUse, requestAssociations, pc, created>>
  BY <1>3 DEF GetRequestChecker
<1>5. h \in Handle  BY <1>1, <1>3, HandleFields, HandleType
<1>6. h.slot = i /\ h.checker = checkers[i] /\ h.owns = FALSE  OBVIOUS
<1> HIDE DEF h
<1>7. /\ \A q \in Procs : q # p => held'[q] = held[q]
      /\ Len(held'[p]) = Len(held[p]) + 1
      /\ Len(held[p]) \in Nat
      /\ held'[p] # <<>>
      /\ held'[p][Len(held[p]) + 1] = h
      /\ \A k \in 1 .. Len(held[p]) : held'[p][k] = held[p][k]
  BY <1>1, <1>4, <1>5, PushStack
<1>8. \A q \in Procs : \A k \in 1 .. Len(held'[q]) :
         \/ k \in 1 .. Len(held[q]) /\ held'[q][k] = held[q][k]
         \/ q = p /\ k > 1 /\ held'[q][k] = h
  BY SMTT(60), <1>3, <1>7
<1>9. DistinctCheckers'
  BY <1>1, <1>4 DEF DistinctCheckers
<1>10. HeldIsPinned'
  <2> SUFFICES ASSUME NEW q \in Procs, NEW k \in 1 .. Len(held'[q])
               PROVE  /\ checkers'[held'[q][k].slot] = held'[q][k].checker
                      /\ held'[q][k].checker \in inUse'
                      /\ held'[q][k].owns <=> (k = 1 \/ q \in Anonymous)
                      /\ q \notin Anonymous => held'[q][k].slot = held'[q][1].slot
    BY DEF HeldIsPinned
  <2>1. held'[q][1] = held[q][1]  BY <1>3, <1>7
  <2>2. CASE k \in 1 .. Len(held[q]) /\ held'[q][k] = held[q][k]
    BY SMTT(120), <1>1, <1>4, <2>1, <2>2 DEF HeldIsPinned
  <2>3. CASE q = p /\ k > 1 /\ held'[q][k] = h
    BY SMTT(60), <1>3, <1>4, <1>6, <2>1, <2>3
  <2> QED  BY <1>8, <2>2, <2>3
<1>11. OwnersDisjoint'
  <2> SUFFICES ASSUME NEW q \in Procs, NEW r \in Procs,
                      NEW k \in 1 .. Len(held'[q]), NEW l \in 1 .. Len(held'[r])
               PROVE  /\ q # r => held'[q][k].slot # held'[r][l].slot
                      /\ q \in Anonymous /\ q = r /\ k # l =>
                            held'[q][k].slot # held'[r][l].slot
    BY DEF OwnersDisjoint
  <2>1. \E m \in 1 .. Len(held[q]) :
           held'[q][k].slot = held[q][m].slot /\ (q \in Anonymous => m = k)
    BY <1>3, <1>6, <1>8
  <2>2. \E m \in 1 .. Len(held[r]) :
           held'[r][l].slot = held[r][m].slot /\ (r \in Anonymous => m = l)
    BY <1>3, <1>6, <1>8
  <2> QED  BY SMTT(60), <1>1, <2>1, <2>2 DEF OwnersDisjoint
<1>12. AssociationMatches'
  <2> SUFFICES ASSUME NEW q \in Procs
               PROVE  /\ q \in Anonymous \/ held'[q] = <<>> => requestAssociations'[q] = None
                      /\ q \notin Anonymous /\ held'[q] # <<>> =>
                            requestAssociations'[q] = held'[q][1].slot
                      /\ q \notin Anonymous /\ pc'[q] # "run" => held'[q] = <<>>
    BY DEF AssociationMatches
  <2>1. CASE q # p
    BY <1>1, <1>4, <1>7, <2>1 DEF AssociationMatches
  <2>2. CASE q = p
    <3>1. pc[p] = "run"  BY DEF GetRequestChecker, Calls
    <3>2. held'[p][1] = held[p][1]  BY <1>3, <1>7
    <3> QED  BY <1>3, <1>4, <1>7, <2>2, <3>1, <3>2
  <2> QED  BY <2>1, <2>2
<1> QED  BY <1>9, <1>10, <1>11, <1>12

(* Steps that touch neither the checkers nor what is held.                 *)
LEMMA UntouchedKeeps ==
    ASSUME IInv, UNCHANGED <<checkers, inUse, created, requestAssociations, held>>,
           \A q \in Procs : pc'[q] # "run" => pc[q] # "run" \/ q \in Anonymous \/ held[q] = <<>>
    PROVE  DistinctCheckers' /\ HeldIsPinned' /\ OwnersDisjoint' /\ AssociationMatches'
<1>1. DistinctCheckers /\ HeldIsPinned /\ OwnersDisjoint /\ AssociationMatches  BY DEF IInv
<1>2. DistinctCheckers'  BY <1>1 DEF DistinctCheckers
<1>3. HeldIsPinned'  BY <1>1 DEF HeldIsPinned
<1>4. OwnersDisjoint'  BY SMTT(60), <1>1 DEF OwnersDisjoint
<1>5. AssociationMatches'  BY <1>1 DEF AssociationMatches
<1> QED  BY <1>2, <1>3, <1>4, <1>5

(* Handing out an existing checker that is free.                           *)
LEMMA GrantAvailableKeeps ==
    ASSUME IInv, NEW p \in Procs, NEW i \in Available, Grant(p, i, checkers[i]),
           p \in Anonymous \/ held[p] = <<>>,
           UNCHANGED <<checkers, created>>,
           pc'[p] = "run", \A q \in Procs : q # p => pc'[q] = pc[q]
    PROVE  DistinctCheckers' /\ HeldIsPinned' /\ OwnersDisjoint' /\ AssociationMatches'
<1>1. TypeOK /\ DistinctCheckers  BY DEF IInv
<1>2. i \in Slots /\ checkers[i] \in CheckerIds /\ checkers[i] \notin inUse
  BY <1>1, AvailableType
<1>3. checkers' = [checkers EXCEPT ![i] = checkers[i]]  BY <1>1, <1>2 DEF TypeOK
<1>4. HeldIsPinned' /\ OwnersDisjoint' /\ AssociationMatches'
  BY <1>2, <1>3, GrantKeeps
<1>5. DistinctCheckers'  BY <1>1 DEF DistinctCheckers
<1> QED  BY <1>4, <1>5

LEMMA InvStep == IInv /\ [Next]_vars => IInv'
<1> SUFFICES ASSUME IInv, [Next]_vars
             PROVE  DistinctCheckers' /\ HeldIsPinned' /\ OwnersDisjoint' /\ AssociationMatches'
  BY TypeStep DEF IInv
<1> DEFINE Goal == DistinctCheckers' /\ HeldIsPinned' /\ OwnersDisjoint' /\ AssociationMatches'
<1>0. TypeOK  BY DEF IInv
<1>1. ASSUME NEW p \in Procs, GetRequestChecker(p) PROVE Goal
  BY <1>1, RepeatKeeps
<1>2. ASSUME NEW p \in Procs, NEW f \in Files \cup {None}, GetFileChecker(p, f) PROVE Goal
  <2>1. p \in Anonymous \/ held[p] = <<>>  BY <1>2, NoRequestChecker DEF GetFileChecker
  <2>2. fileAssociations[f] \in Available  BY <1>2 DEF GetFileChecker, HasFileChecker
  <2>3. pc'[p] = "run" /\ UNCHANGED <<pc, checkers, created>>
    BY <1>2 DEF GetFileChecker, Calls
  <2> QED  BY <1>2, <2>1, <2>2, <2>3, GrantAvailableKeeps DEF GetFileChecker
<1>3. ASSUME NEW p \in Procs, NEW f \in Files \cup {None}, GetAvailable(p, f) PROVE Goal
  <2>1. p \in Anonymous \/ held[p] = <<>>  BY <1>3, NoRequestChecker DEF GetAvailable
  <2>2. PICK i \in Available : Grant(p, i, checkers[i])
    BY <1>3 DEF GetAvailable, First
  <2>3. pc'[p] = "run" /\ UNCHANGED <<pc, checkers, created>>
    BY <1>3 DEF GetAvailable, Calls
  <2> QED  BY <2>1, <2>2, <2>3, GrantAvailableKeeps
<1>4. ASSUME NEW p \in Procs, NEW f \in Files \cup {None}, Create(p, f) PROVE Goal
  <2>1. p \in Anonymous \/ held[p] = <<>>  BY <1>4, NoRequestChecker DEF Create
  <2>2. PICK i \in Empty : /\ checkers' = [checkers EXCEPT ![i] = created + 1]
                           /\ Grant(p, i, created + 1)
    BY <1>4 DEF Create, First
  <2>3. pc'[p] = "run" /\ pc' = pc /\ created' = created + 1
    BY <1>4 DEF Create, Calls
  <2>4. i \in Slots /\ checkers[i] = None  BY DEF Empty
  <2>5. created + 1 \in CheckerIds  BY <1>0, SMT DEF TypeOK, CheckerIds
  <2>6. HeldIsPinned' /\ OwnersDisjoint' /\ AssociationMatches'
    BY <2>1, <2>2, <2>3, <2>4, <2>5, GrantKeeps
  <2>7. DistinctCheckers'
    <3>1. \A j \in Slots : checkers[j] = None \/ (checkers[j] \in Nat /\ checkers[j] <= created)
      BY <1>0 DEF IInv, DistinctCheckers, TypeOK, CheckerIds
    <3>2. \A j \in Slots : checkers'[j] = IF j = i THEN created + 1 ELSE checkers[j]
      BY <1>0, <2>2 DEF TypeOK
    <3>3. created \in Nat  BY <1>0 DEF TypeOK
    <3>4. \A j \in Slots : checkers[j] # created + 1
      BY <3>1, <3>3, PoolAssumption, SMT
    <3>5. DistinctCheckers  BY DEF IInv
    <3>6. \A j \in Slots : checkers'[j] # None => checkers'[j] <= created'
      BY <2>3, <3>1, <3>2, <3>3, SMT
    <3>7. \A j, k \in Slots : j # k /\ checkers'[j] # None => checkers'[j] # checkers'[k]
      BY <3>2, <3>4, <3>5 DEF DistinctCheckers
    <3> QED  BY <3>6, <3>7 DEF DistinctCheckers
  <2> QED  BY <2>6, <2>7
<1>5. ASSUME NEW p \in Procs, NEW f \in Files \cup {None}, Wait(p, f) PROVE Goal
  <2>1. p \in Anonymous \/ held[p] = <<>>  BY <1>5, NoRequestChecker DEF Wait
  <2> QED  BY <1>0, <1>5, <2>1, UntouchedKeeps DEF Wait, poolVars, TypeOK
<1>6. ASSUME NEW p \in Procs, Wake(p) PROVE Goal
  <2>1. p \in Anonymous \/ held[p] = <<>>
    BY <1>6 DEF Wake, IInv, AssociationMatches
  <2>2. CASE Available # {}
    <3>1. PICK i \in Available : Grant(p, i, checkers[i])
      BY <1>6, <2>2 DEF Wake, First
    <3>2. /\ pc'[p] = "run" /\ \A q \in Procs : q # p => pc'[q] = pc[q]
          /\ UNCHANGED <<checkers, created>>
      BY <1>0, <1>6, <2>2 DEF Wake, TypeOK
    <3> QED  BY <2>1, <3>1, <3>2, GrantAvailableKeeps
  <2>3. CASE Available = {}
    BY <1>0, <1>6, <2>1, <2>3, UntouchedKeeps DEF Wake, TypeOK
  <2> QED  BY <2>2, <2>3
<1>7. ASSUME NEW p \in Procs, NEW d \in Diags, Check(p, d) PROVE Goal
  BY <1>7, UntouchedKeeps DEF Check, poolVars
<1>8. ASSUME NEW p \in Procs, Cancel(p) PROVE Goal
  BY <1>8, UntouchedKeeps DEF Cancel, poolVars
<1>9. ASSUME NEW p \in Procs, Release(p) PROVE Goal
  BY <1>9, ReleaseOwnedKeeps, ReleaseNestedKeeps
<1>10. CASE TakeNewGlobalDiagnostics
  BY <1>10, UntouchedKeeps DEF TakeNewGlobalDiagnostics, poolVars
<1>11. CASE UNCHANGED vars
  BY <1>11, UntouchedKeeps DEF vars, poolVars
<1> QED
  BY <1>1, <1>2, <1>3, <1>4, <1>5, <1>6, <1>7, <1>8, <1>9, <1>10, <1>11
  DEF Next, GetChecker

LEMMA InvInit == Init => IInv
<1> SUFFICES ASSUME Init PROVE IInv  OBVIOUS
<1>1. TypeOK
  <2>1. held \in [Procs -> Seq(Handle)]  BY SMT DEF Init
  <2>2. /\ checkers \in [Slots -> CheckerIds \cup {None}]
        /\ count \in [Slots -> Nat]
        /\ gets \in [Procs -> Nat]
        /\ pc \in [Procs -> {"run", "waiting", "woken"}]
    BY DEF Init
  <2> QED  BY <2>1, <2>2 DEF Init, TypeOK
<1>2. \A p \in Procs : held[p] = <<>> /\ Len(held[p]) = 0  BY DEF Init
<1>3. HeldIsPinned /\ OwnersDisjoint  BY SMTT(60), <1>2 DEF HeldIsPinned, OwnersDisjoint
<1>4. DistinctCheckers /\ AssociationMatches
  BY <1>2 DEF Init, DistinctCheckers, AssociationMatches
<1> QED  BY <1>1, <1>3, <1>4 DEF IInv

LEMMA Invariant == Spec => []IInv
BY InvInit, InvStep, PTL DEF Spec

----------------------------------------------------------------------------
(* The variables keep their types through every operation of the pool.     *)
THEOREM TypeCorrect == Spec => []TypeOK
<1>1. IInv => TypeOK  BY DEF IInv
<1> QED  BY <1>1, Invariant, PTL

(* What the release functions and the request associations of              *)
(* createRelease and getRequestCheckerLocked guarantee: two goroutines     *)
(* never hold the same checker.                                            *)
THEOREM AcquisitionsExclusive == Spec => []Exclusive
<1>1. IInv => Exclusive
  <2> SUFFICES ASSUME IInv, NEW p \in Procs, NEW q \in Procs, p # q,
                      NEW k \in DOMAIN held[p], NEW l \in DOMAIN held[q],
                      held[p][k].checker = held[q][l].checker
               PROVE  FALSE
    BY DEF Exclusive
  <2>1. TypeOK /\ DistinctCheckers /\ HeldIsPinned /\ OwnersDisjoint  BY DEF IInv
  <2>2. k \in 1 .. Len(held[p]) /\ l \in 1 .. Len(held[q])
    <3>1. held[p] \in Seq(Handle) /\ held[q] \in Seq(Handle)  BY <2>1 DEF TypeOK
    <3> QED  BY <3>1, SMT
  <2>3. /\ held[p][k].slot \in Slots /\ held[q][l].slot \in Slots
        /\ held[p][k].checker \in CheckerIds
    BY <2>1, <2>2, HandleFields
  <2>4. held[p][k].checker # None  BY <2>3, PoolAssumption DEF CheckerIds
  <2>5. /\ checkers[held[p][k].slot] = held[p][k].checker
        /\ checkers[held[q][l].slot] = held[q][l].checker
    BY <2>1, <2>2 DEF HeldIsPinned
  <2>6. held[p][k].slot # held[q][l].slot  BY <2>1, <2>2 DEF OwnersDisjoint
  <2> QED  BY <2>1, <2>3, <2>4, <2>5, <2>6 DEF DistinctCheckers
<1> QED  BY <1>1, Invariant, PTL

(* The nested acquisitions of one request get one checker, and it stays in *)
(* the pool and in use until the outermost release (GetChecker called with *)
(* the context of an LSP request).                                         *)
THEOREM RequestKeepsChecker == Spec => []OneCheckerPerRequest
<1>1. IInv => OneCheckerPerRequest
  <2> SUFFICES ASSUME IInv, NEW p \in Procs \ Anonymous, NEW k \in DOMAIN held[p]
               PROVE  /\ held[p][k].checker = held[p][1].checker
                      /\ checkers[held[p][k].slot] = held[p][k].checker
                      /\ held[p][k].checker \in inUse
    BY DEF OneCheckerPerRequest
  <2>1. TypeOK /\ HeldIsPinned  BY DEF IInv
  <2>2. k \in 1 .. Len(held[p]) /\ 1 \in 1 .. Len(held[p])
    <3>1. held[p] \in Seq(Handle)  BY <2>1 DEF TypeOK
    <3> QED  BY <3>1, SMT
  <2> QED  BY SMTT(60), <2>1, <2>2 DEF HeldIsPinned
<1> QED  BY <1>1, Invariant, PTL

(* A request association leads to a checker that its request holds: the    *)
(* branch of getRequestCheckerLocked for a free checker never runs.        *)
THEOREM AssociationsHeld == Spec => []AssociationIsHeld
<1>1. IInv => AssociationIsHeld
  <2> SUFFICES ASSUME IInv, NEW p \in Procs, requestAssociations[p] # None
               PROVE  /\ held[p] # <<>>
                      /\ held[p][1].slot = requestAssociations[p]
                      /\ checkers[requestAssociations[p]] \in inUse
    BY DEF AssociationIsHeld
  <2>1. TypeOK /\ HeldIsPinned /\ AssociationMatches  BY DEF IInv
  <2>2. held[p] # <<>> /\ held[p][1].slot = requestAssociations[p]
    BY <2>1 DEF AssociationMatches
  <2>3. 1 \in 1 .. Len(held[p])
    <3>1. held[p] \in Seq(Handle)  BY <2>1 DEF TypeOK
    <3>2. Len(held[p]) \in Nat \ {0}  BY <2>2, <3>1, SMT
    <3> QED  BY <3>2, SMT
  <2> QED  BY <2>1, <2>2, <2>3 DEF HeldIsPinned
<1> QED  BY <1>1, Invariant, PTL

----------------------------------------------------------------------------
(* Nothing is lost: wakeups and global diagnostics *)

(* The goroutines in cond.Wait, and those signalled but not yet running.   *)
Asleep == {p \in Procs : pc[p] = "waiting"}
Woken == {p \in Procs : pc[p] = "woken"}

(* While somebody sleeps there are as many goroutines on their way to a    *)
(* checker as there are free checkers.  NoLostWakeup alone is not kept: a  *)
(* goroutine that takes one of two free checkers must leave another one    *)
(* that will take the second.                                              *)
Signalled ==
    /\ IsFiniteSet(Woken)
    /\ Asleep # {} => Cardinality(Available) <= Cardinality(Woken)

(* count[i] is the number of diagnostics of checker i that were merged, so *)
(* that an equal number means that there is nothing new.                   *)
Counted ==
    \A i \in Slots :
        /\ checkers[i] = None => count[i] = 0
        /\ \E S \in SUBSET (globals[i] \cap accumulated) : Cardinality(S) = count[i]

Kept == Counted /\ NoDiagnosticLost

----------------------------------------------------------------------------
(* The pool is finite, and so are the checkers that are free.              *)
LEMMA AvailableFinite == IsFiniteSet(Available) /\ IsFiniteSet(Available')
<1>1. IsFiniteSet(Slots)
  BY PoolAssumption, FS_Interval, SMT DEF Slots
<1>2. Available \subseteq Slots /\ Available' \subseteq Slots
  BY DEF Available
<1> QED
  BY <1>1, <1>2, FS_Subset

(* Whoever is granted a checker leaves fewer free ones.                    *)
LEMMA GrantShrinks ==
    ASSUME NEW i \in Slots, NEW c,
           inUse' = inUse \cup {c}, checkers'[i] = c,
           \A j \in Slots : j # i => checkers'[j] = checkers[j]
    PROVE  Available' \subseteq Available \ {i}
BY DEF Available

(* A release frees at most its own slot, and not even that if the checker  *)
(* was canceled.                                                           *)
LEMMA ReleaseFreesOne ==
    ASSUME IInv, NEW p \in Procs, Release(p), Top(p).owns
    PROVE  /\ Top(p).slot \in Slots /\ checkers[Top(p).slot] # None
           /\ \A j \in Slots : j # Top(p).slot => checkers'[j] = checkers[j]
           /\ Available' \subseteq Available \cup {Top(p).slot}
           /\ Top(p).checker \in canceled => checkers'[Top(p).slot] = None
           /\ Top(p).checker \notin canceled => checkers' = checkers
<1>1. TypeOK /\ DistinctCheckers /\ HeldIsPinned
  BY DEF IInv
<1>2. Len(held[p]) \in 1 .. Len(held[p]) /\ Top(p) = held[p][Len(held[p])]
  <2>1. held[p] \in Seq(Handle) /\ held[p] # <<>>
    BY <1>1 DEF TypeOK, Release
  <2>2. Len(held[p]) \in Nat \ {0}
    BY <2>1, SMT
  <2> QED
    BY <2>2, SMT DEF Top
<1>3. Top(p).slot \in Slots /\ Top(p).checker \in CheckerIds
  BY <1>1, <1>2, HandleFields
<1>4. checkers[Top(p).slot] = Top(p).checker
  BY <1>1, <1>2, SMT DEF HeldIsPinned
<1>5. checkers[Top(p).slot] # None
  BY <1>3, <1>4, PoolAssumption DEF CheckerIds
<1>6. Return(Top(p)) /\ inUse' = inUse \ {Top(p).checker}
  BY DEF Release
<1>7. /\ \A j \in Slots : j # Top(p).slot => checkers'[j] = checkers[j]
      /\ Top(p).checker \in canceled => checkers'[Top(p).slot] = None
      /\ Top(p).checker \notin canceled => checkers' = checkers
  BY <1>1, <1>3, <1>6 DEF Return, TypeOK
<1>8. \A j \in Slots : j # Top(p).slot /\ checkers[j] # None => checkers[j] # Top(p).checker
  BY <1>1, <1>3, <1>4 DEF DistinctCheckers
<1>9. Available' \subseteq Available \cup {Top(p).slot}
  BY <1>6, <1>7, <1>8 DEF Available
<1> QED
  BY <1>3, <1>5, <1>7, <1>9

----------------------------------------------------------------------------
(* Steps that wake nobody and free nothing.                                *)
LEMMA ShrinkSignalled ==
    ASSUME Signalled, pc' = pc, Available' \subseteq Available
    PROVE  Signalled'
<1>1. Woken' = Woken /\ Asleep' = Asleep
  BY DEF Woken, Asleep
<1>2. Cardinality(Available') <= Cardinality(Available)
  BY AvailableFinite, FS_Subset
<1>3. /\ Cardinality(Available) \in Nat /\ Cardinality(Available') \in Nat
      /\ Cardinality(Woken) \in Nat
  BY AvailableFinite, FS_CardinalityType DEF Signalled
<1> QED
  BY <1>1, <1>2, <1>3, SMT DEF Signalled

(* A signal makes up for the checker that was freed before it.             *)
LEMMA SignalSignalled ==
    ASSUME TypeOK, Signalled, Signal, NEW i, Available' \subseteq Available \cup {i}
    PROVE  Signalled'
<1>1. CASE Asleep = {}
  BY <1>1 DEF Signal, Signalled, Asleep, Woken
<1>2. CASE Asleep # {}
  <2>1. PICK q \in Asleep : pc' = [pc EXCEPT ![q] = "woken"]
    BY <1>2 DEF Signal, Asleep
  <2>2. Woken' = Woken \cup {q} /\ q \notin Woken
    BY <2>1 DEF Woken, Asleep, TypeOK
  <2>3. IsFiniteSet(Woken') /\ Cardinality(Woken') = Cardinality(Woken) + 1
    BY <2>2, FS_AddElement DEF Signalled
  <2>4. Cardinality(Available') <= Cardinality(Available) + 1
    <3>1. /\ IsFiniteSet(Available \cup {i})
          /\ Cardinality(Available \cup {i}) \in {Cardinality(Available), Cardinality(Available) + 1}
      BY AvailableFinite, FS_AddElement
    <3>2. Cardinality(Available') <= Cardinality(Available \cup {i})
      BY <3>1, FS_Subset
    <3>3. Cardinality(Available) \in Nat /\ Cardinality(Available') \in Nat
      BY AvailableFinite, FS_CardinalityType
    <3> QED
      BY <3>1, <3>2, <3>3, SMT
  <2>5. Cardinality(Available) <= Cardinality(Woken)
    BY <1>2 DEF Signalled
  <2>6. /\ Cardinality(Available) \in Nat /\ Cardinality(Available') \in Nat
        /\ Cardinality(Woken) \in Nat
    BY AvailableFinite, FS_CardinalityType DEF Signalled
  <2>7. Cardinality(Available') <= Cardinality(Woken')
    BY <2>3, <2>4, <2>5, <2>6, SMT
  <2> QED
    BY <2>3, <2>7 DEF Signalled
<1> QED
  BY <1>1, <1>2

(* A goroutine that returns from cond.Wait takes a checker, or finds none. *)
LEMMA WakeSignalled ==
    ASSUME TypeOK, Signalled, NEW p \in Procs, Wake(p)
    PROVE  Signalled'
<1>1. p \in Woken /\ Woken' = Woken \ {p}
  BY DEF Woken, Wake, TypeOK
<1>2. IsFiniteSet(Woken') /\ Cardinality(Woken') = Cardinality(Woken) - 1
  BY <1>1, FS_RemoveElement DEF Signalled
<1>3. /\ Cardinality(Available) \in Nat /\ Cardinality(Available') \in Nat
      /\ Cardinality(Woken) \in Nat /\ Cardinality(Woken') \in Nat
  BY <1>2, AvailableFinite, FS_CardinalityType DEF Signalled
<1>4. CASE Available = {}
  <2>1. Available' = {}
    BY <1>4 DEF Wake, Available
  <2> QED
    BY <1>2, <1>3, <2>1, FS_EmptySet, SMT DEF Signalled
<1>5. CASE Available # {}
  <2>1. PICK i \in Available : Grant(p, i, checkers[i])
    BY <1>5 DEF Wake, First
  <2>2. i \in Slots /\ checkers' = checkers
    BY <2>1 DEF Available, Wake
  <2>3. Available' \subseteq Available \ {i}
    BY <2>1, <2>2, GrantShrinks DEF Grant
  <2>4. IsFiniteSet(Available \ {i}) /\ Cardinality(Available \ {i}) = Cardinality(Available) - 1
    BY <2>1, AvailableFinite, FS_RemoveElement
  <2>5. Cardinality(Available') <= Cardinality(Available) - 1
    BY <2>3, <2>4, FS_Subset, SMT
  <2>6. Asleep' \subseteq Asleep
    BY <1>5 DEF Wake, Asleep, TypeOK
  <2> QED
    BY <1>2, <1>3, <2>5, <2>6, SMT DEF Signalled
<1> QED
  BY <1>4, <1>5

LEMMA SignalledStep == IInv /\ Signalled /\ [Next]_vars => Signalled'
<1> SUFFICES ASSUME IInv, Signalled, [Next]_vars PROVE Signalled'
  OBVIOUS
<1>0. TypeOK
  BY DEF IInv
<1>1. ASSUME NEW p \in Procs, GetRequestChecker(p) PROVE Signalled'
  <2>1. pc' = pc /\ checkers' = checkers /\ inUse \subseteq inUse'
    BY <1>1 DEF GetRequestChecker, Grant
  <2> QED
    BY <2>1, ShrinkSignalled DEF Available
<1>2. ASSUME NEW p \in Procs, NEW f \in Files \cup {None}, GetFileChecker(p, f) PROVE Signalled'
  <2>1. pc' = pc /\ checkers' = checkers /\ inUse \subseteq inUse'
    BY <1>2 DEF GetFileChecker, Grant
  <2> QED
    BY <2>1, ShrinkSignalled DEF Available
<1>3. ASSUME NEW p \in Procs, NEW f \in Files \cup {None}, GetAvailable(p, f) PROVE Signalled'
  <2>1. pc' = pc /\ checkers' = checkers /\ inUse \subseteq inUse'
    BY <1>3 DEF GetAvailable, Grant
  <2> QED
    BY <2>1, ShrinkSignalled DEF Available
<1>4. ASSUME NEW p \in Procs, NEW f \in Files \cup {None}, Create(p, f) PROVE Signalled'
  <2>1. PICK i \in Slots : checkers' = [checkers EXCEPT ![i] = created + 1] /\ Grant(p, i, created + 1)
    BY <1>4 DEF Create, First, Empty
  <2>2. Available' \subseteq Available \ {i}
    BY <1>0, <2>1, GrantShrinks DEF Grant, TypeOK
  <2>3. pc' = pc
    BY <1>4 DEF Create
  <2> QED
    BY <2>2, <2>3, ShrinkSignalled
<1>5. ASSUME NEW p \in Procs, NEW f \in Files \cup {None}, Wait(p, f) PROVE Signalled'
  <2>1. Woken' = Woken
    BY <1>0, <1>5 DEF Wait, Calls, Woken, TypeOK
  <2>2. Available' = {}
    BY <1>5 DEF Wait, Available, poolVars
  <2>3. Cardinality(Woken) \in Nat
    BY FS_CardinalityType DEF Signalled
  <2> QED
    BY <2>1, <2>2, <2>3, FS_EmptySet, SMT DEF Signalled
<1>6. ASSUME NEW p \in Procs, Wake(p) PROVE Signalled'
  BY <1>0, <1>6, WakeSignalled
<1>7. ASSUME NEW p \in Procs, (\E d \in Diags : Check(p, d)) \/ Cancel(p) PROVE Signalled'
  <2>1. pc' = pc /\ checkers' = checkers /\ inUse' = inUse
    BY <1>7 DEF Check, Cancel, poolVars
  <2> QED
    BY <2>1, ShrinkSignalled DEF Available
<1>8. ASSUME NEW p \in Procs, Release(p) PROVE Signalled'
  <2>1. CASE Top(p).owns
    <3>1. Signal
      BY <1>8, <2>1 DEF Release
    <3> QED
      BY <1>0, <1>8, <2>1, <3>1, ReleaseFreesOne, SignalSignalled
  <2>2. CASE ~Top(p).owns
    <3>1. pc' = pc /\ checkers' = checkers /\ inUse' = inUse
      BY <1>8, <2>2 DEF Release
    <3> QED
      BY <3>1, ShrinkSignalled DEF Available
  <2> QED
    BY <2>1, <2>2
<1>9. CASE TakeNewGlobalDiagnostics \/ UNCHANGED vars
  <2>1. pc' = pc /\ checkers' = checkers /\ inUse' = inUse
    BY <1>9 DEF TakeNewGlobalDiagnostics, vars, poolVars
  <2> QED
    BY <2>1, ShrinkSignalled DEF Available
<1> QED
  BY <1>1, <1>2, <1>3, <1>4, <1>5, <1>6, <1>7, <1>8, <1>9 DEF Next, GetChecker

LEMMA SignalledInit == Init => Signalled
<1> SUFFICES ASSUME Init PROVE Signalled
  OBVIOUS
<1>1. Woken = {} /\ Asleep = {}
  BY DEF Init, Woken, Asleep
<1> QED
  BY <1>1, FS_EmptySet DEF Signalled

(* cond.Signal in the release function is called often enough: while a     *)
(* goroutine sleeps in waitForAvailableChecker and a checker is free, some *)
(* goroutine is on its way to take one.                                    *)
THEOREM WakeupsKept == Spec => []NoLostWakeup
<1>1. Signalled => NoLostWakeup
  <2> SUFFICES ASSUME Signalled, NEW p \in Procs, pc[p] = "waiting", Available # {}
               PROVE  \E q \in Procs : pc[q] = "woken"
    BY DEF NoLostWakeup
  <2>1. Cardinality(Available) \in Nat /\ Cardinality(Available) # 0
    BY AvailableFinite, FS_EmptySet, FS_CardinalityType
  <2>2. Cardinality(Available) <= Cardinality(Woken)
    BY DEF Signalled, Asleep
  <2>3. Woken # {}
    BY <2>1, <2>2, FS_EmptySet, SMT
  <2> QED
    BY <2>3 DEF Woken
<1> QED
  BY <1>1, Invariant, SignalledInit, SignalledStep, PTL DEF Spec

----------------------------------------------------------------------------
(* Steps that touch no diagnostics and free nothing.                       *)
LEMMA ShrinkKept ==
    ASSUME Kept, UNCHANGED <<diagVars, globals>>, Available' \subseteq Available,
           \A i \in Slots : checkers'[i] = None => checkers[i] = None
    PROVE  Kept'
<1>1. Counted'
  BY DEF Kept, Counted, diagVars
<1>2. NoDiagnosticLost'
  BY DEF Kept, NoDiagnosticLost, diagVars
<1> QED
  BY <1>1, <1>2 DEF Kept

(* A new checker starts with a count of zero, whatever it has produced     *)
(* already.                                                                *)
LEMMA CreateKept ==
    ASSUME TypeOK, Kept, NEW p \in Procs, NEW f \in Files \cup {None}, Create(p, f)
    PROVE  Kept'
<1>1. PICK i \in Slots, ds \in SUBSET Diags :
         /\ checkers[i] = None /\ checkers' = [checkers EXCEPT ![i] = created + 1]
         /\ globals' = [globals EXCEPT ![i] = ds]
         /\ Grant(p, i, created + 1)
  BY DEF Create, First, Empty
<1>2. accumulated' = accumulated /\ changed' = changed /\ count' = count /\ reported' = reported
  BY DEF Create, diagVars
<1>3. Available' \subseteq Available \ {i}
  BY <1>1, GrantShrinks DEF Grant, TypeOK
<1>4. \A j \in Slots : j # i => checkers'[j] = checkers[j] /\ globals'[j] = globals[j]
  BY <1>1 DEF TypeOK
<1>5. ASSUME NEW j \in Slots
      PROVE  /\ checkers'[j] = None => count[j] = 0
             /\ \E S \in SUBSET (globals'[j] \cap accumulated) : Cardinality(S) = count[j]
  <2>1. CASE j = i
    <3>1. count[j] = 0
      BY <1>1, <2>1 DEF Kept, Counted
    <3> QED
      BY <3>1, FS_EmptySet
  <2>2. CASE j # i
    BY <1>4, <2>2 DEF Kept, Counted
  <2> QED
    BY <2>1, <2>2
<1>6. NoDiagnosticLost'
  <2>1. \A j \in Available' : j \in Slots /\ j \in Available /\ j # i
    BY <1>3 DEF Available
  <2> QED
    BY <1>2, <1>4, <2>1 DEF Kept, NoDiagnosticLost
<1> QED
  BY <1>2, <1>5, <1>6 DEF Kept, Counted

(* Only a checker in use produces diagnostics.                             *)
LEMMA CheckKept ==
    ASSUME IInv, Kept, NEW p \in Procs, NEW d \in Diags, Check(p, d)
    PROVE  Kept'
<1>1. TypeOK /\ HeldIsPinned
  BY DEF IInv
<1>2. Len(held[p]) \in 1 .. Len(held[p]) /\ Top(p) = held[p][Len(held[p])]
  <2>1. held[p] \in Seq(Handle) /\ held[p] # <<>>
    BY <1>1 DEF TypeOK, Check
  <2>2. Len(held[p]) \in Nat \ {0}
    BY <2>1, SMT
  <2> QED
    BY <2>2, SMT DEF Top
<1>3. Top(p).slot \in Slots /\ Top(p).slot \notin Available
  <2>1. Top(p).slot \in Slots
    BY <1>1, <1>2, HandleFields
  <2>2. checkers[Top(p).slot] \in inUse
    BY <1>1, <1>2, SMT DEF HeldIsPinned
  <2> QED
    BY <2>1, <2>2 DEF Available
<1>4. /\ checkers' = checkers /\ Available' = Available /\ accumulated' = accumulated
      /\ changed' = changed /\ count' = count /\ reported' = reported
  BY DEF Check, poolVars, diagVars, Available
<1>5. /\ \A j \in Slots : globals[j] \subseteq globals'[j]
      /\ \A j \in Available : globals'[j] = globals[j]
  BY <1>1, <1>3 DEF Check, TypeOK, Available
<1>6. Counted'
  <2> SUFFICES ASSUME NEW j \in Slots
               PROVE  /\ checkers[j] = None => count[j] = 0
                      /\ \E S \in SUBSET (globals'[j] \cap accumulated) : Cardinality(S) = count[j]
    BY <1>4 DEF Counted
  <2>1. PICK S \in SUBSET (globals[j] \cap accumulated) : Cardinality(S) = count[j]
    BY DEF Kept, Counted
  <2>2. S \in SUBSET (globals'[j] \cap accumulated)
    BY <1>5, <2>1
  <2> QED
    BY <2>1, <2>2 DEF Kept, Counted
<1>7. NoDiagnosticLost'
  BY <1>4, <1>5 DEF Kept, NoDiagnosticLost
<1> QED
  BY <1>6, <1>7 DEF Kept

(* A release that disposes of a canceled checker resets the count of its   *)
(* slot.                                                                   *)
LEMMA DisposeKept ==
    ASSUME IInv, Kept, NEW p \in Procs, Release(p), Top(p).owns, Top(p).checker \in canceled
    PROVE  Kept'
<1> DEFINE i == Top(p).slot
<1>0. TypeOK
  BY DEF IInv
<1>1. /\ i \in Slots /\ checkers'[i] = None
      /\ \A j \in Slots : j # i => checkers'[j] = checkers[j]
      /\ Available' \subseteq Available \cup {i}
  BY ReleaseFreesOne
<1>2. /\ count' = [count EXCEPT ![i] = 0] /\ accumulated' = accumulated
      /\ changed' = changed /\ reported' = reported /\ globals' = globals
  BY DEF Release, Return
<1> HIDE DEF i
<1>3. count'[i] = 0 /\ \A j \in Slots : j # i => count'[j] = count[j]
  BY <1>0, <1>1, <1>2 DEF TypeOK
<1>4. Available' \subseteq Available
  BY <1>1 DEF Available
<1>5. ASSUME NEW j \in Slots
      PROVE  /\ checkers'[j] = None => count'[j] = 0
             /\ \E S \in SUBSET (globals[j] \cap accumulated) : Cardinality(S) = count'[j]
  <2>1. CASE j = i
    BY <1>3, <2>1, FS_EmptySet
  <2>2. CASE j # i
    BY <1>1, <1>3, <2>2 DEF Kept, Counted
  <2> QED
    BY <2>1, <2>2
<1>6. NoDiagnosticLost'
  BY <1>2, <1>4 DEF Kept, NoDiagnosticLost
<1> QED
  BY <1>2, <1>5, <1>6 DEF Kept, Counted

(* mergeGlobalDiagnosticsFromCheckerLocked may skip the merge when the     *)
(* number of diagnostics is the one it merged last.                        *)
LEMMA MergeKept ==
    ASSUME IInv, Kept, NEW p \in Procs, Release(p), Top(p).owns, Top(p).checker \notin canceled
    PROVE  Kept'
<1> DEFINE i == Top(p).slot
<1>0. TypeOK
  BY DEF IInv
<1>1. /\ i \in Slots /\ checkers[i] # None /\ checkers' = checkers
      /\ Available' \subseteq Available \cup {i}
  BY ReleaseFreesOne
<1>2. Merge(i) /\ reported' = reported /\ globals' = globals
  BY DEF Release, Return
<1> HIDE DEF i
<1>3. /\ IsFiniteSet(globals[i]) /\ IsFiniteSet(accumulated)
      /\ IsFiniteSet(accumulated \cup globals[i])
  <2>1. globals[i] \subseteq Diags /\ accumulated \subseteq Diags
    BY <1>0, <1>1 DEF TypeOK
  <2>2. accumulated \cup globals[i] \subseteq Diags
    BY <2>1
  <2> QED
    BY <2>1, <2>2, PoolAssumption, FS_Subset
<1>4. CASE Cardinality(globals[i]) = count[i]
  <2>1. accumulated' = accumulated /\ changed' = changed /\ count' = count
    BY <1>2, <1>4 DEF Merge
  <2>2. PICK S \in SUBSET (globals[i] \cap accumulated) : Cardinality(S) = count[i]
    BY <1>1 DEF Kept, Counted
  <2>3. S = globals[i]
    BY <1>3, <1>4, <2>2, FS_Subset
  <2>4. globals[i] \subseteq accumulated
    BY <2>2, <2>3
  <2>5. Counted'
    BY <1>1, <1>2, <2>1 DEF Kept, Counted
  <2>6. NoDiagnosticLost'
    BY <1>1, <1>2, <2>1, <2>4 DEF Kept, NoDiagnosticLost
  <2> QED
    BY <2>5, <2>6 DEF Kept
<1>5. CASE Cardinality(globals[i]) # count[i]
  <2>1. /\ count' = [count EXCEPT ![i] = Cardinality(globals[i])]
        /\ accumulated' = accumulated \cup globals[i]
        /\ changed' = (changed \/ Cardinality(accumulated') # Cardinality(accumulated))
    BY <1>2, <1>5 DEF Merge
  <2>2. count'[i] = Cardinality(globals[i]) /\ \A j \in Slots : j # i => count'[j] = count[j]
    BY <1>0, <1>1, <2>1 DEF TypeOK
  <2>3. ASSUME NEW j \in Slots
        PROVE  /\ checkers[j] = None => count'[j] = 0
               /\ \E S \in SUBSET (globals[j] \cap accumulated') : Cardinality(S) = count'[j]
    <3>1. CASE j = i
      <4>1. globals[i] \in SUBSET (globals[j] \cap accumulated')
        BY <2>1, <3>1
      <4> QED
        BY <1>1, <2>2, <3>1, <4>1
    <3>2. CASE j # i
      <4>1. PICK S \in SUBSET (globals[j] \cap accumulated) : Cardinality(S) = count[j]
        BY DEF Kept, Counted
      <4>2. S \in SUBSET (globals[j] \cap accumulated')
        BY <2>1, <4>1
      <4> QED
        BY <2>2, <3>2, <4>1, <4>2 DEF Kept, Counted
    <3> QED
      BY <3>1, <3>2
  <2>4. Counted'
    BY <1>1, <1>2, <2>3 DEF Counted
  <2>5. changed' \/ accumulated' = reported'
    <3>1. Cardinality(accumulated') = Cardinality(accumulated) => accumulated' = accumulated
      BY <1>3, <2>1, FS_Subset
    <3> QED
      BY <1>2, <2>1, <3>1 DEF Kept, NoDiagnosticLost
  <2>6. \A j \in Available' : globals[j] \subseteq accumulated'
    BY <1>1, <2>1 DEF Kept, NoDiagnosticLost
  <2>7. NoDiagnosticLost'
    BY <1>2, <2>5, <2>6 DEF NoDiagnosticLost
  <2> QED
    BY <2>4, <2>7 DEF Kept
<1> QED
  BY <1>4, <1>5

LEMMA KeptStep == IInv /\ Kept /\ [Next]_vars => Kept'
<1> SUFFICES ASSUME IInv, Kept, [Next]_vars PROVE Kept'
  OBVIOUS
<1>0. TypeOK
  BY DEF IInv
<1>1. ASSUME checkers' = checkers, inUse \subseteq inUse', UNCHANGED <<diagVars, globals>>
      PROVE  Kept'
  <2>1. Available' \subseteq Available
    BY <1>1 DEF Available
  <2> QED
    BY <1>1, <2>1, ShrinkKept
<1>2. ASSUME NEW p \in Procs, GetRequestChecker(p) \/ Wake(p) \/ Cancel(p) PROVE Kept'
  <2>1. checkers' = checkers /\ UNCHANGED <<diagVars, globals>>
    BY <1>2 DEF GetRequestChecker, Wake, Cancel, poolVars
  <2>2. inUse \subseteq inUse'
    BY <1>2 DEF GetRequestChecker, Wake, Cancel, Grant, poolVars
  <2> QED
    BY <1>1, <2>1, <2>2
<1>3. ASSUME NEW p \in Procs, NEW f \in Files \cup {None},
             GetFileChecker(p, f) \/ GetAvailable(p, f) \/ Wait(p, f)
      PROVE  Kept'
  <2>1. checkers' = checkers /\ UNCHANGED <<diagVars, globals>>
    BY <1>3 DEF GetFileChecker, GetAvailable, Wait, poolVars
  <2>2. inUse \subseteq inUse'
    BY <1>3 DEF GetFileChecker, GetAvailable, Wait, Grant, poolVars
  <2> QED
    BY <1>1, <2>1, <2>2
<1>4. ASSUME NEW p \in Procs, NEW f \in Files \cup {None}, Create(p, f) PROVE Kept'
  BY <1>0, <1>4, CreateKept
<1>5. ASSUME NEW p \in Procs, NEW d \in Diags, Check(p, d) PROVE Kept'
  BY <1>5, CheckKept
<1>6. ASSUME NEW p \in Procs, Release(p) PROVE Kept'
  <2>1. CASE Top(p).owns
    BY <1>6, <2>1, DisposeKept, MergeKept
  <2>2. CASE ~Top(p).owns
    <3>1. checkers' = checkers /\ inUse' = inUse /\ UNCHANGED <<diagVars, globals>>
      BY <1>6, <2>2 DEF Release, diagVars
    <3> QED
      BY <1>1, <3>1
  <2> QED
    BY <2>1, <2>2
<1>7. CASE TakeNewGlobalDiagnostics
  <2>1. Counted' /\ Available' = Available
    BY <1>7 DEF TakeNewGlobalDiagnostics, Kept, Counted, Available, poolVars
  <2>2. NoDiagnosticLost'
    BY <1>7, <2>1 DEF TakeNewGlobalDiagnostics, Kept, NoDiagnosticLost
  <2> QED
    BY <2>1, <2>2 DEF Kept
<1>8. CASE UNCHANGED vars
  <2>1. checkers' = checkers /\ inUse' = inUse /\ UNCHANGED <<diagVars, globals>>
    BY <1>8 DEF vars, poolVars
  <2> QED
    BY <1>1, <2>1
<1> QED
  BY <1>2, <1>3, <1>4, <1>5, <1>6, <1>7, <1>8 DEF Next, GetChecker

LEMMA KeptInit == Init => Kept
<1> SUFFICES ASSUME Init PROVE Kept
  OBVIOUS
<1>1. Counted
  BY FS_EmptySet DEF Init, Counted
<1>2. NoDiagnosticLost
  BY DEF Init, NoDiagnosticLost, Available
<1> QED
  BY <1>1, <1>2 DEF Kept

(* The shortcut of mergeGlobalDiagnosticsFromCheckerLocked is sound, also  *)
(* when canceled checkers are replaced: whatever a free checker produced   *)
(* was merged, and TakeNewGlobalDiagnostics is told of everything new.     *)
THEOREM DiagnosticsKept == Spec => []NoDiagnosticLost
<1>1. Kept => NoDiagnosticLost
  BY DEF Kept
<1> QED
  BY <1>1, Invariant, KeptInit, KeptStep, PTL DEF Spec

=============================================================================
