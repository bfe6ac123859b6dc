------------------------ MODULE RefCountCacheProofs ------------------------
(***************************************************************************)
(* Proofs about RefCountCache for any number of programs, keys and         *)
(* entries: what holds whatever its callers do, then what the callers      *)
(* guarantee and what they get for it, a program being kept alive while    *)
(* another is cloned from it.                                              *)
(*                                                                         *)
(* The count of an entry is the number of its owners only because an entry *)
(* that is alive cannot leave the map and a dead one cannot be revived:    *)
(* the inductive invariant says which of the entries that processes have   *)
(* in hand are still the one in the map, and who holds which mutex.        *)
(***************************************************************************)
EXTENDS RefCountCache, FiniteSetTheorems, TLAPS

(* Most steps are first-order reasoning about sets, functions and records, *)
(* which is Zenon's; those with arithmetic in them cite SMT.               *)
USE Zenon

(* Different keys have different entries.                                  *)
MapInjective ==
    \A k, l \in Keys : entries[k] = entries[l] /\ entries[k] # None => k = l

(* What a process knows about its key, its entry and its mutexes.          *)
CallOK(p) ==
    /\ pc[p] \notin {"idle", "panic"} => call[p].key \in Keys
    /\ pc[p] \in {"lock", "fill", "dec", "delete", "refLock"} => call[p].ent \in Entries
    /\ pc[p] \in {"store", "lock", "fill", "refLock", "delete"} => call[p].key \notin held[p]
    /\ pc[p] \in {"store", "lock", "fill"} /\ InRef(p) =>
          /\ call[p].old \in Entries /\ mu[call[p].old] = p
          /\ ~Alive(call[p].old)
    /\ pc[p] \in {"lock", "refLock"} /\ Alive(call[p].ent) =>
          entries[call[p].key] = call[p].ent
    /\ pc[p] \in {"fill", "delete"} =>
          entries[call[p].key] = call[p].ent /\ mu[call[p].ent] = p
    /\ pc[p] = "fill" => Alive(call[p].ent)
    /\ pc[p] = "delete" => ~Alive(call[p].ent)
    /\ pc[p] = "dec" => call[p].key \in held[p] /\ entries[call[p].key] = call[p].ent

(* A dead entry in the map is about to be deleted.                         *)
DeadIsDeleted ==
    \A k \in Keys : entries[k] # None /\ ~Alive(entries[k]) =>
        \E p \in Procs : pc[p] = "delete" /\ call[p].key = k

IInv == TypeOK /\ MapInjective /\ (\A p \in Procs : CallOK(p)) /\ DeadIsDeleted /\ CountIsOwners

----------------------------------------------------------------------------
(* Cardinalities of the sets of owners.                                    *)
LEMMA OwnersFinite ==
    ASSUME NEW k \in Keys
    PROVE  /\ IsFiniteSet(Owners(k))
           /\ Cardinality(Owners(k)) \in Nat
           /\ Cardinality(Owners(k)) = 0 <=> Owners(k) = {}
           /\ \A p \in Procs : Cardinality(Owners(k) \cup {p}) =
                 IF p \in Owners(k) THEN Cardinality(Owners(k)) ELSE Cardinality(Owners(k)) + 1
           /\ \A p \in Procs : Cardinality(Owners(k) \ {p}) =
                 IF p \in Owners(k) THEN Cardinality(Owners(k)) - 1 ELSE Cardinality(Owners(k))
<1>1. Owners(k) \subseteq Procs
  BY DEF Owners
<1>2. IsFiniteSet(Owners(k))
  BY <1>1, CacheAssumption, FS_Subset
<1>3. QED
  BY <1>2, FS_CardinalityType, FS_EmptySet, FS_AddElement, FS_RemoveElement

(* A program that owns a key finds a live entry for it.                    *)
LEMMA OwnerAlive ==
    ASSUME TypeOK, CountIsOwners, NEW k \in Keys, NEW p \in Owners(k)
    PROVE  entries[k] \in Entries /\ Alive(entries[k])
<1>1. entries[k] # None
  BY DEF CountIsOwners
<1>2. Cardinality(Owners(k)) \in Nat /\ Cardinality(Owners(k)) # 0
  BY OwnersFinite
<1>3. refCount[entries[k]] = Cardinality(Owners(k))
  BY <1>1 DEF CountIsOwners
<1>4. QED
  BY <1>1, <1>2, <1>3, SMT DEF Alive, TypeOK

(* No dead entry with a free mutex is in the map.                          *)
LEMMA DeadFreeUnmapped ==
    ASSUME IInv, NEW e \in Entries, Unlocked(e), ~Alive(e), NEW k \in Keys
    PROVE  entries[k] # e
<1>1. SUFFICES ASSUME entries[k] = e PROVE FALSE
  OBVIOUS
<1>2. PICK p \in Procs : pc[p] = "delete" /\ call[p].key = k
  BY <1>1, CacheAssumption DEF IInv, DeadIsDeleted
<1>3. CallOK(p)
  BY DEF IInv
<1>4. QED
  BY <1>1, <1>2, <1>3, CacheAssumption DEF CallOK, Unlocked

LEMMA InitIInv == Init => IInv
<1>1. SUFFICES ASSUME Init PROVE IInv
  OBVIOUS
<1>2. TypeOK
  BY <1>1 DEF Init, TypeOK, PCs, Calls, NoCall
<1>3. MapInjective /\ DeadIsDeleted
  BY <1>1 DEF Init, MapInjective, DeadIsDeleted
<1>4. \A p \in Procs : CallOK(p)
  BY <1>1 DEF Init, CallOK
<1>5. CountIsOwners
  BY <1>1 DEF Init, CountIsOwners, Owners
<1>6. QED
  BY <1>2, <1>3, <1>4, <1>5 DEF IInv

(* Every step keeps the types.                                             *)
LEMMA TypeStep ==
    ASSUME IInv, [Next]_vars
    PROVE  TypeOK'
<1> SUFFICES ASSUME Next PROVE TypeOK'
  BY DEF vars, TypeOK, IInv
<1> PICK p \in Procs : (\E k \in Keys : Acquire(p, k) \/ (\E g \in Procs : RefLoad(p, g, k))
                                        \/ DerefLoad(p, k))
                       \/ Continue(p)
  BY DEF Next
<1> guarded' \in BOOLEAN
  <2>1. guarded' = guarded
    BY DEF Next
  <2>2. guarded \in BOOLEAN
    BY DEF IInv, TypeOK
  <2>3. QED
    BY <2>1, <2>2
<1>k. CallOK(p) /\ TypeOK
  BY DEF IInv
<1>p. call[p] \in Calls
  BY <1>k DEF TypeOK
<1>c. NoCall \in Calls
  BY DEF NoCall, Calls
<1>e. \A e \in Entries \cup {None} : [call[p] EXCEPT !.ent = e] \in Calls
  BY <1>p DEF Calls
<1>f. ASSUME NEW v \in Entries \cup {None}, call[p].key \in Keys, Finish(p, v)
      PROVE  /\ held' \in [Procs -> SUBSET Keys]
             /\ seen' \in [Procs -> [Keys -> Entries \cup {None}]]
             /\ pc' \in [Procs -> PCs] /\ call' \in [Procs -> Calls]
  BY <1>f, <1>c, <1>k DEF Finish, TypeOK, PCs
<1>1. ASSUME NEW k \in Keys, Acquire(p, k) PROVE TypeOK'
  BY <1>1, <1>k DEF Acquire, TypeOK, cacheVars, PCs, Calls, NoCall
<1>2. ASSUME NEW k \in Keys, NEW g \in Procs, RefLoad(p, g, k) PROVE TypeOK'
  <2>1. /\ entries[k] \in Entries \cup {None} /\ seen[g][k] \in Entries \cup {None}
        /\ pc' \in [Procs -> PCs]
    <3>1. entries[k] \in Entries \cup {None} /\ seen[g][k] \in Entries \cup {None}
      BY <1>k, SMT DEF TypeOK
    <3>2. pc \in [Procs -> PCs]
      BY <1>k DEF TypeOK
    <3>3. QED
      BY <1>2, <3>1, <3>2 DEF RefLoad, PCs
  <2>2. [NoCall EXCEPT !.key = k, !.ent = entries[k], !.source = g, !.carry = seen[g][k]] \in Calls
    BY <2>1 DEF NoCall, Calls
  <2>3. call' \in [Procs -> Calls]
    BY <1>2, <1>k, <2>2 DEF RefLoad, TypeOK
  <2>4. QED
    BY <1>2, <1>k, <2>1, <2>3 DEF RefLoad, TypeOK, cacheVars
<1>3. ASSUME NEW k \in Keys, DerefLoad(p, k) PROVE TypeOK'
  <2>1. entries[k] \in Entries \cup {None}
    BY <1>k DEF TypeOK
  <2>2. [NoCall EXCEPT !.key = k, !.ent = entries[k]] \in Calls
    BY <2>1 DEF NoCall, Calls
  <2>3. call' \in [Procs -> Calls] /\ pc' \in [Procs -> PCs]
    BY <1>3, <1>k, <2>2 DEF DerefLoad, TypeOK, PCs
  <2>4. QED
    <3>0. Drop(p, k) \/ UNCHANGED <<held, seen>>
      BY <1>3 DEF DerefLoad
    <3>1. held' \in [Procs -> SUBSET Keys]
      BY <3>0, <1>k, SMT DEF Drop, TypeOK
    <3>2. seen' \in [Procs -> [Keys -> Entries \cup {None}]]
      <4>1. seen \in [Procs -> [Keys -> Entries \cup {None}]]
        BY <1>k DEF TypeOK
      <4>2. [seen[p] EXCEPT ![k] = None] \in [Keys -> Entries \cup {None}]
        BY <4>1
      <4>3. QED
        BY <3>0, <4>1, <4>2 DEF Drop
    <3>3. QED
      BY <1>3, <1>k, <2>3, <3>1, <3>2 DEF DerefLoad, TypeOK, cacheVars
<1>4. CASE StoreNew(p)
  <2>1. call' \in [Procs -> Calls]
    BY <1>4, <1>k, <1>e, SMT DEF StoreNew, TypeOK
  <2>2. QED
    BY <1>4, <1>k, <2>1, SMT DEF StoreNew, CallOK, TypeOK, PCs
<1>5. CASE LoadExisting(p)
  <2>1. entries[call[p].key] \in Entries
    BY <1>5, <1>k DEF LoadExisting, CallOK, TypeOK
  <2>2. call' \in [Procs -> Calls]
    BY <1>5, <1>k, <1>e, <2>1 DEF LoadExisting, TypeOK
  <2>3. QED
    BY <1>5, <1>k, <2>2 DEF LoadExisting, TypeOK, cacheVars, PCs
<1>6. CASE Retry(p)
  BY <1>6, <1>k, <1>e DEF Retry, TypeOK, cacheVars, PCs
<1>7. CASE TakeExisting(p)
  <2>1. call[p].key \in Keys /\ call[p].ent \in Entries
    BY <1>7, <1>k DEF TakeExisting, CallOK
  <2>2. CASE InRef(p)
    <3>1. call[p].old \in Entries /\ call[p].carry \in Entries \cup {None}
      BY <1>7, <1>k, <2>2 DEF TakeExisting, CallOK, TypeOK, Calls
    <3>2. value[call[p].old] \in Entries \cup {None}
      BY <3>1, <1>k DEF TypeOK
    <3>3. Finish(p, call[p].carry)
      BY <1>7, <2>2 DEF TakeExisting
    <3>4. refCount' \in [Entries -> Nat] /\ mu' \in [Entries -> Procs \cup {None}]
      <4>1. refCount' = [refCount EXCEPT ![call[p].ent] = @ + 1] /\ mu' = [mu EXCEPT ![call[p].old] = None]
        BY <1>7, <2>2 DEF TakeExisting
      <4>2. QED
        BY <4>1, <2>1, <3>1, <1>k, SMT DEF TypeOK
    <3>5. value' \in [Entries -> Entries \cup {None}] /\ entries' = entries
      BY <1>7, <2>1, <2>2, <3>2, <1>k DEF TakeExisting, TypeOK
    <3>6. QED
      BY <3>1, <3>3, <3>4, <3>5, <2>1, <1>f, <1>k DEF TypeOK
  <2>3. CASE ~InRef(p)
    <3>1. value[call[p].ent] \in Entries \cup {None}
      BY <2>1, <1>k DEF TypeOK
    <3>2. Finish(p, value[call[p].ent])
      BY <1>7, <2>3 DEF TakeExisting
    <3>3. QED
      BY SMTT(60), <1>7, <2>1, <2>3, <3>1, <3>2, <1>f, <1>k DEF TakeExisting, TypeOK
  <2>4. QED
    BY <2>2, <2>3
<1>8. CASE Fill(p)
  <2>1. call[p].key \in Keys /\ call[p].ent \in Entries
    BY <1>8, <1>k DEF Fill, CallOK
  <2>2. CASE InRef(p)
    <3>1. call[p].old \in Entries /\ call[p].carry \in Entries \cup {None}
      BY <1>8, <1>k, <2>2 DEF Fill, CallOK, TypeOK, Calls
    <3>2. value[call[p].old] \in Entries \cup {None}
      BY <3>1, <1>k DEF TypeOK
    <3>3. Finish(p, call[p].carry)
      BY <1>8, <2>2 DEF Fill
    <3>4. QED
      BY <1>8, <2>1, <2>2, <3>1, <3>2, <3>3, <1>f, <1>k DEF Fill, TypeOK
  <2>3. CASE ~InRef(p)
    <3>1. Finish(p, call[p].ent)
      BY <1>8, <2>3 DEF Fill
    <3>2. QED
      BY <1>8, <2>1, <2>3, <3>1, <1>f, <1>k DEF Fill, TypeOK
  <2>4. QED
    BY <2>2, <2>3
<1>9. CASE RefCountUp(p)
  <2>1. call[p].key \in Keys /\ call[p].ent \in Entries /\ call[p].carry \in Entries \cup {None}
    BY <1>9, <1>k DEF RefCountUp, CallOK, TypeOK, Calls
  <2>2. QED
    BY SMTT(60), <1>9, <2>1, <1>f, <1>k DEF RefCountUp, TypeOK
<1>10. CASE RefRevive(p)
  <2>1. call[p].ent \in Entries
    BY <1>10, <1>k DEF RefRevive, CallOK
  <2>2. [call[p] EXCEPT !.old = call[p].ent, !.ent = None] \in Calls
    BY <2>1, <1>p DEF Calls
  <2>3. call' \in [Procs -> Calls]
    BY <1>10, <1>k, <2>2 DEF RefRevive, TypeOK
  <2>4. QED
    BY <1>10, <1>k, <2>1, <2>3 DEF RefRevive, TypeOK, PCs
<1>11. CASE DerefDec(p)
  <2>1. call[p].key \in Keys /\ call[p].ent \in Entries
    BY <1>11, <1>k DEF DerefDec, CallOK
  <2>2. call' \in [Procs -> Calls] /\ pc' \in [Procs -> PCs] /\ mu' \in [Entries -> Procs \cup {None}]
    BY <1>11, <1>k, <1>c, <2>1 DEF DerefDec, TypeOK, PCs
  <2>3. refCount' \in [Entries -> Nat]
    <3>1. p \in Owners(call[p].key) /\ entries[call[p].key] = call[p].ent
      BY <1>11, <1>k DEF DerefDec, CallOK, Owners
    <3>2. Alive(call[p].ent)
      BY <2>1, <3>1, OwnerAlive DEF IInv
    <3>3. QED
      BY <1>11, <1>k, <2>1, <3>2, SMT DEF DerefDec, TypeOK, Alive
  <2>4. QED
    BY <1>11, <1>k, <2>1, <2>2, <2>3 DEF DerefDec, Drop, TypeOK
<1>12. CASE DerefDelete(p)
  BY <1>12, <1>k, <1>c DEF DerefDelete, CallOK, TypeOK, PCs
<1>13. QED
  BY <1>1, <1>2, <1>3, <1>4, <1>5, <1>6, <1>7, <1>8, <1>9, <1>10, <1>11, <1>12 DEF Continue

(***************************************************************************)
(* The rest of the invariant, action by action.                            *)
(***************************************************************************)
Rest == MapInjective /\ (\A p \in Procs : CallOK(p)) /\ DeadIsDeleted /\ CountIsOwners

(* Steps that change neither counts, map nor references.                   *)
LEMMA QuietStep ==
    ASSUME IInv, NEW p \in Procs, NEW x \in PCs, NEW c \in Calls,
           UNCHANGED <<entries, refCount, held>>,
           \A f \in Entries : mu[f] \notin {None, p} => mu'[f] = mu[f],
           pc[p] \notin {"fill", "delete"}, x \notin {"fill", "delete"},
           pc' = [pc EXCEPT ![p] = x], call' = [call EXCEPT ![p] = c],
           CallOK(p)'
    PROVE  Rest'
<1>1. MapInjective'
  BY DEF IInv, MapInjective
<1>2. ASSUME NEW q \in Procs PROVE CallOK(q)'
  <2>1. CASE q = p
    BY <2>1
  <2>2. CASE q # p
    <3>1. CallOK(q) /\ TypeOK
      BY DEF IInv
    <3>2. pc'[q] = pc[q] /\ call'[q] = call[q] /\ held'[q] = held[q]
      BY <2>2, <3>1 DEF TypeOK
    <3>3. QED
      BY <2>2, <3>1, <3>2, CacheAssumption DEF CallOK, Alive, InRef
  <2>3. QED
    BY <2>1, <2>2
<1>3. DeadIsDeleted'
  <2>1. \A q \in Procs : pc[q] = "delete" => pc'[q] = "delete" /\ call'[q] = call[q]
    BY DEF IInv, TypeOK
  <2>2. QED
    BY <2>1, SMT DEF IInv, DeadIsDeleted, Alive
<1>4. CountIsOwners'
  <2>1. ASSUME NEW k \in Keys PROVE Owners(k)' = Owners(k)
    BY DEF Owners, IInv, TypeOK
  <2>2. QED
    BY <2>1 DEF IInv, CountIsOwners
<1>5. QED
  BY <1>1, <1>2, <1>3, <1>4 DEF Rest

(* A reference to a live entry is added: Ref and Acquire of a loaded one.  *)
LEMMA CountUpStep ==
    ASSUME IInv, NEW p \in Procs, NEW e \in Entries, NEW k \in Keys,
           pc[p] \in {"lock", "refLock"}, call[p].key = k, call[p].ent = e,
           Unlocked(e), Alive(e), entries' = entries,
           refCount' = [refCount EXCEPT ![e] = @ + 1],
           \A f \in Entries : mu[f] \notin {None, p} => mu'[f] = mu[f],
           held' = [held EXCEPT ![p] = @ \cup {k}],
           pc' = [pc EXCEPT ![p] = "idle"], call' = [call EXCEPT ![p] = NoCall]
    PROVE  Rest'
<1>k. CallOK(p) /\ TypeOK
  BY DEF IInv
<1>e. entries[k] = e /\ k \notin held[p]
  BY <1>k DEF CallOK
<1>a. \A f \in Entries : Alive(f)' <=> Alive(f)
  BY <1>k, SMT DEF Alive, TypeOK
<1>1. MapInjective'
  BY DEF IInv, MapInjective
<1>2. ASSUME NEW q \in Procs PROVE CallOK(q)'
  <2>1. CASE q = p
    BY <2>1, <1>k DEF CallOK, TypeOK
  <2>2. CASE q # p
    <3>1. CallOK(q)
      BY DEF IInv
    <3>2. pc'[q] = pc[q] /\ call'[q] = call[q] /\ held'[q] = held[q]
      BY <2>2, <1>k DEF TypeOK
    <3>3. QED
      BY <2>2, <3>1, <3>2, <1>a, CacheAssumption DEF CallOK, InRef
  <2>3. QED
    BY <2>1, <2>2
<1>3. DeadIsDeleted'
  <2>1. \A q \in Procs : pc[q] = "delete" => pc'[q] = "delete" /\ call'[q] = call[q]
    BY <1>k DEF TypeOK
  <2>2. \A l \in Keys : entries[l] # None => entries[l] \in Entries
    BY <1>k DEF TypeOK
  <2>3. QED
    BY SMTT(60), <2>1, <2>2, <1>a DEF IInv, DeadIsDeleted
<1>4. CountIsOwners'
  <2>1. Owners(k)' = Owners(k) \cup {p} /\ p \notin Owners(k)
    BY <1>k, <1>e DEF Owners, TypeOK
  <2>2. ASSUME NEW l \in Keys, l # k PROVE Owners(l)' = Owners(l)
    BY <2>2, <1>k DEF Owners, TypeOK
  <2>3. refCount'[e] = Cardinality(Owners(k)')
    <3>1. refCount[e] = Cardinality(Owners(k))
      BY <1>e, CacheAssumption DEF IInv, CountIsOwners
    <3>2. Cardinality(Owners(k) \cup {p}) = Cardinality(Owners(k)) + 1
      BY <2>1, OwnersFinite
    <3>3. QED
      BY <2>1, <3>1, <3>2, <1>k DEF TypeOK
  <2>4. ASSUME NEW l \in Keys, l # k, entries[l] # None
        PROVE  refCount'[entries[l]] = refCount[entries[l]]
    BY ZenonT(60), <2>4, <1>e, <1>k DEF IInv, MapInjective, TypeOK
  <2>5. ASSUME NEW l \in Keys
        PROVE  IF entries'[l] = None THEN Owners(l)' = {}
               ELSE refCount'[entries'[l]] = Cardinality(Owners(l)')
    <3>1. CASE l = k
      BY <3>1, <2>3, <1>e, CacheAssumption
    <3>2. CASE l # k
      BY SMTT(60), <3>2, <2>2, <2>4 DEF IInv, CountIsOwners
    <3>3. QED
      BY <3>1, <3>2
  <2>6. QED
    BY <2>5 DEF CountIsOwners
<1>5. QED
  BY <1>1, <1>2, <1>3, <1>4 DEF Rest

(* A new entry is stored.                                                  *)
LEMMA StoreStep ==
    ASSUME IInv, NEW p \in Procs, StoreNew(p)
    PROVE  Rest'
<1>k. CallOK(p) /\ TypeOK
  BY DEF IInv
<1>r. PICK k \in Keys : k = call[p].key
  BY <1>k DEF StoreNew, CallOK
<1> USE <1>r
<1>e. PICK e \in Entries :
          /\ Fresh(e)
          /\ entries' = [entries EXCEPT ![k] = e]
          /\ refCount' = [refCount EXCEPT ![e] = 1]
          /\ mu' = [mu EXCEPT ![e] = p]
          /\ call' = [call EXCEPT ![p].ent = e]
  BY DEF StoreNew, NewEntry
<1>p. /\ pc[p] = "store" /\ entries[k] = None /\ k \in Keys /\ k \notin held[p]
      /\ pc' = [pc EXCEPT ![p] = "fill"] /\ held' = held
  BY <1>k DEF StoreNew, CallOK
<1>f. /\ \A l \in Keys : entries[l] # e
      /\ \A q \in Procs : call[q].ent # e /\ call[q].old # e
  BY <1>e DEF Fresh
<1>a. \A f \in Entries : f # e => refCount'[f] = refCount[f] /\ mu'[f] = mu[f]
  BY <1>e, <1>k DEF TypeOK
<1>b. refCount'[e] = 1 /\ mu'[e] = p /\ entries'[k] = e /\ e # None
  BY <1>e, <1>k, <1>p, CacheAssumption DEF TypeOK
<1>c. \A l \in Keys : l # k => entries'[l] = entries[l]
  BY <1>e, <1>k DEF TypeOK
<1>q. call'[p] = [call[p] EXCEPT !.ent = e]
  BY <1>e, <1>k DEF TypeOK
<1>d. call'[p].key = k /\ call'[p].ent = e /\ call'[p].old = call[p].old /\ call'[p].source = call[p].source
  BY <1>q, <1>k, SMT DEF TypeOK, Calls
<1>1. MapInjective'
  <2>1. SUFFICES ASSUME NEW l \in Keys, NEW m \in Keys, entries'[l] = entries'[m], entries'[l] # None
                 PROVE  l = m
    BY DEF MapInjective
  <2>2. CASE l = k \/ m = k
    BY <2>1, <2>2, <1>b, <1>c, <1>f
  <2>3. CASE l # k /\ m # k
    BY <2>1, <2>3, <1>c DEF IInv, MapInjective
  <2>4. QED
    BY <2>2, <2>3
<1>2. ASSUME NEW q \in Procs PROVE CallOK(q)'
  <2>1. CASE q = p
    <3>1. call[p].source # None => /\ call[p].old \in Entries /\ mu'[call[p].old] = p
                                   /\ ~(refCount'[call[p].old] > 0)
      BY <1>k, <1>p, <1>f, <1>a DEF CallOK, InRef, Alive
    <3>2. pc'[p] = "fill" /\ held'[p] = held[p]
      BY <1>p, <1>k DEF TypeOK
    <3>3. QED
      BY SMTT(60), <2>1, <3>1, <3>2, <1>b, <1>d, <1>p DEF CallOK, InRef, Alive
  <2>2. CASE q # p
    <3>1. CallOK(q)
      BY DEF IInv
    <3>2. pc'[q] = pc[q] /\ call'[q] = call[q] /\ held'[q] = held[q]
      BY <2>2, <1>k, <1>p, <1>e DEF TypeOK
    <3>3. call[q].ent # e /\ call[q].old # e
      BY <1>f
    <3>4. call[q].key \in Keys /\ entries[call[q].key] = call[q].ent /\ call[q].ent \in Entries
            => entries'[call[q].key] = call[q].ent
      BY <1>c, <1>p, CacheAssumption
    <3>5. QED
      BY <3>1, <3>2, <3>3, <3>4, <1>a DEF CallOK, InRef, Alive
  <2>3. QED
    BY <2>1, <2>2
<1>3. DeadIsDeleted'
  <2>1. SUFFICES ASSUME NEW l \in Keys, entries'[l] # None, ~(refCount'[entries'[l]] > 0)
                 PROVE  \E q \in Procs : pc'[q] = "delete" /\ call'[q].key = l
    BY DEF DeadIsDeleted, Alive
  <2>2. l # k
    BY <2>1, <1>b, SMT
  <2>3. entries'[l] = entries[l] /\ entries[l] \in Entries /\ entries[l] # e
    BY <2>1, <2>2, <1>c, <1>f, <1>k DEF TypeOK
  <2>4. PICK q \in Procs : pc[q] = "delete" /\ call[q].key = l
    BY <2>1, <2>3, <1>a DEF IInv, DeadIsDeleted, Alive
  <2>5. q # p
    BY <2>4, <1>p
  <2>6. pc'[q] = pc[q] /\ call'[q] = call[q]
    BY <2>5, <1>k, <1>p, <1>e DEF TypeOK
  <2>7. QED
    BY <2>4, <2>6
<1>4. CountIsOwners'
  <2>1. Owners(k) = {}
    BY <1>p DEF IInv, CountIsOwners
  <2>2. \A q \in Procs : q # p => pc'[q] = pc[q] /\ call'[q] = call[q]
    BY <1>k, <1>p, <1>e DEF TypeOK
  <2>3. pc'[p] = "fill"
    BY <1>k, <1>p DEF TypeOK
  <2>4. Owners(k)' = {p}
    BY <2>1, <2>2, <2>3, <1>d, <1>p, SMT DEF Owners
  <2>5. ASSUME NEW l \in Keys, l # k PROVE Owners(l)' = Owners(l)
    BY <2>2, <2>3, <2>5, <1>d, <1>p DEF Owners
  <2>6. Cardinality({p}) = 1
    BY FS_Singleton
  <2>7. ASSUME NEW l \in Keys
        PROVE  IF entries'[l] = None THEN Owners(l)' = {}
               ELSE refCount'[entries'[l]] = Cardinality(Owners(l)')
    <3>1. CASE l = k
      <4>1. Owners(l)' = {p}
        BY <3>1, <2>4 DEF Owners
      <4>2. QED
        BY <3>1, <4>1, <2>6, <1>b
    <3>2. CASE l # k
      <4>1. entries[l] # None => refCount'[entries[l]] = refCount[entries[l]]
        BY <1>a, <1>f, <1>k DEF TypeOK
      <4>2. entries'[l] = entries[l] /\ Owners(l)' = Owners(l)
        BY <3>2, <2>5, <1>c
      <4>3. QED
        BY <4>1, <4>2 DEF IInv, CountIsOwners
    <3>3. QED
      BY <3>1, <3>2
  <2>8. QED
    BY <2>7 DEF CountIsOwners
<1>5. QED
  BY <1>1, <1>2, <1>3, <1>4 DEF Rest

(* The new entry gets its value; its mutex is released.                    *)
LEMMA FillStep ==
    ASSUME IInv, NEW p \in Procs, Fill(p)
    PROVE  Rest'
<1>k. CallOK(p) /\ TypeOK
  BY DEF IInv
<1>r. PICK k \in Keys : k = call[p].key
  BY <1>k DEF Fill, CallOK
<1> USE <1>r
<1>p. /\ pc[p] = "fill" /\ entries[k] = call[p].ent /\ k \in Keys /\ k \notin held[p]
      /\ pc' = [pc EXCEPT ![p] = "idle"] /\ held' = [held EXCEPT ![p] = @ \cup {k}]
      /\ call' = [call EXCEPT ![p] = NoCall] /\ UNCHANGED <<entries, refCount>>
  BY <1>k DEF Fill, Finish, CallOK
<1>m. \A f \in Entries : mu[f] # p => mu'[f] = mu[f]
  BY <1>k DEF Fill, CallOK, TypeOK
<1>1. MapInjective'
  BY <1>p DEF IInv, MapInjective
<1>2. ASSUME NEW q \in Procs PROVE CallOK(q)'
  <2>1. CASE q = p
    BY <2>1, <1>p, <1>k DEF CallOK, TypeOK
  <2>2. CASE q # p
    <3>1. CallOK(q)
      BY DEF IInv
    <3>2. pc'[q] = pc[q] /\ call'[q] = call[q] /\ held'[q] = held[q]
      BY <2>2, <1>p, <1>k DEF TypeOK
    <3>3. QED
      BY <2>2, <3>1, <3>2, <1>m, <1>p DEF CallOK, InRef, Alive
  <2>3. QED
    BY <2>1, <2>2
<1>3. DeadIsDeleted'
  <2>1. \A q \in Procs : pc[q] = "delete" => pc'[q] = "delete" /\ call'[q] = call[q]
    BY <1>k, <1>p DEF TypeOK
  <2>2. QED
    BY <2>1, <1>p, SMT DEF IInv, DeadIsDeleted, Alive
<1>4. CountIsOwners'
  <2>1. ASSUME NEW l \in Keys PROVE Owners(l)' = Owners(l)
    BY <1>k, <1>p DEF Owners, TypeOK
  <2>2. QED
    BY <2>1, <1>p DEF IInv, CountIsOwners
<1>5. QED
  BY <1>1, <1>2, <1>3, <1>4 DEF Rest

----------------------------------------------------------------------------
(* A reference is given up; the entry may die and is then kept locked.     *)
LEMMA DecStep ==
    ASSUME IInv, NEW p \in Procs, DerefDec(p)
    PROVE  Rest'
<1>k. CallOK(p) /\ TypeOK
  BY DEF IInv
<1>r. PICK k \in Keys, e \in Entries : k = call[p].key /\ e = call[p].ent
  BY <1>k DEF DerefDec, CallOK
<1> USE <1>r
<1>p. /\ pc[p] = "dec" /\ entries[k] = e /\ k \in Keys /\ k \in held[p] /\ e \in Entries
      /\ held' = [held EXCEPT ![p] = @ \ {k}] /\ mu[e] = None
      /\ refCount' = [refCount EXCEPT ![e] = @ - 1] /\ entries' = entries
  BY <1>k DEF DerefDec, Drop, CallOK, Unlocked
<1>b. \/ /\ refCount[e] - 1 <= 0 /\ mu' = [mu EXCEPT ![e] = p]
         /\ pc' = [pc EXCEPT ![p] = "delete"] /\ call' = call
      \/ /\ ~(refCount[e] - 1 <= 0) /\ mu' = mu
         /\ pc' = [pc EXCEPT ![p] = "idle"] /\ call' = [call EXCEPT ![p] = NoCall]
  BY DEF DerefDec
<1>c. refCount[e] = Cardinality(Owners(k)) /\ p \in Owners(k)
  BY <1>p, CacheAssumption DEF IInv, CountIsOwners, Owners
<1>d. refCount[e] \in Nat /\ refCount'[e] = refCount[e] - 1
  BY <1>c, <1>p, <1>k, OwnersFinite DEF TypeOK
<1>a. \A f \in Entries : f # e => refCount'[f] = refCount[f] /\ mu'[f] = mu[f]
  BY <1>b, <1>p, <1>k DEF TypeOK
<1>o. \A q \in Procs : q # p => pc'[q] = pc[q] /\ call'[q] = call[q] /\ held'[q] = held[q]
  BY <1>b, <1>p, <1>k DEF TypeOK
<1>s. /\ pc'[p] \in {"idle", "delete"} /\ held'[p] = held[p] \ {k}
      /\ pc'[p] = "delete" => call'[p] = call[p] /\ refCount[e] - 1 <= 0 /\ mu'[e] = p
      /\ pc'[p] = "idle" => ~(refCount[e] - 1 <= 0) /\ mu'[e] = None
  BY <1>b, <1>p, <1>k DEF TypeOK
<1>1. MapInjective'
  BY <1>p DEF IInv, MapInjective
<1>2. ASSUME NEW q \in Procs PROVE CallOK(q)'
  <2>1. CASE q = p
    BY SMTT(120), <2>1, <1>p, <1>s, <1>d DEF CallOK, Alive
  <2>2. CASE q # p
    <3>1. CallOK(q)
      BY DEF IInv
    <3>2. pc'[q] = pc[q] /\ call'[q] = call[q] /\ held'[q] = held[q]
      BY <2>2, <1>o
    <3>3. \A f \in Entries : mu[f] = q => f # e /\ mu'[f] = q /\ refCount'[f] = refCount[f]
      BY <1>a, <1>p, CacheAssumption
    <3>4. \A f \in Entries : refCount'[f] > 0 => refCount[f] > 0
      BY SMTT(60), <1>a, <1>d
    <3>5. QED
      BY <3>1, <3>2, <3>3, <3>4, <1>p DEF CallOK, InRef, Alive
  <2>3. QED
    BY <2>1, <2>2
<1>3. DeadIsDeleted'
  <2>1. SUFFICES ASSUME NEW l \in Keys, entries[l] # None, ~(refCount'[entries[l]] > 0)
                 PROVE  \E q \in Procs : pc'[q] = "delete" /\ call'[q].key = l
    BY <1>p DEF DeadIsDeleted, Alive
  <2>2. CASE entries[l] = e
    <3>1. l = k
      BY <2>2, <1>p, <2>1 DEF IInv, MapInjective
    <3>2. pc'[p] = "delete"
      BY <2>1, <2>2, <1>d, <1>s, SMT
    <3>3. QED
      BY <3>1, <3>2, <1>s
  <2>3. CASE entries[l] # e
    <3>1. entries[l] \in Entries /\ refCount'[entries[l]] = refCount[entries[l]]
      BY <2>1, <2>3, <1>a, <1>k DEF TypeOK
    <3>2. PICK q \in Procs : pc[q] = "delete" /\ call[q].key = l
      BY <2>1, <3>1 DEF IInv, DeadIsDeleted, Alive
    <3>3. QED
      BY <3>2, <1>o, <1>p
  <2>4. QED
    BY <2>2, <2>3
<1>4. CountIsOwners'
  <2>1. Owners(k)' = Owners(k) \ {p}
    BY <1>o, <1>s, <1>p DEF Owners
  <2>2. ASSUME NEW l \in Keys, l # k PROVE Owners(l)' = Owners(l)
    BY <2>2, <1>o, <1>s, <1>p DEF Owners
  <2>3. Cardinality(Owners(k) \ {p}) = Cardinality(Owners(k)) - 1
    <3>1. \A q \in Procs : q \in Owners(k) => Cardinality(Owners(k) \ {q}) = Cardinality(Owners(k)) - 1
      BY <1>p, OwnersFinite
    <3>2. QED
      BY <3>1, <1>c
  <2>4. ASSUME NEW l \in Keys
        PROVE  IF entries'[l] = None THEN Owners(l)' = {}
               ELSE refCount'[entries'[l]] = Cardinality(Owners(l)')
    <3>1. CASE l = k
      <4>1. Owners(l)' = Owners(k) \ {p}
        BY <3>1, <2>1 DEF Owners
      <4>2. QED
        BY <3>1, <4>1, <2>3, <1>c, <1>d, <1>p, CacheAssumption
    <3>2. CASE l # k
      <4>1. entries[l] # None => refCount'[entries[l]] = refCount[entries[l]]
        BY SMTT(60), <3>2, <1>a, <1>p, <1>k DEF TypeOK, IInv, MapInjective
      <4>2. entries'[l] = entries[l] /\ Owners(l)' = Owners(l)
        BY <3>2, <2>2, <1>p
      <4>3. QED
        BY <4>1, <4>2 DEF IInv, CountIsOwners
    <3>3. QED
      BY <3>1, <3>2
  <2>5. QED
    BY <2>4 DEF CountIsOwners
<1>5. QED
  BY <1>1, <1>2, <1>3, <1>4 DEF Rest

(* The dead entry leaves the map.                                          *)
LEMMA DeleteStep ==
    ASSUME IInv, NEW p \in Procs, DerefDelete(p)
    PROVE  Rest'
<1>k. CallOK(p) /\ TypeOK
  BY DEF IInv
<1>r. PICK k \in Keys, e \in Entries : k = call[p].key /\ e = call[p].ent
  BY <1>k DEF DerefDelete, CallOK
<1> USE <1>r
<1>p. /\ pc[p] = "delete" /\ entries[k] = e /\ k \in Keys /\ k \notin held[p] /\ e \in Entries
      /\ held' = held /\ mu[e] = p /\ ~Alive(e)
      /\ refCount' = refCount /\ entries' = [entries EXCEPT ![k] = None]
      /\ mu' = [mu EXCEPT ![e] = None] /\ pc' = [pc EXCEPT ![p] = "idle"]
      /\ call' = [call EXCEPT ![p] = NoCall]
  BY <1>k DEF DerefDelete, CallOK
<1>c. Owners(k) = {}
  <2>1. refCount[e] = Cardinality(Owners(k))
    BY <1>p, CacheAssumption DEF IInv, CountIsOwners
  <2>2. QED
    BY SMTT(60), <2>1, <1>p, OwnersFinite DEF Alive
<1>a. \A f \in Entries : f # e => mu'[f] = mu[f]
  BY <1>p, <1>k DEF TypeOK
<1>b. entries'[k] = None /\ \A l \in Keys : l # k => entries'[l] = entries[l] /\ entries[l] # e
  BY <1>p, <1>k, CacheAssumption DEF TypeOK, IInv, MapInjective
<1>o. \A q \in Procs : q # p => pc'[q] = pc[q] /\ call'[q] = call[q]
  BY <1>p, <1>k DEF TypeOK
<1>s. pc'[p] = "idle"
  BY <1>p, <1>k DEF TypeOK
<1>1. MapInjective'
  BY <1>b DEF IInv, MapInjective
<1>2. ASSUME NEW q \in Procs PROVE CallOK(q)'
  <2>1. CASE q = p
    BY <2>1, <1>s DEF CallOK
  <2>2. CASE q # p
    <3>1. CallOK(q)
      BY DEF IInv
    <3>2. pc'[q] = pc[q] /\ call'[q] = call[q] /\ held'[q] = held[q]
      BY <2>2, <1>o, <1>p
    <3>3. \A f \in Entries : mu[f] = q => f # e /\ mu'[f] = q
      BY <2>2, <1>a, <1>p
    <3>4. pc[q] = "dec" => call[q].key # k
      BY <1>c, <3>1 DEF CallOK, Owners
    <3>5. QED
      <4>1. pc[q] \in {"lock", "refLock"} /\ Alive(call[q].ent) => entries'[call[q].key] = call[q].ent
        BY <3>1, <1>b, <1>p, SMT DEF CallOK
      <4>2. pc[q] \in {"fill", "delete"} =>
              entries'[call[q].key] = call[q].ent /\ mu'[call[q].ent] = q
        BY <3>1, <3>3, <1>b, <1>p DEF CallOK
      <4>3. pc[q] = "dec" => entries'[call[q].key] = call[q].ent
        BY <3>1, <3>4, <1>b DEF CallOK
      <4>4. \A f \in Entries : Alive(f)' <=> Alive(f)
        BY <1>p DEF Alive
      <4> QED
        BY <3>1, <3>2, <3>3, <4>1, <4>2, <4>3, <4>4 DEF CallOK, InRef
  <2>3. QED
    BY <2>1, <2>2
<1>3. DeadIsDeleted'
  <2>1. SUFFICES ASSUME NEW l \in Keys, entries'[l] # None, ~(refCount[entries'[l]] > 0)
                 PROVE  \E q \in Procs : pc'[q] = "delete" /\ call'[q].key = l
    BY <1>p DEF DeadIsDeleted, Alive
  <2>2. l # k /\ entries'[l] = entries[l]
    BY <2>1, <1>b
  <2>3. PICK q \in Procs : pc[q] = "delete" /\ call[q].key = l
    BY <2>1, <2>2 DEF IInv, DeadIsDeleted, Alive
  <2>4. QED
    BY <2>2, <2>3, <1>o
<1>4. CountIsOwners'
  <2>1. ASSUME NEW l \in Keys PROVE Owners(l)' = Owners(l)
    BY <1>o, <1>s, <1>p DEF Owners
  <2>2. QED
    BY SMTT(60), <2>1, <1>b, <1>c, <1>p DEF IInv, CountIsOwners
<1>5. QED
  BY <1>1, <1>2, <1>3, <1>4 DEF Rest

LEMMA StepIInv == IInv /\ [Next]_vars => IInv'
<1> SUFFICES ASSUME IInv, [Next]_vars PROVE IInv'
  OBVIOUS
<1>t. TypeOK'
  BY TypeStep
<1>r. Rest'
  <2>1. CASE UNCHANGED vars
    <3>1. MapInjective' /\ DeadIsDeleted'
      BY <2>1 DEF vars, IInv, MapInjective, DeadIsDeleted, Alive
    <3>2. \A p \in Procs : CallOK(p)'
      BY <2>1 DEF vars, IInv, CallOK, InRef, Alive
    <3>3. CountIsOwners'
      BY <2>1 DEF vars, IInv, CountIsOwners, Owners
    <3> QED
      BY <3>1, <3>2, <3>3 DEF Rest
  <2>2. CASE Next
    <3> PICK p \in Procs : (\E k \in Keys : Acquire(p, k) \/ (\E g \in Procs : RefLoad(p, g, k))
                                            \/ DerefLoad(p, k))
                           \/ Continue(p)
      BY <2>2 DEF Next
    <3>k. CallOK(p) /\ TypeOK /\ call[p] \in Calls
      BY DEF IInv, TypeOK
    <3>c. call'[p] \in Calls /\ pc'[p] \in PCs
      BY <1>t DEF TypeOK
    <3>1. ASSUME NEW k \in Keys, Acquire(p, k) PROVE Rest'
      <4>1. pc'[p] = "store" /\ call'[p] = [NoCall EXCEPT !.key = k] /\ held'[p] = held[p]
        BY <3>1, <3>k DEF Acquire, TypeOK
      <4>2. call'[p].key = k /\ call'[p].source = None /\ k \notin held[p]
        BY <3>1, <4>1, SMT DEF Acquire, NoCall
      <4>3. CallOK(p)'
        BY <4>1, <4>2 DEF CallOK, InRef
      <4>4. QED
        BY <3>1, <3>k, <3>c, <4>1, <4>3, QuietStep DEF Acquire, cacheVars, PCs, TypeOK
    <3>2. ASSUME NEW k \in Keys, NEW g \in Procs, RefLoad(p, g, k) PROVE Rest'
      <4>1. g \in Owners(k) /\ entries[k] \in Entries
        BY <3>2, OwnerAlive DEF RefLoad, Owners, IInv
      <4>2. /\ pc'[p] = "refLock" /\ held'[p] = held[p]
            /\ call'[p] = [NoCall EXCEPT !.key = k, !.ent = entries[k], !.source = g, !.carry = seen[g][k]]
        BY <3>2, <3>k, <4>1, CacheAssumption DEF RefLoad, TypeOK
      <4>3. call'[p].key = k /\ call'[p].ent = entries[k] /\ k \notin held[p] /\ entries' = entries
        <5>1. k \notin held[p] /\ entries' = entries
          BY <3>2 DEF RefLoad, cacheVars
        <5>2. QED
          BY <5>1, <4>2 DEF NoCall
      <4>4. CallOK(p)'
        BY <4>1, <4>2, <4>3 DEF CallOK
      <4>5. pc' = [pc EXCEPT ![p] = "refLock"]
        BY <3>2, <4>1, CacheAssumption DEF RefLoad
      <4>6. QED
        BY <3>2, <3>k, <3>c, <4>2, <4>4, <4>5, QuietStep DEF RefLoad, cacheVars, PCs, TypeOK
    <3>3. ASSUME NEW k \in Keys, DerefLoad(p, k) PROVE Rest'
      <4>1. k \in held[p] /\ entries[k] \in Entries
        BY <3>3, OwnerAlive DEF DerefLoad, Owners, IInv
      <4>2. /\ pc[p] = "idle" /\ pc' = [pc EXCEPT ![p] = "dec"]
            /\ call' = [call EXCEPT ![p] = [NoCall EXCEPT !.key = k, !.ent = entries[k]]]
            /\ UNCHANGED <<entries, refCount, mu, held>>
        BY <3>3, <4>1, CacheAssumption DEF DerefLoad, cacheVars
      <4>3. pc'[p] = "dec" /\ call'[p] = [NoCall EXCEPT !.key = k, !.ent = entries[k]]
        BY <3>k, <4>2 DEF TypeOK
      <4>4. call'[p].key = k /\ call'[p].ent = entries[k]
        BY <4>3 DEF NoCall
      <4>5. CallOK(p)'
        BY <4>1, <4>2, <4>3, <4>4 DEF CallOK
      <4>6. QED
        BY <3>k, <3>c, <4>2, <4>3, <4>5, QuietStep DEF PCs
    <3>4. CASE StoreNew(p)
      BY <3>4, StoreStep
    <3>5. CASE LoadExisting(p)
      <4>1. /\ pc[p] = "store" /\ entries[call[p].key] \in Entries
            /\ pc' = [pc EXCEPT ![p] = "lock"] /\ UNCHANGED <<entries, refCount, mu, held>>
            /\ call' = [call EXCEPT ![p] = [call[p] EXCEPT !.ent = entries[call[p].key]]]
        BY <3>5, <3>k DEF LoadExisting, CallOK, TypeOK, cacheVars
      <4>2. pc'[p] = "lock" /\ call'[p] = [call[p] EXCEPT !.ent = entries[call[p].key]]
        BY <3>k, <4>1 DEF TypeOK
      <4>3. /\ call'[p].key = call[p].key /\ call'[p].ent = entries[call[p].key]
            /\ call'[p].old = call[p].old /\ call'[p].source = call[p].source
        BY <3>k, <4>2 DEF Calls
      <4>4. CallOK(p)'
        BY <3>k, <4>1, <4>2, <4>3 DEF CallOK, InRef, Alive
      <4>5. QED
        BY <3>k, <3>c, <4>1, <4>2, <4>4, QuietStep DEF PCs
    <3>6. CASE Retry(p)
      <4>1. /\ pc[p] = "lock"
            /\ pc' = [pc EXCEPT ![p] = "store"] /\ UNCHANGED <<entries, refCount, mu, held>>
            /\ call' = [call EXCEPT ![p] = [call[p] EXCEPT !.ent = None]]
        BY <3>6, <3>k DEF Retry, TypeOK, cacheVars
      <4>2. pc'[p] = "store" /\ call'[p] = [call[p] EXCEPT !.ent = None]
        BY <3>k, <4>1 DEF TypeOK
      <4>3. /\ call'[p].key = call[p].key
            /\ call'[p].old = call[p].old /\ call'[p].source = call[p].source
        BY <3>k, <4>2 DEF Calls
      <4>4. CallOK(p)'
        BY <3>k, <4>1, <4>2, <4>3 DEF CallOK, InRef, Alive
      <4>5. QED
        BY <3>k, <3>c, <4>1, <4>2, <4>4, QuietStep DEF PCs
    <3>7. CASE TakeExisting(p)
      <4>1. /\ pc[p] = "lock" /\ call[p].key \in Keys /\ call[p].ent \in Entries
            /\ InRef(p) => call[p].old \in Entries /\ mu[call[p].old] = p
        BY <3>7, <3>k DEF TakeExisting, CallOK
      <4>2. \A f \in Entries : mu[f] \notin {None, p} => mu'[f] = mu[f]
        BY <3>7, <4>1, <3>k DEF TakeExisting, TypeOK
      <4>3. /\ held' = [held EXCEPT ![p] = @ \cup {call[p].key}]
            /\ pc' = [pc EXCEPT ![p] = "idle"] /\ call' = [call EXCEPT ![p] = NoCall]
            /\ entries' = entries /\ refCount' = [refCount EXCEPT ![call[p].ent] = @ + 1]
            /\ Unlocked(call[p].ent) /\ Alive(call[p].ent)
        BY <3>7 DEF TakeExisting, Finish
      <4>4. QED
        BY <4>1, <4>2, <4>3, CountUpStep
    <3>8. CASE Fill(p)
      BY <3>8, FillStep
    <3>9. CASE RefCountUp(p)
      <4>1. pc[p] = "refLock" /\ call[p].key \in Keys /\ call[p].ent \in Entries
        BY <3>9, <3>k DEF RefCountUp, CallOK
      <4>2. QED
        BY <3>9, <4>1, CountUpStep DEF RefCountUp, Finish
    <3>10. CASE RefRevive(p)
      <4>1. /\ pc[p] = "refLock" /\ call[p].ent \in Entries /\ ~Alive(call[p].ent)
            /\ mu[call[p].ent] = None /\ mu' = [mu EXCEPT ![call[p].ent] = p]
            /\ pc' = [pc EXCEPT ![p] = "store"] /\ UNCHANGED <<entries, refCount, held>>
            /\ call' = [call EXCEPT ![p] = [call[p] EXCEPT !.old = call[p].ent, !.ent = None]]
        BY <3>10, <3>k DEF RefRevive, CallOK, Unlocked
      <4>2. /\ pc'[p] = "store" /\ mu'[call[p].ent] = p
            /\ call'[p] = [call[p] EXCEPT !.old = call[p].ent, !.ent = None]
        BY <3>k, <4>1 DEF TypeOK
      <4>3. call'[p].key = call[p].key /\ call'[p].old = call[p].ent
        BY <3>k, <4>2 DEF Calls
      <4>4. CallOK(p)'
        BY <3>k, <4>1, <4>2, <4>3 DEF CallOK, InRef, Alive
      <4>5. \A f \in Entries : mu[f] \notin {None, p} => mu'[f] = mu[f]
        BY <3>k, <4>1 DEF TypeOK
      <4>6. QED
        BY <3>k, <3>c, <4>1, <4>2, <4>4, <4>5, QuietStep DEF PCs
    <3>11. CASE DerefDec(p)
      BY <3>11, DecStep
    <3>12. CASE DerefDelete(p)
      BY <3>12, DeleteStep
    <3>13. QED
      BY <3>1, <3>2, <3>3, <3>4, <3>5, <3>6, <3>7, <3>8, <3>9, <3>10, <3>11, <3>12 DEF Continue
  <2>3. QED
    BY <2>1, <2>2
<1>q. QED
  BY <1>t, <1>r DEF IInv, Rest

(* The invariant holds in every state of every behaviour.                  *)
THEOREM CacheInvariant == Spec => []IInv
BY InitIInv, StepIInv, PTL DEF Spec

(* The variables of the cache and of its callers keep their types.         *)
THEOREM CacheTypeCorrect == Spec => []TypeOK
<1>1. IInv => TypeOK
  BY DEF IInv
<1>2. QED
  BY <1>1, CacheInvariant, PTL

(* Acquire, Ref and Deref lose and invent no reference: the count of the   *)
(* entry in the map is the number of programs that own it.                 *)
THEOREM CountsAreExact == Spec => []CountIsOwners
<1>1. IInv => CountIsOwners
  BY DEF IInv
<1>2. QED
  BY <1>1, CacheInvariant, PTL

(* Deref never deletes the entry of a file some program still holds.       *)
THEOREM HeldEntriesStay == Spec => []HolderFindsEntry
<1>1. IInv => HolderFindsEntry
  <2> SUFFICES ASSUME IInv, NEW p \in Procs, NEW k \in held[p]
               PROVE  entries[k] # None /\ Alive(entries[k])
    BY DEF HolderFindsEntry
  <2>1. TypeOK /\ CountIsOwners /\ k \in Keys
    BY DEF IInv, TypeOK
  <2>2. p \in Owners(k)
    BY DEF Owners
  <2>3. QED
    BY <2>1, <2>2, OwnerAlive, CacheAssumption
<1>2. QED
  BY <1>1, CacheInvariant, PTL

----------------------------------------------------------------------------

RefOK(p) ==
    /\ pc[p] # "panic"
    /\ InRef(p) => /\ pc[p] = "refLock" /\ call[p].source \in Procs
                   /\ call[p].key \in held[call[p].source]
                   /\ pc[call[p].source] \notin {"dec", "delete"}
                   /\ call[p].carry = seen[call[p].source][call[p].key]
                   /\ entries[call[p].key] = call[p].ent
    /\ pc[p] = "refLock" => InRef(p)
    /\ pc[p] = "fill" => \A q \in Procs : call[p].key \notin held[q]

(* The value a program uses for a key is the one in the cache.             *)
ValueCached ==
    \A p \in Procs : \A k \in held[p] : seen[p][k] = value[entries[k]]

GInv == (\A p \in Procs : RefOK(p)) /\ ValueCached

LEMMA InitGInv == Init => GInv
BY SMT DEF Init, GInv, RefOK, InRef, ValueCached, NoCall

(* Facts about the source of a Ref that a step of another process keeps.   *)
LEMMA SourceStays ==
    ASSUME IInv, GInv, guarded, Next, NEW p \in Procs, InRef(p),
           pc'[p] = pc[p], call'[p] = call[p]
    PROVE  LET g == call[p].source
               k == call[p].key
           IN  k \in held'[g] /\ pc'[g] \notin {"dec", "delete"} /\ seen'[g][k] = seen[g][k]
<1>g. PICK g \in Procs, k \in Keys : g = call[p].source /\ k = call[p].key
  BY DEF GInv, RefOK, IInv, CallOK
<1>h. k \in held[g] /\ pc[g] \notin {"dec", "delete"} /\ p # g
  BY <1>g DEF GInv, RefOK, IInv, CallOK
<1>t. TypeOK /\ CallOK(g)
  BY DEF IInv
<1>d. Pinned(g)
  BY <1>g DEF Pinned
<1> PICK q \in Procs : (\E l \in Keys : Acquire(q, l) \/ (\E h \in Procs : RefLoad(q, h, l))
                                        \/ DerefLoad(q, l))
                       \/ Continue(q)
  BY DEF Next
<1>1. CASE q # g
  BY <1>1, <1>g, <1>h, <1>t DEF Acquire, RefLoad, DerefLoad, Continue, StoreNew, LoadExisting, Retry,
     TakeExisting, Fill, RefCountUp, RefRevive, DerefDec, DerefDelete, Finish, Drop, TypeOK
<1>2. CASE q = g
  <2>1. \A l \in Keys : ~DerefLoad(g, l)
    BY <1>d DEF DerefLoad
  <2>2. ~DerefDec(g) /\ ~DerefDelete(g)
    BY <1>h DEF DerefDec, DerefDelete
  <2>3. ASSUME NEW v, Finish(g, v), pc[g] \in {"lock", "fill", "refLock"}
        PROVE  k \in held'[g] /\ pc'[g] \notin {"dec", "delete"} /\ seen'[g][k] = seen[g][k]
    <3>1. call[g].key # k
      BY <2>3, <1>h, <1>t DEF CallOK
    <3>2. QED
      BY <2>3, <3>1, <1>h, <1>t DEF Finish, TypeOK
  <2>4. QED
    BY <1>2, <1>g, <1>h, <1>t, <2>1, <2>2, <2>3 DEF Acquire, RefLoad, Continue, StoreNew, LoadExisting, Retry,
       TakeExisting, Fill, RefCountUp, RefRevive, TypeOK
<1>3. QED
  BY <1>1, <1>2

(* Only one of two processes can be filling an entry or take a reference   *)
(* to it: references to a key under construction do not appear.            *)
LEMMA FillerAlone ==
    ASSUME IInv, GInv, NEW p \in Procs, NEW q \in Procs, p # q, pc[p] = "fill",
           pc[q] = "fill" \/ (pc[q] \in {"lock", "refLock"} /\ Unlocked(call[q].ent) /\ Alive(call[q].ent))
    PROVE  call[q].key # call[p].key
<1>1. CallOK(p) /\ CallOK(q)
  BY DEF IInv
<1>2. QED
  BY <1>1, CacheAssumption DEF CallOK, Unlocked

LEMMA StepGInv == guarded /\ IInv /\ IInv' /\ GInv /\ [Next]_vars => GInv'
<1> SUFFICES ASSUME guarded, IInv, IInv', GInv, [Next]_vars PROVE GInv'
  OBVIOUS
<1>1. CASE UNCHANGED vars
  BY <1>1 DEF vars, GInv, RefOK, InRef, ValueCached
<1>2. CASE Next
  <2> PICK p \in Procs : (\E k \in Keys : Acquire(p, k) \/ (\E g \in Procs : RefLoad(p, g, k))
                                          \/ DerefLoad(p, k))
                         \/ Continue(p)
    BY <1>2 DEF Next
  <2>k. CallOK(p) /\ RefOK(p) /\ TypeOK /\ TypeOK' /\ call[p] \in Calls /\ ValueCached
    BY DEF IInv, TypeOK, GInv
  <2>n. NoCall.source = None
    BY DEF NoCall
  <2>a. pc[p] = "refLock" => Alive(call[p].ent)
    <3> SUFFICES ASSUME pc[p] = "refLock" PROVE Alive(call[p].ent)
      OBVIOUS
    <3>1. call[p].source \in Owners(call[p].key) /\ call[p].key \in Keys
      BY <2>k DEF RefOK, Owners, CallOK
    <3>2. QED
      BY <3>1, <2>k, OwnerAlive DEF RefOK, IInv
  <2>v. ~RefRevive(p)
    BY <2>a DEF RefRevive
  <2>i. pc[p] # "refLock" => ~InRef(p)
    BY <2>k DEF RefOK
  <2>o. ASSUME NEW q \in Procs, q # p PROVE pc'[q] = pc[q] /\ call'[q] = call[q] /\ held'[q] = held[q] /\ seen'[q] = seen[q]
    BY ZenonT(60), <2>o, <2>k DEF Acquire, RefLoad, DerefLoad, Continue, StoreNew, LoadExisting, Retry,
       TakeExisting, Fill, RefCountUp, RefRevive, DerefDec, DerefDelete, Finish, Drop, TypeOK
  <2>e. ASSUME NEW k \in Keys, entries[k] # None, entries'[k] # None PROVE entries'[k] = entries[k]
    BY <2>e, <2>k DEF Acquire, RefLoad, DerefLoad, Continue, StoreNew, LoadExisting, Retry,
       TakeExisting, Fill, RefCountUp, RefRevive, DerefDec, DerefDelete, cacheVars, TypeOK, CallOK
  <2>h. \A k \in Keys : k \in held'[p] \ held[p] =>
           /\ k = call[p].key
           /\ pc[p] = "fill" \/ (pc[p] \in {"lock", "refLock"} /\ Unlocked(call[p].ent) /\ Alive(call[p].ent))
    <3>1. \/ held' = held
          \/ \E k \in Keys \cup {None} : held' = [held EXCEPT ![p] = @ \ {k}]
          \/ /\ held' = [held EXCEPT ![p] = @ \cup {call[p].key}]
             /\ pc[p] = "fill" \/ (pc[p] \in {"lock", "refLock"} /\ Unlocked(call[p].ent) /\ Alive(call[p].ent))
      BY <2>k DEF Acquire, RefLoad, DerefLoad, Continue, StoreNew, LoadExisting, Retry,
         TakeExisting, Fill, RefCountUp, RefRevive, DerefDec, DerefDelete, Finish, Drop, CallOK
    <3>2. held \in [Procs -> SUBSET Keys]
      BY <2>k DEF TypeOK
    <3>3. QED
      BY <3>1, <3>2
  <2>1. ASSUME NEW q \in Procs, q # p PROVE RefOK(q)'
    <3>1. RefOK(q) /\ CallOK(q)
      BY DEF GInv, IInv
    <3>2. pc'[q] = pc[q] /\ call'[q] = call[q]
      BY <2>1, <2>o
    <3>3. InRef(q) => /\ call[q].key \in held'[call[q].source]
                      /\ pc'[call[q].source] \notin {"dec", "delete"}
                      /\ seen'[call[q].source][call[q].key] = seen[call[q].source][call[q].key]
      BY <1>2, <3>2, SourceStays
    <3>4. InRef(q) => entries'[call[q].key] = call[q].ent
      <4> SUFFICES ASSUME InRef(q) PROVE entries'[call[q].key] = call[q].ent
        OBVIOUS
      <4> PICK g \in Procs, k \in Keys : g = call[q].source /\ k = call[q].key
        BY <3>1 DEF RefOK, CallOK
      <4>1. g \in Owners(k) /\ g \in Owners(k)'
        BY <3>1, <3>3 DEF RefOK, Owners
      <4>2. entries[k] \in Entries
        BY <4>1, OwnerAlive DEF IInv
      <4>3. entries'[k] # None
        BY <4>1 DEF IInv, CountIsOwners
      <4>4. QED
        BY <4>2, <4>3, <2>e, <3>1, CacheAssumption DEF RefOK
    <3>5. pc[q] = "fill" => \A r \in Procs : call[q].key \notin held'[r]
      <4> SUFFICES ASSUME pc[q] = "fill", NEW r \in Procs PROVE call[q].key \notin held'[r]
        OBVIOUS
      <4>1. call[q].key \in Keys /\ call[q].key \notin held[r]
        BY <3>1 DEF RefOK, CallOK
      <4>2. CASE r # p
        BY <4>1, <4>2, <2>o
      <4>3. CASE r = p
        BY <4>1, <4>3, <2>1, <2>h, FillerAlone
      <4>4. QED
        BY <4>2, <4>3
    <3>6. QED
      BY <3>1, <3>2, <3>3, <3>4, <3>5 DEF RefOK, InRef
  <2>2. RefOK(p)' /\ ValueCached'
    <3>s. ASSUME UNCHANGED <<held, seen>>,
                 \A k \in Keys : (\E q \in Procs : k \in held[q]) => entries'[k] = entries[k] /\ value'[entries[k]] = value[entries[k]]
          PROVE  ValueCached'
      BY <3>s, <2>k DEF ValueCached, TypeOK
    <3>1. ASSUME NEW k \in Keys, Acquire(p, k) PROVE RefOK(p)' /\ ValueCached'
      <4>1. pc'[p] = "store" /\ call'[p] = [NoCall EXCEPT !.key = k]
        BY <3>1, <2>k DEF Acquire, TypeOK
      <4>2. call'[p].source = None
        BY <4>1 DEF NoCall
      <4>3. RefOK(p)'
        BY <4>1, <4>2 DEF RefOK, InRef
      <4>4. QED
        BY <3>1, <3>s, <4>3 DEF Acquire, cacheVars
    <3>2. ASSUME NEW k \in Keys, NEW g \in Procs, RefLoad(p, g, k) PROVE RefOK(p)' /\ ValueCached'
      <4>1. g \in Owners(k) /\ entries[k] \in Entries /\ g # p /\ pc[g] = "idle" /\ k \in held[g]
        BY <3>2, OwnerAlive DEF RefLoad, Owners, IInv
      <4>2. /\ pc'[p] = "refLock" /\ UNCHANGED <<entries, value, held, seen>>
            /\ call'[p] = [NoCall EXCEPT !.key = k, !.ent = entries[k], !.source = g, !.carry = seen[g][k]]
        BY <3>2, <2>k, <4>1, CacheAssumption DEF RefLoad, TypeOK, cacheVars
      <4>3. call'[p].key = k /\ call'[p].ent = entries[k] /\ call'[p].source = g /\ call'[p].carry = seen[g][k]
        BY <4>2 DEF NoCall
      <4>4. pc'[g] = "idle"
        BY <4>1, <2>o
      <4>5. RefOK(p)'
        <5>1. /\ call'[p].source \in Procs /\ call'[p].key \in held'[call'[p].source]
              /\ pc'[call'[p].source] = "idle"
              /\ call'[p].carry = seen'[call'[p].source][call'[p].key]
              /\ entries'[call'[p].key] = call'[p].ent
          BY <4>1, <4>2, <4>3, <4>4
        <5>2. call'[p].source # None
          BY <4>3, CacheAssumption
        <5>3. QED
          BY <5>1, <5>2, <4>2 DEF RefOK, InRef
      <4>6. QED
        BY <4>2, <4>5, <3>s
    <3>3. ASSUME NEW k \in Keys, DerefLoad(p, k) PROVE RefOK(p)' /\ ValueCached'
      <4>1. entries[k] \in Entries
        BY <3>3, OwnerAlive DEF DerefLoad, Owners, IInv
      <4>2. /\ pc'[p] = "dec" /\ UNCHANGED <<entries, value, held, seen>>
            /\ call'[p] = [NoCall EXCEPT !.key = k, !.ent = entries[k]]
        BY <3>3, <2>k, <4>1, CacheAssumption DEF DerefLoad, TypeOK, cacheVars
      <4>3. call'[p].source = None
        BY <4>2 DEF NoCall
      <4>4. RefOK(p)'
        BY <4>2, <4>3 DEF RefOK, InRef
      <4>5. QED
        BY <4>2, <4>4, <3>s
    <3>4. CASE StoreNew(p)
      <4>1. /\ pc[p] = "store" /\ entries[call[p].key] = None /\ call[p].key \in Keys
            /\ UNCHANGED <<held, seen>> /\ pc'[p] = "fill"
        BY <3>4, <2>k, SMT DEF StoreNew, CallOK, TypeOK
      <4>2. PICK e \in Entries :
              /\ Fresh(e) /\ entries' = [entries EXCEPT ![call[p].key] = e]
              /\ value' = [value EXCEPT ![e] = None] /\ call' = [call EXCEPT ![p].ent = e]
        BY <3>4 DEF StoreNew, NewEntry
      <4>3. Owners(call[p].key) = {}
        BY <4>1 DEF IInv, CountIsOwners
      <4>4. \A q \in Procs : call[p].key \notin held[q]
        BY <4>3 DEF Owners
      <4>5. call'[p].key = call[p].key /\ call'[p].source = None
        BY <4>1, <4>2, <2>k, <2>i DEF TypeOK, Calls, InRef
      <4>6. RefOK(p)'
        BY <4>1, <4>4, <4>5 DEF RefOK, InRef
      <4>7. \A k \in Keys : entries[k] # e
        BY <4>2 DEF Fresh
      <4>8. \A k \in Keys : k # call[p].key => entries'[k] = entries[k] /\ (entries[k] \in Entries => value'[entries[k]] = value[entries[k]])
        BY <4>2, <4>7, <2>k DEF TypeOK
      <4>9. \A k \in Keys, q \in Procs : k \in held[q] => entries[k] \in Entries
        BY <2>k, OwnerAlive DEF Owners, IInv
      <4>10. QED
        BY <4>1, <4>4, <4>6, <4>8, <4>9, <3>s
    <3>5. CASE LoadExisting(p)
      <4>1. pc[p] = "store" /\ pc'[p] = "lock" /\ UNCHANGED <<entries, value, held, seen>> /\ call'[p].source = call[p].source
        BY <3>5, <2>k DEF LoadExisting, TypeOK, cacheVars, Calls
      <4>2. RefOK(p)'
        BY <4>1, <2>i DEF RefOK, InRef
      <4>3. QED
        BY <4>1, <4>2, <3>s
    <3>6. CASE Retry(p)
      <4>1. pc[p] = "lock" /\ pc'[p] = "store" /\ UNCHANGED <<entries, value, held, seen>> /\ call'[p].source = call[p].source
        BY <3>6, <2>k DEF Retry, TypeOK, cacheVars, Calls
      <4>2. RefOK(p)'
        BY <4>1, <2>i DEF RefOK, InRef
      <4>3. QED
        BY <4>1, <4>2, <3>s
    <3>f. ASSUME NEW v, Finish(p, v), UNCHANGED entries, call[p].key \in Keys,
                 v = value'[entries[call[p].key]],
                 \A q \in Procs : \A k \in held[q] : value'[entries[k]] = value[entries[k]]
          PROVE  RefOK(p)' /\ ValueCached'
      <4>1. pc'[p] = "idle" /\ call'[p] = NoCall
        BY <3>f, <2>k DEF Finish, TypeOK
      <4>2. RefOK(p)'
        BY <4>1, <2>n DEF RefOK, InRef
      <4>3. ASSUME NEW q \in Procs, NEW k \in held'[q] PROVE seen'[q][k] = value'[entries'[k]]
        <5>1. CASE q # p
          BY SMTT(60), <5>1, <2>o, <2>k, <3>f DEF ValueCached
        <5>2. CASE q = p /\ k = call[p].key
          BY SMTT(120), <5>2, <3>f, <2>k DEF Finish, TypeOK
        <5>3. CASE q = p /\ k # call[p].key
          <6>1. k \in held[p] /\ k \in Keys /\ seen'[p][k] = seen[p][k]
            BY <5>3, <3>f, <2>k DEF Finish, TypeOK
          <6>2. QED
            BY <5>3, <6>1, <3>f, <2>k DEF ValueCached
        <5>4. QED
          BY <5>1, <5>2, <5>3
      <4>4. QED
        BY <4>2, <4>3 DEF ValueCached
    <3>7. CASE TakeExisting(p)
      <4>1. /\ pc[p] = "lock" /\ call[p].key \in Keys /\ entries[call[p].key] = call[p].ent /\ ~InRef(p)
        BY <3>7, <2>k, <2>i DEF TakeExisting, CallOK
      <4>2. QED
        BY <3>7, <4>1, <3>f DEF TakeExisting
    <3>8. CASE Fill(p)
      <4>1. /\ pc[p] = "fill" /\ call[p].key \in Keys /\ entries[call[p].key] = call[p].ent /\ ~InRef(p)
            /\ call[p].ent \in Entries /\ \A q \in Procs : call[p].key \notin held[q]
        BY <3>8, <2>k, <2>i DEF Fill, CallOK, RefOK
      <4>2. value' = [value EXCEPT ![call[p].ent] = call[p].ent] /\ Finish(p, call[p].ent) /\ entries' = entries
        BY <3>8, <4>1 DEF Fill
      <4>3. ASSUME NEW q \in Procs, NEW k \in held[q] PROVE value'[entries[k]] = value[entries[k]]
        <5>1. k \in Keys /\ k # call[p].key
          BY <4>1, <2>k DEF TypeOK
        <5>2. entries[k] \in Entries
          BY <5>1, OwnerAlive DEF Owners, IInv
        <5>3. entries[k] # call[p].ent
          BY <5>1, <5>2, <4>1, CacheAssumption DEF IInv, MapInjective
        <5>4. QED
          BY <5>2, <5>3, <4>2, <2>k DEF TypeOK
      <4>4. value'[call[p].ent] = call[p].ent
        BY <4>1, <4>2, <2>k DEF TypeOK
      <4>5. QED
        BY <4>1, <4>2, <4>3, <4>4, <3>f
    <3>9. CASE RefCountUp(p)
      <4>1. /\ pc[p] = "refLock" /\ call[p].key \in Keys /\ Finish(p, call[p].carry) /\ UNCHANGED <<entries, value>>
        BY <3>9, <2>k DEF RefCountUp, CallOK
      <4>2. call[p].carry = value[entries[call[p].key]]
        BY <4>1, <2>k DEF RefOK, ValueCached
      <4>3. QED
        BY <4>1, <4>2, <3>f
    <3>10. CASE DerefDec(p)
      <4>1. /\ pc[p] = "dec" /\ pc'[p] \in {"idle", "delete"} /\ UNCHANGED <<entries, value>>
            /\ call'[p] = call[p] \/ call'[p] = NoCall
            /\ Drop(p, call[p].key) /\ call[p].key \in Keys
        BY <3>10, <2>k DEF DerefDec, TypeOK, CallOK
      <4>2. RefOK(p)'
        BY <4>1, <2>i, <2>n DEF RefOK, InRef
      <4>3. ASSUME NEW q \in Procs, NEW k \in held'[q] PROVE k \in held[q] /\ seen'[q][k] = seen[q][k]
        BY <4>1, <2>k, <2>o DEF Drop, TypeOK
      <4>4. QED
        BY <4>1, <4>2, <4>3, <2>k DEF ValueCached
    <3>11. CASE DerefDelete(p)
      <4>1. /\ pc[p] = "delete" /\ pc'[p] = "idle" /\ UNCHANGED <<held, seen, value>>
            /\ call'[p] = NoCall /\ call[p].key \in Keys
            /\ entries' = [entries EXCEPT ![call[p].key] = None]
            /\ entries[call[p].key] = call[p].ent /\ ~Alive(call[p].ent)
        BY <3>11, <2>k DEF DerefDelete, TypeOK, CallOK
      <4>2. RefOK(p)'
        BY <4>1, <2>n DEF RefOK, InRef
      <4>3. ASSUME NEW q \in Procs PROVE call[p].key \notin held[q]
        BY <4>1, OwnerAlive DEF Owners, IInv
      <4>4. \A k \in Keys : k # call[p].key => entries'[k] = entries[k]
        BY <4>1, <2>k DEF TypeOK
      <4>5. QED
        BY <4>1, <4>2, <4>3, <4>4, <3>s
    <3>12. QED
      BY <3>1, <3>2, <3>3, <3>4, <3>5, <3>6, <3>7, <3>8, <3>9, <3>10, <3>11, <2>v DEF Continue
  <2>3. QED
    BY <2>1, <2>2 DEF GInv
<1>3. QED
  BY <1>1, <1>2

LEMMA GuardedInvariant == Spec => [](guarded => GInv)
<1>1. Init => (guarded => GInv)
  BY InitGInv
<1>2. IInv /\ IInv' /\ (guarded => GInv) /\ [Next]_vars => (guarded => GInv)'
  <2>1. [Next]_vars => guarded' = guarded
    BY DEF Next, vars
  <2>2. QED
    BY <2>1, StepGInv
<1>3. QED
  BY <1>1, <1>2, CacheInvariant, PTL DEF Spec

(* While the program it clones is kept alive, Ref neither panics nor meets *)
(* a dead entry: its fallback is not needed.                               *)
THEOREM RefNeverPanics == Spec => []RefFindsEntry
<1>1. IInv /\ (guarded => GInv) => RefFindsEntry
  <2> SUFFICES ASSUME IInv, GInv, NEW p \in Procs
               PROVE  pc[p] # "panic" /\ (pc[p] = "refLock" => Alive(call[p].ent))
    BY DEF RefFindsEntry
  <2>1. RefOK(p) /\ CallOK(p)
    BY DEF GInv, IInv
  <2>2. ASSUME pc[p] = "refLock" PROVE Alive(call[p].ent)
    <3>1. call[p].source \in Owners(call[p].key) /\ call[p].key \in Keys
      BY <2>1, <2>2 DEF RefOK, Owners, CallOK
    <3>2. QED
      BY <2>1, <2>2, <3>1, OwnerAlive DEF RefOK, IInv
  <2>3. QED
    BY <2>1, <2>2 DEF RefOK
<1>2. QED
  BY <1>1, CacheInvariant, GuardedInvariant, PTL

(* All programs that contain a file use one parse of it.                   *)
THEOREM ParsesAreShared == Spec => []ValueShared
<1>1. (guarded => GInv) => ValueShared
  BY SMTT(60) DEF GInv, ValueCached, ValueShared
<1>2. QED
  BY <1>1, GuardedInvariant, PTL

=============================================================================
