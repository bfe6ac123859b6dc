--------------------------- MODULE RefCountCache ---------------------------
(***************************************************************************)
(* The reference-counted cache of parsed source files                      *)
(* (internal/project/refcountcache.go), at the grain of its concurrency:   *)
(* operations on the concurrent map are atomic, and every entry has a      *)
(* mutex of its own, so an entry may die between the map lookup that found *)
(* it and the moment its mutex is obtained.                                *)
(*                                                                         *)
(* A process stands for one program (more precisely, for the goroutines    *)
(* that build it and dispose it): it acquires the files it contains, or    *)
(* takes an additional reference to a file of the program it is cloned     *)
(* from, and releases each of them once.                                   *)
(***************************************************************************)
EXTENDS Integers, FiniteSets

CONSTANTS
    Procs,      \* programs
    Keys,       \* parse cache keys
    Entries,    \* identities of cache entries (bound on those alive at once)
    Racers,     \* bound: the programs of behaviours that are not guarded
    None        \* no entry, no process, no key

ASSUME CacheAssumption ==
    /\ IsFiniteSet(Procs)
    /\ Racers \subseteq Procs
    /\ None \notin Entries /\ None \notin Procs /\ None \notin Keys

VARIABLES
    entries,   \* the concurrent map: key -> entry or None
    refCount,  \* entry -> reference count
    value,     \* entry -> the entry whose parse produced its value, or None
    mu,        \* entry -> the process that holds its mutex, or None
    pc,        \* process -> where it is in an operation
    call,      \* process -> the local variables of that operation
    held,      \* process -> keys it holds a reference to
    seen,      \* process -> key -> the value its program uses
    guarded    \* a program is kept alive while another is cloned from it

cacheVars == <<entries, refCount, value, mu>>
vars == <<entries, refCount, value, mu, pc, call, held, seen, guarded>>

PCs == {"idle", "store", "lock", "fill", "dec", "delete", "refLock", "panic"}

(* key: of the operation; ent: the entry it found; old: the dead entry     *)
(* whose mutex Ref holds; source and carry: in Ref, the program cloned     *)
(* from and the value of its file.                                         *)
Calls == [key : Keys \cup {None}, ent : Entries \cup {None},
          old : Entries \cup {None}, source : Procs \cup {None},
          carry : Entries \cup {None}]

NoCall == [key |-> None, ent |-> None, old |-> None, source |-> None, carry |-> None]

Init ==
    /\ entries = [k \in Keys |-> None]
    /\ refCount = [e \in Entries |-> 0]
    /\ value = [e \in Entries |-> None]
    /\ mu = [e \in Entries |-> None]
    /\ pc = [p \in Procs |-> "idle"]
    /\ call = [p \in Procs |-> NoCall]
    /\ held = [p \in Procs |-> {}]
    /\ seen = [p \in Procs |-> [k \in Keys |-> None]]
    /\ guarded \in BOOLEAN

InRef(p) == call[p].source # None
Unlocked(e) == mu[e] = None
Alive(e) == refCount[e] > 0

(* An identity nothing refers to any more, as the garbage collector sees it.*)
Fresh(e) ==
    /\ \A k \in Keys : entries[k] # e
    /\ \A p \in Procs : /\ call[p].ent # e /\ call[p].old # e /\ call[p].carry # e
                        /\ \A k \in Keys : seen[p][k] # e
    /\ \A f \in Entries : value[f] = e => f = e

(* The first of them: which one is taken makes no difference.              *)
NewEntry(e) == Fresh(e) /\ e = CHOOSE f \in Entries : Fresh(f)

(* The operation of p ends with a reference to its key and value v.        *)
Finish(p, v) ==
    /\ held' = [held EXCEPT ![p] = @ \cup {call[p].key}]
    /\ seen' = [seen EXCEPT ![p] = [@ EXCEPT ![call[p].key] = v]]
    /\ pc' = [pc EXCEPT ![p] = "idle"]
    /\ call' = [call EXCEPT ![p] = NoCall]

(* p gives up its reference to key k.                                      *)
Drop(p, k) ==
    /\ held' = [held EXCEPT ![p] = @ \ {k}]
    /\ seen' = [seen EXCEPT ![p] = [@ EXCEPT ![k] = None]]

----------------------------------------------------------------------------
(* Acquire and loadOrStoreNewLockedEntry *)

(* Bound: the programs that start operations.                              *)
TakesPart(p) == guarded \/ p \in Racers

Acquire(p, k) ==
    /\ TakesPart(p) /\ pc[p] = "idle" /\ k \notin held[p]
    /\ pc' = [pc EXCEPT ![p] = "store"]
    /\ call' = [call EXCEPT ![p] = [NoCall EXCEPT !.key = k]]
    /\ UNCHANGED <<cacheVars, held, seen>>

(* LoadOrStore stores a new entry, created with its mutex held.            *)
StoreNew(p) ==
    /\ pc[p] = "store" /\ entries[call[p].key] = None
    /\ \E e \in Entries :
          /\ NewEntry(e)
          /\ entries' = [entries EXCEPT ![call[p].key] = e]
          /\ refCount' = [refCount EXCEPT ![e] = 1]
          /\ value' = [value EXCEPT ![e] = None]
          /\ mu' = [mu EXCEPT ![e] = p]
          /\ call' = [call EXCEPT ![p].ent = e]
    /\ pc' = [pc EXCEPT ![p] = "fill"]
    /\ UNCHANGED <<held, seen>>

(* LoadOrStore finds an entry.                                             *)
LoadExisting(p) ==
    /\ pc[p] = "store" /\ entries[call[p].key] # None
    /\ call' = [call EXCEPT ![p].ent = entries[call[p].key]]
    /\ pc' = [pc EXCEPT ![p] = "lock"]
    /\ UNCHANGED <<cacheVars, held, seen>>

(* The entry died while its mutex was being obtained: start again.         *)
Retry(p) ==
    /\ pc[p] = "lock" /\ Unlocked(call[p].ent) /\ ~Alive(call[p].ent)
    /\ pc' = [pc EXCEPT ![p] = "store"]
    /\ call' = [call EXCEPT ![p].ent = None]
    /\ UNCHANGED <<cacheVars, held, seen>>

(* Fault: an entry that was found is taken for alive.                      *)
TakeAny(p) ==
    /\ pc[p] = "lock" /\ Unlocked(call[p].ent)
    /\ refCount' = [refCount EXCEPT ![call[p].ent] = @ + 1]
    /\ Finish(p, value[call[p].ent])
    /\ UNCHANGED <<entries, value, mu>>

(* The existing entry is alive.  In Ref its value is overwritten with that *)
(* of the dead entry, whose mutex is then released.                        *)
TakeExisting(p) ==
    LET e == call[p].ent
        o == call[p].old
    IN  /\ pc[p] = "lock" /\ Unlocked(e) /\ Alive(e)
        /\ refCount' = [refCount EXCEPT ![e] = @ + 1]
        /\ IF InRef(p)
           THEN /\ value' = [value EXCEPT ![e] = value[o]]
                /\ mu' = [mu EXCEPT ![o] = None]
                /\ Finish(p, call[p].carry)
           ELSE /\ UNCHANGED <<value, mu>>
                /\ Finish(p, value[e])
        /\ UNCHANGED entries

(* The new entry gets its value, by a parse or, in Ref, from the dead one. *)
Fill(p) ==
    LET e == call[p].ent
        o == call[p].old
    IN  /\ pc[p] = "fill"
        /\ IF InRef(p)
           THEN /\ value' = [value EXCEPT ![e] = value[o]]
                /\ mu' = [mu EXCEPT ![o] = None, ![e] = None]
                /\ Finish(p, call[p].carry)
           ELSE /\ value' = [value EXCEPT ![e] = e]
                /\ mu' = [mu EXCEPT ![e] = None]
                /\ Finish(p, e)
        /\ UNCHANGED <<entries, refCount>>

----------------------------------------------------------------------------
(* Ref *)

(* A program that is being cloned is not disposed meanwhile.               *)
Pinned(p) == guarded /\ \E q \in Procs : call[q].source = p

(* The caller clones the program g, which contains the file.               *)
RefLoad(p, g, k) ==
    /\ TakesPart(p) /\ pc[p] = "idle" /\ k \notin held[p] /\ k \in held[g]
    /\ guarded => pc[g] = "idle"
    /\ call' = [call EXCEPT ![p] = [NoCall EXCEPT !.key = k, !.ent = entries[k],
                                                  !.source = g, !.carry = seen[g][k]]]
    /\ pc' = [pc EXCEPT ![p] = IF entries[k] = None THEN "panic" ELSE "refLock"]
    /\ UNCHANGED <<cacheVars, held, seen>>

RefCountUp(p) ==
    /\ pc[p] = "refLock" /\ Unlocked(call[p].ent) /\ Alive(call[p].ent)
    /\ refCount' = [refCount EXCEPT ![call[p].ent] = @ + 1]
    /\ Finish(p, call[p].carry)
    /\ UNCHANGED <<entries, value, mu>>

(* The entry was deleted meanwhile: a new one is made, under its mutex.    *)
RefRevive(p) ==
    LET e == call[p].ent
    IN  /\ pc[p] = "refLock" /\ Unlocked(e) /\ ~Alive(e)
        /\ mu' = [mu EXCEPT ![e] = p]
        /\ call' = [call EXCEPT ![p] = [@ EXCEPT !.old = e, !.ent = None]]
        /\ pc' = [pc EXCEPT ![p] = "store"]
        /\ UNCHANGED <<entries, refCount, value, held, seen>>

----------------------------------------------------------------------------
(* Deref *)

DerefLoad(p, k) ==
    /\ pc[p] = "idle" /\ k \in held[p] /\ ~Pinned(p)
    /\ IF entries[k] = None
       THEN Drop(p, k) /\ UNCHANGED <<call, pc>>
       ELSE /\ call' = [call EXCEPT ![p] = [NoCall EXCEPT !.key = k, !.ent = entries[k]]]
            /\ pc' = [pc EXCEPT ![p] = "dec"]
            /\ UNCHANGED <<held, seen>>
    /\ UNCHANGED cacheVars

(* Fault: the entry is deleted while one reference is left.                *)
DerefDecEarly(p) ==
    LET e == call[p].ent
    IN  /\ pc[p] = "dec" /\ Unlocked(e)
        /\ refCount' = [refCount EXCEPT ![e] = @ - 1]
        /\ Drop(p, call[p].key)
        /\ IF refCount[e] - 1 <= 1
           THEN /\ mu' = [mu EXCEPT ![e] = p]
                /\ pc' = [pc EXCEPT ![p] = "delete"]
                /\ UNCHANGED call
           ELSE /\ pc' = [pc EXCEPT ![p] = "idle"]
                /\ call' = [call EXCEPT ![p] = NoCall]
                /\ UNCHANGED mu
        /\ UNCHANGED <<entries, value>>

(* The mutex is kept when the entry has to be deleted.                     *)
DerefDec(p) ==
    LET e == call[p].ent
    IN  /\ pc[p] = "dec" /\ Unlocked(e)
        /\ refCount' = [refCount EXCEPT ![e] = @ - 1]
        /\ Drop(p, call[p].key)
        /\ IF refCount[e] - 1 <= 0
           THEN /\ mu' = [mu EXCEPT ![e] = p]
                /\ pc' = [pc EXCEPT ![p] = "delete"]
                /\ UNCHANGED call
           ELSE /\ pc' = [pc EXCEPT ![p] = "idle"]
                /\ call' = [call EXCEPT ![p] = NoCall]
                /\ UNCHANGED mu
        /\ UNCHANGED <<entries, value>>

(* Fault: a dead entry stays in the map.                                   *)
DerefNoDelete(p) ==
    /\ pc[p] = "delete"
    /\ mu' = [mu EXCEPT ![call[p].ent] = None]
    /\ pc' = [pc EXCEPT ![p] = "idle"]
    /\ call' = [call EXCEPT ![p] = NoCall]
    /\ UNCHANGED <<entries, refCount, value, held, seen>>

DerefDelete(p) ==
    /\ pc[p] = "delete"
    /\ entries' = [entries EXCEPT ![call[p].key] = None]
    /\ mu' = [mu EXCEPT ![call[p].ent] = None]
    /\ pc' = [pc EXCEPT ![p] = "idle"]
    /\ call' = [call EXCEPT ![p] = NoCall]
    /\ UNCHANGED <<refCount, value, held, seen>>

----------------------------------------------------------------------------
(* The steps that continue an operation in progress.                       *)
Continue(p) ==
    \/ StoreNew(p)
    \/ LoadExisting(p)
    \/ Retry(p)
    \/ TakeExisting(p)
    \/ Fill(p)
    \/ RefCountUp(p)
    \/ RefRevive(p)
    \/ DerefDec(p)
    \/ DerefDelete(p)

Next ==
    /\ \E p \in Procs :
          \/ \E k \in Keys : \/ Acquire(p, k)
                             \/ \E g \in Procs : RefLoad(p, g, k)
                             \/ DerefLoad(p, k)
          \/ Continue(p)
    /\ UNCHANGED guarded

Spec == Init /\ [][Next]_vars

(* A goroutine that can take its next step eventually takes it.            *)
FairSpec == Spec /\ \A p \in Procs : WF_vars(Continue(p) /\ UNCHANGED guarded)

----------------------------------------------------------------------------
(* Properties *)

(* The types of the variables.                                             *)
TypeOK ==
    /\ entries \in [Keys -> Entries \cup {None}]
    /\ refCount \in [Entries -> Nat]
    /\ value \in [Entries -> Entries \cup {None}]
    /\ mu \in [Entries -> Procs \cup {None}]
    /\ pc \in [Procs -> PCs]
    /\ call \in [Procs -> Calls]
    /\ held \in [Procs -> SUBSET Keys]
    /\ seen \in [Procs -> [Keys -> Entries \cup {None}]]
    /\ guarded \in BOOLEAN

(* The processes the entry of a key counts: those that hold the key, and   *)
(* the one that is filling a new entry for it.                             *)
Owners(k) == {p \in Procs : k \in held[p] \/ (pc[p] = "fill" /\ call[p].key = k)}

(* The reference count of the entry in the map is the number of programs   *)
(* that own the key; Acquire, Ref and Deref lose and invent no reference,  *)
(* however their lookups, locks and retries interleave.                    *)
CountIsOwners ==
    \A k \in Keys :
        IF entries[k] = None THEN Owners(k) = {}
        ELSE refCount[entries[k]] = Cardinality(Owners(k))

(* An entry is never deleted under a program that holds a reference, also  *)
(* not by a Deref that found an earlier entry of the same key.             *)
HolderFindsEntry ==
    \A p \in Procs : \A k \in held[p] :
        entries[k] # None /\ Alive(entries[k])

(* While a program is cloned its files cannot leave the cache, so Ref does *)
(* not panic with "cache entry not found" and never meets a dead entry.    *)
(* The condition, guarded, is what the callers provide.                    *)
RefFindsEntry ==
    guarded => \A p \in Procs :
        /\ pc[p] # "panic"
        /\ pc[p] = "refLock" => Alive(call[p].ent)

(* Source files are shared: all programs that hold a key use the value of  *)
(* one parse, as long as the callers keep the programs they clone alive.   *)
ValueShared ==
    guarded => \A p, q \in Procs : \A k \in held[p] \cap held[q] : seen[p][k] = seen[q][k]

(* If programs stop starting operations then every operation in progress    *)
(* ends: nobody waits forever for the mutex of an entry, and the retries    *)
(* after meeting a dying entry are finite.  (While other programs keep      *)
(* acquiring and releasing the same file a retry may be repeated, so the    *)
(* condition is needed.)                                                    *)
OperationsEnd ==
    <>[][\A p \in Procs : pc[p] = "idle" => pc'[p] = "idle"]_pc
        => <>[](\A p \in Procs : pc[p] \in {"idle", "panic"})
=============================================================================
