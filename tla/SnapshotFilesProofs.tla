------------------------ MODULE SnapshotFilesProofs ------------------------
(***************************************************************************)
(* The files of a snapshot: what holds of one disk file while goroutines   *)
(* make a snapshot (DiskFileCache), for every number of goroutines and     *)
(* every set of texts; and of overlays and disk files through the updates  *)
(* of a snapshot (SnapshotUpdate), for every set of documents and texts,   *)
(* every client and every batch of changes.                                *)
(***************************************************************************)
EXTENDS SnapshotUpdate, DiskFileCache, FiniteSetTheorems, WellFoundedInduction, TLAPS

(* Most steps are first-order reasoning about sets, functions and records, *)
(* which is Zenon's; those with arithmetic in them cite SMT.               *)
USE Zenon

----------------------------------------------------------------------------
(* One disk file while a snapshot is made: Consistent is an invariant, and *)
(* every step is a step of SettledFile                                     *)

(* The new cache is consistent.                                            *)
LEMMA InitConsistent == Init => Consistent
<1> SUFFICES ASSUME Init PROVE Consistent
  OBVIOUS
<1>1. TypeOK
  BY DEF Init, TypeOK, Value, Values
<1>2. Winner
  BY DEF Init, Winner, Value
<1>3. Steady
  BY DEF Init, Steady
<1>4. \A p \in Procs : Holder(p) /\ Answered(p)
  BY DEF Init, Holder, Answered
<1> QED
  BY <1>1, <1>2, <1>3, <1>4 DEF Consistent

(* What a deletion makes of the entry.                                     *)
LEMMA DeleteShape ==
    ASSUME TypeOK, Delete
    PROVE  /\ base' = base /\ own' = own
           /\ entry' \in Entries /\ entry' # Nil /\ entry'.delete
           /\ entry = Nil => entry'.value = "base" /\ ~entry'.dirty
           /\ entry # Nil => entry'.value = entry.value /\ entry'.dirty = entry.dirty
<1>1. CASE entry = Nil
  <2>1. entry' = [value |-> "base", dirty |-> FALSE, delete |-> TRUE]
    BY <1>1 DEF Delete
  <2>2. entry' \in Entries
    BY <2>1 DEF Entries
  <2>3. entry' # Nil
    BY <2>2, CacheAssumption
  <2> QED
    BY <1>1, <2>1, <2>2, <2>3, SMT DEF Delete
<1>2. CASE entry # Nil
  <2>1. entry \in Entries /\ entry' = [entry EXCEPT !.delete = TRUE]
    BY <1>2 DEF TypeOK, Delete
  <2>2. entry' \in Entries /\ entry'.delete /\ entry'.value = entry.value /\ entry'.dirty = entry.dirty
    BY <2>1 DEF Entries
  <2>3. entry' # Nil
    BY <2>2, CacheAssumption
  <2> QED
    BY <1>2, <2>2, <2>3 DEF Delete
<1> QED
  BY <1>1, <1>2

(* What a change makes of the entry.                                       *)
LEMMA ApplyShape ==
    ASSUME TypeOK, NEW new \in Values, changeLocked(new)
    PROVE  /\ base' = base /\ own' = new
           /\ entry' \in Entries /\ entry' # Nil
           /\ entry'.value = "own" /\ entry'.dirty
           /\ entry'.delete <=> entry # Nil /\ entry.delete
<1>1. (entry # Nil /\ entry.delete) \in BOOLEAN
  BY DEF TypeOK, Entries
<1>2. entry' \in Entries
  BY <1>1 DEF changeLocked, Entries
<1>3. entry' # Nil
  BY <1>2, CacheAssumption
<1> QED
  BY <1>2, <1>3 DEF changeLocked

(* A change on disk.                                                         *)
LEMMA DiskChangesConsistent ==
    ASSUME Consistent, DiskChanges
    PROVE  Consistent'
<1> USE DEF Consistent, DiskChanges
<1>1. TypeOK'
  BY DEF TypeOK
<1>2. Winner'
  BY DEF Winner, Loadable
<1>3. Steady'
  BY DEF Steady, LeftStale
<1>4. \A p \in Procs : Holder(p)' /\ Answered(p)'
  BY DEF Holder, Answered
<1> QED
  BY <1>1, <1>2, <1>3, <1>4 DEF Consistent

(* The end of the marking.                                                 *)
LEMMA StartConsistent ==
    ASSUME Consistent, Start
    PROVE  Consistent'
<1> USE DEF Consistent, Start
<1>1. TypeOK'
  BY DEF TypeOK
<1>2. Winner'
  BY DEF Winner
<1>3. Steady'
  BY DEF Steady, LeftStale, Winner, Holder
<1>4. \A p \in Procs : Holder(p)' /\ Answered(p)'
  BY DEF Holder, Answered
<1> QED
  BY <1>1, <1>2, <1>3, <1>4 DEF Consistent

(* A read of the finished snapshot.                                        *)
LEMMA ReadFinishedConsistent ==
    ASSUME Consistent, ReadFinished
    PROVE  Consistent'
<1> USE DEF Consistent, ReadFinished
<1>1. TypeOK'
  BY DEF TypeOK
<1>2. Winner'
  BY DEF Winner, Loadable
<1>3. Steady'
  BY DEF Steady, LeftStale
<1>4. \A p \in Procs : Holder(p)' /\ Answered(p)'
  BY DEF Holder, Answered
<1> QED
  BY <1>1, <1>2, <1>3, <1>4 DEF Consistent

(* The first look at the entry.                                            *)
LEMMA CheckEntryConsistent ==
    ASSUME Consistent, NEW p \in Procs, CheckEntry(p)
    PROVE  Consistent'
<1> USE DEF Consistent, CheckEntry, At, GoTo
<1>1. TypeOK'
  BY DEF TypeOK
<1>2. Winner'
  BY DEF Winner
<1>3. Steady'
  BY DEF TypeOK, Steady, LeftStale
<1>a. Holder(p)'
  <2>1. pc'[p] = (IF NeedsReload(p) THEN "read" ELSE "value") /\ phase = "build"
    BY DEF TypeOK
  <2>2. CASE hold[p] = "private"
    BY <2>1, <2>2, SMT DEF Holder, NeedsReload, Held
  <2>3. CASE hold[p] = "shared"
    <3>1. CASE entry.delete
      BY <2>1, <2>3, <3>1, SMT DEF Holder, NeedsReload, Held, ValueOf
    <3>2. CASE ~entry.delete
      <4>1. Held(p) = own
        BY <2>3, <3>2 DEF Holder, Winner, Held, ValueOf, Deref, TypeOK, Entries
      <4>2. own # Nil
        BY CacheAssumption DEF TypeOK
      <4> QED
        BY <2>1, <2>3, <3>2, <4>1, <4>2, SMT DEF Holder, NeedsReload
    <3> QED
      BY <3>1, <3>2
  <2> QED
    BY <2>2, <2>3 DEF TypeOK, Holder
<1>4. \A q \in Procs : Holder(q)' /\ Answered(q)'
  BY ZenonT(60), <1>a DEF TypeOK, Holder, Answered
<1> QED
  BY <1>1, <1>2, <1>3, <1>4 DEF Consistent

(* The read without the lock.                                              *)
LEMMA ReadFileConsistent ==
    ASSUME Consistent, NEW p \in Procs, ReadFile(p)
    PROVE  Consistent'
<1> USE DEF Consistent, ReadFile, At, GoTo
<1>1. TypeOK'
  BY DEF TypeOK
<1>2. Winner'
  BY DEF Winner
<1>3. Steady'
  BY DEF TypeOK, Steady, LeftStale
<1>4. \A q \in Procs : Holder(q)' /\ Answered(q)'
  BY ZenonT(60) DEF TypeOK, Holder, Answered
<1> QED
  BY <1>1, <1>2, <1>3, <1>4 DEF Consistent

(* A change that was recorded.                                             *)
LEMMA MarkConsistent ==
    ASSUME Consistent, Mark
    PROVE  Consistent'
<1> USE DEF Consistent, Mark
<1>0. Loadable => Current \in Values
  BY CacheAssumption DEF TypeOK, Loadable, Current, Deref, Winner
<1>a. \/ MarkDeleted /\ Delete
      \/ \E new \in Values : (new.stale \/ new.text \in Texts) /\ changeLocked(new) /\ ~(entry # Nil /\ entry.delete)
      \/ entry = Nil /\ base = Nil /\ ReloadClosed
  BY <1>0 DEF MarkChanged, MarkDeleted, ReloadClosed, Reload, Value, Values, TypeOK, Loadable
<1> DEFINE Undisturbed ==
      /\ base' = base
      /\ own' \in Values /\ (own'.stale \/ own'.text \in Texts)
      /\ entry' \in Entries /\ entry' # Nil
      /\ IF entry'.value = "own" THEN entry'.dirty ELSE ~entry'.dirty /\ entry'.delete
<1>b. Undisturbed
  <2>1. CASE MarkDeleted /\ Delete
    BY <2>1, DeleteShape DEF Winner, TypeOK
  <2>2. ASSUME NEW new \in Values, new.stale \/ new.text \in Texts, changeLocked(new)
        PROVE  Undisturbed
    BY <2>2, ApplyShape
  <2>3. CASE entry = Nil /\ base = Nil /\ ReloadClosed
    <3>1. /\ base' = base
          /\ own' = IF onDisk = Missing THEN Value(Unknown, TRUE) ELSE Value(onDisk, FALSE)
          /\ entry' = [value |-> "own", dirty |-> TRUE, delete |-> onDisk = Missing]
      BY <2>3 DEF ReloadClosed, Loadable
    <3>2. own' \in Values /\ (own'.stale \/ own'.text \in Texts)
      BY <3>1 DEF Value, Values, TypeOK
    <3>3. entry' \in Entries
      BY <3>1 DEF Entries
    <3>4. entry' # Nil
      BY <3>3, CacheAssumption
    <3> QED
      BY <3>1, <3>2, <3>3, <3>4
  <2> QED
    BY <1>a, <2>1, <2>2, <2>3
<1>1. TypeOK'
  BY <1>b DEF TypeOK
<1>2. Winner'
  BY <1>b DEF Winner
<1>3. Steady'
  BY DEF Steady
<1>4. \A p \in Procs : Holder(p)' /\ Answered(p)'
  BY <1>b DEF Holder, Answered
<1> QED
  BY <1>1, <1>2, <1>3, <1>4 DEF Consistent

(* LoadOrStore.                                                            *)
LEMMA GetDiskFileConsistent ==
    ASSUME Consistent, NEW p \in Procs, GetDiskFile(p)
    PROVE  Consistent'
<1> USE DEF Consistent
<1>a. CASE entry # Nil \/ base # Nil
  <2> USE DEF GetDiskFile, At, GoTo, Holds, Return
  <2>0. entry' = entry /\ own' = own
    BY <1>a
  <2>1. TypeOK'
    BY <1>a DEF TypeOK
  <2>2. Winner'
    BY <2>0 DEF Winner
  <2>3. Steady'
    BY <1>a, <2>0 DEF TypeOK, Steady, LeftStale
  <2>4. \A q \in Procs : Holder(q)' /\ Answered(q)'
    <3>1. CASE entry # Nil /\ entry.delete
      <4>1. /\ got' = [got EXCEPT ![p] = "nil"]
            /\ pc' = [pc EXCEPT ![p] = "idle"] /\ hold' = [hold EXCEPT ![p] = "none"]
        BY <3>1
      <4>2. phase = "build" /\ UNCHANGED <<phase, base, marked>>
        OBVIOUS
      <4> HIDE DEF GetDiskFile
      <4>3. \A q \in Procs : Holder(q)'
        BY <2>0, <3>1, <4>1, <4>2 DEF TypeOK, Holder
      <4>4. \A q \in Procs : Answered(q)'
        BY <2>0, <3>1, <4>1, <4>2 DEF TypeOK, Answered
      <4> QED
        BY <4>3, <4>4
    <3>2. CASE entry # Nil /\ ~entry.delete
      BY ZenonT(60), <2>0, <3>2 DEF TypeOK, Holder, Answered
    <3>3. CASE entry = Nil /\ base # Nil
      BY ZenonT(60), <2>0, <3>3 DEF TypeOK, Holder, Answered, Winner
    <3> QED
      BY <1>a, <3>1, <3>2, <3>3
  <2> QED
    BY <2>1, <2>2, <2>3, <2>4
<1>b. CASE entry = Nil /\ base = Nil
  <2>0. /\ Store /\ phase = "build" /\ got' = got /\ UNCHANGED <<phase, onDisk, base, marked, content, memo>>
        /\ pc' = [pc EXCEPT ![p] = "check"] /\ hold' = [hold EXCEPT ![p] = "shared"]
    BY <1>b DEF GetDiskFile, At, GoTo, Holds
  <2>a. entry' \in Entries /\ entry'.value = "own" /\ entry'.dirty /\ ~entry'.delete
    BY <2>0 DEF Store, Entries
  <2>b. entry' # Nil /\ own' \in Values /\ own'.stale
    BY <2>0, <2>a, CacheAssumption DEF Store, Value, Values
  <2>1. TypeOK'
    BY <2>0, <2>a, <2>b DEF TypeOK
  <2>2. Winner'
    BY <1>b, <2>0, <2>a, <2>b DEF Winner
  <2>3. Steady'
    BY <1>b, <2>0 DEF Steady, LeftStale
  <2>4. \A q \in Procs : Holder(q)' /\ Answered(q)'
    BY <1>b, <2>0, <2>a, <2>b DEF TypeOK, Holder, Answered
  <2> QED
    BY <2>1, <2>2, <2>3, <2>4
<1> QED
  BY <1>a, <1>b

(* The first request for the value.                                        *)
LEMMA FirstValueConsistent ==
    ASSUME Consistent, NEW p \in Procs, FirstValue(p)
    PROVE  Consistent'
<1> USE DEF Consistent
<1>0. phase = "build" /\ pc[p] = "value" /\ UNCHANGED <<phase, onDisk, base, marked, entry, own, content, memo>>
  BY DEF FirstValue, At
<1>a. CASE Held(p) = Nil
  <2>0. /\ got' = [got EXCEPT ![p] = "nil"] /\ pc' = [pc EXCEPT ![p] = "idle"]
        /\ hold' = [hold EXCEPT ![p] = "none"]
    BY <1>a DEF FirstValue, Return, GoTo, Holds
  <2>a. entry # Nil /\ entry.delete
    BY <1>0, <1>a, CacheAssumption DEF TypeOK, Holder, Winner, Held, ValueOf, Deref
  <2>1. TypeOK'
    BY <1>0, <2>0 DEF TypeOK
  <2>2. Winner' /\ Steady'
    BY <1>0, <2>0 DEF TypeOK, Winner, Steady, LeftStale
  <2>3. \A q \in Procs : Holder(q)' /\ Answered(q)'
    BY <1>0, <2>0, <2>a DEF TypeOK, Holder, Answered
  <2> QED
    BY <2>1, <2>2, <2>3
<1>b. CASE Held(p) # Nil
  <2>0. got' = got /\ pc' = [pc EXCEPT ![p] = "return"] /\ hold' = hold
    BY <1>b DEF FirstValue, GoTo
  <2>a. hold[p] = "shared" => ~entry.delete
    BY <1>b DEF Held, ValueOf
  <2>1. TypeOK'
    BY <1>0, <2>0 DEF TypeOK
  <2>2. Winner' /\ Steady'
    BY <1>0, <2>0 DEF TypeOK, Winner, Steady, LeftStale
  <2>3. \A q \in Procs : Holder(q)' /\ Answered(q)'
    BY ZenonT(60), <1>0, <2>0, <2>a DEF TypeOK, Holder, Answered
  <2> QED
    BY <2>1, <2>2, <2>3
<1> QED
  BY <1>a, <1>b

(* The second request for the value.                                       *)
LEMMA SecondValueConsistent ==
    ASSUME Consistent, NEW p \in Procs, SecondValue(p)
    PROVE  Consistent'
<1> USE DEF Consistent
<1> DEFINE handle == IF hold[p] = "private" THEN "base" ELSE "own"
<1>0. phase = "build" /\ pc[p] = "return" /\ UNCHANGED <<phase, onDisk, base, marked, entry, own, content, memo>>
  BY DEF SecondValue, At
<1>a. hold[p] # "private" => entry # Nil /\ ~entry.delete /\ entry.value = "own" /\ ~own.stale
  BY <1>0 DEF TypeOK, Holder, Winner, Entries
<1>b. hold[p] = "private" => base # Nil /\ ~base.stale /\ entry = Nil
  BY <1>0 DEF TypeOK, Holder, Winner
<1>c. /\ got' = [got EXCEPT ![p] = handle] /\ pc' = [pc EXCEPT ![p] = "idle"]
      /\ hold' = [hold EXCEPT ![p] = "none"]
  BY <1>a DEF SecondValue, Return, GoTo, Holds
<1>1. TypeOK'
  BY <1>0, <1>c DEF TypeOK
<1>2. Winner'
  BY <1>0 DEF Winner
<1>3. Steady'
  BY <1>0, <1>c DEF TypeOK, Steady, LeftStale
<1>4. \A q \in Procs : Holder(q)' /\ Answered(q)'
  BY ZenonT(60), <1>0, <1>a, <1>b, <1>c DEF TypeOK, Holder, Answered
<1> QED
  BY <1>1, <1>2, <1>3, <1>4 DEF Consistent

(* The new base map.                                                       *)
LEMMA FinalizeConsistent ==
    ASSUME Consistent, Finalize
    PROVE  Consistent'
<1> USE DEF Consistent, Finalize
<1>0. own' \in Values /\ own'.stale
  BY DEF Value, Values
<1>a. base' \in {base, own, Nil}
  BY DEF Deref
<1>1. TypeOK'
  BY <1>0, <1>a DEF TypeOK
<1>2. Winner'
  BY <1>0, <1>a DEF Winner
<1>3. Steady'
  BY DEF Steady
<1>4. \A p \in Procs : Holder(p)' /\ Answered(p)'
  BY DEF Quiescent, TypeOK, Holder, Answered
<1> QED
  BY <1>1, <1>2, <1>3, <1>4 DEF Consistent

(* The cleaning of the cache.                                              *)
LEMMA CleanDiskCacheConsistent ==
    ASSUME Consistent, CleanDiskCache
    PROVE  Consistent'
<1> USE DEF Consistent
<1>0. /\ phase = "build" /\ phase' = "cleaned"
      /\ UNCHANGED <<onDisk, marked, hold, pc, content, got, memo>>
      /\ \A p \in Procs : pc[p] = "idle"
  BY DEF CleanDiskCache, Quiescent
<1>a. CASE Loadable
  <2>0. Delete
    BY <1>a DEF CleanDiskCache
  <2>a. /\ base' = base /\ own' = own
        /\ entry' \in Entries /\ entry' # Nil /\ entry'.delete
        /\ entry = Nil => entry'.value = "base" /\ ~entry'.dirty
        /\ entry # Nil => entry'.value = entry.value /\ entry'.dirty = entry.dirty
    BY <2>0, DeleteShape
  <2>1. TypeOK'
    BY <1>0, <2>a DEF TypeOK
  <2>2. Winner' /\ Steady'
    BY <1>0, <2>a DEF Winner, Loadable, Steady
  <2>3. \A p \in Procs : Holder(p)' /\ Answered(p)'
    BY <1>0, <2>a DEF Holder, Answered
  <2> QED
    BY <2>1, <2>2, <2>3
<1>b. CASE ~Loadable
  <2>0. base' = base /\ entry' = entry /\ own' = own
    BY <1>b DEF CleanDiskCache
  <2>1. TypeOK'
    BY <1>0, <2>0 DEF TypeOK
  <2>2. Winner' /\ Steady'
    BY <1>0, <1>b, <2>0 DEF Winner, Loadable, Steady
  <2>3. \A p \in Procs : Holder(p)' /\ Answered(p)'
    BY <1>0, <2>0 DEF Holder, Answered
  <2> QED
    BY <2>1, <2>2, <2>3
<1> QED
  BY <1>a, <1>b

(* The second look at the entry, and the reload.                           *)
LEMMA ApplyReloadConsistent ==
    ASSUME Consistent, NEW p \in Procs, ApplyReload(p)
    PROVE  Consistent'
<1> USE DEF Consistent
<1>0. /\ phase = "build" /\ pc[p] = "apply" /\ pc' = [pc EXCEPT ![p] = "value"]
      /\ UNCHANGED <<phase, onDisk, marked, content, got, memo>>
  BY DEF ApplyReload, At, GoTo
<1>a. CASE ~NeedsReload(p)
  <2>0. base' = base /\ entry' = entry /\ own' = own /\ hold' = hold
    BY <1>a DEF ApplyReload
  <2>1. TypeOK'
    BY <1>0, <2>0 DEF TypeOK
  <2>2. Winner' /\ Steady'
    BY <1>0, <2>0 DEF TypeOK, Winner, Steady, LeftStale
  <2>3. hold[p] = "shared" /\ (entry.delete \/ ~own.stale)
    <3>1. hold[p] # "private"
      BY <1>0, <1>a DEF Holder, NeedsReload, Held
    <3>2. CASE ~entry.delete
      <4>1. Held(p) = own
        BY <1>0, <3>1, <3>2 DEF Holder, Winner, Held, ValueOf, Deref, TypeOK, Entries
      <4> QED
        BY <1>0, <1>a, <3>1, <4>1, CacheAssumption DEF NeedsReload, TypeOK, Holder
    <3> QED
      BY <1>0, <3>1, <3>2 DEF Holder, TypeOK
  <2>4. \A q \in Procs : Holder(q)' /\ Answered(q)'
    BY <1>0, <2>0, <2>3 DEF TypeOK, Holder, Answered
  <2> QED
    BY <2>1, <2>2, <2>4
<1>b. CASE NeedsReload(p)
  <2>0. Reload(content[p]) /\ hold' = [hold EXCEPT ![p] = "shared"] /\ content[p] \in Texts \cup {Missing}
    BY <1>b DEF ApplyReload, Holds, TypeOK
  <2>a. hold[p] = "private" =>
          /\ LeftStale /\ content[p] = onDisk
          /\ entry # Nil => IF onDisk = Missing THEN entry.delete
                             ELSE ~entry.delete /\ own = Value(onDisk, FALSE)
    BY <1>0 DEF Holder, Steady, LeftStale
  <2>b. hold[p] # "private" => entry # Nil /\ ~entry.delete /\ own.stale /\ ~LeftStale
    <3> SUFFICES ASSUME hold[p] # "private"
                 PROVE  entry # Nil /\ ~entry.delete /\ own.stale /\ ~LeftStale
      OBVIOUS
    <3>1. entry # Nil /\ ~entry.delete
      BY <1>0, <1>b DEF TypeOK, Holder, NeedsReload, Held, ValueOf
    <3>2. Held(p) = own
      BY <3>1 DEF TypeOK, Winner, Entries, Held, ValueOf, Deref
    <3>3. own.stale
      BY <1>b, <3>2 DEF NeedsReload
    <3>4. LeftStale => own = Value(onDisk, FALSE)
      BY <1>0, <3>1 DEF Steady
    <3>5. ~Value(onDisk, FALSE).stale
      BY DEF Value
    <3> QED
      BY <3>1, <3>3, <3>4, <3>5
  <2>c. LeftStale => base # Nil /\ base.stale /\ ~marked
    BY DEF LeftStale
  <2>1. CASE content[p] = Missing
    <3>0. Delete
      BY <2>0, <2>1 DEF Reload
    <3>a. /\ base' = base /\ own' = own
          /\ entry' \in Entries /\ entry' # Nil /\ entry'.delete
          /\ entry = Nil => entry'.value = "base" /\ ~entry'.dirty
          /\ entry # Nil => entry'.value = entry.value /\ entry'.dirty = entry.dirty
      BY <3>0, DeleteShape
    <3>b. entry # Nil => entry.delete \/ own.stale
      BY <2>a, <2>b, <2>1
    <3>1. TypeOK'
      BY <1>0, <2>0, <3>a DEF TypeOK
    <3>2. Winner'
      BY <1>0, <2>a, <2>b, <2>c, <3>a DEF Winner, TypeOK
    <3>3. Steady'
      BY <1>0, <2>a, <2>b, <2>c, <2>1, <3>a DEF Steady, LeftStale, TypeOK
    <3>4. \A q \in Procs : Holder(q)' /\ Answered(q)'
      BY ZenonT(60), <1>0, <2>0, <2>a, <2>b, <2>c, <3>a, <3>b DEF TypeOK, Holder, Answered
    <3> QED
      BY <3>1, <3>2, <3>3, <3>4
  <2>2. CASE content[p] # Missing
    <3>0. changeLocked(Value(content[p], FALSE)) /\ Value(content[p], FALSE) \in Values
      BY <2>0, <2>2 DEF Reload, Value, Values
    <3>a. /\ base' = base /\ own' = Value(content[p], FALSE) /\ own' \in Values
          /\ entry' \in Entries /\ entry' # Nil
          /\ entry'.value = "own" /\ entry'.dirty
          /\ entry'.delete <=> entry # Nil /\ entry.delete
      BY <3>0, ApplyShape
    <3>b. ~entry'.delete /\ ~own'.stale /\ own'.text \in Texts
      BY <2>0, <2>a, <2>b, <2>c, <2>2, <3>a DEF Value
    <3>1. TypeOK'
      BY <1>0, <2>0, <3>a DEF TypeOK
    <3>2. Winner'
      BY <1>0, <2>a, <2>b, <2>c, <3>a, <3>b DEF Winner, TypeOK
    <3>3. Steady'
      BY <1>0, <2>a, <2>b, <2>c, <2>2, <3>a, <3>b DEF Steady, LeftStale, TypeOK
    <3>4. \A q \in Procs : Holder(q)' /\ Answered(q)'
      BY <1>0, <2>0, <2>a, <2>b, <2>c, <2>2, <3>a, <3>b DEF TypeOK, Holder, Answered
    <3> QED
      BY <3>1, <3>2, <3>3, <3>4
  <2> QED
    BY <2>1, <2>2
<1> QED
  BY <1>a, <1>b

(* Every step keeps the cache consistent.                                  *)
LEMMA NextConsistent == Consistent /\ [Next]_vars => Consistent'
<1> SUFFICES ASSUME Consistent, [Next]_vars PROVE Consistent'
  OBVIOUS
<1>1. CASE UNCHANGED vars
  <2>1. TypeOK' /\ Winner' /\ Steady'
    BY <1>1 DEF vars, Consistent, TypeOK, Winner, Loadable, Steady, LeftStale
  <2>2. \A p \in Procs : Holder(p)' /\ Answered(p)'
    BY <1>1 DEF vars, Consistent, Holder, Answered
  <2> QED
    BY <2>1, <2>2 DEF Consistent
<1>2. CASE \E p \in Procs : Load(p)
  BY <1>2, GetDiskFileConsistent, CheckEntryConsistent, ReadFileConsistent,
     ApplyReloadConsistent, FirstValueConsistent, SecondValueConsistent DEF Load
<1> QED
  BY <1>1, <1>2, DiskChangesConsistent, MarkConsistent, StartConsistent,
     ReadFinishedConsistent, CleanDiskCacheConsistent, FinalizeConsistent DEF Next

(* A file that needs no reload has a text, an entry of the dirty map that  *)
(* is not deleted has a value of its own, and a goroutine that was         *)
(* answered finds the file settled, in every reachable state of the disk   *)
(* file cache of a snapshot under construction (snapshotFSBuilder over     *)
(* dirty.SyncMap), for every number of goroutines and every set of texts.  *)
THEOREM AlwaysConsistent == Spec => []Consistent
  BY InitConsistent, NextConsistent, PTL DEF Spec

----------------------------------------------------------------------------

Known == File \in Texts \cup {Missing, Unknown} /\ Published \in Texts \cup {Missing, Unknown}

(* What a snapshot knows of the file is a text, that it is missing, or     *)
(* nothing.                                                                *)
LEMMA FileType == Consistent => Known
<1> SUFFICES ASSUME Consistent PROVE Known
  OBVIOUS
<1>1. Loadable => Current \in Values
  BY CacheAssumption DEF Consistent, TypeOK, Loadable, Current, Deref, Winner
<1>2. File \in Texts \cup {Missing, Unknown}
  BY <1>1 DEF File, TextOf, Values
<1>3. Published \in Texts \cup {Missing, Unknown}
  BY DEF Published, Consistent, TypeOK, Values
<1> QED
  BY <1>2, <1>3 DEF Known

(* A step that changes neither entries nor answers changes nothing that    *)
(* SettledFile sees.                                                       *)
LEMMA Unseen ==
    ASSUME UNCHANGED <<phase, base, entry, own, got, memo>>
    PROVE  UNCHANGED Promise!vars
<1>1. File' = File /\ Published' = Published
  BY DEF File, Loadable, Current, Deref, TextOf, Published
<1>2. \A p \in Procs : Told(p)' = Told(p)
  BY DEF Told
<1> QED
  BY <1>1, <1>2 DEF Promise!vars

(* An answer that agrees with the file is a Tell.                          *)
LEMMA Tells ==
    ASSUME NEW p \in Procs, phase = "build", File # Unknown,
           UNCHANGED <<phase, base, entry, own, memo>>,
           Told(p)' = File, \A q \in Procs \ {p} : Told(q)' = Told(q)
    PROVE  Promise!Tell(p)
<1>1. File' = File /\ Published' = Published
  BY DEF File, Loadable, Current, Deref, TextOf, Published
<1>2. [q \in Procs |-> Told(q)]' = [[q \in Procs |-> Told(q)] EXCEPT ![p] = File]
  OBVIOUS
<1> QED
  BY <1>1, <1>2 DEF Promise!Tell

(* Recorded changes.                                                       *)
LEMMA MarkMaps == ASSUME Consistent, Consistent', Mark \/ Start PROVE Promise!Mark
<1>1. /\ phase = "mark" /\ phase' \in {"mark", "build"} /\ got' = got /\ memo' = memo
      /\ base' = base
  BY DEF Mark, Start, MarkChanged, MarkDeleted, ReloadClosed, Reload, changeLocked, Delete
<1>2. \A p \in Procs : Told(p) = Unknown /\ Told(p)' = Unknown
  BY <1>1 DEF Consistent, Holder, Told
<1>3. Published' = Published
  BY <1>1 DEF Published
<1>4. Known'
  BY FileType, PTL
<1> QED
  BY <1>1, <1>2, <1>3, <1>4 DEF Known, Promise!Mark, Promise!Answers

(* LoadOrStore: a deleted entry is an answer; nobody sees a new one.       *)
LEMMA GetDiskFileMaps ==
    ASSUME Consistent, NEW p \in Procs, GetDiskFile(p)
    PROVE  Promise!Tell(p) \/ UNCHANGED Promise!vars
<1> USE DEF GetDiskFile, At, GoTo, Holds, Return
<1>1. CASE entry # Nil /\ entry.delete
  <2>1. got' = [got EXCEPT ![p] = "nil"] /\ UNCHANGED <<phase, base, entry, own, memo>> /\ phase = "build"
    BY <1>1
  <2>2. File = Missing
    BY <1>1 DEF File, Loadable
  <2>3. Told(p)' = Missing /\ \A q \in Procs \ {p} : Told(q)' = Told(q)
    BY <2>1 DEF Told, Consistent, TypeOK
  <2> QED
    BY <2>1, <2>2, <2>3, Tells, CacheAssumption
<1>2. CASE (entry # Nil /\ ~entry.delete) \/ (entry = Nil /\ base # Nil)
  BY <1>2, Unseen
<1>3. CASE entry = Nil /\ base = Nil
  <2>1. Store /\ UNCHANGED <<phase, base, got, memo>>
    BY <1>3
  <2> HIDE DEF GetDiskFile
  <2>2. entry' # Nil /\ entry'.value = "own" /\ ~entry'.delete /\ own'.stale
    <3>1. entry' \in Entries
      BY <2>1 DEF Store, Entries
    <3> QED
      BY <2>1, <3>1, CacheAssumption DEF Store, Value
  <2>3. File = Unknown /\ File' = Unknown
    BY <1>3, <2>2 DEF File, Loadable, Current, Deref, TextOf
  <2>4. Published' = Published
    BY <2>1 DEF Published
  <2>5. \A q \in Procs : Told(q)' = Told(q)
    <3>1. \A q \in Procs : got[q] \in {"none", "nil", "base", "typed nil"}
      BY <1>3 DEF Consistent, Answered, TypeOK, GetDiskFile, At
    <3> QED
      BY <2>1, <3>1 DEF Told
  <2> QED
    BY <2>1, <2>3, <2>4, <2>5 DEF Promise!vars
<1> QED
  BY <1>1, <1>2, <1>3 DEF Consistent, TypeOK, Entries

(* The reload settles the file, unless a private entry says what the entry *)
(* of the dirty map already says.                                          *)
LEMMA ApplyReloadMaps ==
    ASSUME Consistent, Consistent', NEW p \in Procs, ApplyReload(p)
    PROVE  Promise!Settle \/ UNCHANGED Promise!vars
<1>0. phase = "build" /\ pc[p] = "apply" /\ UNCHANGED <<phase, onDisk, got, memo>>
  BY DEF ApplyReload, At
<1>1. CASE ~NeedsReload(p)
  BY <1>0, <1>1, Unseen DEF ApplyReload
<1>2. CASE NeedsReload(p)
  <2>0. Reload(content[p]) /\ content[p] \in Texts \cup {Missing}
    BY <1>2 DEF ApplyReload, Consistent, TypeOK
  <2>1. base' = base
    BY <2>0 DEF Reload, changeLocked, Delete
  <2>2. Published' = Published
    BY <1>0, <2>1 DEF Published
  <2>3. File' = content[p]
    <3>1. CASE content[p] = Missing
      <4>1. entry' # Nil /\ entry'.delete
        BY <2>0, <3>1, DeleteShape DEF Reload, Consistent
      <4> QED
        BY <3>1, <4>1 DEF File, Loadable
    <3>2. CASE content[p] # Missing
      <4>0. Value(content[p], FALSE) \in Values
        BY <2>0, <3>2 DEF Value, Values
      <4>1. own' = Value(content[p], FALSE) /\ entry' # Nil /\ entry'.value = "own"
        BY <2>0, <3>2, <4>0, ApplyShape DEF Reload, Consistent
      <4>2. ~entry'.delete
        BY <1>0, <1>2, <2>0, <3>2, <4>0, ApplyShape
           DEF Reload, Consistent, Holder, Steady, LeftStale, NeedsReload, Held, ValueOf, TypeOK
      <4> QED
        BY <4>1, <4>2 DEF File, Loadable, Current, Deref, TextOf, Value
    <3> QED
      BY <3>1, <3>2
  <2>4. CASE hold[p] = "private" /\ entry # Nil
    <3>1. content[p] = onDisk /\ IF onDisk = Missing THEN entry.delete ELSE ~entry.delete /\ own = Value(onDisk, FALSE)
      BY <1>0, <2>4 DEF Consistent, Holder, Steady, LeftStale
    <3>2. own' = own
      BY <2>0, <3>1 DEF Reload, changeLocked, Delete
    <3>3. File = content[p]
      <4>1. CASE onDisk = Missing
        BY <2>4, <3>1, <4>1 DEF File, Loadable
      <4>2. CASE onDisk # Missing
        <5>1. Loadable /\ Current = own
          BY <2>4, <3>1, <4>2 DEF Loadable, Current, Deref, Consistent, Winner
        <5>2. TextOf(own) = onDisk
          BY <3>1, <4>2, SMT DEF TextOf, Value
        <5> QED
          BY <2>4, <3>1, <5>1, <5>2 DEF File
      <4> QED
        BY <4>1, <4>2
    <3>4. \A q \in Procs : Told(q)' = Told(q)
      BY <1>0, <2>1, <3>2 DEF Told
    <3> QED
      BY <1>0, <2>2, <2>3, <3>3, <3>4 DEF Promise!vars
  <2>5. CASE hold[p] # "private" \/ entry = Nil
    <3>1. File = Unknown /\ \A q \in Procs : got[q] # "own"
      <4>1. CASE entry = Nil
        BY <1>0, <4>1 DEF Consistent, TypeOK, Holder, Answered, File, Loadable, Current, TextOf
      <4>2. CASE hold[p] # "private"
        <5>1. entry # Nil /\ ~entry.delete
          BY <1>0, <1>2, <4>2 DEF Consistent, TypeOK, Holder, NeedsReload, Held, ValueOf
        <5>2. entry.value = "own" /\ own.stale
          BY <1>2, <4>2, <5>1 DEF Consistent, TypeOK, Winner, Entries, NeedsReload, Held, ValueOf, Deref
        <5> QED
          BY <1>0, <5>1, <5>2 DEF Consistent, Answered, File, Loadable, Current, Deref, TextOf
      <4> QED
        BY <2>5, <4>1, <4>2
    <3>2. \A q \in Procs : got[q] \in {"none", "nil", "base", "typed nil"}
      BY <3>1 DEF Consistent, TypeOK
    <3>3. \A q \in Procs : Told(q)' = Told(q)
      BY <1>0, <2>1, <3>2 DEF Told
    <3> QED
      BY <1>0, <2>0, <2>2, <2>3, <3>1, <3>3 DEF Promise!Settle, Promise!Answers
  <2> QED
    BY <2>4, <2>5
<1> QED
  BY <1>1, <1>2

(* The first request for the value answers when the file is missing.       *)
LEMMA FirstValueMaps ==
    ASSUME Consistent, NEW p \in Procs, FirstValue(p)
    PROVE  Promise!Tell(p) \/ UNCHANGED Promise!vars
<1> USE DEF FirstValue, At, GoTo, Holds, Return
<1>1. CASE Held(p) = Nil
  <2>1. got' = [got EXCEPT ![p] = "nil"] /\ UNCHANGED <<phase, base, entry, own, memo>> /\ phase = "build"
    BY <1>1
  <2>2. entry # Nil /\ entry.delete
    BY <1>1, CacheAssumption DEF Consistent, TypeOK, Holder, Winner, Held, ValueOf, Deref
  <2>3. File = Missing
    BY <2>2 DEF File, Loadable
  <2>4. Told(p)' = Missing /\ \A q \in Procs \ {p} : Told(q)' = Told(q)
    BY <2>1 DEF Told, Consistent, TypeOK
  <2> QED
    BY <2>1, <2>3, <2>4, Tells, CacheAssumption
<1>2. CASE Held(p) # Nil
  BY <1>2, Unseen
<1> QED
  BY <1>1, <1>2

(* The second request for the value answers.                               *)
LEMMA SecondValueMaps ==
    ASSUME Consistent, NEW p \in Procs, SecondValue(p)
    PROVE  Promise!Tell(p)
<1> DEFINE handle == IF hold[p] = "private" THEN "base" ELSE "own"
<1>0. phase = "build" /\ pc[p] = "return" /\ UNCHANGED <<phase, base, entry, own, memo>>
  BY DEF SecondValue, At
<1>1. hold[p] # "private" => entry # Nil /\ ~entry.delete /\ entry.value = "own" /\ ~own.stale
  BY <1>0 DEF Consistent, TypeOK, Holder, Winner, Entries
<1>2. hold[p] = "private" => base # Nil /\ ~base.stale /\ entry = Nil
  BY <1>0 DEF Consistent, TypeOK, Holder, Winner
<1>3. got' = [got EXCEPT ![p] = handle]
  BY <1>1 DEF SecondValue, Return
<1>4. File = IF hold[p] = "private" THEN base.text ELSE own.text
  BY <1>1, <1>2 DEF File, Loadable, Current, Deref, TextOf
<1>5. File \in Texts
  BY <1>1, <1>2, <1>4 DEF Consistent, Winner
<1>6. Told(p)' = File /\ \A q \in Procs \ {p} : Told(q)' = Told(q)
  BY <1>0, <1>3, <1>4 DEF Told, Consistent, TypeOK
<1> QED
  BY <1>0, <1>5, <1>6, Tells, CacheAssumption

(* The first read of the finished snapshot.                                *)
LEMMA ReadFinishedMaps == ASSUME Consistent, ReadFinished PROVE Promise!Read
<1>1. File' = File
  BY DEF ReadFinished, File, Loadable, Current, Deref, TextOf
<1>2. \A p \in Procs : Told(p)' = Told(p)
  BY DEF ReadFinished, Told
<1>3. Published = Unknown /\ Published' \in Texts \cup {Missing} /\ phase' = phase
  BY DEF ReadFinished, Published, Consistent, TypeOK
<1> QED
  BY <1>1, <1>2, <1>3 DEF Promise!Read, Promise!Answers

(* The new base map has what everybody was told.                           *)
LEMMA FinalizeMaps == ASSUME Consistent, Consistent', Finalize PROVE Promise!Publish
<1>1. /\ phase \in {"build", "cleaned"} /\ phase' = "mark" /\ memo' = Unknown
      /\ \A p \in Procs : Told(p)' = Unknown
  BY DEF Finalize, Told
<1>2. Known'
  BY FileType, PTL
<1>3. ASSUME NEW p \in Procs, Told(p) # Unknown
      PROVE  Published' = Promise!Kept(Told(p))
  <2>1. CASE got[p] = "nil" \/ phase = "cleaned"
    <3>1. base' = Nil
      BY <2>1 DEF Finalize, Consistent, Answered, Winner, Loadable
    <3> QED
      BY <1>1, <2>1, <3>1 DEF Told, Published, Promise!Kept
  <2>2. CASE got[p] = "base" /\ phase = "build"
    <3>1. base' = base /\ base # Nil /\ base.text \in Texts
      BY <2>2 DEF Finalize, Consistent, Answered, Winner
    <3> QED
      BY <2>2, <3>1, CacheAssumption DEF Told, Published, Promise!Kept
  <2>3. CASE got[p] = "own" /\ phase = "build"
    <3>1. entry # Nil /\ ~entry.delete /\ entry.dirty /\ entry.value = "own" /\ own.text \in Texts
      BY <2>3 DEF Consistent, Answered, Winner
    <3>2. base' = own
      BY <3>1 DEF Finalize, Deref
    <3>3. own # Nil
      BY CacheAssumption DEF Consistent, TypeOK
    <3> QED
      BY <2>3, <3>1, <3>2, <3>3, CacheAssumption DEF Told, Published, Promise!Kept
  <2> QED
    BY <1>1, <1>3, <2>1, <2>2, <2>3 DEF Told, Consistent, Answered, TypeOK
<1> QED
  BY <1>1, <1>2, <1>3 DEF Known, Promise!Publish, Promise!Answers

(* Dropping the file changes nothing for who was answered.                 *)
LEMMA CleanDiskCacheMaps == ASSUME Consistent, Consistent', CleanDiskCache PROVE Promise!Forget
<1>1. phase = "build" /\ phase' = "cleaned" /\ UNCHANGED <<base, own, got, memo>>
  BY DEF CleanDiskCache, Delete
<1>2. \A p \in Procs : Told(p)' = Told(p)
  BY <1>1 DEF Told
<1>3. Published' = Published
  BY <1>1 DEF Published
<1>4. Known'
  BY FileType, PTL
<1> QED
  BY <1>1, <1>2, <1>3, <1>4 DEF Known, Promise!Forget, Promise!Answers

(* Every step is a step of SettledFile, or none.                           *)
LEMMA NextMaps ==
    Consistent /\ Consistent' /\ [Next]_vars => [Promise!Next]_(Promise!vars)
<1> SUFFICES ASSUME Consistent, Consistent', [Next]_vars
             PROVE  Promise!Next \/ UNCHANGED Promise!vars
  OBVIOUS
<1>1. CASE UNCHANGED vars \/ DiskChanges
  BY <1>1, Unseen DEF vars, DiskChanges
<1>2. CASE Mark \/ Start
  BY <1>2, MarkMaps DEF Promise!Next
<1>3. CASE ReadFinished
  BY <1>3, ReadFinishedMaps DEF Promise!Next
<1>4. CASE CleanDiskCache \/ Finalize
  BY <1>4, CleanDiskCacheMaps, FinalizeMaps DEF Promise!Next
<1>5. ASSUME NEW p \in Procs, Load(p)
      PROVE  Promise!Next \/ UNCHANGED Promise!vars
  <2>1. CASE CheckEntry(p) \/ ReadFile(p)
    BY <2>1, Unseen DEF CheckEntry, ReadFile
  <2>2. CASE ApplyReload(p)
    BY <2>2, ApplyReloadMaps DEF Promise!Next
  <2>3. CASE GetDiskFile(p) \/ FirstValue(p) \/ SecondValue(p)
    BY <2>3, GetDiskFileMaps, FirstValueMaps, SecondValueMaps DEF Promise!Next
  <2> QED
    BY <1>5, <2>1, <2>2, <2>3 DEF Load
<1> QED
  BY <1>1, <1>2, <1>3, <1>4, <1>5 DEF Next

(* The new cache maps to an initial state.                                 *)
LEMMA InitMaps == Init => Promise!Init
<1> SUFFICES ASSUME Init PROVE Promise!Init
  OBVIOUS
<1>1. File = Unknown /\ Published = Unknown
  BY DEF Init, File, Loadable, Published
<1>2. \A p \in Procs : Told(p) = Unknown
  BY DEF Init, Told
<1> QED
  BY <1>1, <1>2 DEF Init, Promise!Init

(* The disk file cache implements SettledFile: everybody who asks for a    *)
(* file while a snapshot is made gets the same answer, which the finished  *)
(* snapshot keeps and nobody can change under its readers (getDiskFile,    *)
(* reloadEntryIfNeeded, SyncMap), for every number of goroutines and every *)
(* set of texts.                                                           *)
THEOREM CacheImplements == Spec => Implements
<1>1. Spec => []Consistent
  BY AlwaysConsistent
<1> QED
  BY <1>1, InitMaps, NextMaps, PTL DEF Spec, Implements, Promise!Spec

----------------------------------------------------------------------------
(* Updates of a snapshot: the inductive invariant for overlays *)

Text == Contents \cup {None}
Events == [open : Text, close : BOOLEAN, watchChanged : BOOLEAN, change : Text, saved : BOOLEAN,
           created : BOOLEAN, deleted : BOOLEAN, panic : BOOLEAN]

(* Events ev, none of them an open, make of a document with overlay o the  *)
(* document e of the editor, and can be applied without a panic.           *)
Leads(ev, o, e) ==
    /\ ev \in Events /\ ~ev.panic /\ ev.open = None
    /\ ev.close => o # None /\ e = None
    /\ ev.close \/ o = None => ev.change = None /\ ~ev.saved /\ e = None
    /\ ~ev.close /\ o # None => e = IF ev.change = None THEN o ELSE ev.change

(* The only event is the open of a document with text e.                   *)
Opens(ev, e) == e # None /\ ev = [NoEvents EXCEPT !.open = e]

Queue(s) == s \in Seq(Change) /\ \A i \in DOMAIN s : s[i].kind # "open"
WatchQueue(s) == s \in Seq(Change) /\ \A i \in DOMAIN s : s[i].kind \in WatchKinds

Typed ==
    /\ disk \in [Paths -> Text] /\ editor \in [Uris -> Text] /\ overlays \in [Paths -> Text]
    /\ Queue(pending) /\ Len(pending) <= MaxPending
    /\ WatchQueue(inflight) /\ Len(inflight) <= MaxInflight
    /\ setting \in Settings

(* A batch s leads from overlays ov to documents ed.                       *)
Follow(s, ov, ed) == \A u \in Uris : Leads(EventsOf(s, u), ov[u], ed[u])

(* What is pending leads from the overlays to the editor.                  *)
IInv == Typed /\ panicked = FALSE /\ Follow(pending, overlays, editor)

----------------------------------------------------------------------------
(* Recursion over a batch *)

(* There is a least number in a set of numbers.                            *)
LEMMA LeastNat ==
    ASSUME NEW T \in SUBSET Nat, T # {}
    PROVE  \E m \in T : \A k \in T : m <= k
<1>1. \E m \in T : \A k \in T : ~(<<k, m>> \in OpToRel(<, Nat))
    BY WFMin, NatLessThanWellFounded
<1>2. \A k, m \in Nat : k < m => <<k, m>> \in OpToRel(<, Nat)
    BY DEF OpToRel
<1>3. PICK m \in T : \A k \in T : ~(k < m)
    BY <1>1, <1>2
<1>4. \A k \in T : m <= k
    BY <1>3, SMT
<1> QED BY <1>4

(* Induction over the numbers up to n.                                     *)
LEMMA UpTo ==
    ASSUME NEW n \in Nat, NEW T \in SUBSET (0..n), 0 \in T, \A k \in 0..n : k + 1 \in 0..n /\ k \in T => k + 1 \in T
    PROVE  T = 0..n
<1> SUFFICES ASSUME T # 0..n PROVE FALSE
    OBVIOUS
<1> DEFINE D == (0..n) \ T
<1>1. D \in SUBSET Nat /\ D # {}
  <2>1. 0..n \subseteq Nat
      BY SMT
  <2> QED BY <2>1
<1>2. PICK m \in D : \A k \in D : m <= k
    BY <1>1, LeastNat
<1> HIDE DEF D
<1>3. m \in 0..n /\ m \notin T
    BY <1>2 DEF D
<1>4. m # 0
    BY <1>3
<1>5. m - 1 \in 0..n /\ (m - 1) + 1 = m /\ ~(m <= m - 1)
    BY <1>3, <1>4, SMT
<1>6. m - 1 \in T
    BY <1>2, <1>5 DEF D
<1> QED BY <1>3, <1>5, <1>6

(* What EventsAfter satisfies.                                             *)
IsAfter(f, s, u, n) == f = [i \in 0..n |-> IF i = 0 THEN NoEvents ELSE ReduceFor(u, f[i - 1], s[i])]

LEMMA EventsExist ==
    ASSUME NEW s, NEW u, NEW n \in Nat
    PROVE  \E f : IsAfter(f, s, u, n)
<1> DEFINE T == {k \in 0..n : \E f : IsAfter(f, s, u, k)}
<1>1. 0 \in T
  <2>1. [i \in 0..0 |-> NoEvents] = [i \in 0..0 |-> IF i = 0 THEN NoEvents ELSE ReduceFor(u, [j \in 0..0 |-> NoEvents][i - 1], s[i])]
    <3>1. \A i \in 0..0 : i = 0
        BY SMT
    <3> QED BY <3>1
  <2>2. IsAfter([i \in 0..0 |-> NoEvents], s, u, 0)
      BY <2>1 DEF IsAfter
  <2>3. 0 \in 0..n
      BY SMT
  <2> QED BY <2>2, <2>3
<1>2. ASSUME NEW k \in 0..n, k + 1 \in 0..n, k \in T PROVE k + 1 \in T
  <2>1. PICK f : IsAfter(f, s, u, k)
      BY <1>2
  <2> DEFINE g == [i \in 0..(k + 1) |-> IF i = k + 1 THEN ReduceFor(u, f[k], s[k + 1]) ELSE f[i]]
  <2>2. ASSUME NEW i \in 0..(k + 1)
        PROVE  g[i] = IF i = 0 THEN NoEvents ELSE ReduceFor(u, g[i - 1], s[i])
    <3>1. CASE i = k + 1
      <4>1. i # 0 /\ i - 1 = k /\ k \in 0..(k + 1) /\ k # k + 1
          BY <3>1, SMT
      <4>2. g[k] = f[k]
          BY <4>1
      <4> QED BY <3>1, <4>1, <4>2
    <3>2. CASE i # k + 1
      <4>1. i \in 0..k
          BY <3>2, SMT
      <4>2. g[i] = f[i]
          BY <3>2
      <4>3. f[i] = IF i = 0 THEN NoEvents ELSE ReduceFor(u, f[i - 1], s[i])
          BY <2>1, <4>1 DEF IsAfter
      <4>4. i # 0 => i - 1 \in 0..(k + 1) /\ i - 1 # k + 1
          BY <4>1, SMT
      <4>5. i # 0 => g[i - 1] = f[i - 1]
          BY <4>4
      <4> QED BY <4>2, <4>3, <4>5
    <3> QED BY <3>1, <3>2
  <2>3. g = [i \in 0..(k + 1) |-> g[i]]
      OBVIOUS
  <2> HIDE DEF g
  <2>4. IsAfter(g, s, u, k + 1)
      BY <2>2, <2>3 DEF IsAfter
  <2> QED BY <1>2, <2>4
<1> HIDE DEF T
<1>3. T \in SUBSET (0..n)
    BY DEF T
<1>4. T = 0..n
    BY <1>1, <1>2, <1>3, UpTo
<1>5. n \in T
  <2>1. n \in 0..n
      BY SMT
  <2> QED BY <1>4, <2>1
<1> QED BY <1>5 DEF T

LEMMA EventsUnfold ==
    ASSUME NEW s, Len(s) \in Nat, NEW u
    PROVE  /\ EventsAfter(s, u)[0] = NoEvents
           /\ \A i \in 0..Len(s) : i # 0 => EventsAfter(s, u)[i] = ReduceFor(u, EventsAfter(s, u)[i - 1], s[i])
<1>1. EventsAfter(s, u) = CHOOSE f : IsAfter(f, s, u, Len(s))
    BY DEF EventsAfter, IsAfter
<1>2. IsAfter(EventsAfter(s, u), s, u, Len(s))
    BY <1>1, EventsExist
<1>3. 0 \in 0..Len(s)
    BY SMT
<1> QED BY <1>2, <1>3 DEF IsAfter

(* One more change.                                                        *)
LEMMA EventsAppend ==
    ASSUME NEW S, NEW s \in Seq(S), NEW c \in S, NEW u
    PROVE  EventsOf(Append(s, c), u) = ReduceFor(u, EventsOf(s, u), c)
<1> DEFINE t == Append(s, c)
           T == {i \in 0..Len(s) : EventsAfter(t, u)[i] = EventsAfter(s, u)[i]}
<1>1. Len(s) \in Nat /\ Len(t) = Len(s) + 1 /\ Len(t) \in Nat
    BY SMT
<1>2. \A i \in 0..Len(s) : i # 0 => t[i] = s[i]
    BY SMT
<1>3. t[Len(s) + 1] = c
    BY SMT
<1> HIDE DEF t
<1>4. 0 \in T
  <2>1. 0 \in 0..Len(s)
      BY <1>1, SMT
  <2>2. EventsAfter(t, u)[0] = NoEvents
      BY <1>1, EventsUnfold
  <2>3. EventsAfter(s, u)[0] = NoEvents
      BY <1>1, EventsUnfold
  <2> QED BY <2>1, <2>2, <2>3
<1>5. ASSUME NEW k \in 0..Len(s), k + 1 \in 0..Len(s), k \in T PROVE k + 1 \in T
  <2>1. k + 1 # 0 /\ (k + 1) - 1 = k /\ k + 1 \in 0..Len(t)
      BY <1>1, <1>5, SMT
  <2>2. EventsAfter(t, u)[k + 1] = ReduceFor(u, EventsAfter(t, u)[(k + 1) - 1], t[k + 1])
      BY <1>1, <2>1, EventsUnfold
  <2>3. EventsAfter(s, u)[k + 1] = ReduceFor(u, EventsAfter(s, u)[(k + 1) - 1], s[k + 1])
      BY <1>1, <1>5, <2>1, EventsUnfold
  <2>4. EventsAfter(t, u)[k] = EventsAfter(s, u)[k]
      BY <1>5
  <2>5. t[k + 1] = s[k + 1]
      BY <1>2, <1>5, <2>1
  <2> QED BY <1>5, <2>1, <2>2, <2>3, <2>4, <2>5
<1> HIDE DEF T
<1>6. T = 0..Len(s)
  <2>1. T \in SUBSET (0..Len(s))
      BY DEF T
  <2> QED BY <1>1, <1>4, <1>5, <2>1, UpTo
<1>7. EventsAfter(t, u)[Len(s)] = EventsOf(s, u)
  <2>1. Len(s) \in 0..Len(s)
      BY <1>1, SMT
  <2> QED BY <1>6, <2>1 DEF T, EventsOf
<1>8. EventsAfter(t, u)[Len(s) + 1] = ReduceFor(u, EventsAfter(t, u)[(Len(s) + 1) - 1], t[Len(s) + 1])
  <2>1. Len(s) + 1 \in 0..Len(t) /\ Len(s) + 1 # 0
      BY <1>1, SMT
  <2> QED BY <1>1, <2>1, EventsUnfold
<1>9. (Len(s) + 1) - 1 = Len(s)
    BY <1>1, SMT
<1>10. EventsOf(t, u) = EventsAfter(t, u)[Len(s) + 1]
    BY <1>1 DEF EventsOf
<1>11. EventsOf(t, u) = ReduceFor(u, EventsOf(s, u), c)
    BY <1>3, <1>7, <1>8, <1>9, <1>10
<1> QED BY <1>11 DEF t

LEMMA EventsEmpty ==
    ASSUME NEW u
    PROVE  EventsOf(<<>>, u) = NoEvents
<1>1. Len(<<>>) = 0 /\ Len(<<>>) \in Nat
    BY SMT
<1> QED BY <1>1, EventsUnfold DEF EventsOf

(* A document the batch is not about.                                      *)
LEMMA EventsNone ==
    ASSUME NEW s, Len(s) \in Nat, DOMAIN s = 1..Len(s), NEW u, u \notin Changed(s)
    PROVE  EventsOf(s, u) = NoEvents
<1> DEFINE T == {i \in 0..Len(s) : EventsAfter(s, u)[i] = NoEvents}
<1>1. 0 \in T
  <2>1. 0 \in 0..Len(s)
      BY SMT
  <2> QED BY <2>1, EventsUnfold
<1>2. ASSUME NEW k \in 0..Len(s), k + 1 \in 0..Len(s), k \in T PROVE k + 1 \in T
  <2>1. k + 1 # 0 /\ (k + 1) - 1 = k /\ k + 1 \in DOMAIN s
      BY <1>2, SMT
  <2>2. EventsAfter(s, u)[k + 1] = ReduceFor(u, EventsAfter(s, u)[(k + 1) - 1], s[k + 1])
      BY <1>2, <2>1, EventsUnfold
  <2>3. s[k + 1].uri # u
      BY <2>1 DEF Changed
  <2> QED BY <1>2, <2>1, <2>2, <2>3 DEF ReduceFor
<1> HIDE DEF T
<1>3. T = 0..Len(s)
  <2>1. T \in SUBSET (0..Len(s))
      BY DEF T
  <2> QED BY <1>1, <1>2, <2>1, UpTo
<1>4. Len(s) \in 0..Len(s)
    BY SMT
<1> QED BY <1>3, <1>4 DEF T, EventsOf

----------------------------------------------------------------------------
(* Reducing one change *)

LEMMA LeadsNothing ==
    ASSUME NEW o \in Text
    PROVE  Leads(NoEvents, o, o)
BY SMT DEF Leads, Events, NoEvents, Text

(* What the reductions leave alone.                                        *)
SameDocument(new, ev) == new.open = ev.open /\ new.close = ev.close /\ new.change = ev.change /\ new.panic = ev.panic

LEMMA SetField ==
    ASSUME NEW ev \in Events, NEW b \in BOOLEAN, NEW c \in Text
    PROVE  /\ [ev EXCEPT !.close = b] \in Events /\ [ev EXCEPT !.watchChanged = b] \in Events
           /\ [ev EXCEPT !.saved = b] \in Events /\ [ev EXCEPT !.created = b] \in Events
           /\ [ev EXCEPT !.deleted = b] \in Events /\ [ev EXCEPT !.change = c] \in Events
<1>1. [ev EXCEPT !.close = b] \in Events
    BY SMT DEF Events
<1>2. [ev EXCEPT !.watchChanged = b] \in Events
    BY SMT DEF Events
<1>3. [ev EXCEPT !.saved = b] \in Events
    BY SMT DEF Events
<1>4. [ev EXCEPT !.created = b] \in Events
    BY SMT DEF Events
<1>5. [ev EXCEPT !.deleted = b] \in Events
    BY SMT DEF Events
<1>6. [ev EXCEPT !.change = c] \in Events
    BY SMT DEF Events
<1> QED BY <1>1, <1>2, <1>3, <1>4, <1>5, <1>6

LEMMA WatchFields ==
    ASSUME NEW ev \in Events, NEW k \in WatchKinds
    PROVE  /\ OnWatch(ev, k) \in Events /\ SameDocument(OnWatch(ev, k), ev)
           /\ OnWatch(ev, k).saved = ev.saved \/ OnWatch(ev, k).saved = FALSE
<1> DEFINE Fits(n) == n \in Events /\ SameDocument(n, ev) /\ (n.saved = ev.saved \/ n.saved = FALSE)
<1>t. None \in Text
    BY DEF Text
<1>0. Fits(ev)
    BY DEF SameDocument
<1>1. CASE k = "create"
  <2>1. Fits([ev EXCEPT !.deleted = FALSE, !.watchChanged = TRUE])
    <3>1. [ev EXCEPT !.deleted = FALSE, !.watchChanged = TRUE] \in Events
        BY <1>t, SetField
    <3>2. LET n == [ev EXCEPT !.deleted = FALSE, !.watchChanged = TRUE] IN SameDocument(n, ev) /\ n.saved = ev.saved
        BY SMT DEF Events, SameDocument
    <3> QED BY <3>1, <3>2
  <2>2. Fits([ev EXCEPT !.created = TRUE])
    <3>1. [ev EXCEPT !.created = TRUE] \in Events
        BY <1>t, SetField
    <3>2. LET n == [ev EXCEPT !.created = TRUE] IN SameDocument(n, ev) /\ n.saved = ev.saved
        BY SMT DEF Events, SameDocument
    <3> QED BY <3>1, <3>2
  <2> HIDE DEF Fits
  <2>3. Fits(OnWatch(ev, k))
      BY <1>1, <2>1, <2>2, SMT DEF OnWatch
  <2> QED BY <2>3 DEF Fits
<1>2. CASE k = "changed"
  <2>1. Fits([ev EXCEPT !.watchChanged = TRUE, !.saved = FALSE])
    <3>1. [ev EXCEPT !.watchChanged = TRUE, !.saved = FALSE] \in Events
        BY <1>t, SetField
    <3>2. LET n == [ev EXCEPT !.watchChanged = TRUE, !.saved = FALSE] IN SameDocument(n, ev) /\ n.saved = FALSE
        BY SMT DEF Events, SameDocument
    <3> QED BY <3>1, <3>2
  <2> HIDE DEF Fits
  <2>2. Fits(OnWatch(ev, k))
      BY <1>0, <1>2, <2>1, SMT DEF OnWatch
  <2> QED BY <2>2 DEF Fits
<1>3. CASE k = "delete"
  <2>1. ASSUME NEW d \in BOOLEAN
        PROVE  Fits([ev EXCEPT !.watchChanged = FALSE, !.saved = FALSE, !.created = FALSE, !.deleted = d])
    <3>1. [ev EXCEPT !.watchChanged = FALSE, !.saved = FALSE, !.created = FALSE, !.deleted = d] \in Events
        BY <1>t, SetField
    <3>2. LET n == [ev EXCEPT !.watchChanged = FALSE, !.saved = FALSE, !.created = FALSE, !.deleted = d]
          IN  SameDocument(n, ev) /\ n.saved = FALSE
        BY SMT DEF Events, SameDocument
    <3> QED BY <3>1, <3>2
  <2> HIDE DEF Fits
  <2>2. (ev.deleted \/ ~ev.created) \in BOOLEAN
      OBVIOUS
  <2>3. Fits(OnWatch(ev, k))
    <3>1. OnWatch(ev, k) = [ev EXCEPT !.watchChanged = FALSE, !.saved = FALSE, !.created = FALSE,
                                      !.deleted = ev.deleted \/ ~ev.created]
        BY <1>3, SMT DEF OnWatch
    <3> QED BY <2>1, <2>2, <3>1
  <2> QED BY <2>3 DEF Fits
<1> QED BY <1>1, <1>2, <1>3 DEF WatchKinds

LEMMA EditFields ==
    ASSUME NEW ev \in Events, NEW c \in Text
    PROVE  /\ OnChange(ev, c) \in Events /\ OnChange(ev, c).open = ev.open /\ OnChange(ev, c).close = ev.close
           /\ OnChange(ev, c).change = c /\ OnChange(ev, c).panic = ev.panic /\ OnChange(ev, c).saved = FALSE
           /\ OnClose(ev) \in Events /\ OnClose(ev).open = ev.open /\ OnClose(ev).close = TRUE
           /\ OnClose(ev).change = None /\ OnClose(ev).panic = ev.panic /\ OnClose(ev).saved = FALSE
           /\ [ev EXCEPT !.saved = TRUE] \in Events /\ SameDocument([ev EXCEPT !.saved = TRUE], ev)
<1>1. OnChange(ev, c) \in Events
    BY SetField DEF OnChange
<1>2. /\ OnChange(ev, c).open = ev.open /\ OnChange(ev, c).close = ev.close
      /\ OnChange(ev, c).change = c /\ OnChange(ev, c).panic = ev.panic /\ OnChange(ev, c).saved = FALSE
    BY SMT DEF Events, OnChange
<1>3. OnClose(ev) \in Events
  <2>1. None \in Text
      BY DEF Text
  <2> QED BY <2>1, SetField DEF OnClose
<1>4. /\ OnClose(ev).open = ev.open /\ OnClose(ev).close = TRUE
      /\ OnClose(ev).change = None /\ OnClose(ev).panic = ev.panic /\ OnClose(ev).saved = FALSE
    BY SMT DEF Events, OnClose
<1>5. [ev EXCEPT !.saved = TRUE] \in Events
    BY SetField
<1>6. SameDocument([ev EXCEPT !.saved = TRUE], ev)
    BY SMT DEF Events, SameDocument
<1> QED BY <1>1, <1>2, <1>3, <1>4, <1>5, <1>6

LEMMA LeadsWatch ==
    ASSUME NEW ev, NEW o, NEW e, Leads(ev, o, e), NEW k \in WatchKinds
    PROVE  Leads(OnWatch(ev, k), o, e)
<1>1. ev \in Events
    BY DEF Leads
<1>2. PICK n : n = OnWatch(ev, k)
    OBVIOUS
<1>3. n \in Events /\ SameDocument(n, ev) /\ (n.saved = ev.saved \/ n.saved = FALSE)
    BY <1>1, <1>2, WatchFields
<1>4. Leads(n, o, e)
    BY <1>3 DEF Leads, SameDocument
<1> QED BY <1>2, <1>4

LEMMA LeadsChange ==
    ASSUME NEW ev, NEW o, NEW e, Leads(ev, o, e), e # None, NEW c \in Contents, None \notin Contents
    PROVE  Leads(OnChange(ev, c), o, c)
<1>1. ev \in Events /\ c \in Text /\ c # None
    BY DEF Leads, Text
<1>2. PICK n : n = OnChange(ev, c)
    OBVIOUS
<1>3. n \in Events /\ n.open = ev.open /\ n.close = ev.close /\ n.change = c /\ n.panic = ev.panic /\ n.saved = FALSE
    BY <1>1, <1>2, EditFields
<1>4. ~ev.close /\ o # None
    BY DEF Leads
<1>5. Leads(n, o, c)
    BY <1>1, <1>3, <1>4 DEF Leads
<1> QED BY <1>2, <1>5

LEMMA LeadsClose ==
    ASSUME NEW ev, NEW o, NEW e, Leads(ev, o, e), e # None
    PROVE  Leads(OnClose(ev), o, None)
<1>1. ev \in Events /\ None \in Text
    BY DEF Leads, Text
<1>2. PICK n : n = OnClose(ev)
    OBVIOUS
<1>3. n \in Events /\ n.open = ev.open /\ n.close = TRUE /\ n.change = None /\ n.panic = ev.panic /\ n.saved = FALSE
    BY <1>1, <1>2, EditFields
<1>4. ~ev.close /\ o # None
    BY DEF Leads
<1>5. Leads(n, o, None)
    BY <1>1, <1>3, <1>4 DEF Leads
<1> QED BY <1>2, <1>5

LEMMA LeadsSave ==
    ASSUME NEW ev, NEW o, NEW e, Leads(ev, o, e), e # None
    PROVE  Leads([ev EXCEPT !.saved = TRUE], o, e)
<1>1. ev \in Events /\ None \in Text
    BY DEF Leads, Text
<1>2. PICK n : n = [ev EXCEPT !.saved = TRUE]
    OBVIOUS
<1>3. n \in Events /\ SameDocument(n, ev)
    BY <1>1, <1>2, EditFields
<1>4. ~ev.close /\ o # None
    BY DEF Leads
<1>5. Leads(n, o, e)
    BY <1>1, <1>3, <1>4 DEF Leads, SameDocument
<1> QED BY <1>2, <1>5

(* What one change of a client does to the events of its document.         *)
LEMMA ReduceSteps ==
    ASSUME NEW ev, NEW o, NEW e, Leads(ev, o, e), NEW c, OverlayAssumption
    PROVE  /\ c.kind \in WatchKinds => Leads(Reduce(ev, c), o, e)
           /\ c.kind = "change" /\ e # None /\ c.content \in Contents => Leads(Reduce(ev, c), o, c.content)
           /\ c.kind = "close" /\ e # None => Leads(Reduce(ev, c), o, None)
           /\ c.kind = "save" /\ e # None => Leads(Reduce(ev, c), o, e)
           /\ c.kind = "open" /\ c.content \in Contents => Opens(Reduce(ev, c), c.content)
<1>0. ev.open = None /\ (e # None => ~ev.close) /\ None \notin Contents
    BY DEF Leads, OverlayAssumption
<1>1. c.kind \in WatchKinds => Leads(Reduce(ev, c), o, e)
  <2> SUFFICES ASSUME c.kind \in WatchKinds PROVE Leads(Reduce(ev, c), o, e)
      OBVIOUS
  <2>1. c.kind \notin {"open", "close", "change", "save"}
      BY SMT DEF WatchKinds
  <2>2. Reduce(ev, c) = OnWatch(ev, c.kind)
      BY <1>0, <2>1, SMT DEF Reduce
  <2>3. Leads(OnWatch(ev, c.kind), o, e)
      BY LeadsWatch
  <2> QED BY <2>2, <2>3
<1>2. c.kind = "change" /\ e # None /\ c.content \in Contents => Leads(Reduce(ev, c), o, c.content)
  <2> SUFFICES ASSUME c.kind = "change", e # None, c.content \in Contents PROVE Leads(Reduce(ev, c), o, c.content)
      OBVIOUS
  <2>1. Reduce(ev, c) = OnChange(ev, c.content)
      BY <1>0, SMT DEF Reduce, WatchKinds
  <2>2. Leads(OnChange(ev, c.content), o, c.content)
      BY <1>0, LeadsChange
  <2> QED BY <2>1, <2>2
<1>3. c.kind = "close" /\ e # None => Leads(Reduce(ev, c), o, None)
  <2> SUFFICES ASSUME c.kind = "close", e # None PROVE Leads(Reduce(ev, c), o, None)
      OBVIOUS
  <2>1. Reduce(ev, c) = OnClose(ev)
      BY <1>0, SMT DEF Reduce, WatchKinds
  <2>2. Leads(OnClose(ev), o, None)
      BY LeadsClose
  <2> QED BY <2>1, <2>2
<1>4. c.kind = "save" /\ e # None => Leads(Reduce(ev, c), o, e)
  <2> SUFFICES ASSUME c.kind = "save", e # None PROVE Leads(Reduce(ev, c), o, e)
      OBVIOUS
  <2>1. Reduce(ev, c) = [ev EXCEPT !.saved = TRUE]
      BY <1>0, SMT DEF Reduce, WatchKinds
  <2>2. Leads([ev EXCEPT !.saved = TRUE], o, e)
      BY LeadsSave
  <2> QED BY <2>1, <2>2
<1>5. c.kind = "open" /\ c.content \in Contents => Opens(Reduce(ev, c), c.content)
  <2> SUFFICES ASSUME c.kind = "open", c.content \in Contents PROVE Opens(Reduce(ev, c), c.content)
      OBVIOUS
  <2>1. Reduce(ev, c) = [NoEvents EXCEPT !.open = c.content]
      BY <1>0, SMT DEF Reduce, WatchKinds
  <2> QED BY <1>0, <2>1 DEF Opens
<1> QED BY <1>1, <1>2, <1>3, <1>4, <1>5

----------------------------------------------------------------------------
(* Steps of the client *)

LEMMA FollowAppend ==
    ASSUME NEW s \in Seq(Change), NEW c \in Change, NEW ov, NEW ed, NEW new, Follow(s, ov, ed),
           \A u \in Uris : u # c.uri => new[u] = ed[u],
           Leads(Reduce(EventsOf(s, c.uri), c), ov[c.uri], new[c.uri])
    PROVE  Follow(Append(s, c), ov, new)
<1> SUFFICES ASSUME NEW u \in Uris PROVE Leads(EventsOf(Append(s, c), u), ov[u], new[u])
    BY DEF Follow
<1>1. EventsOf(Append(s, c), u) = ReduceFor(u, EventsOf(s, u), c)
    BY EventsAppend
<1>2. CASE u = c.uri
    BY <1>1, <1>2 DEF ReduceFor
<1>3. CASE u # c.uri
  <2>1. EventsOf(Append(s, c), u) = EventsOf(s, u)
      BY <1>1, <1>3 DEF ReduceFor
  <2>2. Leads(EventsOf(s, u), ov[u], ed[u])
      BY DEF Follow
  <2> QED BY <1>3, <2>1, <2>2
<1> QED BY <1>2, <1>3

LEMMA ChangeFields ==
    ASSUME NEW c \in Change
    PROVE  c.kind \in Kinds /\ c.uri \in Uris /\ c.content \in Text
BY SMT DEF Change, Text

LEMMA FollowWatch ==
    ASSUME NEW s \in Seq(Change), NEW c \in Change, c.kind \in WatchKinds, NEW ov, NEW ed, Follow(s, ov, ed)
    PROVE  Follow(Append(s, c), ov, ed)
<1>1. c.uri \in Uris
    BY ChangeFields
<1>2. Leads(EventsOf(s, c.uri), ov[c.uri], ed[c.uri])
    BY <1>1 DEF Follow
<1>3. Leads(Reduce(EventsOf(s, c.uri), c), ov[c.uri], ed[c.uri])
    BY <1>2, ReduceSteps, OverlayAssumption
<1> QED BY <1>3, FollowAppend

LEMMA QueueAppend ==
    ASSUME NEW s, NEW c \in Change
    PROVE  /\ Queue(s) /\ c.kind # "open" => Queue(Append(s, c))
           /\ WatchQueue(s) /\ c.kind \in WatchKinds => WatchQueue(Append(s, c))
<1>1. ASSUME s \in Seq(Change)
      PROVE  /\ Append(s, c) \in Seq(Change) /\ DOMAIN Append(s, c) = 1..(Len(s) + 1)
             /\ \A i \in DOMAIN Append(s, c) : (i \in DOMAIN s /\ Append(s, c)[i] = s[i]) \/ Append(s, c)[i] = c
    BY <1>1, SMT
<1>2. ASSUME Queue(s), c.kind # "open" PROVE Queue(Append(s, c))
  <2>1. s \in Seq(Change) /\ \A i \in DOMAIN s : s[i].kind # "open"
      BY <1>2 DEF Queue
  <2>2. ASSUME NEW i \in DOMAIN Append(s, c) PROVE Append(s, c)[i].kind # "open"
    <3>1. (i \in DOMAIN s /\ Append(s, c)[i] = s[i]) \/ Append(s, c)[i] = c
        BY <1>1, <2>1
    <3> QED BY <1>2, <2>1, <3>1
  <2>3. Append(s, c) \in Seq(Change)
      BY <1>1, <2>1
  <2> QED BY <2>2, <2>3 DEF Queue
<1>3. ASSUME WatchQueue(s), c.kind \in WatchKinds PROVE WatchQueue(Append(s, c))
  <2>1. s \in Seq(Change) /\ \A i \in DOMAIN s : s[i].kind \in WatchKinds
      BY <1>3 DEF WatchQueue
  <2>2. ASSUME NEW i \in DOMAIN Append(s, c) PROVE Append(s, c)[i].kind \in WatchKinds
    <3>1. (i \in DOMAIN s /\ Append(s, c)[i] = s[i]) \/ Append(s, c)[i] = c
        BY <1>1, <2>1
    <3> QED BY <1>3, <2>1, <3>1
  <2>3. Append(s, c) \in Seq(Change)
      BY <1>1, <2>1
  <2> QED BY <2>2, <2>3 DEF WatchQueue
<1> QED BY <1>2, <1>3

LEMMA WatchQueueTail ==
    ASSUME NEW s, WatchQueue(s), s # <<>>
    PROVE  /\ WatchQueue(Tail(s)) /\ Head(s) \in Change /\ Head(s).kind \in WatchKinds /\ Len(Tail(s)) <= Len(s)
<1>1. s \in Seq(Change) /\ \A i \in DOMAIN s : s[i].kind \in WatchKinds
    BY DEF WatchQueue
<1>2. /\ Tail(s) \in Seq(Change) /\ Head(s) \in Change /\ 1 \in DOMAIN s /\ Head(s) = s[1] /\ Len(Tail(s)) <= Len(s)
      /\ \A i \in DOMAIN Tail(s) : i + 1 \in DOMAIN s /\ Tail(s)[i] = s[i + 1]
    BY <1>1, SMT
<1>3. ASSUME NEW i \in DOMAIN Tail(s) PROVE Tail(s)[i].kind \in WatchKinds
    BY <1>1, <1>2
<1> QED BY <1>1, <1>2, <1>3 DEF WatchQueue

(* Where the reported changes go.                                          *)
LEMMA ReportEdit ==
    ASSUME pending \in Seq(Change), inflight \in Seq(Change), NEW e \in Change, Report(<<e>>, <<>>)
    PROVE  pending' = Append(pending, e) /\ inflight' = inflight /\ Len(pending') <= MaxPending
BY SMT DEF Report, Room

LEMMA ReportWatch ==
    ASSUME pending \in Seq(Change), inflight \in Seq(Change), NEW w \in Change, Report(<<>>, <<w>>)
    PROVE  \/ pending' = Append(pending, w) /\ inflight' = inflight /\ Len(pending') <= MaxPending
           \/ pending' = pending /\ inflight' = Append(inflight, w) /\ Len(inflight') <= MaxInflight
BY SMT DEF Report, Room

LEMMA ReportBoth ==
    ASSUME pending \in Seq(Change), inflight \in Seq(Change), NEW e \in Change, NEW w \in Change,
           Report(<<e>>, <<w>>), MaxPending \in Nat
    PROVE  \/ /\ pending' = Append(Append(pending, e), w) /\ inflight' = inflight
              /\ Len(pending') <= MaxPending
           \/ /\ pending' = Append(pending, e) /\ Len(pending') <= MaxPending
              /\ inflight' = Append(inflight, w) /\ Len(inflight') <= MaxInflight
<1>1. CASE Delayed
  <2>1. /\ pending' = pending \o <<e>> /\ inflight' = inflight \o <<w>>
        /\ Len(pending) + Len(<<e>>) <= MaxPending /\ Len(inflight) + Len(<<w>>) <= MaxInflight
      BY <1>1 DEF Report, Room
  <2>2. pending' = Append(pending, e) /\ Len(pending') <= MaxPending
      BY <2>1, SMT
  <2>3. inflight' = Append(inflight, w) /\ Len(inflight') <= MaxInflight
      BY <2>1, SMT
  <2> QED BY <2>2, <2>3
<1>2. CASE ~Delayed
  <2>1. pending' = pending \o <<e>> \o <<w>> /\ inflight' = inflight /\ Len(pending) + (Len(<<e>>) + Len(<<w>>)) <= MaxPending
      BY <1>2 DEF Report, Room
  <2>2. \A s \in Seq(Change) : \A c \in Change :
            s \o <<c>> = Append(s, c) /\ Append(s, c) \in Seq(Change) /\ Len(Append(s, c)) = Len(s) + 1
      BY SMT
  <2>3. pending' = Append(Append(pending, e), w)
      BY <2>1, <2>2
  <2>4. Append(pending, e) \in Seq(Change)
      BY <2>2
  <2>5. Len(pending') = Len(Append(pending, e)) + 1 /\ Len(Append(pending, e)) = Len(pending) + 1
      BY <2>2, <2>3, <2>4
  <2>6. Len(<<e>>) = 1 /\ Len(<<w>>) = 1 /\ Len(pending) \in Nat
      BY SMT
  <2>7. MaxPending \in Nat => Len(pending') <= MaxPending
      BY <2>1, <2>5, <2>6, SMT
  <2> QED BY <2>1, <2>3, <2>7
<1> QED BY <1>1, <1>2

LEMMA EventIs ==
    ASSUME NEW u \in Uris, NEW k \in Kinds
    PROVE  Event(k, u) \in Change /\ Event(k, u).kind = k /\ Event(k, u).uri = u
BY SMT DEF Event, Change

LEMMA WatchEventIs ==
    ASSUME NEW u \in Uris, NEW p
    PROVE  WatchEvent(p, u) \in Change /\ WatchEvent(p, u).kind \in WatchKinds /\ WatchEvent(p, u).uri = u
<1>1. {"create", "changed"} \subseteq Kinds /\ {"create", "changed"} \subseteq WatchKinds
    BY DEF Kinds, WatchKinds
<1>2. PICK k \in {"create", "changed"} : WatchEvent(p, u) = Event(k, u)
    BY DEF WatchEvent
<1> QED BY <1>1, <1>2, EventIs

LEMMA SettingFacts ==
    ASSUME setting \in Settings
    PROVE  MaxPending \in Nat /\ Touched \subseteq Uris /\ MaxInflight \in Nat
BY OverlayAssumption DEF MaxPending, Touched

(* What the queues may become.                                             *)
Queued ==
    /\ Queue(pending') /\ Len(pending') <= MaxPending
    /\ WatchQueue(inflight') /\ Len(inflight') <= MaxInflight
    /\ Follow(pending', overlays, editor')

LEMMA DidChangeFileQueues ==
    ASSUME IInv, NEW u \in Uris, NEW c \in Contents, DidChangeFile(u, c)
    PROVE  Queued
<1>0. "change" \in Kinds
    BY DEF Kinds
<1>1. PICK e : /\ e = Edit("change", u, c) /\ e \in Change /\ e.kind = "change" /\ e.uri = u
               /\ e.content = c
  <2>1. /\ Edit("change", u, c) \in Change /\ Edit("change", u, c).kind = "change"
        /\ Edit("change", u, c).uri = u /\ Edit("change", u, c).content = c
      BY <1>0, SMT DEF Edit, Change
  <2> QED BY <2>1
<1>2. Report(<<e>>, <<>>) /\ editor[u] # None /\ editor' = [editor EXCEPT ![u] = c]
    BY <1>1 DEF DidChangeFile
<1>3. pending' = Append(pending, e) /\ inflight' = inflight /\ Len(pending') <= MaxPending
    BY <1>1, <1>2, ReportEdit DEF IInv, Typed, Queue, WatchQueue
<1>4. Queue(pending')
  <2>1. "change" # "open"
      OBVIOUS
  <2>2. Queue(Append(pending, e))
      BY <1>1, <2>1, QueueAppend DEF IInv, Typed
  <2> QED BY <1>3, <2>2
<1>5. Follow(pending', overlays, editor')
  <2>1. Leads(EventsOf(pending, u), overlays[u], editor[u])
      BY DEF IInv, Follow
  <2>2. Leads(Reduce(EventsOf(pending, u), e), overlays[u], e.content)
      BY <1>1, <1>2, <2>1, ReduceSteps, OverlayAssumption
  <2>3. editor'[u] = c /\ \A v \in Uris : v # u => editor'[v] = editor[v]
      BY <1>2 DEF IInv, Typed
  <2>4. Follow(Append(pending, e), overlays, editor')
    <3>1. pending \in Seq(Change) /\ Follow(pending, overlays, editor)
        BY DEF IInv, Typed, Queue
    <3>2. Leads(Reduce(EventsOf(pending, e.uri), e), overlays[e.uri], editor'[e.uri])
        BY <1>1, <2>2, <2>3
    <3>3. \A v \in Uris : v # e.uri => editor'[v] = editor[v]
        BY <1>1, <2>3
    <3> QED BY <1>1, <3>1, <3>2, <3>3, FollowAppend
  <2> QED BY <1>3, <2>4
<1> QED BY <1>3, <1>4, <1>5 DEF Queued, IInv, Typed

LEMMA DidCloseFileQueues ==
    ASSUME IInv, NEW u \in Uris, DidCloseFile(u)
    PROVE  Queued
<1> DEFINE e == Event("close", u)
<1>1. e \in Change /\ e.kind = "close" /\ e.uri = u
    BY EventIs DEF Kinds
<1> HIDE DEF e
<1>2. Report(<<e>>, <<>>) /\ editor[u] # None /\ editor' = [editor EXCEPT ![u] = None]
    BY DEF DidCloseFile, e
<1>3. pending' = Append(pending, e) /\ inflight' = inflight /\ Len(pending') <= MaxPending
    BY <1>1, <1>2, ReportEdit DEF IInv, Typed, Queue, WatchQueue
<1>4. Queue(pending')
  <2>1. "close" # "open"
      OBVIOUS
  <2>2. Queue(Append(pending, e))
      BY <1>1, <2>1, QueueAppend DEF IInv, Typed
  <2> QED BY <1>3, <2>2
<1>5. Follow(pending', overlays, editor')
  <2>1. Leads(EventsOf(pending, u), overlays[u], editor[u])
      BY DEF IInv, Follow
  <2>2. Leads(Reduce(EventsOf(pending, u), e), overlays[u], None)
      BY <1>1, <1>2, <2>1, ReduceSteps, OverlayAssumption
  <2>3. editor'[u] = None /\ \A v \in Uris : v # u => editor'[v] = editor[v]
      BY <1>2 DEF IInv, Typed
  <2>4. Follow(Append(pending, e), overlays, editor')
    <3>1. pending \in Seq(Change) /\ Follow(pending, overlays, editor)
        BY DEF IInv, Typed, Queue
    <3>2. Leads(Reduce(EventsOf(pending, e.uri), e), overlays[e.uri], editor'[e.uri])
        BY <1>1, <2>2, <2>3
    <3>3. \A v \in Uris : v # e.uri => editor'[v] = editor[v]
        BY <1>1, <2>3
    <3> QED BY <1>1, <3>1, <3>2, <3>3, FollowAppend
  <2> QED BY <1>3, <2>4
<1> QED BY <1>3, <1>4, <1>5 DEF Queued, IInv, Typed

(* A watch event reaches one of the queues, for documents that stay.       *)
LEMMA WatchQueues ==
    ASSUME IInv, editor' = editor, NEW w \in Change, w.kind \in WatchKinds, Report(<<>>, <<w>>)
    PROVE  Queued
<1>0. pending \in Seq(Change) /\ inflight \in Seq(Change) /\ Follow(pending, overlays, editor)
    BY DEF IInv, Typed, Queue, WatchQueue
<1>1. CASE pending' = Append(pending, w) /\ inflight' = inflight /\ Len(pending') <= MaxPending
  <2>1. w.kind # "open"
      BY DEF WatchKinds
  <2>2. Queue(Append(pending, w))
      BY <2>1, QueueAppend DEF IInv, Typed
  <2>3. Follow(Append(pending, w), overlays, editor)
      BY <1>0, FollowWatch
  <2> QED BY <1>1, <2>2, <2>3 DEF Queued, IInv, Typed
<1>2. CASE pending' = pending /\ inflight' = Append(inflight, w) /\ Len(inflight') <= MaxInflight
  <2>1. WatchQueue(Append(inflight, w))
      BY QueueAppend DEF IInv, Typed
  <2> QED BY <1>2, <2>1 DEF Queued, IInv, Typed
<1> QED BY <1>0, <1>1, <1>2, ReportWatch

LEMMA DidSaveFileQueues ==
    ASSUME IInv, NEW u \in Uris, DidSaveFile(u)
    PROVE  Queued
<1> DEFINE e == Event("save", u)
           w == WatchEvent(PathOf[u], u)
<1>1. e \in Change /\ e.kind = "save" /\ e.uri = u
    BY EventIs DEF Kinds
<1>2. w \in Change /\ w.kind \in WatchKinds /\ w.kind # "open"
    BY WatchEventIs DEF WatchKinds
<1> HIDE DEF e, w
<1>3. Report(<<e>>, <<w>>) /\ editor[u] # None /\ editor' = editor
    BY DEF DidSaveFile, e, w
<1>4. pending \in Seq(Change) /\ inflight \in Seq(Change) /\ Follow(pending, overlays, editor) /\ MaxPending \in Nat
    BY SettingFacts DEF IInv, Typed, Queue, WatchQueue
<1>5. Queue(Append(pending, e))
  <2>1. "save" # "open"
      OBVIOUS
  <2> QED BY <1>1, <2>1, QueueAppend DEF IInv, Typed
<1>6. Follow(Append(pending, e), overlays, editor)
  <2>1. Leads(EventsOf(pending, u), overlays[u], editor[u])
      BY DEF IInv, Follow
  <2>2. Leads(Reduce(EventsOf(pending, u), e), overlays[u], editor[u])
      BY <1>1, <1>3, <2>1, ReduceSteps, OverlayAssumption
  <2>3. Leads(Reduce(EventsOf(pending, e.uri), e), overlays[e.uri], editor[e.uri])
      BY <1>1, <2>2
  <2> QED BY <1>1, <1>4, <2>3, FollowAppend
<1>7. CASE pending' = Append(Append(pending, e), w) /\ inflight' = inflight /\ Len(pending') <= MaxPending
  <2>1. Queue(Append(Append(pending, e), w))
      BY <1>2, <1>5, QueueAppend
  <2>2. Append(pending, e) \in Seq(Change)
      BY <1>5 DEF Queue
  <2>3. Follow(Append(Append(pending, e), w), overlays, editor)
      BY <1>2, <1>6, <2>2, FollowWatch
  <2> QED BY <1>3, <1>7, <2>1, <2>3 DEF Queued, IInv, Typed
<1>8. CASE /\ pending' = Append(pending, e) /\ Len(pending') <= MaxPending
           /\ inflight' = Append(inflight, w) /\ Len(inflight') <= MaxInflight
  <2>1. WatchQueue(Append(inflight, w))
      BY <1>2, QueueAppend DEF IInv, Typed
  <2> QED BY <1>3, <1>5, <1>6, <1>8, <2>1 DEF Queued
<1> QED BY <1>1, <1>2, <1>3, <1>4, <1>7, <1>8, ReportBoth

LEMMA ArrivalQueues ==
    ASSUME IInv, DidChangeWatchedFiles
    PROVE  Queued
<1> DEFINE w == Head(inflight)
<1>1. pending \in Seq(Change) /\ Follow(pending, overlays, editor) /\ WatchQueue(inflight) /\ MaxPending \in Nat /\ MaxInflight \in Nat
    BY SettingFacts DEF IInv, Typed, Queue
<1>2. pending' = Append(pending, w) /\ inflight' = Tail(inflight) /\ inflight # <<>> /\ Room(1) /\ editor' = editor
    BY DEF DidChangeWatchedFiles
<1>3. w \in Change /\ w.kind \in WatchKinds /\ w.kind # "open" /\ WatchQueue(Tail(inflight)) /\ Len(Tail(inflight)) <= Len(inflight)
    BY <1>1, <1>2, WatchQueueTail DEF WatchKinds
<1> HIDE DEF w
<1>4. Queue(Append(pending, w)) /\ Follow(Append(pending, w), overlays, editor)
    BY <1>1, <1>3, QueueAppend, FollowWatch DEF IInv, Typed
<1>5. Len(Append(pending, w)) <= MaxPending
    BY <1>1, <1>2, <1>3, SMT DEF Room
<1>6. Len(Tail(inflight)) <= MaxInflight
  <2>1. Len(inflight) <= MaxInflight /\ inflight \in Seq(Change) /\ Tail(inflight) \in Seq(Change)
      BY <1>1, <1>3 DEF IInv, Typed, WatchQueue
  <2>2. Len(inflight) \in Nat /\ Len(Tail(inflight)) \in Nat
      BY <2>1, SMT
  <2> QED BY <1>1, <1>3, <2>1, <2>2, SMT
<1> QED BY <1>2, <1>3, <1>4, <1>5, <1>6 DEF Queued

(* With documents, files and overlays of the right types, and queues as    *)
(* above, the invariant holds again.                                       *)
LEMMA QueuedInv ==
    ASSUME IInv, Queued, editor' \in [Uris -> Text], disk' \in [Paths -> Text],
           UNCHANGED <<overlays, panicked, setting>>
    PROVE  IInv'
<1>1. MaxPending' = MaxPending
    BY DEF MaxPending
<1> QED BY <1>1 DEF IInv, Typed, Queued

LEMMA ClientInv ==
    ASSUME IInv, Client, UNCHANGED setting
    PROVE  IInv'
<1>1. /\ disk \in [Paths -> Text] /\ editor \in [Uris -> Text] /\ Touched \subseteq Uris
      /\ \A u \in Uris : editor[u] \in Text
    BY SettingFacts DEF IInv, Typed
<1>2. ASSUME NEW u \in Touched, NEW c \in Contents, DidChangeFile(u, c) PROVE IInv'
  <2>1. u \in Uris /\ c \in Text
      BY <1>1 DEF Text
  <2>2. Queued
      BY <1>2, <2>1, DidChangeFileQueues
  <2>3. editor' = [editor EXCEPT ![u] = c] /\ UNCHANGED <<disk, overlays, panicked>>
      BY <1>2 DEF DidChangeFile
  <2>4. editor' \in [Uris -> Text]
      BY <1>1, <2>1, <2>3
  <2> QED BY <1>1, <2>2, <2>3, <2>4, QueuedInv
<1>3. ASSUME NEW u \in Touched, DidCloseFile(u) PROVE IInv'
  <2>1. u \in Uris /\ None \in Text
      BY <1>1 DEF Text
  <2>2. Queued
      BY <1>3, <2>1, DidCloseFileQueues
  <2>3. editor' = [editor EXCEPT ![u] = None] /\ UNCHANGED <<disk, overlays, panicked>>
      BY <1>3 DEF DidCloseFile
  <2>4. editor' \in [Uris -> Text]
      BY <1>1, <2>1, <2>3
  <2> QED BY <1>1, <2>2, <2>3, <2>4, QueuedInv
<1>4. ASSUME NEW u \in Touched, DidSaveFile(u) PROVE IInv'
  <2>1. u \in Uris
      BY <1>1
  <2>2. Queued
      BY <1>4, <2>1, DidSaveFileQueues
  <2>3. disk' = [disk EXCEPT ![PathOf[u]] = editor[u]] /\ UNCHANGED <<editor, overlays, panicked>>
      BY <1>4 DEF DidSaveFile
  <2>4. disk' \in [Paths -> Text]
      BY <1>1, <2>1, <2>3
  <2> QED BY <1>1, <2>2, <2>3, <2>4, QueuedInv
<1>5. ASSUME NEW u \in Touched, NEW c \in Contents, DiskWrite(u, c) PROVE IInv'
  <2>1. u \in Uris /\ c \in Text
      BY <1>1 DEF Text
  <2>2. disk' = [disk EXCEPT ![PathOf[u]] = c] /\ UNCHANGED <<editor, overlays, panicked>> /\ Report(<<>>, <<WatchEvent(PathOf[u], u)>>)
      BY <1>5 DEF DiskWrite
  <2>3. Queued
      BY <2>1, <2>2, WatchEventIs, WatchQueues
  <2>4. disk' \in [Paths -> Text]
      BY <1>1, <2>1, <2>2
  <2> QED BY <1>1, <2>2, <2>3, <2>4, QueuedInv
<1>6. ASSUME NEW u \in Touched, DiskDelete(u) PROVE IInv'
  <2>1. u \in Uris /\ None \in Text
      BY <1>1 DEF Text
  <2>2. disk' = [disk EXCEPT ![PathOf[u]] = None] /\ UNCHANGED <<editor, overlays, panicked>> /\ Report(<<>>, <<Event("delete", u)>>)
      BY <1>6 DEF DiskDelete
  <2>3. "delete" \in Kinds /\ "delete" \in WatchKinds
      BY DEF Kinds, WatchKinds
  <2>4. Event("delete", u) \in Change /\ Event("delete", u).kind \in WatchKinds
      BY <2>1, <2>3, EventIs
  <2>5. Queued
      BY <2>2, <2>4, WatchQueues
  <2>6. disk' \in [Paths -> Text]
      BY <1>1, <2>1, <2>2
  <2> QED BY <1>1, <2>2, <2>5, <2>6, QueuedInv
<1>7. ASSUME DidChangeWatchedFiles PROVE IInv'
  <2>1. UNCHANGED <<disk, editor, overlays, panicked>>
      BY <1>7 DEF DidChangeWatchedFiles
  <2> QED BY <1>1, <1>7, <2>1, ArrivalQueues, QueuedInv
<1> QED BY <1>2, <1>3, <1>4, <1>5, <1>6, <1>7 DEF Client

----------------------------------------------------------------------------
(* Processing a batch *)

SummaryType ==
    [opened : Uris \cup {None}, reopened : Uris \cup {None}, closed : SUBSET Uris, changed : SUBSET Uris,
     created : SUBSET Uris, deleted : SUBSET Uris, invalidateAll : BOOLEAN, watched : BOOLEAN]
ResultType == [overlays : [Paths -> Text], summary : SummaryType, panic : BOOLEAN]

(* Sets of documents with a kind of event.                                 *)
ChangedDoc(ev, e) == (ev.watchChanged /\ e = None) \/ ev.change # None
CreatedDoc(ev, e) == ev.created /\ e = None
DeletedDoc(ev, e) == ev.deleted /\ e = None

LEMMA SetSummary ==
    ASSUME NEW s \in SummaryType, NEW X \in SUBSET Uris, NEW v \in Uris \cup {None}
    PROVE  /\ [s EXCEPT !.closed = X] \in SummaryType /\ [s EXCEPT !.changed = X] \in SummaryType
           /\ [s EXCEPT !.created = X] \in SummaryType /\ [s EXCEPT !.deleted = X] \in SummaryType
           /\ [s EXCEPT !.opened = v] \in SummaryType /\ [s EXCEPT !.reopened = v] \in SummaryType
<1>1. [s EXCEPT !.closed = X] \in SummaryType
    BY SMT DEF SummaryType
<1>2. [s EXCEPT !.changed = X] \in SummaryType
    BY SMT DEF SummaryType
<1>3. [s EXCEPT !.created = X] \in SummaryType
    BY SMT DEF SummaryType
<1>4. [s EXCEPT !.deleted = X] \in SummaryType
    BY SMT DEF SummaryType
<1>5. [s EXCEPT !.opened = v] \in SummaryType
    BY SMT DEF SummaryType
<1>6. [s EXCEPT !.reopened = v] \in SummaryType
    BY SMT DEF SummaryType
<1> QED BY <1>1, <1>2, <1>3, <1>4, <1>5, <1>6

LEMMA SummaryFields ==
    ASSUME NEW s \in SummaryType
    PROVE  /\ s.closed \in SUBSET Uris /\ s.changed \in SUBSET Uris /\ s.created \in SUBSET Uris
           /\ s.deleted \in SUBSET Uris /\ s.opened \in Uris \cup {None} /\ s.reopened \in Uris \cup {None}
           /\ s.invalidateAll \in BOOLEAN /\ s.watched \in BOOLEAN
BY SMT DEF SummaryType

(* The parts of a summary that documents add to.                           *)
Adds(new, s, cl, ch, cr, de) ==
    /\ new.closed = s.closed \cup cl /\ new.changed = s.changed \cup ch
    /\ new.created = s.created \cup cr /\ new.deleted = s.deleted \cup de
Rest(new, s) ==
    new.opened = s.opened /\ new.reopened = s.reopened /\ new.invalidateAll = s.invalidateAll /\ new.watched = s.watched

LEMMA SummaryAdds ==
    ASSUME NEW s \in SummaryType, NEW cl \in SUBSET Uris, NEW ch \in SUBSET Uris, NEW cr \in SUBSET Uris,
           NEW de \in SUBSET Uris
    PROVE  LET new == [s EXCEPT !.closed = @ \cup cl, !.changed = @ \cup ch, !.created = @ \cup cr, !.deleted = @ \cup de]
           IN  new \in SummaryType /\ Adds(new, s, cl, ch, cr, de) /\ Rest(new, s)
<1> DEFINE a == [s EXCEPT !.closed = @ \cup cl]
           b == [a EXCEPT !.changed = @ \cup ch]
           c == [b EXCEPT !.created = @ \cup cr]
           d == [c EXCEPT !.deleted = @ \cup de]
<1>1. a \in SummaryType
  <2>1. s.closed \cup cl \in SUBSET Uris
      BY SummaryFields
  <2> QED BY <2>1, SetSummary
<1>2. a.closed = s.closed \cup cl /\ a.changed = s.changed /\ a.created = s.created /\ a.deleted = s.deleted /\ Rest(a, s)
    BY SMT DEF SummaryType, Rest
<1> HIDE DEF a
<1>3. b \in SummaryType
  <2>1. a.changed \cup ch \in SUBSET Uris
      BY <1>1, SummaryFields
  <2> QED BY <1>1, <2>1, SetSummary
<1>4. b.closed = a.closed /\ b.changed = a.changed \cup ch /\ b.created = a.created /\ b.deleted = a.deleted /\ Rest(b, a)
    BY <1>1, SMT DEF SummaryType, Rest
<1> HIDE DEF b
<1>5. c \in SummaryType
  <2>1. b.created \cup cr \in SUBSET Uris
      BY <1>3, SummaryFields
  <2> QED BY <1>3, <2>1, SetSummary
<1>6. c.closed = b.closed /\ c.changed = b.changed /\ c.created = b.created \cup cr /\ c.deleted = b.deleted /\ Rest(c, b)
    BY <1>3, SMT DEF SummaryType, Rest
<1> HIDE DEF c
<1>7. d \in SummaryType
  <2>1. c.deleted \cup de \in SUBSET Uris
      BY <1>5, SummaryFields
  <2> QED BY <1>5, <2>1, SetSummary
<1>8. d.closed = c.closed /\ d.changed = c.changed /\ d.created = c.created /\ d.deleted = c.deleted \cup de /\ Rest(d, c)
    BY <1>5, SMT DEF SummaryType, Rest
<1> HIDE DEF d
<1>9. d \in SummaryType /\ Adds(d, s, cl, ch, cr, de) /\ Rest(d, s)
    BY <1>2, <1>4, <1>6, <1>7, <1>8 DEF Adds, Rest
<1>10. d = [s EXCEPT !.closed = @ \cup cl, !.changed = @ \cup ch, !.created = @ \cup cr, !.deleted = @ \cup de]
    BY DEF a, b, c, d
<1> QED BY <1>9, <1>10

LEMMA OwnPaths == Uris = Paths /\ \A u \in Uris : PathOf[u] = u
BY UpdateAssumption

LEMMA ResultFields ==
    ASSUME NEW r \in ResultType
    PROVE  r.overlays \in [Paths -> Text] /\ r.summary \in SummaryType /\ r.panic \in BOOLEAN
BY SMT DEF ResultType

LEMMA ResultIs ==
    ASSUME NEW ov \in [Paths -> Text], NEW s \in SummaryType, NEW b \in BOOLEAN
    PROVE  LET r == [overlays |-> ov, summary |-> s, panic |-> b]
           IN  r \in ResultType /\ r.overlays = ov /\ r.summary = s /\ r.panic = b
<1>1. [overlays |-> ov, summary |-> s, panic |-> b] \in ResultType
    BY DEF ResultType
<1> QED BY <1>1

LEMMA IfIs ==
    ASSUME NEW u \in Uris, NEW c
    PROVE  If(c, u) \in SUBSET Uris
BY DEF If

(* What the events of a document that is not opened make of the result of  *)
(* those before it.                                                        *)
LEMMA RestEffect ==
    ASSUME NEW r \in ResultType, NEW u \in Uris, NEW ev, NEW e, Leads(ev, r.overlays[u], e), r.panic = FALSE
    PROVE  LET new == ApplyRest(ev, r, u)
           IN  /\ new \in ResultType /\ new.panic = FALSE /\ new.overlays = [r.overlays EXCEPT ![u] = e]
               /\ Adds(new.summary, r.summary, If(ev.close, u), If(ChangedDoc(ev, e), u),
                       If(CreatedDoc(ev, e), u), If(DeletedDoc(ev, e), u))
               /\ Rest(new.summary, r.summary)
<1> DEFINE old == r.overlays[u]
           kept == IF ev.close THEN None ELSE old
           doc == IF kept # None /\ ev.change # None THEN ev.change ELSE kept
           cl == If(ev.close, u)
           ch == If((ev.watchChanged /\ kept = None) \/ ev.change # None, u)
           cr == If(ev.created /\ doc = None, u)
           de == If(ev.deleted /\ doc = None, u)
           s == [r.summary EXCEPT !.closed = @ \cup cl, !.changed = @ \cup ch, !.created = @ \cup cr, !.deleted = @ \cup de]
           b == r.panic \/ (ev.close /\ old = None) \/ (kept = None /\ (ev.change # None \/ ev.saved))
<1>1. ApplyRest(ev, r, u) = [overlays |-> [r.overlays EXCEPT ![u] = doc], summary |-> s, panic |-> b]
    BY OwnPaths DEF ApplyRest
<1>2. kept = None <=> e = None
  <2>1. ev.change \in Text
      BY SMT DEF Leads, Events
  <2> QED BY DEF Leads
<1>3. doc = e
    BY DEF Leads
<1>4. b = FALSE
    BY DEF Leads
<1>5. ch = If(ChangedDoc(ev, e), u) /\ cr = If(CreatedDoc(ev, e), u) /\ de = If(DeletedDoc(ev, e), u)
    BY <1>2, <1>3 DEF ChangedDoc, CreatedDoc, DeletedDoc, If
<1>6. cl \in SUBSET Uris /\ ch \in SUBSET Uris /\ cr \in SUBSET Uris /\ de \in SUBSET Uris
    BY IfIs
<1>7. r.overlays \in [Paths -> Text] /\ r.summary \in SummaryType
    BY ResultFields
<1>8. s \in SummaryType /\ Adds(s, r.summary, cl, ch, cr, de) /\ Rest(s, r.summary)
    BY <1>6, <1>7, SummaryAdds
<1>9. e \in Text
  <2>1. ev.change \in Text
      BY SMT DEF Leads, Events
  <2>2. old \in Text /\ None \in Text
      BY <1>7, OwnPaths DEF Text
  <2> QED BY <2>1, <2>2 DEF Leads
<1>10. [r.overlays EXCEPT ![u] = e] \in [Paths -> Text]
    BY <1>7, <1>9
<1> HIDE DEF old, kept, doc, cl, ch, cr, de, s, b
<1>11. LET new == [overlays |-> [r.overlays EXCEPT ![u] = e], summary |-> s, panic |-> FALSE]
       IN  new \in ResultType /\ new.overlays = [r.overlays EXCEPT ![u] = e] /\ new.summary = s /\ new.panic = FALSE
    BY <1>8, <1>10, ResultIs
<1>12. ApplyRest(ev, r, u) = [overlays |-> [r.overlays EXCEPT ![u] = e], summary |-> s, panic |-> FALSE]
    BY <1>1, <1>3, <1>4
<1>13. Adds(s, r.summary, If(ev.close, u), If(ChangedDoc(ev, e), u), If(CreatedDoc(ev, e), u), If(DeletedDoc(ev, e), u))
    BY <1>5, <1>8 DEF cl
<1> QED BY <1>8, <1>11, <1>12, <1>13

(* The same for a document that is opened, if it is the only one.          *)
Edited(o, e) == o # None /\ o # e

NoneOpened(r) == r.panic = FALSE /\ r.summary.opened = None /\ r.summary.reopened = None
OpenResult(new, r, o, u, e) ==
    /\ new \in ResultType /\ new.panic = FALSE /\ new.overlays = [r.overlays EXCEPT ![u] = e]
    /\ Adds(new.summary, r.summary, {}, If(Edited(o, e), u), {}, {})
    /\ new.summary.opened = (IF o = None THEN u ELSE None)
    /\ new.summary.reopened = (IF o = e THEN u ELSE None)
    /\ new.summary.invalidateAll = r.summary.invalidateAll /\ new.summary.watched = r.summary.watched

LEMMA OpenEffect ==
    ASSUME NEW r \in ResultType, NEW u \in Uris, NEW ev, NEW e \in Text, Opens(ev, e), NoneOpened(r)
    PROVE  OpenResult(ApplyOpen(ev, r, u), r, r.overlays[u], u, e)
<1> DEFINE o == r.overlays[u]
           ch == If(o # None /\ o # ev.open, u)
           op == IF o = None THEN u ELSE r.summary.opened
           re == IF o # None /\ ~(o # None /\ o # ev.open) THEN u ELSE r.summary.reopened
           s == [r.summary EXCEPT !.changed = @ \cup ch, !.opened = op, !.reopened = re]
<1>1. ev.open = e /\ e # None
    BY SMT DEF Opens, NoEvents
<1>2. ApplyOpen(ev, r, u) = [overlays |-> [r.overlays EXCEPT ![u] = e], summary |-> s, panic |-> FALSE]
  <2>1. ApplyOpen(ev, r, u) = [overlays |-> [r.overlays EXCEPT ![u] = ev.open], summary |->
                [r.summary EXCEPT !.changed = @ \cup ch, !.opened = IF o = None THEN u ELSE @,
                                  !.reopened = IF o # None /\ ~(o # None /\ o # ev.open) THEN u ELSE @],
                panic |-> r.panic \/ r.summary.opened # None \/ r.summary.reopened # None]
      BY OwnPaths DEF ApplyOpen
  <2>2. r.summary \in SummaryType
      BY ResultFields
  <2>3. [r.summary EXCEPT !.changed = @ \cup ch, !.opened = IF o = None THEN u ELSE @,
                          !.reopened = IF o # None /\ ~(o # None /\ o # ev.open) THEN u ELSE @] = s
      BY <2>2, SMT DEF SummaryType
  <2>4. (r.panic \/ r.summary.opened # None \/ r.summary.reopened # None) = FALSE
      BY DEF NoneOpened
  <2> QED BY <1>1, <2>1, <2>3, <2>4
<1>3. r.overlays \in [Paths -> Text] /\ r.summary \in SummaryType
    BY ResultFields
<1>4. ch = If(Edited(o, e), u) /\ op = (IF o = None THEN u ELSE None) /\ re = (IF o = e THEN u ELSE None)
    BY <1>1 DEF Edited, NoneOpened
<1>5. ch \in SUBSET Uris /\ op \in Uris \cup {None} /\ re \in Uris \cup {None}
    BY <1>4, IfIs
<1> HIDE DEF ch, op, re
<1>6. s \in SummaryType
  <2>1. r.summary.changed \cup ch \in SUBSET Uris
      BY <1>3, <1>5, SummaryFields
  <2>2. PICK t \in SummaryType : t = [r.summary EXCEPT !.changed = @ \cup ch]
      BY <1>3, <2>1, SetSummary
  <2>3. PICK v \in SummaryType : v = [t EXCEPT !.opened = op]
      BY <1>5, <2>2, SetSummary
  <2>4. [v EXCEPT !.reopened = re] \in SummaryType
      BY <1>5, <2>3, SetSummary
  <2> QED BY <2>2, <2>3, <2>4
<1>7. /\ s.closed = r.summary.closed /\ s.changed = r.summary.changed \cup ch /\ s.created = r.summary.created
      /\ s.deleted = r.summary.deleted /\ s.opened = op /\ s.reopened = re
      /\ s.invalidateAll = r.summary.invalidateAll /\ s.watched = r.summary.watched
    BY <1>3, SMT DEF SummaryType
<1> HIDE DEF s
<1>8. Adds(s, r.summary, {}, ch, {}, {})
    BY <1>7 DEF Adds
<1>9. [r.overlays EXCEPT ![u] = e] \in [Paths -> Text]
    BY <1>3
<1>10. LET new == [overlays |-> [r.overlays EXCEPT ![u] = e], summary |-> s, panic |-> FALSE]
       IN  new \in ResultType /\ new.overlays = [r.overlays EXCEPT ![u] = e] /\ new.summary = s /\ new.panic = FALSE
    BY <1>6, <1>9, ResultIs
<1> QED BY <1>2, <1>4, <1>7, <1>8, <1>10 DEF OpenResult

IsVisit(f, changes, r, order, n) ==
    f = [i \in 0..n |-> IF i = 0 THEN r ELSE Apply(changes, f[i - 1], order[i])]

LEMMA VisitExists ==
    ASSUME NEW changes, NEW r, NEW order, NEW n \in Nat
    PROVE  \E f : IsVisit(f, changes, r, order, n)
<1> DEFINE T == {k \in 0..n : \E f : IsVisit(f, changes, r, order, k)}
<1>1. 0 \in T
  <2>1. [i \in 0..0 |-> r] = [i \in 0..0 |-> IF i = 0 THEN r ELSE Apply(changes, [j \in 0..0 |-> r][i - 1], order[i])]
    <3>1. \A i \in 0..0 : i = 0
        BY SMT
    <3> QED BY <3>1
  <2>2. IsVisit([i \in 0..0 |-> r], changes, r, order, 0)
      BY <2>1 DEF IsVisit
  <2>3. 0 \in 0..n
      BY SMT
  <2> QED BY <2>2, <2>3
<1>2. ASSUME NEW k \in 0..n, k + 1 \in 0..n, k \in T PROVE k + 1 \in T
  <2>1. PICK f : IsVisit(f, changes, r, order, k)
      BY <1>2
  <2> DEFINE g == [i \in 0..(k + 1) |-> IF i = k + 1 THEN Apply(changes, f[k], order[k + 1]) ELSE f[i]]
  <2>2. ASSUME NEW i \in 0..(k + 1)
        PROVE  g[i] = IF i = 0 THEN r ELSE Apply(changes, g[i - 1], order[i])
    <3>1. CASE i = k + 1
      <4>1. i # 0 /\ i - 1 = k /\ k \in 0..(k + 1) /\ k # k + 1
          BY <3>1, SMT
      <4>2. g[k] = f[k]
          BY <4>1
      <4> QED BY <3>1, <4>1, <4>2
    <3>2. CASE i # k + 1
      <4>1. i \in 0..k
          BY <3>2, SMT
      <4>2. g[i] = f[i]
          BY <3>2
      <4>3. f[i] = IF i = 0 THEN r ELSE Apply(changes, f[i - 1], order[i])
          BY <2>1, <4>1 DEF IsVisit
      <4>4. i # 0 => i - 1 \in 0..(k + 1) /\ i - 1 # k + 1
          BY <4>1, SMT
      <4>5. i # 0 => g[i - 1] = f[i - 1]
          BY <4>4
      <4> QED BY <4>2, <4>3, <4>5
    <3> QED BY <3>1, <3>2
  <2>3. g = [i \in 0..(k + 1) |-> g[i]]
      OBVIOUS
  <2> HIDE DEF g
  <2>4. IsVisit(g, changes, r, order, k + 1)
      BY <2>2, <2>3 DEF IsVisit
  <2> QED BY <1>2, <2>4
<1> HIDE DEF T
<1>3. T \in SUBSET (0..n)
    BY DEF T
<1>4. T = 0..n
    BY <1>1, <1>2, <1>3, UpTo
<1>5. n \in 0..n
    BY SMT
<1> QED BY <1>4, <1>5 DEF T

LEMMA VisitIs ==
    ASSUME NEW changes, NEW r, NEW order, Len(order) \in Nat
    PROVE  IsVisit(Visit(changes, r, order), changes, r, order, Len(order))
<1>1. Visit(changes, r, order) = CHOOSE f : IsVisit(f, changes, r, order, Len(order))
    BY DEF Visit, IsVisit
<1> QED BY <1>1, VisitExists

(* A batch leads from the overlays to documents ed, or opens one of them.  *)
Doc(changes, ed, u) ==
    \/ Leads(EventsOf(changes, u), overlays[u], ed[u])
    \/ Opens(EventsOf(changes, u), ed[u])
IsOpened(changes, ed, u) == Opens(EventsOf(changes, u), ed[u])
Batch(changes, ed) ==
    /\ ed \in [Uris -> Text] /\ overlays \in [Uris -> Text]
    /\ \A u \in Uris : Doc(changes, ed, u)
    /\ \A u, v \in Uris : IsOpened(changes, ed, u) /\ IsOpened(changes, ed, v) => u = v

Changes(ev, o, e) == IF Opens(ev, e) THEN Edited(o, e) ELSE ChangedDoc(ev, e)

(* What has become of the documents of V.                                  *)
Done(changes, ed, V, r) ==
    /\ r \in ResultType /\ r.panic = FALSE
    /\ \A p \in Uris : r.overlays[p] = IF p \in V THEN ed[p] ELSE overlays[p]
    /\ r.summary.closed = {u \in V : EventsOf(changes, u).close}
    /\ r.summary.changed = {u \in V : Changes(EventsOf(changes, u), overlays[u], ed[u])}
    /\ r.summary.created = {u \in V : CreatedDoc(EventsOf(changes, u), ed[u])}
    /\ r.summary.deleted = {u \in V : DeletedDoc(EventsOf(changes, u), ed[u])}
    /\ r.summary.opened # None => r.summary.opened \in V /\ IsOpened(changes, ed, r.summary.opened)
    /\ r.summary.reopened # None => r.summary.reopened \in V /\ IsOpened(changes, ed, r.summary.reopened)
    /\ \A u \in V : IsOpened(changes, ed, u) =>
          /\ overlays[u] = None => r.summary.opened = u
          /\ overlays[u] = ed[u] => r.summary.reopened = u

(* The flags of the summary are those of the one before.                   *)
SameFlags(n, r) == n.summary.watched = r.summary.watched /\ n.summary.invalidateAll = r.summary.invalidateAll

LEMMA VisitOne ==
    ASSUME NEW changes, NEW ed, Batch(changes, ed), NEW V \in SUBSET Uris, NEW u \in Uris, u \notin V,
           NEW r, Done(changes, ed, V, r)
    PROVE  Done(changes, ed, V \cup {u}, Apply(changes, r, u)) /\ SameFlags(Apply(changes, r, u), r)
<1>1. PICK ev : ev = EventsOf(changes, u)
    OBVIOUS
<1>2. PICK e : e = ed[u]
    OBVIOUS
<1>3. r.overlays[u] = overlays[u] /\ e \in Text /\ r \in ResultType /\ r.panic = FALSE
    BY <1>2 DEF Done, Batch
<1>4. CASE Leads(ev, overlays[u], e)
  <2>1. PICK n : n = ApplyRest(ev, r, u)
      OBVIOUS
  <2>2. /\ n \in ResultType /\ n.panic = FALSE /\ n.overlays = [r.overlays EXCEPT ![u] = e]
        /\ Adds(n.summary, r.summary, If(ev.close, u), If(ChangedDoc(ev, e), u),
                If(CreatedDoc(ev, e), u), If(DeletedDoc(ev, e), u))
        /\ Rest(n.summary, r.summary)
    <3>1. Leads(ev, r.overlays[u], e)
        BY <1>3, <1>4
    <3>2. LET m == ApplyRest(ev, r, u)
          IN  /\ m \in ResultType /\ m.panic = FALSE /\ m.overlays = [r.overlays EXCEPT ![u] = e]
              /\ Adds(m.summary, r.summary, If(ev.close, u), If(ChangedDoc(ev, e), u),
                      If(CreatedDoc(ev, e), u), If(DeletedDoc(ev, e), u))
              /\ Rest(m.summary, r.summary)
        BY <1>3, <3>1, RestEffect
    <3> QED BY <2>1, <3>2
  <2>3. Apply(changes, r, u) = n
    <3>1. ~ev.panic /\ ev.open = None
        BY <1>4 DEF Leads
    <3> QED BY <1>1, <2>1, <3>1 DEF Apply
  <2>4. ~Opens(ev, e)
    <3>1. ev.open = None
        BY <1>4 DEF Leads
    <3>2. Opens(ev, e) => ev.open = e /\ e # None
        BY SMT DEF Opens, NoEvents
    <3> QED BY <3>1, <3>2
  <2>5. Done(changes, ed, V \cup {u}, n)
    <3>1. \A p \in Uris : n.overlays[p] = IF p \in V \cup {u} THEN ed[p] ELSE overlays[p]
      <4>1. r.overlays \in [Uris -> Text]
          BY <1>3, ResultFields, OwnPaths
      <4>2. n.overlays[u] = e /\ \A p \in Uris : p # u => n.overlays[p] = r.overlays[p]
          BY <2>2, <4>1
      <4>3. \A p \in Uris : r.overlays[p] = IF p \in V THEN ed[p] ELSE overlays[p]
          BY DEF Done
      <4> QED BY <1>2, <4>2, <4>3
    <3>2. n.summary.closed = {v \in V \cup {u} : EventsOf(changes, v).close}
        BY <1>1, <2>2 DEF Done, Adds, If
    <3>3. n.summary.changed = {v \in V \cup {u} : Changes(EventsOf(changes, v), overlays[v], ed[v])}
        BY <1>1, <1>2, <2>2, <2>4 DEF Done, Adds, If, Changes
    <3>4. n.summary.created = {v \in V \cup {u} : CreatedDoc(EventsOf(changes, v), ed[v])}
        BY <1>1, <1>2, <2>2 DEF Done, Adds, If
    <3>5. n.summary.deleted = {v \in V \cup {u} : DeletedDoc(EventsOf(changes, v), ed[v])}
        BY <1>1, <1>2, <2>2 DEF Done, Adds, If
    <3>6. n.summary.opened = r.summary.opened /\ n.summary.reopened = r.summary.reopened
        BY <2>2 DEF Rest
    <3>7. ~IsOpened(changes, ed, u)
        BY <1>1, <1>2, <2>4 DEF IsOpened
    <3> QED BY <2>2, <3>1, <3>2, <3>3, <3>4, <3>5, <3>6, <3>7 DEF Done
  <2>6. SameFlags(n, r)
      BY <2>2 DEF Rest, SameFlags
  <2> QED BY <2>3, <2>5, <2>6
<1>5. CASE Opens(ev, e)
  <2>1. PICK n : n = ApplyOpen(ev, r, u)
      OBVIOUS
  <2>2. IsOpened(changes, ed, u) /\ \A v \in V : ~IsOpened(changes, ed, v)
      BY <1>1, <1>2, <1>5 DEF IsOpened, Batch
  <2>3. r.summary.opened = None /\ r.summary.reopened = None
      BY <2>2 DEF Done
  <2>4. PICK o : o = r.overlays[u]
      OBVIOUS
  <2>5. /\ n \in ResultType /\ n.panic = FALSE /\ n.overlays = [r.overlays EXCEPT ![u] = e]
        /\ Adds(n.summary, r.summary, {}, If(Edited(o, e), u), {}, {})
        /\ n.summary.opened = (IF o = None THEN u ELSE None)
        /\ n.summary.reopened = (IF o = e THEN u ELSE None)
        /\ n.summary.invalidateAll = r.summary.invalidateAll /\ n.summary.watched = r.summary.watched
    <3>1. e \in Text /\ r \in ResultType /\ NoneOpened(r)
        BY <1>3, <2>3 DEF NoneOpened
    <3>2. OpenResult(ApplyOpen(ev, r, u), r, r.overlays[u], u, e)
        BY <1>5, <3>1, OpenEffect
    <3> QED BY <2>1, <2>4, <3>2 DEF OpenResult
  <2>6. /\ ev.open = e /\ e # None /\ ev.panic = FALSE /\ ev.close = FALSE /\ ev.created = FALSE /\ ev.deleted = FALSE
      BY <1>5, SMT DEF Opens, NoEvents
  <2>7. Apply(changes, r, u) = n
      BY <1>1, <2>1, <2>6 DEF Apply
  <2>8. Done(changes, ed, V \cup {u}, n)
    <3>1. \A p \in Uris : n.overlays[p] = IF p \in V \cup {u} THEN ed[p] ELSE overlays[p]
      <4>1. r.overlays \in [Uris -> Text]
          BY <1>3, ResultFields, OwnPaths
      <4>2. n.overlays[u] = e /\ \A p \in Uris : p # u => n.overlays[p] = r.overlays[p]
          BY <2>5, <4>1
      <4>3. \A p \in Uris : r.overlays[p] = IF p \in V THEN ed[p] ELSE overlays[p]
          BY DEF Done
      <4> QED BY <1>2, <4>2, <4>3
    <3>2. n.summary.closed = {v \in V \cup {u} : EventsOf(changes, v).close}
        BY <1>1, <2>5, <2>6 DEF Done, Adds
    <3>3. n.summary.changed = {v \in V \cup {u} : Changes(EventsOf(changes, v), overlays[v], ed[v])}
        BY <1>1, <1>2, <1>3, <1>5, <2>4, <2>5 DEF Done, Adds, If, Changes
    <3>4. n.summary.created = {v \in V \cup {u} : CreatedDoc(EventsOf(changes, v), ed[v])}
        BY <1>1, <2>5, <2>6 DEF Done, Adds, CreatedDoc
    <3>5. n.summary.deleted = {v \in V \cup {u} : DeletedDoc(EventsOf(changes, v), ed[v])}
        BY <1>1, <2>5, <2>6 DEF Done, Adds, DeletedDoc
    <3>6. overlays[u] = o
        BY <1>3, <2>4
    <3>7. /\ n.summary.opened # None => n.summary.opened \in V \cup {u} /\ IsOpened(changes, ed, n.summary.opened)
          /\ n.summary.reopened # None => n.summary.reopened \in V \cup {u} /\ IsOpened(changes, ed, n.summary.reopened)
        BY <2>2, <2>5
    <3>8. \A v \in V \cup {u} : IsOpened(changes, ed, v) =>
            /\ overlays[v] = None => n.summary.opened = v
            /\ overlays[v] = ed[v] => n.summary.reopened = v
        BY <1>2, <2>2, <2>5, <3>6
    <3> QED BY <2>5, <3>1, <3>2, <3>3, <3>4, <3>5, <3>7, <3>8 DEF Done
  <2>9. SameFlags(n, r)
      BY <2>5 DEF SameFlags
  <2> QED BY <2>7, <2>8, <2>9
<1> QED BY <1>1, <1>2, <1>4, <1>5 DEF Batch, Doc

(* A batch is about finitely many documents.                               *)
LEMMA ChangedFinite ==
    ASSUME NEW changes \in Seq(Change)
    PROVE  /\ Changed(changes) \in SUBSET Uris /\ IsFiniteSet(Changed(changes))
           /\ Cardinality(Changed(changes)) \in Nat /\ Cardinality(Changed(changes)) <= Len(changes)
<1>1. DOMAIN changes = 1..Len(changes) /\ Len(changes) \in Nat /\ \A i \in DOMAIN changes : changes[i] \in Change
    BY SMT
<1> DEFINE f == [i \in 1..Len(changes) |-> changes[i].uri]
<1>2. f \in Surjection(1..Len(changes), Changed(changes))
    BY <1>1 DEF Surjection, Changed
<1> HIDE DEF f
<1>3. IsFiniteSet(1..Len(changes)) /\ Cardinality(1..Len(changes)) = Len(changes)
  <2>1. 1 \in Int /\ Len(changes) \in Int
      BY <1>1, SMT
  <2>2. IsFiniteSet(1..Len(changes)) /\ Cardinality(1..Len(changes)) = IF 1 > Len(changes) THEN 0 ELSE Len(changes) - 1 + 1
      BY <2>1, FS_Interval
  <2> QED BY <1>1, <2>2, SMT
<1>4. IsFiniteSet(Changed(changes)) /\ Cardinality(Changed(changes)) <= Len(changes)
  <2>1. IsFiniteSet(1..Len(changes))
      BY <1>3
  <2>2. IsFiniteSet(Changed(changes)) /\ Cardinality(Changed(changes)) <= Cardinality(1..Len(changes))
      BY <1>2, <2>1, FS_Surjection
  <2> QED BY <1>3, <2>2
<1>5. Cardinality(Changed(changes)) \in Nat
    BY <1>4, FS_CardinalityType
<1>6. Changed(changes) \in SUBSET Uris
    BY <1>1, ChangeFields DEF Changed
<1> QED BY <1>4, <1>5, <1>6

LEMMA NothingDone ==
    ASSUME NEW changes, NEW ed, Batch(changes, ed), NEW w \in BOOLEAN
    PROVE  LET none == [overlays |-> overlays, summary |-> [NoSummary EXCEPT !.watched = w], panic |-> FALSE]
           IN  Done(changes, ed, {}, none) /\ none.summary.watched = w /\ none.summary.invalidateAll = FALSE
<1>1. PICK s : s = [NoSummary EXCEPT !.watched = w]
    OBVIOUS
<1>2. s \in SummaryType
  <2>1. NoSummary \in SummaryType
      BY SMT DEF NoSummary, SummaryType
  <2>2. [NoSummary EXCEPT !.watched = w] \in SummaryType
      BY <2>1, SMT DEF SummaryType
  <2> QED BY <1>1, <2>2
<1>3. /\ s.opened = None /\ s.reopened = None /\ s.closed = {} /\ s.changed = {} /\ s.created = {} /\ s.deleted = {}
      /\ s.invalidateAll = FALSE /\ s.watched = w
    BY <1>1, SMT DEF NoSummary
<1>4. PICK r : r = [overlays |-> overlays, summary |-> s, panic |-> FALSE]
    OBVIOUS
<1>5. overlays \in [Paths -> Text]
    BY OwnPaths DEF Batch
<1>6. r \in ResultType /\ r.overlays = overlays /\ r.summary = s /\ r.panic = FALSE
    BY <1>2, <1>4, <1>5, ResultIs
<1>7. Done(changes, ed, {}, r)
    BY <1>3, <1>6 DEF Done
<1> QED BY <1>1, <1>3, <1>4, <1>6, <1>7

(* The watch events of a batch are marked in its summary.                  *)
Watched(changes) == \E i \in DOMAIN changes : changes[i].kind \in WatchKinds

LEMMA Processed ==
    ASSUME NEW changes \in Seq(Change), NEW ed, Batch(changes, ed), NEW r \in processChanges(changes)
    PROVE  /\ Done(changes, ed, Changed(changes), r)
           /\ r.summary.watched = Watched(changes) /\ r.summary.invalidateAll = FALSE
<1> DEFINE S == Changed(changes)
           n == Cardinality(S)
           none == [overlays |-> overlays, summary |-> [NoSummary EXCEPT !.watched = Watched(changes)], panic |-> FALSE]
<1>1. S \in SUBSET Uris /\ n \in Nat
    BY ChangedFinite
<1>2. PICK order \in Bijection(1..n, S) : r = Visit(changes, none, order)[n]
    BY DEF processChanges, Watched
<1>3. order \in [1..n -> S] /\ \A i \in 1..n : order[i] \in S
    BY <1>2 DEF Bijection, Injection, Surjection, IsInjective
<1>14. \A i, j \in 1..n : order[i] = order[j] => i = j
    BY <1>2 DEF Bijection, Injection, IsInjective
<1>15. \A x \in S : \E i \in 1..n : order[i] = x
    BY <1>2 DEF Bijection, Surjection
<1>4. Watched(changes) \in BOOLEAN
    BY DEF Watched
<1>5. PICK first : first = none
    OBVIOUS
<1>6. Done(changes, ed, {}, first) /\ first.summary.watched = Watched(changes) /\ first.summary.invalidateAll = FALSE
    BY <1>4, <1>5, NothingDone
<1>7. r = Visit(changes, first, order)[n]
    BY <1>2, <1>5
<1> HIDE DEF none, S, n
<1>8. Len(order) = n
    BY <1>1, <1>3, SMT
<1>16. IsVisit(Visit(changes, first, order), changes, first, order, n)
  <2>1. Len(order) \in Nat
      BY <1>1, <1>8
  <2>2. IsVisit(Visit(changes, first, order), changes, first, order, Len(order))
      BY <2>1, VisitIs
  <2> QED BY <1>8, <2>2
<1> DEFINE V(i) == {order[j] : j \in 1..i}
           OK(i) == /\ Done(changes, ed, V(i), Visit(changes, first, order)[i])
                    /\ Visit(changes, first, order)[i].summary.watched = Watched(changes)
                    /\ Visit(changes, first, order)[i].summary.invalidateAll = FALSE
           T == {i \in 0..n : OK(i)}
<1>9. 0 \in T
  <2>1. V(0) = {} /\ 0 \in 0..n
    <3>1. 1..0 = {} /\ 0 \in 0..n
        BY <1>1, SMT
    <3> QED BY <3>1
  <2>2. Visit(changes, first, order)[0] = first
      BY <1>16, <2>1 DEF IsVisit
  <2> QED BY <1>6, <2>1, <2>2
<1>10. ASSUME NEW k \in 0..n, k + 1 \in 0..n, k \in T PROVE k + 1 \in T
  <2>1. /\ k + 1 # 0 /\ (k + 1) - 1 = k /\ 1..(k + 1) = (1..k) \cup {k + 1} /\ k + 1 \in 1..n
        /\ k + 1 \notin 1..k /\ 1..k \subseteq 1..n
      BY <1>1, <1>10, SMT
  <2>2. V(k + 1) = V(k) \cup {order[k + 1]}
      BY <2>1
  <2>10. k + 1 \in 1..n /\ 1..k \subseteq 1..n /\ k + 1 \notin 1..k
      BY <2>1
  <2>3. order[k + 1] \in Uris /\ V(k) \in SUBSET Uris
      BY <1>1, <1>3, <2>10
  <2>4. order[k + 1] \notin V(k)
      BY <1>14, <2>10
  <2>5. Visit(changes, first, order)[k + 1] = Apply(changes, Visit(changes, first, order)[(k + 1) - 1], order[k + 1])
      BY <1>10, <1>16, <2>1 DEF IsVisit
  <2>6. PICK q : q = Visit(changes, first, order)[k]
      OBVIOUS
  <2>7. Done(changes, ed, V(k), q) /\ q.summary.watched = Watched(changes) /\ q.summary.invalidateAll = FALSE
      BY <1>10, <2>6
  <2>8. Visit(changes, first, order)[k + 1] = Apply(changes, q, order[k + 1])
      BY <2>1, <2>5, <2>6
  <2> HIDE DEF V
  <2>9. Done(changes, ed, V(k) \cup {order[k + 1]}, Apply(changes, q, order[k + 1])) /\ SameFlags(Apply(changes, q, order[k + 1]), q)
    <3>1. Done(changes, ed, V(k), q)
        BY <2>7
    <3> QED BY <2>3, <2>4, <3>1, VisitOne
  <2> QED BY <1>10, <2>2, <2>7, <2>8, <2>9 DEF SameFlags
<1> HIDE DEF T
<1>11. T = 0..n
  <2>1. T \in SUBSET (0..n)
      BY DEF T
  <2> QED BY <1>1, <1>9, <1>10, <2>1, UpTo
<1>12. n \in T
  <2>1. n \in 0..n
      BY <1>1, SMT
  <2> QED BY <1>11, <2>1
<1>13. V(n) = S
  <2>1. V(n) \subseteq S
      BY <1>3
  <2>2. S \subseteq V(n)
      BY <1>15
  <2> QED BY <2>1, <2>2
<1> HIDE DEF V
<1> QED BY <1>7, <1>12, <1>13 DEF T, S

(* All documents are then those of the editor.                             *)
LEMMA ProcessedOverlays ==
    ASSUME NEW changes \in Seq(Change), NEW ed, Batch(changes, ed), NEW r \in processChanges(changes)
    PROVE  r.overlays = ed /\ r.panic = FALSE
<1>1. Done(changes, ed, Changed(changes), r)
    BY Processed
<1>2. r \in ResultType /\ r.panic = FALSE
    BY <1>1 DEF Done
<1>3. r.overlays \in [Uris -> Text] /\ ed \in [Uris -> Text]
    BY <1>2, ResultFields, OwnPaths DEF Batch
<1>4. ASSUME NEW u \in Uris PROVE r.overlays[u] = ed[u]
  <2>1. r.overlays[u] = IF u \in Changed(changes) THEN ed[u] ELSE overlays[u]
      BY <1>1 DEF Done
  <2>2. ASSUME u \notin Changed(changes) PROVE overlays[u] = ed[u]
    <3>1. DOMAIN changes = 1..Len(changes) /\ Len(changes) \in Nat
        BY SMT
    <3>2. EventsOf(changes, u) = NoEvents
        BY <2>2, <3>1, EventsNone
    <3>3. NoEvents.open = None /\ NoEvents.close = FALSE /\ NoEvents.change = None
        BY SMT DEF NoEvents
    <3>4. ~Opens(NoEvents, ed[u])
      <4>1. [NoEvents EXCEPT !.open = ed[u]].open = ed[u]
          BY SMT DEF NoEvents
      <4> QED BY <3>3, <4>1 DEF Opens
    <3>5. Leads(NoEvents, overlays[u], ed[u])
        BY <3>2, <3>4 DEF Batch, Doc
    <3> QED BY <3>3, <3>5 DEF Leads
  <2> QED BY <2>1, <2>2
<1>5. r.overlays = ed
  <2>1. r.overlays = [u \in Uris |-> r.overlays[u]] /\ ed = [u \in Uris |-> ed[u]]
      BY <1>3
  <2>2. [u \in Uris |-> r.overlays[u]] = [u \in Uris |-> ed[u]]
      BY <1>4
  <2> QED BY <2>1, <2>2
<1> QED BY <1>2, <1>5

----------------------------------------------------------------------------
(* Every step *)

LEMMA PendingBatch ==
    ASSUME IInv
    PROVE  Batch(pending, editor) /\ pending \in Seq(Change) /\ \A u \in Uris : ~IsOpened(pending, editor, u)
<1>1. /\ editor \in [Uris -> Text] /\ overlays \in [Uris -> Text] /\ pending \in Seq(Change)
    BY OwnPaths DEF IInv, Typed, Queue
<1>2. \A u \in Uris : Leads(EventsOf(pending, u), overlays[u], editor[u])
    BY DEF IInv, Follow
<1>3. ASSUME NEW u \in Uris PROVE ~IsOpened(pending, editor, u)
  <2>1. EventsOf(pending, u).open = None
      BY <1>2 DEF Leads
  <2>2. Opens(EventsOf(pending, u), editor[u]) => EventsOf(pending, u).open # None
      BY SMT DEF Opens, NoEvents
  <2> QED BY <2>1, <2>2 DEF IsOpened
<1> QED BY <1>1, <1>2, <1>3 DEF Batch, Doc

(* The queue, and the open that makes the server process it.               *)
LEMMA OpenBatch ==
    ASSUME IInv, NEW u \in Uris, NEW c \in Contents, MayOpen(u)
    PROVE  LET s == Append(pending, Edit("open", u, c))
               ed == [editor EXCEPT ![u] = c]
           IN  Batch(s, ed) /\ s \in Seq(Change) /\ ed \in [Uris -> Text]
<1>1. /\ editor \in [Uris -> Text] /\ overlays \in [Uris -> Text] /\ pending \in Seq(Change)
    BY OwnPaths DEF IInv, Typed, Queue
<1>2. \A v \in Uris : Leads(EventsOf(pending, v), overlays[v], editor[v])
    BY DEF IInv, Follow
<1>3. PICK e : e = Edit("open", u, c)
    OBVIOUS
<1>4. e \in Change /\ e.kind = "open" /\ e.uri = u /\ e.content = c
  <2>1. "open" \in Kinds
      BY DEF Kinds
  <2> QED BY <1>3, <2>1, SMT DEF Edit, Change
<1>5. PICK ed : ed = [editor EXCEPT ![u] = c]
    OBVIOUS
<1>6. ed \in [Uris -> Text] /\ ed[u] = c /\ \A v \in Uris : v # u => ed[v] = editor[v]
    BY <1>1, <1>5 DEF Text
<1>7. PICK s : s = Append(pending, e)
    OBVIOUS
<1>8. s \in Seq(Change)
    BY <1>1, <1>4, <1>7, SMT
<1>9. ASSUME NEW v \in Uris PROVE EventsOf(s, v) = ReduceFor(v, EventsOf(pending, v), e)
    BY <1>1, <1>4, <1>7, EventsAppend
<1>10. Opens(EventsOf(s, u), ed[u])
  <2>1. Leads(EventsOf(pending, u), overlays[u], editor[u]) /\ e.kind = "open" /\ e.content \in Contents
      BY <1>2, <1>4
  <2>2. Opens(Reduce(EventsOf(pending, u), e), e.content)
      BY <2>1, ReduceSteps, OverlayAssumption
  <2>3. EventsOf(s, u) = Reduce(EventsOf(pending, u), e)
      BY <1>4, <1>9 DEF ReduceFor
  <2> QED BY <1>4, <1>6, <2>2, <2>3
<1>11. ASSUME NEW v \in Uris, v # u
       PROVE  Leads(EventsOf(s, v), overlays[v], ed[v]) /\ ~Opens(EventsOf(s, v), ed[v])
  <2>1. EventsOf(s, v) = EventsOf(pending, v) /\ ed[v] = editor[v]
      BY <1>4, <1>6, <1>9, <1>11 DEF ReduceFor
  <2>2. Leads(EventsOf(pending, v), overlays[v], editor[v]) /\ ~Opens(EventsOf(pending, v), editor[v])
      BY <1>2, PendingBatch DEF IsOpened
  <2> QED BY <2>1, <2>2
<1>12. Batch(s, ed)
  <2>1. \A v \in Uris : Doc(s, ed, v)
      BY <1>10, <1>11 DEF Doc
  <2>2. \A v, w \in Uris : IsOpened(s, ed, v) /\ IsOpened(s, ed, w) => v = w
      BY <1>11 DEF IsOpened
  <2> QED BY <1>1, <1>6, <2>1, <2>2 DEF Batch
<1> QED BY <1>3, <1>5, <1>6, <1>7, <1>8, <1>12

LEMMA FlushInv ==
    ASSUME IInv, NEW changes \in Seq(Change), NEW ed \in [Uris -> Text], Batch(changes, ed), editor' = ed,
           NEW all, NEW requested, NEW idle, FlushAndClone(changes, all, requested, idle),
           UNCHANGED <<disk, inflight, setting>>
    PROVE  IInv'
<1>1. PICK r \in processChanges(changes) :
        /\ panicked' = r.panic
        /\ Clone([r.summary EXCEPT !.invalidateAll = all, !.watched = @ \/ all], r.overlays, requested, idle)
        /\ pending' = <<>>
    BY DEF FlushAndClone
<1>2. r.overlays = ed /\ r.panic = FALSE
    BY ProcessedOverlays
<1>3. overlays' = ed
    BY <1>1, <1>2 DEF Clone
<1>4. Follow(<<>>, ed, ed)
  <2>1. \A u \in Uris : ed[u] \in Text
      OBVIOUS
  <2> QED BY <2>1, EventsEmpty, LeadsNothing DEF Follow
<1>5. Queue(<<>>) /\ Len(<<>>) <= MaxPending
  <2>1. MaxPending \in Nat
      BY SettingFacts DEF IInv, Typed
  <2>2. <<>> \in Seq(Change) /\ DOMAIN <<>> = {} /\ Len(<<>>) <= MaxPending
      BY <2>1, SMT
  <2> QED BY <2>2 DEF Queue
<1>6. Typed'
  <2>1. MaxPending' = MaxPending
      BY DEF MaxPending
  <2>2. disk' \in [Paths -> Text] /\ WatchQueue(inflight') /\ Len(inflight') <= MaxInflight /\ setting' \in Settings
      BY DEF IInv, Typed
  <2>3. Queue(pending') /\ Len(pending') <= MaxPending'
      BY <1>1, <1>5, <2>1
  <2>4. overlays' \in [Paths -> Text] /\ editor' \in [Uris -> Text]
      BY <1>3, OwnPaths
  <2> QED BY <2>2, <2>3, <2>4 DEF Typed
<1>7. panicked' = FALSE
    BY <1>1, <1>2
<1>8. Follow(pending', overlays', editor')
    BY <1>1, <1>3, <1>4
<1> QED BY <1>6, <1>7, <1>8 DEF IInv

LEMMA InitInv == UpdateInit => IInv
<1> SUFFICES ASSUME OverlayInit PROVE IInv
    BY DEF UpdateInit
<1>1. None \in Text
    BY DEF Text
<1>2. disk \in [Paths -> Text] /\ editor \in [Uris -> Text] /\ overlays \in [Paths -> Text] /\ setting \in Settings
    BY <1>1 DEF OverlayInit, Text
<1>3. Queue(<<>>) /\ WatchQueue(<<>>) /\ Len(<<>>) <= MaxPending /\ Len(<<>>) <= MaxInflight
  <2>1. MaxPending \in Nat /\ MaxInflight \in Nat
      BY <1>2, SettingFacts
  <2>2. <<>> \in Seq(Change) /\ DOMAIN <<>> = {} /\ Len(<<>>) <= MaxPending /\ Len(<<>>) <= MaxInflight
      BY <2>1, SMT
  <2> QED BY <2>2 DEF Queue, WatchQueue
<1>4. Follow(<<>>, overlays, editor)
  <2>1. \A u \in Uris : overlays[u] = None /\ editor[u] = None
      BY OwnPaths DEF OverlayInit
  <2> QED BY <1>1, <2>1, EventsEmpty, LeadsNothing DEF Follow
<1> QED BY <1>2, <1>3, <1>4 DEF IInv, Typed, OverlayInit

LEMMA StepInv == IInv /\ [UpdateNext]_updateVars => IInv'
<1> SUFFICES ASSUME IInv, [UpdateNext]_updateVars PROVE IInv'
    OBVIOUS
<1>1. /\ editor \in [Uris -> Text] /\ Touched \subseteq Uris /\ Contents \subseteq Text
      /\ disk \in [Paths -> Text]
    BY SettingFacts DEF IInv, Typed, Text
<1>2. ASSUME ClientStep, UNCHANGED setting PROVE IInv'
    BY <1>2, ClientInv DEF ClientStep
<1>3. ASSUME NEW u \in Touched, NEW c \in Contents, Open(u, c), UNCHANGED setting PROVE IInv'
  <2>1. u \in Uris /\ MayOpen(u) /\ editor' = [editor EXCEPT ![u] = c] /\ UNCHANGED <<disk, inflight, setting>>
        /\ FlushAndClone(Append(pending, Edit("open", u, c)), FALSE, TRUE, FALSE)
      BY <1>1, <1>3 DEF Open
  <2>2. PICK s : s = Append(pending, Edit("open", u, c))
      OBVIOUS
  <2>3. PICK ed : ed = [editor EXCEPT ![u] = c]
      OBVIOUS
  <2>4. Batch(s, ed) /\ s \in Seq(Change) /\ ed \in [Uris -> Text]
      BY <2>1, <2>2, <2>3, OpenBatch
  <2>5. editor' = ed /\ FlushAndClone(s, FALSE, TRUE, FALSE) /\ UNCHANGED <<disk, inflight, setting>>
      BY <2>1, <2>2, <2>3
  <2> QED BY <2>4, <2>5, FlushInv
<1>4. ASSUME NEW all, NEW requested, NEW idle, FlushAndClone(pending, all, requested, idle),
             UNCHANGED <<disk, editor, inflight, setting>>
      PROVE  IInv'
  <2>1. Batch(pending, editor) /\ pending \in Seq(Change)
      BY PendingBatch
  <2>2. editor' = editor /\ UNCHANGED <<disk, inflight, setting>>
      BY <1>4
  <2> QED BY <1>1, <1>4, <2>1, <2>2, FlushInv
<1>5. ASSUME getSnapshot \/ IdleCacheClean \/ APIInvalidateAll, UNCHANGED setting PROVE IInv'
    BY <1>4, <1>5 DEF getSnapshot, IdleCacheClean, APIInvalidateAll
<1>6. ASSUME NEW p \in Paths, NEW c \in Contents \cup {None}, UnwatchedWrite(p, c), UNCHANGED setting PROVE IInv'
  <2>1. disk' \in [Paths -> Text]
      BY <1>1, <1>6 DEF UnwatchedWrite, Text
  <2>2. UNCHANGED <<editor, inflight, pending, overlays, panicked, setting>>
      BY <1>6 DEF UnwatchedWrite
  <2>3. MaxPending' = MaxPending
      BY <1>6 DEF MaxPending
  <2> QED BY <2>1, <2>2, <2>3 DEF IInv, Typed
<1>7. ASSUME UNCHANGED updateVars PROVE IInv'
  <2>1. UNCHANGED <<disk, editor, inflight, pending, overlays, panicked, setting>>
      BY <1>7 DEF updateVars, fileVars
  <2>2. MaxPending' = MaxPending
      BY <2>1 DEF MaxPending
  <2> QED BY <2>1, <2>2 DEF IInv, Typed
<1> QED BY <1>2, <1>3, <1>5, <1>6, <1>7 DEF UpdateNext

LEMMA AlwaysInv == UpdateSpec => []IInv
BY InitInv, StepInv, PTL DEF UpdateSpec

(* For every client that follows the protocol, every set of documents and  *)
(* every batch, processChanges reaches none of its panics: no change after *)
(* an open or a close, no edit, save or close without an overlay, never    *)
(* two opens at a time.                                                    *)
THEOREM ChangesDoNotPanic == UpdateSpec => []NoPanic
<1>1. ASSUME IInv PROVE NoPanic
  <2>1. ASSUME NEW s \in Seq(Change) PROVE \A i \in DOMAIN s : s[i] \in Change
      BY SMT
  <2>2. \A i \in DOMAIN pending : pending[i] \in Change
      BY <1>1, <2>1 DEF IInv, Typed, Queue
  <2>3. \A i \in DOMAIN inflight : inflight[i] \in Change
      BY <1>1, <2>1 DEF IInv, Typed, WatchQueue
  <2> QED BY <1>1, <2>2, <2>3 DEF IInv, Typed, Queue, WatchQueue, NoPanic, OverlayTypeOK, Text
<1> QED BY <1>1, AlwaysInv, PTL

(* Whenever the queue has been processed, the overlays are the documents   *)
(* open in the editor with their latest text, in whichever order           *)
(* processChanges visits the documents of a batch.                         *)
THEOREM OverlaysAreTheDocuments == UpdateSpec => []OverlaysFollowEditor
<1>1. ASSUME IInv PROVE OverlaysFollowEditor
  <2> SUFFICES ASSUME pending = <<>>, NEW u \in Uris PROVE overlays[u] = editor[u]
      BY OwnPaths DEF OverlaysFollowEditor
  <2>1. Leads(NoEvents, overlays[u], editor[u])
      BY <1>1, EventsEmpty DEF IInv, Follow
  <2>2. NoEvents.change = None /\ NoEvents.close = FALSE
      BY SMT DEF NoEvents
  <2> QED BY <2>1, <2>2 DEF Leads
<1> QED BY <1>1, AlwaysInv, PTL

----------------------------------------------------------------------------
(* The types of the cache and of the project *)

Entry == DiskFile \cup {None}
Cache == [Paths -> Entry]

LEMMA EntryIs ==
    ASSUME NEW c \in Contents, NEW f \in DiskFile, NEW b \in BOOLEAN
    PROVE  /\ [content |-> c, needsReload |-> b] \in DiskFile /\ [f EXCEPT !.needsReload = b] \in DiskFile
           /\ [content |-> c, needsReload |-> b].content = c /\ [content |-> c, needsReload |-> b].needsReload = b
           /\ [f EXCEPT !.needsReload = b].needsReload = b /\ f.content \in Contents /\ f.needsReload \in BOOLEAN
<1>1. [f EXCEPT !.needsReload = b] \in DiskFile
    BY SMT DEF DiskFile
<1>2. [f EXCEPT !.needsReload = b].needsReload = b /\ f.content \in Contents /\ f.needsReload \in BOOLEAN
    BY SMT DEF DiskFile
<1> QED BY <1>1, <1>2, SMT DEF DiskFile

LEMMA MarkedEntry ==
    ASSUME NEW f \in DiskFile
    PROVE  [f EXCEPT !.needsReload = TRUE] \in DiskFile /\ [f EXCEPT !.needsReload = TRUE].needsReload = TRUE
<1>1. f.content \in Contents
    BY SMT DEF DiskFile
<1> QED BY <1>1, EntryIs

(* What is read from disk.                                                 *)
OnDisk(p) == [content |-> disk[p], needsReload |-> FALSE]

LEMMA ReadEntry ==
    ASSUME disk \in [Paths -> Text], NEW p \in Paths, disk[p] # None
    PROVE  OnDisk(p) \in DiskFile /\ OnDisk(p).content = disk[p] /\ OnDisk(p).needsReload = FALSE
<1>1. disk[p] \in Contents
    BY DEF Text
<1> QED BY <1>1, SMT DEF OnDisk, DiskFile

LEMMA ReloadType ==
    ASSUME disk \in [Paths -> Text], NEW df \in Cache, NEW p \in Paths
    PROVE  reloadEntryIfNeeded(df, p) \in Entry
<1>1. df[p] \in Entry
    BY DEF Cache
<1> QED BY <1>1, ReadEntry DEF reloadEntryIfNeeded, Entry, OnDisk

LEMMA GetFileType ==
    ASSUME disk \in [Paths -> Text], NEW df \in Cache, NEW ov \in [Paths -> Text], NEW p \in Paths
    PROVE  GetFile(df, ov, p) \in Text
<1>1. PICK f : f = reloadEntryIfNeeded(df, p)
    OBVIOUS
<1>2. f \in Entry
    BY <1>1, ReloadType
<1>3. f # None => f.content \in Contents
    BY <1>2, SMT DEF Entry, DiskFile
<1> QED BY <1>1, <1>3 DEF GetFile, Text

LEMMA ReadFilesType ==
    ASSUME disk \in [Paths -> Text], NEW df \in Cache, NEW ov, NEW S
    PROVE  ReadFiles(df, ov, S) \in Cache
<1>1. \A p \in Paths : reloadEntryIfNeeded(df, p) \in Entry /\ df[p] \in Entry
    BY ReloadType DEF Cache
<1> QED BY <1>1 DEF ReadFiles, Cache

LEMMA ProjectFields ==
    ASSUME NEW pr \in Project
    PROVE  /\ pr.loaded \in BOOLEAN /\ pr.files \in [Paths -> Text] /\ pr.dirty \in BOOLEAN
           /\ pr.dirtyFilePath \in Paths \cup {None} /\ pr.seenFiles \in SUBSET Paths
           /\ pr.missingDirectories \in SUBSET Paths /\ pr.rootNames \in SUBSET Roots /\ pr.pendingReload \in BOOLEAN
BY SMT DEF Project, Text

LEMMA SetFlag ==
    ASSUME NEW pr \in Project, NEW b \in BOOLEAN
    PROVE  /\ [pr EXCEPT !.loaded = b] \in Project /\ [pr EXCEPT !.dirty = b] \in Project
           /\ [pr EXCEPT !.pendingReload = b] \in Project
<1>1. [pr EXCEPT !.loaded = b] \in Project
    BY SMT DEF Project
<1>2. [pr EXCEPT !.dirty = b] \in Project
    BY SMT DEF Project
<1>3. [pr EXCEPT !.pendingReload = b] \in Project
    BY SMT DEF Project
<1> QED BY <1>1, <1>2, <1>3

LEMMA SetDirtyFile ==
    ASSUME NEW pr \in Project, NEW d \in Paths \cup {None}
    PROVE  [pr EXCEPT !.dirtyFilePath = d] \in Project
BY SMT DEF Project

LEMMA SetFiles ==
    ASSUME NEW pr \in Project, NEW f \in [Paths -> Text]
    PROVE  [pr EXCEPT !.files = f] \in Project
BY SMT DEF Project, Text

LEMMA SetSeen ==
    ASSUME NEW pr \in Project, NEW S \in SUBSET Paths
    PROVE  [pr EXCEPT !.seenFiles = S] \in Project /\ [pr EXCEPT !.missingDirectories = S] \in Project
<1>1. [pr EXCEPT !.seenFiles = S] \in Project
    BY SMT DEF Project
<1>2. [pr EXCEPT !.missingDirectories = S] \in Project
    BY SMT DEF Project
<1> QED BY <1>1, <1>2

LEMMA SetRoots ==
    ASSUME NEW pr \in Project, NEW R \in SUBSET Roots
    PROVE  [pr EXCEPT !.rootNames = R] \in Project
BY SMT DEF Project

(* The project after the changes are marked.                               *)
LEMMA Redirtied ==
    ASSUME NEW pr \in Project, NEW d \in Paths \cup {None}
    PROVE  [pr EXCEPT !.dirty = TRUE, !.dirtyFilePath = d] \in Project
<1>1. PICK q \in Project : q = [pr EXCEPT !.dirty = TRUE]
    BY SetFlag
<1>2. [q EXCEPT !.dirtyFilePath = d] \in Project
    BY SetDirtyFile
<1> QED BY <1>1, <1>2

LEMMA MarkConfigType ==
    ASSUME NEW pr \in Project, NEW s
    PROVE  MarkConfig(pr, s) \in Project
<1>1. PICK q \in Project : q = [pr EXCEPT !.pendingReload = TRUE]
    BY SetFlag
<1>2. [q EXCEPT !.dirty = TRUE, !.dirtyFilePath = None] \in Project
    BY Redirtied
<1>3. [q EXCEPT !.dirty = TRUE, !.dirtyFilePath = None]
        = [pr EXCEPT !.pendingReload = TRUE, !.dirty = TRUE, !.dirtyFilePath = None]
    BY <1>1
<1> QED BY <1>2, <1>3 DEF MarkConfig

LEMMA MarkFilesType ==
    ASSUME NEW pr \in Project, NEW S, NEW type
    PROVE  markFilesChanged(pr, S, type) \in Project
<1> DEFINE contained == S \cap Contained(pr)
           seen == (S \ Contained(pr)) \cap Seen(pr, type)
           dirtyFiles == contained \cup ({pr.dirtyFilePath} \ {None})
           d == IF type # "deleted" /\ seen = {} /\ Cardinality(dirtyFiles) = 1
                THEN CHOOSE p \in dirtyFiles : TRUE ELSE None
<1>1. dirtyFiles \subseteq Paths
    BY ProjectFields DEF Contained
<1>2. Cardinality(dirtyFiles) = 1 => dirtyFiles # {}
  <2>1. Cardinality({}) # 1
      BY FS_EmptySet, SMT
  <2> QED BY <2>1
<1> HIDE DEF dirtyFiles, contained, seen
<1>3. d \in Paths \cup {None}
    BY <1>1, <1>2
<1>4. markFilesChanged(pr, S, type) = pr \/ markFilesChanged(pr, S, type) = [pr EXCEPT !.dirty = TRUE, !.dirtyFilePath = d]
    BY DEF markFilesChanged, dirtyFiles, contained, seen
<1> HIDE DEF d
<1>5. [pr EXCEPT !.dirty = TRUE, !.dirtyFilePath = d] \in Project
    BY <1>3, Redirtied
<1> QED BY <1>4, <1>5

LEMMA DidChangeFilesType ==
    ASSUME NEW pr \in Project, NEW s
    PROVE  DidChangeFiles(pr, s) \in Project
<1>1. PICK q \in Project : q = MarkConfig(pr, s)
    BY MarkConfigType
<1>2. [q EXCEPT !.dirty = TRUE, !.dirtyFilePath = None] \in Project
    BY Redirtied
<1>3. markFilesChanged(markFilesChanged(markFilesChanged(q, s.changed, "changed"), s.deleted, "deleted"), s.created, "created")
        \in Project
    BY MarkFilesType
<1> QED BY <1>1, <1>2, <1>3 DEF DidChangeFiles

(* The project after its program is brought up to date.                    *)
LEMMA NewProgramType ==
    ASSUME disk \in [Paths -> Text], NEW df \in Cache, NEW ov \in [Paths -> Text], NEW pr \in Project, Roots \subseteq Paths
    PROVE  NewProgram(pr, df, ov) \in Project
<1> DEFINE file == [p \in Paths |-> GetFile(df, ov, p)]
           files == ProgramFiles(file, pr.rootNames)
           wanted == IF Imports(file, pr.rootNames) THEN Modules ELSE {}
           missing == {p \in wanted : disk[p] = None}
           seen == pr.rootNames \cup (wanted \ missing)
<1>1. \A p \in Paths : file[p] \in Text
    BY GetFileType
<1>2. files \in [Paths -> Text]
    BY <1>1 DEF ProgramFiles, Text
<1>3. seen \in SUBSET Paths /\ missing \in SUBSET Paths
    BY ProjectFields DEF Modules
<1>4. NewProgram(pr, df, ov) = [pr EXCEPT !.files = files, !.seenFiles = seen, !.missingDirectories = missing]
    BY DEF NewProgram
<1> HIDE DEF files, seen, missing
<1>5. PICK q \in Project : q = [pr EXCEPT !.files = files]
    BY <1>2, SetFiles
<1>6. PICK t \in Project : t = [q EXCEPT !.seenFiles = seen]
    BY <1>3, SetSeen
<1>7. [t EXCEPT !.missingDirectories = missing] \in Project
    BY <1>3, SetSeen
<1> QED BY <1>4, <1>5, <1>6, <1>7

LEMMA CloneProgramType ==
    ASSUME NEW pr \in Project, NEW text \in Text, pr.dirtyFilePath # None
    PROVE  CloneProgram(pr, text) \in Project
<1>1. pr.files \in [Paths -> Text] /\ pr.dirtyFilePath \in Paths
    BY ProjectFields
<1> DEFINE f == [pr.files EXCEPT ![pr.dirtyFilePath] = text]
<1>2. f \in [Paths -> Text]
    BY <1>1
<1>3. CloneProgram(pr, text) = [pr EXCEPT !.files = f, !.missingDirectories = {}]
    BY SMT DEF CloneProgram, Project
<1> HIDE DEF f
<1>4. PICK q \in Project : q = [pr EXCEPT !.files = f]
    BY <1>2, SetFiles
<1>5. [q EXCEPT !.missingDirectories = {}] \in Project
    BY SetSeen
<1> QED BY <1>3, <1>4, <1>5

LEMMA ReloadConfigType ==
    ASSUME NEW pr \in Project, NEW ov
    PROVE  reloadIfNeeded(pr, ov) \in Project /\ reloadIfNeeded(pr, ov).dirtyFilePath = pr.dirtyFilePath
<1> DEFINE R == {p \in Roots : disk[p] # None \/ ov[p] # None}
           n == [pr EXCEPT !.pendingReload = FALSE, !.rootNames = R]
<1>1. n \in Project
  <2>1. R \in SUBSET Roots
      OBVIOUS
  <2> HIDE DEF R
  <2>2. PICK q \in Project : q = [pr EXCEPT !.pendingReload = FALSE]
      BY SetFlag
  <2>3. [q EXCEPT !.rootNames = R] \in Project
      BY <2>1, SetRoots
  <2> QED BY <2>2, <2>3
<1>2. n.dirtyFilePath = pr.dirtyFilePath
    BY SMT DEF Project
<1> HIDE DEF n
<1>3. reloadIfNeeded(pr, ov) = pr \/ reloadIfNeeded(pr, ov) = n
    BY DEF reloadIfNeeded, n
<1> QED BY <1>1, <1>2, <1>3

LEMMA UpdateProgramType ==
    ASSUME disk \in [Paths -> Text], NEW df \in Cache, NEW ov \in [Paths -> Text], NEW pr \in Project, Roots \subseteq Paths
    PROVE  /\ updateProgram(pr, df, ov).project \in Project
           /\ \/ updateProgram(pr, df, ov).cache = df
              \/ \E S : updateProgram(pr, df, ov).cache = ReadFiles(df, ov, S)
<1> DEFINE config == reloadIfNeeded(pr, ov)
           text == GetFile(df, ov, pr.dirtyFilePath)
           clone == /\ pr.loaded /\ ~pr.pendingReload /\ pr.dirtyFilePath # None
                    /\ canReplaceFileInProgram(pr, text)
           built == IF clone THEN CloneProgram(config, text) ELSE NewProgram(config, df, ov)
           final == [built EXCEPT !.loaded = TRUE, !.dirty = FALSE, !.dirtyFilePath = None]
           read == ReadFiles(df, ov, IF clone THEN {pr.dirtyFilePath} ELSE Contained(built))
<1>1. config \in Project /\ config.dirtyFilePath = pr.dirtyFilePath
    BY ReloadConfigType
<1>2. clone => text \in Text
    BY GetFileType, ProjectFields
<1>3. clone => CloneProgram(config, text) \in Project
  <2> HIDE DEF config, text
  <2>1. clone => config.dirtyFilePath # None
      BY <1>1
  <2> HIDE DEF clone
  <2> QED BY <1>1, <1>2, <2>1, CloneProgramType
<1>4. NewProgram(config, df, ov) \in Project
    BY <1>1, NewProgramType
<1>5. built \in Project
  <2> HIDE DEF clone, config, text
  <2> QED BY <1>3, <1>4
<1>6. /\ ~pr.dirty /\ ~pr.pendingReload => updateProgram(pr, df, ov) = [project |-> pr, new |-> FALSE, cache |-> df]
      /\ ~(~pr.dirty /\ ~pr.pendingReload) => updateProgram(pr, df, ov) = [project |-> final, new |-> ~clone, cache |-> read]
    BY DEF updateProgram
<1> HIDE DEF built, clone
<1>7. final \in Project
  <2>1. PICK q \in Project : q = [built EXCEPT !.loaded = TRUE]
      BY <1>5, SetFlag
  <2>2. PICK t \in Project : t = [q EXCEPT !.dirty = FALSE]
      BY SetFlag
  <2>3. [t EXCEPT !.dirtyFilePath = None] \in Project
      BY SetDirtyFile
  <2> QED BY <2>1, <2>2, <2>3
<1>8. \E S : read = ReadFiles(df, ov, S)
    OBVIOUS
<1> HIDE DEF final, read
<1>9. PICK u : u = updateProgram(pr, df, ov)
    OBVIOUS
<1>10. CASE ~pr.dirty /\ ~pr.pendingReload
  <2>1. u = [project |-> pr, new |-> FALSE, cache |-> df]
      BY <1>6, <1>9, <1>10
  <2>2. u.project = pr /\ u.cache = df
      BY <2>1
  <2> QED BY <1>9, <2>2
<1>11. CASE ~(~pr.dirty /\ ~pr.pendingReload)
  <2>1. u = [project |-> final, new |-> ~clone, cache |-> read]
      BY <1>6, <1>9, <1>11
  <2>2. u.project = final /\ u.cache = read
      BY <2>1
  <2> QED BY <1>7, <1>8, <1>9, <2>2
<1> QED BY <1>10, <1>11

----------------------------------------------------------------------------
(* Cached files are fresh *)

(* A batch cannot reach the threshold, and files other programs create or  *)
(* delete are reported at once.                                            *)
Modest == \A e \in Settings : 3 * (e.maxPending + 1) <= Threshold /\ (e.delayed => e.volatile = {})

(* An entry is used as it is.                                              *)
Live(p) == ~untold /\ overlays[p] = None /\ diskFiles[p] # None /\ ~diskFiles[p].needsReload

(* Events ev, or one on its way, will make the server read a file again    *)
(* that is d on disk and f in the cache.                                   *)
Noticed(ev, d, f, coming) == ~ev.created /\ (d # f => ev.deleted \/ (d # None /\ (ev.watchChanged \/ coming)))
Coming(q, p) == \E i \in DOMAIN q : q[i].uri = p

(* Late events are about files that exist all the time.                    *)
World ==
    /\ \A p \in Paths \ Volatile : disk[p] # None
    /\ Delayed => Volatile = {}
    /\ ~Delayed => inflight = <<>>
    /\ \A i \in DOMAIN inflight : inflight[i].kind = "changed"

NoticedOf(p) == Noticed(EventsOf(pending, p), disk[p], diskFiles[p].content, Coming(inflight, p))
FInv ==
    /\ diskFiles \in Cache /\ project \in Project /\ World
    /\ \A p \in Paths : Live(p) => NoticedOf(p)

(* An entry that is marked, up to date, or about to be marked.             *)
Good(f, p) == f \in Entry /\ (f # None /\ ~f.needsReload => f.content = disk[p] \/ Coming(inflight, p))

(* The summary of a batch, with the flags of the request.                  *)
Asked(s, all) == [s EXCEPT !.invalidateAll = all, !.watched = @ \/ all]

LEMMA AskedFields ==
    ASSUME NEW s \in SummaryType, NEW all \in BOOLEAN
    PROVE  LET n == Asked(s, all)
           IN  /\ n.closed = s.closed /\ n.changed = s.changed /\ n.created = s.created /\ n.deleted = s.deleted
               /\ n.invalidateAll = all /\ (all => n.watched) /\ n.opened = s.opened
BY SMT DEF Asked, SummaryType

(* A small batch is not excessive.                                         *)
LEMMA NotExcessive ==
    ASSUME NEW changes \in Seq(Change), 3 * Len(changes) <= Threshold, NEW s,
           s.invalidateAll = FALSE, s.changed \in SUBSET Changed(changes), s.created \in SUBSET Changed(changes),
           s.deleted \in SUBSET Changed(changes)
    PROVE  ~HasExcessiveWatchEvents(s)
<1>1. /\ IsFiniteSet(Changed(changes)) /\ Cardinality(Changed(changes)) \in Nat
      /\ Cardinality(Changed(changes)) <= Len(changes) /\ Len(changes) \in Nat /\ Threshold \in Nat
  <2>1. Len(changes) \in Nat
      BY SMT
  <2> QED BY <2>1, ChangedFinite, UpdateAssumption
<1>2. ASSUME NEW T \in SUBSET Changed(changes) PROVE Cardinality(T) \in Nat /\ Cardinality(T) <= Len(changes)
  <2>1. IsFiniteSet(Changed(changes))
      BY <1>1
  <2>2. IsFiniteSet(T) /\ Cardinality(T) <= Cardinality(Changed(changes))
      BY <2>1, FS_Subset
  <2>3. Cardinality(T) \in Nat
      BY <2>2, FS_CardinalityType
  <2> QED BY <1>1, <2>2, <2>3, SMT
<1>3. PICK i, j, k \in Nat : /\ i = Cardinality(s.created) /\ j = Cardinality(s.deleted) /\ k = Cardinality(s.changed)
                             /\ i <= Len(changes) /\ j <= Len(changes) /\ k <= Len(changes)
    BY <1>2
<1>4. ~(i + j + k > Threshold)
    BY <1>1, <1>3, SMT
<1> QED BY <1>3, <1>4 DEF HasExcessiveWatchEvents

LEMMA InvalidatedGood ==
    ASSUME diskFiles \in Cache
    PROVE  invalidateCache(diskFiles) \in Cache /\ \A p \in Paths : Good(invalidateCache(diskFiles)[p], p)
<1>1. ASSUME NEW p \in Paths
      PROVE  /\ invalidateCache(diskFiles)[p] \in Entry
             /\ invalidateCache(diskFiles)[p] # None => invalidateCache(diskFiles)[p].needsReload
  <2>1. diskFiles[p] \in Entry
      BY DEF Cache
  <2>2. diskFiles[p] # None =>
            /\ [diskFiles[p] EXCEPT !.needsReload = TRUE] \in DiskFile
            /\ [diskFiles[p] EXCEPT !.needsReload = TRUE].needsReload = TRUE
      BY <2>1, MarkedEntry DEF Entry
  <2>3. invalidateCache(diskFiles)[p] = IF diskFiles[p] = None THEN None ELSE [diskFiles[p] EXCEPT !.needsReload = TRUE]
      BY DEF invalidateCache
  <2> QED BY <2>2, <2>3 DEF Entry
<1>2. invalidateCache(diskFiles) \in Cache
    BY <1>1 DEF invalidateCache, Cache
<1> QED BY <1>1, <1>2 DEF Good

LEMMA MarkedType ==
    ASSUME diskFiles \in Cache, NEW s
    PROVE  /\ markDirtyFiles(diskFiles, s) \in Cache
           /\ \A p \in Paths : \/ markDirtyFiles(diskFiles, s)[p] = None
                               \/ markDirtyFiles(diskFiles, s)[p].needsReload
                               \/ /\ p \notin s.deleted /\ p \notin s.changed
                                  /\ markDirtyFiles(diskFiles, s)[p] = diskFiles[p]
<1> DEFINE md == markDirtyFiles(diskFiles, s)
<1>1. ASSUME NEW p \in Paths
      PROVE  /\ md[p] \in Entry
             /\ md[p] = None \/ md[p].needsReload \/ (p \notin s.deleted /\ p \notin s.changed /\ md[p] = diskFiles[p])
  <2>1. diskFiles[p] \in Entry /\ None \in Entry
      BY DEF Cache, Entry
  <2>2. diskFiles[p] # None =>
            /\ [diskFiles[p] EXCEPT !.needsReload = TRUE] \in DiskFile
            /\ [diskFiles[p] EXCEPT !.needsReload = TRUE].needsReload = TRUE
      BY <2>1, MarkedEntry DEF Entry
  <2>3. md[p] = IF p \in s.deleted THEN None
                ELSE IF p \in s.changed /\ diskFiles[p] # None THEN [diskFiles[p] EXCEPT !.needsReload = TRUE]
                ELSE diskFiles[p]
      BY DEF markDirtyFiles
  <2> QED BY <2>1, <2>2, <2>3 DEF Entry
<1>2. md \in Cache
    BY <1>1 DEF markDirtyFiles, Cache
<1> QED BY <1>1, <1>2

(* A batch about the documents ed whose events for documents that are not  *)
(* open are those of the queue.                                            *)
SmallBatch(changes, ed) ==
    /\ Batch(changes, ed) /\ 3 * Len(changes) <= Threshold
    /\ \A p \in Uris : ed[p] = None => EventsOf(changes, p) = EventsOf(pending, p)

(* What a batch makes of a document that is not open afterwards.           *)
LEMMA ClosedOrQuiet ==
    ASSUME NEW changes, NEW ed, Batch(changes, ed), NEW r, Done(changes, ed, Changed(changes), r),
           changes \in Seq(Change), NEW p \in Uris, ed[p] = None
    PROVE  \/ p \in r.summary.closed
           \/ /\ overlays[p] = None
              /\ EventsOf(changes, p).deleted => p \in r.summary.deleted
              /\ EventsOf(changes, p).watchChanged => p \in r.summary.changed
<1>1. PICK ev : ev = EventsOf(changes, p)
    OBVIOUS
<1>2. Leads(ev, overlays[p], ed[p])
  <2>1. ~Opens(ev, ed[p])
      BY DEF Opens
  <2> QED BY <1>1, <2>1 DEF Batch, Doc
<1>3. ASSUME ev # NoEvents PROVE p \in Changed(changes)
  <2>1. DOMAIN changes = 1..Len(changes) /\ Len(changes) \in Nat
      BY SMT
  <2> QED BY <1>1, <1>3, <2>1, EventsNone
<1>4. NoEvents.close = FALSE /\ NoEvents.deleted = FALSE /\ NoEvents.watchChanged = FALSE
    BY SMT DEF NoEvents
<1>5. CASE ev.close
  <2>1. p \in Changed(changes)
      BY <1>3, <1>4, <1>5
  <2> QED BY <1>1, <1>5, <2>1 DEF Done
<1>6. CASE ~ev.close
  <2>1. overlays[p] = None
      BY <1>2, <1>6 DEF Leads
  <2>2. ev.deleted => p \in r.summary.deleted
    <3>1. ev.deleted => p \in Changed(changes)
        BY <1>3, <1>4
    <3> QED BY <1>1, <3>1 DEF Done, DeletedDoc
  <2>3. ev.watchChanged => p \in r.summary.changed
    <3>1. ev.watchChanged => p \in Changed(changes)
        BY <1>3, <1>4
    <3>2. ~Opens(ev, ed[p])
        BY DEF Opens
    <3> QED BY <1>1, <3>1, <3>2 DEF Done, Changes, ChangedDoc
  <2> QED BY <1>1, <2>1, <2>2, <2>3
<1> QED BY <1>5, <1>6

LEMMA CacheOf ==
    ASSUME NEW a, NEW c, NEW s, a = [cache |-> c, summary |-> s]
    PROVE  a.cache = c
OBVIOUS

(* The cache after the changes were applied to it.                         *)
LEMMA AppliedGood ==
    ASSUME disk \in [Paths -> Text], FInv, NEW changes \in Seq(Change), NEW ed, SmallBatch(changes, ed),
           NEW all \in BOOLEAN, NEW r \in processChanges(changes)
    PROVE  LET c == ApplyToCache(diskFiles, Asked(r.summary, all), overlays, ed).cache
           IN  c \in Cache /\ \A p \in Paths : ed[p] = None /\ (all \/ ~untold) => Good(c[p], p)
<1>1. PICK s : s = Asked(r.summary, all)
    OBVIOUS
<1>2. Done(changes, ed, Changed(changes), r) /\ Batch(changes, ed)
    BY Processed DEF SmallBatch
<1>3. /\ s.closed = r.summary.closed /\ s.changed = r.summary.changed /\ s.created = r.summary.created
      /\ s.deleted = r.summary.deleted /\ s.invalidateAll = all /\ (all => s.watched)
  <2>1. r.summary \in SummaryType
      BY <1>2, ResultFields DEF Done
  <2> QED BY <1>1, <2>1, AskedFields
<1>4. diskFiles \in Cache
    BY DEF FInv
<1>5. CASE all
  <2>1. HasExcessiveWatchEvents(s) /\ s.invalidateAll
      BY <1>3, <1>5 DEF HasExcessiveWatchEvents
  <2>2. ApplyToCache(diskFiles, s, overlays, ed) = [cache |-> invalidateCache(diskFiles), summary |-> s]
      BY <2>1 DEF ApplyToCache
  <2>3. ApplyToCache(diskFiles, s, overlays, ed).cache = invalidateCache(diskFiles)
      BY <2>2, CacheOf
  <2> QED BY <1>1, <1>4, <2>3, InvalidatedGood
<1>6. CASE ~all
  <2>1. ~HasExcessiveWatchEvents(s)
    <3>1. /\ s.changed \in SUBSET Changed(changes) /\ s.created \in SUBSET Changed(changes)
          /\ s.deleted \in SUBSET Changed(changes)
        BY <1>2, <1>3 DEF Done
    <3>2. s.invalidateAll = FALSE /\ 3 * Len(changes) <= Threshold
        BY <1>3, <1>6 DEF SmallBatch
    <3> QED BY <3>1, <3>2, NotExcessive
  <2>2. PICK md : md = markDirtyFiles(diskFiles, s)
      OBVIOUS
  <2>3. /\ md \in Cache
        /\ \A p \in Paths : \/ md[p] = None \/ md[p].needsReload
                            \/ p \notin s.deleted /\ p \notin s.changed /\ md[p] = diskFiles[p]
      BY <1>4, <2>2, MarkedType
  <2>4. PICK c : c = [p \in Paths |-> IF p \notin s.closed THEN md[p] ELSE IF disk[p] = None THEN None ELSE OnDisk(p)]
      OBVIOUS
  <2>5. ApplyToCache(diskFiles, s, overlays, ed).cache = c
    <3>1. ApplyToCache(diskFiles, s, overlays, ed) = convertOpenAndCloseToChanges(md, s, overlays, ed)
        BY <2>1, <2>2 DEF ApplyToCache
    <3>2. \E t : convertOpenAndCloseToChanges(md, s, overlays, ed) = [cache |-> c, summary |-> t]
        BY <2>4 DEF convertOpenAndCloseToChanges, OnDisk
    <3> QED BY <3>1, <3>2, CacheOf
  <2>6. ASSUME NEW p \in Paths PROVE disk[p] # None => OnDisk(p) \in Entry /\ Good(OnDisk(p), p)
      BY ReadEntry DEF Good, Entry
  <2>7. c \in Cache
    <3>1. \A p \in Paths : md[p] \in Entry /\ None \in Entry
        BY <2>3 DEF Cache, Entry
    <3> QED BY <2>4, <2>6, <3>1 DEF Cache
  <2>8. ASSUME NEW p \in Paths, ed[p] = None, ~untold PROVE Good(c[p], p)
    <3>1. c[p] = IF p \notin s.closed THEN md[p] ELSE IF disk[p] = None THEN None ELSE OnDisk(p)
        BY <2>4
    <3>2. Good(None, p)
        BY DEF Good, Entry
    <3>3. CASE p \in s.closed
        BY <2>6, <3>1, <3>2, <3>3
    <3>4. CASE p \notin s.closed
      <4>1. p \in Uris /\ p \notin r.summary.closed
          BY <1>3, <3>4, OwnPaths
      <4>2. /\ overlays[p] = None
            /\ EventsOf(changes, p).deleted => p \in r.summary.deleted
            /\ EventsOf(changes, p).watchChanged => p \in r.summary.changed
          BY <1>2, <2>8, <4>1, ClosedOrQuiet
      <4>3. EventsOf(changes, p) = EventsOf(pending, p)
          BY <2>8, <4>1 DEF SmallBatch
      <4>4. md[p] \in Entry
          BY <2>3 DEF Cache
      <4>5. CASE md[p] = None \/ md[p].needsReload
          BY <3>1, <3>4, <4>4, <4>5 DEF Good
      <4>6. CASE p \notin s.deleted /\ p \notin s.changed /\ md[p] = diskFiles[p] /\ md[p] # None /\ ~md[p].needsReload
        <5>1. Live(p)
            BY <2>8, <4>2, <4>6 DEF Live
        <5>2. NoticedOf(p)
            BY <5>1 DEF FInv
        <5>3. ~EventsOf(pending, p).deleted /\ ~EventsOf(pending, p).watchChanged
            BY <1>3, <4>2, <4>3, <4>6
        <5>4. diskFiles[p].content = disk[p] \/ Coming(inflight, p)
            BY <5>2, <5>3 DEF NoticedOf, Noticed
        <5> QED BY <3>1, <3>4, <4>4, <4>6, <5>4 DEF Good
      <4> QED BY <2>3, <4>5, <4>6
    <3> QED BY <3>3, <3>4
  <2> QED BY <1>1, <1>6, <2>5, <2>7, <2>8
<1> QED BY <1>5, <1>6

(* Reading files keeps entries good.                                       *)
LEMMA ReadGood ==
    ASSUME disk \in [Paths -> Text], NEW df \in Cache, NEW ov, NEW S, NEW p \in Paths, Good(df[p], p)
    PROVE  Good(ReadFiles(df, ov, S)[p], p)
<1>1. Good(reloadEntryIfNeeded(df, p), p)
  <2>1. Good(None, p)
      BY DEF Good, Entry
  <2>2. disk[p] # None => Good(OnDisk(p), p)
      BY ReadEntry DEF Good, Entry
  <2> QED BY <2>1, <2>2 DEF reloadEntryIfNeeded, OnDisk
<1> QED BY <1>1 DEF ReadFiles

LEMMA ClonedGood ==
    ASSUME disk \in [Paths -> Text], FInv, setting \in Settings, NEW s, NEW new \in [Paths -> Text],
           NEW requested \in BOOLEAN, NEW idle, Clone(s, new, requested, idle),
           NEW c \in Cache, c = ApplyToCache(diskFiles, s, overlays, new).cache
    PROVE  /\ project' \in Project /\ diskFiles' \in Cache /\ overlays' = new
           /\ \A p \in Paths : Good(c[p], p) => Good(diskFiles'[p], p)
<1>1. PICK a : a = ApplyToCache(diskFiles, s, overlays, new)
    OBVIOUS
<1>2. PICK m \in Project : m = DidChangeFiles(project, a.summary)
  <2>1. project \in Project
      BY DEF FInv
  <2> QED BY <2>1, DidChangeFilesType
<1>3. PICK up : up = IF requested THEN updateProgram(m, c, new) ELSE [project |-> m, new |-> FALSE, cache |-> c]
    OBVIOUS
<1>4. Roots \subseteq Paths
    BY UpdateAssumption DEF Roots
<1>5. up.project \in Project /\ (up.cache = c \/ \E S : up.cache = ReadFiles(c, new, S))
  <2>1. CASE requested
    <3>1. up = updateProgram(m, c, new)
        BY <1>3, <2>1
    <3>2. /\ updateProgram(m, c, new).project \in Project
          /\ \/ updateProgram(m, c, new).cache = c
             \/ \E S : updateProgram(m, c, new).cache = ReadFiles(c, new, S)
        BY <1>4, UpdateProgramType
    <3> QED BY <3>1, <3>2
  <2>2. CASE ~requested
    <3>1. up = [project |-> m, new |-> FALSE, cache |-> c]
        BY <1>3, <2>2
    <3>2. up.project = m /\ up.cache = c
        BY <3>1
    <3> QED BY <3>2
  <2> QED BY <2>1, <2>2
<1>6. up.cache \in Cache /\ \A p \in Paths : Good(c[p], p) => Good(up.cache[p], p)
    BY <1>5, ReadFilesType, ReadGood
<1>7. PICK drop : /\ project' = up.project /\ overlays' = new
                  /\ diskFiles' = [p \in Paths |-> IF drop /\ p \notin up.project.seenFiles THEN None ELSE up.cache[p]]
    BY <1>1, <1>2, <1>3 DEF Clone
<1>8. diskFiles' \in Cache
  <2>1. \A p \in Paths : up.cache[p] \in Entry /\ None \in Entry
      BY <1>6 DEF Cache, Entry
  <2> QED BY <1>7, <2>1 DEF Cache
<1>9. ASSUME NEW p \in Paths, Good(c[p], p) PROVE Good(diskFiles'[p], p)
  <2>1. Good(None, p)
      BY DEF Good, Entry
  <2> QED BY <1>6, <1>7, <1>9, <2>1
<1> QED BY <1>5, <1>7, <1>8, <1>9

LEMMA FlushFresh ==
    ASSUME IInv, FInv, NEW changes \in Seq(Change), NEW ed \in [Uris -> Text], SmallBatch(changes, ed),
           NEW all \in BOOLEAN, NEW requested \in BOOLEAN, NEW idle, FlushAndClone(changes, all, requested, idle),
           UNCHANGED <<disk, inflight, setting>>, all \/ untold' = untold
    PROVE  FInv'
<1>1. PICK r \in processChanges(changes) :
        /\ Clone(Asked(r.summary, all), r.overlays, requested, idle)
        /\ pending' = <<>>
    BY DEF FlushAndClone, Asked
<1>2. r.overlays = ed
    BY ProcessedOverlays DEF SmallBatch
<1>3. disk \in [Paths -> Text] /\ setting \in Settings /\ ed \in [Paths -> Text]
    BY OwnPaths DEF IInv, Typed
<1>4. PICK c : c = ApplyToCache(diskFiles, Asked(r.summary, all), overlays, ed).cache
    OBVIOUS
<1>5. c \in Cache /\ \A p \in Paths : ed[p] = None /\ (all \/ ~untold) => Good(c[p], p)
    BY <1>3, <1>4, AppliedGood
<1>6. /\ project' \in Project /\ diskFiles' \in Cache /\ overlays' = ed
      /\ \A p \in Paths : Good(c[p], p) => Good(diskFiles'[p], p)
  <2>1. Clone(Asked(r.summary, all), ed, requested, idle)
      BY <1>1, <1>2
  <2> QED BY <1>3, <1>4, <1>5, <2>1, ClonedGood
<1>7. World'
    BY DEF FInv, World, Volatile, Delayed
<1>8. ASSUME NEW p \in Paths, Live(p)' PROVE NoticedOf(p)'
  <2>1. ~untold' /\ ed[p] = None /\ diskFiles'[p] # None /\ ~diskFiles'[p].needsReload
      BY <1>6, <1>8 DEF Live
  <2>2. Good(diskFiles'[p], p)
    <3>1. ed[p] = None /\ (all \/ ~untold)
        BY <2>1, SMT
    <3>2. Good(c[p], p)
        BY <1>5, <3>1
    <3> QED BY <1>6, <3>2
  <2>3. diskFiles'[p].content = disk[p] \/ Coming(inflight, p)
      BY <2>1, <2>2 DEF Good
  <2>4. Coming(inflight, p) => disk[p] # None
    <3>1. ASSUME Coming(inflight, p) PROVE inflight # <<>>
      <4>1. DOMAIN <<>> = {}
          BY SMT
      <4> QED BY <3>1, <4>1 DEF Coming
    <3> QED BY <3>1 DEF FInv, World
  <2>5. NoEvents.created = FALSE
      BY SMT DEF NoEvents
  <2>6. Noticed(NoEvents, disk[p], diskFiles'[p].content, Coming(inflight, p))
      BY <2>3, <2>4, <2>5 DEF Noticed
  <2>7. EventsOf(pending', p) = NoEvents
      BY <1>1, EventsEmpty
  <2> QED BY <2>6, <2>7 DEF NoticedOf, Coming
<1>9. Project' = Project
    BY DEF Project, Roots
<1> QED BY <1>6, <1>7, <1>8, <1>9 DEF FInv

(* Steps of the client.                                                    *)
LEMMA WatchTells ==
    ASSUME NEW ev \in Events, ~ev.created
    PROVE  /\ ~OnWatch(ev, "changed").created /\ OnWatch(ev, "changed").watchChanged
           /\ ev.deleted => ~OnWatch(ev, "create").created /\ OnWatch(ev, "create").watchChanged
           /\ ~OnWatch(ev, "delete").created /\ OnWatch(ev, "delete").deleted
<1>1. ~OnWatch(ev, "changed").created /\ OnWatch(ev, "changed").watchChanged
  <2>1. OnWatch(ev, "changed") = [ev EXCEPT !.watchChanged = TRUE, !.saved = FALSE]
      BY SMT DEF OnWatch
  <2>2. LET n == [ev EXCEPT !.watchChanged = TRUE, !.saved = FALSE]
        IN  n.created = ev.created /\ n.watchChanged = TRUE
      BY SMT DEF Events
  <2> QED BY <2>1, <2>2
<1>2. ev.deleted => ~OnWatch(ev, "create").created /\ OnWatch(ev, "create").watchChanged
  <2>1. ev.deleted => OnWatch(ev, "create") = [ev EXCEPT !.deleted = FALSE, !.watchChanged = TRUE]
      BY SMT DEF OnWatch
  <2>2. LET n == [ev EXCEPT !.deleted = FALSE, !.watchChanged = TRUE]
        IN  n.created = ev.created /\ n.watchChanged = TRUE
      BY SMT DEF Events
  <2> QED BY <2>1, <2>2
<1>3. ~OnWatch(ev, "delete").created /\ OnWatch(ev, "delete").deleted
  <2>1. OnWatch(ev, "delete") = [ev EXCEPT !.watchChanged = FALSE, !.saved = FALSE, !.created = FALSE,
                                           !.deleted = ev.deleted \/ ~ev.created]
      BY SMT DEF OnWatch
  <2>2. ASSUME NEW b \in BOOLEAN
        PROVE  LET n == [ev EXCEPT !.watchChanged = FALSE, !.saved = FALSE, !.created = FALSE, !.deleted = b]
               IN  n.created = FALSE /\ n.deleted = b
      BY SMT DEF Events
  <2>3. (ev.deleted \/ ~ev.created) = TRUE
      OBVIOUS
  <2> QED BY <2>1, <2>2, <2>3
<1> QED BY <1>1, <1>2, <1>3

LEMMA ReduceWatch ==
    ASSUME NEW ev, ev.open = None, NEW c, c.kind \in WatchKinds
    PROVE  Reduce(ev, c) = OnWatch(ev, c.kind)
<1>1. c.kind \notin {"open", "close", "change", "save"}
    BY SMT DEF WatchKinds
<1> QED BY <1>1, SMT DEF Reduce

LEMMA EventsOfOthers ==
    ASSUME NEW s \in Seq(Change), NEW c \in Change, NEW p, c.uri # p
    PROVE  EventsOf(Append(s, c), p) = EventsOf(s, p)
<1>1. EventsOf(Append(s, c), p) = ReduceFor(p, EventsOf(s, p), c)
    BY EventsAppend
<1> QED BY <1>1 DEF ReduceFor

LEMMA ComingMore ==
    ASSUME NEW s \in Seq(Change), NEW c \in Change, NEW p
    PROVE  (Coming(s, p) \/ c.uri = p) => Coming(Append(s, c), p)
<1>1. /\ DOMAIN Append(s, c) = 1..(Len(s) + 1) /\ DOMAIN s = 1..Len(s) /\ Len(s) \in Nat
      /\ Append(s, c)[Len(s) + 1] = c /\ \A i \in DOMAIN s : Append(s, c)[i] = s[i]
    BY SMT
<1>2. Len(s) + 1 \in DOMAIN Append(s, c) /\ \A i \in DOMAIN s : i \in DOMAIN Append(s, c)
    BY <1>1, SMT
<1> QED BY <1>1, <1>2 DEF Coming

LEMMA ChangedMore ==
    ASSUME NEW s \in Seq(Change), NEW c \in Change, c.kind = "changed", \A i \in DOMAIN s : s[i].kind = "changed"
    PROVE  \A i \in DOMAIN Append(s, c) : Append(s, c)[i].kind = "changed"
<1>1. \A i \in DOMAIN Append(s, c) : (i \in DOMAIN s /\ Append(s, c)[i] = s[i]) \/ Append(s, c)[i] = c
    BY SMT
<1> QED BY <1>1

LEMMA Untouched ==
    ASSUME FInv, NEW p \in Paths, Live(p), EventsOf(pending', p) = EventsOf(pending, p), disk'[p] = disk[p],
           Coming(inflight, p) => Coming(inflight', p), UNCHANGED diskFiles
    PROVE  NoticedOf(p)'
<1>1. Noticed(EventsOf(pending, p), disk[p], diskFiles[p].content, Coming(inflight, p))
    BY DEF FInv, NoticedOf
<1>2. Noticed(EventsOf(pending, p), disk[p], diskFiles[p].content, Coming(inflight', p))
    BY <1>1 DEF Noticed
<1>3. Noticed(EventsOf(pending', p), disk'[p], diskFiles'[p].content, Coming(inflight', p))
    BY <1>2
<1> QED BY <1>3 DEF NoticedOf, Coming

(* Where a watch event goes.                                               *)
LEMMA WatchGoes ==
    ASSUME pending \in Seq(Change), inflight \in Seq(Change), NEW w \in Change, Report(<<>>, <<w>>)
    PROVE  /\ Delayed => pending' = pending /\ inflight' = Append(inflight, w)
           /\ ~Delayed => pending' = Append(pending, w) /\ inflight' = inflight
BY SMT DEF Report, Room

LEMMA SaveGoes ==
    ASSUME pending \in Seq(Change), inflight \in Seq(Change), NEW e \in Change, NEW w \in Change, Report(<<e>>, <<w>>)
    PROVE  /\ Delayed => pending' = Append(pending, e) /\ inflight' = Append(inflight, w)
           /\ ~Delayed => pending' = Append(Append(pending, e), w) /\ inflight' = inflight
<1>1. \A s \in Seq(Change) : \A c \in Change : s \o <<c>> = Append(s, c) /\ Append(s, c) \in Seq(Change)
    BY SMT
<1>2. CASE Delayed
  <2>1. pending' = pending \o <<e>> /\ inflight' = inflight \o <<w>>
      BY <1>2 DEF Report
  <2> QED BY <1>1, <1>2, <2>1
<1>3. CASE ~Delayed
  <2>1. pending' = (pending \o <<e>>) \o <<w>> /\ inflight' = inflight
      BY <1>3 DEF Report
  <2>2. pending' = Append(pending, e) \o <<w>> /\ Append(pending, e) \in Seq(Change)
      BY <1>1, <2>1
  <2> QED BY <1>1, <1>3, <2>1, <2>2
<1> QED BY <1>2, <1>3

(* A document with no overlay is not open.                                 *)
LEMMA NotOpen ==
    ASSUME IInv, NEW p \in Uris, overlays[p] = None
    PROVE  editor[p] = None /\ EventsOf(pending, p) \in Events /\ EventsOf(pending, p).open = None
<1>1. Leads(EventsOf(pending, p), overlays[p], editor[p])
    BY DEF IInv, Follow
<1> QED BY <1>1 DEF Leads

(* A file has changed on disk and w says so.                               *)
LEMMA EventTells ==
    ASSUME IInv, FInv, NEW p \in Paths, Live(p), NEW w \in Change, w.uri = p, w.kind \in WatchKinds,
           Report(<<>>, <<w>>), w.kind \in {"create", "delete"} => ~Delayed,
           w.kind = "create" => disk[p] = None, (w.kind = "delete") = (disk'[p] = None), UNCHANGED diskFiles
    PROVE  NoticedOf(p)'
<1>1. PICK ev : ev = EventsOf(pending, p)
    OBVIOUS
<1>2. ev \in Events /\ ev.open = None
  <2>1. p \in Uris /\ overlays[p] = None
      BY OwnPaths DEF Live
  <2> QED BY <1>1, <2>1, NotOpen
<1>3. Noticed(ev, disk[p], diskFiles[p].content, Coming(inflight, p))
    BY <1>1 DEF FInv, NoticedOf
<1>4. ~ev.created
    BY <1>3 DEF Noticed
<1>5. pending \in Seq(Change) /\ inflight \in Seq(Change)
    BY DEF IInv, Typed, Queue, WatchQueue
<1>6. CASE Delayed
  <2>1. pending' = pending /\ inflight' = Append(inflight, w)
      BY <1>5, <1>6, WatchGoes
  <2>2. Coming(inflight', p)
      BY <1>5, <2>1, ComingMore
  <2>3. disk'[p] # None
      BY <1>6
  <2>4. Noticed(ev, disk'[p], diskFiles[p].content, Coming(inflight', p))
      BY <1>4, <2>2, <2>3 DEF Noticed
  <2> QED BY <1>1, <2>1, <2>4 DEF NoticedOf, Coming
<1>7. CASE ~Delayed
  <2>1. pending' = Append(pending, w)
      BY <1>5, <1>7, WatchGoes
  <2>2. EventsOf(pending', p) = OnWatch(ev, w.kind)
    <3>1. EventsOf(pending', p) = ReduceFor(p, ev, w)
        BY <1>1, <1>5, <2>1, EventsAppend
    <3>2. Reduce(ev, w) = OnWatch(ev, w.kind)
        BY <1>2, ReduceWatch
    <3> QED BY <3>1, <3>2 DEF ReduceFor
  <2>3. Noticed(OnWatch(ev, w.kind), disk'[p], diskFiles[p].content, Coming(inflight', p))
    <3>1. CASE w.kind = "changed"
      <4>1. disk'[p] # None
          BY <3>1
      <4>2. ~OnWatch(ev, "changed").created /\ OnWatch(ev, "changed").watchChanged
          BY <1>2, <1>4, WatchTells
      <4> QED BY <3>1, <4>1, <4>2 DEF Noticed
    <3>2. CASE w.kind = "create"
      <4>1. disk'[p] # None /\ disk[p] = None
          BY <3>2
      <4>2. diskFiles[p].content # None
        <5>1. diskFiles[p] \in DiskFile
            BY DEF FInv, Cache, Entry, Live
        <5>2. diskFiles[p].content \in Contents
            BY <5>1, SMT DEF DiskFile
        <5> QED BY <5>2, OverlayAssumption
      <4>3. ev.deleted
          BY <1>3, <4>1, <4>2 DEF Noticed
      <4>4. ~OnWatch(ev, "create").created /\ OnWatch(ev, "create").watchChanged
          BY <1>2, <1>4, <4>3, WatchTells
      <4> QED BY <3>2, <4>1, <4>4 DEF Noticed
    <3>3. CASE w.kind = "delete"
      <4>1. ~OnWatch(ev, "delete").created /\ OnWatch(ev, "delete").deleted
          BY <1>2, <1>4, WatchTells
      <4> QED BY <3>3, <4>1 DEF Noticed
    <3> QED BY <3>1, <3>2, <3>3 DEF WatchKinds
  <2> QED BY <2>2, <2>3 DEF NoticedOf, Coming
<1> QED BY <1>6, <1>7

(* What a step of the client keeps.                                        *)
Kept == UNCHANGED <<overlays, diskFiles, project, untold, setting>>

LEMMA KeptFresh ==
    ASSUME FInv, Kept, World', \A p \in Paths : Live(p) => NoticedOf(p)'
    PROVE  FInv'
<1>1. Project' = Project
    BY DEF Kept, Project, Roots
<1>2. \A p \in Paths : Live(p)' => Live(p)
    BY DEF Kept, Live
<1> QED BY <1>1, <1>2 DEF FInv, Kept

LEMMA QueueTypes ==
    ASSUME IInv
    PROVE  /\ pending \in Seq(Change) /\ inflight \in Seq(Change) /\ disk \in [Paths -> Text] /\ editor \in [Uris -> Text]
           /\ setting \in Settings /\ Touched \subseteq Uris
BY SettingFacts DEF IInv, Typed, Queue, WatchQueue

(* An edit is about a document that is open.                               *)
LEMMA EditFresh ==
    ASSUME IInv, FInv, Kept, NEW u \in Uris, editor[u] # None, NEW e \in Change, e.uri = u,
           pending' = Append(pending, e), UNCHANGED <<disk, inflight>>
    PROVE  FInv'
<1>1. World'
    BY DEF FInv, World, Volatile, Delayed, Kept
<1>2. ASSUME NEW p \in Paths, Live(p) PROVE NoticedOf(p)'
  <2>1. p # u
      BY <1>2, NotOpen DEF Live
  <2>2. EventsOf(pending', p) = EventsOf(pending, p)
      BY <2>1, QueueTypes, EventsOfOthers
  <2>3. disk'[p] = disk[p] /\ (Coming(inflight, p) => Coming(inflight', p)) /\ UNCHANGED diskFiles
      BY DEF Kept
  <2> QED BY <1>2, <2>2, <2>3, Untouched
<1> QED BY <1>1, <1>2, KeptFresh

LEMMA SaveFresh ==
    ASSUME IInv, FInv, Kept, NEW u \in Uris, DidSaveFile(u)
    PROVE  FInv'
<1>1. PICK e \in Change : e = Event("save", u) /\ e.uri = u
  <2>1. "save" \in Kinds
      BY DEF Kinds
  <2> QED BY <2>1, EventIs
<1>2. PICK w \in Change : w = WatchEvent(u, u) /\ w.uri = u
    BY WatchEventIs
<1>3. /\ editor[u] # None /\ disk' = [disk EXCEPT ![u] = editor[u]] /\ Report(<<e>>, <<w>>)
    BY <1>1, <1>2, OwnPaths DEF DidSaveFile
<1>4. /\ Delayed => pending' = Append(pending, e) /\ inflight' = Append(inflight, w)
      /\ ~Delayed => pending' = Append(Append(pending, e), w) /\ inflight' = inflight
    BY <1>3, QueueTypes, SaveGoes
<1>5. u \in Paths /\ disk'[u] = editor[u] /\ \A p \in Paths : p # u => disk'[p] = disk[p]
    BY <1>3, QueueTypes, OwnPaths
<1>6. World'
  <2>1. Volatile' = Volatile /\ Delayed' = Delayed
      BY DEF Volatile, Delayed, Kept
  <2>2. \A p \in Paths \ Volatile : disk'[p] # None
      BY <1>3, <1>5 DEF FInv, World
  <2>3. ASSUME Delayed PROVE \A i \in DOMAIN inflight' : inflight'[i].kind = "changed"
    <3>1. disk[u] # None
        BY <1>5, <2>3 DEF FInv, World
    <3>2. w.kind = "changed"
        BY <1>2, <3>1, SMT DEF WatchEvent, Event
    <3>3. \A i \in DOMAIN inflight : inflight[i].kind = "changed"
        BY DEF FInv, World
    <3>4. \A i \in DOMAIN Append(inflight, w) : Append(inflight, w)[i].kind = "changed"
        BY <3>2, <3>3, QueueTypes, ChangedMore
    <3> QED BY <1>4, <2>3, <3>4
  <2> QED BY <1>4, <2>1, <2>2, <2>3 DEF FInv, World
<1>7. ASSUME NEW p \in Paths, Live(p) PROVE NoticedOf(p)'
  <2>1. p # u
      BY <1>3, <1>7, NotOpen DEF Live
  <2>2. EventsOf(Append(pending, e), p) = EventsOf(pending, p) /\ Append(pending, e) \in Seq(Change)
    <3>1. Append(pending, e) \in Seq(Change)
        BY QueueTypes, SMT
    <3>2. e.uri # p
        BY <1>1, <2>1
    <3> QED BY <3>1, <3>2, QueueTypes, EventsOfOthers
  <2>3. EventsOf(Append(Append(pending, e), w), p) = EventsOf(Append(pending, e), p)
    <3>1. w.uri # p
        BY <1>2, <2>1
    <3> QED BY <2>2, <3>1, EventsOfOthers
  <2>4. EventsOf(pending', p) = EventsOf(pending, p)
      BY <1>4, <2>2, <2>3
  <2>5. Coming(inflight, p) => Coming(inflight', p)
    <3>1. Coming(inflight, p) => Coming(Append(inflight, w), p)
        BY QueueTypes, ComingMore
    <3> QED BY <1>4, <3>1
  <2>6. disk'[p] = disk[p] /\ UNCHANGED diskFiles
      BY <1>5, <2>1 DEF Kept
  <2> QED BY <1>7, <2>4, <2>5, <2>6, Untouched
<1> QED BY <1>6, <1>7, KeptFresh

(* A file changes on disk: w is the event.                                 *)
LEMMA DiskFresh ==
    ASSUME IInv, FInv, Kept, NEW u \in Uris, NEW c \in Text, disk' = [disk EXCEPT ![u] = c],
           NEW w \in Change, w.uri = u, w.kind \in WatchKinds, Report(<<>>, <<w>>),
           w.kind \in {"create", "delete"} => u \in Volatile,
           w.kind = "create" => disk[u] = None, (w.kind = "delete") = (c = None)
    PROVE  FInv'
<1>1. /\ Delayed => pending' = pending /\ inflight' = Append(inflight, w)
      /\ ~Delayed => pending' = Append(pending, w) /\ inflight' = inflight
    BY QueueTypes, WatchGoes
<1>2. u \in Paths /\ disk'[u] = c /\ \A p \in Paths : p # u => disk'[p] = disk[p]
    BY QueueTypes, OwnPaths
<1>3. Delayed => w.kind = "changed"
  <2>1. Delayed => Volatile = {}
      BY DEF FInv, World
  <2> QED BY <2>1 DEF WatchKinds
<1>4. World'
  <2>1. Volatile' = Volatile /\ Delayed' = Delayed
      BY DEF Volatile, Delayed, Kept
  <2>2. \A p \in Paths \ Volatile : disk'[p] # None
    <3>1. \A p \in Paths \ Volatile : disk[p] # None
        BY DEF FInv, World
    <3>2. u \notin Volatile => c # None
        OBVIOUS
    <3> QED BY <1>2, <3>1, <3>2
  <2>3. ASSUME Delayed PROVE \A i \in DOMAIN inflight' : inflight'[i].kind = "changed"
    <3>1. \A i \in DOMAIN inflight : inflight[i].kind = "changed"
        BY DEF FInv, World
    <3>2. w.kind = "changed"
        BY <1>3, <2>3
    <3>3. \A i \in DOMAIN Append(inflight, w) : Append(inflight, w)[i].kind = "changed"
        BY <3>1, <3>2, QueueTypes, ChangedMore
    <3> QED BY <1>1, <2>3, <3>3
  <2> QED BY <1>1, <2>1, <2>2, <2>3 DEF FInv, World
<1>5. ASSUME NEW p \in Paths, Live(p) PROVE NoticedOf(p)'
  <2>1. CASE p = u
    <3>1. UNCHANGED diskFiles
        BY DEF Kept
    <3>2. w.kind \in {"create", "delete"} => ~Delayed
        BY <1>3
    <3>3. (w.kind = "delete") = (disk'[p] = None) /\ w.uri = p /\ (w.kind = "create" => disk[p] = None)
        BY <1>2, <2>1
    <3> QED BY <1>5, <3>1, <3>2, <3>3, EventTells
  <2>2. CASE p # u
    <3>1. EventsOf(pending', p) = EventsOf(pending, p)
      <4>1. EventsOf(Append(pending, w), p) = EventsOf(pending, p)
          BY <2>2, QueueTypes, EventsOfOthers
      <4> QED BY <1>1, <4>1
    <3>2. Coming(inflight, p) => Coming(inflight', p)
      <4>1. Coming(inflight, p) => Coming(Append(inflight, w), p)
          BY QueueTypes, ComingMore
      <4> QED BY <1>1, <4>1
    <3>3. disk'[p] = disk[p] /\ UNCHANGED diskFiles
        BY <1>2, <2>2 DEF Kept
    <3> QED BY <1>5, <3>1, <3>2, <3>3, Untouched
  <2> QED BY <2>1, <2>2
<1> QED BY <1>4, <1>5, KeptFresh

LEMMA ArrivalFresh ==
    ASSUME IInv, FInv, Kept, DidChangeWatchedFiles
    PROVE  FInv'
<1>1. PICK w : w = Head(inflight)
    OBVIOUS
<1>2. pending' = Append(pending, w) /\ inflight' = Tail(inflight) /\ inflight # <<>> /\ UNCHANGED disk
    BY <1>1 DEF DidChangeWatchedFiles
<1>3. Delayed /\ \A i \in DOMAIN inflight : inflight[i].kind = "changed"
    BY <1>2 DEF FInv, World
<1>4. /\ w \in Change /\ 1 \in DOMAIN inflight /\ w = inflight[1]
      /\ \A i \in DOMAIN Tail(inflight) : i + 1 \in DOMAIN inflight /\ Tail(inflight)[i] = inflight[i + 1]
      /\ \A i \in DOMAIN inflight : i # 1 => i - 1 \in DOMAIN Tail(inflight) /\ Tail(inflight)[i - 1] = inflight[i]
    BY <1>1, <1>2, QueueTypes, SMT
<1>5. w.kind = "changed"
    BY <1>3, <1>4
<1>6. World'
  <2>1. Volatile' = Volatile /\ Delayed' = Delayed
      BY DEF Volatile, Delayed, Kept
  <2>2. \A i \in DOMAIN inflight' : inflight'[i].kind = "changed"
      BY <1>2, <1>3, <1>4
  <2>3. (\A q \in Paths \ Volatile : disk[q] # None) /\ (Delayed => Volatile = {})
      BY DEF FInv, World
  <2>4. (\A q \in Paths \ Volatile' : disk'[q] # None) /\ (Delayed' => Volatile' = {})
      BY <1>2, <2>1, <2>3
  <2> QED BY <1>3, <2>1, <2>2, <2>4 DEF World
<1>7. ASSUME NEW p \in Paths, Live(p) PROVE NoticedOf(p)'
  <2>1. disk'[p] = disk[p] /\ UNCHANGED diskFiles
      BY <1>2 DEF Kept
  <2>2. CASE w.uri # p
    <3>1. EventsOf(pending', p) = EventsOf(pending, p)
        BY <1>2, <1>4, <2>2, QueueTypes, EventsOfOthers
    <3>2. Coming(inflight, p) => Coming(inflight', p)
      <4> SUFFICES ASSUME Coming(inflight, p) PROVE Coming(Tail(inflight), p)
          BY <1>2
      <4>1. PICK i \in DOMAIN inflight : inflight[i].uri = p
          BY DEF Coming
      <4>2. i # 1
          BY <1>4, <2>2, <4>1
      <4>3. i - 1 \in DOMAIN Tail(inflight) /\ Tail(inflight)[i - 1] = inflight[i]
          BY <1>4, <4>1, <4>2
      <4> QED BY <4>1, <4>3 DEF Coming
    <3> QED BY <1>7, <2>1, <3>1, <3>2, Untouched
  <2>3. CASE w.uri = p
    <3>1. PICK ev : ev = EventsOf(pending, p)
        OBVIOUS
    <3>2. ev \in Events /\ ev.open = None
      <4>1. p \in Uris /\ overlays[p] = None
          BY <1>7, OwnPaths DEF Live
      <4> QED BY <3>1, <4>1, NotOpen
    <3>3. ~ev.created
        BY <1>7, <3>1 DEF FInv, NoticedOf, Noticed
    <3>4. EventsOf(pending', p) = OnWatch(ev, "changed")
      <4>1. EventsOf(pending', p) = ReduceFor(p, ev, w)
        <5>1. EventsOf(Append(pending, w), p) = ReduceFor(p, EventsOf(pending, p), w)
          <6>1. pending \in Seq(Change) /\ w \in Change
              BY <1>4, QueueTypes
          <6> QED BY <6>1, EventsAppend
        <5> QED BY <1>2, <3>1, <5>1
      <4>2. Reduce(ev, w) = OnWatch(ev, w.kind)
        <5>1. w.kind \in WatchKinds
            BY <1>5 DEF WatchKinds
        <5> QED BY <3>2, <5>1, ReduceWatch
      <4> QED BY <1>5, <2>3, <4>1, <4>2 DEF ReduceFor
    <3>5. ~OnWatch(ev, "changed").created /\ OnWatch(ev, "changed").watchChanged
        BY <3>2, <3>3, WatchTells
    <3>6. disk'[p] # None
        BY <1>3, <2>1 DEF FInv, World
    <3>7. Noticed(OnWatch(ev, "changed"), disk'[p], diskFiles'[p].content, Coming(inflight', p))
        BY <3>5, <3>6 DEF Noticed
    <3> QED BY <3>4, <3>7 DEF NoticedOf, Coming
  <2> QED BY <2>2, <2>3
<1> QED BY <1>6, <1>7, KeptFresh

LEMMA ClientFresh ==
    ASSUME IInv, FInv, Client, UNCHANGED <<diskFiles, project, untold, setting>>
    PROVE  FInv'
<1>1. Touched \subseteq Uris /\ None \in Text /\ Contents \subseteq Text /\ None \notin Contents
    BY QueueTypes, OverlayAssumption DEF Text
<1>2. ASSUME NEW u \in Touched, NEW c \in Contents, DidChangeFile(u, c) PROVE FInv'
  <2>1. PICK e \in Change : e = Edit("change", u, c) /\ e.uri = u
    <3>1. "change" \in Kinds /\ u \in Uris
        BY <1>1 DEF Kinds
    <3>2. Edit("change", u, c) \in Change /\ Edit("change", u, c).uri = u
        BY <3>1, SMT DEF Edit, Change
    <3> QED BY <3>2
  <2>2. Report(<<e>>, <<>>) /\ editor[u] # None /\ u \in Uris /\ UNCHANGED disk
      BY <1>1, <1>2, <2>1 DEF DidChangeFile
  <2>3. Kept
      BY <1>2 DEF DidChangeFile, Kept
  <2>4. pending' = Append(pending, e) /\ inflight' = inflight
      BY <2>2, QueueTypes, ReportEdit
  <2> QED BY <2>1, <2>2, <2>3, <2>4, EditFresh
<1>3. ASSUME NEW u \in Touched, DidCloseFile(u) PROVE FInv'
  <2>1. PICK e \in Change : e = Event("close", u) /\ e.uri = u
    <3>1. "close" \in Kinds /\ u \in Uris
        BY <1>1 DEF Kinds
    <3> QED BY <3>1, EventIs
  <2>2. Report(<<e>>, <<>>) /\ editor[u] # None /\ u \in Uris /\ UNCHANGED disk
      BY <1>1, <1>3, <2>1 DEF DidCloseFile
  <2>3. Kept
      BY <1>3 DEF DidCloseFile, Kept
  <2>4. pending' = Append(pending, e) /\ inflight' = inflight
      BY <2>2, QueueTypes, ReportEdit
  <2> QED BY <2>1, <2>2, <2>3, <2>4, EditFresh
<1>4. ASSUME NEW u \in Touched, DidSaveFile(u) PROVE FInv'
  <2>1. Kept /\ u \in Uris
      BY <1>1, <1>4 DEF DidSaveFile, Kept
  <2> QED BY <1>4, <2>1, SaveFresh
<1>5. ASSUME NEW u \in Touched, NEW c \in Contents, DiskWrite(u, c) PROVE FInv'
  <2>1. Kept /\ u \in Uris /\ c \in Text /\ c # None
      BY <1>1, <1>5 DEF DiskWrite, Kept
  <2>2. PICK w \in Change : w = WatchEvent(u, u) /\ w.uri = u /\ w.kind \in WatchKinds
      BY <2>1, WatchEventIs
  <2>3. disk' = [disk EXCEPT ![u] = c] /\ Report(<<>>, <<w>>) /\ (disk[u] = None => u \in Volatile)
      BY <1>5, <2>1, <2>2, OwnPaths DEF DiskWrite
  <2>4. w.kind = IF disk[u] = None THEN "create" ELSE "changed"
      BY <2>2, SMT DEF WatchEvent, Event
  <2>5. /\ w.kind \in {"create", "delete"} => u \in Volatile
        /\ w.kind = "create" => disk[u] = None
        /\ (w.kind = "delete") = (c = None)
    <3>1. "create" # "delete" /\ "changed" # "create" /\ "changed" # "delete"
        OBVIOUS
    <3> QED BY <2>1, <2>3, <2>4, <3>1
  <2>6. disk' = [disk EXCEPT ![u] = c] /\ Report(<<>>, <<w>>)
      BY <2>3
  <2> QED BY <2>1, <2>2, <2>5, <2>6, DiskFresh
<1>6. ASSUME NEW u \in Touched, DiskDelete(u) PROVE FInv'
  <2>1. Kept /\ u \in Uris
      BY <1>1, <1>6 DEF DiskDelete, Kept
  <2>2. PICK w \in Change : w = Event("delete", u) /\ w.uri = u /\ w.kind = "delete"
    <3>1. "delete" \in Kinds
        BY DEF Kinds, WatchKinds
    <3>2. Event("delete", u) \in Change /\ Event("delete", u).kind = "delete" /\ Event("delete", u).uri = u
        BY <2>1, <3>1, EventIs
    <3> QED BY <3>2
  <2>3. disk' = [disk EXCEPT ![u] = None] /\ Report(<<>>, <<w>>) /\ u \in Volatile
      BY <1>6, <2>1, <2>2, OwnPaths DEF DiskDelete
  <2>4. /\ w.kind \in WatchKinds /\ (w.kind = "create" => disk[u] = None)
        /\ (w.kind = "delete") = (None = None) /\ (w.kind \in {"create", "delete"} => u \in Volatile)
      BY <2>2, <2>3 DEF WatchKinds
  <2> QED BY <1>1, <2>1, <2>2, <2>3, <2>4, DiskFresh
<1>7. ASSUME DidChangeWatchedFiles PROVE FInv'
  <2>1. Kept
      BY <1>7 DEF DidChangeWatchedFiles, Kept
  <2> QED BY <1>7, <2>1, ArrivalFresh
<1> QED BY <1>2, <1>3, <1>4, <1>5, <1>6, <1>7 DEF Client

LEMMA PendingSmall ==
    ASSUME IInv, Modest
    PROVE  SmallBatch(pending, editor) /\ 3 * (Len(pending) + 1) <= Threshold
<1>1. Batch(pending, editor)
    BY PendingBatch
<1>2. /\ Len(pending) \in Nat /\ Len(pending) <= MaxPending /\ MaxPending \in Nat /\ Threshold \in Nat
      /\ 3 * (MaxPending + 1) <= Threshold
  <2>1. Len(pending) \in Nat
      BY QueueTypes, SMT
  <2>2. setting \in Settings /\ Len(pending) <= MaxPending /\ MaxPending \in Nat
      BY SettingFacts DEF IInv, Typed
  <2> QED BY <2>1, <2>2, UpdateAssumption DEF Modest, MaxPending
<1>3. 3 * Len(pending) <= Threshold /\ 3 * (Len(pending) + 1) <= Threshold
    BY <1>2, SMT
<1> QED BY <1>1, <1>3 DEF SmallBatch

LEMMA OpenSmall ==
    ASSUME IInv, Modest, NEW u \in Uris, NEW c \in Contents, MayOpen(u)
    PROVE  LET s == Append(pending, Edit("open", u, c))
               ed == [editor EXCEPT ![u] = c]
           IN  SmallBatch(s, ed) /\ s \in Seq(Change) /\ ed \in [Uris -> Text]
<1>1. PICK e : e = Edit("open", u, c)
    OBVIOUS
<1>2. e \in Change /\ e.uri = u
  <2>1. "open" \in Kinds
      BY DEF Kinds
  <2> QED BY <1>1, <2>1, SMT DEF Edit, Change
<1>3. PICK s : s = Append(pending, e)
    OBVIOUS
<1>4. PICK ed : ed = [editor EXCEPT ![u] = c]
    OBVIOUS
<1>5. Batch(s, ed) /\ s \in Seq(Change) /\ ed \in [Uris -> Text]
    BY <1>1, <1>3, <1>4, OpenBatch
<1>6. 3 * Len(s) <= Threshold
  <2>1. Len(s) = Len(pending) + 1
      BY <1>2, <1>3, QueueTypes, SMT
  <2> QED BY <2>1, PendingSmall
<1>7. ASSUME NEW p \in Uris, ed[p] = None PROVE EventsOf(s, p) = EventsOf(pending, p)
  <2>1. p # u
      BY <1>4, <1>7, QueueTypes, OverlayAssumption
  <2> QED BY <1>2, <1>3, <2>1, QueueTypes, EventsOfOthers
<1>8. SmallBatch(s, ed)
    BY <1>5, <1>6, <1>7 DEF SmallBatch
<1> QED BY <1>1, <1>3, <1>4, <1>5, <1>8

LEMMA InitFresh == Modest /\ UpdateInit => FInv
<1> SUFFICES ASSUME Modest, UpdateInit PROVE FInv
    OBVIOUS
<1>1. setting \in Settings /\ inflight = <<>> /\ DOMAIN <<>> = {} /\ diskFiles = [p \in Paths |-> None]
  <2>1. DOMAIN <<>> = {}
      BY SMT
  <2> QED BY <2>1 DEF UpdateInit, OverlayInit, NoFiles
<1>2. World
    BY <1>1 DEF UpdateInit, OverlayInit, World, Modest, Delayed, Volatile
<1>3. diskFiles \in Cache
    BY <1>1 DEF Cache, Entry
<1>4. project \in Project
  <2>1. NoFiles \in [Paths -> Contents \cup {None}]
      BY DEF NoFiles
  <2>2. PICK pr : pr = [loaded |-> FALSE, files |-> NoFiles, dirty |-> TRUE, dirtyFilePath |-> None,
                        seenFiles |-> {}, missingDirectories |-> {}, rootNames |-> {}, pendingReload |-> TRUE]
      OBVIOUS
  <2>3. pr \in Project
      BY <2>1, <2>2 DEF Project
  <2> QED BY <2>2, <2>3 DEF UpdateInit
<1>5. \A p \in Paths : ~Live(p)
    BY <1>1 DEF Live
<1> QED BY <1>2, <1>3, <1>4, <1>5 DEF FInv

LEMMA StepFresh == Modest /\ IInv /\ FInv /\ [UpdateNext]_updateVars => FInv'
<1> SUFFICES ASSUME Modest, IInv, FInv, [UpdateNext]_updateVars PROVE FInv'
    OBVIOUS
<1>0. TRUE \in BOOLEAN /\ FALSE \in BOOLEAN
    OBVIOUS
<1>1. ASSUME ClientStep, UNCHANGED setting PROVE FInv'
  <2>1. Client /\ UNCHANGED <<diskFiles, project, untold, setting>>
      BY <1>1 DEF ClientStep
  <2> QED BY <2>1, ClientFresh
<1>2. ASSUME NEW u \in Touched, NEW c \in Contents, Open(u, c), UNCHANGED setting PROVE FInv'
  <2>1. u \in Uris /\ MayOpen(u) /\ UNCHANGED <<disk, inflight, setting>> /\ untold' = untold
        /\ FlushAndClone(Append(pending, Edit("open", u, c)), FALSE, TRUE, FALSE)
      BY <1>2, QueueTypes DEF Open
  <2>2. PICK s : s = Append(pending, Edit("open", u, c))
      OBVIOUS
  <2>3. PICK ed : ed = [editor EXCEPT ![u] = c]
      OBVIOUS
  <2>4. SmallBatch(s, ed) /\ s \in Seq(Change) /\ ed \in [Uris -> Text]
      BY <2>1, <2>2, <2>3, OpenSmall
  <2>5. FlushAndClone(s, FALSE, TRUE, FALSE) /\ UNCHANGED <<disk, inflight, setting>> /\ (FALSE \/ untold' = untold)
      BY <2>1, <2>2
  <2> QED BY <1>0, <2>4, <2>5, FlushFresh
<1>3. ASSUME NEW all \in BOOLEAN, NEW requested \in BOOLEAN, NEW idle, FlushAndClone(pending, all, requested, idle),
             UNCHANGED <<disk, inflight, setting>>, all \/ untold' = untold
      PROVE  FInv'
  <2>1. SmallBatch(pending, editor) /\ pending \in Seq(Change) /\ editor \in [Uris -> Text]
      BY PendingSmall, QueueTypes
  <2> QED BY <1>3, <2>1, FlushFresh
<1>4. ASSUME getSnapshot, UNCHANGED setting PROVE FInv'
  <2>1. FlushAndClone(pending, FALSE, TRUE, FALSE) /\ UNCHANGED <<disk, inflight, setting>> /\ (FALSE \/ untold' = untold)
      BY <1>4 DEF getSnapshot
  <2> QED BY <1>0, <1>3, <2>1
<1>5. ASSUME IdleCacheClean, UNCHANGED setting PROVE FInv'
  <2>1. FlushAndClone(pending, FALSE, FALSE, TRUE) /\ UNCHANGED <<disk, inflight, setting>> /\ (FALSE \/ untold' = untold)
      BY <1>5 DEF IdleCacheClean
  <2> QED BY <1>0, <1>3, <2>1
<1>6. ASSUME APIInvalidateAll, UNCHANGED setting PROVE FInv'
  <2>1. FlushAndClone(pending, TRUE, TRUE, FALSE) /\ UNCHANGED <<disk, inflight, setting>>
      BY <1>6 DEF APIInvalidateAll
  <2> QED BY <1>0, <1>3, <2>1
<1>7. ASSUME NEW p \in Paths, NEW c \in Contents \cup {None}, UnwatchedWrite(p, c), UNCHANGED setting PROVE FInv'
  <2>1. /\ untold' = TRUE /\ UNCHANGED <<inflight, diskFiles, project, setting>>
        /\ disk' = [disk EXCEPT ![p] = c] /\ (c = None => p \in Volatile)
      BY <1>7 DEF UnwatchedWrite
  <2>2. Project' = Project /\ Volatile' = Volatile /\ Delayed' = Delayed
      BY <2>1 DEF Project, Roots, Volatile, Delayed
  <2>3. World'
    <3>1. \A q \in Paths \ Volatile : disk[q] # None
        BY DEF FInv, World
    <3>2. \A q \in Paths \ Volatile : disk'[q] # None
        BY <2>1, <3>1, QueueTypes
    <3> QED BY <2>1, <2>2, <3>2 DEF FInv, World
  <2>4. \A q \in Paths : ~Live(q)'
      BY <2>1 DEF Live
  <2> QED BY <2>1, <2>2, <2>3, <2>4 DEF FInv
<1>8. ASSUME UNCHANGED updateVars PROVE FInv'
  <2>1. UNCHANGED <<disk, inflight, pending, overlays, setting, diskFiles, project, untold>>
      BY <1>8 DEF updateVars, fileVars
  <2>2. Project' = Project /\ World'
      BY <2>1 DEF Project, Roots, Volatile, Delayed, World, FInv
  <2> QED BY <2>1, <2>2 DEF FInv, Live, NoticedOf
<1> QED BY <1>1, <1>2, <1>4, <1>5, <1>6, <1>7, <1>8 DEF UpdateNext

(* When no batch can reach the threshold, and files that other programs    *)
(* create or delete are reported at once: once every change was reported   *)
(* and processed, a cached disk file that is not open and not marked for   *)
(* reload has the text on disk.                                            *)
THEOREM CachedFilesAreFresh == ASSUME Modest PROVE UpdateSpec => []DiskFilesFresh
<1>1. ASSUME IInv, FInv PROVE DiskFilesFresh
  <2>1. diskFiles \in [Paths -> DiskFile \cup {None}] /\ project \in Project
      BY <1>1 DEF FInv, Cache, Entry
  <2>2. ASSUME Quiet, NEW p \in Paths, overlays[p] = None, diskFiles[p] # None, ~diskFiles[p].needsReload
        PROVE  diskFiles[p].content = disk[p]
    <3>1. pending = <<>> /\ inflight = <<>> /\ ~untold
        BY <2>2 DEF Quiet
    <3>2. Noticed(EventsOf(pending, p), disk[p], diskFiles[p].content, Coming(inflight, p))
        BY <1>1, <2>2, <3>1 DEF FInv, Live, NoticedOf
    <3>3. EventsOf(pending, p) = NoEvents
        BY <3>1, EventsEmpty
    <3>4. NoEvents.deleted = FALSE /\ NoEvents.watchChanged = FALSE /\ ~Coming(<<>>, p)
      <4>1. DOMAIN <<>> = {}
          BY SMT
      <4>2. NoEvents.deleted = FALSE /\ NoEvents.watchChanged = FALSE
          BY SMT DEF NoEvents
      <4> QED BY <4>1, <4>2 DEF Coming
    <3> QED BY <3>1, <3>2, <3>3, <3>4 DEF Noticed
  <2> QED BY <2>1, <2>2 DEF DiskFilesFresh
<1>2. UpdateInit => FInv
    BY InitFresh
<1>3. IInv /\ FInv /\ [UpdateNext]_updateVars => FInv'
    BY StepFresh
<1> QED BY <1>1, <1>2, <1>3, AlwaysInv, PTL DEF UpdateSpec
=============================================================================
