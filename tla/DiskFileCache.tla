--------------------------- MODULE DiskFileCache ---------------------------
(***************************************************************************)
(* One path in the cache of disk files of a snapshot                       *)
(* (internal/project/snapshotfs.go), kept in a dirty.SyncMap               *)
(* (internal/project/dirty/syncmap.go) while a snapshot is made from the   *)
(* previous one.                                                           *)
(*                                                                         *)
(* First one goroutine records the changes it was told of; then the        *)
(* goroutines that load files ask for the path, each with an entry of its  *)
(* own or with the one in the dirty map; then the result is the base of    *)
(* the next.  An entry that has lost the race for the dirty map forwards   *)
(* to the winner (proxyFor), so its holder holds the winner.  A step is a  *)
(* section under the lock of the winner, or one that involves nobody else. *)
(* Entries of different paths share nothing.                               *)
(***************************************************************************)
CONSTANTS
    Procs,       \* goroutines that load files
    Texts,       \* contents of the file
    Missing,     \* the file does not exist
    Unknown,     \* no text, or no answer
    Nil

VARIABLES
    phase,       \* "mark", "build", and perhaps "cleaned"
    onDisk,      \* the file on disk
    base,        \* the value in the base map, shared with the finished snapshot
    marked,      \* an entry was changed or deleted while marking
    entry,       \* the entry in the dirty map
    own,         \* the value that entry cloned or was created with
    hold,        \* the entry a goroutine has: private, or that of the dirty map
    pc,          \* where getDiskFile is
    content,     \* what ReadFile returned
    got,         \* the file handle returned: which value, or nil
    memo         \* readFiles of the finished snapshot

vars == <<phase, onDisk, base, marked, entry, own, hold, pc, content, got, memo>>

Value(text, stale) == [text |-> text, stale |-> stale]
Values == [text : Texts \cup {Unknown}, stale : BOOLEAN]
Entries == [value : {"base", "own"}, dirty : BOOLEAN, delete : BOOLEAN]

ASSUME CacheAssumption ==
    /\ Missing \notin Texts /\ Unknown \notin Texts /\ Missing # Unknown
    /\ Nil \notin Values /\ Nil \notin Entries

(* What a pointer to a value leads to, and what an entry says.             *)
Deref(v) == IF v = "own" THEN own ELSE base
ValueOf(e) == IF e.delete THEN Nil ELSE Deref(e.value)
Held(p) == IF hold[p] = "private" THEN base ELSE ValueOf(entry)

TypeOK ==
    /\ phase \in {"mark", "build", "cleaned"} /\ marked \in BOOLEAN
    /\ onDisk \in Texts \cup {Missing} /\ memo \in Texts \cup {Missing, Unknown}
    /\ base \in Values \cup {Nil} /\ own \in Values
    /\ entry \in Entries \cup {Nil}
    /\ hold \in [Procs -> {"none", "private", "shared"}]
    /\ pc \in [Procs -> {"idle", "check", "read", "apply", "value", "return"}]
    /\ content \in [Procs -> Texts \cup {Missing}]
    /\ got \in [Procs -> {"none", "nil", "base", "own", "typed nil"}]

Init ==
    /\ phase = "mark" /\ marked = FALSE
    /\ onDisk \in Texts \cup {Missing}
    /\ base = Nil /\ entry = Nil
    /\ own = Value(Unknown, TRUE)
    /\ hold = [p \in Procs |-> "none"] /\ pc = [p \in Procs |-> "idle"]
    /\ content = [p \in Procs |-> Missing] /\ got = [p \in Procs |-> "none"]
    /\ memo = Unknown

----------------------------------------------------------------------------
(* The environment.  While goroutines load a file whose base value is left *)
(* to be reloaded from an earlier snapshot, and nothing in this one marked *)
(* it, the file does not change on disk: see README, section 6.            *)
LeftStale == base # Nil /\ base.stale /\ ~marked

DiskChanges ==
    /\ phase = "build" => ~LeftStale
    /\ onDisk' \in Texts \cup {Missing}
    /\ UNCHANGED <<phase, base, marked, entry, own, hold, pc, content, got, memo>>

----------------------------------------------------------------------------
(* Fault: a value of the base map is changed in place.                     *)
ApplyInPlace(new) ==
    IF entry = Nil
    THEN /\ base' = new /\ UNCHANGED own
         /\ entry' = [value |-> "base", dirty |-> TRUE, delete |-> FALSE]
    ELSE /\ own' = new /\ UNCHANGED base
         /\ entry' = [entry EXCEPT !.value = "own", !.dirty = TRUE]

(* SyncMapEntry.Change and changeLocked, on a private entry or on that of  *)
(* the dirty map, which from then on is the holder's: the base value is    *)
(* cloned before its first change.                                         *)
changeLocked(new) ==
    /\ own' = new /\ UNCHANGED base
    /\ entry' = [value |-> "own", dirty |-> TRUE, delete |-> entry # Nil /\ entry.delete]

(* SyncMapEntry.Delete and deleteLocked.                                   *)
Delete ==
    /\ entry' = IF entry = Nil THEN [value |-> "base", dirty |-> FALSE, delete |-> TRUE]
                ELSE [entry EXCEPT !.delete = TRUE]
    /\ UNCHANGED <<base, own>>

(* What a file read again does to its entry.                               *)
Reload(text) == IF text = Missing THEN Delete ELSE changeLocked(Value(text, FALSE))

(* SyncMap.LoadOrStore of a path that neither map has.                     *)
Store ==
    /\ own' = Value(Unknown, TRUE)
    /\ entry' = [value |-> "own", dirty |-> TRUE, delete |-> FALSE]

(* SyncMap.Load finds an entry, with this value.                           *)
Loadable == IF entry # Nil THEN ~entry.delete ELSE base # Nil
Current == IF entry # Nil THEN Deref(entry.value) ELSE base

----------------------------------------------------------------------------
(* What happens before goroutines load files: markDirtyFiles and           *)
(* invalidateCache, and convertOpenAndCloseToChanges, which reads a closed *)
(* file again (getDiskFile with forceReload).                              *)
MarkChanged == Loadable /\ changeLocked(Value(Current.text, TRUE))
MarkDeleted == Loadable /\ Delete
ReloadClosed ==
    \/ Loadable /\ Reload(onDisk)
    \/ /\ base = Nil /\ entry = Nil /\ UNCHANGED base
       /\ own' = IF onDisk = Missing THEN Value(Unknown, TRUE) ELSE Value(onDisk, FALSE)
       /\ entry' = [value |-> "own", dirty |-> TRUE, delete |-> onDisk = Missing]

Mark ==
    /\ phase = "mark"
    /\ MarkChanged \/ MarkDeleted \/ ReloadClosed
    /\ marked' = TRUE
    /\ UNCHANGED <<phase, onDisk, hold, pc, content, got, memo>>

Start ==
    /\ phase = "mark" /\ phase' = "build"
    /\ UNCHANGED <<onDisk, base, marked, entry, own, hold, pc, content, got, memo>>

----------------------------------------------------------------------------
(* getDiskFile: LoadOrStore.                                               *)
At(p, place) == phase = "build" /\ pc[p] = place
GoTo(p, place) == pc' = [pc EXCEPT ![p] = place]
Holds(p, what) == hold' = [hold EXCEPT ![p] = what]
Return(p, handle) == /\ got' = [got EXCEPT ![p] = handle]
                     /\ GoTo(p, "idle") /\ Holds(p, "none")

GetDiskFile(p) ==
    /\ At(p, "idle")
    /\ \/ /\ entry # Nil /\ entry.delete
          /\ Return(p, "nil") /\ UNCHANGED <<entry, own>>
       \/ /\ entry # Nil /\ ~entry.delete
          /\ GoTo(p, "check") /\ Holds(p, "shared") /\ UNCHANGED <<entry, own, got>>
       \/ /\ entry = Nil /\ base # Nil
          /\ GoTo(p, "check") /\ Holds(p, "private") /\ UNCHANGED <<entry, own, got>>
       \/ /\ entry = Nil /\ base = Nil
          /\ Store
          /\ GoTo(p, "check") /\ Holds(p, "shared") /\ UNCHANGED got
    /\ UNCHANGED <<phase, onDisk, base, marked, content, memo>>

(* reloadEntryIfNeeded: look under the lock, read without it, look again.  *)
NeedsReload(p) == Held(p) # Nil /\ Held(p).stale

CheckEntry(p) ==
    /\ At(p, "check")
    /\ GoTo(p, IF NeedsReload(p) THEN "read" ELSE "value")
    /\ UNCHANGED <<phase, onDisk, base, marked, entry, own, hold, content, got, memo>>

ReadFile(p) ==
    /\ At(p, "read") /\ GoTo(p, "apply")
    /\ content' = [content EXCEPT ![p] = onDisk]
    /\ UNCHANGED <<phase, onDisk, base, marked, entry, own, hold, got, memo>>

(* Fault: the second look is left out.                                     *)
ApplyReloadBlindly(p) ==
    /\ At(p, "apply") /\ GoTo(p, "value")
    /\ Reload(content[p]) /\ Holds(p, "shared")
    /\ UNCHANGED <<phase, onDisk, marked, content, got, memo>>

ApplyReload(p) ==
    /\ At(p, "apply") /\ GoTo(p, "value")
    /\ IF NeedsReload(p) THEN Reload(content[p]) /\ Holds(p, "shared")
                         ELSE UNCHANGED <<base, entry, own, hold>>
    /\ UNCHANGED <<phase, onDisk, marked, content, got, memo>>

(* The value is asked for twice, each time under the lock.                 *)
FirstValue(p) ==
    /\ At(p, "value")
    /\ IF Held(p) = Nil THEN Return(p, "nil") ELSE GoTo(p, "return") /\ UNCHANGED <<hold, got>>
    /\ UNCHANGED <<phase, onDisk, base, marked, entry, own, content, memo>>

SecondValue(p) ==
    /\ At(p, "return")
    /\ Return(p, IF hold[p] = "private" THEN "base"
                 ELSE IF entry.delete THEN "typed nil" ELSE entry.value)
    /\ UNCHANGED <<phase, onDisk, base, marked, entry, own, content, memo>>

----------------------------------------------------------------------------
(* SnapshotFS.GetFileByPath of the finished snapshot, whose disk files are *)
(* the base map; other files are read once.                                *)
ReadFinished ==
    /\ base = Nil /\ memo = Unknown
    /\ memo' = onDisk
    /\ UNCHANGED <<phase, onDisk, base, marked, entry, own, hold, pc, content, got>>

(* Snapshot.Clone, when the projects are loaded: a file that none of them  *)
(* has read is dropped.  Auto-imports, which follow, only ask the cache    *)
(* for files it has.                                                       *)
Quiescent == \A p \in Procs : pc[p] = "idle"

CleanDiskCache ==
    /\ phase = "build" /\ Quiescent /\ phase' = "cleaned"
    /\ IF Loadable THEN Delete ELSE UNCHANGED <<base, entry, own>>
    /\ UNCHANGED <<onDisk, marked, hold, pc, content, got, memo>>

(* Finalize: the new base map.                                             *)
Finalize ==
    /\ phase \in {"build", "cleaned"} /\ Quiescent
    /\ phase' = "mark" /\ marked' = FALSE /\ entry' = Nil
    /\ base' = CASE entry = Nil -> base
                 [] entry # Nil /\ entry.delete -> Nil
                 [] entry # Nil /\ ~entry.delete /\ entry.dirty -> Deref(entry.value)
                 [] OTHER -> base
    /\ memo' = Unknown
    /\ got' = [p \in Procs |-> "none"]
    /\ own' = Value(Unknown, TRUE)
    /\ content' = [p \in Procs |-> Missing]
    /\ UNCHANGED <<onDisk, hold, pc>>

Load(p) == \/ GetDiskFile(p) \/ CheckEntry(p) \/ ReadFile(p) \/ ApplyReload(p)
           \/ FirstValue(p) \/ SecondValue(p)

Next == \/ DiskChanges \/ Mark \/ Start \/ ReadFinished \/ CleanDiskCache \/ Finalize
        \/ \E p \in Procs : Load(p)

Spec == Init /\ [][Next]_vars

----------------------------------------------------------------------------
(* The text of the file in the snapshot being made, as far as it is        *)
(* settled, and in the finished one.                                       *)
TextOf(v) == IF v.stale THEN Unknown ELSE v.text

File == IF Loadable THEN TextOf(Current)
        ELSE IF entry # Nil THEN Missing ELSE Unknown

Told(p) == CASE got[p] = "none" -> Unknown
             [] got[p] = "nil" -> Missing
             [] got[p] = "base" -> base.text
             [] got[p] = "own" -> own.text
             [] got[p] = "typed nil" -> Nil

Published == IF base # Nil THEN base.text ELSE memo

(* The values and the entry of the dirty map.                              *)
Winner == /\ own.stale \/ own.text \in Texts
          /\ base # Nil => base.stale \/ base.text \in Texts
          /\ entry # Nil => IF entry.value = "own" THEN entry.dirty ELSE ~entry.dirty /\ entry.delete
          /\ phase = "build" /\ ~marked /\ base # Nil /\ ~base.stale => entry = Nil
          /\ marked => entry # Nil
          /\ phase = "mark" /\ ~marked => entry = Nil
          /\ phase = "cleaned" => ~Loadable

(* What is known while a value left stale is loaded.                       *)
Steady == phase = "build" /\ LeftStale =>
            /\ \A p \in Procs : pc[p] = "apply" => content[p] = onDisk
            /\ entry # Nil => IF onDisk = Missing THEN entry.delete
                               ELSE ~entry.delete /\ own = Value(onDisk, FALSE)

(* What a goroutine knows of the entry it holds.                           *)
Holder(p) ==
    /\ phase = "mark" => got[p] = "none"
    /\ phase # "build" => pc[p] = "idle"
    /\ pc[p] = "idle" <=> hold[p] = "none"
    /\ hold[p] = "shared" => entry # Nil
    /\ hold[p] = "private" => base # Nil /\ ~marked
    /\ hold[p] = "private" /\ pc[p] \in {"read", "apply"} => base.stale
    /\ hold[p] = "private" /\ pc[p] \in {"value", "return"} => ~base.stale
    /\ hold[p] = "shared" /\ pc[p] = "value" => entry.delete \/ ~own.stale
    /\ hold[p] = "shared" /\ pc[p] = "return" => ~entry.delete /\ ~own.stale

(* What is so once a goroutine was answered.                               *)
Answered(p) ==
    /\ got[p] # "typed nil"
    /\ got[p] = "nil" => entry # Nil /\ entry.delete
    /\ got[p] = "base" /\ phase = "build" => entry = Nil /\ base # Nil /\ ~base.stale
    /\ got[p] = "own" /\ phase = "build" => entry # Nil /\ ~entry.delete /\ ~own.stale

(* A file that needs no reload has a text.  An entry of the dirty map that *)
(* is not deleted has a value of its own.  Only a value left stale by an   *)
(* earlier snapshot has private entries that will change it: whoever wins, *)
(* the entry then says what the disk says, and so does everything read.    *)
(* A goroutine that is past the reload, or was answered, finds the file    *)
(* settled and, unless it was told nil, present (SyncMap.LoadOrStore,      *)
(* changeLocked, deleteLocked, reloadEntryIfNeeded).                       *)
Consistent == TypeOK /\ Winner /\ Steady /\ \A p \in Procs : Holder(p) /\ Answered(p)

Promise == INSTANCE SettledFile WITH file <- File, got <- [p \in Procs |-> Told(p)],
                                     published <- Published

(* Everybody who asks for a file while a snapshot is made gets the same    *)
(* text, which the snapshot keeps unless the file is dropped, or nobody    *)
(* gets one; a handle once given out does not change under its holder; and *)
(* readers of the finished snapshot see one text, whatever the making of   *)
(* the next does (getDiskFile, reloadEntryIfNeeded, SyncMap,               *)
(* SnapshotFS.GetFileByPath).                                              *)
Implements == Promise!Spec
=============================================================================
