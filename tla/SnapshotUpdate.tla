--------------------------- MODULE SnapshotUpdate ---------------------------
(***************************************************************************)
(* From a file change to an up-to-date program: what Snapshot.Clone does   *)
(* with a batch of file changes (internal/project/snapshot.go), the cache  *)
(* of disk files (internal/project/snapshotfs.go), the root names of the   *)
(* project's config (internal/project/configfileregistrybuilder.go), and   *)
(* the marking and rebuilding of the program                               *)
(* (internal/project/projectcollectionbuilder.go, project.go).             *)
(*                                                                         *)
(* There is one configured project.  Its include pattern matches Roots;    *)
(* the other paths are modules that a root file imports when its text is   *)
(* in Importing, each in a directory of its own.  A flush and the clone    *)
(* that uses its result are one step, as they are under snapshotUpdateMu.  *)
(* Symbolic links and directory events are left out.                       *)
(***************************************************************************)
EXTENDS OverlayFS

CONSTANTS
    Threshold   \* excessiveChangeThreshold

ASSUME UpdateAssumption ==
    /\ Uris = Paths /\ PathOf = [p \in Paths |-> p]
    /\ \A e \in Settings : e.roots \subseteq Paths /\ e.importing \subseteq Contents /\ e.api \in BOOLEAN
    /\ Threshold \in Nat

VARIABLES
    diskFiles,  \* path -> cached disk file or None
    project,    \* the project and its config
    untold      \* an unwatched change of the disk has not been reported

updateVars == <<fileVars, diskFiles, project, untold>>

(* The paths the include pattern of the config matches; the contents that  *)
(* import the other paths; whether files also change unwatched, reported   *)
(* by the API only.                                                        *)
Roots == setting.roots
Importing == setting.importing
Api == setting.api

DiskFile == [content : Contents, needsReload : BOOLEAN]

(* files: path -> text in the program; seenFiles and missingDirectories:   *)
(* what building it looked for; rootNames and pendingReload: its config.   *)
Project == [loaded : BOOLEAN, files : [Paths -> Contents \cup {None}],
            dirty : BOOLEAN, dirtyFilePath : Paths \cup {None},
            seenFiles : SUBSET Paths, missingDirectories : SUBSET Paths,
            rootNames : SUBSET Roots, pendingReload : BOOLEAN]

Modules == Paths \ Roots
NoFiles == [p \in Paths |-> None]

----------------------------------------------------------------------------
(* The cache of disk files *)

(* The entry of p after it was needed: loaded, or reloaded if it has to be.*)
reloadEntryIfNeeded(df, p) ==
    IF df[p] # None /\ ~df[p].needsReload THEN df[p]
    ELSE IF disk[p] = None THEN None
    ELSE [content |-> disk[p], needsReload |-> FALSE]

GetFile(df, ov, p) ==
    IF ov[p] # None THEN ov[p]
    ELSE LET f == reloadEntryIfNeeded(df, p) IN IF f = None THEN None ELSE f.content

(* The cache after the files of S were read.                               *)
ReadFiles(df, ov, S) ==
    [p \in Paths |-> IF p \in S /\ ov[p] = None THEN reloadEntryIfNeeded(df, p) ELSE df[p]]

invalidateCache(df) ==
    [p \in Paths |-> IF df[p] = None THEN None ELSE [df[p] EXCEPT !.needsReload = TRUE]]

markDirtyFiles(df, s) ==
    [p \in Paths |-> IF p \in s.deleted THEN None
                     ELSE IF p \in s.changed /\ df[p] # None
                          THEN [df[p] EXCEPT !.needsReload = TRUE]
                     ELSE df[p]]

----------------------------------------------------------------------------
(* File changes in Snapshot.Clone *)

IsEmpty(s) == [s EXCEPT !.watched = FALSE] = NoSummary

HasExcessiveWatchEvents(s) ==
    \/ s.invalidateAll
    \/ Cardinality(s.created) + Cardinality(s.deleted) + Cardinality(s.changed) > Threshold

HasExcessiveNonCreateWatchEvents(s) ==
    s.invalidateAll \/ Cardinality(s.deleted) + Cardinality(s.changed) > Threshold

watchChangesOverlapCache(df, s) == \E p \in s.changed \cup s.deleted : df[p] # None

(* Fault: a file that is closed is not read again.                         *)
convertClosedFromCache(df, s, prev, new) ==
    LET opened == s.opened
        isNew == opened # None /\ df[opened] = None
    IN  [cache |-> df,
         summary |-> [s EXCEPT
             !.created = @ \cup (IF isNew THEN {opened} ELSE {}),
             !.changed = @ \cup {p \in s.closed : df[p] # None /\ df[p].content # prev[p]},
             !.deleted = @ \cup {p \in s.closed : df[p] = None}]]

(* A file that was opened is created or changed, unless its text is the    *)
(* cached one; a file that was closed is read from disk, whatever the      *)
(* cache holds, and is changed or deleted unless the disk has the text of  *)
(* the overlay.                                                            *)
convertOpenAndCloseToChanges(df, s, prev, new) ==
    LET opened == s.opened
        isNew == opened # None /\ df[opened] = None
        differs == opened # None /\ df[opened] # None /\ df[opened].content # new[opened]
        cache == [p \in Paths |-> IF p \notin s.closed THEN df[p]
                                  ELSE IF disk[p] = None THEN None
                                  ELSE [content |-> disk[p], needsReload |-> FALSE]]
    IN  [cache |-> cache,
         summary |-> [s EXCEPT
             !.created = @ \cup (IF isNew THEN {opened} ELSE {}),
             !.changed = @ \cup (IF differs THEN {opened} ELSE {})
                           \cup {p \in s.closed : disk[p] # None /\ disk[p] # prev[p]},
             !.deleted = @ \cup {p \in s.closed : disk[p] = None}]]

(* Too many changes are dropped when none of them is to a cached file, and *)
(* else invalidate the whole cache, or only the part under node_modules    *)
(* (no path of the model) when no watcher saw a change outside of it.      *)
ApplyToCache(df, s, prev, new) ==
    IF ~HasExcessiveWatchEvents(s)
    THEN convertOpenAndCloseToChanges(markDirtyFiles(df, s), s, prev, new)
    ELSE IF ~s.invalidateAll /\ ~watchChangesOverlapCache(df, s)
    THEN [cache |-> df, summary |-> [s EXCEPT !.changed = {}, !.deleted = {}]]
    ELSE [cache |-> IF s.invalidateAll \/ s.watched THEN invalidateCache(df) ELSE df,
          summary |-> s]

----------------------------------------------------------------------------
(* Marking the project *)

(* Created files the include pattern matches, and deleted ones it matched, *)
(* make the config read its file names again.                              *)
RootsMayDiffer(pr, s) ==
    ~pr.pendingReload /\ (s.deleted \cap pr.rootNames # {} \/ s.created \cap Roots # {})

MarkConfig(pr, s) ==
    IF RootsMayDiffer(pr, s)
    THEN [pr EXCEPT !.pendingReload = TRUE, !.dirty = TRUE, !.dirtyFilePath = None]
    ELSE pr

Contained(pr) == {p \in Paths : pr.files[p] # None}
Seen(pr, type) == pr.seenFiles \cup (IF type = "created" THEN pr.missingDirectories ELSE {})

(* Of the files that changed, those in the program and those it looked for *)
(* make it dirty.  While a single file of the program has changed, and was *)
(* not deleted, it is remembered so that the program can be updated.       *)
markFilesChanged(pr, S, type) ==
    LET contained == S \cap Contained(pr)
        seen == (S \ Contained(pr)) \cap Seen(pr, type)
        dirtyFiles == contained \cup ({pr.dirtyFilePath} \ {None})
    IN  IF ~pr.loaded \/ (pr.dirty /\ pr.dirtyFilePath = None) \/ contained \cup seen = {}
        THEN pr
        ELSE [pr EXCEPT
                !.dirty = TRUE,
                !.dirtyFilePath =
                    IF type # "deleted" /\ seen = {} /\ Cardinality(dirtyFiles) = 1
                    THEN CHOOSE p \in dirtyFiles : TRUE ELSE None]

DidChangeFiles(pr, s) ==
    LET marked == MarkConfig(pr, s)
    IN  IF IsEmpty(s) THEN pr
        ELSE IF HasExcessiveNonCreateWatchEvents(s)
        THEN [marked EXCEPT !.dirty = TRUE, !.dirtyFilePath = None]
        ELSE markFilesChanged(
                markFilesChanged(
                    markFilesChanged(marked, s.changed, "changed"),
                    s.deleted, "deleted"),
                s.created, "created")

----------------------------------------------------------------------------
(* Rebuilding the program *)

(* The texts a program has that is built from root files R, when file p    *)
(* has text file[p]: a module is found if its directory exists.            *)
Imports(file, R) == \E r \in R : file[r] \in Importing
ProgramFiles(file, R) ==
    [p \in Paths |-> IF p \in R \/ (p \in Modules /\ Imports(file, R) /\ disk[p] # None)
                     THEN file[p] ELSE None]

NewProgram(pr, df, ov) ==
    LET file == [p \in Paths |-> GetFile(df, ov, p)]
        files == ProgramFiles(file, pr.rootNames)
        wanted == IF Imports(file, pr.rootNames) THEN Modules ELSE {}
        missing == {p \in wanted : disk[p] = None}
    IN  [pr EXCEPT !.files = files, !.seenFiles = pr.rootNames \cup (wanted \ missing),
                   !.missingDirectories = missing]

(* Only the changed file is replaced.  The new host inherits the files the *)
(* old one has seen, and starts with no missing directories.               *)
CloneProgram(pr, text) ==
    [pr EXCEPT !.files[pr.dirtyFilePath] = text, !.missingDirectories = {}]

(* Fault: the imports of the old and the new text are not compared.        *)
canReplaceAny(pr, text) == text # None

canReplaceFileInProgram(pr, text) ==
    text # None /\ (text \in Importing) = (pr.files[pr.dirtyFilePath] \in Importing)

reloadIfNeeded(pr, ov) ==
    IF pr.pendingReload
    THEN [pr EXCEPT !.pendingReload = FALSE,
                    !.rootNames = {p \in Roots : disk[p] # None \/ ov[p] # None}]
    ELSE pr

(* The project after a request, and whether its program is a new one.      *)
updateProgram(pr, df, ov) ==
    LET config == reloadIfNeeded(pr, ov)
        text == GetFile(df, ov, pr.dirtyFilePath)
        clone == /\ pr.loaded /\ ~pr.pendingReload /\ pr.dirtyFilePath # None
                 /\ canReplaceFileInProgram(pr, text)
        built == IF clone THEN CloneProgram(config, text) ELSE NewProgram(config, df, ov)
    IN  IF ~pr.dirty /\ ~pr.pendingReload
        THEN [project |-> pr, new |-> FALSE, cache |-> df]
        ELSE [project |-> [built EXCEPT !.loaded = TRUE, !.dirty = FALSE, !.dirtyFilePath = None],
              new |-> ~clone,
              cache |-> ReadFiles(df, ov, IF clone THEN {pr.dirtyFilePath} ELSE Contained(built))]

----------------------------------------------------------------------------
(* Snapshot.Clone *)

(* The new snapshot for summary s and overlays new.  If the project is     *)
(* requested its program is brought up to date; files no program has seen  *)
(* leave the cache when it may have shrunk, or when idle.                  *)
Clone(s, new, requested, idle) ==
    LET applied == ApplyToCache(diskFiles, s, overlays, new)
        marked == DidChangeFiles(project, applied.summary)
        up == IF requested THEN updateProgram(marked, applied.cache, new)
              ELSE [project |-> marked, new |-> FALSE, cache |-> applied.cache]
        shrunk == \/ s.opened # None \/ s.reopened # None \/ s.closed # {}
                  \/ applied.summary.deleted # {}
    IN  /\ project' = up.project
        /\ diskFiles' = [p \in Paths |->
                            IF (idle \/ (shrunk /\ up.new)) /\ p \notin up.project.seenFiles
                            THEN None ELSE up.cache[p]]
        /\ overlays' = new

(* Process the changes and clone the snapshot; all: the API asks to        *)
(* discard all caches.                                                     *)
FlushAndClone(changes, all, requested, idle) ==
    \E r \in processChanges(changes) :
        /\ panicked' = r.panic
        /\ Clone([r.summary EXCEPT !.invalidateAll = all, !.watched = @ \/ all],
                 r.overlays, requested, idle)
        /\ pending' = <<>>

----------------------------------------------------------------------------
UpdateInit ==
    /\ OverlayInit
    /\ diskFiles = NoFiles
    /\ project = [loaded |-> FALSE, files |-> NoFiles, dirty |-> TRUE, dirtyFilePath |-> None,
                  seenFiles |-> {}, missingDirectories |-> {}, rootNames |-> {},
                  pendingReload |-> TRUE]
    /\ untold = FALSE

ClientStep == Client /\ UNCHANGED <<diskFiles, project, untold>>

(* DidOpenFile *)
Open(u, c) ==
    /\ ~panicked /\ MayOpen(u) /\ u \in Roots
    /\ editor' = [editor EXCEPT ![u] = c]
    /\ FlushAndClone(Append(pending, Edit("open", u, c)), FALSE, TRUE, FALSE)
    /\ UNCHANGED <<disk, inflight, untold>>

(* getSnapshot, for a request about a document of the project.             *)
getSnapshot ==
    /\ ~panicked /\ project.loaded
    /\ pending # <<>> \/ project.dirty
    /\ FlushAndClone(pending, FALSE, TRUE, FALSE)
    /\ UNCHANGED <<disk, editor, inflight, untold>>

(* scheduleIdleCacheClean *)
IdleCacheClean ==
    /\ ~panicked /\ project.loaded
    /\ FlushAndClone(pending, FALSE, FALSE, TRUE)
    /\ UNCHANGED <<disk, editor, inflight, untold>>

(* APIUpdateWithFileChanges, for a project the API has opened.             *)
APIInvalidateAll ==
    /\ ~panicked /\ Api /\ project.loaded
    /\ FlushAndClone(pending, TRUE, TRUE, FALSE)
    /\ untold' = FALSE
    /\ UNCHANGED <<disk, editor, inflight>>

UnwatchedWrite(p, c) ==
    /\ Api /\ c # disk[p] /\ (c = None \/ disk[p] = None => p \in Volatile)
    /\ disk' = [disk EXCEPT ![p] = c]
    /\ untold' = TRUE
    /\ UNCHANGED <<editor, inflight, pending, overlays, panicked, diskFiles, project>>

UpdateNext ==
    /\ \/ ClientStep
       \/ \E u \in Touched, c \in Contents : Open(u, c)
       \/ getSnapshot
       \/ IdleCacheClean
       \/ APIInvalidateAll
       \/ \E p \in Paths, c \in Contents \cup {None} : UnwatchedWrite(p, c)
    /\ UNCHANGED setting

UpdateSpec == UpdateInit /\ [][UpdateNext]_updateVars

----------------------------------------------------------------------------
(* Properties *)

(* Every change has reached the server and has been processed.             *)
Quiet == pending = <<>> /\ inflight = <<>> /\ ~untold

(* What a program built now from nothing would contain.                    *)
Truth == [p \in Paths |-> IF overlays[p] # None THEN overlays[p] ELSE disk[p]]
FreshFiles == ProgramFiles(Truth, {p \in Roots : Truth[p] # None})

(* A program that is not marked dirty is the one a full build would give:  *)
(* batching, caching, ignored watch events of open files and the update of *)
(* a single file leave no stale text, no deleted and no missing file.  And *)
(* when the project remembers one dirty file, "it is known that only the   *)
(* file with the given path has changed": every other file of its program  *)
(* has its current text.                                                   *)
ProgramFresh ==
    Quiet /\ project.loaded =>
        /\ ~project.dirty => project.files = FreshFiles
        /\ project.dirtyFilePath # None =>
              \A p \in Contained(project) \ {project.dirtyFilePath} : project.files[p] = Truth[p]

(* A cached disk file that is not marked for reload has the text on disk,  *)
(* unless it is open in the editor.                                        *)
DiskFilesFresh ==
    /\ diskFiles \in [Paths -> DiskFile \cup {None}] /\ project \in Project
    /\ Quiet => \A p \in Paths :
        overlays[p] = None /\ diskFiles[p] # None /\ ~diskFiles[p].needsReload =>
            diskFiles[p].content = disk[p]
=============================================================================
