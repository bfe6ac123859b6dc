----------------------------- MODULE OverlayFS -----------------------------
(***************************************************************************)
(* The files open in the editor (internal/project/overlayfs.go), and the   *)
(* session's queue of file changes that feeds them                         *)
(* (internal/project/session.go).                                          *)
(*                                                                         *)
(* The editor reports open, change, save and close of its documents; the   *)
(* client also reports what its file watchers saw.  The changes wait in    *)
(* pendingFileChanges until a snapshot is needed.  processChanges then     *)
(* reduces the changes of each document to one set of facts and applies    *)
(* them to the overlays.  Opening a document processes the queue at once.  *)
(*                                                                         *)
(* An overlay is its text.  Versions, script kinds and line maps are left  *)
(* out, and so is the flag matchesDiskText, which is never read of an      *)
(* overlay.                                                                *)
(***************************************************************************)
EXTENDS Naturals, Sequences, FiniteSets, Functions

CONSTANTS
    Uris,         \* document URIs
    Paths,        \* canonical file paths
    PathOf,       \* URI -> path
    Contents,     \* file contents
    Settings,     \* environments in which the server runs
    MaxInflight,  \* bound: watch events that have not reached the server
    None          \* no file, no document, no overlay

ASSUME OverlayAssumption ==
    /\ PathOf \in [Uris -> Paths]
    /\ \A e \in Settings : /\ e.touched \subseteq Uris /\ e.maxPending \in Nat
                          /\ e.volatile \subseteq Paths /\ e.delayed \in BOOLEAN
    /\ MaxInflight \in Nat
    /\ None \notin Contents /\ None \notin Uris

VARIABLES
    disk,      \* path -> content or None
    editor,    \* URI -> content of the open document or None
    inflight,  \* watch events on their way to the server
    pending,   \* pendingFileChanges
    overlays,  \* path -> text of the overlay or None
    panicked,  \* processChanges has panicked
    setting    \* the environment of this behaviour

fileVars == <<disk, editor, inflight, pending, overlays, panicked, setting>>

(* The documents and files that change; the paths other programs create    *)
(* and delete; whether watch events reach the server some time later; and  *)
(* a bound: changes waiting in pendingFileChanges.                         *)
Touched == setting.touched
Volatile == setting.volatile
Delayed == setting.delayed
MaxPending == setting.maxPending

WatchKinds == {"create", "changed", "delete"}
Kinds == {"open", "close", "change", "save"} \cup WatchKinds
Change == [kind : Kinds, uri : Uris, content : Contents \cup {None}]

Edit(k, u, c) == [kind |-> k, uri |-> u, content |-> c]
Event(k, u) == [kind |-> k, uri |-> u, content |-> None]

----------------------------------------------------------------------------
(* Reduction of the changes of one document *)

NoEvents == [open |-> None, close |-> FALSE, watchChanged |-> FALSE, change |-> None,
             saved |-> FALSE, created |-> FALSE, deleted |-> FALSE, panic |-> FALSE]

(* Fault: closing forgets to drop the changes made before.                 *)
OnCloseKeep(ev) == [ev EXCEPT !.close = TRUE, !.saved = FALSE, !.watchChanged = FALSE]

OnClose(ev) ==
    [ev EXCEPT !.close = TRUE, !.change = None, !.saved = FALSE, !.watchChanged = FALSE]

(* Fault: the first of several changes is applied last.                    *)
OnChangeFirst(ev, c) ==
    [ev EXCEPT !.change = IF @ = None THEN c ELSE @, !.saved = FALSE, !.watchChanged = FALSE]

OnChange(ev, c) ==
    [ev EXCEPT !.change = c, !.saved = FALSE, !.watchChanged = FALSE]

(* A create after a delete is a change; a delete after a create is         *)
(* nothing; a file just created is not also changed.                       *)
OnWatch(ev, kind) ==
    CASE kind = "create"  -> IF ev.deleted
                             THEN [ev EXCEPT !.deleted = FALSE, !.watchChanged = TRUE]
                             ELSE [ev EXCEPT !.created = TRUE]
      [] kind = "changed" -> IF ev.created THEN ev
                             ELSE [ev EXCEPT !.watchChanged = TRUE, !.saved = FALSE]
      [] kind = "delete"  -> [ev EXCEPT !.watchChanged = FALSE, !.saved = FALSE,
                                        !.created = FALSE,
                                        !.deleted = ev.deleted \/ ~ev.created]

(* The effect of one more change.  Nothing may follow an open, and no edit *)
(* may follow a close.                                                     *)
Reduce(ev, c) ==
    IF ev.open # None \/ (ev.close /\ c.kind = "change") THEN [ev EXCEPT !.panic = TRUE]
    ELSE CASE c.kind = "open"       -> [NoEvents EXCEPT !.open = c.content]
           [] c.kind = "close"      -> OnClose(ev)
           [] c.kind = "change"     -> OnChange(ev, c.content)
           [] c.kind = "save"       -> [ev EXCEPT !.saved = TRUE]
           [] c.kind \in WatchKinds -> OnWatch(ev, c.kind)

Changed(changes) == {changes[i].uri : i \in DOMAIN changes}
ReduceFor(u, ev, c) == IF c.uri = u THEN Reduce(ev, c) ELSE ev

(* What the first changes of a batch come to for document u, for each      *)
(* number of them.                                                         *)
EventsAfter(changes, u) ==
    LET after[i \in 0..Len(changes)] ==
            IF i = 0 THEN NoEvents ELSE ReduceFor(u, after[i - 1], changes[i])
    IN  after
EventsOf(changes, u) == EventsAfter(changes, u)[Len(changes)]

----------------------------------------------------------------------------
(* Application to the overlays *)

NoSummary == [opened |-> None, reopened |-> None, closed |-> {}, changed |-> {},
              created |-> {}, deleted |-> {}, invalidateAll |-> FALSE, watched |-> FALSE]

If(cond, u) == IF cond THEN {u} ELSE {}

ApplyOpen(ev, r, u) ==
    LET p == PathOf[u]
        o == r.overlays[p]
        edited == o # None /\ o # ev.open
    IN  [overlays |-> [r.overlays EXCEPT ![p] = ev.open],
         summary |-> [r.summary EXCEPT !.changed = @ \cup If(edited, u),
                                       !.opened = IF o = None THEN u ELSE @,
                                       !.reopened = IF o # None /\ ~edited THEN u ELSE @],
         panic |-> r.panic \/ r.summary.opened # None \/ r.summary.reopened # None]

(* An outside change of a file that is open is no change of the document.  *)
ApplyRest(ev, r, u) ==
    LET p == PathOf[u]
        old == r.overlays[p]
        kept == IF ev.close THEN None ELSE old
        new == IF kept # None /\ ev.change # None THEN ev.change ELSE kept
    IN  [overlays |-> [r.overlays EXCEPT ![p] = new],
         summary |-> [r.summary EXCEPT
             !.closed = @ \cup If(ev.close, u),
             !.changed = @ \cup If((ev.watchChanged /\ kept = None) \/ ev.change # None, u),
             !.created = @ \cup If(ev.created /\ new = None, u),
             !.deleted = @ \cup If(ev.deleted /\ new = None, u)],
         panic |-> \/ r.panic
                   \/ ev.close /\ old = None
                   \/ kept = None /\ (ev.change # None \/ ev.saved)]

Apply(changes, r, u) ==
    LET ev == EventsOf(changes, u)
    IN  IF ev.panic THEN [r EXCEPT !.panic = TRUE]
        ELSE IF ev.open # None THEN ApplyOpen(ev, r, u)
        ELSE ApplyRest(ev, r, u)

(* What has become of r after the first documents of an order.             *)
Visit(changes, r, order) ==
    LET after[i \in 0..Len(order)] ==
            IF i = 0 THEN r ELSE Apply(changes, after[i - 1], order[i])
    IN  after

(* The possible results: the documents are visited in the order of a Go    *)
(* map, which is any order.  No path is below node_modules.                *)
processChanges(changes) ==
    LET n == Cardinality(Changed(changes))
        watched == \E i \in DOMAIN changes : changes[i].kind \in WatchKinds
        none == [overlays |-> overlays, summary |-> [NoSummary EXCEPT !.watched = watched],
                 panic |-> FALSE]
    IN  {Visit(changes, none, order)[n] : order \in Bijection(1..n, Changed(changes))}

----------------------------------------------------------------------------
(* The client *)

Room(n) == Len(pending) + n <= MaxPending

(* The watch events a change of path p causes.                             *)
WatchEvent(p, u) ==
    Event(IF disk[p] = None THEN "create" ELSE "changed", u)

(* Hand the edits es, and the watch events ws they cause, to the server.   *)
Report(es, ws) ==
    /\ ~panicked
    /\ IF Delayed
       THEN /\ Room(Len(es)) /\ Len(inflight) + Len(ws) <= MaxInflight
            /\ pending' = pending \o es
            /\ inflight' = inflight \o ws
       ELSE /\ Room(Len(es) + Len(ws))
            /\ pending' = pending \o es \o ws
            /\ UNCHANGED inflight

DidChangeFile(u, c) ==
    /\ editor[u] # None
    /\ editor' = [editor EXCEPT ![u] = c]
    /\ Report(<<Edit("change", u, c)>>, <<>>)
    /\ UNCHANGED <<disk, overlays, panicked>>

DidCloseFile(u) ==
    /\ editor[u] # None
    /\ editor' = [editor EXCEPT ![u] = None]
    /\ Report(<<Event("close", u)>>, <<>>)
    /\ UNCHANGED <<disk, overlays, panicked>>

DidSaveFile(u) ==
    /\ editor[u] # None
    /\ disk' = [disk EXCEPT ![PathOf[u]] = editor[u]]
    /\ Report(<<Event("save", u)>>, <<WatchEvent(PathOf[u], u)>>)
    /\ UNCHANGED <<editor, overlays, panicked>>

DiskWrite(u, c) ==
    LET p == PathOf[u]
    IN  /\ disk[p] # c
        /\ disk[p] = None => p \in Volatile
        /\ disk' = [disk EXCEPT ![p] = c]
        /\ Report(<<>>, <<WatchEvent(p, u)>>)
        /\ UNCHANGED <<editor, overlays, panicked>>

DiskDelete(u) ==
    LET p == PathOf[u]
    IN  /\ disk[p] # None /\ p \in Volatile
        /\ disk' = [disk EXCEPT ![p] = None]
        /\ Report(<<>>, <<Event("delete", u)>>)
        /\ UNCHANGED <<editor, overlays, panicked>>

DidChangeWatchedFiles ==
    /\ ~panicked /\ inflight # <<>> /\ Room(1)
    /\ pending' = Append(pending, Head(inflight))
    /\ inflight' = Tail(inflight)
    /\ UNCHANGED <<disk, editor, overlays, panicked>>

(* The steps of the client that leave work for the next flush.             *)
Client ==
    \/ \E u \in Touched : \/ \E c \in Contents : DidChangeFile(u, c) \/ DiskWrite(u, c)
                          \/ DidCloseFile(u)
                          \/ DidSaveFile(u)
                          \/ DiskDelete(u)
    \/ DidChangeWatchedFiles

(* The editor has no other document for the same file.                     *)
MayOpen(u) == \A v \in Uris : PathOf[v] = PathOf[u] => editor[v] = None

----------------------------------------------------------------------------
OverlayInit ==
    /\ setting \in Settings
    /\ disk \in [Paths -> Contents \cup {None}]
    /\ \A p \in Paths \ Volatile : disk[p] # None
    /\ editor = [u \in Uris |-> None]
    /\ inflight = <<>>
    /\ pending = <<>>
    /\ overlays = [p \in Paths |-> None]
    /\ panicked = FALSE

----------------------------------------------------------------------------
(* Properties *)

(* The types of the variables.                                             *)
OverlayTypeOK ==
    /\ disk \in [Paths -> Contents \cup {None}]
    /\ editor \in [Uris -> Contents \cup {None}]
    /\ \A i \in DOMAIN inflight : inflight[i] \in Change /\ inflight[i].kind \in WatchKinds
    /\ \A i \in DOMAIN pending : pending[i] \in Change /\ pending[i].kind # "open"
    /\ Len(inflight) <= MaxInflight /\ Len(pending) <= MaxPending
    /\ overlays \in [Paths -> Contents \cup {None}]
    /\ panicked \in BOOLEAN
    /\ setting \in Settings

(* For a client that follows the protocol none of the panics of            *)
(* processChanges is reachable, whatever accumulates in a batch: no change *)
(* after an open or a close, no edit, save or close without an overlay,    *)
(* one open at a time.                                                     *)
NoPanic == OverlayTypeOK /\ ~panicked

(* Once the queue is processed the overlays are the documents open in the  *)
(* editor with their latest text: reducing a batch to its net effect loses *)
(* no edit and revives no closed document.                                 *)
OverlaysFollowEditor ==
    pending = <<>> =>
        \A u \in Uris :
            IF editor[u] = None
            THEN MayOpen(u) => overlays[PathOf[u]] = None
            ELSE overlays[PathOf[u]] = editor[u]
=============================================================================
