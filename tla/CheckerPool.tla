---------------------------- MODULE CheckerPool ----------------------------
(***************************************************************************)
(* The language server's pool of type checkers                             *)
(* (internal/project/checkerpool.go).  Every program of a snapshot has one *)
(* pool; request goroutines take a checker with GetChecker and give it     *)
(* back with the release function they received.  The pool's mutex makes   *)
(* each of the two a single step, except that GetChecker may sleep on the  *)
(* pool's condition variable in the middle.                                *)
(*                                                                         *)
(* A process is one request goroutine.  An identified process passes the   *)
(* context of its LSP request, whose id is here the process itself; an     *)
(* anonymous one passes a context without an id (API requests, and the     *)
(* call hierarchy and file rename code, which use context.Background()).   *)
(* Acquisitions nest in both kinds, and releases are deferred, so each     *)
(* process returns its checkers in the reverse order.                      *)
(***************************************************************************)
EXTENDS Naturals, Sequences, FiniteSets

CONSTANTS
    Procs,           \* goroutines that use the pool
    Anonymous,       \* those whose context carries no request id
    Files,           \* source files a request may name
    Diags,           \* global diagnostics a checker may produce
    MaxCheckers,     \* size of the pool
    MaxCancels,      \* bound: checkers canceled while in use
    IdentifiedDepth, \* bound: nested acquisitions of an identified process
    AnonymousDepth,  \* bound: nested acquisitions of an anonymous process
    MaxGets,         \* bound: process -> calls of GetChecker it makes
    None             \* nil, no slot, no file

ASSUME PoolAssumption ==
    /\ MaxCheckers \in Nat \ {0}
    /\ MaxCancels \in Nat
    /\ IdentifiedDepth \in Nat \ {0}
    /\ AnonymousDepth \in Nat \ {0}
    /\ MaxGets \in [Procs -> Nat]
    /\ Anonymous \subseteq Procs
    /\ None \notin Nat
    /\ None \notin Files
    /\ IsFiniteSet(Diags)

Slots == 1 .. MaxCheckers
CheckerIds == Nat \ {0}
Handle == [slot : Slots, checker : CheckerIds, owns : BOOLEAN]

VARIABLES
    checkers,             \* slot -> checker or None
    inUse,                \* the checkers marked as in use
    created,              \* checkers created so far; the number of the newest
    canceled,             \* checkers whose WasCanceled() is true
    globals,              \* slot -> global diagnostics of its checker
    fileAssociations,     \* file -> slot or None
    requestAssociations,  \* process -> slot or None
    accumulated,          \* globalDiagAccumulated
    changed,              \* globalDiagChanged
    count,                \* globalDiagCheckerCount
    reported,             \* history: accumulated when the flag was last taken
    pc,                   \* "run", "waiting" in cond.Wait, or "woken" from it
    wanted,               \* the file of the GetChecker call that waits
    held,                 \* process -> stack of unreleased acquisitions
    gets                  \* process -> calls of GetChecker made

poolVars == <<checkers, inUse, created, fileAssociations, requestAssociations>>
diagVars == <<accumulated, changed, count, reported>>
vars == <<poolVars, diagVars, canceled, globals, pc, wanted, held, gets>>

----------------------------------------------------------------------------
(* The pool *)

(* Fault: the scan for a checker forgets the inUse map.                    *)
AvailableOrBusy == {i \in Slots : checkers[i] # None}

Available == {i \in Slots : checkers[i] # None /\ checkers[i] \notin inUse}
Empty == {i \in Slots : checkers[i] = None}
First(S) == {i \in S : \A j \in S : i <= j}

Identified(p) == p \notin Anonymous
Depth(p) == IF Identified(p) THEN IdentifiedDepth ELSE AnonymousDepth
Top(p) == held[p][Len(held[p])]

Init ==
    /\ checkers = [i \in Slots |-> None]
    /\ inUse = {}
    /\ created = 0
    /\ canceled = {}
    /\ globals = [i \in Slots |-> {}]
    /\ fileAssociations = [f \in Files |-> None]
    /\ requestAssociations = [p \in Procs |-> None]
    /\ accumulated = {}
    /\ changed = FALSE
    /\ count = [i \in Slots |-> 0]
    /\ reported = {}
    /\ pc = [p \in Procs |-> "run"]
    /\ wanted = [p \in Procs |-> None]
    /\ held = [p \in Procs |-> <<>>]
    /\ gets = [p \in Procs |-> 0]

----------------------------------------------------------------------------
(* GetChecker *)

(* The tail every successful acquisition of checker c in slot i shares.    *)
Grant(p, i, c) ==
    /\ inUse' = inUse \cup {c}
    /\ requestAssociations' = IF Identified(p)
                              THEN [requestAssociations EXCEPT ![p] = i]
                              ELSE requestAssociations
    /\ held' = [held EXCEPT ![p] =
                  Append(@, [slot |-> i, checker |-> c, owns |-> TRUE])]

(* Fault: slots counted from zero.                                         *)
AssociateOffByOne(f, i) ==
    fileAssociations' = [g \in Files |-> IF g = f THEN i - 1 ELSE fileAssociations[g]]

Associate(f, i) ==
    fileAssociations' = [g \in Files |-> IF g = f THEN i ELSE fileAssociations[g]]

(* A process is about to call GetChecker.                                  *)
Calls(p) ==
    /\ pc[p] = "run"
    /\ gets[p] < MaxGets[p]
    /\ Len(held[p]) < Depth(p)
    /\ gets' = [gets EXCEPT ![p] = @ + 1]

(* getRequestCheckerLocked finds a checker for the request.                *)
HasRequestChecker(p) ==
    /\ Identified(p)
    /\ requestAssociations[p] # None
    /\ checkers[requestAssociations[p]] # None

(* The file's checker exists and is free.                                  *)
HasFileChecker(f) == f \in Files /\ fileAssociations[f] \in Available

(* getRequestCheckerLocked: a checker the request already uses is returned *)
(* again, with a release function that does nothing.                       *)
GetRequestChecker(p) ==
    /\ Calls(p)
    /\ HasRequestChecker(p)
    /\ LET i == requestAssociations[p]
           c == checkers[i]
       IN  IF c \in inUse
           THEN /\ held' = [held EXCEPT ![p] =
                             Append(@, [slot |-> i, checker |-> c, owns |-> FALSE])]
                /\ UNCHANGED <<inUse, requestAssociations>>
           ELSE Grant(p, i, c)
    /\ UNCHANGED <<checkers, created, fileAssociations, diagVars, canceled,
                   globals, pc, wanted>>

GetFileChecker(p, f) ==
    /\ Calls(p)
    /\ ~HasRequestChecker(p)
    /\ HasFileChecker(f)
    /\ Grant(p, fileAssociations[f], checkers[fileAssociations[f]])
    /\ UNCHANGED <<checkers, created, fileAssociations, diagVars, canceled,
                   globals, pc, wanted>>

(* getImmediatelyAvailableChecker finds one.                               *)
GetAvailable(p, f) ==
    /\ Calls(p)
    /\ ~HasRequestChecker(p)
    /\ ~HasFileChecker(f)
    /\ \E i \in First(Available) : Grant(p, i, checkers[i]) /\ Associate(f, i)
    /\ UNCHANGED <<checkers, created, diagVars, canceled, globals, pc, wanted>>

(* createCheckerLocked: a new checker may already have global diagnostics. *)
Create(p, f) ==
    /\ Calls(p)
    /\ ~HasRequestChecker(p)
    /\ ~HasFileChecker(f)
    /\ Available = {}
    /\ created' = created + 1
    /\ \E i \in First(Empty) :
           /\ checkers' = [checkers EXCEPT ![i] = created + 1]
           /\ \E ds \in SUBSET Diags : globals' = [globals EXCEPT ![i] = ds]
           /\ Grant(p, i, created + 1)
           /\ Associate(f, i)
    /\ UNCHANGED <<diagVars, canceled, pc, wanted>>

(* waitForAvailableChecker: the pool is full and everything is in use.     *)
Wait(p, f) ==
    /\ Calls(p)
    /\ ~HasRequestChecker(p)
    /\ ~HasFileChecker(f)
    /\ Available = {}
    /\ Empty = {}
    /\ pc' = [pc EXCEPT ![p] = "waiting"]
    /\ wanted' = [wanted EXCEPT ![p] = f]
    /\ UNCHANGED <<poolVars, diagVars, canceled, globals, held>>

(* cond.Wait returns: only existing free checkers are considered.          *)
Wake(p) ==
    /\ pc[p] = "woken"
    /\ IF Available # {}
       THEN /\ \E i \in First(Available) :
                  Grant(p, i, checkers[i]) /\ Associate(wanted[p], i)
            /\ pc' = [pc EXCEPT ![p] = "run"]
            /\ wanted' = [wanted EXCEPT ![p] = None]
       ELSE /\ pc' = [pc EXCEPT ![p] = "waiting"]
            /\ UNCHANGED <<inUse, requestAssociations, fileAssociations, held, wanted>>
    /\ UNCHANGED <<checkers, created, diagVars, canceled, globals, gets>>

----------------------------------------------------------------------------
(* Using and releasing a checker *)

(* The type checker runs for p and produces a global diagnostic.           *)
Check(p, d) ==
    /\ pc[p] = "run"
    /\ held[p] # <<>>
    /\ Top(p).checker \notin canceled
    /\ globals' = [globals EXCEPT ![Top(p).slot] = @ \cup {d}]
    /\ UNCHANGED <<poolVars, diagVars, canceled, pc, wanted, held, gets>>

(* checkSourceFile notices that p's context was canceled.                  *)
Cancel(p) ==
    /\ pc[p] = "run"
    /\ held[p] # <<>>
    /\ Cardinality(canceled) < MaxCancels
    /\ canceled' = canceled \cup {Top(p).checker}
    /\ UNCHANGED <<poolVars, diagVars, globals, pc, wanted, held, gets>>

(* Fault: no signal while an earlier one has not been acted upon.          *)
SignalOnce ==
    LET waiting == {q \in Procs : pc[q] = "waiting"}
    IN  IF waiting = {} \/ \E q \in Procs : pc[q] = "woken"
        THEN pc' = pc
        ELSE \E q \in waiting : pc' = [pc EXCEPT ![q] = "woken"]

(* Fault: a release that signals nobody.                                   *)
SignalNobody == pc' = pc

(* cond.Signal wakes one waiting goroutine, if there is one.               *)
Signal ==
    LET waiting == {q \in Procs : pc[q] = "waiting"}
    IN  IF waiting = {}
        THEN pc' = pc
        ELSE \E q \in waiting : pc' = [pc EXCEPT ![q] = "woken"]

(* mergeGlobalDiagnosticsFromCheckerLocked                                 *)
Merge(i) ==
    IF Cardinality(globals[i]) = count[i]
    THEN UNCHANGED <<accumulated, changed, count>>
    ELSE /\ count' = [count EXCEPT ![i] = Cardinality(globals[i])]
         /\ accumulated' = accumulated \cup globals[i]
         /\ changed' = (changed \/ Cardinality(accumulated') # Cardinality(accumulated))

(* Fault: the count of a disposed checker is left for its successor.       *)
ReturnKeepsCount(h) ==
    IF h.checker \in canceled
    THEN /\ checkers' = [checkers EXCEPT ![h.slot] = None]
         /\ UNCHANGED <<accumulated, changed, count>>
    ELSE /\ Merge(h.slot)
         /\ UNCHANGED checkers

(* What the release function does to the checker it was created for.       *)
Return(h) ==
    IF h.checker \in canceled
    THEN /\ checkers' = [checkers EXCEPT ![h.slot] = None]
         /\ count' = [count EXCEPT ![h.slot] = 0]
         /\ UNCHANGED <<accumulated, changed>>
    ELSE /\ Merge(h.slot)
         /\ UNCHANGED checkers

(* Fault: the release function of a nested acquisition frees the checker.  *)
ReleaseNested(p) ==
    /\ pc[p] = "run"
    /\ held[p] # <<>>
    /\ requestAssociations' = IF Identified(p)
                              THEN [requestAssociations EXCEPT ![p] = None]
                              ELSE requestAssociations
    /\ Return(Top(p))
    /\ inUse' = inUse \ {Top(p).checker}
    /\ Signal
    /\ held' = [held EXCEPT ![p] = SubSeq(@, 1, Len(@) - 1)]
    /\ UNCHANGED <<created, fileAssociations, reported, canceled, globals,
                   wanted, gets>>

Release(p) ==
    /\ pc[p] = "run"
    /\ held[p] # <<>>
    /\ IF Top(p).owns
       THEN /\ requestAssociations' = IF Identified(p)
                                      THEN [requestAssociations EXCEPT ![p] = None]
                                      ELSE requestAssociations
            /\ Return(Top(p))
            /\ inUse' = inUse \ {Top(p).checker}
            /\ Signal
       ELSE UNCHANGED <<checkers, inUse, requestAssociations, accumulated,
                        changed, count, pc>>
    /\ held' = [held EXCEPT ![p] = SubSeq(@, 1, Len(@) - 1)]
    /\ UNCHANGED <<created, fileAssociations, reported, canceled, globals,
                   wanted, gets>>

TakeNewGlobalDiagnostics ==
    /\ changed' = FALSE
    /\ reported' = IF changed THEN accumulated ELSE reported
    /\ UNCHANGED <<poolVars, accumulated, count, canceled, globals, pc, wanted,
                   held, gets>>

----------------------------------------------------------------------------
GetChecker(p, f) ==
    \/ GetFileChecker(p, f)
    \/ GetAvailable(p, f)
    \/ Create(p, f)
    \/ Wait(p, f)

Next ==
    \/ \E p \in Procs : \/ GetRequestChecker(p)
                        \/ \E f \in Files \cup {None} : GetChecker(p, f)
                        \/ Wake(p)
                        \/ \E d \in Diags : Check(p, d)
                        \/ Cancel(p)
                        \/ Release(p)
    \/ TakeNewGlobalDiagnostics

(* A goroutine woken from cond.Wait gets the mutex back eventually, and a  *)
(* request handler ends and runs its deferred release.                     *)
Fairness == \A p \in Procs : WF_vars(Wake(p)) /\ WF_vars(Release(p))

Spec == Init /\ [][Next]_vars
FairSpec == Spec /\ Fairness

----------------------------------------------------------------------------
(* Properties *)

(* The types of the variables.                                             *)
TypeOK ==
    /\ checkers \in [Slots -> CheckerIds \cup {None}]
    /\ inUse \subseteq CheckerIds
    /\ created \in Nat
    /\ canceled \subseteq CheckerIds
    /\ globals \in [Slots -> SUBSET Diags]
    /\ fileAssociations \in [Files -> Slots \cup {None}]
    /\ requestAssociations \in [Procs -> Slots \cup {None}]
    /\ accumulated \subseteq Diags
    /\ changed \in BOOLEAN
    /\ count \in [Slots -> Nat]
    /\ reported \subseteq Diags
    /\ pc \in [Procs -> {"run", "waiting", "woken"}]
    /\ wanted \in [Procs -> Files \cup {None}]
    /\ held \in [Procs -> Seq(Handle)]
    /\ gets \in [Procs -> Nat]

(* Each acquisition is exclusive: two goroutines never hold the same       *)
(* checker, whatever nesting, cancellation, file affinity and waking do.   *)
Exclusive ==
    \A p, q \in Procs : p # q =>
        \A k \in DOMAIN held[p], l \in DOMAIN held[q] :
            held[p][k].checker # held[q][l].checker

(* Types of different checkers cannot be mixed: an identified request gets *)
(* one and the same checker from all its nested acquisitions, and that     *)
(* checker stays in the pool and in use until the outermost release.       *)
OneCheckerPerRequest ==
    \A p \in Procs \ Anonymous : \A k \in DOMAIN held[p] :
        /\ held[p][k].checker = held[p][1].checker
        /\ checkers[held[p][k].slot] = held[p][k].checker
        /\ held[p][k].checker \in inUse

(* A request association always leads to a checker the request holds: the  *)
(* branch of getRequestCheckerLocked for a checker that is not in use      *)
(* never runs.                                                             *)
AssociationIsHeld ==
    \A p \in Procs : requestAssociations[p] # None =>
        /\ held[p] # <<>>
        /\ held[p][1].slot = requestAssociations[p]
        /\ checkers[requestAssociations[p]] \in inUse

(* No global diagnostic is lost: what a free checker has produced has been *)
(* merged, although the merge is skipped when the number is unchanged, and *)
(* the flag TakeNewGlobalDiagnostics returns is set whenever diagnostics   *)
(* were accumulated since it was last taken.                               *)
NoDiagnosticLost ==
    /\ \A i \in Available : globals[i] \subseteq accumulated
    /\ changed \/ accumulated = reported

(* No wakeup is lost: while a goroutine sleeps on the condition variable   *)
(* and a checker is free, some goroutine has been woken to take one.       *)
NoLostWakeup ==
    (\E p \in Procs : pc[p] = "waiting") /\ Available # {}
        => \E q \in Procs : pc[q] = "woken"

(* GetChecker returns: a goroutine that waits for a checker gets one.      *)
GetCheckerReturns == \A p \in Procs : pc[p] # "run" ~> pc[p] = "run"

(* As long as no checker in use is canceled and nobody waits while holding *)
(* a checker, GetChecker returns, although newcomers may take the checker  *)
(* a woken goroutine was to get.                                           *)
ReturnsUnlessCanceled ==
    [](canceled = {} /\ \A p \in Procs : held[p] # <<>> => pc[p] = "run")
        => GetCheckerReturns
=============================================================================
