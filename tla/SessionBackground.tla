------------------------- MODULE SessionBackground -------------------------
(***************************************************************************)
(* The background work of a language server session                        *)
(* (internal/project/session.go) and the queue that runs it                *)
(* (internal/project/background/queue.go): the debounced request to the    *)
(* client to ask for diagnostics again, and the coalesced publication of   *)
(* the global diagnostics that checkers found.                             *)
(*                                                                         *)
(* The module has the state and the steps; LspServer composes them with    *)
(* the handlers that schedule and cancel this work, and with the           *)
(* connection the work writes to.  Each call of ScheduleDiagnosticsRefresh *)
(* takes a new task of Tasks; a pool is the checker pool of a configured   *)
(* project, with its flag of new global diagnostics.                       *)
(***************************************************************************)
EXTENDS Integers, Sequences, FiniteSets

CONSTANTS
    Tasks,       \* bound: calls of ScheduleDiagnosticsRefresh, a set of positive numbers
    Pools,       \* checker pools of the snapshot's configured projects
    None

ASSUME BackgroundAssumption == Tasks \subseteq Nat \ {0} /\ None \notin Nat /\ Pools \cap Nat = {}

VARIABLES
    ended,            \* backgroundCtx is canceled
    closed,           \* Queue.closed
    refreshCancel,    \* whose cancel function diagnosticsRefreshCancel is
    refresh,          \* the tasks: where they are, whether their context is canceled
    due,              \* history: a refresh was scheduled and is neither sent nor withdrawn
    publishPending,   \* globalDiagPublishPending
    publish,          \* the publication task and the pools it has still to visit
    news              \* newGlobalDiagnostics of each pool

background == <<closed, refreshCancel, refresh, due, publishPending, publish, news>>

RefreshStates == {"unused", "queued", "delay", "fired", "call", "done"}

BackgroundTypeOK ==
    /\ ended \in BOOLEAN /\ closed \in BOOLEAN /\ due \in BOOLEAN
    /\ refreshCancel \in Tasks \cup {None}
    /\ refresh \in [Tasks -> [st : RefreshStates, canceled : BOOLEAN]]
    /\ publishPending \in BOOLEAN
    /\ publish \in [st : {"none", "queued", "scan"}, left : SUBSET Pools]
    /\ news \in [Pools -> BOOLEAN]

BackgroundInit ==
    /\ ended = FALSE /\ closed = FALSE /\ due = FALSE
    /\ refreshCancel = None
    /\ refresh = [t \in Tasks |-> [st |-> "unused", canceled |-> FALSE]]
    /\ publishPending = FALSE
    /\ publish = [st |-> "none", left |-> {}]
    /\ news = [p \in Pools |-> FALSE]

----------------------------------------------------------------------------
(* Enqueue starts no task once the queue is closed or the context is done. *)
Enqueue(st) == IF closed \/ ended THEN "done" ELSE st

CanceledBy(t) == IF t = None THEN refresh ELSE [refresh EXCEPT ![t].canceled = TRUE]

(* Fault: the new task runs with the context that was just canceled.       *)
ScheduleCancelsItself ==
    \E t \in Tasks :
        /\ refresh[t].st = "unused" /\ \A u \in Tasks : u < t => refresh[u].st # "unused"
        /\ refresh' = [CanceledBy(refreshCancel) EXCEPT
                          ![t] = [st |-> Enqueue("queued"), canceled |-> refreshCancel # None]]
        /\ refreshCancel' = t
        /\ due' = (due \/ refresh'[t].st = "queued")

ScheduleDiagnosticsRefresh ==
    \E t \in Tasks :
        /\ refresh[t].st = "unused" /\ \A u \in Tasks : u < t => refresh[u].st # "unused"
        /\ refresh' = [CanceledBy(refreshCancel) EXCEPT ![t] = [st |-> Enqueue("queued"), canceled |-> FALSE]]
        /\ refreshCancel' = t
        /\ due' = (due \/ refresh'[t].st = "queued")

cancelDiagnosticsRefresh ==
    /\ refresh' = CanceledBy(refreshCancel)
    /\ refreshCancel' = None
    /\ due' = FALSE

(* The goroutine of a task starts, unless its context is done by then.     *)
RefreshStart(t) ==
    /\ refresh[t].st = "queued"
    /\ refresh' = [refresh EXCEPT ![t].st = IF refresh[t].canceled \/ ended THEN "done" ELSE "delay"]
    /\ UNCHANGED <<closed, refreshCancel, due, publishPending, publish, news>>

(* The select on the delay and the context: when both are ready, either.   *)
RefreshDelay(t) ==
    /\ refresh[t].st = "delay"
    /\ \/ refresh' = [refresh EXCEPT ![t].st = "fired"]
       \/ /\ refresh[t].canceled \/ ended
          /\ refresh' = [refresh EXCEPT ![t].st = "done"]
    /\ UNCHANGED <<closed, refreshCancel, due, publishPending, publish, news>>

(* The task clears the cancel function, whosever it is by now.             *)
RefreshClear(t) ==
    /\ refresh[t].st = "fired"
    /\ refreshCancel' = None
    /\ refresh' = [refresh EXCEPT ![t].st = "call"]
    /\ UNCHANGED <<closed, due, publishPending, publish, news>>

----------------------------------------------------------------------------
EnqueuePublishGlobalDiagnostics ==
    \/ publishPending /\ UNCHANGED <<publishPending, publish>>
    \/ /\ ~publishPending
       /\ publishPending' = TRUE
       /\ publish' = [publish EXCEPT !.st = IF Enqueue("queued") = "queued" THEN "queued" ELSE "none"]

(* publishGlobalDiagnostics starts, unless the context is done by then.    *)
PublishStart ==
    /\ publish.st = "queued"
    /\ publish' = IF ended THEN [st |-> "none", left |-> {}] ELSE [st |-> "scan", left |-> Pools]
    /\ UNCHANGED <<closed, refreshCancel, refresh, due, publishPending, news>>

(* TakeNewGlobalDiagnostics of one pool; Publish sends what it found.      *)
PublishTake(p, Publish) ==
    /\ publish.st = "scan" /\ p \in publish.left
    /\ publish' = [publish EXCEPT !.left = @ \ {p}]
    /\ news' = [news EXCEPT ![p] = FALSE]
    /\ Publish
    /\ UNCHANGED <<closed, refreshCancel, refresh, due, publishPending>>

(* Fault: the task returns without the deferred reset of the flag.         *)
PublishEndKeepsFlag ==
    /\ publish.st = "scan" /\ publish.left = {}
    /\ publish' = [publish EXCEPT !.st = "none"]
    /\ UNCHANGED <<closed, refreshCancel, refresh, due, publishPending, news>>

(* The deferred reset of the flag, when every pool was visited.            *)
PublishEnd ==
    /\ publish.st = "scan" /\ publish.left = {}
    /\ publish' = [publish EXCEPT !.st = "none"]
    /\ publishPending' = FALSE
    /\ UNCHANGED <<closed, refreshCancel, refresh, due, news>>

(* Close cancels the refresh and closes the queue.                         *)
Close ==
    /\ cancelDiagnosticsRefresh
    /\ closed' = TRUE

=============================================================================
