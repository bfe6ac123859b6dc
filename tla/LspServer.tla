----------------------------- MODULE LspServer -----------------------------
(***************************************************************************)
(* The language server's connection (internal/lsp/server.go): the read     *)
(* loop, the dispatch loop, the write loop, the goroutines of asynchronous *)
(* handlers, the requests the server sends to its client, and the          *)
(* background work of the session (SessionBackground) that handlers start. *)
(*                                                                         *)
(* The client sends the messages of a script, chosen in Init, and answers  *)
(* the server's requests.  The text a handler sees is the number of edits  *)
(* applied.  Log messages, which share the outgoing queue, are left out.   *)
(***************************************************************************)
EXTENDS SessionBackground

CONSTANTS
    Scripts,     \* what the client may send: sequences of messages
    QueueCap,    \* capacity of requestQueue
    OutCap       \* capacity of outgoingQueue

Documents == {"hover", "references"}             \* handlers with asynchronous work
Synchronous == {"symbol", "shutdown"}            \* registerRequestHandler
Requests == Documents \cup Synchronous \cup {"initialize", "unknown", "invalid"}
Events == {"initialized", "edit", "watch", "configure", "exit"}

(* A client numbers its requests.  One that is orderly sends no request    *)
(* for a document and no edit before "initialized".                        *)
IsScript(s) ==
    /\ s.messages \in Seq([method : Requests \cup Events \cup {"cancel"}, id : Nat])
    /\ {s.cold, s.orderly, s.paced, s.closes} \subseteq BOOLEAN
    /\ \A k \in DOMAIN s.messages : s.messages[k].method \in Requests =>
          /\ s.messages[k].id # 0
          /\ \A j \in DOMAIN s.messages :
                s.messages[j].method \in Requests /\ s.messages[j].id = s.messages[k].id => j = k
    /\ s.cold /\ s.orderly => \A k \in DOMAIN s.messages :
          s.messages[k].method \in Documents \cup {"edit"} =>
              \E j \in 1 .. k - 1 : s.messages[j].method = "initialized"

ASSUME ServerAssumption ==
    /\ QueueCap \in Nat \ {0} /\ OutCap \in Nat \ {0}
    /\ \A s \in Scripts : IsScript(s)

VARIABLES
    load,        \* the script, and whether the client keeps the queue from filling
    next,        \* the next message of the script
    stdin,       \* written by the client, not yet read
    reader,      \* readLoop: where it is and the message at hand
    initialize,  \* initializeParams is set
    session,     \* s.session is set
    queue,       \* requestQueue
    dispatcher,  \* dispatchLoop: where it is, the message, the rest of its handler
    exiting,     \* lspExit was called
    pending,     \* keys of pendingClientRequests
    canceled,    \* requests whose context was canceled by cancelRequest
    text,        \* edits applied
    work,        \* the goroutines of asynchronous handlers, by request
    asking,      \* sendClientRequest of the dispatch loop and of each refresh task
    channels,    \* the response channel of each request, by its number clientSeq
    pendingServer, \* keys of pendingServerRequests
    outgoing,    \* outgoingQueue
    writer,      \* whether writeLoop runs
    asked,       \* server requests the client has to answer
    answers,     \* responses the client received, by request
    crashed      \* a panic nobody recovers

client == <<load, next, asked, answers>>
loops == <<reader, initialize, queue, pending, canceled, stdin>>
handling == <<dispatcher, session, exiting, text>>
calls == <<asking, channels, pendingServer>>
vars == <<client, loops, handling, calls, work, outgoing, writer, ended, background, crashed>>

Script == load.messages
Ids == (UNION {{s.messages[k].id : k \in DOMAIN s.messages} : s \in Scripts}) \ {0}
Callers == {0} \cup Tasks                        \* 0: the dispatch loop
Message(method, id) == [method |-> method, id |-> id]
Received(m, k) == [method |-> m.method, id |-> m.id, at |-> k]   \* the k-th message
Idle == Received(Message("none", 0), 0)

Answer(id, body, n) == [to |-> "answer", id |-> id, body |-> body, text |-> n]
Ask(id) == [to |-> "ask", id |-> id]
Publication(p) == [to |-> "publish", id |-> p]

Position(id) == CHOOSE k \in DOMAIN Script : Script[k].id = id /\ Script[k].method \in Requests
EditsBefore(k) == Cardinality({j \in 1 .. k - 1 : Script[j].method = "edit"})

(* A context is done when its request, the dispatch loop or the server is. *)
Done(id) == id \in canceled \/ exiting \/ ended

(* send: room in the queue, or the end of the background context.          *)
Send(m) == \/ Len(outgoing) < OutCap /\ outgoing' = Append(outgoing, m)
           \/ ended /\ UNCHANGED outgoing

----------------------------------------------------------------------------
(* The client.  One that is paced never has more messages on their way to  *)
(* the dispatch loop than the request queue holds.                         *)
ClientSends ==
    /\ next <= Len(Script)
    /\ load.paced => Len(stdin) + Len(queue) + (IF reader.st = "push" THEN 1 ELSE 0) < QueueCap
    /\ stdin' = Append(stdin, Received(Script[next], next))
    /\ next' = next + 1
    /\ UNCHANGED <<load, asked, answers, reader, initialize, queue, pending, canceled>>
    /\ UNCHANGED <<handling, calls, work, outgoing, writer, ended, background, crashed>>

(* The client answers a request, with a result or an error.                *)
ClientAnswers ==
    \E id \in asked, body \in {"result", "error"} :
        /\ asked' = asked \ {id}
        /\ stdin' = Append(stdin, [method |-> "response", id |-> id, body |-> body])
        /\ UNCHANGED <<load, next, answers, reader, initialize, queue, pending, canceled>>
        /\ UNCHANGED <<handling, calls, work, outgoing, writer, ended, background, crashed>>

----------------------------------------------------------------------------
(* readLoop.                                                               *)
ReadTo(st, m) == reader' = [st |-> st, message |-> m, body |-> "none"]
ReadReply(m, body) == reader' = [st |-> "reply", message |-> m, body |-> body]

(* Responses: to the channel of the request, if somebody still waits.      *)
ReadResponse(m) ==
    /\ IF m.id \in pendingServer
       THEN /\ channels' = [channels EXCEPT ![m.id] = IF @ = "open" THEN m.body ELSE "panic"]
            /\ pendingServer' = pendingServer \ {m.id}
       ELSE UNCHANGED <<channels, pendingServer>>
    /\ ReadTo("read", Idle)
    /\ UNCHANGED <<initialize, queue, pending, canceled, asking, outgoing>>

(* Fault: the cancellation answers the request itself.                     *)
CancelAnswers(id) ==
    IF id \in pending
    THEN /\ canceled' = canceled \cup {id} /\ pending' = pending \ {id}
         /\ ReadReply([Idle EXCEPT !.id = id], "cancelled")
    ELSE UNCHANGED <<canceled, pending>> /\ ReadTo("read", Idle)

cancelRequest(id) ==
    /\ IF id \in pending
       THEN canceled' = canceled \cup {id} /\ pending' = pending \ {id}
       ELSE UNCHANGED <<canceled, pending>>
    /\ ReadTo("read", Idle)

ReadMessage ==
    /\ reader.st = "read" /\ stdin # <<>>
    /\ stdin' = Tail(stdin)
    /\ LET m == Head(stdin) IN
       \/ /\ m.method = "invalid"
          /\ ReadReply(m, "error")
          /\ UNCHANGED <<initialize, queue, pending, canceled, calls, outgoing>>
       \/ /\ ~initialize /\ m.method \in Requests \ {"invalid"}
          /\ initialize' = (m.method = "initialize")
          /\ ReadReply(m, IF m.method = "initialize" THEN "initialized" ELSE "error")
          /\ UNCHANGED <<queue, pending, canceled, calls, outgoing>>
       \/ m.method = "response" /\ ReadResponse(m)
       \/ /\ m.method = "cancel"
          /\ cancelRequest(m.id)
          /\ UNCHANGED <<initialize, queue, calls, outgoing>>
       \/ /\ m.method \in Events \cup (IF initialize THEN Requests \ {"invalid"} ELSE {})
          /\ ReadTo("push", m)
          /\ UNCHANGED <<initialize, queue, pending, canceled, calls, outgoing>>
    /\ UNCHANGED <<client, handling, work, writer, ended, background, crashed>>

(* s.requestQueue <- req: nothing else ends this wait.                     *)
ReadPush ==
    /\ reader.st = "push" /\ Len(queue) < QueueCap
    /\ queue' = Append(queue, reader.message)
    /\ ReadTo("read", Idle)
    /\ UNCHANGED <<initialize, pending, canceled, stdin>>
    /\ UNCHANGED <<client, handling, calls, work, outgoing, writer, ended, background, crashed>>

(* The read loop answers by itself; it ends when that fails.               *)
ReadAnswers ==
    /\ reader.st = "reply"
    /\ Send(Answer(reader.message.id, reader.body, 0))
    /\ ReadTo(IF outgoing' = outgoing THEN "stopped" ELSE "read", Idle)
    /\ UNCHANGED <<initialize, queue, pending, canceled, stdin>>
    /\ UNCHANGED <<client, handling, calls, work, writer, ended, background, crashed>>

(* The loop finds its context done, or the end of the input, which the     *)
(* waiting member of the group turns into the end of the server.           *)
ReadStops ==
    /\ reader.st = "read"
    /\ \/ ended /\ UNCHANGED ended
       \/ /\ load.closes /\ next > Len(Script) /\ stdin = <<>>
          /\ ended' = TRUE
    /\ ReadTo("stopped", Idle)
    /\ UNCHANGED <<initialize, queue, pending, canceled, stdin>>
    /\ UNCHANGED <<client, handling, calls, work, outgoing, writer, background, crashed>>

----------------------------------------------------------------------------
(* dispatchLoop.                                                           *)

(* What the synchronous work of each handler does, call by call.           *)
Handlers(m) ==
    CASE m.method = "initialized" -> {<<"session", "request", "request">>,
                                      <<"session", "request", "refresh", "schedule", "request">>}
      [] m.method = "edit" -> {<<"edit">>}
      [] m.method = "watch" -> {<<"schedule">>}
      [] m.method = "configure" -> {<<"refresh", "schedule">>}
      [] m.method = "exit" -> {<<"exit">>}
      [] m.method = "shutdown" -> {<<"close">>}
      [] OTHER -> {<<>>}

At(op) == dispatcher.st = "handle" /\ dispatcher.ops # <<>> /\ Head(dispatcher.ops) = op
Advance == dispatcher' = [dispatcher EXCEPT !.ops = Tail(@)]
Abort == dispatcher' = [dispatcher EXCEPT !.ops = <<>>, !.failed = TRUE]
Finish(st, body) == dispatcher' = [dispatcher EXCEPT !.st = st, !.body = body]
Selecting == [st |-> "select", message |-> Idle, ops |-> <<>>, failed |-> FALSE, body |-> "none"]

(* A request is registered before its handler runs.  Without a session     *)
(* every handler but that of "initialized" fails.                          *)
Dispatch ==
    /\ dispatcher.st = "select" /\ queue # <<>>
    /\ queue' = Tail(queue)
    /\ LET m == Head(queue) IN
       /\ pending' = IF m.method \in Requests THEN pending \cup {m.id} ELSE pending
       /\ \E ops \in Handlers(m) :
             dispatcher' = [st |-> "handle", message |-> m, body |-> "none",
                            failed |-> ~session /\ m.method # "initialized",
                            ops |-> IF session \/ m.method = "initialized" THEN ops ELSE <<>>]
    /\ UNCHANGED <<reader, initialize, canceled, stdin, session, exiting, text>>
    /\ UNCHANGED <<client, calls, work, outgoing, writer, ended, background, crashed>>

DispatchStops ==
    /\ dispatcher.st = "select" /\ (exiting \/ ended)
    /\ dispatcher' = [Selecting EXCEPT !.st = "stopped"]
    /\ ended' = TRUE
    /\ UNCHANGED <<client, loops, session, exiting, text, calls, work, outgoing, writer, background, crashed>>

HandleSession ==
    /\ At("session") /\ Advance /\ session' = TRUE
    /\ UNCHANGED <<client, loops, exiting, text, calls, work, outgoing, writer, ended, background, crashed>>

(* DidOpenFile, DidChangeFile, DidSaveFile, DidCloseFile.                  *)
HandleEdit ==
    /\ At("edit") /\ Advance
    /\ text' = text + 1
    /\ cancelDiagnosticsRefresh
    /\ UNCHANGED <<closed, publishPending, publish, news>>
    /\ UNCHANGED <<client, loops, session, exiting, calls, work, outgoing, writer, ended, crashed>>

(* DidChangeWatchedFiles, and Configure for some preferences.              *)
HandleSchedule ==
    /\ At("schedule") /\ Advance
    /\ ScheduleDiagnosticsRefresh
    /\ UNCHANGED <<closed, publishPending, publish, news>>
    /\ UNCHANGED <<client, loops, session, exiting, text, calls, work, outgoing, writer, ended, crashed>>

HandleClose ==
    /\ At("close") /\ Advance
    /\ Close
    /\ UNCHANGED <<publishPending, publish, news>>
    /\ UNCHANGED <<client, loops, session, exiting, text, calls, work, outgoing, writer, ended, crashed>>

HandleExit ==
    /\ At("exit") /\ Advance /\ exiting' = TRUE
    /\ UNCHANGED <<client, loops, session, text, calls, work, outgoing, writer, ended, background, crashed>>

(* The handler of a document request takes the language service, and with  *)
(* it the text, before it leaves the rest to a goroutine.  It does not     *)
(* look whether there is a session.                                        *)
HandleDocument ==
    LET id == dispatcher.message.id IN
    /\ dispatcher.st = "handle" /\ dispatcher.message.method \in Documents
    /\ \/ session /\ UNCHANGED work /\ Finish("reply", "error")
       \/ /\ session
          /\ work' = [work EXCEPT ![id] = [@ EXCEPT !.st = "run", !.text = text,
                                           !.method = dispatcher.message.method]]
          /\ dispatcher' = Selecting
       \/ ~session /\ UNCHANGED <<work, dispatcher>>
    /\ crashed' = ~session
    /\ UNCHANGED <<client, loops, session, exiting, text, calls, outgoing, writer, ended, background>>

(* The synchronous work is over: a request is answered, an event is not.   *)
HandleEnd ==
    LET m == dispatcher.message IN
    /\ dispatcher.st = "handle" /\ dispatcher.ops = <<>> /\ m.method \notin Documents
    /\ \/ m.method \in Events /\ dispatcher' = Selecting
       \/ /\ m.method \in Requests
          /\ \/ (dispatcher.failed \/ m.method # "shutdown") /\ Finish("reply", "error")
             \/ /\ ~dispatcher.failed /\ m.method \in Synchronous
                /\ Finish("reply", IF Done(m.id) THEN "cancelled" ELSE "result")
    /\ UNCHANGED <<client, loops, session, exiting, text, calls, work, outgoing, writer, ended, background, crashed>>

DispatchAnswers ==
    /\ dispatcher.st = "reply"
    /\ Send(Answer(dispatcher.message.id, dispatcher.body, text))
    /\ Finish("remove", "none")
    /\ UNCHANGED <<client, loops, session, exiting, text, calls, work, writer, ended, background, crashed>>

(* removeRequest.                                                          *)
DispatchRemoves ==
    /\ dispatcher.st = "remove"
    /\ pending' = pending \ {dispatcher.message.id}
    /\ dispatcher' = Selecting
    /\ UNCHANGED <<reader, initialize, queue, canceled, stdin, session, exiting, text>>
    /\ UNCHANGED <<client, calls, work, outgoing, writer, ended, background, crashed>>

----------------------------------------------------------------------------
(* sendClientRequest, by the dispatch loop (0) or a refresh task, with the *)
(* context that ends the wait.                                             *)
Wants(c) == IF c = 0 THEN At("request") \/ At("refresh") ELSE refresh[c].st = "call"
ContextDone(c) == ended \/ (c = 0 /\ At("request") /\ exiting)

(* The channel is registered and the request queued, or send fails and the *)
(* channel is removed again.                                               *)
AskSends(c) ==
    /\ Wants(c) /\ asking[c].st = "none"
    /\ \/ /\ Len(outgoing) < OutCap
          /\ outgoing' = Append(outgoing, Ask(Len(channels) + 1))
          /\ channels' = Append(channels, "open")
          /\ pendingServer' = pendingServer \cup {Len(channels) + 1}
          /\ asking' = [asking EXCEPT ![c] = [st |-> "wait", id |-> Len(channels) + 1, body |-> "none"]]
          /\ due' = (due /\ c = 0)
       \/ /\ ended
          /\ asking' = [asking EXCEPT ![c] = [st |-> "failed", id |-> 0, body |-> "error"]]
          /\ UNCHANGED <<outgoing, channels, pendingServer, due>>
    /\ UNCHANGED <<closed, refreshCancel, refresh, publishPending, publish, news>>
    /\ UNCHANGED <<client, loops, handling, work, writer, ended, crashed>>

AskWaits(c) ==
    /\ asking[c].st = "wait"
    /\ \/ /\ channels[asking[c].id] \in {"result", "error"}
          /\ asking' = [asking EXCEPT ![c].st = "close", ![c].body = channels[asking[c].id]]
       \/ ContextDone(c) /\ asking' = [asking EXCEPT ![c].st = "close", ![c].body = "error"]
    /\ UNCHANGED <<channels, pendingServer>>
    /\ UNCHANGED <<client, loops, handling, work, outgoing, writer, ended, background, crashed>>

(* The deferred removal of a channel that no response has removed.         *)
CloseChannel(id) ==
    IF id \in pendingServer
    THEN /\ channels' = [channels EXCEPT ![id] = IF @ = "open" THEN "closed" ELSE "panic"]
         /\ pendingServer' = pendingServer \ {id}
    ELSE UNCHANGED <<channels, pendingServer>>

(* The call returns: an error ends the handler of "initialized"; that of a *)
(* changed configuration, and a refresh task, only log it.                 *)
AskReturns(c) ==
    /\ asking[c].st \in {"close", "failed"}
    /\ IF asking[c].st = "close" THEN CloseChannel(asking[c].id) ELSE UNCHANGED <<channels, pendingServer>>
    /\ asking' = [asking EXCEPT ![c] = [st |-> "none", id |-> 0, body |-> "none"]]
    /\ IF c = 0
       THEN /\ IF At("request") /\ asking[c].body = "error" THEN Abort ELSE Advance
            /\ UNCHANGED refresh
       ELSE /\ refresh' = [refresh EXCEPT ![c].st = "done"]
            /\ UNCHANGED dispatcher
    /\ UNCHANGED <<closed, refreshCancel, due, publishPending, publish, news>>
    /\ UNCHANGED <<client, loops, session, exiting, text, work, outgoing, writer, ended, crashed>>

----------------------------------------------------------------------------
(* The goroutine of an asynchronous handler: the feature runs to a result  *)
(* or an error, perhaps finding global diagnostics of a pool, or panics,   *)
(* which recover answers.                                                  *)
WorkTo(r, st, body) == work' = [work EXCEPT ![r].st = st, ![r].body = body]

(* Fault: the goroutine takes the language service.                        *)
WorkRunsLate(r) ==
    /\ work[r].st = "run"
    /\ work' = [work EXCEPT ![r].st = "end", ![r].body = "result", ![r].text = text]
    /\ UNCHANGED <<client, loops, handling, calls, outgoing, writer, ended, background, crashed>>

WorkRuns(r) ==
    /\ work[r].st = "run"
    /\ \/ /\ \E body \in {"result", "error"} : WorkTo(r, "end", body)
          /\ \/ UNCHANGED news
             \/ \E p \in Pools : news' = [news EXCEPT ![p] = TRUE]
       \/ WorkTo(r, "reply", "error") /\ UNCHANGED news
    /\ UNCHANGED <<closed, refreshCancel, refresh, due, publishPending, publish>>
    /\ UNCHANGED <<client, loops, handling, calls, outgoing, writer, ended, crashed>>

(* Fault: a canceled request is not answered.                              *)
WorkEndsSilently(r) ==
    /\ work[r].st = "end"
    /\ IF Done(r) THEN WorkTo(r, "remove", "none") ELSE WorkTo(r, "reply", work[r].body)
    /\ UNCHANGED <<client, loops, handling, calls, outgoing, writer, ended, background, crashed>>

(* Handlers of one kind look for news of global diagnostics; then the      *)
(* error, the cancellation or the result is the answer.                    *)
WorkEnds(r) ==
    /\ work[r].st = "end"
    /\ IF work[r].method = "hover" THEN EnqueuePublishGlobalDiagnostics ELSE UNCHANGED <<publishPending, publish>>
    /\ \/ work[r].body = "error" /\ WorkTo(r, "reply", "error")
       \/ Done(r) /\ WorkTo(r, "reply", "cancelled")
       \/ work[r].body = "result" /\ ~Done(r) /\ WorkTo(r, "reply", "result")
    /\ UNCHANGED <<closed, refreshCancel, refresh, due, news>>
    /\ UNCHANGED <<client, loops, handling, calls, outgoing, writer, ended, crashed>>

WorkAnswers(r) ==
    /\ work[r].st = "reply"
    /\ Send(Answer(r, work[r].body, work[r].text))
    /\ WorkTo(r, "remove", "none")
    /\ UNCHANGED <<client, loops, handling, calls, writer, ended, background, crashed>>

WorkRemoves(r) ==
    /\ work[r].st = "remove"
    /\ pending' = pending \ {r}
    /\ WorkTo(r, "done", "none")
    /\ UNCHANGED <<reader, initialize, queue, canceled, stdin>>
    /\ UNCHANGED <<client, handling, calls, outgoing, writer, ended, background, crashed>>

----------------------------------------------------------------------------
(* writeLoop.                                                              *)
Write ==
    /\ writer /\ outgoing # <<>>
    /\ outgoing' = Tail(outgoing)
    /\ LET m == Head(outgoing) IN
       \/ m.to = "answer" /\ answers' = [answers EXCEPT ![m.id] = Append(@, m)] /\ UNCHANGED asked
       \/ m.to = "ask" /\ asked' = asked \cup {m.id} /\ UNCHANGED answers
       \/ m.to = "publish" /\ UNCHANGED <<asked, answers>>
    /\ UNCHANGED <<load, next, loops, handling, calls, work, writer, ended, background, crashed>>

(* The context is done, or the client is gone and the write fails.         *)
WriteStops ==
    /\ writer
    /\ ended \/ (load.closes /\ next > Len(Script) /\ outgoing # <<>>)
    /\ writer' = FALSE /\ ended' = TRUE
    /\ UNCHANGED <<client, loops, handling, calls, work, outgoing, background, crashed>>

----------------------------------------------------------------------------
RefreshTask(t) ==
    /\ RefreshStart(t) \/ RefreshDelay(t) \/ RefreshClear(t)
    /\ UNCHANGED <<client, loops, handling, calls, work, outgoing, writer, ended, crashed>>

PublishTask ==
    /\ \/ (PublishStart \/ PublishEnd) /\ UNCHANGED outgoing
       \/ \E p \in Pools : PublishTake(p, IF news[p] THEN Send(Publication(p)) ELSE UNCHANGED outgoing)
    /\ UNCHANGED <<client, loops, handling, calls, work, writer, ended, crashed>>

Init ==
    /\ load \in Scripts
    /\ next = 1 /\ stdin = <<>> /\ queue = <<>> /\ outgoing = <<>>
    /\ reader = [st |-> "read", message |-> Idle, body |-> "none"]
    /\ initialize = ~load.cold /\ session = ~load.cold
    /\ dispatcher = Selecting /\ exiting = FALSE
    /\ pending = {} /\ canceled = {} /\ text = 0
    /\ work = [r \in Ids |-> [st |-> "none", method |-> "none", text |-> 0, body |-> "none"]]
    /\ asking = [c \in Callers |-> [st |-> "none", id |-> 0, body |-> "none"]]
    /\ channels = <<>> /\ pendingServer = {}
    /\ writer = TRUE /\ asked = {} /\ answers = [r \in Ids |-> <<>>] /\ crashed = FALSE
    /\ BackgroundInit

Read == ReadMessage \/ ReadPush \/ ReadAnswers \/ ReadStops
Handle == HandleSession \/ HandleEdit \/ HandleSchedule \/ HandleClose \/ HandleExit \/ HandleDocument \/ HandleEnd
DispatchLoop == Dispatch \/ Handle \/ DispatchAnswers \/ DispatchRemoves \/ DispatchStops
Asking(c) == AskSends(c) \/ AskWaits(c) \/ AskReturns(c)
Work(r) == WorkRuns(r) \/ WorkEnds(r) \/ WorkAnswers(r) \/ WorkRemoves(r)
WriteLoop == Write \/ WriteStops

(* What the server does, and the client's answers to its requests.         *)
Serve ==
    \/ ClientAnswers
    \/ Read \/ DispatchLoop \/ WriteLoop \/ PublishTask
    \/ \E c \in Callers : Asking(c)
    \/ \E r \in Ids : Work(r)
    \/ \E t \in Tasks : RefreshTask(t)

Next == ~crashed /\ (ClientSends \/ Serve)

Spec == Init /\ [][Next]_vars

(* Some goroutine that can run does, timers fire, and the client answers   *)
(* what it is asked.  It need not send anything.  Every step uses up a     *)
(* message, a call or a task, so that no goroutine can run for ever at the *)
(* expense of another.                                                     *)
Fairness == WF_vars(~crashed /\ Serve)

FairSpec == Spec /\ Fairness

----------------------------------------------------------------------------
TypeOK ==
    /\ BackgroundTypeOK
    /\ next \in 1 .. Len(Script) + 1 /\ Len(queue) <= QueueCap /\ Len(outgoing) <= OutCap
    /\ reader.st \in {"read", "push", "reply", "stopped"}
    /\ dispatcher.st \in {"select", "handle", "reply", "remove", "stopped"}
    /\ pending \cup canceled \subseteq Ids /\ pendingServer \cup asked \subseteq DOMAIN channels
    /\ \A r \in Ids : work[r].st \in {"none", "run", "end", "reply", "remove", "done"}
    /\ \A c \in Callers : asking[c].st \in {"none", "wait", "close", "failed"}

Queued(id) == {k \in DOMAIN outgoing : outgoing[k].to = "answer" /\ outgoing[k].id = id}
Given(id) == {answers[id][k] : k \in DOMAIN answers[id]} \cup {outgoing[k] : k \in Queued(id)}
WasSent(m) == \E k \in 1 .. next - 1 : Script[k] = m
Unanswered == {k \in 1 .. next - 1 : Script[k].method \in Requests /\ answers[Script[k].id] = <<>>}

(* No request is answered twice, whatever cancellations, panics, errors of *)
(* the read loop and of handlers come together; none is answered as        *)
(* canceled unless the client canceled it or the server is stopping; and   *)
(* no response channel is closed or written after it was closed            *)
(* (readLoop, cancelRequest, dispatchLoop, recover, sendClientRequest).  A *)
(* server whose client sends nothing before "initialized" does not panic.  *)
AnsweredOnce ==
    /\ TypeOK
    /\ crashed => ~load.orderly
    /\ \A k \in DOMAIN channels : channels[k] # "panic"
    /\ \A id \in Ids :
          /\ Len(answers[id]) + Cardinality(Queued(id)) <= 1
          /\ \A a \in Given(id) : a.body = "cancelled" => WasSent(Message("cancel", id)) \/ exiting \/ ended

(* The answer to a request reflects the edits the client sent before it    *)
(* and none it sent after it, though the feature runs in a goroutine while *)
(* the dispatch loop goes on with later edits                              *)
(* (registerLanguageServiceDocumentRequestHandler, handlerMap's comment).  *)
(* The client waits for "initialized": an edit before it is refused.       *)
SeesEdits ==
    load.orderly => \A id \in Ids : \A a \in Given(id) :
        a.body = "result" => a.text = EditsBefore(Position(id))

(* Unless the client floods the request queue, every request is answered   *)
(* or the server stops, and a server that has handled "exit" or lost its   *)
(* client stops: neither the waits of the dispatch loop for responses nor  *)
(* a full outgoing queue hold it for ever (readLoop, dispatchLoop, send).  *)
Served ==
    /\ (load.paced /\ Unanswered # {}) ~> (Unanswered = {} \/ ended \/ crashed)
    /\ (load.paced /\ (exiting \/ ended)) ~> (dispatcher.st = "stopped" /\ ~writer)

(* A scheduled refresh of diagnostics is sent, unless an edit or shutdown  *)
(* withdraws it, however calls of ScheduleDiagnosticsRefresh, their delays *)
(* and cancellations interleave.  A refresh sent for an earlier call after *)
(* a later one serves both.                                                *)
RefreshComes == (load.paced /\ due) ~> (~due \/ ended)

(* News of global diagnostics is published when its request reports it     *)
(* (EnqueuePublishGlobalDiagnostics), if the publication that is running   *)
(* has not passed its pool.  If it has, the news waits for the next        *)
(* request, for the flag is reset only when the task ends.                 *)
Passed(p) == publish.st = "scan" /\ p \notin publish.left

NewsPublished ==
    \A p \in Pools :
        (news[p] /\ ~Passed(p) /\ \E r \in Ids : work[r].st = "end" /\ work[r].method = "hover")
            ~> (~news[p] \/ closed \/ ended)

=============================================================================
