-------------------------- MODULE LspServerProofs --------------------------
(***************************************************************************)
(* Proofs about LspServer, for every set of scripts and every capacity of  *)
(* the queues: whatever the loops, handlers, goroutines and cancellations  *)
(* do in whatever order, no request is answered twice, an answer is about  *)
(* the text the client had sent, and an orderly client meets no panic.     *)
(* The inductive invariant says where each message of the script is, in    *)
(* which order the messages are, which edits were applied, and which       *)
(* answer a request has.                                                   *)
(***************************************************************************)
EXTENDS LspServer, FiniteSetTheorems, TLAPS

(* Most steps are first-order reasoning about sets, functions and records, *)
(* which is Zenon's; those with arithmetic in them cite SMT.               *)
USE Zenon

(* What there is to read, to handle and to write.                          *)
Sent == {Received(Script[k], k) : k \in 1 .. next - 1}
Responses == [method : {"response"}, id : DOMAIN channels, body : {"result", "error"}]
Bodies == {"none", "initialized", "result", "error", "cancelled"}
Outputs == [to : {"answer"}, id : Ids, body : Bodies, text : Nat]
               \cup [to : {"ask"}, id : DOMAIN channels] \cup [to : {"publish"}, id : Pools]

InShape ==
    /\ load \in Scripts /\ next \in 1 .. Len(Script) + 1
    /\ stdin \in Seq(Sent \cup Responses)
    /\ queue \in Seq(Sent) /\ Len(queue) <= QueueCap
    /\ reader \in [st : {"read", "push", "reply", "stopped"}, message : Sent \cup {Idle}, body : Bodies]
    /\ reader.st \in {"push", "reply"} => reader.message \in Sent
    /\ reader.st = "reply" => reader.message.method \in Requests
    /\ reader.body \notin {"result", "cancelled"}

Ops == {"session", "request", "refresh", "schedule", "edit", "close", "exit"}
HandShape ==
    /\ dispatcher \in [st : {"select", "handle", "reply", "remove", "stopped"}, message : Sent \cup {Idle},
                       ops : Seq(Ops), failed : BOOLEAN, body : Bodies]
    /\ dispatcher.st \in {"handle", "reply", "remove"} => dispatcher.message \in Sent
    /\ dispatcher.st \in {"reply", "remove"} => dispatcher.message.method \in Requests
    /\ text \in Nat /\ session \in BOOLEAN /\ exiting \in BOOLEAN /\ crashed \in BOOLEAN

OutShape ==
    /\ outgoing \in Seq(Outputs) /\ Len(outgoing) <= OutCap
    /\ answers \in [Ids -> Seq(Outputs)]
    /\ work \in [Ids -> [st : {"none", "run", "end", "reply", "remove", "done"},
                         method : {"none"} \cup Documents, text : Nat, body : Bodies]]

(* A channel somebody waits for is open; no other is written or closed.    *)
ChannelsOK ==
    /\ channels \in Seq({"open", "result", "error", "closed"})
    /\ pendingServer \cup asked \subseteq DOMAIN channels
    /\ \A k \in pendingServer : channels[k] = "open"
    /\ asking \in [Callers -> [st : {"none", "wait", "close", "failed"}, id : Nat,
                               body : {"none", "result", "error"}]]
    /\ \A c \in Callers : asking[c].st \in {"wait", "close"} => asking[c].id \in DOMAIN channels

(* Where the k-th message is before it is answered or dealt with: with the *)
(* dispatch loop, in the queue, with the read loop or still to be read.    *)
In(s, k) == \E i \in DOMAIN s : s[i].method # "response" /\ s[i].at = k
InHand(k) == dispatcher.st \in {"handle", "reply"} /\ dispatcher.message.at = k
InReader(k) == reader.st \in {"push", "reply"} /\ reader.message.at = k
Waiting(k) == InHand(k) \/ In(queue, k) \/ InReader(k) \/ In(stdin, k)

Ordered(s) ==
    \A i, j \in DOMAIN s :
        i < j /\ s[i].method # "response" /\ s[j].method # "response" => s[i].at < s[j].at

(* Messages do not overtake each other on their way to the handlers.       *)
OrderOK ==
    /\ Ordered(stdin) /\ Ordered(queue)
    /\ \A j, k \in Nat :
          /\ InHand(j) /\ (In(queue, k) \/ InReader(k) \/ In(stdin, k)) => j < k
          /\ In(queue, j) /\ (InReader(k) \/ In(stdin, k)) => j < k
          /\ InReader(j) /\ In(stdin, k) => j < k

(* What is left of a handler.                                              *)
HandlerOK ==
    LET m == dispatcher.message
        ops == dispatcher.ops
    IN  /\ asking[0].st # "none" => At("request") \/ At("refresh")
        /\ dispatcher.st = "handle" =>
              /\ m.method \in Documents => ops = <<>>
              /\ m.method = "edit" => ops \in {<<>>, <<"edit">>}
              /\ m.method = "initialized" /\ ~session => ops # <<>> /\ Head(ops) = "session"
              /\ \A i \in DOMAIN ops : ops[i] = "edit" => m.method = "edit"

(* Requests are canceled because the client says so.                       *)
Excused(id) == WasSent(Message("cancel", id)) \/ exiting \/ ended
CancelOK ==
    /\ pending \subseteq Ids /\ canceled \subseteq Ids
    /\ \A id \in canceled : WasSent(Message("cancel", id))
    /\ dispatcher.st = "reply" /\ dispatcher.body = "cancelled" => Excused(dispatcher.message.id)

(* Until there is a session, "initialized" is on its way.                  *)
SessionOK ==
    /\ ~session => load.cold
    /\ ~session => \A k \in 1 .. next - 1 : Script[k].method = "initialized" => Waiting(k)
    /\ crashed => ~load.orderly

(* The edits that were applied are those that are not on their way, and    *)
(* the first ones.                                                         *)
EditPlaces(k) == {j \in 1 .. k - 1 : Script[j].method = "edit"}
Due(k) == Waiting(k) /\ (InHand(k) => dispatcher.ops # <<>>)
Applied == {j \in EditPlaces(next) : ~Due(j)}
EditsOK ==
    load.orderly => /\ text = Cardinality(Applied)
                    /\ \A j \in Applied : \A k \in Nat : Waiting(k) => j <= k

(* A request that is waiting or worked on has no answer, and none has two. *)
(* What is said of it is so: the text it saw, and that it was canceled.    *)
IsRequest(k, id) == Script[k].method \in Requests /\ Script[k].id = id
Known(id) == \E k \in DOMAIN Script : IsRequest(k, id)
Unused(id) == answers[id] = <<>> /\ Queued(id) = {}
AnswerOK(id) ==
    /\ \A k \in DOMAIN Script : IsRequest(k, id) =>
          /\ Waiting(k) \/ k >= next => Unused(id) /\ work[id].st = "none"
          /\ load.orderly /\ work[id].st # "none" => work[id].text = EditsBefore(k)
          /\ load.orderly => \A a \in Given(id) : a.body = "result" => a.text = EditsBefore(k)
    /\ Given(id) # {} \/ work[id].st # "none" => Known(id)
    /\ work[id].st \in {"run", "end", "reply"} => Unused(id)
    /\ work[id].st = "end" => work[id].body \in {"result", "error"}
    /\ work[id].st = "reply" /\ work[id].body = "cancelled" => Excused(id)
    /\ \A a \in Given(id) : a.body = "cancelled" => Excused(id)
    /\ Len(answers[id]) <= 1 /\ (answers[id] # <<>> => Queued(id) = {})
    /\ \A i, j \in Queued(id) : i = j

(* The inductive invariant.                                                *)
IInv ==
    /\ InShape /\ HandShape /\ OutShape /\ BackgroundTypeOK
    /\ ChannelsOK /\ OrderOK /\ HandlerOK /\ CancelOK /\ SessionOK /\ EditsOK
    /\ \A id \in Ids : AnswerOK(id)

----------------------------------------------------------------------------
(* Sequences *)

(* A message is in a longer queue if it was there or is the new one.       *)
LEMMA InAppend ==
    ASSUME NEW X, NEW s \in Seq(X), NEW e \in X
    PROVE  /\ Append(s, e) \in Seq(X) /\ Len(Append(s, e)) = Len(s) + 1
           /\ \A k : In(Append(s, e), k) <=> In(s, k) \/ (e.method # "response" /\ e.at = k)
<1>1. PICK t, n : t = Append(s, e) /\ n = Len(s) + 1
  OBVIOUS
<1>2. /\ t \in Seq(X) /\ Len(t) = n /\ DOMAIN t = DOMAIN s \cup {n} /\ t[n] = e
      /\ \A i \in DOMAIN s : t[i] = s[i]
  BY <1>1, SMT
<1>3. \A k : In(t, k) <=> In(s, k) \/ (e.method # "response" /\ e.at = k)
  BY <1>2 DEF In
<1> QED
  BY <1>1, <1>2, <1>3

(* A later message may be put behind the others.                           *)
LEMMA OrderedAppend ==
    ASSUME NEW X, NEW s \in Seq(X), NEW e \in X, Ordered(s),
           e.method # "response" => \A k : In(s, k) => k < e.at
    PROVE  Ordered(Append(s, e))
<1>1. PICK t, n : t = Append(s, e) /\ n = Len(s) + 1
  OBVIOUS
<1>2. /\ DOMAIN t = DOMAIN s \cup {n} /\ t[n] = e /\ ~(n < n)
      /\ \A i \in DOMAIN s : t[i] = s[i] /\ ~(n < i)
  BY <1>1, SMT
<1>3. ASSUME NEW i \in DOMAIN t, NEW j \in DOMAIN t, i < j, t[i].method # "response", t[j].method # "response"
      PROVE  t[i].at < t[j].at
  <2>1. i \in DOMAIN s /\ t[i] = s[i]
    BY <1>2, <1>3
  <2>2. CASE j \in DOMAIN s
    BY <1>2, <1>3, <2>1, <2>2 DEF Ordered
  <2>3. CASE j = n
    BY <1>2, <1>3, <2>1, <2>3 DEF In
  <2> QED
    BY <1>2, <2>2, <2>3
<1>4. Ordered(t)
  BY <1>3 DEF Ordered
<1> QED
  BY <1>1, <1>4

(* A message is at the head of a queue or in the rest of it.               *)
LEMMA InTail ==
    ASSUME NEW X, NEW s \in Seq(X), s # <<>>
    PROVE  /\ Tail(s) \in Seq(X) /\ Head(s) \in X /\ Len(Tail(s)) \in Nat /\ Len(s) = Len(Tail(s)) + 1
           /\ \A k : In(s, k) <=> In(Tail(s), k) \/ (Head(s).method # "response" /\ Head(s).at = k)
<1>1. PICK t : t = Tail(s)
  OBVIOUS
<1>2. /\ t \in Seq(X) /\ Head(s) \in X /\ Len(t) \in Nat /\ Len(s) = Len(t) + 1
      /\ 1 \in DOMAIN s /\ s[1] = Head(s)
      /\ \A i \in DOMAIN t : i + 1 \in DOMAIN s /\ t[i] = s[i + 1]
  BY <1>1, SMT
<1>3. \A i \in DOMAIN s : i = 1 \/ (i - 1 \in DOMAIN t /\ s[i] = t[i - 1])
  BY <1>1, SMT
<1>4. \A k : In(s, k) => In(t, k) \/ (Head(s).method # "response" /\ Head(s).at = k)
  BY <1>2, <1>3 DEF In
<1>5. \A k : In(t, k) \/ (Head(s).method # "response" /\ Head(s).at = k) => In(s, k)
  BY <1>2 DEF In
<1> QED
  BY <1>1, <1>2, <1>4, <1>5

(* The rest of an ordered queue is ordered and comes after its head.       *)
LEMMA OrderedTail ==
    ASSUME NEW X, NEW s \in Seq(X), s # <<>>, Ordered(s)
    PROVE  /\ Ordered(Tail(s))
           /\ Head(s).method # "response" => \A k : In(Tail(s), k) => Head(s).at < k
<1>1. PICK t : t = Tail(s)
  OBVIOUS
<1>2. /\ 1 \in DOMAIN s /\ s[1] = Head(s)
      /\ \A i \in DOMAIN t : i + 1 \in DOMAIN s /\ t[i] = s[i + 1] /\ 1 < i + 1
  BY <1>1, SMT
<1>3. \A i, j \in DOMAIN t : i < j => i + 1 < j + 1
  BY <1>1, SMT
<1>4. ASSUME NEW i \in DOMAIN t, NEW j \in DOMAIN t, i < j, t[i].method # "response", t[j].method # "response"
      PROVE  t[i].at < t[j].at
  <2>1. i + 1 \in DOMAIN s /\ j + 1 \in DOMAIN s /\ i + 1 < j + 1 /\ t[i] = s[i + 1] /\ t[j] = s[j + 1]
    BY <1>2, <1>3, <1>4
  <2> QED
    BY <1>4, <2>1 DEF Ordered
<1>5. Ordered(t)
  BY <1>4 DEF Ordered
<1>6. Head(s).method # "response" => \A k : In(t, k) => Head(s).at < k
  BY <1>2 DEF In, Ordered
<1> QED
  BY <1>1, <1>5, <1>6

----------------------------------------------------------------------------
(* The parts of the state *)

Methods == Requests \cup Events \cup {"cancel"}

(* What the client has sent is part of its script.                         *)
LEMMA ScriptFacts ==
    ASSUME InShape
    PROVE  /\ IsScript(load) /\ Len(Script) \in Nat /\ DOMAIN Script = 1 .. Len(Script) /\ next \in Nat
           /\ \A k \in 1 .. next - 1 : k \in DOMAIN Script /\ k \in Nat /\ k < next
           /\ \A k \in DOMAIN Script : /\ k \in Nat /\ (k < next => k \in 1 .. next - 1) /\ (k >= next <=> ~(k < next))
                                       /\ Script[k] \in [method : Methods, id : Nat]
<1>1. IsScript(load)
  BY ServerAssumption DEF InShape
<1>2. Script \in Seq([method : Methods, id : Nat])
  BY <1>1 DEF IsScript, Script, Methods
<1>3. next \in 1 .. Len(Script) + 1
  BY DEF InShape
<1>4. PICK s, n : s = Script /\ n = next
  OBVIOUS
<1>5. /\ Len(s) \in Nat /\ DOMAIN s = 1 .. Len(s) /\ n \in Nat
      /\ \A k \in DOMAIN s : k \in Nat /\ s[k] \in [method : Methods, id : Nat]
  <2>1. PICK M : M = [method : Methods, id : Nat]
    OBVIOUS
  <2>2. s \in Seq(M) /\ n \in 1 .. Len(s) + 1
    BY <1>2, <1>3, <1>4, <2>1
  <2>3. Len(s) \in Nat /\ DOMAIN s = 1 .. Len(s)
    BY <2>2, SMT
  <2>4. n \in Nat /\ \A k \in 1 .. Len(s) : k \in Nat /\ s[k] \in M
    BY <2>2, <2>3, SMT
  <2> QED
    BY <2>1, <2>3, <2>4
<1>6. \A k \in 1 .. n - 1 : k \in 1 .. Len(s) /\ k \in Nat /\ k < n
  <2>1. n \in 1 .. Len(s) + 1 /\ Len(s) \in Nat
    BY <1>3, <1>4, <1>5
  <2> QED
    BY <2>1, SMT
<1>7. \A k \in Nat : (k \in 1 .. Len(s) /\ k < n => k \in 1 .. n - 1) /\ (k >= n <=> ~(k < n))
  BY <1>5, SMT
<1> QED
  BY <1>1, <1>4, <1>5, <1>6, <1>7

(* The kinds of methods do not overlap.                                    *)
LEMMA MethodFacts ==
    /\ "response" \notin Methods /\ "cancel" \notin Requests /\ "cancel" \notin Events /\ Requests \cap Events = {}
    /\ Documents \subseteq Requests /\ "edit" \in Events /\ "initialized" \in Events
BY DEF Methods, Requests, Events, Documents, Synchronous

(* A message that was sent is the one of its place in the script.          *)
LEMMA SentFacts ==
    ASSUME InShape, NEW m \in Sent
    PROVE  /\ m.at \in 1 .. next - 1 /\ m.at \in DOMAIN Script /\ m.at \in Nat /\ m.at < next
           /\ m.method = Script[m.at].method /\ m.id = Script[m.at].id
           /\ m.method \in Methods /\ m.method # "response"
           /\ m.method \in Requests => m.id \in Ids /\ IsRequest(m.at, m.id)
<1>1. PICK k \in 1 .. next - 1 : m = Received(Script[k], k)
  BY DEF Sent
<1>2. m.at = k /\ m.method = Script[k].method /\ m.id = Script[k].id
  BY <1>1 DEF Received
<1>3. k \in DOMAIN Script /\ k \in Nat /\ k < next /\ Script[k].method \in Methods
  BY ScriptFacts
<1>4. m.method \in Requests => m.id \in Ids
  <2>1. m.method \in Requests => m.id # 0
    BY <1>2, <1>3, ScriptFacts DEF IsScript, Script
  <2>2. load \in Scripts
    BY DEF InShape
  <2> QED
    <3>1. m.id \in {load.messages[j].id : j \in DOMAIN load.messages}
      BY <1>2, <1>3 DEF Script
    <3> QED
      BY <2>1, <2>2, <3>1 DEF Ids
<1> QED
  BY <1>1, <1>2, <1>3, <1>4, MethodFacts DEF IsRequest

(* What is in a queue or with the read loop was sent.                      *)
LEMMA InSent ==
    ASSUME InShape, NEW k
    PROVE  /\ In(queue, k) => k \in 1 .. next - 1
           /\ In(stdin, k) => k \in 1 .. next - 1
           /\ InReader(k) => k \in 1 .. next - 1
<1>1. \A i \in DOMAIN queue : queue[i] \in Sent
  BY SMT DEF InShape
<1>2. \A i \in DOMAIN stdin : stdin[i] \in Sent \cup Responses
  BY SMT DEF InShape
<1>3. \A m \in Responses : m.method = "response"
  BY DEF Responses
<1> QED
  <2>1. In(queue, k) => k \in 1 .. next - 1
    BY <1>1, SentFacts DEF In
  <2>2. In(stdin, k) => k \in 1 .. next - 1
    BY <1>2, <1>3, SentFacts DEF In
  <2>3. InReader(k) => k \in 1 .. next - 1
    BY SentFacts DEF InReader, InShape
  <2> QED
    BY <2>1, <2>2, <2>3

(* What is on its way was sent.                                            *)
LEMMA WaitingSent ==
    ASSUME InShape, HandShape, NEW k, Waiting(k)
    PROVE  k \in 1 .. next - 1 /\ k \in DOMAIN Script /\ k \in Nat /\ k < next /\ ~(k >= next)
<1>1. InHand(k) => k \in 1 .. next - 1
  BY SentFacts DEF InHand, HandShape
<1>2. k \in 1 .. next - 1
  BY <1>1, InSent DEF Waiting
<1> QED
  BY <1>2, ScriptFacts

(* Two requests have different ids.                                        *)
LEMMA OneRequest ==
    ASSUME InShape, NEW j \in DOMAIN Script, NEW k \in DOMAIN Script, NEW id,
           IsRequest(j, id), IsRequest(k, id)
    PROVE  j = k
BY ScriptFacts DEF IsRequest, IsScript, Script

(* The set of messages that were sent only grows.                          *)
Grows ==
    /\ load' = load /\ next \in Nat /\ next' \in Nat /\ next <= next'
    /\ DOMAIN channels \subseteq DOMAIN channels'
    /\ (exiting => exiting') /\ (ended => ended')

(* What was sent stays sent, and an excuse stays one.                      *)
LEMMA SentGrows ==
    ASSUME Grows
    PROVE  /\ Sent \in SUBSET (Sent') /\ Responses \in SUBSET (Responses') /\ Outputs \in SUBSET (Outputs')
           /\ 1 .. next - 1 \subseteq 1 .. next' - 1
           /\ \A id : Excused(id) => Excused(id)'
<1>1. 1 .. next - 1 \subseteq 1 .. next' - 1 /\ load' = load
  <2>1. PICK a, b : a = next /\ b = next'
    OBVIOUS
  <2>2. a \in Nat /\ b \in Nat /\ a <= b
    BY <2>1 DEF Grows
  <2>3. 1 .. a - 1 \subseteq 1 .. b - 1
    BY <2>2, SMT
  <2> QED
    BY <2>1, <2>3 DEF Grows
<1>2. Sent \in SUBSET (Sent')
  BY <1>1 DEF Sent, Script
<1>3. Responses \in SUBSET (Responses') /\ Outputs \in SUBSET (Outputs')
  BY SMT DEF Responses, Outputs, Grows
<1>4. \A id : Excused(id) => Excused(id)'
  BY <1>1 DEF Excused, WasSent, Script, Grows
<1> QED
  BY <1>1, <1>2, <1>3, <1>4

(* Nothing new is sent while the client and the calls to it are quiet.     *)
LEMMA SentSame ==
    ASSUME next' = next, load' = load
    PROVE  Sent' = Sent /\ (channels' = channels => Responses' = Responses /\ Outputs' = Outputs)
BY DEF Sent, Script, Responses, Outputs

(* A sequence over a set is one over a larger set.                         *)
LEMMA SeqMono ==
    ASSUME NEW A, NEW B, A \in SUBSET B
    PROVE  Seq(A) \subseteq Seq(B)
BY SMT

(* What may be read or written stays so while more is sent.                *)
LEMMA Carried ==
    ASSUME Grows
    PROVE  /\ \A s \in Seq(Sent \cup Responses) : s \in Seq((Sent \cup Responses)')
           /\ \A s \in Seq(Sent) : s \in Seq(Sent')
           /\ \A s \in Seq(Outputs) : s \in Seq(Outputs')
<1>1. PICK a, b, c, d, e, f : /\ a = Sent \cup Responses /\ b = (Sent \cup Responses)'
                              /\ c = Sent /\ d = Sent' /\ e = Outputs /\ f = Outputs'
  OBVIOUS
<1>2. a \in SUBSET b /\ c \in SUBSET d /\ e \in SUBSET f
  BY <1>1, SentGrows
<1>3. Seq(a) \subseteq Seq(b) /\ Seq(c) \subseteq Seq(d) /\ Seq(e) \subseteq Seq(f)
  BY <1>2, SeqMono
<1> QED
  BY <1>1, <1>3

(* Nothing moves on the way from the client to the dispatch loop.          *)
LEMMA PipeFrame ==
    ASSUME InShape, Grows, UNCHANGED <<next, stdin, queue, reader>>
    PROVE  InShape' /\ \A k : (InReader(k)' <=> InReader(k)) /\ (In(stdin, k)' <=> In(stdin, k)) /\ (In(queue, k)' <=> In(queue, k))
<1>1. load' = load /\ Sent' = Sent /\ Script' = Script
  BY SentSame DEF Grows, Script
<1>2. stdin' \in Seq((Sent \cup Responses)') /\ queue' \in Seq(Sent')
  BY Carried DEF InShape
<1>3. InShape'
  BY <1>1, <1>2 DEF InShape
<1> QED
  BY <1>3 DEF InReader, In

(* Order is kept where no message moves.                                   *)
LEMMA OrderFrame ==
    ASSUME OrderOK, UNCHANGED <<stdin, queue, reader>>, \A k \in Nat : InHand(k)' => InHand(k)
    PROVE  OrderOK'
<1>1. \A k : (InReader(k)' <=> InReader(k)) /\ (In(stdin, k)' <=> In(stdin, k)) /\ (In(queue, k)' <=> In(queue, k))
  BY DEF InReader, In
<1>2. Ordered(stdin)' /\ Ordered(queue)'
  BY DEF OrderOK, Ordered
<1> QED
  BY <1>1, <1>2 DEF OrderOK

(* The dispatch loop stays where it is.                                    *)
LEMMA HandFrame ==
    ASSUME HandShape, Grows, UNCHANGED <<dispatcher, text, session, exiting, crashed>>
    PROVE  HandShape'
<1>1. Sent \in SUBSET (Sent')
  BY SentGrows
<1> QED
  BY <1>1 DEF HandShape

(* Cancellations stay justified.                                           *)
LEMMA CancelFrame ==
    ASSUME CancelOK, Grows, canceled' = canceled, pending' \in SUBSET pending,
           dispatcher'.st = "reply" /\ dispatcher'.body = "cancelled" => Excused(dispatcher'.message.id)
    PROVE  CancelOK'
<1>1. \A id : Excused(id) => Excused(id)'
  BY SentGrows
<1>2. \A id : WasSent(Message("cancel", id)) => WasSent(Message("cancel", id))'
  BY SentGrows DEF WasSent, Script, Grows
<1> QED
  BY <1>1, <1>2 DEF CancelOK

(* As long as "initialized" is on its way, it may be that there is no      *)
(* session.                                                                *)
LEMMA SessionFrame ==
    ASSUME SessionOK, UNCHANGED <<load, next, session, crashed>>,
           \A k \in 1 .. next - 1 : Script[k].method = "initialized" /\ Waiting(k) => Waiting(k)'
    PROVE  SessionOK'
BY DEF SessionOK, Script

(* The edits that were applied stay the same when no edit moves or is      *)
(* applied.                                                                *)
LEMMA EditsFrame ==
    ASSUME EditsOK, UNCHANGED <<load, next, text>>,
           \A k \in Nat : Waiting(k)' => Waiting(k),
           load.orderly => \A k \in 1 .. next - 1 : Script[k].method = "edit" => (Due(k)' <=> Due(k))
    PROVE  EditsOK'
<1>1. load.orderly => Applied' = Applied
  BY DEF Applied, EditPlaces, Script
<1> QED
  BY <1>1 DEF EditsOK

(* Whether an id is that of a request is a matter of the script.           *)
LEMMA KnownSame ==
    ASSUME Grows, NEW id
    PROVE  Known(id)' <=> Known(id)
BY DEF Grows, Known, IsRequest, Script

(* What was said of a request stays so when its answer and its goroutine   *)
(* stay.                                                                   *)
LEMMA AnswerFrame ==
    ASSUME Grows, NEW id \in Ids, AnswerOK(id), answers'[id] = answers[id], work'[id] = work[id],
           Queued(id)' = Queued(id), Given(id)' = Given(id),
           \A k \in DOMAIN Script : Waiting(k)' \/ k >= next' => Waiting(k) \/ k >= next
    PROVE  AnswerOK(id)'
<1>1. Excused(id) => Excused(id)'
  BY SentGrows
<1>2. Script' = Script /\ load' = load
  BY DEF Script, Grows
<1>3. \A k : IsRequest(k, id)' <=> IsRequest(k, id)
  BY <1>2 DEF IsRequest
<1>4. \A k : EditsBefore(k)' = EditsBefore(k)
  BY <1>2 DEF EditsBefore
<1>5. Unused(id)' <=> Unused(id)
  BY DEF Unused
<1> QED
  BY <1>1, <1>2, <1>3, <1>4, <1>5, KnownSame DEF AnswerOK

(* What was queued and answered stays when nothing is sent to the client.  *)
LEMMA OutFrame ==
    ASSUME OutShape, Grows, UNCHANGED <<outgoing, answers, work>>
    PROVE  OutShape' /\ \A id : Queued(id)' = Queued(id) /\ Given(id)' = Given(id)
<1>1. outgoing' \in Seq(Outputs')
  BY Carried DEF OutShape
<1>2. answers' \in [Ids -> Seq(Outputs')]
  BY Carried DEF OutShape
<1> QED
  BY <1>1, <1>2 DEF OutShape, Queued, Given

----------------------------------------------------------------------------
(* Steps that move no message *)

pipe == <<load, next, stdin, queue, reader>>
hand == <<dispatcher, text, session, exiting, crashed>>

(* Nothing moves when the queues and the two loops stay.                   *)
LEMMA SameWaiting ==
    ASSUME UNCHANGED <<stdin, queue, reader, dispatcher>>
    PROVE  \A k : (Waiting(k)' <=> Waiting(k)) /\ (InHand(k)' <=> InHand(k)) /\ (Due(k)' <=> Due(k))
BY DEF Waiting, InHand, InReader, In, Due

(* A step that leaves the queues, the loops and the text alone.            *)
LEMMA Quiet ==
    ASSUME IInv, Grows, UNCHANGED <<pipe, hand, canceled>>, pending' \in SUBSET pending
    PROVE  /\ InShape' /\ HandShape' /\ OrderOK' /\ CancelOK' /\ SessionOK' /\ EditsOK'
           /\ \A k : Waiting(k)' <=> Waiting(k)
<1>1. UNCHANGED <<load, next, stdin, queue, reader, dispatcher, text, session, exiting, crashed>>
  BY DEF pipe, hand
<1>2. \A k : (Waiting(k)' <=> Waiting(k)) /\ (InHand(k)' <=> InHand(k)) /\ (Due(k)' <=> Due(k))
  BY <1>1, SameWaiting
<1>3. InShape'
  BY <1>1, PipeFrame DEF IInv
<1>4. HandShape'
  BY <1>1, HandFrame DEF IInv
<1>5. OrderOK'
  BY <1>1, <1>2, OrderFrame DEF IInv
<1>6. CancelOK'
  <2>1. dispatcher'.st = "reply" /\ dispatcher'.body = "cancelled" => Excused(dispatcher'.message.id)
    BY <1>1 DEF IInv, CancelOK
  <2> QED
    BY <2>1, CancelFrame DEF IInv
<1>7. SessionOK'
  BY <1>1, <1>2, SessionFrame DEF IInv
<1>8. EditsOK'
  BY <1>1, <1>2, EditsFrame DEF IInv
<1> QED
  BY <1>2, <1>3, <1>4, <1>5, <1>6, <1>7, <1>8

(* Such a step leaves the answers as they are.                             *)
LEMMA QuietAnswers ==
    ASSUME IInv, Grows, UNCHANGED <<next, answers, work>>, \A k : Waiting(k)' => Waiting(k),
           \A id \in Ids : Queued(id)' = Queued(id) /\ Given(id)' = Given(id)
    PROVE  \A id \in Ids : AnswerOK(id)'
BY AnswerFrame DEF IInv

(* Sending something that is not an answer.                                *)
LEMMA SendOther ==
    ASSUME OutShape, Grows, NEW e \in Outputs', e.to # "answer", Len(outgoing) < OutCap,
           outgoing' = Append(outgoing, e), UNCHANGED <<answers, work>>
    PROVE  OutShape' /\ \A id : Queued(id)' = Queued(id) /\ Given(id)' = Given(id)
<1>1. outgoing \in Seq(Outputs') /\ answers' \in [Ids -> Seq(Outputs')]
  BY Carried DEF OutShape
<1>2. PICK s, t, O, n : s = outgoing /\ t = outgoing' /\ O = Outputs' /\ n = Len(outgoing) + 1
  OBVIOUS
<1>3. /\ t \in Seq(O) /\ Len(t) = n /\ DOMAIN t = DOMAIN s \cup {n} /\ t[n] = e
      /\ \A i \in DOMAIN s : t[i] = s[i]
  <2>1. s \in Seq(O) /\ e \in O /\ t = Append(s, e) /\ n = Len(s) + 1
    BY <1>1, <1>2
  <2> QED
    BY <2>1, SMT
<1>4. n <= OutCap
  <2>1. s \in Seq(O) /\ n = Len(s) + 1 /\ Len(s) < OutCap /\ OutCap \in Nat
    BY <1>1, <1>2, ServerAssumption
  <2> QED
    BY <2>1, SMT
<1>5. \A id : Queued(id)' = Queued(id)
  BY <1>2, <1>3 DEF Queued
<1>6. \A id : \A k \in Queued(id) : outgoing'[k] = outgoing[k]
  BY <1>2, <1>3 DEF Queued
<1>7. \A id : Given(id)' = Given(id)
  BY <1>5, <1>6 DEF Given
<1> QED
  BY <1>1, <1>2, <1>3, <1>4, <1>5, <1>7 DEF OutShape

(* The calls stay where they are.                                          *)
LEMMA CallsFrame ==
    ASSUME ChannelsOK, UNCHANGED <<asking, channels, pendingServer, asked>>
    PROVE  ChannelsOK'
BY DEF ChannelsOK

(* What is left of a handler is the same when the dispatch loop stays.     *)
LEMMA HandlerFrame ==
    ASSUME HandlerOK, UNCHANGED <<asking, dispatcher, session>>
    PROVE  HandlerOK'
BY DEF HandlerOK, At

(* The background work has its types when it does not change.              *)
LEMMA BackgroundFrame ==
    ASSUME BackgroundTypeOK, UNCHANGED background, ended' \in BOOLEAN
    PROVE  BackgroundTypeOK'
BY DEF BackgroundTypeOK, background

(* The client may send nothing in a step.                                  *)
LEMMA GrowsSame ==
    ASSUME IInv, UNCHANGED <<load, next>>, DOMAIN channels \subseteq DOMAIN channels',
           exiting => exiting', ended => ended'
    PROVE  Grows
<1>1. next \in Nat
  BY ScriptFacts DEF IInv
<1>2. next <= next
  BY <1>1, SMT
<1> QED
  BY <1>1, <1>2 DEF Grows

(* writeLoop ends, and with it the background context.                     *)
LEMMA StepWriteStops ==
    ASSUME IInv, WriteStops
    PROVE  IInv'
<1>1. /\ UNCHANGED <<load, next, stdin, queue, reader, dispatcher, text, session, exiting, crashed, canceled>>
      /\ UNCHANGED <<pending, asked, answers, asking, channels, pendingServer, work, outgoing, background>>
      /\ ended' = TRUE
  BY DEF WriteStops, client, loops, handling, calls
<1>2. Grows
  BY <1>1, GrowsSame
<1>3. /\ InShape' /\ HandShape' /\ OrderOK' /\ CancelOK' /\ SessionOK' /\ EditsOK'
      /\ \A k : Waiting(k)' <=> Waiting(k)
  BY <1>1, <1>2, Quiet DEF pipe, hand
<1>4. OutShape' /\ \A id : Queued(id)' = Queued(id) /\ Given(id)' = Given(id)
  BY <1>1, <1>2, OutFrame DEF IInv
<1>5. \A id \in Ids : AnswerOK(id)'
  BY <1>1, <1>2, <1>3, <1>4, QuietAnswers
<1>6. ChannelsOK' /\ HandlerOK' /\ BackgroundTypeOK'
  BY <1>1, CallsFrame, HandlerFrame, BackgroundFrame DEF IInv
<1> QED
  BY <1>3, <1>4, <1>5, <1>6 DEF IInv

(* A refresh task starts, waits for its delay or clears its cancel         *)
(* function.                                                               *)
LEMMA StepRefreshTask ==
    ASSUME IInv, NEW t \in Tasks, RefreshTask(t)
    PROVE  IInv'
<1>1. /\ UNCHANGED <<load, next, stdin, queue, reader, dispatcher, text, session, exiting, crashed, canceled>>
      /\ UNCHANGED <<pending, asked, answers, asking, channels, pendingServer, work, outgoing, ended>>
  BY DEF RefreshTask, client, loops, handling, calls
<1>2. Grows
  BY <1>1, GrowsSame
<1>3. /\ InShape' /\ HandShape' /\ OrderOK' /\ CancelOK' /\ SessionOK' /\ EditsOK'
      /\ \A k : Waiting(k)' <=> Waiting(k)
  BY <1>1, <1>2, Quiet DEF pipe, hand
<1>4. OutShape' /\ \A id : Queued(id)' = Queued(id) /\ Given(id)' = Given(id)
  BY <1>1, <1>2, OutFrame DEF IInv
<1>5. \A id \in Ids : AnswerOK(id)'
  BY <1>1, <1>2, <1>3, <1>4, QuietAnswers
<1>6. ChannelsOK' /\ HandlerOK'
  BY <1>1, CallsFrame, HandlerFrame DEF IInv
<1>7. BackgroundTypeOK'
  <2>1. UNCHANGED <<closed, due, publishPending, publish, news>> /\ refreshCancel' \in {refreshCancel, None}
    BY DEF RefreshTask, RefreshStart, RefreshDelay, RefreshClear
  <2>2. PICK st \in RefreshStates : refresh' = [refresh EXCEPT ![t].st = st]
    BY DEF RefreshTask, RefreshStart, RefreshDelay, RefreshClear, RefreshStates
  <2>3. refresh' \in [Tasks -> [st : RefreshStates, canceled : BOOLEAN]]
    BY <2>2 DEF IInv, BackgroundTypeOK
  <2> QED
    BY <1>1, <2>1, <2>3 DEF IInv, BackgroundTypeOK
<1> QED
  BY <1>3, <1>4, <1>5, <1>6, <1>7 DEF IInv

(* The publication of global diagnostics visits a pool or ends.            *)
LEMMA StepPublishTask ==
    ASSUME IInv, PublishTask
    PROVE  IInv'
<1>1. /\ UNCHANGED <<load, next, stdin, queue, reader, dispatcher, text, session, exiting, crashed, canceled>>
      /\ UNCHANGED <<pending, asked, answers, asking, channels, pendingServer, work, ended>>
  BY DEF PublishTask, client, loops, handling, calls
<1>2. Grows
  BY <1>1, GrowsSame
<1>3. /\ InShape' /\ HandShape' /\ OrderOK' /\ CancelOK' /\ SessionOK' /\ EditsOK'
      /\ \A k : Waiting(k)' <=> Waiting(k)
  BY <1>1, <1>2, Quiet DEF pipe, hand
<1>4. OutShape' /\ \A id : Queued(id)' = Queued(id) /\ Given(id)' = Given(id)
  <2>1. \/ outgoing' = outgoing
        \/ \E p \in Pools : Len(outgoing) < OutCap /\ outgoing' = Append(outgoing, Publication(p))
    BY DEF PublishTask, PublishTake, Send
  <2>2. ASSUME outgoing' = outgoing
        PROVE  OutShape' /\ \A id : Queued(id)' = Queued(id) /\ Given(id)' = Given(id)
    BY <1>1, <1>2, <2>2, OutFrame DEF IInv
  <2>3. ASSUME NEW p \in Pools, Len(outgoing) < OutCap, outgoing' = Append(outgoing, Publication(p))
        PROVE  OutShape' /\ \A id : Queued(id)' = Queued(id) /\ Given(id)' = Given(id)
    <3>1. PICK e : e = Publication(p)
      OBVIOUS
    <3>2. e \in Outputs' /\ e.to # "answer"
      BY <3>1 DEF Publication, Outputs
    <3>3. OutShape
      BY DEF IInv
    <3> QED
      BY <1>1, <1>2, <2>3, <3>1, <3>2, <3>3, SendOther
  <2> QED
    BY <2>1, <2>2, <2>3
<1>5. \A id \in Ids : AnswerOK(id)'
  BY <1>1, <1>2, <1>3, <1>4, QuietAnswers
<1>6. ChannelsOK' /\ HandlerOK'
  BY <1>1, CallsFrame, HandlerFrame DEF IInv
<1>7. BackgroundTypeOK'
  <2>1. UNCHANGED <<closed, refreshCancel, refresh, due>> /\ publishPending' \in {publishPending, FALSE}
    BY DEF PublishTask, PublishStart, PublishTake, PublishEnd
  <2>2. news' \in [Pools -> BOOLEAN]
    BY DEF PublishTask, PublishStart, PublishTake, PublishEnd, IInv, BackgroundTypeOK
  <2>3. publish' \in [st : {"none", "queued", "scan"}, left : SUBSET Pools]
    <3>1. publish \in [st : {"none", "queued", "scan"}, left : SUBSET Pools]
      BY DEF IInv, BackgroundTypeOK
    <3>2. CASE PublishStart
      BY <3>2 DEF PublishStart
    <3>3. CASE PublishEnd
      BY <3>1, <3>3 DEF PublishEnd
    <3>4. ASSUME NEW p, publish' = [publish EXCEPT !.left = @ \ {p}]
          PROVE  publish' \in [st : {"none", "queued", "scan"}, left : SUBSET Pools]
      BY <3>1, <3>4
    <3> QED
      BY <3>2, <3>3, <3>4 DEF PublishTask, PublishTake
  <2> QED
    BY <1>1, <2>1, <2>2, <2>3 DEF IInv, BackgroundTypeOK
<1> QED
  BY <1>3, <1>4, <1>5, <1>6, <1>7 DEF IInv

(* sendClientRequest gets its answer or gives up.                          *)
LEMMA StepAskWaits ==
    ASSUME IInv, NEW c \in Callers, AskWaits(c)
    PROVE  IInv'
<1>1. /\ UNCHANGED <<load, next, stdin, queue, reader, dispatcher, text, session, exiting, crashed, canceled>>
      /\ UNCHANGED <<pending, asked, answers, channels, pendingServer, work, outgoing, ended, background>>
  BY DEF AskWaits, client, loops, handling
<1>2. Grows
  BY <1>1, GrowsSame
<1>3. /\ InShape' /\ HandShape' /\ OrderOK' /\ CancelOK' /\ SessionOK' /\ EditsOK'
      /\ \A k : Waiting(k)' <=> Waiting(k)
  BY <1>1, <1>2, Quiet DEF pipe, hand
<1>4. OutShape' /\ \A id : Queued(id)' = Queued(id) /\ Given(id)' = Given(id)
  BY <1>1, <1>2, OutFrame DEF IInv
<1>5. \A id \in Ids : AnswerOK(id)'
  BY <1>1, <1>2, <1>3, <1>4, QuietAnswers
<1>6. PICK body \in {"result", "error"} : asking' = [asking EXCEPT ![c].st = "close", ![c].body = body]
  BY DEF AskWaits
<1>7. asking[c].st = "wait" /\ asking \in [Callers -> [st : {"none", "wait", "close", "failed"}, id : Nat,
                                                       body : {"none", "result", "error"}]]
  BY DEF AskWaits, IInv, ChannelsOK
<1>8. /\ asking' \in [Callers -> [st : {"none", "wait", "close", "failed"}, id : Nat,
                                  body : {"none", "result", "error"}]]
      /\ asking'[c].st = "close" /\ asking'[c].id = asking[c].id /\ \A d \in Callers \ {c} : asking'[d] = asking[d]
  BY <1>6, <1>7
<1>9. ChannelsOK'
  BY <1>1, <1>7, <1>8 DEF IInv, ChannelsOK
<1>10. HandlerOK'
  <2>1. asking'[0].st # "none" => asking[0].st # "none"
    BY <1>7, <1>8 DEF Callers
  <2> QED
    BY <1>1, <2>1 DEF IInv, HandlerOK, At
<1>11. BackgroundTypeOK'
  BY <1>1, BackgroundFrame DEF IInv, BackgroundTypeOK
<1> QED
  BY <1>3, <1>4, <1>5, <1>9, <1>10, <1>11 DEF IInv

(* sendClientRequest registers its channel and sends.                      *)
LEMMA StepAskSends ==
    ASSUME IInv, NEW c \in Callers, AskSends(c)
    PROVE  IInv'
<1>1. /\ UNCHANGED <<load, next, stdin, queue, reader, dispatcher, text, session, exiting, crashed, canceled>>
      /\ UNCHANGED <<pending, asked, answers, work, ended>>
      /\ UNCHANGED <<closed, refreshCancel, refresh, publishPending, publish, news>>
  BY DEF AskSends, client, loops, handling
<1>2. PICK n : n = Len(channels) + 1
  OBVIOUS
<1>3. \/ /\ Len(outgoing) < OutCap /\ outgoing' = Append(outgoing, Ask(n)) /\ channels' = Append(channels, "open")
         /\ pendingServer' = pendingServer \cup {n}
         /\ asking' = [asking EXCEPT ![c] = [st |-> "wait", id |-> n, body |-> "none"]]
      \/ /\ UNCHANGED <<outgoing, channels, pendingServer>>
         /\ asking' = [asking EXCEPT ![c] = [st |-> "failed", id |-> 0, body |-> "error"]]
  BY <1>2 DEF AskSends
<1>4. channels \in Seq({"open", "result", "error", "closed"}) /\ ChannelsOK
  BY DEF IInv, ChannelsOK
<1>5. PICK f : f = channels'
  OBVIOUS
<1>6. /\ channels' = Append(channels, "open") =>
            /\ f \in Seq({"open", "result", "error", "closed"})
            /\ DOMAIN f = DOMAIN channels \cup {n} /\ f[n] = "open" /\ \A i \in DOMAIN channels : f[i] = channels[i]
      /\ n \in Nat
  <2>1. PICK g, C : g = channels /\ C = {"open", "result", "error", "closed"}
    OBVIOUS
  <2>2. g \in Seq(C) /\ "open" \in C /\ n = Len(g) + 1
    BY <1>2, <1>4, <2>1
  <2>3. /\ Append(g, "open") \in Seq(C) /\ n \in Nat
        /\ DOMAIN Append(g, "open") = DOMAIN g \cup {n} /\ Append(g, "open")[n] = "open"
        /\ \A i \in DOMAIN g : Append(g, "open")[i] = g[i]
    BY <2>2, SMT
  <2> QED
    BY <1>5, <2>1, <2>3
<1>7. DOMAIN channels \subseteq DOMAIN channels'
  BY <1>3, <1>5, <1>6
<1>8. Grows
  BY <1>1, <1>7, GrowsSame
<1>9. /\ InShape' /\ HandShape' /\ OrderOK' /\ CancelOK' /\ SessionOK' /\ EditsOK'
      /\ \A k : Waiting(k)' <=> Waiting(k)
  BY <1>1, <1>8, Quiet DEF pipe, hand
<1>10. OutShape' /\ \A id : Queued(id)' = Queued(id) /\ Given(id)' = Given(id)
  <2>1. CASE outgoing' = outgoing
    BY <1>1, <1>8, <2>1, OutFrame DEF IInv
  <2>2. CASE Len(outgoing) < OutCap /\ outgoing' = Append(outgoing, Ask(n)) /\ channels' = Append(channels, "open")
    <3>1. PICK e : e = Ask(n)
      OBVIOUS
    <3>2. n \in DOMAIN channels'
      BY <1>5, <1>6, <2>2
    <3>3. e \in Outputs' /\ e.to # "answer"
      BY <3>1, <3>2 DEF Ask, Outputs
    <3>4. OutShape
      BY DEF IInv
    <3> QED
      BY <1>1, <1>8, <2>2, <3>1, <3>3, <3>4, SendOther
  <2> QED
    BY <1>3, <2>1, <2>2
<1>11. \A id \in Ids : AnswerOK(id)'
  BY <1>1, <1>8, <1>9, <1>10, QuietAnswers
<1>12. /\ asking' \in [Callers -> [st : {"none", "wait", "close", "failed"}, id : Nat, body : {"none", "result", "error"}]]
       /\ \A d \in Callers \ {c} : asking'[d] = asking[d]
       /\ asking'[c].st = "failed" \/ (asking'[c].st = "wait" /\ asking'[c].id = n /\ n \in DOMAIN channels')
  <2>1. asking \in [Callers -> [st : {"none", "wait", "close", "failed"}, id : Nat, body : {"none", "result", "error"}]]
    BY <1>4 DEF ChannelsOK
  <2>2. CASE asking' = [asking EXCEPT ![c] = [st |-> "failed", id |-> 0, body |-> "error"]]
    BY <2>1, <2>2, SMT
  <2>3. ASSUME asking' = [asking EXCEPT ![c] = [st |-> "wait", id |-> n, body |-> "none"]], channels' = Append(channels, "open")
        PROVE  /\ asking' \in [Callers -> [st : {"none", "wait", "close", "failed"}, id : Nat, body : {"none", "result", "error"}]]
               /\ \A d \in Callers \ {c} : asking'[d] = asking[d]
               /\ asking'[c].st = "wait" /\ asking'[c].id = n /\ n \in DOMAIN channels'
    BY <1>5, <1>6, <2>1, <2>3
  <2> QED
    BY <1>3, <2>2, <2>3
<1>13. ChannelsOK'
  <2>1. channels' \in Seq({"open", "result", "error", "closed"})
    BY <1>3, <1>4, <1>5, <1>6
  <2>2. (pendingServer \cup asked)' \subseteq DOMAIN channels' /\ \A k \in pendingServer' : channels'[k] = "open"
    BY <1>1, <1>3, <1>4, <1>5, <1>6 DEF ChannelsOK
  <2>3. \A d \in Callers : asking'[d].st \in {"wait", "close"} => asking'[d].id \in DOMAIN channels'
    BY <1>4, <1>7, <1>12 DEF ChannelsOK
  <2> QED
    BY <1>12, <2>1, <2>2, <2>3 DEF ChannelsOK
<1>14. HandlerOK'
  <2>1. asking'[0].st # "none" => At("request") \/ At("refresh")
    <3>1. CASE c = 0
      BY <3>1 DEF AskSends, Wants
    <3>2. CASE c # 0
      BY <1>12, <3>2 DEF IInv, HandlerOK, Callers
    <3> QED
      BY <3>1, <3>2
  <2> QED
    BY <1>1, <2>1 DEF IInv, HandlerOK, At
<1>15. BackgroundTypeOK'
  <2>1. due' \in BOOLEAN
    BY DEF AskSends, IInv, BackgroundTypeOK
  <2> QED
    BY <1>1, <2>1 DEF IInv, BackgroundTypeOK
<1> QED
  BY <1>9, <1>10, <1>11, <1>13, <1>14, <1>15 DEF IInv

----------------------------------------------------------------------------
(* Steps within a handler *)

(* A call of a handler leaves every message in its place.                  *)
LEMMA HandlerMove ==
    ASSUME IInv, Grows, UNCHANGED <<pipe, crashed, canceled, pending>>, NEW op, At(op), text' \in Nat,
           dispatcher' = [dispatcher EXCEPT !.ops = dispatcher'.ops, !.failed = dispatcher'.failed],
           dispatcher'.ops \in Seq(Ops), dispatcher'.failed \in BOOLEAN,
           session' \in BOOLEAN, exiting' \in BOOLEAN, session => session'
    PROVE  /\ InShape' /\ HandShape' /\ OrderOK' /\ CancelOK' /\ SessionOK'
           /\ \A k : (Waiting(k)' <=> Waiting(k)) /\ (InHand(k)' <=> InHand(k))
           /\ dispatcher'.st = "handle" /\ dispatcher'.message = dispatcher.message
<1>1. UNCHANGED <<load, next, stdin, queue, reader, crashed, canceled, pending>>
  BY DEF pipe
<1>2. PICK d, ops, failed : d = dispatcher' /\ ops = dispatcher'.ops /\ failed = dispatcher'.failed
  OBVIOUS
<1>3. dispatcher \in [st : {"select", "handle", "reply", "remove", "stopped"}, message : Sent \cup {Idle},
                      ops : Seq(Ops), failed : BOOLEAN, body : Bodies]
  BY DEF IInv, HandShape
<1>4. d = [dispatcher EXCEPT !.ops = ops, !.failed = failed] /\ dispatcher.st = "handle"
  BY <1>2 DEF At
<1>5. /\ d \in [st : {"select", "handle", "reply", "remove", "stopped"}, message : Sent \cup {Idle},
                ops : Seq(Ops), failed : BOOLEAN, body : Bodies]
      /\ d.st = "handle" /\ d.message = dispatcher.message
  BY <1>2, <1>3, <1>4
<1>6. Sent' = Sent
  BY <1>1, SentSame
<1>7. HandShape'
  BY <1>1, <1>2, <1>5, <1>6 DEF IInv, HandShape, At
<1>8. \A k : InHand(k)' <=> InHand(k)
  BY <1>2, <1>5 DEF InHand, At
<1>9. InShape' /\ \A k : (InReader(k)' <=> InReader(k)) /\ (In(stdin, k)' <=> In(stdin, k)) /\ (In(queue, k)' <=> In(queue, k))
  BY <1>1, PipeFrame DEF IInv
<1>10. \A k : Waiting(k)' <=> Waiting(k)
  BY <1>8, <1>9 DEF Waiting
<1>11. OrderOK'
  BY <1>1, <1>8, OrderFrame DEF IInv
<1>12. CancelOK'
  <2>1. dispatcher'.st = "reply" /\ dispatcher'.body = "cancelled" => Excused(dispatcher'.message.id)
    BY <1>2, <1>5
  <2> QED
    BY <1>1, <2>1, CancelFrame DEF IInv
<1>13. SessionOK'
  <2>1. SessionOK
    BY DEF IInv
  <2>2. Script' = Script /\ (~session' => ~session)
    BY <1>1 DEF Script
  <2> QED
    <3>0. load' = load /\ crashed' = crashed
      BY <1>1
    <3>1. ~session' => load'.cold
      BY <2>1, <2>2, <3>0 DEF SessionOK
    <3>3. crashed' => ~load'.orderly
      <4>1. crashed' => crashed
        BY <3>0, SMT
      <4>2. crashed => ~load.orderly
        BY <2>1 DEF SessionOK
      <4> QED
        BY <3>0, <4>1, <4>2
    <3>2. ASSUME ~session', NEW k \in 1 .. next' - 1, Script'[k].method = "initialized"
          PROVE  Waiting(k)'
      <4>1. k \in 1 .. next - 1 /\ Script[k].method = "initialized" /\ ~session
        BY <1>1, <2>2, <3>2
      <4>2. Waiting(k)
        BY <2>1, <4>1 DEF SessionOK
      <4> QED
        BY <1>10, <4>2
    <3> QED
      BY <3>1, <3>2, <3>3 DEF SessionOK
<1> QED
  BY <1>2, <1>5, <1>7, <1>8, <1>9, <1>10, <1>11, <1>12, <1>13

(* One that is no edit leaves the edits as they were.                      *)
LEMMA HandlerCall ==
    ASSUME IInv, Grows, UNCHANGED <<pipe, text, crashed, canceled, pending>>, NEW op, At(op), op # "edit",
           dispatcher' = [dispatcher EXCEPT !.ops = dispatcher'.ops, !.failed = dispatcher'.failed],
           dispatcher'.ops \in Seq(Ops), dispatcher'.failed \in BOOLEAN,
           session' \in BOOLEAN, exiting' \in BOOLEAN, session => session'
    PROVE  /\ InShape' /\ HandShape' /\ OrderOK' /\ CancelOK' /\ SessionOK' /\ EditsOK'
           /\ \A k : Waiting(k)' <=> Waiting(k)
           /\ dispatcher'.st = "handle" /\ dispatcher'.message = dispatcher.message
<1>1. UNCHANGED <<load, next, text>>
  BY DEF pipe
<1>2. /\ InShape' /\ HandShape' /\ OrderOK' /\ CancelOK' /\ SessionOK'
      /\ \A k : (Waiting(k)' <=> Waiting(k)) /\ (InHand(k)' <=> InHand(k))
      /\ dispatcher'.st = "handle" /\ dispatcher'.message = dispatcher.message
  <2>1. text' \in Nat
    BY <1>1 DEF IInv, HandShape
  <2> QED
    BY <2>1, HandlerMove
<1>3. EditsOK'
  <2>1. ASSUME NEW k \in 1 .. next - 1, Script[k].method = "edit"
        PROVE  ~InHand(k)
    <3>1. SUFFICES ASSUME InHand(k) PROVE FALSE
      OBVIOUS
    <3>2. dispatcher.message \in Sent
      BY DEF IInv, HandShape, At
    <3>3. dispatcher.message.method = "edit"
      BY <2>1, <3>1, <3>2, SentFacts DEF IInv, InHand
    <3>4. dispatcher.ops \in {<<>>, <<"edit">>}
      BY <3>3 DEF IInv, HandlerOK, At
    <3>5. Head(<<"edit">>) = "edit"
      BY SMT
    <3> QED
      BY <3>4, <3>5 DEF At
  <2>2. \A k \in 1 .. next - 1 : Script[k].method = "edit" => (Due(k)' <=> Due(k))
    BY <1>2, <2>1 DEF Due
  <2> QED
    BY <1>1, <1>2, <2>2, EditsFrame DEF IInv
<1> QED
  BY <1>2, <1>3

(* The dispatch loop goes on to the next operation of its handler.         *)
LEMMA AdvanceFacts ==
    ASSUME HandShape, HandlerOK, NEW op, At(op), Advance
    PROVE  /\ dispatcher' = [dispatcher EXCEPT !.ops = dispatcher'.ops, !.failed = dispatcher'.failed]
           /\ dispatcher'.ops \in Seq(Ops) /\ dispatcher'.failed \in BOOLEAN
           /\ dispatcher'.st = "handle" /\ dispatcher'.message = dispatcher.message
           /\ dispatcher'.ops = Tail(dispatcher.ops)
           /\ \A i \in DOMAIN dispatcher'.ops : dispatcher'.ops[i] = "edit" => dispatcher.message.method = "edit"
<1>1. PICK s, t : s = dispatcher.ops /\ t = Tail(s)
  OBVIOUS
<1>2. s \in Seq(Ops) /\ s # <<>>
  BY <1>1 DEF HandShape, At
<1>3. t \in Seq(Ops) /\ \A i \in DOMAIN t : i + 1 \in DOMAIN s /\ t[i] = s[i + 1]
  <2>1. PICK S : S = Ops
    OBVIOUS
  <2>2. s \in Seq(S)
    BY <1>2, <2>1
  <2>3. t \in Seq(S) /\ \A i \in DOMAIN t : i + 1 \in DOMAIN s /\ t[i] = s[i + 1]
    BY <1>1, <1>2, <2>2, SMT
  <2> QED
    BY <2>1, <2>3
<1>4. \A i \in DOMAIN t : t[i] = "edit" => dispatcher.message.method = "edit"
  BY <1>1, <1>3 DEF HandlerOK, At
<1>5. dispatcher \in [st : {"select", "handle", "reply", "remove", "stopped"}, message : Sent \cup {Idle},
                      ops : Seq(Ops), failed : BOOLEAN, body : Bodies] /\ dispatcher.st = "handle"
  BY DEF HandShape, At
<1>6. dispatcher' = [dispatcher EXCEPT !.ops = t]
  BY <1>1 DEF Advance
<1>7. /\ dispatcher'.ops = t /\ dispatcher'.failed = dispatcher.failed
      /\ dispatcher'.st = "handle" /\ dispatcher'.message = dispatcher.message
  BY <1>5, <1>6
<1>8. dispatcher' = [dispatcher EXCEPT !.ops = dispatcher'.ops, !.failed = dispatcher'.failed]
  <2>1. [dispatcher EXCEPT !.ops = t] = [dispatcher EXCEPT !.ops = t, !.failed = dispatcher.failed]
    BY <1>5
  <2> QED
    BY <1>6, <1>7, <2>1
<1> QED
  BY <1>1, <1>3, <1>4, <1>5, <1>7, <1>8

(* What is left of a handler after one of its operations.                  *)
LEMMA AdvanceHandler ==
    ASSUME HandShape, HandlerOK, NEW op, At(op), Advance, op # "edit", asking'[0].st = "none",
           session => session', op = "session" => session'
    PROVE  HandlerOK'
<1>1. /\ dispatcher'.st = "handle" /\ dispatcher'.message = dispatcher.message
      /\ \A i \in DOMAIN dispatcher'.ops : dispatcher'.ops[i] = "edit" => dispatcher.message.method = "edit"
  BY AdvanceFacts
<1>2. /\ dispatcher.message.method \notin Documents
      /\ dispatcher.message.method = "initialized" /\ ~session => op = "session"
  BY DEF HandlerOK, At
<1>3. dispatcher.message.method # "edit"
  <2>1. Head(<<"edit">>) = "edit"
    BY SMT
  <2> QED
    BY <2>1 DEF HandlerOK, At
<1> QED
  BY <1>1, <1>2, <1>3 DEF HandlerOK

(* While a handler is at a call of its own, it does not wait for the       *)
(* client.                                                                 *)
LEMMA NotAsking ==
    ASSUME HandlerOK, ChannelsOK, NEW op, At(op), op # "request", op # "refresh"
    PROVE  asking[0].st = "none"
BY DEF HandlerOK, At

(* Canceling a refresh keeps the types of the tasks.                       *)
LEMMA CanceledTyped ==
    ASSUME BackgroundTypeOK
    PROVE  CanceledBy(refreshCancel) \in [Tasks -> [st : RefreshStates, canceled : BOOLEAN]]
<1>1. CASE refreshCancel = None
  BY <1>1 DEF BackgroundTypeOK, CanceledBy
<1>2. CASE refreshCancel # None
  BY <1>2 DEF BackgroundTypeOK, CanceledBy
<1> QED
  BY <1>1, <1>2

(* A call that neither edits nor waits for the client.                     *)
LEMMA StepCall ==
    ASSUME IInv, NEW op, At(op), op \notin {"edit", "request", "refresh"}, Advance, BackgroundTypeOK',
           UNCHANGED <<pipe, text, crashed, canceled, pending, asked, answers, calls, work, outgoing>>,
           session' \in BOOLEAN, session => session', op = "session" => session',
           exiting' \in BOOLEAN, exiting => exiting', ended' = ended
    PROVE  IInv'
<1>1. /\ UNCHANGED <<load, next, stdin, queue, reader, text, crashed, canceled>>
      /\ UNCHANGED <<pending, asked, answers, asking, channels, pendingServer, work, outgoing, ended>>
  BY DEF pipe, calls
<1>2. Grows
  <2>1. ended => ended'
    BY SMT
  <2> QED
    BY <1>1, <2>1, GrowsSame
<1>3. /\ dispatcher' = [dispatcher EXCEPT !.ops = dispatcher'.ops, !.failed = dispatcher'.failed]
      /\ dispatcher'.ops \in Seq(Ops) /\ dispatcher'.failed \in BOOLEAN
  BY AdvanceFacts DEF IInv
<1>4. /\ InShape' /\ HandShape' /\ OrderOK' /\ CancelOK' /\ SessionOK' /\ EditsOK'
      /\ \A k : Waiting(k)' <=> Waiting(k)
  BY <1>1, <1>2, <1>3, HandlerCall
<1>5. OutShape' /\ \A id : Queued(id)' = Queued(id) /\ Given(id)' = Given(id)
  BY <1>1, <1>2, OutFrame DEF IInv
<1>6. \A id \in Ids : AnswerOK(id)'
  BY <1>1, <1>2, <1>4, <1>5, QuietAnswers
<1>7. ChannelsOK'
  BY <1>1, CallsFrame DEF IInv
<1>8. HandlerOK'
  <2>1. asking'[0].st = "none"
    BY <1>1, NotAsking DEF IInv
  <2> QED
    BY <2>1, AdvanceHandler DEF IInv
<1> QED
  BY <1>4, <1>5, <1>6, <1>7, <1>8 DEF IInv

(* handleInitialized makes the session.                                    *)
LEMMA StepHandleSession ==
    ASSUME IInv, HandleSession
    PROVE  IInv'
<1>1. /\ UNCHANGED <<pipe, text, crashed, canceled, pending, asked, answers, calls, work, outgoing, exiting, ended, background>>
      /\ At("session") /\ Advance /\ session' = TRUE
  BY DEF HandleSession, client, loops, pipe
<1>2. BackgroundTypeOK'
  BY <1>1, BackgroundFrame DEF IInv, BackgroundTypeOK
<1>3. exiting' \in BOOLEAN
  BY <1>1 DEF IInv, HandShape
<1> QED
  BY <1>1, <1>2, <1>3, StepCall

(* handleExit cancels the context of the dispatch loop.                    *)
LEMMA StepHandleExit ==
    ASSUME IInv, HandleExit
    PROVE  IInv'
<1>1. /\ UNCHANGED <<pipe, text, crashed, canceled, pending, asked, answers, calls, work, outgoing, session, ended, background>>
      /\ At("exit") /\ Advance /\ exiting' = TRUE
  BY DEF HandleExit, client, loops, pipe
<1>2. BackgroundTypeOK'
  BY <1>1, BackgroundFrame DEF IInv, BackgroundTypeOK
<1>3. session' \in BOOLEAN /\ (session => session')
  BY <1>1 DEF IInv, HandShape
<1> QED
  BY <1>1, <1>2, <1>3, StepCall

(* A handler schedules a refresh of diagnostics.                           *)
LEMMA StepHandleSchedule ==
    ASSUME IInv, HandleSchedule
    PROVE  IInv'
<1>1. /\ UNCHANGED <<pipe, text, crashed, canceled, pending, asked, answers, calls, work, outgoing, session, exiting, ended>>
      /\ UNCHANGED <<closed, publishPending, publish, news>>
      /\ At("schedule") /\ Advance /\ ScheduleDiagnosticsRefresh
  BY DEF HandleSchedule, client, loops, pipe
<1>2. PICK t \in Tasks : /\ refreshCancel' = t /\ due' = (due \/ refresh'[t].st = "queued")
                         /\ refresh' = [CanceledBy(refreshCancel) EXCEPT
                                          ![t] = [st |-> Enqueue("queued"), canceled |-> FALSE]]
  BY <1>1 DEF ScheduleDiagnosticsRefresh
<1>3. Enqueue("queued") \in RefreshStates
  BY DEF Enqueue, RefreshStates
<1>4. refresh' \in [Tasks -> [st : RefreshStates, canceled : BOOLEAN]]
  BY <1>2, <1>3, CanceledTyped DEF IInv
<1>5. BackgroundTypeOK'
  BY <1>1, <1>2, <1>4 DEF IInv, BackgroundTypeOK
<1>6. session' \in BOOLEAN /\ (session => session') /\ exiting' \in BOOLEAN /\ (exiting => exiting')
  BY <1>1 DEF IInv, HandShape
<1> QED
  BY <1>1, <1>5, <1>6, StepCall

(* handleShutdown closes the session.                                      *)
LEMMA StepHandleClose ==
    ASSUME IInv, HandleClose
    PROVE  IInv'
<1>1. /\ UNCHANGED <<pipe, text, crashed, canceled, pending, asked, answers, calls, work, outgoing, session, exiting, ended>>
      /\ UNCHANGED <<publishPending, publish, news>>
      /\ At("close") /\ Advance /\ Close
  BY DEF HandleClose, client, loops, pipe
<1>2. refresh' \in [Tasks -> [st : RefreshStates, canceled : BOOLEAN]]
  BY <1>1, CanceledTyped DEF IInv, Close, cancelDiagnosticsRefresh
<1>3. BackgroundTypeOK'
  BY <1>1, <1>2 DEF IInv, BackgroundTypeOK, Close, cancelDiagnosticsRefresh
<1>4. session' \in BOOLEAN /\ (session => session') /\ exiting' \in BOOLEAN /\ (exiting => exiting')
  BY <1>1 DEF IInv, HandShape
<1> QED
  BY <1>1, <1>3, <1>4, StepCall

(* The places of edits are finitely many.                                  *)
LEMMA FiniteEdits ==
    ASSUME InShape, NEW S \in SUBSET (1 .. next - 1)
    PROVE  IsFiniteSet(S) /\ Cardinality(S) \in Nat
<1>1. PICK n : n = next - 1
  OBVIOUS
<1>2. n \in Int /\ 1 \in Int
  BY <1>1, ScriptFacts, SMT
<1>3. IsFiniteSet(1 .. n)
  BY <1>2, FS_Interval
<1>4. IsFiniteSet(S)
  BY <1>1, <1>3, FS_Subset
<1> QED
  BY <1>4, FS_CardinalityType

(* An edit is applied: the first one that was not, since none overtakes    *)
(* it.                                                                     *)
LEMMA StepHandleEdit ==
    ASSUME IInv, HandleEdit
    PROVE  IInv'
<1>1. /\ UNCHANGED <<load, next, stdin, queue, reader, session, exiting, crashed, canceled>>
      /\ UNCHANGED <<pending, asked, answers, asking, channels, pendingServer, work, outgoing, ended>>
      /\ UNCHANGED <<closed, publishPending, publish, news>>
      /\ At("edit") /\ Advance /\ text' = text + 1 /\ cancelDiagnosticsRefresh
  BY DEF HandleEdit, client, loops, calls
<1>2. Grows
  BY <1>1, GrowsSame
<1>3. /\ dispatcher' = [dispatcher EXCEPT !.ops = dispatcher'.ops, !.failed = dispatcher'.failed]
      /\ dispatcher'.ops \in Seq(Ops) /\ dispatcher'.failed \in BOOLEAN
      /\ dispatcher'.ops = Tail(dispatcher.ops)
  BY <1>1, AdvanceFacts DEF IInv
<1>4. text \in Nat /\ text' \in Nat
  <2>1. text \in Nat
    BY DEF IInv, HandShape
  <2> QED
    BY <1>1, <2>1, SMT
<1>5. session' \in BOOLEAN /\ exiting' \in BOOLEAN /\ (session => session')
  BY <1>1 DEF IInv, HandShape
<1>6. /\ InShape' /\ HandShape' /\ OrderOK' /\ CancelOK' /\ SessionOK'
      /\ \A k : (Waiting(k)' <=> Waiting(k)) /\ (InHand(k)' <=> InHand(k))
      /\ dispatcher'.st = "handle" /\ dispatcher'.message = dispatcher.message
  BY <1>1, <1>2, <1>3, <1>4, <1>5, HandlerMove DEF pipe
<1>7. OutShape' /\ \A id : Queued(id)' = Queued(id) /\ Given(id)' = Given(id)
  BY <1>1, <1>2, OutFrame DEF IInv
<1>8. \A id \in Ids : AnswerOK(id)'
  BY <1>1, <1>2, <1>6, <1>7, QuietAnswers
<1>9. ChannelsOK'
  BY <1>1, CallsFrame DEF IInv
<1>10. BackgroundTypeOK'
  <2>1. refresh' \in [Tasks -> [st : RefreshStates, canceled : BOOLEAN]]
    BY <1>1, CanceledTyped DEF IInv, cancelDiagnosticsRefresh
  <2> QED
    BY <1>1, <2>1 DEF IInv, BackgroundTypeOK, cancelDiagnosticsRefresh
<1>11. /\ dispatcher.message.method = "edit" /\ dispatcher.message \in Sent /\ dispatcher.st = "handle"
       /\ dispatcher.ops # <<>> /\ dispatcher'.ops = <<>>
  <2>1. PICK ops : ops = dispatcher.ops
    OBVIOUS
  <2>2. /\ ops # <<>> /\ Head(ops) = "edit" /\ dispatcher.st = "handle" /\ dispatcher.message \in Sent
        /\ ops \in Seq(Ops)
    BY <1>1, <2>1 DEF At, IInv, HandShape
  <2>3. 1 \in DOMAIN ops /\ ops[1] = "edit"
    <3>1. PICK S : S = Ops
      OBVIOUS
    <3>2. ops \in Seq(S)
      BY <2>2, <3>1
    <3> QED
      BY <2>2, <3>2, SMT
  <2>4. dispatcher.message.method = "edit"
    BY <2>1, <2>2, <2>3 DEF IInv, HandlerOK
  <2>5. ops = <<"edit">>
    BY <2>1, <2>2, <2>4 DEF IInv, HandlerOK
  <2>6. Tail(<<"edit">>) = <<>>
    BY SMT
  <2> QED
    BY <1>3, <2>1, <2>2, <2>4, <2>5, <2>6
<1>12. HandlerOK'
  <2>1. asking'[0].st = "none"
    BY <1>1, NotAsking DEF IInv
  <2>2. DOMAIN dispatcher'.ops = {}
    <3>1. DOMAIN <<>> = {}
      BY SMT
    <3> QED
      BY <1>11, <3>1
  <2>3. "edit" \notin Documents
    BY DEF Documents
  <2> QED
    BY <1>6, <1>11, <2>1, <2>2, <2>3 DEF HandlerOK
<1>13. EditsOK'
  <2>1. PICK j : j = dispatcher.message.at
    OBVIOUS
  <2>2. j \in 1 .. next - 1 /\ Script[j].method = "edit" /\ InHand(j) /\ j \in Nat /\ j <= j
    <3>1. j \in 1 .. next - 1 /\ Script[j].method = "edit" /\ InHand(j) /\ j \in Nat
      BY <1>11, <2>1, SentFacts DEF IInv, InHand
    <3> QED
      BY <3>1, SMT
  <2>3. Script' = Script
    BY <1>1 DEF Script
  <2>4. j \notin Applied
    BY <1>11, <2>2 DEF Applied, Due, Waiting
  <2>5. \A k : k # j => (Due(k)' <=> Due(k))
    BY <1>6, <2>1 DEF Due, InHand
  <2>6. ~(Due(j)')
    BY <1>6, <1>11, <2>2 DEF Due
  <2>7. Applied' = Applied \cup {j}
    <3>1. EditPlaces(next)' = EditPlaces(next) /\ j \in EditPlaces(next)
      BY <1>1, <2>2, <2>3 DEF EditPlaces
    <3> QED
      BY <2>5, <2>6, <3>1 DEF Applied
  <2>8. IsFiniteSet(Applied) /\ Cardinality(Applied) \in Nat
    <3>1. Applied \in SUBSET (1 .. next - 1)
      BY DEF Applied, EditPlaces
    <3> QED
      BY <3>1, FiniteEdits DEF IInv
  <2>9. Cardinality(Applied') = Cardinality(Applied) + 1
    <3>1. PICK S : S = Applied
      OBVIOUS
    <3>2. Cardinality(S \cup {j}) = Cardinality(S) + 1
      BY <2>4, <2>8, <3>1, FS_AddElement
    <3> QED
      BY <2>7, <3>1, <3>2
  <2>10. \A k \in Nat : Waiting(k) => j <= k
    <3>1. \A k \in Nat : Waiting(k) => j = k \/ j < k
      BY <2>1, <2>2 DEF Waiting, IInv, OrderOK, InHand
    <3>2. \A k \in Nat : j = k \/ j < k => j <= k
      BY <2>2, SMT
    <3> QED
      BY <3>1, <3>2
  <2>11. load.orderly => text = Cardinality(Applied) /\ \A i \in Applied : \A k \in Nat : Waiting(k) => i <= k
    BY DEF IInv, EditsOK
  <2>12. load.orderly => text' = Cardinality(Applied')
    BY <1>1, <2>9, <2>11
  <2>13. load.orderly => \A i \in Applied' : \A k \in Nat : Waiting(k)' => i <= k
    BY <1>6, <2>7, <2>10, <2>11
  <2> QED
    BY <1>1, <2>12, <2>13 DEF EditsOK
<1> QED
  BY <1>6, <1>7, <1>8, <1>9, <1>10, <1>12, <1>13 DEF IInv

(* A call to the client returns to its handler or to its task.             *)
LEMMA StepAskReturns ==
    ASSUME IInv, NEW c \in Callers, AskReturns(c)
    PROVE  IInv'
<1>1. /\ UNCHANGED <<load, next, stdin, queue, reader, text, session, exiting, crashed, canceled>>
      /\ UNCHANGED <<pending, asked, answers, work, outgoing, ended>>
      /\ UNCHANGED <<closed, refreshCancel, due, publishPending, publish, news>>
      /\ asking[c].st \in {"close", "failed"}
      /\ asking' = [asking EXCEPT ![c] = [st |-> "none", id |-> 0, body |-> "none"]]
  BY DEF AskReturns, client, loops
<1>2. ChannelsOK /\ HandlerOK /\ HandShape
  BY DEF IInv
<1>3. /\ asking' \in [Callers -> [st : {"none", "wait", "close", "failed"}, id : Nat, body : {"none", "result", "error"}]]
      /\ asking'[c].st = "none" /\ \A d \in Callers \ {c} : asking'[d] = asking[d]
  <2>1. asking \in [Callers -> [st : {"none", "wait", "close", "failed"}, id : Nat, body : {"none", "result", "error"}]]
    BY <1>2 DEF ChannelsOK
  <2> QED
    BY <1>1, <2>1, SMT
<1>4. \/ UNCHANGED <<channels, pendingServer>>
      \/ \E id \in pendingServer : /\ channels' = [channels EXCEPT ![id] = "closed"]
                                   /\ pendingServer' = pendingServer \ {id}
  BY <1>2 DEF AskReturns, CloseChannel, ChannelsOK
<1>5. /\ channels' \in Seq({"open", "result", "error", "closed"}) /\ DOMAIN channels' = DOMAIN channels
      /\ pendingServer' \in SUBSET pendingServer /\ \A k \in pendingServer' : channels'[k] = channels[k]
  <2>1. channels \in Seq({"open", "result", "error", "closed"})
    BY <1>2 DEF ChannelsOK
  <2>2. CASE UNCHANGED <<channels, pendingServer>>
    BY <2>1, <2>2
  <2>3. ASSUME NEW id, channels' = [channels EXCEPT ![id] = "closed"], pendingServer' = pendingServer \ {id}
        PROVE  /\ channels' \in Seq({"open", "result", "error", "closed"}) /\ DOMAIN channels' = DOMAIN channels
               /\ pendingServer' \in SUBSET pendingServer /\ \A k \in pendingServer' : channels'[k] = channels[k]
    <3>1. PICK f, g, C : f = channels /\ g = [f EXCEPT ![id] = "closed"] /\ C = {"open", "result", "error", "closed"}
      OBVIOUS
    <3>2. f \in Seq(C) /\ "closed" \in C
      BY <2>1, <3>1
    <3>3. g \in Seq(C) /\ DOMAIN g = DOMAIN f
      <4>1. PICK n \in Nat : f \in [1 .. n -> C]
        BY <3>2, SMT
      <4>2. g \in [1 .. n -> C] /\ DOMAIN g = DOMAIN f
        BY <3>1, <3>2, <4>1
      <4> QED
        BY <4>1, <4>2, SMT
    <3>4. \A k \in DOMAIN f : k # id => g[k] = f[k]
      BY <3>1, <3>2
    <3> QED
      BY <1>2, <2>3, <3>1, <3>3, <3>4 DEF ChannelsOK
  <2> QED
    BY <1>4, <2>2, <2>3
<1>6. ChannelsOK'
  BY <1>1, <1>2, <1>3, <1>5 DEF ChannelsOK
<1>7. Grows
  BY <1>1, <1>5, GrowsSame
<1>8. OutShape' /\ \A id : Queued(id)' = Queued(id) /\ Given(id)' = Given(id)
  BY <1>1, <1>7, OutFrame DEF IInv
<1>9. BackgroundTypeOK'
  <2>1. refresh' = refresh \/ (c \in Tasks /\ refresh' = [refresh EXCEPT ![c].st = "done"])
    BY DEF AskReturns, Callers
  <2>2. refresh \in [Tasks -> [st : RefreshStates, canceled : BOOLEAN]] /\ "done" \in RefreshStates
    BY DEF IInv, BackgroundTypeOK, RefreshStates
  <2>3. refresh' \in [Tasks -> [st : RefreshStates, canceled : BOOLEAN]]
    BY <2>1, <2>2
  <2> QED
    BY <1>1, <2>3 DEF IInv, BackgroundTypeOK
<1>10. CASE c # 0
  <2>1. dispatcher' = dispatcher
    BY <1>10 DEF AskReturns
  <2>2. /\ InShape' /\ HandShape' /\ OrderOK' /\ CancelOK' /\ SessionOK' /\ EditsOK'
        /\ \A k : Waiting(k)' <=> Waiting(k)
    BY <1>1, <1>7, <2>1, Quiet DEF pipe, hand
  <2>3. \A id \in Ids : AnswerOK(id)'
    BY <1>1, <1>7, <1>8, <2>2, QuietAnswers
  <2>4. asking'[0] = asking[0]
    BY <1>3, <1>10 DEF Callers
  <2>5. HandlerOK'
    BY <1>1, <1>2, <2>1, <2>4 DEF HandlerOK, At
  <2> QED
    BY <1>6, <1>8, <1>9, <2>2, <2>3, <2>5 DEF IInv
<1>11. CASE c = 0
  <2>1. Abort \/ Advance
    BY <1>11 DEF AskReturns
  <2>2. PICK op \in {"request", "refresh"} : At(op)
    BY <1>1, <1>2, <1>11 DEF HandlerOK
  <2>3. asking'[0].st = "none"
    BY <1>3, <1>11
  <2>4. ASSUME Abort
        PROVE  /\ dispatcher' = [dispatcher EXCEPT !.ops = dispatcher'.ops, !.failed = dispatcher'.failed]
               /\ dispatcher'.ops = <<>> /\ dispatcher'.failed = TRUE
    <3>1. dispatcher \in [st : {"select", "handle", "reply", "remove", "stopped"}, message : Sent \cup {Idle},
                          ops : Seq(Ops), failed : BOOLEAN, body : Bodies]
      BY <1>2 DEF HandShape
    <3>2. dispatcher' = [dispatcher EXCEPT !.ops = <<>>, !.failed = TRUE]
      BY <2>4 DEF Abort
    <3>3. dispatcher'.ops = <<>> /\ dispatcher'.failed = TRUE
      BY <3>1, <3>2
    <3> QED
      BY <3>2, <3>3
  <2>5. /\ dispatcher' = [dispatcher EXCEPT !.ops = dispatcher'.ops, !.failed = dispatcher'.failed]
        /\ dispatcher'.ops \in Seq(Ops) /\ dispatcher'.failed \in BOOLEAN
    <3>1. <<>> \in Seq(Ops)
      BY SMT
    <3> QED
      BY <1>2, <2>1, <2>2, <2>4, <3>1, AdvanceFacts
  <2>6. session' \in BOOLEAN /\ exiting' \in BOOLEAN /\ (session => session')
    BY <1>1, <1>2 DEF HandShape
  <2>7. /\ InShape' /\ HandShape' /\ OrderOK' /\ CancelOK' /\ SessionOK' /\ EditsOK'
        /\ \A k : Waiting(k)' <=> Waiting(k)
        /\ dispatcher'.st = "handle" /\ dispatcher'.message = dispatcher.message
    BY <1>1, <1>7, <2>2, <2>5, <2>6, HandlerCall DEF pipe
  <2>8. \A id \in Ids : AnswerOK(id)'
    BY <1>1, <1>7, <1>8, <2>7, QuietAnswers
  <2>9. HandlerOK'
    <3>1. CASE Advance
      BY <1>2, <2>2, <2>3, <2>6, <3>1, AdvanceHandler
    <3>2. CASE Abort
      <4>1. dispatcher'.ops = <<>> /\ DOMAIN dispatcher'.ops = {}
        <5>1. DOMAIN <<>> = {}
          BY SMT
        <5> QED
          BY <2>4, <3>2, <5>1
      <4>2. ~(dispatcher.message.method = "initialized" /\ ~session)
        BY <1>2, <2>2 DEF HandlerOK, At
      <4> QED
        BY <1>1, <2>3, <2>7, <4>1, <4>2 DEF HandlerOK
    <3> QED
      BY <2>1, <3>1, <3>2
  <2> QED
    BY <1>6, <1>8, <1>9, <2>7, <2>8, <2>9 DEF IInv
<1> QED
  BY <1>10, <1>11

----------------------------------------------------------------------------
(* Steps that move messages towards the dispatch loop *)

(* The client answers a request of the server.                             *)
LEMMA StepClientAnswers ==
    ASSUME IInv, ClientAnswers
    PROVE  IInv'
<1>1. PICK id \in asked, body \in {"result", "error"} :
        /\ asked' = asked \ {id}
        /\ stdin' = Append(stdin, [method |-> "response", id |-> id, body |-> body])
        /\ UNCHANGED <<load, next, queue, reader, dispatcher, text, session, exiting, crashed, canceled>>
        /\ UNCHANGED <<pending, answers, asking, channels, pendingServer, work, outgoing, ended, background>>
  BY DEF ClientAnswers, handling, calls
<1>2. Grows
  BY <1>1, GrowsSame
<1>3. PICK X, s, t, e : /\ X = Sent \cup Responses /\ s = stdin /\ t = stdin'
                        /\ e = [method |-> "response", id |-> id, body |-> body]
  OBVIOUS
<1>4. s \in Seq(X) /\ e \in X /\ t = Append(s, e) /\ e.method = "response" /\ Ordered(s)
  <2>1. id \in DOMAIN channels
    BY DEF IInv, ChannelsOK
  <2>2. e \in Responses /\ e.method = "response"
    BY <1>3, <2>1 DEF Responses
  <2> QED
    BY <1>1, <1>3, <2>2 DEF IInv, InShape, OrderOK
<1>5. t \in Seq(X) /\ Ordered(t) /\ \A k : In(t, k) <=> In(s, k)
  BY <1>4, InAppend, OrderedAppend
<1>6. \A k : (In(queue, k)' <=> In(queue, k)) /\ (InReader(k)' <=> InReader(k)) /\ (InHand(k)' <=> InHand(k))
  BY <1>1 DEF In, InReader, InHand
<1>7. \A k : In(stdin, k)' <=> In(stdin, k)
  <2>1. \A k : In(stdin, k)' <=> In(t, k)
    BY <1>3 DEF In
  <2> QED
    BY <1>3, <1>5, <2>1
<1>8. \A k : (Waiting(k)' <=> Waiting(k)) /\ (Due(k)' <=> Due(k))
  <2>1. \A k : Waiting(k)' <=> Waiting(k)
    BY <1>6, <1>7 DEF Waiting
  <2> QED
    BY <1>1, <1>6, <2>1 DEF Due
<1>9. InShape'
  <2>1. Sent' = Sent /\ Responses' = Responses /\ Script' = Script
    BY <1>1, SentSame DEF Script
  <2> QED
    BY <1>1, <1>3, <1>5, <2>1 DEF IInv, InShape
<1>10. OrderOK'
  <2>1. Ordered(stdin)' /\ Ordered(queue)'
    BY <1>1, <1>3, <1>5 DEF IInv, OrderOK, Ordered
  <2> QED
    BY <1>6, <1>7, <2>1 DEF IInv, OrderOK
<1>11. HandShape' /\ SessionOK' /\ EditsOK'
  BY <1>1, <1>2, <1>8, HandFrame, SessionFrame, EditsFrame DEF IInv
<1>12. CancelOK'
  <2>1. dispatcher'.st = "reply" /\ dispatcher'.body = "cancelled" => Excused(dispatcher'.message.id)
    BY <1>1 DEF IInv, CancelOK
  <2> QED
    BY <1>1, <1>2, <2>1, CancelFrame DEF IInv
<1>13. OutShape' /\ \A i : Queued(i)' = Queued(i) /\ Given(i)' = Given(i)
  BY <1>1, <1>2, OutFrame DEF IInv
<1>14. \A i \in Ids : AnswerOK(i)'
  BY <1>1, <1>2, <1>8, <1>13, QuietAnswers
<1>15. ChannelsOK' /\ HandlerOK' /\ BackgroundTypeOK'
  <2>1. ChannelsOK'
    BY <1>1 DEF IInv, ChannelsOK
  <2> QED
    BY <1>1, <2>1, HandlerFrame, BackgroundFrame DEF IInv, BackgroundTypeOK
<1> QED
  BY <1>9, <1>10, <1>11, <1>12, <1>13, <1>14, <1>15 DEF IInv

(* The client sends the next message of its script: it is behind all       *)
(* others.                                                                 *)
LEMMA StepClientSends ==
    ASSUME IInv, ClientSends
    PROVE  IInv'
<1>1. /\ UNCHANGED <<load, queue, reader, dispatcher, text, session, exiting, crashed, canceled>>
      /\ UNCHANGED <<pending, asked, answers, asking, channels, pendingServer, work, outgoing, ended, background>>
      /\ next <= Len(Script) /\ next' = next + 1
      /\ stdin' = Append(stdin, Received(Script[next], next))
  BY DEF ClientSends, handling, calls
<1>2. PICK n, m, L : n = next /\ m = next' /\ L = Len(Script)
  OBVIOUS
<1>3. n \in Nat /\ L \in Nat /\ n \in 1 .. L + 1 /\ n <= L /\ m = n + 1 /\ DOMAIN Script = 1 .. L
  BY <1>1, <1>2, ScriptFacts DEF IInv, InShape
<1>4. /\ m \in Nat /\ n <= m /\ m \in 1 .. L + 1 /\ n \in 1 .. L /\ 1 .. m - 1 = (1 .. n - 1) \cup {n} /\ n \notin 1 .. n - 1
      /\ \A k \in Nat : (k >= m => k >= n) /\ (k < n => k # n /\ k <= n) /\ (k = n => k >= n)
  BY <1>3, SMT
<1>5. Grows
  BY <1>1, <1>2, <1>3, <1>4 DEF Grows
<1>6. Script' = Script /\ load' = load
  BY <1>1 DEF Script
<1>7. PICK X, s, t, e : X = (Sent \cup Responses)' /\ s = stdin /\ t = stdin' /\ e = Received(Script[next], next)
  OBVIOUS
<1>8. s \in Seq(X) /\ e \in X /\ e \in Sent' /\ t = Append(s, e) /\ e.method # "response" /\ e.at = n /\ Ordered(s)
  <2>1. s \in Seq(X)
    BY <1>5, <1>7, Carried DEF IInv, InShape
  <2>2. e \in Sent'
    BY <1>2, <1>4, <1>6, <1>7 DEF Sent
  <2>3. e.method = Script[n].method /\ e.at = n
    BY <1>2, <1>7 DEF Received
  <2>4. Script[n].method \in Methods
    BY <1>3, <1>4, ScriptFacts DEF IInv
  <2> QED
    BY <1>1, <1>7, <2>1, <2>2, <2>3, <2>4, MethodFacts DEF IInv, OrderOK
<1>9. \A k : Waiting(k) => k \in 1 .. n - 1 /\ k \in Nat /\ k < n
  BY <1>2, WaitingSent DEF IInv
<1>10. t \in Seq(X) /\ Ordered(t) /\ \A k : In(t, k) <=> In(s, k) \/ k = n
  <2>1. \A k : In(s, k) => k < e.at
    BY <1>7, <1>8, <1>9 DEF Waiting
  <2> QED
    BY <1>8, <2>1, InAppend, OrderedAppend
<1>11. \A k : (In(queue, k)' <=> In(queue, k)) /\ (InReader(k)' <=> InReader(k)) /\ (InHand(k)' <=> InHand(k))
  BY <1>1 DEF In, InReader, InHand
<1>12. \A k : In(stdin, k)' <=> In(stdin, k) \/ k = n
  <2>1. \A k : In(stdin, k)' <=> In(t, k)
    BY <1>7 DEF In
  <2> QED
    BY <1>7, <1>10, <2>1
<1>13. \A k : Waiting(k)' <=> Waiting(k) \/ k = n
  BY <1>11, <1>12 DEF Waiting
<1>14. InShape'
  <2>1. Sent \in SUBSET (Sent')
    BY <1>5, SentGrows
  <2>2. queue' \in Seq(Sent')
    BY <1>1, <1>5, Carried DEF IInv, InShape
  <2>3. stdin' \in Seq((Sent \cup Responses)') /\ next' \in 1 .. Len(Script') + 1
    BY <1>2, <1>4, <1>6, <1>7, <1>10
  <2>4. /\ reader' \in [st : {"read", "push", "reply", "stopped"}, message : Sent' \cup {Idle}, body : Bodies]
        /\ reader'.st \in {"push", "reply"} => reader'.message \in Sent'
    BY <1>1, <2>1 DEF IInv, InShape
  <2> QED
    BY <1>1, <2>2, <2>3, <2>4 DEF IInv, InShape
<1>15. OrderOK'
  <2>1. Ordered(stdin)' /\ Ordered(queue)'
    BY <1>1, <1>7, <1>10 DEF IInv, OrderOK, Ordered
  <2>2. \A j : InHand(j) \/ In(queue, j) \/ InReader(j) => j < n
    BY <1>9 DEF Waiting
  <2> QED
    BY <1>11, <1>12, <2>1, <2>2 DEF IInv, OrderOK
<1>16. HandShape'
  BY <1>1, <1>5, HandFrame DEF IInv
<1>17. CancelOK'
  <2>1. dispatcher'.st = "reply" /\ dispatcher'.body = "cancelled" => Excused(dispatcher'.message.id)
    BY <1>1 DEF IInv, CancelOK
  <2> QED
    BY <1>1, <1>5, <2>1, CancelFrame DEF IInv
<1>18. SessionOK'
  <2>1. ASSUME NEW k \in 1 .. next' - 1, ~session', Script'[k].method = "initialized"
        PROVE  Waiting(k)'
    <3>1. k = n \/ (k \in 1 .. next - 1 /\ Script[k].method = "initialized" /\ ~session)
      BY <1>1, <1>2, <1>4, <1>6, <2>1
    <3> QED
      BY <1>13, <3>1 DEF IInv, SessionOK
  <2> QED
    BY <1>1, <2>1 DEF IInv, SessionOK
<1>19. EditsOK'
  <2>1. \A k \in 1 .. n - 1 : Due(k)' <=> Due(k)
    <3>1. \A k \in 1 .. n - 1 : k # n
      BY <1>4
    <3> QED
      BY <1>1, <1>11, <1>13, <3>1 DEF Due
  <2>2. Due(n)'
    BY <1>4, <1>9, <1>11, <1>13 DEF Due, Waiting
  <2>3. \A j : j \in EditPlaces(next)' <=> j \in EditPlaces(next) \/ (j = n /\ Script[n].method = "edit")
    BY <1>2, <1>4, <1>6 DEF EditPlaces
  <2>4. \A j \in EditPlaces(next) : j \in 1 .. n - 1
    BY <1>2 DEF EditPlaces
  <2>5. Applied' = Applied
    BY <2>1, <2>2, <2>3, <2>4 DEF Applied
  <2>6. \A j \in Applied : j <= n
    <3>1. \A j \in 1 .. n - 1 : j <= n
      BY <1>3, SMT
    <3> QED
      BY <2>4, <3>1 DEF Applied
  <2> QED
    BY <1>1, <1>13, <2>5, <2>6 DEF IInv, EditsOK
<1>20. OutShape' /\ \A i : Queued(i)' = Queued(i) /\ Given(i)' = Given(i)
  BY <1>1, <1>5, OutFrame DEF IInv
<1>21. \A i \in Ids : AnswerOK(i)'
  <2>1. \A k \in DOMAIN Script : Waiting(k)' \/ k >= next' => Waiting(k) \/ k >= next
    <3>1. \A k \in DOMAIN Script : k \in Nat
      BY ScriptFacts DEF IInv
    <3> QED
      BY <1>2, <1>3, <1>4, <1>13, <3>1
  <2> QED
    BY <1>1, <1>5, <1>20, <2>1, AnswerFrame DEF IInv
<1>22. ChannelsOK' /\ HandlerOK' /\ BackgroundTypeOK'
  BY <1>1, CallsFrame, HandlerFrame, BackgroundFrame DEF IInv, BackgroundTypeOK
<1> QED
  BY <1>14, <1>15, <1>16, <1>17, <1>18, <1>19, <1>20, <1>21, <1>22 DEF IInv

(* A step that leaves the dispatch loop alone, and takes no edit and no    *)
(* "initialized" from the messages under way.                              *)
LEMMA PipeHand ==
    ASSUME IInv, Grows, UNCHANGED <<next, hand, asking>>,
           \A k : Waiting(k)' => Waiting(k),
           \A k \in 1 .. next - 1 : Waiting(k) /\ Script[k].method \in {"initialized", "edit"} => Waiting(k)'
    PROVE  HandShape' /\ SessionOK' /\ HandlerOK' /\ EditsOK'
<1>1. UNCHANGED <<load, next, dispatcher, text, session, exiting, crashed, asking>>
  BY DEF Grows, hand
<1>2. HandShape' /\ SessionOK' /\ HandlerOK'
  BY <1>1, HandFrame, SessionFrame, HandlerFrame DEF IInv
<1>3. \A k : InHand(k)' <=> InHand(k)
  BY <1>1 DEF InHand
<1>4. \A k \in 1 .. next - 1 : Script[k].method = "edit" => (Due(k)' <=> Due(k))
  BY <1>1, <1>3 DEF Due
<1>5. EditsOK'
  BY <1>1, <1>4, EditsFrame DEF IInv
<1> QED
  BY <1>2, <1>5

(* It leaves the answers alone too, and the way of the messages is shown   *)
(* to be in order.                                                         *)
LEMMA PipeMove ==
    ASSUME IInv, Grows, InShape', OrderOK', CancelOK', ChannelsOK', BackgroundTypeOK',
           UNCHANGED <<next, hand, asking, answers, work, outgoing>>,
           \A k : Waiting(k)' => Waiting(k),
           \A k \in 1 .. next - 1 : Waiting(k) /\ Script[k].method \in {"initialized", "edit"} => Waiting(k)'
    PROVE  IInv'
<1>1. HandShape' /\ SessionOK' /\ HandlerOK' /\ EditsOK'
  BY PipeHand
<1>2. OutShape' /\ \A i : Queued(i)' = Queued(i) /\ Given(i)' = Given(i)
  BY OutFrame DEF IInv
<1>3. \A i \in Ids : AnswerOK(i)'
  BY <1>2, QuietAnswers
<1> QED
  BY <1>1, <1>2, <1>3 DEF IInv

(* Cancellations stay justified when they and the dispatch loop stay.      *)
LEMMA CancelSame ==
    ASSUME CancelOK, Grows, UNCHANGED <<canceled, pending, dispatcher>>
    PROVE  CancelOK'
<1>1. dispatcher'.st = "reply" /\ dispatcher'.body = "cancelled" => Excused(dispatcher'.message.id)
  BY DEF CancelOK
<1> QED
  BY <1>1, CancelFrame

(* readLoop ends with its input.                                           *)
LEMMA StepReadStops ==
    ASSUME IInv, ReadStops
    PROVE  IInv'
<1>1. /\ UNCHANGED <<load, next, stdin, queue, dispatcher, text, session, exiting, crashed, canceled>>
      /\ UNCHANGED <<pending, asked, answers, asking, channels, pendingServer, work, outgoing, background>>
      /\ reader.st = "read" /\ ReadTo("stopped", Idle)
  BY DEF ReadStops, client, handling, calls
<1>2. ended' \in BOOLEAN /\ (ended => ended')
  <2>1. ended \in BOOLEAN
    BY DEF IInv, BackgroundTypeOK
  <2>2. CASE ended /\ ended' = ended
    BY <2>2
  <2>3. CASE ended' = TRUE
    BY <2>3
  <2> QED
    BY <2>2, <2>3 DEF ReadStops
<1>3. Grows
  BY <1>1, <1>2, GrowsSame
<1>4. reader'.st = "stopped" /\ reader'.message = Idle /\ reader'.body = "none"
  BY <1>1 DEF ReadTo
<1>5. \A k : (In(queue, k)' <=> In(queue, k)) /\ (In(stdin, k)' <=> In(stdin, k)) /\ (InHand(k)' <=> InHand(k))
  BY <1>1 DEF In, InHand
<1>6. \A k : ~InReader(k) /\ ~InReader(k)'
  BY <1>1, <1>4 DEF InReader
<1>7. \A k : Waiting(k)' <=> Waiting(k)
  BY <1>5, <1>6 DEF Waiting
<1>8. InShape'
  <2>1. Sent' = Sent /\ Responses' = Responses /\ Script' = Script
    BY <1>1, SentSame DEF Script
  <2>2. reader' \in [st : {"read", "push", "reply", "stopped"}, message : Sent' \cup {Idle}, body : Bodies]
    BY <1>1 DEF ReadTo, Bodies
  <2> QED
    BY <1>1, <1>4, <2>1, <2>2 DEF IInv, InShape
<1>9. OrderOK'
  <2>1. Ordered(stdin)' /\ Ordered(queue)'
    BY <1>1 DEF IInv, OrderOK, Ordered
  <2> QED
    BY <1>5, <1>6, <2>1 DEF IInv, OrderOK
<1>10. CancelOK' /\ ChannelsOK' /\ BackgroundTypeOK'
  BY <1>1, <1>2, <1>3, CancelSame, CallsFrame, BackgroundFrame DEF IInv
<1> QED
  BY <1>1, <1>3, <1>7, <1>8, <1>9, <1>10, PipeMove DEF hand

(* readLoop puts the message at hand into the request queue.               *)
LEMMA StepReadPush ==
    ASSUME IInv, ReadPush
    PROVE  IInv'
<1>1. /\ UNCHANGED <<load, next, stdin, dispatcher, text, session, exiting, crashed, canceled, ended>>
      /\ UNCHANGED <<pending, asked, answers, asking, channels, pendingServer, work, outgoing, background>>
      /\ reader.st = "push" /\ Len(queue) < QueueCap
      /\ queue' = Append(queue, reader.message) /\ ReadTo("read", Idle)
  BY DEF ReadPush, client, handling, calls
<1>2. Grows
  BY <1>1, GrowsSame
<1>3. reader'.st = "read" /\ reader'.message = Idle /\ reader'.body = "none"
  BY <1>1 DEF ReadTo
<1>4. PICK X, s, t, e : X = Sent /\ s = queue /\ t = queue' /\ e = reader.message
  OBVIOUS
<1>5. s \in Seq(X) /\ e \in X /\ t = Append(s, e) /\ Ordered(s)
  BY <1>1, <1>4 DEF IInv, InShape, OrderOK
<1>6. e.method # "response" /\ e.at \in Nat /\ InReader(e.at) /\ \A k : InReader(k) <=> e.at = k
  BY <1>1, <1>4, <1>5, SentFacts DEF IInv, InReader
<1>7. \A k : In(s, k) => k \in Nat /\ k < e.at
  <2>1. \A k : In(s, k) => k \in Nat
    BY <1>4, WaitingSent DEF IInv, Waiting
  <2> QED
    BY <1>4, <1>6, <2>1 DEF IInv, OrderOK
<1>8. t \in Seq(X) /\ Ordered(t) /\ Len(t) = Len(s) + 1 /\ \A k : In(t, k) <=> In(s, k) \/ e.at = k
  BY <1>5, <1>6, <1>7, InAppend, OrderedAppend
<1>9. Len(t) <= QueueCap
  <2>1. Len(s) < QueueCap /\ QueueCap \in Nat /\ s \in Seq(X)
    BY <1>1, <1>4, <1>5, ServerAssumption
  <2>2. Len(t) = Len(s) + 1
    BY <1>8
  <2> QED
    BY <2>1, <2>2, SMT
<1>10. \A k : (In(stdin, k)' <=> In(stdin, k)) /\ (InHand(k)' <=> InHand(k))
  BY <1>1 DEF In, InHand
<1>11. \A k : ~InReader(k)'
  BY <1>3 DEF InReader
<1>12. \A k : In(queue, k)' <=> In(queue, k) \/ InReader(k)
  <2>1. \A k : In(queue, k)' <=> In(t, k)
    BY <1>4 DEF In
  <2> QED
    BY <1>4, <1>6, <1>8, <2>1
<1>13. \A k : Waiting(k)' <=> Waiting(k)
  BY <1>10, <1>11, <1>12 DEF Waiting
<1>14. InShape'
  <2>1. Sent' = Sent /\ Responses' = Responses /\ Script' = Script
    BY <1>1, SentSame DEF Script
  <2>2. reader' \in [st : {"read", "push", "reply", "stopped"}, message : Sent' \cup {Idle}, body : Bodies]
    BY <1>1 DEF ReadTo, Bodies
  <2> QED
    BY <1>1, <1>3, <1>4, <1>8, <1>9, <2>1, <2>2 DEF IInv, InShape
<1>15. OrderOK'
  <2>1. Ordered(stdin)' /\ Ordered(queue)'
    BY <1>1, <1>4, <1>8 DEF IInv, OrderOK, Ordered
  <2> QED
    BY <1>10, <1>11, <1>12, <2>1 DEF IInv, OrderOK
<1>16. CancelOK' /\ ChannelsOK' /\ BackgroundTypeOK'
  BY <1>1, <1>2, CancelSame, CallsFrame, BackgroundFrame DEF IInv, BackgroundTypeOK
<1> QED
  BY <1>1, <1>2, <1>13, <1>14, <1>15, <1>16, PipeMove DEF hand

(* The read loop takes the first message of its input and keeps it or not. *)
LEMMA ReadTakes ==
    ASSUME IInv, reader.st = "read", stdin # <<>>, stdin' = Tail(stdin),
           UNCHANGED <<load, next, queue, dispatcher>>, DOMAIN channels \subseteq DOMAIN channels',
           reader'.st \in {"read", "push", "reply"}, reader'.st # "read" => reader'.message = Head(stdin),
           reader'.st # "read" => Head(stdin).method # "response"
    PROVE  /\ Head(stdin) \in Sent \cup Responses
           /\ OrderOK' /\ stdin' \in Seq((Sent \cup Responses)')
           /\ \A k : Waiting(k)' => Waiting(k)
           /\ \A k : Waiting(k) => Waiting(k)' \/ (/\ reader'.st = "read" /\ Head(stdin).method # "response"
                                                   /\ Head(stdin).at = k)
<1>1. PICK X, s, t, m : X = Sent \cup Responses /\ s = stdin /\ t = stdin' /\ m = Head(stdin)
  OBVIOUS
<1>2. s \in Seq(X) /\ s # <<>> /\ t = Tail(s) /\ m = Head(s) /\ Ordered(s)
  BY <1>1 DEF IInv, InShape, OrderOK
<1>3. /\ t \in Seq(X) /\ m \in X /\ Ordered(t)
      /\ \A k : In(s, k) <=> In(t, k) \/ (m.method # "response" /\ m.at = k)
      /\ m.method # "response" => \A k : In(t, k) => m.at < k
  BY <1>2, InTail, OrderedTail
<1>4. \A k : /\ (In(queue, k)' <=> In(queue, k)) /\ (InHand(k)' <=> InHand(k)) /\ ~InReader(k)
             /\ (InReader(k)' <=> reader'.st # "read" /\ m.at = k)
  BY <1>1 DEF In, InHand, InReader
<1>5. \A k : In(stdin, k)' <=> In(t, k)
  BY <1>1 DEF In
<1>6. \A k : In(stdin, k) <=> In(stdin, k)' \/ (m.method # "response" /\ m.at = k)
  BY <1>1, <1>3, <1>5
<1>7. \A k : InReader(k)' => In(stdin, k)
  BY <1>1, <1>4, <1>6
<1>8. \A j, k : InReader(j)' /\ In(stdin, k)' => j < k
  BY <1>1, <1>3, <1>4, <1>5
<1>9. OrderOK'
  <2>1. Ordered(stdin)' /\ Ordered(queue)'
    BY <1>1, <1>3 DEF IInv, OrderOK, Ordered
  <2>2. \A j, k \in Nat : InHand(j)' /\ (In(queue, k) \/ InReader(k) \/ In(stdin, k))' => j < k
    BY <1>4, <1>6, <1>7 DEF IInv, OrderOK
  <2>3. \A j, k \in Nat : In(queue, j)' /\ (InReader(k) \/ In(stdin, k))' => j < k
    BY <1>4, <1>6, <1>7 DEF IInv, OrderOK
  <2> QED
    BY <1>8, <2>1, <2>2, <2>3 DEF OrderOK
<1>10. \A k : Waiting(k)' => Waiting(k)
  BY <1>4, <1>6, <1>7 DEF Waiting
<1>11. \A k : Waiting(k) => Waiting(k)' \/ (reader'.st = "read" /\ m.method # "response" /\ m.at = k)
  BY <1>4, <1>6 DEF Waiting
<1>12. t \in Seq((Sent \cup Responses)')
  <2>1. PICK Y : Y = (Sent \cup Responses)'
    OBVIOUS
  <2>2. X \in SUBSET Y
    <3>1. Sent' = Sent
      BY SentSame
    <3>2. Responses \in SUBSET (Responses')
      BY SMT DEF Responses
    <3> QED
      BY <1>1, <2>1, <3>1, <3>2
  <2>3. Seq(X) \subseteq Seq(Y)
    BY <2>2, SeqMono
  <2> QED
    BY <1>3, <2>1, <2>3
<1> QED
  BY <1>1, <1>3, <1>9, <1>10, <1>11, <1>12

(* It keeps it, to answer it or to pass it on.                             *)
LEMMA ReadKeeps ==
    ASSUME IInv, reader.st = "read", stdin # <<>>, stdin' = Tail(stdin), Head(stdin).method \in Methods,
           NEW st \in {"push", "reply"}, NEW body \in {"none", "initialized", "error"},
           reader' = [st |-> st, message |-> Head(stdin), body |-> body],
           st = "reply" => Head(stdin).method \in Requests,
           UNCHANGED <<load, next, queue, hand, canceled, pending, asked, answers, calls, work, outgoing, ended, background>>
    PROVE  IInv'
<1>1. /\ UNCHANGED <<load, next, queue, dispatcher, text, session, exiting, crashed, canceled, pending>>
      /\ UNCHANGED <<asked, answers, asking, channels, pendingServer, work, outgoing, ended, background>>
  BY DEF hand, calls
<1>2. Grows
  <2>1. (ended => ended') /\ (exiting => exiting')
    BY <1>1, SMT
  <2> QED
    BY <1>1, <2>1, GrowsSame
<1>3. PICK m : m = Head(stdin)
  OBVIOUS
<1>4. reader' = [st |-> st, message |-> m, body |-> body] /\ m.method # "response"
  BY <1>3, MethodFacts
<1>5. reader'.st = st /\ reader'.message = m /\ reader'.body = body /\ st # "read"
  BY <1>4, SMT
<1>6. /\ m \in Sent \cup Responses /\ OrderOK' /\ stdin' \in Seq((Sent \cup Responses)')
      /\ (\A k : Waiting(k)' => Waiting(k)) /\ (\A k : Waiting(k) => Waiting(k)')
  BY <1>1, <1>3, <1>4, <1>5, ReadTakes
<1>7. m \in Sent
  BY <1>4, <1>6 DEF Responses
<1>8. InShape'
  <2>1. Sent' = Sent /\ Script' = Script
    BY <1>1, SentSame DEF Script
  <2>2. /\ reader' \in [st : {"read", "push", "reply", "stopped"}, message : Sent' \cup {Idle}, body : Bodies]
        /\ reader'.body \notin {"result", "cancelled"}
    BY <1>4, <1>5, <1>7, <2>1 DEF Bodies
  <2>3. reader'.message \in Sent' /\ (reader'.st = "reply" => reader'.message.method \in Requests)
    BY <1>3, <1>5, <1>7, <2>1
  <2> QED
    BY <1>1, <1>6, <2>1, <2>2, <2>3 DEF IInv, InShape
<1>9. CancelOK' /\ ChannelsOK' /\ BackgroundTypeOK'
  BY <1>1, <1>2, CancelSame, CallsFrame, BackgroundFrame DEF IInv, BackgroundTypeOK
<1> QED
  BY <1>1, <1>2, <1>6, <1>8, <1>9, PipeMove DEF hand

(* It deals with the message by itself.                                    *)
LEMMA ReadDrops ==
    ASSUME IInv, Grows, reader.st = "read", stdin # <<>>, stdin' = Tail(stdin), ReadTo("read", Idle),
           Head(stdin).method \in {"response", "cancel"}, CancelOK', ChannelsOK', BackgroundTypeOK',
           UNCHANGED <<next, queue, hand, asking, answers, work, outgoing>>
    PROVE  IInv'
<1>1. /\ UNCHANGED <<load, next, queue, dispatcher>> /\ DOMAIN channels \subseteq DOMAIN channels'
      /\ reader'.st = "read" /\ reader'.body = "none" /\ reader' = [st |-> "read", message |-> Idle, body |-> "none"]
  BY DEF hand, Grows, ReadTo
<1>2. PICK m : m = Head(stdin)
  OBVIOUS
<1>3. /\ m \in Sent \cup Responses /\ OrderOK' /\ stdin' \in Seq((Sent \cup Responses)')
      /\ \A k : Waiting(k)' => Waiting(k)
      /\ \A k : Waiting(k) => Waiting(k)' \/ (m.method # "response" /\ m.at = k)
  BY <1>1, <1>2, ReadTakes
<1>4. InShape'
  <2>1. Sent' = Sent /\ Script' = Script
    BY <1>1, SentSame DEF Script
  <2>2. reader' \in [st : {"read", "push", "reply", "stopped"}, message : Sent' \cup {Idle}, body : Bodies]
    BY <1>1 DEF Bodies
  <2> QED
    BY <1>1, <1>3, <2>1, <2>2 DEF IInv, InShape
<1>5. ASSUME NEW k \in 1 .. next - 1, Waiting(k), Script[k].method \in {"initialized", "edit"}
      PROVE  Waiting(k)'
  <2>1. SUFFICES ASSUME m.method # "response", m.at = k PROVE FALSE
    BY <1>3, <1>5
  <2>2. m \in Sent
    BY <1>3, <2>1 DEF Responses
  <2>3. m.method = Script[k].method
    BY <2>1, <2>2, SentFacts DEF IInv
  <2> QED
    BY <1>2, <1>5, <2>1, <2>3
<1> QED
  BY <1>3, <1>4, <1>5, PipeMove

(* readLoop gives a response to the call that waits for it.                *)
LEMMA StepReadResponse ==
    ASSUME IInv, reader.st = "read", stdin # <<>>, stdin' = Tail(stdin), Head(stdin).method = "response",
           ReadResponse(Head(stdin)), UNCHANGED <<client, handling, work, writer, ended, background, crashed>>
    PROVE  IInv'
<1>1. PICK m : m = Head(stdin)
  OBVIOUS
<1>2. /\ UNCHANGED <<load, next, queue, hand, asking, answers, work, outgoing, ended, background, canceled, pending, asked>>
      /\ ReadTo("read", Idle)
  BY DEF ReadResponse, client, handling, hand
<1>3. ChannelsOK
  BY DEF IInv
<1>4. m \in Responses
  <2>1. PICK X, s : X = Sent \cup Responses /\ s = stdin
    OBVIOUS
  <2>2. s \in Seq(X) /\ s # <<>> /\ m = Head(s)
    BY <1>1, <2>1 DEF IInv, InShape
  <2>3. m \in X
    BY <2>2, InTail
  <2> QED
    BY <1>1, <2>1, <2>3, SentFacts DEF IInv
<1>5. \/ UNCHANGED <<channels, pendingServer>>
      \/ /\ channels' = [channels EXCEPT ![m.id] = m.body] /\ pendingServer' = pendingServer \ {m.id}
         /\ m.body \in {"result", "error"}
  BY <1>1, <1>3, <1>4 DEF ReadResponse, ChannelsOK, Responses
<1>6. /\ channels' \in Seq({"open", "result", "error", "closed"}) /\ DOMAIN channels' = DOMAIN channels
      /\ pendingServer' \in SUBSET pendingServer /\ \A k \in pendingServer' : channels'[k] = channels[k]
  <2>1. channels \in Seq({"open", "result", "error", "closed"})
    BY <1>3 DEF ChannelsOK
  <2>2. CASE UNCHANGED <<channels, pendingServer>>
    BY <2>1, <2>2
  <2>3. ASSUME channels' = [channels EXCEPT ![m.id] = m.body], pendingServer' = pendingServer \ {m.id},
               m.body \in {"result", "error"}
        PROVE  /\ channels' \in Seq({"open", "result", "error", "closed"}) /\ DOMAIN channels' = DOMAIN channels
               /\ pendingServer' \in SUBSET pendingServer /\ \A k \in pendingServer' : channels'[k] = channels[k]
    <3>1. PICK f, g, C, b, id : /\ f = channels /\ g = [f EXCEPT ![id] = b] /\ C = {"open", "result", "error", "closed"}
                                /\ b = m.body /\ id = m.id
      OBVIOUS
    <3>2. f \in Seq(C) /\ b \in C
      BY <2>1, <2>3, <3>1
    <3>3. PICK n \in Nat : f \in [1 .. n -> C]
      BY <3>2, SMT
    <3>4. g \in [1 .. n -> C] /\ DOMAIN g = DOMAIN f /\ \A k \in DOMAIN f : k # id => g[k] = f[k]
      BY <3>1, <3>2, <3>3
    <3>5. g \in Seq(C)
      BY <3>3, <3>4, SMT
    <3> QED
      BY <1>3, <2>3, <3>1, <3>4, <3>5 DEF ChannelsOK
  <2> QED
    BY <1>5, <2>2, <2>3
<1>7. ChannelsOK'
  BY <1>2, <1>3, <1>6 DEF ChannelsOK
<1>8. Grows
  <2>1. UNCHANGED <<exiting, ended>>
    BY <1>2 DEF hand
  <2>2. (ended => ended') /\ (exiting => exiting')
    BY <2>1, SMT
  <2> QED
    BY <1>2, <1>6, <2>2, GrowsSame
<1>9. CancelOK' /\ BackgroundTypeOK'
  BY <1>2, <1>8, CancelSame, BackgroundFrame DEF IInv, BackgroundTypeOK, hand
<1> QED
  BY <1>2, <1>7, <1>8, <1>9, ReadDrops

(* readLoop cancels the context of a pending request.                      *)
LEMMA StepReadCancel ==
    ASSUME IInv, reader.st = "read", stdin # <<>>, stdin' = Tail(stdin), Head(stdin).method = "cancel",
           cancelRequest(Head(stdin).id), UNCHANGED <<initialize, queue, calls, outgoing>>,
           UNCHANGED <<client, handling, work, writer, ended, background, crashed>>
    PROVE  IInv'
<1>1. PICK m : m = Head(stdin)
  OBVIOUS
<1>2. /\ UNCHANGED <<load, next, queue, hand, asking, answers, work, outgoing, ended, background>>
      /\ UNCHANGED <<asked, channels, pendingServer, dispatcher, exiting>> /\ ReadTo("read", Idle)
  BY DEF cancelRequest, client, handling, hand, calls
<1>3. ChannelsOK'
  BY <1>2, CallsFrame DEF IInv
<1>4. Grows
  <2>1. (ended => ended') /\ (exiting => exiting')
    BY <1>2, SMT
  <2> QED
    BY <1>2, <2>1, GrowsSame
<1>5. m \in Sent
  <2>1. PICK X, s : X = Sent \cup Responses /\ s = stdin
    OBVIOUS
  <2>2. s \in Seq(X) /\ s # <<>> /\ m = Head(s)
    BY <1>1, <2>1 DEF IInv, InShape
  <2>3. m \in X
    BY <2>2, InTail
  <2> QED
    BY <1>1, <2>1, <2>3 DEF Responses
<1>6. WasSent(Message("cancel", m.id))
  <2>1. m.at \in 1 .. next - 1 /\ m.at \in DOMAIN Script /\ Script[m.at].method = "cancel" /\ Script[m.at].id = m.id
    BY <1>1, <1>5, SentFacts DEF IInv
  <2>2. Script[m.at] \in [method : Methods, id : Nat]
    BY <2>1, ScriptFacts DEF IInv
  <2>3. Script[m.at] = Message("cancel", m.id)
    BY <2>1, <2>2, SMT DEF Message
  <2> QED
    BY <2>1, <2>3 DEF WasSent
<1>7. /\ canceled' \in SUBSET (canceled \cup (pending \cap {m.id})) /\ pending' \in SUBSET pending
  BY <1>1 DEF cancelRequest
<1>8. \A id : WasSent(Message("cancel", id)) => WasSent(Message("cancel", id))'
  BY <1>4, SentGrows DEF WasSent, Script, Grows
<1>9. \A id : Excused(id) => Excused(id)'
  BY <1>4, SentGrows
<1>10. CancelOK'
  BY <1>2, <1>6, <1>7, <1>8, <1>9 DEF IInv, CancelOK
<1>11. BackgroundTypeOK'
  BY <1>2, BackgroundFrame DEF IInv, BackgroundTypeOK
<1> QED
  BY <1>2, <1>3, <1>4, <1>10, <1>11, ReadDrops

(* readLoop takes a message from its input, whatever it is.                *)
LEMMA StepReadMessage ==
    ASSUME IInv, ReadMessage
    PROVE  IInv'
<1>1. /\ reader.st = "read" /\ stdin # <<>> /\ stdin' = Tail(stdin)
      /\ UNCHANGED <<client, handling, work, writer, ended, background, crashed>>
  BY DEF ReadMessage
<1>2. PICK m : m = Head(stdin)
  OBVIOUS
<1>3. ASSUME UNCHANGED <<queue, pending, canceled, calls, outgoing>>, m.method \in Methods,
             NEW st \in {"push", "reply"}, NEW body \in {"none", "initialized", "error"},
             reader' = [st |-> st, message |-> m, body |-> body], st = "reply" => m.method \in Requests
      PROVE  IInv'
  <2>1. UNCHANGED <<load, next, queue, hand, canceled, pending, asked, answers, calls, work, outgoing, ended, background>>
    BY <1>1, <1>3 DEF client, handling, hand
  <2> QED
    BY <1>1, <1>2, <1>3, <2>1, ReadKeeps
<1>4. "invalid" \in Requests /\ Requests \subseteq Methods /\ Events \subseteq Methods
  BY DEF Requests, Events, Methods
<1>5. CASE m.method = "invalid" /\ ReadReply(m, "error") /\ UNCHANGED <<queue, pending, canceled, calls, outgoing>>
  BY <1>3, <1>4, <1>5 DEF ReadReply
<1>6. CASE /\ m.method \in Requests /\ UNCHANGED <<queue, pending, canceled, calls, outgoing>>
           /\ ReadReply(m, IF m.method = "initialize" THEN "initialized" ELSE "error")
  BY <1>3, <1>4, <1>6 DEF ReadReply
<1>7. CASE m.method = "response" /\ ReadResponse(m)
  BY <1>1, <1>2, <1>7, StepReadResponse
<1>8. CASE m.method = "cancel" /\ cancelRequest(m.id) /\ UNCHANGED <<initialize, queue, calls, outgoing>>
  BY <1>1, <1>2, <1>8, StepReadCancel
<1>9. CASE m.method \in Methods /\ ReadTo("push", m) /\ UNCHANGED <<queue, pending, canceled, calls, outgoing>>
  BY <1>3, <1>9 DEF ReadTo
<1> QED
  BY <1>2, <1>4, <1>5, <1>6, <1>7, <1>8, <1>9 DEF ReadMessage

----------------------------------------------------------------------------
(* Steps of the dispatch loop *)

(* What the handlers of the methods do.                                    *)
LEMMA HandlersFacts ==
    ASSUME NEW m, NEW ops \in Handlers(m)
    PROVE  /\ ops \in Seq(Ops)
           /\ m.method \in Documents => ops = <<>>
           /\ m.method = "edit" => ops = <<"edit">>
           /\ m.method = "initialized" => ops # <<>> /\ Head(ops) = "session"
           /\ \A i \in DOMAIN ops : ops[i] = "edit" => m.method = "edit"
<1>1. PICK T, A, s1, s2, s3, s4, s5, s6, s7 :
        /\ T = {"session", "request", "refresh", "schedule", "exit", "close"} /\ A = Ops
        /\ s1 = "session" /\ s2 = "request" /\ s3 = "refresh" /\ s4 = "schedule" /\ s5 = "exit" /\ s6 = "close" /\ s7 = "edit"
  OBVIOUS
<1>2. /\ s1 \in T /\ s2 \in T /\ s3 \in T /\ s4 \in T /\ s5 \in T /\ s6 \in T
      /\ T \in SUBSET A /\ s7 \notin T /\ s7 \in A
  <2>1. s1 \in T /\ s2 \in T /\ s3 \in T /\ s4 \in T /\ s5 \in T /\ s6 \in T
    BY <1>1
  <2>3. s7 \notin T /\ s7 \in A /\ T \in SUBSET A
    BY <1>1 DEF Ops
  <2> QED
    BY <2>1, <2>3
<1>3. ASSUME ops \in Seq(T)
      PROVE  ops \in Seq(Ops) /\ \A i \in DOMAIN ops : ops[i] # "edit"
  <2>1. Seq(T) \subseteq Seq(A)
    BY <1>2, SeqMono
  <2>2. \A i \in DOMAIN ops : ops[i] \in T
    BY <1>3, SMT
  <2> QED
    BY <1>1, <1>2, <1>3, <2>1, <2>2
<1>4. CASE m.method = "initialized"
  <2>1. ops = <<s1, s2, s2>> \/ ops = <<s1, s2, s3, s4, s2>>
    BY <1>1, <1>4 DEF Handlers
  <2>2. s1 \in T /\ s2 \in T /\ s3 \in T /\ s4 \in T
    BY <1>2
  <2>3. /\ <<s1, s2, s2>> \in Seq(T) /\ <<s1, s2, s2>> # <<>> /\ Head(<<s1, s2, s2>>) = s1
        /\ <<s1, s2, s3, s4, s2>> \in Seq(T) /\ <<s1, s2, s3, s4, s2>> # <<>> /\ Head(<<s1, s2, s3, s4, s2>>) = s1
    BY <2>2, SMT
  <2>4. ops \in Seq(T) /\ ops # <<>> /\ Head(ops) = s1
    BY <2>1, <2>3
  <2> QED
    BY <1>1, <1>3, <1>4, <2>4 DEF Documents
<1>5. CASE m.method = "edit"
  <2>1. ops = <<"edit">> /\ ops = <<s7>>
    BY <1>1, <1>5 DEF Handlers
  <2>2. ops \in Seq(A)
    BY <1>2, <2>1, SMT
  <2> QED
    BY <1>1, <1>5, <2>1, <2>2 DEF Documents
<1>6. CASE m.method \in {"watch", "configure", "exit", "shutdown"}
  <2>1. ops = <<s4>> \/ ops = <<s3, s4>> \/ ops = <<s5>> \/ ops = <<s6>>
    BY <1>1, <1>6 DEF Handlers
  <2>2. s3 \in T /\ s4 \in T /\ s5 \in T /\ s6 \in T
    BY <1>2
  <2>3. <<s4>> \in Seq(T) /\ <<s3, s4>> \in Seq(T) /\ <<s5>> \in Seq(T) /\ <<s6>> \in Seq(T)
    BY <2>2, SMT
  <2>4. ops \in Seq(T)
    BY <2>1, <2>3
  <2> QED
    BY <1>3, <1>6, <2>4 DEF Documents
<1>7. CASE m.method \notin {"initialized", "edit", "watch", "configure", "exit", "shutdown"}
  <2>1. ops = <<>>
    BY <1>7 DEF Handlers
  <2>2. <<>> \in Seq(Ops) /\ DOMAIN <<>> = {}
    BY SMT
  <2> QED
    BY <1>7, <2>1, <2>2
<1> QED
  BY <1>4, <1>5, <1>6, <1>7

(* An orderly client has a session when the first of the messages under    *)
(* way is about a document.                                                *)
LEMMA FirstHasSession ==
    ASSUME IInv, load.orderly, NEW k \in 1 .. next - 1, Script[k].method \in Documents \cup {"edit"},
           \A j \in Nat : Waiting(j) => ~(j < k)
    PROVE  session
<1>1. SUFFICES ASSUME ~session PROVE FALSE
  OBVIOUS
<1>2. load.cold
  BY <1>1 DEF IInv, SessionOK
<1>3. k \in DOMAIN Script /\ IsScript(load)
  BY ScriptFacts DEF IInv
<1>4. PICK j \in 1 .. k - 1 : Script[j].method = "initialized"
  BY <1>2, <1>3 DEF IsScript, Script
<1>5. j \in 1 .. next - 1 /\ j \in Nat /\ j < k
  <2>1. next \in Nat
    BY ScriptFacts DEF IInv
  <2> QED
    BY <2>1, SMT
<1>6. Waiting(j)
  BY <1>1, <1>4, <1>5 DEF IInv, SessionOK
<1> QED
  BY <1>5, <1>6

(* dispatchLoop takes a message from the request queue.                    *)
LEMMA StepDispatch ==
    ASSUME IInv, Dispatch
    PROVE  IInv'
<1>1. PICK m : m = Head(queue)
  OBVIOUS
<1>2. /\ UNCHANGED <<load, next, stdin, reader, text, session, exiting, crashed, canceled>>
      /\ UNCHANGED <<asked, answers, asking, channels, pendingServer, work, outgoing, ended, background>>
      /\ dispatcher.st = "select" /\ queue # <<>> /\ queue' = Tail(queue)
      /\ pending' = IF m.method \in Requests THEN pending \cup {m.id} ELSE pending
  BY <1>1 DEF Dispatch, client, calls
<1>3. PICK ops \in Handlers(m) :
        dispatcher' = [st |-> "handle", message |-> m, body |-> "none",
                       failed |-> ~session /\ m.method # "initialized",
                       ops |-> IF session \/ m.method = "initialized" THEN ops ELSE <<>>]
  BY <1>1 DEF Dispatch
<1>4. PICK todo, failed : /\ todo = IF session \/ m.method = "initialized" THEN ops ELSE <<>>
                          /\ failed = (~session /\ m.method # "initialized")
  OBVIOUS
<1>5. dispatcher' = [st |-> "handle", message |-> m, body |-> "none", failed |-> failed, ops |-> todo]
  BY <1>3, <1>4
<1>6. /\ dispatcher'.st = "handle" /\ dispatcher'.message = m /\ dispatcher'.body = "none"
      /\ dispatcher'.failed = failed /\ dispatcher'.ops = todo
  BY <1>5, SMT
<1>7. /\ ops \in Seq(Ops) /\ (m.method \in Documents => ops = <<>>) /\ (m.method = "edit" => ops = <<"edit">>)
      /\ m.method = "initialized" => ops # <<>> /\ Head(ops) = "session"
      /\ \A i \in DOMAIN ops : ops[i] = "edit" => m.method = "edit"
  BY HandlersFacts
<1>8. /\ todo \in Seq(Ops) /\ failed \in BOOLEAN /\ (m.method \in Documents => todo = <<>>)
      /\ m.method = "edit" => todo \in {<<>>, <<"edit">>}
      /\ m.method = "initialized" => todo # <<>> /\ Head(todo) = "session"
      /\ \A i \in DOMAIN todo : todo[i] = "edit" => m.method = "edit"
      /\ session /\ m.method = "edit" => todo # <<>>
  <2>1. <<>> \in Seq(Ops) /\ DOMAIN <<>> = {} /\ <<"edit">> # <<>>
    BY SMT
  <2> QED
    BY <1>4, <1>7, <2>1
<1>9. Grows
  BY <1>2, GrowsSame
<1>10. PICK X, s, t : X = Sent /\ s = queue /\ t = queue'
  OBVIOUS
<1>11. s \in Seq(X) /\ s # <<>> /\ t = Tail(s) /\ m = Head(s) /\ Ordered(s)
  BY <1>1, <1>2, <1>10 DEF IInv, InShape, OrderOK
<1>12. /\ t \in Seq(X) /\ m \in X /\ Ordered(t) /\ Len(t) \in Nat /\ Len(s) = Len(t) + 1
       /\ \A k : In(s, k) <=> In(t, k) \/ (m.method # "response" /\ m.at = k)
       /\ m.method # "response" => \A k : In(t, k) => m.at < k
  BY <1>11, InTail, OrderedTail
<1>13. /\ m \in Sent /\ m.method # "response" /\ m.at \in 1 .. next - 1 /\ m.at \in Nat
       /\ m.method = Script[m.at].method /\ (m.method \in Requests => m.id \in Ids)
  BY <1>10, <1>12, SentFacts DEF IInv
<1>14. \A k : /\ (In(stdin, k)' <=> In(stdin, k)) /\ (InReader(k)' <=> InReader(k))
              /\ ~InHand(k) /\ (InHand(k)' <=> m.at = k)
  BY <1>2, <1>6 DEF In, InReader, InHand
<1>15. \A k : In(queue, k)' <=> In(t, k)
  BY <1>10 DEF In
<1>16. \A k : In(queue, k) <=> In(queue, k)' \/ m.at = k
  BY <1>10, <1>12, <1>13, <1>15
<1>17. \A k : Waiting(k)' <=> Waiting(k)
  BY <1>14, <1>16 DEF Waiting
<1>18. \A k \in Nat : (In(queue, k)' \/ InReader(k) \/ In(stdin, k)) => m.at < k
  <2>1. In(queue, m.at)
    BY <1>16
  <2> QED
    BY <1>12, <1>13, <1>15, <2>1 DEF IInv, OrderOK
<1>19. InShape'
  <2>1. Sent' = Sent /\ Responses' = Responses /\ Script' = Script
    BY <1>2, SentSame DEF Script
  <2>2. Len(t) <= QueueCap
    <3>1. Len(s) <= QueueCap /\ QueueCap \in Nat
      BY <1>10, ServerAssumption DEF IInv, InShape
    <3> QED
      BY <1>12, <3>1, SMT
  <2> QED
    BY <1>2, <1>10, <1>12, <2>1, <2>2 DEF IInv, InShape
<1>20. OrderOK'
  <2>1. Ordered(stdin)' /\ Ordered(queue)'
    BY <1>2, <1>10, <1>12 DEF IInv, OrderOK, Ordered
  <2>2. \A j, k \in Nat : In(queue, j)' /\ (InReader(k) \/ In(stdin, k)) => j < k
    BY <1>16 DEF IInv, OrderOK
  <2>3. \A j, k \in Nat : InReader(j) /\ In(stdin, k) => j < k
    BY DEF IInv, OrderOK
  <2>4. \A j, k \in Nat : InHand(j)' /\ (In(queue, k)' \/ InReader(k) \/ In(stdin, k)) => j < k
    <3>1. SUFFICES ASSUME NEW j \in Nat, NEW k \in Nat, InHand(j)', In(queue, k)' \/ InReader(k) \/ In(stdin, k)
                   PROVE  j < k
      OBVIOUS
    <3>2. m.at = j
      BY <1>14, <3>1
    <3>3. m.at < k
      BY <1>18, <3>1
    <3> QED
      BY <3>2, <3>3
  <2> QED
    BY <1>14, <2>1, <2>2, <2>3, <2>4 DEF OrderOK
<1>21. HandShape'
  <2>1. Sent' = Sent
    BY <1>2, SentSame
  <2>2. dispatcher' \in [st : {"select", "handle", "reply", "remove", "stopped"}, message : Sent' \cup {Idle},
                         ops : Seq(Ops), failed : BOOLEAN, body : Bodies]
    BY <1>5, <1>8, <1>13, <2>1 DEF Bodies
  <2> QED
    BY <1>2, <1>6, <1>13, <2>1, <2>2 DEF IInv, HandShape
<1>22. CancelOK'
  <2>1. pending' \in SUBSET Ids /\ canceled' \in SUBSET Ids
    BY <1>2, <1>13 DEF IInv, CancelOK
  <2>2. \A id : WasSent(Message("cancel", id)) => WasSent(Message("cancel", id))'
    BY <1>9, SentGrows DEF WasSent, Script, Grows
  <2> QED
    BY <1>2, <1>6, <2>1, <2>2 DEF IInv, CancelOK
<1>23. SessionOK'
  BY <1>2, <1>17, SessionFrame DEF IInv
<1>24. EditsOK'
  <2>1. ASSUME load.orderly, NEW k \in 1 .. next - 1, Script[k].method = "edit"
        PROVE  Due(k)' <=> Due(k)
    <3>1. CASE k # m.at
      BY <1>14, <1>17, <3>1 DEF Due
    <3>2. CASE k = m.at
      <4>1. \A j \in Nat : Waiting(j) => ~(j < k)
        <5>1. \A j \in Nat : Waiting(j) => j = k \/ k < j
          BY <1>14, <1>16, <1>18, <3>2 DEF Waiting
        <5>2. \A j \in Nat : j = k \/ k < j => ~(j < k)
          BY <1>13, <3>2, SMT
        <5> QED
          BY <5>1, <5>2
      <4>2. session
        BY <2>1, <4>1, FirstHasSession
      <4>3. todo # <<>>
        BY <1>8, <1>13, <2>1, <3>2, <4>2
      <4> QED
        BY <1>6, <1>14, <1>17, <4>3 DEF Due
    <3> QED
      BY <3>1, <3>2
  <2> QED
    BY <1>2, <1>17, <2>1, EditsFrame DEF IInv
<1>25. OutShape' /\ \A i : Queued(i)' = Queued(i) /\ Given(i)' = Given(i)
  BY <1>2, <1>9, OutFrame DEF IInv
<1>26. \A i \in Ids : AnswerOK(i)'
  BY <1>2, <1>9, <1>17, <1>25, QuietAnswers
<1>27. ChannelsOK' /\ BackgroundTypeOK'
  BY <1>2, CallsFrame, BackgroundFrame DEF IInv, BackgroundTypeOK
<1>28. HandlerOK'
  <2>1. asking'[0].st = "none"
    BY <1>2 DEF IInv, HandlerOK, At
  <2> QED
    BY <1>6, <1>8, <2>1 DEF HandlerOK
<1> QED
  BY <1>19, <1>20, <1>21, <1>22, <1>23, <1>24, <1>25, <1>26, <1>27, <1>28 DEF IInv

(* The message the dispatch loop has in hand is the first one under way.   *)
LEMMA HandFirst ==
    ASSUME IInv, NEW k, InHand(k)
    PROVE  /\ k \in 1 .. next - 1 /\ k \in Nat /\ k \in DOMAIN Script /\ ~(k >= next)
           /\ Script[k].method = dispatcher.message.method /\ Script[k].id = dispatcher.message.id
           /\ ~In(queue, k) /\ ~InReader(k) /\ ~In(stdin, k)
           /\ \A j \in Nat : Waiting(j) => ~(j < k) /\ k <= j
<1>1. dispatcher.message \in Sent /\ dispatcher.message.at = k
  BY DEF IInv, HandShape, InHand
<1>2. /\ k \in 1 .. next - 1 /\ k \in Nat /\ k \in DOMAIN Script /\ ~(k >= next)
      /\ Script[k].method = dispatcher.message.method /\ Script[k].id = dispatcher.message.id
  <2>1. Waiting(k)
    BY DEF Waiting
  <2> QED
    BY <1>1, <2>1, SentFacts, WaitingSent DEF IInv
<1>3. ~(k < k) /\ \A j \in Nat : k = j \/ k < j => ~(j < k) /\ k <= j
  BY <1>2, SMT
<1>4. ~In(queue, k) /\ ~InReader(k) /\ ~In(stdin, k)
  BY <1>2, <1>3 DEF IInv, OrderOK
<1>5. \A j \in Nat : Waiting(j) => k = j \/ k < j
  BY <1>1, <1>2 DEF IInv, OrderOK, Waiting, InHand
<1> QED
  BY <1>2, <1>3, <1>4, <1>5

(* The text a request meets is that of the edits before it.                *)
LEMMA TextInHand ==
    ASSUME IInv, load.orderly, NEW k, InHand(k), Script[k].method # "edit"
    PROVE  text = EditsBefore(k)
<1>1. k \in 1 .. next - 1 /\ k \in Nat /\ \A j \in Nat : Waiting(j) => ~(j < k)
  BY HandFirst
<1>2. next \in Nat
  BY ScriptFacts DEF IInv
<1>3. PICK n : n = next
  OBVIOUS
<1>4. /\ \A j \in 1 .. k - 1 : j \in 1 .. n - 1 /\ j \in Nat /\ j < k
      /\ \A j \in 1 .. n - 1 : j <= k /\ j # k => j \in 1 .. k - 1
  BY <1>1, <1>2, <1>3, SMT
<1>5. Waiting(k)
  BY DEF Waiting
<1>6. ASSUME NEW j \in EditPlaces(k)
      PROVE  j \in Applied
  <2>1. j \in EditPlaces(next) /\ j \in Nat /\ j < k
    BY <1>3, <1>4 DEF EditPlaces
  <2>2. ~Due(j)
    BY <1>1, <2>1 DEF Due
  <2> QED
    BY <2>1, <2>2 DEF Applied
<1>7. ASSUME NEW j \in Applied
      PROVE  j \in EditPlaces(k)
  <2>1. j \in 1 .. next - 1 /\ Script[j].method = "edit"
    BY DEF Applied, EditPlaces
  <2>2. j <= k
    BY <1>1, <1>5 DEF IInv, EditsOK
  <2> QED
    BY <1>3, <1>4, <2>1, <2>2 DEF EditPlaces
<1>8. Applied = EditPlaces(k)
  BY <1>6, <1>7
<1> QED
  BY <1>8 DEF IInv, EditsOK, EditsBefore, EditPlaces

(* The dispatch loop goes on with the message in hand, or is done with it. *)
LEMMA HandMove ==
    ASSUME IInv, Grows, UNCHANGED <<pipe, text, session>>,
           \A k : InHand(k)' => InHand(k),
           \A k : InHand(k) /\ Script[k].method = "initialized" => session \/ InHand(k)',
           \A k : InHand(k) /\ Script[k].method = "edit" => dispatcher.ops = <<>> /\ (InHand(k)' => dispatcher'.ops = <<>>),
           crashed' => ~load.orderly
    PROVE  /\ InShape' /\ OrderOK' /\ SessionOK' /\ EditsOK'
           /\ \A k : Waiting(k)' <=> (Waiting(k) /\ (InHand(k) => InHand(k)'))
<1>1. UNCHANGED <<load, next, stdin, queue, reader, text, session>>
  BY DEF pipe
<1>2. InShape' /\ \A k : (InReader(k)' <=> InReader(k)) /\ (In(stdin, k)' <=> In(stdin, k)) /\ (In(queue, k)' <=> In(queue, k))
  BY <1>1, PipeFrame DEF IInv
<1>3. OrderOK'
  BY <1>1, OrderFrame DEF IInv
<1>4. \A k : InHand(k) => ~In(queue, k) /\ ~InReader(k) /\ ~In(stdin, k)
  BY HandFirst
<1>5. \A k : Waiting(k)' <=> (Waiting(k) /\ (InHand(k) => InHand(k)'))
  BY <1>2, <1>4 DEF Waiting
<1>6. SessionOK'
  <2>0. ~session' => ~session
    BY <1>1, SMT
  <2>1. ASSUME ~session', NEW k \in 1 .. next' - 1, Script'[k].method = "initialized"
        PROVE  Waiting(k)'
    <3>1. ~session /\ k \in 1 .. next - 1 /\ Script[k].method = "initialized"
      BY <1>1, <2>0, <2>1 DEF Script
    <3>2. Waiting(k)
      BY <3>1 DEF IInv, SessionOK
    <3> QED
      BY <1>5, <3>1, <3>2
  <2>2. ~session' => load'.cold
    BY <1>1, <2>0 DEF IInv, SessionOK
  <2>3. crashed' => ~load'.orderly
    BY <1>1
  <2> QED
    BY <2>1, <2>2, <2>3 DEF SessionOK
<1>7. EditsOK'
  <2>1. ASSUME NEW k \in 1 .. next - 1, Script[k].method = "edit"
        PROVE  Due(k)' <=> Due(k)
    <3>1. CASE InHand(k)
      BY <1>5, <2>1, <3>1 DEF Due
    <3>2. CASE ~InHand(k)
      BY <1>5, <3>2 DEF Due
    <3> QED
      BY <3>1, <3>2
  <2> QED
    BY <1>1, <1>5, <2>1, EditsFrame DEF IInv
<1> QED
  BY <1>2, <1>3, <1>5, <1>6, <1>7

Hands == [st : {"select", "handle", "reply", "remove", "stopped"}, message : Sent \cup {Idle},
          ops : Seq(Ops), failed : BOOLEAN, body : Bodies]

(* The dispatch loop between two messages.                                 *)
LEMMA SelectingFacts ==
    /\ Selecting \in Hands /\ Selecting.st = "select" /\ Selecting.ops = <<>>
    /\ [Selecting EXCEPT !.st = "stopped"] \in Hands /\ [Selecting EXCEPT !.st = "stopped"].st = "stopped"
<1>1. <<>> \in Seq(Ops)
  BY SMT
<1>2. Selecting \in Hands /\ Selecting.st = "select" /\ Selecting.ops = <<>>
  BY <1>1 DEF Selecting, Hands, Bodies
<1> QED
  BY <1>2 DEF Hands

(* A call of the client is under way only while a handler waits for it.    *)
LEMMA HandlerIdle ==
    ASSUME IInv, asking' = asking, dispatcher.st # "handle" \/ dispatcher.ops = <<>>,
           dispatcher'.st # "handle" \/ UNCHANGED <<dispatcher, session>>
    PROVE  HandlerOK'
<1>1. asking[0].st = "none"
  BY DEF IInv, HandlerOK, At
<1>2. CASE dispatcher'.st # "handle"
  BY <1>1, <1>2 DEF HandlerOK
<1>3. CASE UNCHANGED <<dispatcher, session>>
  BY <1>3, HandlerFrame DEF IInv
<1> QED
  BY <1>2, <1>3

(* dispatchLoop ends with its context.                                     *)
LEMMA StepDispatchStops ==
    ASSUME IInv, DispatchStops
    PROVE  IInv'
<1>1. /\ UNCHANGED <<load, next, stdin, queue, reader, text, session, exiting, crashed, canceled>>
      /\ UNCHANGED <<pending, asked, answers, asking, channels, pendingServer, work, outgoing, background>>
      /\ dispatcher.st = "select" /\ ended' = TRUE /\ dispatcher' = [Selecting EXCEPT !.st = "stopped"]
  BY DEF DispatchStops, client, loops, calls
<1>2. Grows
  BY <1>1, GrowsSame
<1>3. dispatcher' \in Hands /\ dispatcher'.st = "stopped"
  BY <1>1, SelectingFacts
<1>4. \A k : ~InHand(k) /\ ~InHand(k)'
  BY <1>1, <1>3 DEF InHand
<1>5. /\ InShape' /\ OrderOK' /\ SessionOK' /\ EditsOK'
      /\ \A k : Waiting(k)' <=> (Waiting(k) /\ (InHand(k) => InHand(k)'))
  <2>1. crashed' => ~load.orderly
    BY <1>1 DEF IInv, SessionOK
  <2> QED
    BY <1>1, <1>2, <1>4, <2>1, HandMove DEF pipe
<1>6. HandShape'
  <2>1. Sent' = Sent
    BY <1>1, SentSame
  <2> QED
    BY <1>1, <1>3, <2>1 DEF IInv, HandShape, Hands
<1>7. CancelOK'
  BY <1>1, <1>2, <1>3, CancelFrame DEF IInv
<1>8. HandlerOK'
  BY <1>1, <1>3, HandlerIdle
<1>9. OutShape' /\ \A i : Queued(i)' = Queued(i) /\ Given(i)' = Given(i)
  BY <1>1, <1>2, OutFrame DEF IInv
<1>10. \A i \in Ids : AnswerOK(i)'
  BY <1>1, <1>2, <1>5, <1>9, QuietAnswers
<1>11. ChannelsOK' /\ BackgroundTypeOK'
  BY <1>1, CallsFrame, BackgroundFrame DEF IInv
<1> QED
  BY <1>5, <1>6, <1>7, <1>8, <1>9, <1>10, <1>11 DEF IInv

(* dispatchLoop removes an answered request from the pending ones.         *)
LEMMA StepDispatchRemoves ==
    ASSUME IInv, DispatchRemoves
    PROVE  IInv'
<1>1. /\ UNCHANGED <<load, next, stdin, queue, reader, text, session, exiting, crashed, canceled>>
      /\ UNCHANGED <<asked, answers, asking, channels, pendingServer, work, outgoing, ended, background>>
      /\ dispatcher.st = "remove" /\ dispatcher' = Selecting /\ pending' \in SUBSET pending
  BY DEF DispatchRemoves, client, calls
<1>2. Grows
  BY <1>1, GrowsSame
<1>3. dispatcher' \in Hands /\ dispatcher'.st = "select"
  BY <1>1, SelectingFacts
<1>4. \A k : ~InHand(k) /\ ~InHand(k)'
  BY <1>1, <1>3 DEF InHand
<1>5. /\ InShape' /\ OrderOK' /\ SessionOK' /\ EditsOK'
      /\ \A k : Waiting(k)' <=> (Waiting(k) /\ (InHand(k) => InHand(k)'))
  <2>1. crashed' => ~load.orderly
    BY <1>1 DEF IInv, SessionOK
  <2> QED
    BY <1>1, <1>2, <1>4, <2>1, HandMove DEF pipe
<1>6. HandShape'
  <2>1. Sent' = Sent
    BY <1>1, SentSame
  <2> QED
    BY <1>1, <1>3, <2>1 DEF IInv, HandShape, Hands
<1>7. CancelOK'
  BY <1>1, <1>2, <1>3, CancelFrame DEF IInv
<1>8. HandlerOK'
  BY <1>1, <1>3, HandlerIdle
<1>9. OutShape' /\ \A i : Queued(i)' = Queued(i) /\ Given(i)' = Given(i)
  BY <1>1, <1>2, OutFrame DEF IInv
<1>10. \A i \in Ids : AnswerOK(i)'
  BY <1>1, <1>2, <1>5, <1>9, QuietAnswers
<1>11. ChannelsOK' /\ BackgroundTypeOK'
  BY <1>1, CallsFrame, BackgroundFrame DEF IInv, BackgroundTypeOK
<1> QED
  BY <1>5, <1>6, <1>7, <1>8, <1>9, <1>10, <1>11 DEF IInv

(* What the dispatch loop does after a handler.                            *)
LEMMA FinishFacts ==
    ASSUME HandShape, NEW st \in {"reply", "remove"}, NEW body \in Bodies, Finish(st, body), next' = next, load' = load
    PROVE  /\ dispatcher' \in Hands /\ dispatcher' \in Hands' /\ dispatcher'.st = st /\ dispatcher'.body = body
           /\ dispatcher'.message = dispatcher.message /\ dispatcher'.ops = dispatcher.ops
<1>1. dispatcher \in Hands
  BY DEF HandShape, Hands
<1>2. dispatcher' = [dispatcher EXCEPT !.st = st, !.body = body]
  BY DEF Finish
<1>3. /\ dispatcher' \in Hands /\ dispatcher'.st = st /\ dispatcher'.body = body
      /\ dispatcher'.message = dispatcher.message /\ dispatcher'.ops = dispatcher.ops
  BY <1>1, <1>2 DEF Hands
<1>4. Hands' = Hands
  BY SentSame DEF Hands
<1> QED
  BY <1>3, <1>4

(* A handler returns: its request is to be answered with its result or     *)
(* error.                                                                  *)
LEMMA StepHandleEnd ==
    ASSUME IInv, HandleEnd
    PROVE  IInv'
<1>1. /\ UNCHANGED <<load, next, stdin, queue, reader, text, session, exiting, crashed, canceled>>
      /\ UNCHANGED <<pending, asked, answers, asking, channels, pendingServer, work, outgoing, ended, background>>
      /\ dispatcher.st = "handle" /\ dispatcher.ops = <<>>
  BY DEF HandleEnd, client, loops, calls
<1>2. Grows
  BY <1>1, GrowsSame
<1>3. HandShape /\ dispatcher.message \in Sent
  BY <1>1 DEF IInv, HandShape
<1>4. \/ dispatcher' = Selecting
      \/ /\ dispatcher.message.method \in Requests
         /\ \E body \in {"error", "result", "cancelled"} :
               Finish("reply", body) /\ (body = "cancelled" => Done(dispatcher.message.id))
  BY DEF HandleEnd
<1>5. /\ dispatcher' \in Hands' /\ dispatcher'.st \in {"select", "reply"} /\ dispatcher'.ops = <<>>
      /\ dispatcher'.st = "reply" =>
            /\ dispatcher'.message = dispatcher.message /\ dispatcher.message.method \in Requests
            /\ dispatcher'.body = "cancelled" => Done(dispatcher.message.id)
  <2>1. CASE dispatcher' = Selecting
    <3>1. Hands' = Hands
      BY <1>1, SentSame DEF Hands
    <3> QED
      BY <2>1, <3>1, SelectingFacts
  <2>2. ASSUME NEW body \in {"error", "result", "cancelled"}, Finish("reply", body)
        PROVE  /\ dispatcher' \in Hands' /\ dispatcher'.st = "reply" /\ dispatcher'.ops = <<>>
               /\ dispatcher'.message = dispatcher.message /\ dispatcher'.body = body
    <3>1. body \in Bodies
      BY DEF Bodies
    <3> QED
      BY <1>1, <1>3, <2>2, <3>1, FinishFacts
  <2> QED
    BY <1>4, <2>1, <2>2
<1>6. \A k : InHand(k)' => InHand(k)
  BY <1>1, <1>5 DEF InHand
<1>7. /\ InShape' /\ OrderOK' /\ SessionOK' /\ EditsOK'
      /\ \A k : Waiting(k)' <=> (Waiting(k) /\ (InHand(k) => InHand(k)'))
  <2>1. crashed' => ~load.orderly
    BY <1>1 DEF IInv, SessionOK
  <2>2. \A k : InHand(k) /\ Script[k].method = "initialized" => session
    BY <1>1, HandFirst DEF IInv, HandlerOK
  <2> QED
    BY <1>1, <1>2, <1>5, <1>6, <2>1, <2>2, HandMove DEF pipe
<1>8. HandShape'
  <2>1. Sent' = Sent
    BY <1>1, SentSame
  <2> QED
    BY <1>1, <1>3, <1>5, <2>1 DEF HandShape, Hands
<1>9. CancelOK'
  <2>1. \A id : Done(id) => Excused(id)
    BY DEF IInv, CancelOK, Done, Excused
  <2> QED
    BY <1>1, <1>2, <1>5, <2>1, CancelFrame DEF IInv
<1>10. HandlerOK'
  BY <1>1, <1>5, HandlerIdle
<1>11. OutShape' /\ \A i : Queued(i)' = Queued(i) /\ Given(i)' = Given(i)
  BY <1>1, <1>2, OutFrame DEF IInv
<1>12. \A i \in Ids : AnswerOK(i)'
  BY <1>1, <1>2, <1>7, <1>11, QuietAnswers
<1>13. ChannelsOK' /\ BackgroundTypeOK'
  BY <1>1, CallsFrame, BackgroundFrame DEF IInv, BackgroundTypeOK
<1> QED
  BY <1>7, <1>8, <1>9, <1>10, <1>11, <1>12, <1>13 DEF IInv

Goroutines == [st : {"none", "run", "end", "reply", "remove", "done"}, method : {"none"} \cup Documents, text : Nat, body : Bodies]

(* A document handler takes its view of the text and starts a goroutine;   *)
(* its request is the oldest on its way, so every earlier edit was         *)
(* applied.                                                                *)
LEMMA StepHandleDocument ==
    ASSUME IInv, HandleDocument
    PROVE  IInv'
<1>1. /\ UNCHANGED <<load, next, stdin, queue, reader, text, session, exiting, canceled, pending>>
      /\ UNCHANGED <<asked, answers, asking, channels, pendingServer, outgoing, ended, background>>
      /\ dispatcher.st = "handle" /\ dispatcher.message.method \in Documents /\ crashed' = ~session
  BY DEF HandleDocument, client, loops, calls
<1>2. Grows
  BY <1>1, GrowsSame
<1>3. PICK m, id, k : m = dispatcher.message /\ id = m.id /\ k = m.at
  OBVIOUS
<1>4. /\ HandShape /\ m \in Sent /\ InHand(k) /\ dispatcher.ops = <<>> /\ m.method \in Documents
  BY <1>1, <1>3 DEF IInv, HandShape, InHand, HandlerOK
<1>5. /\ k \in 1 .. next - 1 /\ k \in Nat /\ k \in DOMAIN Script /\ ~(k >= next)
      /\ Script[k].method = m.method /\ Script[k].id = id /\ Waiting(k)
      /\ \A j \in Nat : Waiting(j) => ~(j < k)
  BY <1>3, <1>4, HandFirst DEF Waiting
<1>6. id \in Ids /\ IsRequest(k, id)
  BY <1>3, <1>4, SentFacts, MethodFacts DEF IInv
<1>7. load.orderly => session
  <2>1. Script[k].method \in Documents \cup {"edit"}
    BY <1>4, <1>5
  <2> QED
    BY <1>5, <2>1, FirstHasSession
<1>8. m.method # "edit" /\ m.method # "initialized" /\ m.method \in Requests
  BY <1>4, MethodFacts DEF Documents
<1>9. PICK g : g = [work[id] EXCEPT !.st = "run", !.text = text, !.method = m.method]
  OBVIOUS
<1>10. \/ work' = work /\ Finish("reply", "error")
       \/ work' = [work EXCEPT ![id] = g] /\ dispatcher' = Selecting
       \/ UNCHANGED <<work, dispatcher>>
  <2>1. [work EXCEPT ![id] = [@ EXCEPT !.st = "run", !.text = text, !.method = m.method]] = [work EXCEPT ![id] = g]
    BY <1>9
  <2> QED
    BY <1>3, <2>1 DEF HandleDocument
<1>11. Hands' = Hands /\ Sent' = Sent
  BY <1>1, SentSame DEF Hands
<1>12. /\ dispatcher' \in Hands'
       /\ \/ dispatcher'.st = "reply" /\ dispatcher'.message = m /\ dispatcher'.body = "error" /\ work' = work
          \/ dispatcher'.st = "select" /\ work' = [work EXCEPT ![id] = g]
          \/ UNCHANGED <<dispatcher, work>>
  <2>1. "error" \in Bodies
    BY DEF Bodies
  <2>2. CASE work' = work /\ Finish("reply", "error")
    BY <1>1, <1>3, <1>4, <2>1, <2>2, FinishFacts
  <2>3. CASE work' = [work EXCEPT ![id] = g] /\ dispatcher' = Selecting
    BY <1>11, <2>3, SelectingFacts
  <2>4. CASE UNCHANGED <<work, dispatcher>>
    BY <1>4, <1>11, <2>4 DEF HandShape, Hands
  <2> QED
    BY <1>10, <2>2, <2>3, <2>4
<1>13. \A j : InHand(j) <=> j = k
  BY <1>1, <1>3 DEF InHand
<1>14. \A j : InHand(j)' => InHand(j)
  BY <1>1, <1>3, <1>12 DEF InHand
<1>15. /\ InShape' /\ OrderOK' /\ SessionOK' /\ EditsOK'
       /\ \A j : Waiting(j)' <=> (Waiting(j) /\ (InHand(j) => InHand(j)'))
  <2>1. crashed' => ~load.orderly
    BY <1>1, <1>7
  <2>2. \A j : InHand(j) => Script[j].method # "initialized" /\ Script[j].method # "edit"
    BY <1>5, <1>8, <1>13
  <2> QED
    BY <1>1, <1>2, <1>14, <2>1, <2>2, HandMove DEF pipe
<1>16. HandShape'
  <2>1. session \in BOOLEAN /\ exiting \in BOOLEAN /\ text \in Nat
    BY <1>4 DEF HandShape
  <2>2. crashed' \in BOOLEAN
    BY <1>1
  <2>3. dispatcher'.st \in {"handle", "reply", "remove"} => dispatcher'.message \in Sent'
    BY <1>3, <1>4, <1>11, <1>12
  <2>4. dispatcher'.st \in {"reply", "remove"} => dispatcher'.message.method \in Requests
    BY <1>1, <1>8, <1>12
  <2>5. session' \in BOOLEAN /\ exiting' \in BOOLEAN /\ text' \in Nat
    BY <1>1, <2>1
  <2> QED
    BY <1>12, <2>2, <2>3, <2>4, <2>5 DEF HandShape, Hands
<1>17. CancelOK'
  <2>1. dispatcher'.st = "reply" => dispatcher'.body = "error"
    BY <1>1, <1>12
  <2> QED
    BY <1>1, <1>2, <2>1, CancelFrame DEF IInv
<1>18. HandlerOK'
  BY <1>1, <1>4, <1>12, HandlerIdle
<1>19. ChannelsOK' /\ BackgroundTypeOK'
  BY <1>1, CallsFrame, BackgroundFrame DEF IInv, BackgroundTypeOK
<1>20. work \in [Ids -> Goroutines] /\ text \in Nat
  BY <1>4 DEF IInv, OutShape, Goroutines, HandShape
<1>21. /\ g \in Goroutines /\ g.st = "run" /\ g.text = text
  BY <1>4, <1>6, <1>9, <1>20 DEF Goroutines
<1>22. OutShape' /\ \A i : Queued(i)' = Queued(i) /\ Given(i)' = Given(i)
  <2>1. outgoing' \in Seq(Outputs') /\ answers' \in [Ids -> Seq(Outputs')]
    BY <1>1, <1>2, Carried DEF IInv, OutShape
  <2>2. work' \in [Ids -> Goroutines]
    BY <1>12, <1>20, <1>21
  <2>3. OutShape'
    BY <1>1, <2>1, <2>2 DEF IInv, OutShape, Goroutines
  <2> QED
    BY <1>1, <2>3 DEF Queued, Given
<1>23. ASSUME NEW i \in Ids, work'[i] = work[i]
       PROVE  AnswerOK(i)'
  BY <1>1, <1>2, <1>15, <1>22, <1>23, AnswerFrame DEF IInv
<1>24. ASSUME work'[id] # work[id]
       PROVE  AnswerOK(id)'
  <2>1. dispatcher'.st = "select" /\ work' = [work EXCEPT ![id] = g]
    BY <1>12, <1>24
  <2>2. work'[id] = g
    BY <1>6, <1>20, <2>1
  <2>3. AnswerOK(id) /\ Unused(id)
    BY <1>5, <1>6 DEF IInv, AnswerOK
  <2>4. Unused(id)'
    BY <1>1, <1>22, <2>3 DEF Unused
  <2>5. Given(id)' = {} /\ Queued(id)' = {} /\ answers'[id] = <<>> /\ Len(answers'[id]) <= 1
    <3>1. DOMAIN <<>> = {} /\ Len(<<>>) <= 1
      BY SMT
    <3> QED
      BY <2>4, <3>1 DEF Unused, Given
  <2>6. Script' = Script /\ load' = load /\ next' = next
    BY <1>1 DEF Script
  <2>7. ASSUME NEW j \in DOMAIN Script, IsRequest(j, id)
        PROVE  j = k /\ ~(Waiting(j)') /\ ~(j >= next') /\ (load.orderly => g.text = EditsBefore(j)')
    <3>1. j = k
      BY <1>5, <1>6, <2>7, OneRequest DEF IInv
    <3>2. ~InHand(k)'
      BY <2>1 DEF InHand
    <3>3. load.orderly => text = EditsBefore(k)
      BY <1>4, <1>5, <1>8, TextInHand
    <3>4. EditsBefore(k)' = EditsBefore(k)
      BY <2>6 DEF EditsBefore
    <3> QED
      BY <1>4, <1>5, <1>15, <1>21, <2>6, <3>1, <3>2, <3>3, <3>4
  <2>8. \A j : IsRequest(j, id)' <=> IsRequest(j, id)
    BY <2>6 DEF IsRequest
  <2>9. Known(id)'
    BY <1>2, <1>5, <1>6, KnownSame DEF Known
  <2> QED
    BY <1>21, <2>2, <2>4, <2>5, <2>6, <2>7, <2>8, <2>9 DEF AnswerOK
<1>25. \A i \in Ids : i # id => work'[i] = work[i]
  BY <1>12, <1>20
<1>26. \A i \in Ids : AnswerOK(i)'
  BY <1>23, <1>24, <1>25
<1> QED
  BY <1>15, <1>16, <1>17, <1>18, <1>19, <1>22, <1>26 DEF IInv

----------------------------------------------------------------------------
(* Steps that answer *)

(* An answer is put into the queue of a request that has none.             *)
LEMMA SendAnswer ==
    ASSUME OutShape, Grows, NEW e \in Outputs, e.to = "answer", Len(outgoing) < OutCap,
           outgoing' = Append(outgoing, e), answers' = answers, work' \in [Ids -> Goroutines]
    PROVE  /\ OutShape'
           /\ \A i : i # e.id => Queued(i)' = Queued(i) /\ Given(i)' = Given(i)
           /\ Unused(e.id) => Given(e.id)' = {e} /\ \A a, b \in Queued(e.id)' : a = b
<1>1. outgoing \in Seq(Outputs') /\ answers' \in [Ids -> Seq(Outputs')] /\ e \in Outputs'
  BY Carried, SentGrows DEF OutShape
<1>2. PICK s, t, O, n : s = outgoing /\ t = outgoing' /\ O = Outputs' /\ n = Len(outgoing) + 1
  OBVIOUS
<1>3. /\ t \in Seq(O) /\ Len(t) = n /\ DOMAIN t = DOMAIN s \cup {n} /\ t[n] = e
      /\ \A i \in DOMAIN s : t[i] = s[i]
  <2>1. s \in Seq(O) /\ e \in O /\ t = Append(s, e) /\ n = Len(s) + 1
    BY <1>1, <1>2
  <2> QED
    BY <2>1, SMT
<1>4. n <= OutCap
  <2>1. s \in Seq(O) /\ n = Len(s) + 1 /\ Len(s) < OutCap /\ OutCap \in Nat
    BY <1>1, <1>2, ServerAssumption
  <2> QED
    BY <2>1, SMT
<1>5. OutShape'
  BY <1>1, <1>2, <1>3, <1>4 DEF OutShape, Goroutines
<1>6. ASSUME NEW i, i # e.id
      PROVE  Queued(i)' = Queued(i) /\ Given(i)' = Given(i)
  <2>1. Queued(i)' = Queued(i)
    BY <1>2, <1>3, <1>6 DEF Queued
  <2>2. \A k \in Queued(i) : outgoing'[k] = outgoing[k]
    BY <1>2, <1>3 DEF Queued
  <2> QED
    BY <2>1, <2>2 DEF Given
<1>7. ASSUME Unused(e.id)
      PROVE  Given(e.id)' = {e} /\ \A a, b \in Queued(e.id)' : a = b
  <2>1. Queued(e.id) = {} /\ answers'[e.id] = <<>>
    BY <1>7 DEF Unused
  <2>2. Queued(e.id)' = {n}
    BY <1>2, <1>3, <2>1 DEF Queued
  <2>3. DOMAIN <<>> = {}
    BY SMT
  <2>4. Given(e.id)' = {e}
    <3>1. {outgoing'[k] : k \in Queued(e.id)'} = {e}
      <4>1. outgoing'[n] = e
        BY <1>2, <1>3
      <4> QED
        BY <2>2, <4>1
    <3>2. {answers'[e.id][k] : k \in DOMAIN answers'[e.id]} = {}
      BY <2>1, <2>3
    <3> QED
      BY <3>1, <3>2 DEF Given
  <2> QED
    BY <2>2, <2>4
<1> QED
  BY <1>5, <1>6, <1>7

(* A request that had no answer has this one.                              *)
LEMMA AnswerGiven ==
    ASSUME Grows, NEW id \in Ids, AnswerOK(id), Unused(id), Known(id), answers' = answers,
           NEW e, Given(id)' = {e}, \A a, b \in Queued(id)' : a = b,
           work'[id].st \notin {"run", "end", "reply"},
           work'[id].st # "none" => work[id].st # "none" /\ work'[id].text = work[id].text,
           \A k \in DOMAIN Script : IsRequest(k, id) =>
               ~(Waiting(k)') /\ ~(k >= next') /\ (load.orderly /\ e.body = "result" => e.text = EditsBefore(k)),
           e.body = "cancelled" => Excused(id)
    PROVE  AnswerOK(id)'
<1>1. Excused(id) => Excused(id)'
  BY SentGrows
<1>2. Script' = Script /\ load' = load
  BY DEF Script, Grows
<1>3. \A k : (IsRequest(k, id)' <=> IsRequest(k, id)) /\ EditsBefore(k)' = EditsBefore(k)
  BY <1>2 DEF IsRequest, EditsBefore
<1>4. answers'[id] = <<>> /\ Len(answers'[id]) <= 1
  <2>1. Len(<<>>) <= 1
    BY SMT
  <2> QED
    BY <2>1 DEF Unused
<1>5. ASSUME NEW k \in DOMAIN Script', IsRequest(k, id)'
      PROVE  /\ ~(Waiting(k)' \/ k >= next')
             /\ load'.orderly /\ work'[id].st # "none" => work'[id].text = EditsBefore(k)'
             /\ load'.orderly => \A a \in Given(id)' : a.body = "result" => a.text = EditsBefore(k)'
  <2>1. k \in DOMAIN Script /\ IsRequest(k, id)
    BY <1>2, <1>3, <1>5
  <2>2. load.orderly /\ work[id].st # "none" => work[id].text = EditsBefore(k)
    BY <2>1 DEF AnswerOK
  <2> QED
    BY <1>2, <1>3, <2>1, <2>2
<1> QED
  BY <1>1, <1>4, <1>5, KnownSame DEF AnswerOK

(* dispatchLoop answers the request at hand.                               *)
LEMMA StepDispatchAnswers ==
    ASSUME IInv, DispatchAnswers
    PROVE  IInv'
<1>1. /\ UNCHANGED <<load, next, stdin, queue, reader, text, session, exiting, crashed, canceled, pending>>
      /\ UNCHANGED <<asked, answers, asking, channels, pendingServer, work, ended, background>>
      /\ dispatcher.st = "reply" /\ Finish("remove", "none")
  BY DEF DispatchAnswers, client, loops, calls
<1>2. Grows
  BY <1>1, GrowsSame
<1>3. PICK m, id, k, e : m = dispatcher.message /\ id = m.id /\ k = m.at /\ e = Answer(id, dispatcher.body, text)
  OBVIOUS
<1>4. HandShape /\ m \in Sent /\ m.method \in Requests /\ InHand(k) /\ Waiting(k)
  BY <1>1, <1>3 DEF IInv, HandShape, InHand, Waiting
<1>5. /\ k \in 1 .. next - 1 /\ k \in Nat /\ k \in DOMAIN Script /\ ~(k >= next)
      /\ Script[k].method = m.method /\ Script[k].id = id
  BY <1>3, <1>4, HandFirst
<1>6. id \in Ids /\ IsRequest(k, id) /\ Known(id) /\ Unused(id) /\ work[id].st = "none"
  <2>1. id \in Ids /\ IsRequest(k, id)
    BY <1>3, <1>4, SentFacts DEF IInv
  <2> QED
    BY <1>4, <1>5, <2>1 DEF IInv, AnswerOK, Known
<1>7. m.method # "edit" /\ m.method # "initialized"
  BY <1>4, MethodFacts
<1>8. /\ dispatcher' \in Hands' /\ dispatcher'.st = "remove" /\ dispatcher'.message = m
  <2>1. "none" \in Bodies
    BY DEF Bodies
  <2> QED
    BY <1>1, <1>3, <1>4, <2>1, FinishFacts
<1>9. (\A j : InHand(j) <=> j = k) /\ (\A j : ~InHand(j)')
  BY <1>1, <1>3, <1>8 DEF InHand
<1>10. /\ InShape' /\ OrderOK' /\ SessionOK' /\ EditsOK'
       /\ \A j : Waiting(j)' <=> (Waiting(j) /\ (InHand(j) => InHand(j)'))
  <2>1. crashed' => ~load.orderly
    BY <1>1 DEF IInv, SessionOK
  <2>2. \A j : InHand(j) => Script[j].method # "initialized" /\ Script[j].method # "edit"
    BY <1>5, <1>7, <1>9
  <2> QED
    BY <1>1, <1>2, <1>9, <2>1, <2>2, HandMove DEF pipe
<1>11. HandShape'
  <2>1. Sent' = Sent
    BY <1>1, SentSame
  <2> QED
    BY <1>1, <1>4, <1>8, <2>1 DEF HandShape, Hands
<1>12. CancelOK'
  BY <1>1, <1>2, <1>8, CancelFrame DEF IInv
<1>13. HandlerOK'
  BY <1>1, <1>8, HandlerIdle
<1>14. ChannelsOK' /\ BackgroundTypeOK'
  BY <1>1, CallsFrame, BackgroundFrame DEF IInv, BackgroundTypeOK
<1>15. CASE outgoing' = outgoing
  <2>1. OutShape' /\ \A i : Queued(i)' = Queued(i) /\ Given(i)' = Given(i)
    BY <1>1, <1>2, <1>15, OutFrame DEF IInv
  <2>2. \A i \in Ids : AnswerOK(i)'
    BY <1>1, <1>2, <1>10, <2>1, QuietAnswers
  <2> QED
    BY <1>10, <1>11, <1>12, <1>13, <1>14, <2>1, <2>2 DEF IInv
<1>16. CASE Len(outgoing) < OutCap /\ outgoing' = Append(outgoing, e)
  <2>1. OutShape /\ work' \in [Ids -> Goroutines]
    BY <1>1 DEF IInv, OutShape, Goroutines
  <2>2. e = [to |-> "answer", id |-> id, body |-> dispatcher.body, text |-> text] /\ dispatcher.body \in Bodies /\ text \in Nat
    BY <1>3, <1>4 DEF Answer, HandShape
  <2>3. e \in Outputs /\ e.to = "answer" /\ e.id = id /\ e.body = dispatcher.body /\ e.text = text
    BY <1>6, <2>2 DEF Outputs
  <2>4. /\ OutShape'
        /\ \A i : i # id => Queued(i)' = Queued(i) /\ Given(i)' = Given(i)
        /\ Given(id)' = {e} /\ \A a, b \in Queued(id)' : a = b
    BY <1>1, <1>2, <1>6, <1>16, <2>1, <2>3, SendAnswer
  <2>5. ASSUME NEW i \in Ids, i # id
        PROVE  AnswerOK(i)'
    BY <1>1, <1>2, <1>10, <2>4, <2>5, AnswerFrame DEF IInv
  <2>6. AnswerOK(id)'
    <3>1. AnswerOK(id)
      BY <1>6 DEF IInv
    <3>2. work'[id].st = "none"
      BY <1>1, <1>6
    <3>3. ASSUME NEW j \in DOMAIN Script, IsRequest(j, id)
          PROVE  ~(Waiting(j)') /\ ~(j >= next') /\ (load.orderly => e.text = EditsBefore(j))
      <4>1. j = k
        BY <1>5, <1>6, <3>3, OneRequest DEF IInv
      <4>2. load.orderly => text = EditsBefore(k)
        BY <1>4, <1>5, <1>7, TextInHand
      <4> QED
        BY <1>1, <1>5, <1>9, <1>10, <2>3, <4>1, <4>2
    <3>4. e.body = "cancelled" => Excused(id)
      BY <1>1, <1>3, <2>3 DEF IInv, CancelOK
    <3> QED
      BY <1>1, <1>2, <1>6, <2>4, <3>1, <3>2, <3>3, <3>4, AnswerGiven
  <2>7. \A i \in Ids : AnswerOK(i)'
    BY <2>5, <2>6
  <2> QED
    BY <1>10, <1>11, <1>12, <1>13, <1>14, <2>4, <2>7 DEF IInv
<1> QED
  BY <1>3, <1>15, <1>16 DEF DispatchAnswers, Send

(* readLoop answers a request it refuses.                                  *)
LEMMA StepReadAnswers ==
    ASSUME IInv, ReadAnswers
    PROVE  IInv'
<1>1. /\ UNCHANGED <<load, next, stdin, queue, dispatcher, text, session, exiting, crashed, canceled, pending>>
      /\ UNCHANGED <<asked, answers, asking, channels, pendingServer, work, ended, background>>
      /\ reader.st = "reply"
  BY DEF ReadAnswers, client, handling, calls
<1>2. Grows
  BY <1>1, GrowsSame
<1>3. PICK m, id, k, e : m = reader.message /\ id = m.id /\ k = m.at /\ e = Answer(id, reader.body, 0)
  OBVIOUS
<1>4. PICK st \in {"read", "stopped"} : reader' = [st |-> st, message |-> Idle, body |-> "none"]
  BY DEF ReadAnswers, ReadTo
<1>5. reader'.st = st /\ reader'.body = "none" /\ st # "push" /\ st # "reply"
  BY <1>4, SMT
<1>6. m \in Sent /\ m.method \in Requests /\ InReader(k) /\ Waiting(k)
  BY <1>1, <1>3 DEF IInv, InShape, InReader, Waiting
<1>7. /\ k \in 1 .. next - 1 /\ k \in Nat /\ k \in DOMAIN Script /\ ~(k >= next) /\ ~(k < k)
      /\ Script[k].method = m.method /\ Script[k].id = id /\ id \in Ids /\ IsRequest(k, id)
  <2>1. /\ k \in 1 .. next - 1 /\ k \in Nat /\ k \in DOMAIN Script /\ ~(k >= next)
        /\ Script[k].method = m.method /\ Script[k].id = id /\ id \in Ids /\ IsRequest(k, id)
    BY <1>3, <1>6, SentFacts, WaitingSent DEF IInv
  <2>2. ~(k < k)
    BY <2>1, SMT
  <2> QED
    BY <2>1, <2>2
<1>8. Known(id) /\ Unused(id) /\ work[id].st = "none"
  BY <1>6, <1>7 DEF IInv, AnswerOK, Known
<1>9. \A j : /\ (In(queue, j)' <=> In(queue, j)) /\ (In(stdin, j)' <=> In(stdin, j)) /\ (InHand(j)' <=> InHand(j))
             /\ (InReader(j) <=> j = k) /\ ~InReader(j)'
  BY <1>1, <1>3, <1>5 DEF In, InHand, InReader
<1>10. ~InHand(k) /\ ~In(queue, k) /\ ~In(stdin, k)
  BY <1>6, <1>7 DEF IInv, OrderOK
<1>11. \A j : Waiting(j)' <=> (Waiting(j) /\ j # k)
  BY <1>9, <1>10 DEF Waiting
<1>12. InShape'
  <2>1. Sent' = Sent /\ Responses' = Responses /\ Script' = Script
    BY <1>1, SentSame DEF Script
  <2>2. reader' \in [st : {"read", "push", "reply", "stopped"}, message : Sent' \cup {Idle}, body : Bodies]
    BY <1>4 DEF Bodies
  <2> QED
    BY <1>1, <1>5, <2>1, <2>2 DEF IInv, InShape
<1>13. OrderOK'
  <2>1. Ordered(stdin)' /\ Ordered(queue)'
    BY <1>1 DEF IInv, OrderOK, Ordered
  <2> QED
    BY <1>9, <2>1 DEF IInv, OrderOK
<1>14. HandShape' /\ SessionOK' /\ HandlerOK' /\ EditsOK'
  <2>1. \A j \in 1 .. next - 1 : Waiting(j) /\ Script[j].method \in {"initialized", "edit"} => Waiting(j)'
    BY <1>6, <1>7, <1>11, MethodFacts
  <2> QED
    BY <1>1, <1>2, <1>11, <2>1, PipeHand DEF hand
<1>15. CancelOK' /\ ChannelsOK' /\ BackgroundTypeOK'
  BY <1>1, <1>2, CancelSame, CallsFrame, BackgroundFrame DEF IInv, BackgroundTypeOK
<1>16. CASE outgoing' = outgoing
  <2>1. OutShape' /\ \A i : Queued(i)' = Queued(i) /\ Given(i)' = Given(i)
    BY <1>1, <1>2, <1>16, OutFrame DEF IInv
  <2>2. \A i \in Ids : AnswerOK(i)'
    BY <1>1, <1>2, <1>11, <2>1, QuietAnswers
  <2> QED
    BY <1>12, <1>13, <1>14, <1>15, <2>1, <2>2 DEF IInv
<1>17. CASE Len(outgoing) < OutCap /\ outgoing' = Append(outgoing, e)
  <2>1. OutShape /\ work' \in [Ids -> Goroutines]
    BY <1>1 DEF IInv, OutShape, Goroutines
  <2>2. e = [to |-> "answer", id |-> id, body |-> reader.body, text |-> 0] /\ reader.body \in Bodies
    BY <1>3 DEF Answer, IInv, InShape
  <2>3. e \in Outputs /\ e.to = "answer" /\ e.id = id /\ e.body = reader.body
    <3>1. 0 \in Nat
      BY SMT
    <3> QED
      BY <1>7, <2>2, <3>1 DEF Outputs
  <2>4. /\ OutShape'
        /\ \A i : i # id => Queued(i)' = Queued(i) /\ Given(i)' = Given(i)
        /\ Given(id)' = {e} /\ \A a, b \in Queued(id)' : a = b
    BY <1>1, <1>2, <1>8, <1>17, <2>1, <2>3, SendAnswer
  <2>5. ASSUME NEW i \in Ids, i # id
        PROVE  AnswerOK(i)'
    BY <1>1, <1>2, <1>11, <2>4, <2>5, AnswerFrame DEF IInv
  <2>6. AnswerOK(id)'
    <3>1. AnswerOK(id) /\ e.body # "result" /\ e.body # "cancelled"
      BY <1>7, <2>3 DEF IInv, InShape
    <3>2. work'[id].st = "none"
      BY <1>1, <1>8
    <3>3. ASSUME NEW j \in DOMAIN Script, IsRequest(j, id)
          PROVE  ~(Waiting(j)') /\ ~(j >= next')
      <4>1. j = k
        BY <1>7, <3>3, OneRequest DEF IInv
      <4> QED
        BY <1>1, <1>7, <1>11, <4>1
    <3> QED
      BY <1>1, <1>2, <1>7, <1>8, <2>4, <3>1, <3>2, <3>3, AnswerGiven
  <2>7. \A i \in Ids : AnswerOK(i)'
    BY <2>5, <2>6
  <2> QED
    BY <1>12, <1>13, <1>14, <1>15, <2>4, <2>7 DEF IInv
<1> QED
  BY <1>3, <1>16, <1>17 DEF ReadAnswers, Send

----------------------------------------------------------------------------
(* Steps of the goroutines of asynchronous handlers *)

(* A goroutine moves on.                                                   *)
LEMMA WorkFacts ==
    ASSUME OutShape, NEW r \in Ids, NEW st \in {"end", "reply", "remove", "done"}, NEW body \in Bodies, WorkTo(r, st, body)
    PROVE  /\ work' \in [Ids -> Goroutines] /\ work'[r].st = st /\ work'[r].body = body
           /\ work'[r].text = work[r].text /\ \A i \in Ids : i # r => work'[i] = work[i]
<1>1. work \in [Ids -> Goroutines]
  BY DEF OutShape, Goroutines
<1>2. PICK g : g = [work[r] EXCEPT !.st = st, !.body = body]
  OBVIOUS
<1>3. work[r] \in Goroutines
  BY <1>1
<1>4. g \in Goroutines /\ g.st = st /\ g.body = body /\ g.text = work[r].text
  BY <1>2, <1>3 DEF Goroutines
<1>5. work' = [work EXCEPT ![r] = g]
  BY <1>1, <1>2, <1>3 DEF WorkTo, Goroutines
<1> QED
  BY <1>1, <1>4, <1>5

(* A goroutine goes on without an answer.                                  *)
LEMMA WorkKeeps ==
    ASSUME Grows, NEW r \in Ids, AnswerOK(r), answers' = answers, Queued(r)' = Queued(r), Given(r)' = Given(r),
           next' = next, \A k : Waiting(k)' => Waiting(k),
           work[r].st # "none", work'[r].text = work[r].text,
           work'[r].st \in {"run", "end", "reply"} => work[r].st \in {"run", "end", "reply"},
           work'[r].st = "end" => work'[r].body \in {"result", "error"},
           work'[r].st = "reply" /\ work'[r].body = "cancelled" => Excused(r)
    PROVE  AnswerOK(r)'
<1>1. Excused(r) => Excused(r)'
  BY SentGrows
<1>2. Script' = Script /\ load' = load
  BY DEF Script, Grows
<1>3. \A k : (IsRequest(k, r)' <=> IsRequest(k, r)) /\ EditsBefore(k)' = EditsBefore(k)
  BY <1>2 DEF IsRequest, EditsBefore
<1>4. Unused(r)' <=> Unused(r)
  BY DEF Unused
<1>5. ASSUME NEW k \in DOMAIN Script', IsRequest(k, r)'
      PROVE  /\ ~(Waiting(k)' \/ k >= next')
             /\ load'.orderly /\ work'[r].st # "none" => work'[r].text = EditsBefore(k)'
             /\ load'.orderly => \A a \in Given(r)' : a.body = "result" => a.text = EditsBefore(k)'
  <2>1. k \in DOMAIN Script /\ IsRequest(k, r)
    BY <1>2, <1>3, <1>5
  <2>2. ~(Waiting(k) \/ k >= next)
    BY <2>1 DEF AnswerOK
  <2>3. /\ load.orderly => work[r].text = EditsBefore(k)
        /\ load.orderly => \A a \in Given(r) : a.body = "result" => a.text = EditsBefore(k)
    BY <2>1 DEF AnswerOK
  <2> QED
    BY <1>2, <1>3, <2>2, <2>3
<1> QED
  BY <1>1, <1>4, <1>5, KnownSame DEF AnswerOK

(* A goroutine moves on without sending.                                   *)
LEMMA WorkMove ==
    ASSUME IInv, NEW r \in Ids, NEW st \in {"end", "reply", "remove", "done"}, NEW body \in Bodies, WorkTo(r, st, body),
           work[r].st # "none", st \in {"end", "reply"} => work[r].st \in {"run", "end", "reply"},
           st = "end" => body \in {"result", "error"}, st = "reply" /\ body = "cancelled" => Excused(r),
           UNCHANGED <<pipe, hand, canceled, asked, answers, calls, outgoing, ended>>,
           pending' \in SUBSET pending, BackgroundTypeOK'
    PROVE  IInv'
<1>1. /\ UNCHANGED <<load, next, stdin, queue, reader, dispatcher, text, session, exiting, crashed, canceled>>
      /\ UNCHANGED <<asked, answers, asking, channels, pendingServer, outgoing, ended>>
  BY DEF pipe, hand, calls
<1>2. Grows
  <2>1. (ended => ended') /\ (exiting => exiting')
    BY <1>1, SMT
  <2> QED
    BY <1>1, <2>1, GrowsSame
<1>3. /\ InShape' /\ HandShape' /\ OrderOK' /\ CancelOK' /\ SessionOK' /\ EditsOK'
      /\ \A k : Waiting(k)' <=> Waiting(k)
  BY <1>2, Quiet
<1>4. /\ work' \in [Ids -> Goroutines] /\ work'[r].st = st /\ work'[r].body = body
      /\ work'[r].text = work[r].text /\ \A i \in Ids : i # r => work'[i] = work[i]
  BY WorkFacts DEF IInv
<1>5. OutShape' /\ \A i : Queued(i)' = Queued(i) /\ Given(i)' = Given(i)
  <2>1. outgoing' \in Seq(Outputs') /\ answers' \in [Ids -> Seq(Outputs')]
    BY <1>1, <1>2, Carried DEF IInv, OutShape
  <2>2. OutShape'
    BY <1>1, <1>4, <2>1 DEF IInv, OutShape, Goroutines
  <2> QED
    BY <1>1, <2>2 DEF Queued, Given
<1>6. ASSUME NEW i \in Ids, i # r
      PROVE  AnswerOK(i)'
  BY <1>1, <1>2, <1>3, <1>4, <1>5, <1>6, AnswerFrame DEF IInv
<1>7. AnswerOK(r)'
  <2>1. AnswerOK(r)
    BY DEF IInv
  <2> QED
    BY <1>1, <1>2, <1>3, <1>4, <1>5, <2>1, WorkKeeps
<1>8. \A i \in Ids : AnswerOK(i)'
  BY <1>6, <1>7
<1>9. ChannelsOK' /\ HandlerOK'
  BY <1>1, CallsFrame, HandlerFrame DEF IInv
<1> QED
  BY <1>3, <1>5, <1>8, <1>9 DEF IInv

(* The feature of a document request returns or panics.                    *)
LEMMA StepWorkRuns ==
    ASSUME IInv, NEW r \in Ids, WorkRuns(r)
    PROVE  IInv'
<1>1. /\ UNCHANGED <<pipe, hand, canceled, pending, asked, answers, calls, outgoing, ended>>
      /\ UNCHANGED <<closed, refreshCancel, refresh, due, publishPending, publish>> /\ work[r].st = "run"
  BY DEF WorkRuns, client, loops, handling, pipe, hand
<1>2. BackgroundTypeOK'
  <2>1. news' \in [Pools -> BOOLEAN]
    BY DEF WorkRuns, IInv, BackgroundTypeOK
  <2> QED
    BY <1>1, <2>1 DEF IInv, BackgroundTypeOK
<1>3. \E st \in {"end", "reply"}, body \in {"result", "error"} : WorkTo(r, st, body) /\ (st = "reply" => body = "error")
  BY DEF WorkRuns
<1>4. "result" \in Bodies /\ "error" \in Bodies
  BY DEF Bodies
<1> QED
  BY <1>1, <1>2, <1>3, <1>4, WorkMove

(* The goroutine of a document request has its answer.                     *)
LEMMA StepWorkEnds ==
    ASSUME IInv, NEW r \in Ids, WorkEnds(r)
    PROVE  IInv'
<1>1. /\ UNCHANGED <<pipe, hand, canceled, pending, asked, answers, calls, outgoing, ended>>
      /\ UNCHANGED <<closed, refreshCancel, refresh, due, news>> /\ work[r].st = "end"
  BY DEF WorkEnds, client, loops, handling, pipe, hand
<1>2. BackgroundTypeOK'
  <2>1. publishPending' \in BOOLEAN
    BY DEF WorkEnds, EnqueuePublishGlobalDiagnostics, IInv, BackgroundTypeOK
  <2>2. publish' \in [st : {"none", "queued", "scan"}, left : SUBSET Pools]
    <3>1. publish \in [st : {"none", "queued", "scan"}, left : SUBSET Pools]
      BY DEF IInv, BackgroundTypeOK
    <3>2. publish' = publish \/ \E st \in {"none", "queued"} : publish' = [publish EXCEPT !.st = st]
      BY DEF WorkEnds, EnqueuePublishGlobalDiagnostics
    <3> QED
      BY <3>1, <3>2
  <2> QED
    BY <1>1, <2>1, <2>2 DEF IInv, BackgroundTypeOK
<1>3. \E body \in {"result", "error", "cancelled"} : WorkTo(r, "reply", body) /\ (body = "cancelled" => Done(r))
  BY DEF WorkEnds
<1>4. "result" \in Bodies /\ "error" \in Bodies /\ "cancelled" \in Bodies
  BY DEF Bodies
<1>5. Done(r) => Excused(r)
  BY DEF IInv, CancelOK, Done, Excused
<1> QED
  BY <1>1, <1>2, <1>3, <1>4, <1>5, WorkMove

(* The goroutine removes its request from the pending ones.                *)
LEMMA StepWorkRemoves ==
    ASSUME IInv, NEW r \in Ids, WorkRemoves(r)
    PROVE  IInv'
<1>1. /\ UNCHANGED <<pipe, hand, canceled, asked, answers, calls, outgoing, ended, background>>
      /\ work[r].st = "remove" /\ pending' \in SUBSET pending /\ WorkTo(r, "done", "none")
  BY DEF WorkRemoves, client, handling, pipe, hand
<1>2. BackgroundTypeOK'
  BY <1>1, BackgroundFrame DEF IInv, BackgroundTypeOK
<1>3. "none" \in Bodies
  BY DEF Bodies
<1> QED
  BY <1>1, <1>2, <1>3, WorkMove

(* The goroutine answers its request, with the text it took.               *)
LEMMA StepWorkAnswers ==
    ASSUME IInv, NEW r \in Ids, WorkAnswers(r)
    PROVE  IInv'
<1>1. /\ UNCHANGED <<load, next, stdin, queue, reader, dispatcher, text, session, exiting, crashed, canceled, pending>>
      /\ UNCHANGED <<asked, answers, asking, channels, pendingServer, ended, background>>
      /\ work[r].st = "reply" /\ WorkTo(r, "remove", "none")
  BY DEF WorkAnswers, client, loops, handling, calls
<1>2. BackgroundTypeOK'
  BY <1>1, BackgroundFrame DEF IInv, BackgroundTypeOK
<1>3. "none" \in Bodies
  BY DEF Bodies
<1>4. PICK e : e = Answer(r, work[r].body, work[r].text)
  OBVIOUS
<1>5. CASE outgoing' = outgoing
  BY <1>1, <1>2, <1>3, <1>5, WorkMove DEF pipe, hand, calls
<1>6. CASE Len(outgoing) < OutCap /\ outgoing' = Append(outgoing, e)
  <2>1. Grows
    BY <1>1, GrowsSame
  <2>2. /\ InShape' /\ HandShape' /\ OrderOK' /\ CancelOK' /\ SessionOK' /\ EditsOK'
        /\ \A k : Waiting(k)' <=> Waiting(k)
    BY <1>1, <2>1, Quiet DEF pipe, hand
  <2>3. /\ work' \in [Ids -> Goroutines] /\ work'[r].st = "remove"
        /\ work'[r].text = work[r].text /\ \A i \in Ids : i # r => work'[i] = work[i]
    BY <1>1, <1>3, WorkFacts DEF IInv
  <2>4. OutShape /\ work[r].body \in Bodies /\ work[r].text \in Nat
    BY DEF IInv, OutShape
  <2>5. e \in Outputs /\ e.to = "answer" /\ e.id = r /\ e.body = work[r].body /\ e.text = work[r].text
    BY <1>4, <2>4 DEF Answer, Outputs
  <2>6. AnswerOK(r) /\ Unused(r) /\ Known(r)
    BY <1>1 DEF IInv, AnswerOK
  <2>7. /\ OutShape'
        /\ \A i : i # r => Queued(i)' = Queued(i) /\ Given(i)' = Given(i)
        /\ Given(r)' = {e} /\ \A a, b \in Queued(r)' : a = b
    BY <1>1, <1>6, <2>1, <2>3, <2>4, <2>5, <2>6, SendAnswer
  <2>8. ASSUME NEW i \in Ids, i # r
        PROVE  AnswerOK(i)'
    BY <1>1, <2>1, <2>2, <2>3, <2>7, <2>8, AnswerFrame DEF IInv
  <2>9. AnswerOK(r)'
    <3>1. ASSUME NEW k \in DOMAIN Script, IsRequest(k, r)
          PROVE  ~(Waiting(k)') /\ ~(k >= next') /\ (load.orderly => e.text = EditsBefore(k))
      <4>1. ~Waiting(k) /\ ~(k >= next) /\ (load.orderly => work[r].text = EditsBefore(k))
        BY <1>1, <2>6, <3>1 DEF AnswerOK
      <4> QED
        BY <1>1, <2>2, <2>5, <4>1
    <3>2. e.body = "cancelled" => Excused(r)
      BY <1>1, <2>5, <2>6 DEF AnswerOK
    <3> QED
      BY <1>1, <2>1, <2>3, <2>6, <2>7, <3>1, <3>2, AnswerGiven
  <2>10. \A i \in Ids : AnswerOK(i)'
    BY <2>8, <2>9
  <2>11. ChannelsOK' /\ HandlerOK'
    BY <1>1, CallsFrame, HandlerFrame DEF IInv
  <2> QED
    BY <1>2, <2>2, <2>7, <2>10, <2>11 DEF IInv
<1> QED
  BY <1>4, <1>5, <1>6 DEF WorkAnswers, Send

----------------------------------------------------------------------------
(* Writing *)

(* What is written first leaves the queue, and the rest moves up.          *)
LEMMA QueuedTail ==
    ASSUME OutShape, outgoing # <<>>, outgoing' = Tail(outgoing), NEW i
    PROVE  /\ Head(outgoing) \in Outputs /\ outgoing' \in Seq(Outputs) /\ Len(outgoing') <= OutCap
           /\ \A k \in Queued(i)' : k \in Int /\ k + 1 \in Queued(i) /\ outgoing'[k] = outgoing[k + 1] /\ k + 1 # 1
           /\ \A k \in Queued(i) : k = 1 \/ (k - 1 \in Queued(i)' /\ outgoing[k] = outgoing'[k - 1])
           /\ 1 \in Queued(i) <=> Head(outgoing).to = "answer" /\ Head(outgoing).id = i
           /\ 1 \in Queued(i) => outgoing[1] = Head(outgoing)
<1>1. PICK s, t, O, m : s = outgoing /\ t = outgoing' /\ O = Outputs /\ m = Head(outgoing)
  OBVIOUS
<1>2. s \in Seq(O) /\ s # <<>> /\ t = Tail(s) /\ m = Head(s) /\ Len(s) <= OutCap /\ OutCap \in Nat
  BY <1>1, ServerAssumption DEF OutShape
<1>3. /\ m \in O /\ t \in Seq(O) /\ 1 \in DOMAIN s /\ s[1] = m
      /\ \A k \in DOMAIN t : k \in Int /\ k + 1 \in DOMAIN s /\ t[k] = s[k + 1] /\ k + 1 # 1
      /\ \A k \in DOMAIN s : k = 1 \/ (k - 1 \in DOMAIN t /\ s[k] = t[k - 1])
  BY <1>2, SMT
<1>4. Len(t) <= OutCap
  <2>1. Len(t) \in Nat /\ Len(s) \in Nat /\ Len(s) = Len(t) + 1
    BY <1>2, SMT
  <2> QED
    BY <1>2, <2>1, SMT
<1>5. \A k \in Queued(i)' : k \in Int /\ k + 1 \in Queued(i) /\ outgoing'[k] = outgoing[k + 1] /\ k + 1 # 1
  BY <1>1, <1>3 DEF Queued
<1>6. \A k \in Queued(i) : k = 1 \/ (k - 1 \in Queued(i)' /\ outgoing[k] = outgoing'[k - 1])
  BY <1>1, <1>3 DEF Queued
<1>7. (1 \in Queued(i) <=> m.to = "answer" /\ m.id = i) /\ (1 \in Queued(i) => outgoing[1] = m)
  BY <1>1, <1>3 DEF Queued
<1> QED
  BY <1>1, <1>3, <1>4, <1>5, <1>6, <1>7

(* A step that changes where the answer to a request is, and not whether   *)
(* there is one nor what it says.                                          *)
LEMMA AnswerMove ==
    ASSUME Grows, NEW id \in Ids, AnswerOK(id), work'[id] = work[id], next' = next, \A k : Waiting(k)' => Waiting(k),
           Unused(id) => Unused(id)', Given(id)' = Given(id), Len(answers'[id]) <= 1,
           answers'[id] # <<>> => Queued(id)' = {}, \A i, j \in Queued(id)' : i = j
    PROVE  AnswerOK(id)'
<1>1. Excused(id) => Excused(id)'
  BY SentGrows
<1>2. Script' = Script /\ load' = load
  BY DEF Script, Grows
<1>3. \A k : (IsRequest(k, id)' <=> IsRequest(k, id)) /\ EditsBefore(k)' = EditsBefore(k)
  BY <1>2 DEF IsRequest, EditsBefore
<1> QED
  BY <1>1, <1>2, <1>3, KnownSame DEF AnswerOK

(* writeLoop writes the first message of the outgoing queue.               *)
LEMMA StepWrite ==
    ASSUME IInv, Write
    PROVE  IInv'
<1>1. /\ UNCHANGED <<load, next, stdin, queue, reader, dispatcher, text, session, exiting, crashed, canceled, pending>>
      /\ UNCHANGED <<asking, channels, pendingServer, work, ended, background>>
      /\ outgoing # <<>> /\ outgoing' = Tail(outgoing)
  BY DEF Write, loops, handling, calls
<1>2. Grows
  BY <1>1, GrowsSame
<1>3. /\ InShape' /\ HandShape' /\ OrderOK' /\ CancelOK' /\ SessionOK' /\ EditsOK'
      /\ \A k : Waiting(k)' <=> Waiting(k)
  BY <1>1, <1>2, Quiet DEF pipe, hand
<1>4. PICK m : m = Head(outgoing)
  OBVIOUS
<1>5. \/ m.to = "answer" /\ answers' = [answers EXCEPT ![m.id] = Append(answers[m.id], m)] /\ asked' = asked
      \/ m.to = "ask" /\ asked' = asked \cup {m.id} /\ answers' = answers
      \/ m.to = "publish" /\ UNCHANGED <<asked, answers>>
  BY <1>4 DEF Write
<1>6. OutShape /\ m \in Outputs /\ outgoing' \in Seq(Outputs) /\ Len(outgoing') <= OutCap
  BY <1>1, <1>4, QueuedTail DEF IInv
<1>7. (m.to = "answer" => m.id \in Ids) /\ (m.to = "ask" => m.id \in DOMAIN channels)
  BY <1>6, SMT DEF Outputs
<1>8. Outputs' = Outputs
  BY <1>1, SentSame
<1>9. answers \in [Ids -> Seq(Outputs)]
  BY <1>6 DEF OutShape
<1>10. PICK q : q = Append(answers[m.id], m)
  OBVIOUS
<1>11. m.to = "answer" => q \in Seq(Outputs)
  <2>1. PICK O, s : O = Outputs /\ s = answers[m.id]
    OBVIOUS
  <2>2. m.to = "answer" => s \in Seq(O) /\ m \in O
    BY <1>6, <1>7, <1>9, <2>1
  <2>3. s \in Seq(O) /\ m \in O => Append(s, m) \in Seq(O)
    BY SMT
  <2> QED
    BY <1>10, <2>1, <2>2, <2>3
<1>12. OutShape'
  <2>1. answers' \in [Ids -> Seq(Outputs)]
    BY <1>5, <1>7, <1>9, <1>10, <1>11
  <2> QED
    BY <1>1, <1>6, <1>8, <2>1 DEF OutShape
<1>13. ASSUME NEW i \in Ids, m.to = "answer" => m.id # i
       PROVE  AnswerOK(i)'
  <2>1. answers'[i] = answers[i]
    BY <1>5, <1>9, <1>13
  <2>2. /\ \A k \in Queued(i)' : k \in Int /\ k + 1 \in Queued(i) /\ outgoing'[k] = outgoing[k + 1]
        /\ \A k \in Queued(i) : k - 1 \in Queued(i)' /\ outgoing[k] = outgoing'[k - 1]
    BY <1>1, <1>4, <1>6, <1>13, QueuedTail
  <2>3. AnswerOK(i)
    BY DEF IInv
  <2>4. \A a, b \in Queued(i)' : a = b
    <3>1. \A a, b \in Queued(i)' : a \in Int /\ b \in Int /\ a + 1 = b + 1
      BY <2>2, <2>3 DEF AnswerOK
    <3>2. \A a, b \in Int : a + 1 = b + 1 => a = b
      BY SMT
    <3> QED
      BY <3>1, <3>2
  <2>5. Queued(i) = {} => Queued(i)' = {}
    BY <2>2
  <2>6. {outgoing'[k] : k \in Queued(i)'} = {outgoing[k] : k \in Queued(i)}
    <3>1. \A x \in {outgoing'[k] : k \in Queued(i)'} : x \in {outgoing[k] : k \in Queued(i)}
      BY <2>2
    <3>2. ASSUME NEW x \in {outgoing[k] : k \in Queued(i)}
          PROVE  x \in {outgoing'[k] : k \in Queued(i)'}
      <4>1. PICK k \in Queued(i) : x = outgoing[k]
        BY <3>2
      <4>2. PICK j : j = k - 1
        OBVIOUS
      <4>3. j \in Queued(i)' /\ x = outgoing'[j]
        BY <2>2, <4>1, <4>2
      <4> QED
        BY <4>3
    <3> QED
      BY <3>1, <3>2
  <2>7. Given(i)' = Given(i)
    BY <2>1, <2>6 DEF Given
  <2>8. Len(answers'[i]) <= 1 /\ (answers'[i] # <<>> => Queued(i)' = {}) /\ (Unused(i) => Unused(i)')
    BY <2>1, <2>3, <2>5 DEF AnswerOK, Unused
  <2> QED
    BY <1>1, <1>2, <1>3, <2>3, <2>4, <2>7, <2>8, AnswerMove
<1>14. ASSUME m.to = "answer"
       PROVE  AnswerOK(m.id)'
  <2>1. PICK i : i = m.id
    OBVIOUS
  <2>2. i \in Ids /\ answers' = [answers EXCEPT ![i] = q]
    BY <1>5, <1>7, <1>10, <1>14, <2>1
  <2>3. 1 \in Queued(i) /\ outgoing[1] = m
    BY <1>1, <1>4, <1>6, <1>14, <2>1, QueuedTail
  <2>4. AnswerOK(i)
    BY <2>2 DEF IInv
  <2>5. Queued(i) = {1} /\ answers[i] = <<>>
    BY <2>3, <2>4 DEF AnswerOK
  <2>6. q = Append(<<>>, m)
    BY <1>10, <2>1, <2>5
  <2>7. Len(q) = 1 /\ DOMAIN q = {1} /\ q[1] = m /\ 1 <= 1 /\ DOMAIN <<>> = {}
    BY <2>6, SMT
  <2>8. answers'[i] = q
    BY <1>9, <2>2
  <2>9. Queued(i)' = {}
    <3>1. \A k \in Queued(i)' : k + 1 \in Queued(i) /\ k + 1 # 1
      BY <1>1, <1>6, QueuedTail
    <3> QED
      BY <2>5, <3>1
  <2>10. Given(i)' = Given(i)
    <3>1. {answers'[i][k] : k \in DOMAIN answers'[i]} = {m} /\ {outgoing'[k] : k \in Queued(i)'} = {}
      BY <2>7, <2>8, <2>9
    <3>2. {answers[i][k] : k \in DOMAIN answers[i]} = {} /\ {outgoing[k] : k \in Queued(i)} = {m}
      BY <2>3, <2>5, <2>7
    <3> QED
      BY <3>1, <3>2 DEF Given
  <2>11. Len(answers'[i]) <= 1
    BY <2>7, <2>8
  <2>12. ~Unused(i)
    BY <2>3 DEF Unused
  <2>13. AnswerOK(i)'
    BY <1>1, <1>2, <1>3, <2>2, <2>4, <2>9, <2>10, <2>11, <2>12, AnswerMove
  <2> QED
    BY <2>1, <2>13
<1>15. \A i \in Ids : AnswerOK(i)'
  BY <1>13, <1>14
<1>16. HandlerOK' /\ BackgroundTypeOK'
  BY <1>1, HandlerFrame, BackgroundFrame DEF IInv, BackgroundTypeOK
<1>17. ChannelsOK'
  BY <1>1, <1>5, <1>7 DEF IInv, ChannelsOK
<1> QED
  BY <1>3, <1>12, <1>15, <1>16, <1>17 DEF IInv

----------------------------------------------------------------------------
(* The invariant holds at first, and every step keeps it.                  *)
LEMMA InitIInv ==
    ASSUME Init
    PROVE  IInv
<1>1. /\ load \in Scripts /\ next = 1 /\ stdin = <<>> /\ queue = <<>> /\ outgoing = <<>>
      /\ reader = [st |-> "read", message |-> Idle, body |-> "none"] /\ session = ~load.cold
      /\ dispatcher = Selecting /\ exiting = FALSE /\ pending = {} /\ canceled = {} /\ text = 0
      /\ work = [r \in Ids |-> [st |-> "none", method |-> "none", text |-> 0, body |-> "none"]]
      /\ asking = [c \in Callers |-> [st |-> "none", id |-> 0, body |-> "none"]]
      /\ channels = <<>> /\ pendingServer = {} /\ asked = {} /\ answers = [r \in Ids |-> <<>>] /\ crashed = FALSE
      /\ BackgroundInit
  BY DEF Init
<1>2. 1 \in 1 .. Len(Script) + 1
  <2>1. Len(Script) \in Nat
    <3>1. Script \in Seq([method : Requests \cup Events \cup {"cancel"}, id : Nat])
      BY <1>1, ServerAssumption DEF IsScript, Script
    <3>2. PICK s, X : s = Script /\ X = [method : Requests \cup Events \cup {"cancel"}, id : Nat]
      OBVIOUS
    <3>3. s \in Seq(X) => Len(s) \in Nat
      BY SMT
    <3> QED
      BY <3>1, <3>2, <3>3
  <2> QED
    BY <2>1, SMT
<1>3. /\ 1 .. next - 1 = {} /\ Len(<<>>) = 0 /\ DOMAIN <<>> = {} /\ 0 \in Nat /\ 0 <= QueueCap /\ 0 <= OutCap /\ 0 <= 1
  <2>1. 1 .. 1 - 1 = {} /\ Len(<<>>) = 0 /\ DOMAIN <<>> = {} /\ 0 \in Nat /\ 0 <= 1
    BY SMT
  <2>2. 0 <= QueueCap /\ 0 <= OutCap
    BY ServerAssumption, SMT
  <2> QED
    BY <1>1, <2>1, <2>2
<1>4. \A S : <<>> \in Seq(S)
  BY SMT
<1>5. reader.st = "read" /\ reader.body = "none"
  BY <1>1, SMT
<1>6. InShape
  <2>1. reader \in [st : {"read", "push", "reply", "stopped"}, message : Sent \cup {Idle}, body : Bodies]
    BY <1>1 DEF Bodies
  <2> QED
    BY <1>1, <1>2, <1>3, <1>4, <1>5, <2>1 DEF InShape
<1>7. dispatcher \in Hands /\ dispatcher.st = "select"
  <2>1. Selecting.st = "select"
    BY SMT DEF Selecting
  <2>2. Selecting \in Hands
    BY <1>4 DEF Selecting, Hands, Bodies
  <2> QED
    BY <1>1, <2>1, <2>2
<1>8. HandShape
  BY <1>1, <1>3, <1>7 DEF HandShape, Hands
<1>9. \A r \in Ids : answers[r] = <<>> /\ work[r].st = "none"
  BY <1>1
<1>10. OutShape
  <2>1. work \in [Ids -> Goroutines]
    BY <1>1, <1>3 DEF Goroutines, Bodies
  <2>2. answers \in [Ids -> Seq(Outputs)]
    BY <1>1, <1>4
  <2> QED
    BY <1>1, <1>3, <1>4, <2>1, <2>2 DEF OutShape, Goroutines
<1>11. BackgroundTypeOK
  BY <1>1 DEF BackgroundInit, BackgroundTypeOK, RefreshStates
<1>12. \A c \in Callers : asking[c].st = "none"
  BY <1>1
<1>13. ChannelsOK
  <2>1. asking \in [Callers -> [st : {"none", "wait", "close", "failed"}, id : Nat, body : {"none", "result", "error"}]]
    BY <1>1, <1>3
  <2> QED
    BY <1>1, <1>3, <1>4, <1>12, <2>1 DEF ChannelsOK
<1>14. \A k : ~Waiting(k) /\ ~InHand(k) /\ ~In(queue, k) /\ ~InReader(k) /\ ~In(stdin, k)
  BY <1>1, <1>3, <1>5, <1>7 DEF Waiting, InHand, In, InReader
<1>15. OrderOK
  BY <1>1, <1>3, <1>14 DEF OrderOK, Ordered
<1>16. HandlerOK
  BY <1>7, <1>12 DEF HandlerOK, Callers
<1>17. CancelOK
  BY <1>1, <1>7 DEF CancelOK
<1>18. SessionOK
  <2>1. load.cold \in BOOLEAN
    BY <1>1, ServerAssumption DEF IsScript
  <2> QED
    BY <1>1, <1>3, <2>1 DEF SessionOK
<1>19. EditsOK
  <2>1. Applied = {}
    BY <1>1, <1>3 DEF Applied, EditPlaces
  <2> QED
    BY <1>1, <2>1, FS_EmptySet DEF EditsOK
<1>20. ASSUME NEW id \in Ids
       PROVE  AnswerOK(id)
  <2>1. answers[id] = <<>> /\ Queued(id) = {} /\ Given(id) = {} /\ Len(answers[id]) <= 1 /\ work[id].st = "none"
    BY <1>1, <1>3, <1>9 DEF Queued, Given
  <2> QED
    BY <2>1 DEF AnswerOK, Unused
<1> QED
  BY <1>6, <1>8, <1>10, <1>11, <1>13, <1>15, <1>16, <1>17, <1>18, <1>19, <1>20 DEF IInv

(* Nothing changes.                                                        *)
LEMMA StutterIInv ==
    ASSUME IInv, UNCHANGED vars
    PROVE  IInv'
<1>1. /\ UNCHANGED <<load, next, stdin, queue, reader, dispatcher, text, session, exiting, crashed, canceled>>
      /\ UNCHANGED <<pending, asked, answers, asking, channels, pendingServer, work, outgoing, ended, background>>
  BY DEF vars, client, loops, handling, calls
<1>2. Grows
  BY <1>1, GrowsSame
<1>3. /\ InShape' /\ HandShape' /\ OrderOK' /\ CancelOK' /\ SessionOK' /\ EditsOK'
      /\ \A k : Waiting(k)' <=> Waiting(k)
  BY <1>1, <1>2, Quiet DEF pipe, hand
<1>4. OutShape' /\ \A id : Queued(id)' = Queued(id) /\ Given(id)' = Given(id)
  BY <1>1, <1>2, OutFrame DEF IInv
<1>5. \A id \in Ids : AnswerOK(id)'
  BY <1>1, <1>2, <1>3, <1>4, QuietAnswers
<1>6. ChannelsOK' /\ HandlerOK' /\ BackgroundTypeOK'
  BY <1>1, CallsFrame, HandlerFrame, BackgroundFrame DEF IInv, BackgroundTypeOK
<1> QED
  BY <1>3, <1>4, <1>5, <1>6 DEF IInv

(* Every step of the server and its client keeps the invariant.            *)
LEMMA NextIInv ==
    ASSUME IInv, [Next]_vars
    PROVE  IInv'
<1>1. CASE UNCHANGED vars
  BY <1>1, StutterIInv
<1>2. CASE ClientSends \/ ClientAnswers
  BY <1>2, StepClientSends, StepClientAnswers
<1>3. CASE Read
  BY <1>3, StepReadMessage, StepReadPush, StepReadAnswers, StepReadStops DEF Read
<1>4. CASE Handle
  BY <1>4, StepHandleSession, StepHandleEdit, StepHandleSchedule, StepHandleClose, StepHandleExit,
     StepHandleDocument, StepHandleEnd DEF Handle
<1>5. CASE DispatchLoop
  BY <1>4, <1>5, StepDispatch, StepDispatchAnswers, StepDispatchRemoves, StepDispatchStops DEF DispatchLoop
<1>6. CASE WriteLoop \/ PublishTask
  BY <1>6, StepWrite, StepWriteStops, StepPublishTask DEF WriteLoop
<1>7. CASE \E c \in Callers : Asking(c)
  BY <1>7, StepAskSends, StepAskWaits, StepAskReturns DEF Asking
<1>8. CASE \E r \in Ids : Work(r)
  BY <1>8, StepWorkRuns, StepWorkEnds, StepWorkAnswers, StepWorkRemoves DEF Work
<1>9. CASE \E t \in Tasks : RefreshTask(t)
  BY <1>9, StepRefreshTask
<1> QED
  BY <1>1, <1>2, <1>3, <1>5, <1>6, <1>7, <1>8, <1>9 DEF Next, Serve

(* The inductive invariant holds of every state the server reaches.        *)
THEOREM AlwaysIInv == Spec => []IInv
BY InitIInv, NextIInv, PTL DEF Spec

(* The invariant implies that requests are answered once.                  *)
LEMMA OnceFromIInv ==
    ASSUME IInv
    PROVE  AnsweredOnce
<1>1. TypeOK
  BY DEF IInv, TypeOK, InShape, HandShape, OutShape, ChannelsOK, CancelOK
<1>2. crashed => ~load.orderly
  BY DEF IInv, SessionOK
<1>3. \A k \in DOMAIN channels : channels[k] # "panic"
  <2>1. PICK s, S : s = channels /\ S = {"open", "result", "error", "closed"}
    OBVIOUS
  <2>2. s \in Seq(S) => \A k \in DOMAIN s : s[k] \in S
    BY SMT
  <2> QED
    BY <2>1, <2>2 DEF IInv, ChannelsOK
<1>4. ASSUME NEW id \in Ids
      PROVE  /\ Len(answers[id]) + Cardinality(Queued(id)) <= 1
             /\ \A a \in Given(id) : a.body = "cancelled" => WasSent(Message("cancel", id)) \/ exiting \/ ended
  <2>1. AnswerOK(id)
    BY DEF IInv
  <2>2. Queued(id) = {} \/ \E k : Queued(id) = {k}
    BY <2>1 DEF AnswerOK
  <2>3. Cardinality(Queued(id)) = 0 \/ (Queued(id) # {} /\ Cardinality(Queued(id)) = 1)
    BY <2>2, FS_EmptySet, FS_Singleton
  <2>4. Len(answers[id]) <= 1 /\ (answers[id] # <<>> => Queued(id) = {})
    BY <2>1 DEF AnswerOK
  <2>5. Len(answers[id]) \in Nat
    <3>1. PICK s, O : s = answers[id] /\ O = Outputs
      OBVIOUS
    <3>2. s \in Seq(O)
      BY <3>1 DEF IInv, OutShape
    <3>3. Len(s) \in Nat
      BY <3>2, SMT
    <3> QED
      BY <3>1, <3>3
  <2>6. Queued(id) # {} => Len(answers[id]) = 0
    <3>1. Len(<<>>) = 0
      BY SMT
    <3> QED
      BY <2>4, <3>1
  <2>7. Len(answers[id]) + Cardinality(Queued(id)) <= 1
    BY <2>3, <2>4, <2>5, <2>6, SMT
  <2>8. \A a \in Given(id) : a.body = "cancelled" => WasSent(Message("cancel", id)) \/ exiting \/ ended
    BY <2>1 DEF AnswerOK, Excused
  <2> QED
    BY <2>7, <2>8
<1> QED
  BY <1>1, <1>2, <1>3, <1>4 DEF AnsweredOnce

(* No request is answered twice, by whatever race of the read loop, the    *)
(* dispatch loop, the goroutines of the handlers and recover; none is      *)
(* answered as canceled that the client did not cancel while the server    *)
(* runs; no response channel is closed twice or written when closed; and a *)
(* client that waits for "initialized" meets no panic.  This is for every  *)
(* set of scripts, every number of tasks and pools and every capacity of   *)
(* the queues.                                                             *)
THEOREM EachIsAnsweredOnce == Spec => []AnsweredOnce
<1>1. IInv => AnsweredOnce
  BY OnceFromIInv
<1> QED
  BY <1>1, AlwaysIInv, PTL

(* The invariant implies that answers see their edits.                     *)
LEMMA EditsFromIInv ==
    ASSUME IInv
    PROVE  SeesEdits
<1>1. SUFFICES ASSUME load.orderly, NEW id \in Ids, NEW a \in Given(id), a.body = "result"
               PROVE  a.text = EditsBefore(Position(id))
  BY DEF SeesEdits
<1>2. AnswerOK(id) /\ Known(id)
  BY <1>1 DEF IInv, AnswerOK
<1>3. Position(id) \in DOMAIN Script /\ IsRequest(Position(id), id)
  <2>1. \E k \in DOMAIN Script : Script[k].id = id /\ Script[k].method \in Requests
    BY <1>2 DEF Known, IsRequest
  <2> QED
    BY <2>1 DEF Position, IsRequest
<1> QED
  BY <1>1, <1>2, <1>3 DEF AnswerOK

(* An answer is about the text with every edit the client sent before the  *)
(* request and none it sent after: edits and requests do not overtake each *)
(* other between the client and the handlers, and a handler takes its view *)
(* of the text before the dispatch loop goes on (readLoop, dispatchLoop,   *)
(* registerLanguageServiceDocumentRequestHandler).                         *)
THEOREM AnswersSeeTheirEdits == Spec => []SeesEdits
<1>1. IInv => SeesEdits
  BY EditsFromIInv
<1> QED
  BY <1>1, AlwaysIInv, PTL

=============================================================================
