---------------------------- MODULE MCLspServer ----------------------------
(* Instances of LspServer for TLC: what the client sends.                  *)
EXTENDS LspServer, TLC

CONSTANTS p1, p2

S(messages) == [messages |-> messages, cold |-> FALSE, orderly |-> TRUE, paced |-> TRUE, closes |-> FALSE]
E(method) == Message(method, 0)
Q(method, id) == Message(method, id)
C(id) == Message("cancel", id)

(* Requests between edits, one canceled.                                   *)
Edits == S(<<E("edit"), Q("references", 1), C(1), E("edit"), Q("symbol", 2), Q("references", 3)>>)

(* From the first message to the last, in order.                           *)
Whole == [S(<<Q("symbol", 1), Q("initialize", 2), E("initialized"), Q("initialize", 3), Q("shutdown", 4), E("exit")>>)
          EXCEPT !.cold = TRUE]

(* Messages the server does not take, a cancellation, and the end of the   *)
(* input.                                                                  *)
Strange == [S(<<Q("invalid", 1), Q("unknown", 2), Q("references", 3), C(3)>>) EXCEPT !.closes = TRUE]

(* A request and a shutdown before there is a session.                     *)
Early == [S(<<Q("initialize", 1), Q("shutdown", 2), Q("references", 3), E("initialized")>>)
          EXCEPT !.cold = TRUE, !.orderly = FALSE]

(* Watch events and edits around refreshes, a configuration whose handler  *)
(* waits for the client, and refreshes around shutdown and the end.        *)
Refreshes == S(<<E("watch"), E("watch"), E("edit"), E("watch")>>)
Configures == [S(<<E("watch"), E("configure")>>) EXCEPT !.closes = TRUE]
Leaves == S(<<E("watch"), Q("shutdown", 1), E("watch"), E("exit")>>)

(* A client that sends faster than the queue can take.                     *)
Flood == [S(<<E("configure"), E("edit"), Q("symbol", 1), E("edit"), E("edit")>>) EXCEPT !.paced = FALSE]

(* Requests that find global diagnostics.                                  *)
News == S(<<Q("hover", 1), Q("hover", 2), Q("hover", 3)>>)

AllScripts == {Edits, Whole, Strange, Early, Refreshes, Configures, Leaves, Flood, News}
=============================================================================
