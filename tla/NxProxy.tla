------------------------------ MODULE NxProxy ------------------------------
(***************************************************************************)
(* The proxy of nxweb: a request of a client is passed to a backend over a *)
(* connection of a pool (lib/modules/http_proxy.c, lib/nxd_http_proxy.c,   *)
(* lib/nxd_http_client_proto.c).                                           *)
(*                                                                         *)
(* The client's connection is seen through its protocol's state: it        *)
(* receives a "body" (read timer), is "handling" (no timer), or "sending"  *)
(* an answer (write timer).  Streams move one unit of data at a time, in   *)
(* any order; messages of the backend connections wait in the loop in the  *)
(* order they were published.                                              *)
(***************************************************************************)
EXTENDS Naturals, Sequences, FiniteSets, SequencesExt, Selected

CONSTANTS Backend,      \* objects nxd_http_proxy of the pool
          None,
          Body,         \* units of a request's body, for one that has a body
          RetryCount,   \* NXWEB_PROXY_RETRY_COUNT
          Requests,     \* bound: requests of the client
          RefusesAgain  \* whether connect() may fail at once in a retry too

ASSUME ProxyBounds ==
  /\ Body \in Nat \ {0}
  /\ {RetryCount, Requests} \subseteq Nat
  /\ RefusesAgain \in BOOLEAN
  /\ None \notin Backend

VARIABLES
  srv,    \* the client's connection
  rd,     \* nxweb_http_proxy_request_data
  bc,     \* the backend connections
  pool,   \* the idle ones, oldest first
  evq,    \* their messages in the loop
  asked   \* requests so far

proxyVars == <<srv, rd, bc, pool, evq, asked>>

Idle == [st |-> "idle", left |-> 0, body |-> FALSE, ans |-> "none"]
NoData == [b |-> None, retry |-> 0, timer |-> FALSE, started |-> FALSE, complete |-> FALSE,
           error |-> FALSE, buf |-> 0, eof |-> FALSE]

\* timer is the one of the four that is set; a "bad" answer is read no further;
\* sub is who hears the messages.
Closed == [st |-> "none", timer |-> "none", sub |-> "none", begun |-> FALSE,
           whole |-> FALSE, done |-> FALSE, kept |-> FALSE, queued |-> FALSE]
States == {"none", "connecting", "idle", "headers", "wait100", "sendBody", "waiting", "respBody", "bad"}

ProxyInit == /\ srv = Idle
        /\ rd = NoData
        /\ bc = [b \in Backend |-> Closed]
        /\ pool = <<>>
        /\ evq = <<>>
        /\ asked = 0

Negative == {"error", "timeout", "no100", "bad"}
Messages == {"response", "complete"} \cup Negative

\* Without the messages of b: nobody is subscribed to them any more.
Heard(q, b) == Selected(q, {e \in Backend \X Messages : e[1] # b})
InUse == {b \in Backend : bc[b].sub = "req"}

-----------------------------------------------------------------------------
\* The pool (nxd_http_proxy.c).

\* nxd_http_proxy_pool_return of b: its subscriptions end with it; the queue
\* of the loop and the pool after it.  Closed if the caller says so.
\* Mutant: only the state of the protocol is asked.
KeepsIdle(b, closed) == ~closed /\ bc[b].st = "idle"
Keeps(b, closed) == ~closed /\ bc[b].done /\ bc[b].st = "idle" /\ bc[b].kept
Returned(b, closed) ==
  IF Keeps(b, closed) THEN [bc EXCEPT ![b].sub = "pool"] ELSE [bc EXCEPT ![b] = Closed]
PoolAfter(b, closed) == IF Keeps(b, closed) THEN Append(pool, b) ELSE pool

\* A connection for a new request: the oldest idle one, or a new one, whose
\* connect() may fail at once.  nxd_http_client_proto_start_request.
Started(cs, b) ==
  [cs EXCEPT ![b] = IF @.st = "idle"
                    THEN [Closed EXCEPT !.st = "headers", !.timer = "write", !.sub = "req"]
                    ELSE [Closed EXCEPT !.st = "connecting", !.timer = "write", !.sub = "req"]]

\* start_proxy_request, with connections cs, pool p and queue q: the body is
\* received at once into a new rb_req, while the backend is still to answer.
StartRequest(cs, p, q, data) ==
  LET fresh == {b \in Backend : cs[b].st = "none"}
      b == IF p # <<>> THEN Head(p) ELSE CHOOSE x \in fresh : TRUE
  IN /\ p # <<>> \/ fresh # {}
     /\ bc' = Started(cs, b)
     /\ pool' = IF p # <<>> THEN Tail(p) ELSE p
     /\ evq' = Heard(q, b)
     /\ rd' = [data EXCEPT !.b = b, !.timer = TRUE, !.started = FALSE, !.complete = FALSE,
                           !.error = FALSE, !.buf = 0, !.eof = FALSE]

-----------------------------------------------------------------------------
\* Answers to the client.

\* A request arrives; when connect() fails, 502 is sent.
Ask ==
  /\ srv.st = "idle"
  /\ asked < Requests
  /\ asked' = asked + 1
  /\ \E body \in BOOLEAN :
       LET s == [st |-> IF body THEN "body" ELSE "handling",
                 left |-> IF body THEN Body ELSE 0, body |-> body, ans |-> "none"]
       IN \/ StartRequest(bc, pool, evq, NoData) /\ srv' = s
          \/ /\ pool = <<>>
             /\ srv' = [s EXCEPT !.st = "sending", !.ans = "error"]
             /\ rd' = NoData
             /\ UNCHANGED <<bc, pool, evq>>

\* nxweb_http_proxy_request_finalize, when the answer is sent or the client's
\* connection ends; a client that is not kept asks no more here.
Finalize ==
  /\ srv' = Idle
  /\ rd' = NoData
  /\ IF rd.b = None THEN UNCHANGED <<bc, pool, evq>>
     ELSE /\ bc' = Returned(rd.b, rd.error)
          /\ pool' = PoolAfter(rd.b, rd.error)
          /\ evq' = Heard(evq, rd.b)
  /\ UNCHANGED asked
AnswerSent ==
  /\ srv.st = "sending"
  /\ srv.ans = "backend" => rd.b # None /\ bc[rd.b].done
  /\ Finalize
ClientEnds == srv.st # "idle" /\ Finalize

\* The client sends a unit of its body, which rb_req takes.
ReadBody ==
  /\ srv.st = "body"
  /\ rd.b # None
  /\ srv' = [srv EXCEPT !.left = @ - 1, !.st = IF srv.left = 1 THEN "handling" ELSE @]
  /\ rd' = [rd EXCEPT !.buf = @ + 1, !.eof = srv.left = 1]
  /\ UNCHANGED <<bc, pool, evq, asked>>

\* fail_proxy_request: 504, or the connection ends with the answer it has
\* begun; failed is proxy_request_error, which only a message sets.
Fail(q, failed) ==
  IF rd.started
  THEN /\ srv' = Idle
       /\ rd' = NoData
       /\ bc' = Returned(rd.b, TRUE)
       /\ pool' = PoolAfter(rd.b, TRUE)
       /\ evq' = Heard(q, rd.b)
  ELSE /\ srv' = [srv EXCEPT !.st = "sending", !.ans = "error"]
       /\ rd' = [rd EXCEPT !.started = TRUE, !.complete = TRUE, !.error = failed, !.timer = FALSE]
       /\ evq' = q
       /\ UNCHANGED <<bc, pool>>

\* retry_proxy_request: the connection is closed and the request started again;
\* nobody looks whether that failed.
Retry(q) ==
  LET cs == Returned(rd.b, TRUE)
      data == [rd EXCEPT !.retry = @ + 1]
  IN /\ \/ StartRequest(cs, pool, Heard(q, rd.b), data)
        \/ /\ RefusesAgain
           /\ pool = <<>>
           /\ rd' = [data EXCEPT !.b = None, !.timer = FALSE, !.started = FALSE,
                                   !.complete = FALSE, !.error = FALSE, !.buf = 0, !.eof = FALSE]
           /\ bc' = cs
           /\ pool' = pool
           /\ evq' = Heard(q, rd.b)
     /\ UNCHANGED srv

\* timer_backend_on_timeout.
BackendTimeout ==
  /\ rd.timer
  /\ IF bc[rd.b].begun \/ rd.started
     THEN rd' = [rd EXCEPT !.timer = FALSE] /\ UNCHANGED <<srv, bc, pool, evq>>
     ELSE IF rd.retry >= RetryCount THEN Fail(evq, rd.error) ELSE Retry(evq)
  /\ UNCHANGED asked

-----------------------------------------------------------------------------
\* The backend connection's protocol (nxd_http_client_proto.c).

Turn(b, c, q) == bc' = [bc EXCEPT ![b] = c] /\ evq' = q /\ UNCHANGED <<srv, rd, pool, asked>>
Say(b, m) == IF bc[b].sub = "none" THEN evq ELSE Append(evq, <<b, m>>)

\* data_out_do_write: connected, then the headers; with a body, the backend
\* must allow it first.
Connected(b) ==
  /\ bc[b].st = "connecting"
  /\ Turn(b, [bc[b] EXCEPT !.st = "headers"], evq)
\* Mutant: no timer watches over the wait for the answer.
WaitsForever(c) == [c EXCEPT !.st = "waiting", !.timer = "none"]
StartReceiving(c) == [c EXCEPT !.st = "waiting", !.timer = "read"]
SendHeaders(b) ==
  /\ bc[b].st = "headers"
  /\ Turn(b, IF srv.body THEN [bc[b] EXCEPT !.st = "wait100", !.timer = "100"]
             ELSE StartReceiving(bc[b]), evq)

\* data_in_do_read of a 100 Continue, and of another answer in its place.
Continue(b) ==
  /\ bc[b].st = "wait100"
  /\ \/ Turn(b, [bc[b] EXCEPT !.st = "sendBody", !.timer = "write"], evq)
     \/ Turn(b, [bc[b] EXCEPT !.st = "respBody", !.timer = "read"],
             evq \o <<<<b, "no100">>, <<b, "response">>>>)

\* data_out_do_write and req_body_in_write: a unit from rb_req, or none yet.
\* The end of the body comes with its last unit.
\* Mutant: the end counts whatever is still in the buffer.
EndInBuffer == rd.eof
LastUnit == rd.eof /\ rd.buf = 1
SendBody(b) ==
  /\ bc[b].st = "sendBody"
  /\ rd.b = b
  /\ rd.buf > 0 \/ ~bc[b].begun
  /\ LET c == [bc[b] EXCEPT !.begun = TRUE]
     IN bc' = [bc EXCEPT ![b] = IF LastUnit THEN StartReceiving(c) ELSE c]
  /\ rd' = [rd EXCEPT !.buf = IF @ > 0 THEN @ - 1 ELSE 0]
  /\ UNCHANGED <<srv, pool, evq, asked>>

\* data_in_do_read of the headers of an answer.
Respond(b) ==
  /\ bc[b].st = "waiting"
  /\ \/ Turn(b, [bc[b] EXCEPT !.st = "respBody"], Say(b, "response"))
     \/ \* its end has come with the headers
        Turn(b, [bc[b] EXCEPT !.st = "respBody", !.whole = TRUE], Say(b, "response"))
     \/ Turn(b, [bc[b] EXCEPT !.st = "bad", !.timer = "none"], Say(b, "bad"))

\* resp_body_out_read to the end of the body: request_complete.
Complete(b) ==
  /\ bc[b].st = "respBody"
  /\ \E kept \in BOOLEAN :
       Turn(b, [bc[b] EXCEPT !.st = "idle", !.timer = "keep", !.done = TRUE, !.whole = TRUE,
                             !.kept = kept],
            IF bc[b].queued THEN Say(b, "complete") \o <<<<b, "error">>>> ELSE Say(b, "complete"))

\* data_error_on_message: an error after the end of the answer has come waits
\* until the answer has been read.
Waits(b) == bc[b].whole /\ ~bc[b].done
Error(b) ==
  /\ bc[b].st # "none"
  /\ <<b, "error">> \notin ToSet(evq)
  /\ IF Waits(b) THEN Turn(b, [bc[b] EXCEPT !.queued = TRUE], evq)
     ELSE Turn(b, bc[b], Say(b, "error"))
ProtoTimeout(b) ==
  /\ bc[b].timer # "none"
  /\ Turn(b, [bc[b] EXCEPT !.timer = "none"], Say(b, "timeout"))

-----------------------------------------------------------------------------
\* Messages.

\* nxweb_http_server_proxy_events_sub_on_message.
OnResponse ==
  /\ rd' = [rd EXCEPT !.timer = FALSE, !.started = TRUE]
  /\ srv' = IF srv.st = "sending" THEN srv ELSE [srv EXCEPT !.st = "sending", !.ans = "backend"]
  /\ evq' = Tail(evq)
  /\ UNCHANGED <<bc, pool>>
OnComplete ==
  /\ rd' = [rd EXCEPT !.complete = TRUE]
  /\ evq' = Tail(evq)
  /\ UNCHANGED <<srv, bc, pool>>

\* Mutant: a request whose body is on its way is started again as well.
AgainAnyway == rd.retry < RetryCount
\* Mutant: one retry too many.
OneMore == rd.retry <= RetryCount /\ ~bc[rd.b].begun
MayRetry == rd.retry < RetryCount /\ ~bc[rd.b].begun
OnNegative ==
  IF rd.complete
  THEN rd' = [rd EXCEPT !.error = TRUE] /\ evq' = Tail(evq) /\ UNCHANGED <<srv, bc, pool>>
  ELSE IF rd.started \/ ~MayRetry THEN Fail(Tail(evq), TRUE) ELSE Retry(Tail(evq))

\* nxd_http_proxy_events_sub_on_message: an idle connection ends.
OnIdle(b) ==
  /\ bc' = [bc EXCEPT ![b] = Closed]
  /\ pool' = Selected(pool, Backend \ {b})
  /\ evq' = Heard(evq, b)
  /\ UNCHANGED <<srv, rd>>

Deliver ==
  /\ evq # <<>>
  /\ LET b == Head(evq)[1]
         m == Head(evq)[2]
     IN IF bc[b].sub = "pool" THEN OnIdle(b)
        ELSE \/ m = "response" /\ OnResponse
             \/ m = "complete" /\ OnComplete
             \/ m \in Negative /\ OnNegative
  /\ UNCHANGED asked

Protocol == \E b \in Backend : \/ Connected(b)
                               \/ SendHeaders(b)
                               \/ Continue(b)
                               \/ SendBody(b)
                               \/ Respond(b)
                               \/ Complete(b)
                               \/ Error(b)
                               \/ ProtoTimeout(b)
Client == \/ Ask
          \/ ReadBody
          \/ ClientEnds
ProxyNext == \/ Client
        \/ AnswerSent
        \/ BackendTimeout
        \/ Protocol
        \/ Deliver

\* The loop delivers messages and fires timers; what can be sent is sent; a
\* client's connection in a state with a timer ends at last.
ClientTimeout == srv.st \in {"body", "sending"} /\ Finalize
Timers == \E b \in Backend : ProtoTimeout(b)
ProxyFairness == /\ WF_proxyVars(Deliver)
            /\ WF_proxyVars(Timers)
            /\ WF_proxyVars(BackendTimeout)
            /\ WF_proxyVars(ClientTimeout)

ProxySpec == ProxyInit /\ [][ProxyNext]_proxyVars
FairProxySpec == ProxySpec /\ ProxyFairness

-----------------------------------------------------------------------------
\* Properties.

\* Types, and the few combinations of the flags of a request that occur.
ProxyTypeOK ==
  /\ srv \in [st : {"idle", "body", "handling", "sending"}, left : 0..Body, body : BOOLEAN,
              ans : {"none", "backend", "error"}]
  /\ rd \in [b : Backend \cup {None}, retry : 0..RetryCount, timer : BOOLEAN, started : BOOLEAN,
             complete : BOOLEAN, error : BOOLEAN, buf : 0..Body, eof : BOOLEAN]
  /\ bc \in [Backend -> [st : States, timer : {"none", "write", "100", "read", "keep"},
                         sub : {"none", "req", "pool"}, begun : BOOLEAN, whole : BOOLEAN,
                         done : BOOLEAN, kept : BOOLEAN, queued : BOOLEAN]]
  /\ pool \in Seq(Backend)
  /\ evq \in Seq(Backend \X Messages)
  /\ asked \in 0..Requests
  /\ rd.started <=> srv.st = "sending" /\ rd.b # None

\* A connection is in the pool, or serves the request, or does not exist; an
\* idle one is alive, its exchange finished, and has no message of an earlier
\* request under way that the next one would take for its own.
PoolSound ==
  /\ {b \in Backend : bc[b].sub = "pool"} = ToSet(pool)
  /\ Cardinality(ToSet(pool)) = Len(pool)
  /\ InUse = {rd.b} \ {None}
  /\ \A b \in ToSet(pool) : bc[b].st = "idle" /\ bc[b].done /\ bc[b].kept
  /\ \A e \in ToSet(evq) :
       /\ bc[e[1]].sub # "none"
       /\ e[2] \in {"response", "complete"} =>
            bc[e[1]].sub = "req" /\ bc[e[1]].st \in {"respBody", "idle"}
       /\ e[2] = "complete" => bc[e[1]].done

\* The answer that the client gets comes from a backend connection that is
\* still there to give the rest of it, and the buffer it passes through holds
\* nothing of the request: they share it, "as they do not overlap in time".
AnswerHasSource ==
  srv.ans = "backend" => /\ rd.b # None
                         /\ bc[rd.b].st \in {"respBody", "idle"}
                         /\ rd.buf = 0

\* A backend never gets the body of a request that another one has got in part:
\* a request is not started again once its body is on its way.
BodyOnce == [][rd'.retry > rd.retry => ~bc[rd.b].begun]_proxyVars

\* All that is promised of every state and step.
ProxySound == [](ProxyTypeOK /\ PoolSound /\ AnswerHasSource) /\ BodyOnce

\* A request the backend must answer is answered or given up, whatever the
\* backend does: in this state the client's connection has no timer of its own.
HandlingEnds == srv.st = "handling" ~> srv.st # "handling"
=============================================================================
