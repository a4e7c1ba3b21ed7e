------------------------------- MODULE NxConn -------------------------------
(***************************************************************************)
(* One client connection of nxweb in its event loop: the HTTP server       *)
(* protocol (lib/nxd_http_server_proto.c), the streams, messages and       *)
(* timers of the loop (lib/nx_event.c, include/nxweb/nx_event.h), the      *)
(* socket (lib/nxd_socket.c), the buffers of a body (lib/nxd_buffer.c) and *)
(* the connection's handler of the protocol's events (lib/http_server.c).  *)
(*                                                                         *)
(* A stream is a pair of an istream and an ostream.  It is linked into the *)
(* loop's queue when both ends are ready; delivering it calls do_write of  *)
(* the istream, or else do_read of the ostream, until one end is not.      *)
(*   "in"    socket -> data_in               "out"  data_out -> socket     *)
(*   "body"  req_body_out -> the ibuffer     "src"  content -> resp_body_in*)
(* Messages of publishers wait in the same queue.                          *)
(*                                                                         *)
(* Data is counted in units: a response's headers, a 100 Continue and each *)
(* piece of a body are one unit.  A client sends a request only after the  *)
(* answer to the one before (the bytes of a request that arrive with the   *)
(* headers of a GET are dropped, nxd_http_server_proto.c:174-178).         *)
(***************************************************************************)
EXTENDS Naturals, Sequences, FiniteSets, SequencesExt

CONSTANTS Body,      \* units of a request's body
          Content,   \* units of a response's content
          Room,      \* units the socket takes before it is full
          Buffer,    \* units a read can return
          MaxPump,   \* 50: calls of one delivery
          Requests,  \* bound: requests of a client
          Accepts    \* bound: connections accepted

ASSUME NxConnAssumption ==
  /\ {Body, Content, Room, Buffer, MaxPump} \subseteq Nat \ {0}
  /\ {Requests, Accepts} \subseteq Nat

VARIABLES
  h,     \* the connection with its streams, its timers, the loop's queue and
         \* what the kernel's socket holds
  peer,  \* the client
  phase,    \* "poll" before, "work" within nxe_process_loop
  accepted  \* connections so far

vars == <<h, peer, phase, accepted>>

Streams == {"in", "out", "body", "src"}
Kinds   == {"get", "post", "expect", "bad"}
HasBody == {"post", "expect"}
Timers  == {"keep", "read", "write"}
Messages == {"error", "drop", "received", "whole", "complete", "worker"}
Sending == {"sendHeaders", "sendBody"}
None    == "none"

Free == [st |-> "free", kind |-> None, keep |-> TRUE,
         is |-> [x \in Streams |-> FALSE], os |-> [x \in Streams |-> x \in {"in", "src"}],
         paired |-> {}, q |-> <<>>, pump |-> None, left |-> 0, timers |-> [t \in Timers |-> 0],
         cont |-> FALSE, chunk |-> 0, got |-> 0,
         rest |-> 0, avail |-> 0, handler |-> "idle", closing |-> FALSE,
         seen |-> 0, done |-> 0, inbox |-> <<>>, room |-> Room]

Nobody == [script |-> <<>>, gone |-> TRUE, edges |-> {}, asked |-> 0]

Init == /\ h = Free
        /\ peer = Nobody
        /\ phase = "poll"
        /\ accepted = 0

Least(a, b) == IF a < b THEN a ELSE b

-----------------------------------------------------------------------------
\* The event loop (nx_event.c, nx_event.h).

Linked(s, x)  == x \in ToSet(s.q)
Link(s, x)    == [s EXCEPT !.q = Append(@, x)]
Publish(s, m) == Link(s, m)

\* nxe_istream_set_ready and nxe_ostream_set_ready.
LinkIfBoth(s, x) ==
  IF x \in s.paired /\ s.is[x] /\ s.os[x] /\ ~Linked(s, x) THEN Link(s, x) ELSE s
IsReady(s, x) == IF s.is[x] THEN s ELSE LinkIfBoth([s EXCEPT !.is[x] = TRUE], x)
\* Mutant: an ostream that becomes ready does not wake its istream.
OsQuiet(s, x) == [s EXCEPT !.os[x] = TRUE]
OsReady(s, x) == LinkIfBoth([s EXCEPT !.os[x] = TRUE], x)

\* nxe_connect_streams links without asking; nxe_disconnect_streams unlinks.
Connect(s, x) ==
  LET t == [s EXCEPT !.paired = @ \cup {x}] IN IF s.is[x] /\ s.os[x] THEN Link(t, x) ELSE t
Unlinked(q, x) == IF x \in ToSet(q) THEN RemoveAt(q, CHOOSE i \in DOMAIN q : q[i] = x) ELSE q
Disconnect(s, x) == [s EXCEPT !.paired = @ \ {x}, !.q = Unlinked(@, x)]

\* nxe_set_timer asserts that the timer is not set: 2 stands for that failure.
Set(s, t) == [s EXCEPT !.timers[t] = Least(@ + 1, 2)]
\* Mutant: the timer stays in its list.
StaysSet(s, t) == s
Unset(s, t) == [s EXCEPT !.timers[t] = 0]

-----------------------------------------------------------------------------
\* Sending: data_out, resp_body_in and the content's stream.

\* The socket's write of n units: what it takes; it is ready while it takes all.
Taken(s, n) == Least(n, s.room)
Wrote(s, n) == [s EXCEPT !.room = @ - Taken(s, n), !.os["out"] = n = Taken(s, n)]

\* request_complete: its message ends the request.
\* Mutant: the write timer goes on.
KeepsTimer(s) ==
  Publish(Disconnect(Disconnect([s EXCEPT !.is["out"] = FALSE, !.done = @ + 1], "src"), "body"),
          "complete")
RequestComplete(s) ==
  LET t == Unset([s EXCEPT !.is["out"] = FALSE, !.done = @ + 1], "write")
  IN Publish(Disconnect(Disconnect(t, "src"), "body"), "complete")

\* nxd_http_server_proto_start_sending_response.  The content is nothing, a
\* buffer, or a stream whose data is still to come.
StartSending(s, content, keep) ==
  LET t == [Unset(s, "read") EXCEPT !.keep = keep, !.handler = "idle",
              !.rest = IF content = "nothing" THEN 0 ELSE Content,
              !.avail = IF content = "buffer" THEN Content ELSE 0,
              !.is["src"] = content = "buffer"]
      u == IF content = "nothing" THEN t ELSE Connect(t, "src")
  IN Set([(IF s.cont THEN u ELSE IsReady(u, "out")) EXCEPT !.st = "sendHeaders"], "write")

\* resp_body_in_write_or_sendfile, called by do_write of the content with all
\* it has; eof when nothing follows.
BodyWrite(s) ==
  IF s.st # "sendBody" THEN IsReady([s EXCEPT !.os["src"] = FALSE], "out")
  ELSE LET k == IF s.os["out"] THEN Taken(s, s.avail) ELSE 0
           t == Unset(IF s.os["out"] THEN Wrote(s, s.avail) ELSE s, "write")
           u == IF t.os["out"] THEN t ELSE IsReady([t EXCEPT !.os["src"] = FALSE], "out")
           v == [u EXCEPT !.rest = @ - k, !.avail = @ - k]
       IN IF v.rest = 0 THEN RequestComplete(v) ELSE Set(v, "write")

\* A stream that has passed on all it had waits for more.
ContentWrite(s) ==
  LET t == BodyWrite(s)
  IN IF t.avail = 0 /\ t.rest > 0 THEN [t EXCEPT !.is["src"] = FALSE] ELSE t

\* data_out_do_write, from the body on.
SendBody(s) ==
  IF s.st # "sendBody" \/ "src" \notin s.paired THEN [s EXCEPT !.is["out"] = FALSE]
  ELSE LET t == IF s.is["src"] THEN ContentWrite([s EXCEPT !.os["src"] = TRUE]) ELSE s
       IN IF t.is["src"] THEN t ELSE OsReady([t EXCEPT !.is["out"] = FALSE], "src")

\* ... from the headers on, the write timer started anew.
SendHeaders(s) ==
  LET r == Set(Unset(s, "write"), "write")
      t == Wrote(r, 1)
  IN IF s.st # "sendHeaders" THEN SendBody(r)
     ELSE IF Taken(s, 1) = 0 THEN t
     ELSE IF s.rest = 0 THEN RequestComplete(t)
     ELSE SendBody([t EXCEPT !.st = "sendBody"])

\* ... and the 100 Continue before them.
DataOut(s) ==
  LET t == Wrote(s, 1)
  IN IF ~s.cont THEN SendHeaders(s)
     ELSE IF Taken(s, 1) = 0 THEN t
     ELSE IF s.st = "sendHeaders" THEN SendHeaders([t EXCEPT !.cont = FALSE])
     ELSE [t EXCEPT !.cont = FALSE, !.is["out"] = FALSE]

-----------------------------------------------------------------------------
\* Receiving: data_in, req_body_out and the ibuffer.

\* The socket's read of at most n units: those that have arrived.  It is ready
\* while it fills the buffer; the end of the input is an error of the socket.
SockRead(s, n) ==
  LET k == Least(n, Len(s.inbox))
      t == [s EXCEPT !.inbox = SubSeq(@, k + 1, Len(@)), !.is["in"] = n = k]
  IN IF k = 0 /\ peer.gone THEN Publish(t, "error") ELSE t

\* data_in_do_read at the end of the headers of a request.
HeadersEnd(s, kind, chunk) ==
  LET t == [s EXCEPT !.kind = kind, !.os["in"] = FALSE, !.chunk = chunk,
                     !.seen = @ + 1]
      c == kind = "expect" /\ chunk = 0
      u == Publish(IF c THEN IsReady([t EXCEPT !.cont = TRUE], "out") ELSE t, "received")
      bad == [Unset(s, "read") EXCEPT !.kind = kind, !.os["in"] = FALSE, !.seen = @ + 1]
  IN IF kind \notin {"get"} \cup HasBody THEN StartSending(bad, "buffer", FALSE)
     ELSE IF kind \in HasBody THEN IsReady([u EXCEPT !.st = "body"], "body")
     ELSE [Unset(u, "read") EXCEPT !.st = "handling", !.chunk = 0]

Headers(s, n) ==
  LET got  == SubSeq(s.inbox, 1, Least(n, Len(s.inbox)))
      ends == {i \in 1..Len(got) : got[i] # "part"}
      t    == SockRead(s, n)
  IN IF ends = {} THEN t
     ELSE LET i == CHOOSE j \in ends : \A k \in ends : j <= k
          IN HeadersEnd(t, got[i], Len(got) - i)

\* req_body_out_read of at most n units; the end of the body closes the ibuffer.
BodyEnd(s) ==
  Publish([s EXCEPT !.st = "handling", !.os["in"] = FALSE, !.is["body"] = FALSE,
                    !.os["body"] = FALSE], "whole")
BodyRead(s, n) ==
  LET size == Least(n, Body - s.got)
      k == Least(size, s.chunk)
      t == [Unset(s, "read") EXCEPT !.chunk = @ - k, !.got = @ + k]
      l == Least(size - k, Len(s.inbox))
      r == IF size > k /\ s.is["in"] THEN [SockRead(t, size - k) EXCEPT !.got = @ + l] ELSE t
      u == IF size > k /\ ~r.is["in"] THEN OsReady([r EXCEPT !.is["body"] = FALSE], "in") ELSE r
  IN IF s.st = "handling" THEN [s EXCEPT !.is["body"] = FALSE, !.os["body"] = FALSE]
     ELSE IF s.st # "body" THEN OsReady([s EXCEPT !.is["body"] = FALSE], "in")
     ELSE IF r.got = Body THEN BodyEnd(u) ELSE Set(u, "read")

\* data_in_do_read.
DataIn(s, n) ==
  LET t == IF "body" \in s.paired /\ s.os["body"] THEN BodyRead(s, n) ELSE s
  IN CASE s.st = "waiting" -> Headers([Set(Unset(s, "keep"), "read") EXCEPT !.st = "headers"], n)
       [] s.st = "headers" -> Headers(s, n)
       [] s.st = "body" -> IF "body" \notin s.paired THEN [s EXCEPT !.os["in"] = FALSE]
                           ELSE IF t.os["body"] THEN t
                           ELSE IsReady([t EXCEPT !.os["in"] = FALSE], "body")
       [] OTHER -> s

-----------------------------------------------------------------------------
\* The connection's handler of messages (http_server.c).

\* nxd_http_server_proto_finalize and what surrounds it: everything that waits
\* in the loop for the connection is unlinked.
Dropped(s) == IF s.handler = "worker" THEN [s EXCEPT !.closing = TRUE] ELSE Free

\* request_cleanup: a connection that is not kept is shut down and waits for
\* the client to close it, as long as an idle one.
Recycled(s) == [s EXCEPT !.st = "waiting", !.kind = None, !.got = 0, !.chunk = 0, !.cont = FALSE]
\* Mutant: input is accepted again in any case.
AlwaysRearms(s) == Set(OsReady(Recycled(s), "in"), "keep")
\* Mutant: the client is trusted to close its end.
TrustsClient(s) == IF s.keep THEN Set(OsReady(Recycled(s), "in"), "keep") ELSE Recycled(s)
Cleanup(s) == Set(IF s.keep THEN OsReady(Recycled(s), "in") ELSE Recycled(s), "keep")

\* invoke_request_handler: it answers, or a worker does, or a later event does.
Contents == {"nothing", "buffer", "stream"}
Invoked(s) == {StartSending(s, c, k) : c \in Contents, k \in BOOLEAN}
              \cup {[s EXCEPT !.handler = w] : w \in {"worker", "later"}}

\* NXD_HSP_REQUEST_RECEIVED: refused for its method or its size, or by
\* on_headers; else a body is read first.
\* Mutant: the handler does not wait for the body.
Hasty(s) ==
  Invoked(IF s.kind \in HasBody THEN OsReady(Connect([s EXCEPT !.os["body"] = TRUE], "body"), "in")
          ELSE s)
Received(s) ==
  {StartSending(s, "buffer", s.kind \notin HasBody)}
  \cup IF s.kind \in HasBody THEN {OsReady(Connect([s EXCEPT !.os["body"] = TRUE], "body"), "in")}
       ELSE Invoked(s)

OnMessage(s, m) ==
  CASE m = "error"    -> {Publish(s, "drop")}
    [] m = "drop"     -> {Dropped(s)}
    [] m = "received" -> Received(s)
    [] m = "whole"    -> Invoked(s)
    [] m = "complete" -> {Cleanup(s)}
    [] m = "worker"   -> IF s.closing THEN {Free}
                         ELSE {StartSending(s, c, s.keep) : c \in Contents}

-----------------------------------------------------------------------------
\* The loop.

AfterStep(s) ==
  /\ h' = s
  /\ peer' = IF s.st = "free" THEN Nobody ELSE peer
  /\ phase' = IF s.q = <<>> /\ s.pump = None THEN "poll" ELSE "work"
  /\ UNCHANGED accepted

\* nxe_process_loop takes the first event.
DeliverMessage ==
  /\ h.pump = None
  /\ h.q # <<>>
  /\ Head(h.q) \in Messages
  /\ \E s \in OnMessage([h EXCEPT !.q = Tail(@)], Head(h.q)) : AfterStep(s)

DeliverStream ==
  /\ h.pump = None
  /\ h.q # <<>>
  /\ Head(h.q) \in Streams
  /\ AfterStep([h EXCEPT !.q = Tail(@), !.pump = Head(h.q), !.left = MaxPump])

\* One round of stream_event_deliver.
Moves(x, s) == CASE x = "in"   -> {DataIn(s, n) : n \in 1..Buffer}
                 [] x = "out"  -> {DataOut(s)}
                 [] x = "body" -> {BodyRead(s, n) : n \in 1..Buffer}
                 [] x = "src"  -> {ContentWrite(s)}
\* Mutant: a stream that is not finished after its rounds is forgotten.
Forgets(s, x) == s
Relinks(s, x) == Link(s, x)
Pump ==
  LET x == h.pump
      stopped == [h EXCEPT !.pump = None, !.left = 0]
  IN /\ x # None
     /\ IF ~(x \in h.paired /\ h.is[x] /\ h.os[x]) THEN AfterStep(stopped)
        ELSE IF h.left = 0 THEN AfterStep(Relinks(stopped, x))
        ELSE \E s \in Moves(x, [h EXCEPT !.left = @ - 1]) : AfterStep(s)

\* Epoll reports what holds for the socket when anything of it has changed.
Emit ==
  /\ phase = "poll"
  /\ peer.edges # {}
  /\ LET r == IF h.inbox # <<>> \/ peer.gone THEN IsReady(h, "in") ELSE h
         w == IF h.room > 0 THEN OsReady(r, "out") ELSE r
     IN h' = IF peer.gone THEN Publish(w, "error") ELSE w
  /\ peer' = [peer EXCEPT !.edges = {}]
  /\ UNCHANGED <<phase, accepted>>

\* nxe_process_timers.
Timeout(t) ==
  /\ phase = "poll"
  /\ h.timers[t] > 0
  /\ h' = Publish([h EXCEPT !.timers[t] = 0], "drop")
  /\ UNCHANGED <<peer, phase, accepted>>

\* The worker's eventfd, and the event a handler that answers later waits for.
WorkerDone ==
  /\ phase = "poll"
  /\ h.handler = "worker"
  /\ ~Linked(h, "worker")
  /\ h' = Publish(h, "worker")
  /\ UNCHANGED <<peer, phase, accepted>>
Later ==
  /\ phase = "poll"
  /\ h.handler = "later"
  /\ \E c \in Contents : h' = StartSending(h, c, TRUE)
  /\ UNCHANGED <<peer, phase, accepted>>

\* Data of a content that is a stream arrives.
Arrives ==
  /\ phase = "poll"
  /\ h.st \in Sending
  /\ h.avail < h.rest
  /\ h' = IsReady([h EXCEPT !.avail = @ + 1], "src")
  /\ UNCHANGED <<peer, phase, accepted>>

-----------------------------------------------------------------------------
\* Clients.

\* nxweb_http_server_connection_connect.
Accept ==
  /\ phase = "poll"
  /\ h.st = "free"
  /\ accepted < Accepts
  /\ accepted' = accepted + 1
  /\ h' = Set([Free EXCEPT !.st = "waiting", !.paired = {"in", "out"}], "keep")
  /\ peer' = [Nobody EXCEPT !.gone = FALSE, !.edges = {"out"}]
  /\ UNCHANGED phase

Alive == h.st # "free" /\ ~peer.gone
Script(k) == IF k = "bad" THEN <<k>>
             ELSE <<"part", k>> \o IF k \in HasBody THEN [i \in 1..Body |-> "piece"] ELSE <<>>
Ask ==
  /\ Alive
  /\ peer.script = <<>>
  /\ peer.asked = h.done
  /\ peer.asked < Requests
  /\ \E k \in Kinds : peer' = [peer EXCEPT !.script = Script(k), !.asked = @ + 1]
  /\ UNCHANGED <<h, phase, accepted>>
Send ==
  /\ Alive
  /\ peer.script # <<>>
  /\ h' = [h EXCEPT !.inbox = Append(@, Head(peer.script))]
  /\ peer' = [peer EXCEPT !.script = Tail(@), !.edges = @ \cup {"in"}]
  /\ UNCHANGED <<phase, accepted>>
Drain ==
  /\ Alive
  /\ h.room < Room
  /\ h' = [h EXCEPT !.room = Room]
  /\ peer' = [peer EXCEPT !.edges = IF h.os["out"] THEN @ ELSE @ \cup {"out"}]
  /\ UNCHANGED <<phase, accepted>>
Leave ==
  /\ Alive
  /\ peer' = [peer EXCEPT !.gone = TRUE, !.script = <<>>, !.edges = @ \cup {"hup"}]
  /\ UNCHANGED <<h, phase, accepted>>

Net == \/ DeliverMessage
       \/ DeliverStream
       \/ Pump
       \/ Emit
Timing == \E t \in Timers : Timeout(t)
Backend == \/ WorkerDone
           \/ Later
           \/ Arrives
Client == \/ Accept
          \/ Ask
          \/ Send
          \/ Drain
          \/ Leave
Next == \/ Net
        \/ Timing
        \/ Backend
        \/ Client

Spec == Init /\ [][Next]_vars

\* The loop runs, time passes and a handler that has not answered will; a
\* client, and the source of a content, may stop.
FairSpec == Spec /\ WF_vars(Net) /\ WF_vars(Timing) /\ WF_vars(WorkerDone \/ Later)

-----------------------------------------------------------------------------
\* The connection's fields have their types, and the assertions of the loop
\* hold: no timer is set twice (nx_event.c:103), no event linked twice (:37).
TypeOK ==
  /\ h.st \in {"free", "waiting", "headers", "body", "handling"} \cup Sending
  /\ h.kind \in Kinds \cup {None, "piece"}
  /\ h.timers \in [Timers -> {0, 1}]
  /\ \A i, j \in DOMAIN h.q : h.q[i] \in Streams /\ h.q[i] = h.q[j] => i = j
  /\ h.got \in 0..Body
  /\ h.rest \in 0..Content

\* A stream that could move data is linked, or being delivered: no wake-up is
\* lost, whichever end becomes ready first.
NoLostWakeup ==
  \A x \in h.paired : h.is[x] /\ h.os[x] => Linked(h, x) \/ h.pump = x

\* While the loop waits, a connection has the timer of what it waits for, and
\* no other; only a request in a handler has none.
TimersCover ==
  phase = "poll" /\ h.q = <<>> =>
    {t \in Timers : h.timers[t] > 0} =
      CASE h.st = "waiting" -> {"keep"}
        [] h.st \in {"headers", "body"} -> {"read"}
        [] h.st \in Sending -> {"write"}
        [] OTHER -> {}

\* A request is answered once, before the next one is read.
OneAnswer ==
  h.seen - h.done = IF h.st \in {"body", "handling"} \cup Sending /\ ~Linked(h, "complete")
                    THEN 1 ELSE 0

\* A handler is called with the whole body, and no piece of a body is read as
\* the headers of a request, not even after a request that was refused before
\* its body had come.
BodyWhole ==
  /\ h.handler # "idle" /\ h.kind \in HasBody => h.got = Body
  /\ h.kind # "piece"

\* A connection is served: its streams are woken, its timers set, its requests
\* read whole and answered once, as stated above.
ConnSound == TypeOK /\ NoLostWakeup /\ TimersCover /\ OneAnswer /\ BodyWhole

\* Every connection ends: with its client, or by one of its timers.
ConnectionsEnd == h.st # "free" ~> h.st = "free"
=============================================================================
