----------------------------- MODULE NxMessages -----------------------------
(***************************************************************************)
(* The headers of HTTP messages, from one end of a chain to the other:     *)
(* client -> nxweb -> (as a proxy) nxweb -> handler, and back.  A message  *)
(* is written by one function of http_utils.c and read by another one; the *)
(* headers decide where its body ends and whether the connection serves    *)
(* another request, and the two ends never compare their conclusions.      *)
(*                                                                         *)
(* A message has a first line, the headers the server knows (a function    *)
(* from names to values), the names of the others, and the data behind it: *)
(* units of the body and, in the chunked coding, an end.  The client reads *)
(* answers the way nxd_http_client_proto.c does.                           *)
(***************************************************************************)
EXTENDS Integers, Sequences

CONSTANT MaxBody    \* units of a body

ASSUME BodyBound == MaxBody \in Nat

VARIABLES
  at,        \* where the request, then its answer, is
  proxied,   \* the first server passes the request to another one
  wire,      \* the message on its way
  asked,     \* what the client wrote, as it meant it
  request,   \* nxweb_http_request of the first server
  seen,      \* what the handler was given
  resp,      \* nxweb_http_response of the first server
  served,    \* what the handler answered
  got,       \* what the client made of the answer
  left       \* the data each connection holds when it is kept, by its server

messagesVars == <<at, proxied, wire, asked, request, seen, resp, served, got, left>>

NoMessage == [none |-> TRUE]
Closed == <<"closed">>
Unit == "unit"
End == "end"

\* A header that is there or not, and headers after one another.
If(c, name, value) == [n \in IF c THEN {name} ELSE {} |-> value]
f ++ g == [n \in DOMAIN f \cup DOMAIN g |-> IF n \in DOMAIN f THEN f[n] ELSE g[n]]
Get(m, name, default) == IF name \in DOMAIN m.own THEN m.own[name] ELSE default
Body(n, chunked) == [i \in 1..n |-> Unit] \o (IF chunked THEN <<End>> ELSE <<>>)
-----------------------------------------------------------------------------
(* Reading a request. *)

\* The headers _nxweb_parse_http_request keeps in fields of their own; the others
\* stay in the list.  (A request with "Trailer" is refused like one without "Host".)
OfRequest == {"Host", "Expect", "Content-Length", "Transfer-Encoding", "If-Modified-Since",
              "Connection", "Range"}

\* _nxweb_parse_http_request: the coding overrides the length.
\* Mutant: the length is taken as it is.
TrustsLength(m, chunked) == Get(m, "Content-Length", 0)
LengthOf(m, chunked) == IF chunked THEN -1 ELSE Get(m, "Content-Length", 0)

ParseRequest(m) ==
  LET chunked == Get(m, "Transfer-Encoding", "none") = "chunked"
      len     == LengthOf(m, chunked)
      bad     == "Host" \notin DOMAIN m.own
      head    == m.method = "HEAD" /\ ~bad      \* a refused request keeps its method
  IN [bad |-> bad, head |-> head, method |-> IF head THEN "GET" ELSE m.method,
      http11 |-> m.http11,
      keep_alive |-> IF "Connection" \in DOMAIN m.own THEN m.own["Connection"] = "keep-alive"
                     ELSE m.http11,
      length |-> len, chunked |-> chunked,
      expect |-> len # 0 /\ Get(m, "Expect", "none") = "100-continue",
      since |-> Get(m, "If-Modified-Since", 0), extra |-> m.extra \ OfRequest]

\* The units req_body_out_read passes on before is_request_body_complete, and what
\* stays in the connection.
BodyRead(r, data) ==
  IF r.length = 0 THEN 0
  ELSE IF r.chunked THEN Len(data) - 1
  ELSE IF r.length < Len(data) THEN r.length ELSE Len(data)
Unread(r, data) == Len(data) - BodyRead(r, data) - (IF r.chunked THEN 1 ELSE 0)

(* Writing a request: start_proxy_request, _nxweb_prepare_client_request_headers. *)

\* The proxy keeps the connection and asks before it sends a body.
ProxyRequest(r) == [r EXCEPT !.http11 = TRUE, !.keep_alive = TRUE, !.expect = r.length # 0]

\* Mutant: a request whose length is not known has no framing.
NoCoding(r) == If(r.length > 0, "Content-Length", r.length)
Framing(r) == If(r.length > 0, "Content-Length", r.length)
              ++ If(r.length < 0, "Transfer-Encoding", "chunked")

RequestHeaders(r) ==
  [method |-> IF r.head THEN "HEAD" ELSE r.method, http11 |-> r.http11,
   own |-> If(TRUE, "Host", "host")
           ++ If(TRUE, "Connection", IF r.keep_alive THEN "keep-alive" ELSE "close")
           ++ If(r.since # 0, "If-Modified-Since", r.since)
           ++ If(r.expect, "Expect", "100-continue") ++ Framing(r),
   extra |-> r.extra, data |-> <<>>]
-----------------------------------------------------------------------------
(* Writing an answer. *)

MustNotHaveBody(status) == status \in {204, 205, 304}

\* _nxweb_add_extra_response_headers: what the server writes itself is skipped.
\* Mutant: it is written as the handler gave it.
AllOfThem(names) == names
Filtered(names) == names \ {"Connection", "Server", "Content-Type", "Content-Length",
                            "Transfer-Encoding", "Date", "Last-Modified"}

\* _nxweb_prepare_response_headers.
ResponseHeaders(p) ==
  [status |-> p.status, http11 |-> p.http11,
   own |-> If(TRUE, "Connection", IF p.keep_alive THEN "keep-alive" ELSE "close")
           ++ If(p.modified # 0, "Last-Modified", p.modified)
           ++ If((p.length # 0 \/ ~MustNotHaveBody(p.status)) /\ p.length >= 0,
                 "Content-Length", p.length)
           ++ If(p.length < 0, "Transfer-Encoding", "chunked"),
   extra |-> Filtered(p.extra), data |-> <<>>]

\* nxweb_send_redirect2 writes the headers of its answer itself.
RedirectHeaders(p) ==
  [status |-> p.status, http11 |-> p.http11, extra |-> {"Location"}, data |-> <<>>,
   own |-> If(TRUE, "Connection", IF p.keep_alive THEN "keep-alive" ELSE "close")
           ++ If(TRUE, "Content-Length", 0)]

\* nxd_http_server_proto_start_sending_response: what the client has is not sent again
\* (nxweb_reset_content_out).
IfModified(r, p) ==
  IF r.since # 0 /\ p.modified # 0 /\ p.modified <= r.since /\ p.status # 304
  THEN [p EXCEPT !.status = 304, !.length = 0, !.chunked = FALSE, !.body = 0] ELSE p

\* data_out_do_write: the request is complete after the headers, or its body follows.
\* Mutant: also when only the headers were asked for.
Follows(r, p) == p.length # 0
HasBody(r, p) == p.length # 0 /\ ~r.head

Send(r, p) ==
  LET q == IfModified(r, p)
  IN [IF q.raw THEN RedirectHeaders(q) ELSE ResponseHeaders(q)
        EXCEPT !.data = IF HasBody(r, q) THEN Body(q.body, q.chunked) ELSE <<>>]

\* nxweb_send_http_error for a request that cannot be read; the response knows nothing of it.
BadRequest == [status |-> 400, http11 |-> FALSE, keep_alive |-> FALSE, modified |-> 0,
               length |-> MaxBody, chunked |-> FALSE, body |-> MaxBody, extra |-> {},
               raw |-> FALSE]
-----------------------------------------------------------------------------
(* Reading an answer. *)

OfResponse == {"Content-Type", "Content-Length", "Transfer-Encoding", "Connection",
               "Keep-Alive", "Date", "Last-Modified"}

\* _nxweb_parse_http_response: "until-close not allowed in keep-alive mode".
\* Mutant: it is.
UntilClose(keep) == -1
Unspecified(keep) == IF keep THEN 0 ELSE -1

ParseResponse(m) ==
  LET keep    == IF "Connection" \in DOMAIN m.own THEN m.own["Connection"] = "keep-alive"
                 ELSE m.http11
      chunked == Get(m, "Transfer-Encoding", "none") = "chunked"
  IN [status |-> m.status, http11 |-> m.http11, keep_alive |-> keep, chunked |-> chunked,
      modified |-> Get(m, "Last-Modified", 0), extra |-> m.extra \ OfResponse,
      length |-> IF chunked THEN -1
                 ELSE IF "Content-Length" \in DOMAIN m.own THEN m.own["Content-Length"]
                 ELSE Unspecified(keep)]

\* resp_body_out_read: how many pieces of the data belong to the answer, and whether it
\* has ended there.  The server closes what it does not keep.
Pieces(p, data) ==
  IF p.length >= 0 THEN IF p.length < Len(data) THEN p.length ELSE Len(data)
  ELSE Len(data)
Complete(p, data) ==
  IF p.chunked THEN data # <<>> /\ data[Len(data)] = End
  ELSE IF p.length >= 0 THEN Len(data) >= p.length
  ELSE ~p.keep_alive
DataUnits(p, data) == Pieces(p, data) - (IF p.chunked /\ Complete(p, data) THEN 1 ELSE 0)

\* nxd_http_proxy_pool_return: a connection whose answer has not ended, or that the other
\* end closes, is not used again.
\* Mutant: it is as long as the other end keeps it.
MayKeep(p, ended) == p.keep_alive
Keeps(p, ended) == ended /\ p.keep_alive

\* What is left in the connection then: what the answer did not take, or a reader that
\* still waits.  The read of an answer without a body may come after its connection was
\* given back.
LeftBehind(p, data) ==
  { IF ~Keeps(p, e) THEN Closed
    ELSE IF ~e THEN <<"waiting">> ELSE SubSeq(data, Pieces(p, data) + 1, Len(data))
    : e \in IF Complete(p, data) THEN {TRUE, p.length # 0} ELSE {FALSE} }
-----------------------------------------------------------------------------
MessagesInit ==
  /\ at = "idle" /\ proxied = FALSE /\ wire = NoMessage /\ asked = NoMessage /\ request = NoMessage
  /\ seen = NoMessage /\ resp = NoMessage /\ served = NoMessage /\ got = NoMessage
  /\ left = [client |-> Closed, backend |-> Closed]

\* What a client may write: a body has a length, a coding, or both.
ClientChoices ==
  [method : {"GET", "HEAD", "POST"}, http11 : BOOLEAN, since : {0, 2},
   conn : {"none", "keep-alive", "close"}, n : 0..MaxBody,
   coding : {"length", "chunked", "both"}, host : BOOLEAN, extra : {{}, {"X", "Server"}}]

ClientRequest(c) ==
  [method |-> c.method, http11 |-> c.http11, extra |-> c.extra,
   own |-> If(c.host, "Host", "host") ++ If(c.conn # "none", "Connection", c.conn)
           ++ If(c.since # 0, "If-Modified-Since", c.since)
           ++ If(c.n > 0 /\ c.coding # "chunked", "Content-Length", c.n)
           ++ If(c.coding # "length", "Transfer-Encoding", "chunked"),
   data |-> Body(c.n, c.coding # "length")]

ClientAsks ==
  /\ at = "idle"
  /\ \E c \in ClientChoices :
       /\ c.n = 0 => c.coding # "both"
       /\ c.method # "POST" => c.n = 0 /\ c.coding = "length"
       /\ asked' = [head |-> c.method = "HEAD", since |-> c.since, body |-> c.n]
       /\ wire' = ClientRequest(c)
  /\ at' = "front"
  /\ UNCHANGED <<proxied, request, seen, resp, served, got, left>>

\* data_in_do_read of the first server: the request is refused, passed on or handled.
Receive ==
  /\ at = "front"
  /\ request' = ParseRequest(wire)
  /\ \E p \in BOOLEAN :
       /\ proxied' = (p /\ ~request'.bad)
       /\ at' = IF request'.bad THEN "reply" ELSE IF p THEN "forward" ELSE "handler"
       /\ resp' = IF request'.bad THEN BadRequest ELSE resp
       /\ served' = IF request'.bad THEN BadRequest ELSE served
       /\ seen' = IF p \/ request'.bad THEN seen
                  ELSE [head |-> request'.head, since |-> request'.since, body |-> BodyRead(request', wire.data)]
       /\ left' = [left EXCEPT !.client =
                     IF request'.bad THEN @ ELSE [i \in 1..Unread(request', wire.data) |-> Unit]]
  /\ UNCHANGED <<wire, asked, got>>

\* start_proxy_request: the body follows as the client coded it.
Forward ==
  /\ at = "forward" /\ at' = "backend"
  /\ wire' = [RequestHeaders(ProxyRequest(request)) EXCEPT !.data = wire.data]
  /\ UNCHANGED <<proxied, asked, request, seen, resp, served, got, left>>

\* data_in_do_read of the second server.
BackendReceive ==
  /\ at = "backend" /\ at' = "handler"
  /\ \E r \in {ParseRequest(wire)} :
       /\ seen' = [head |-> r.head, since |-> r.since, bad |-> r.bad,
                   body |-> BodyRead(r, wire.data), keep |-> r.keep_alive]
       /\ left' = [left EXCEPT !.backend = [i \in 1..Unread(r, wire.data) |-> Unit]]
  /\ UNCHANGED <<proxied, wire, asked, request, resp, served, got>>

\* A handler answers: content of a known length, or coded as it comes, or none, or
\* another place.
HandlerAnswers ==
  /\ at = "handler"
  /\ \E status \in {200, 204, 302, 304, 404}, n \in 0..MaxBody, auto \in BOOLEAN,
        close \in BOOLEAN, modified \in {0, 1, 3}, extra \in {{}, {"X", "Content-Length"}} :
       /\ MustNotHaveBody(status) \/ status = 302 => n = 0 /\ ~auto
       /\ status = 302 => modified = 0
       /\ served' = [status |-> status, http11 |-> proxied \/ request.http11,
                     keep_alive |-> ~close /\ (IF proxied THEN seen.keep ELSE request.keep_alive),
                     modified |-> modified, chunked |-> auto, body |-> n,
                     length |-> IF auto THEN -1 ELSE n, extra |-> extra, raw |-> status = 302]
       /\ at' = IF proxied THEN "back" ELSE "reply"
       /\ IF proxied THEN resp' = resp /\ wire' = Send(seen, served')
          ELSE resp' = served' /\ wire' = wire
  /\ UNCHANGED <<proxied, asked, request, seen, got, left>>

\* NXD_HCP_RESPONSE_RECEIVED: "re-encode chunked or until-close content".  The
\* connection to the second server goes back to the pool when the answer is written.
Relay ==
  /\ at = "back" /\ at' = "reply"
  /\ \E p \in {ParseResponse(wire)} :
       /\ resp' = [status |-> p.status, http11 |-> request.http11, keep_alive |-> request.keep_alive,
                   modified |-> p.modified, length |-> p.length, chunked |-> p.length < 0,
                   body |-> DataUnits(p, wire.data), extra |-> p.extra, raw |-> FALSE]
       /\ \E k \in LeftBehind(p, wire.data) :
            left' = [left EXCEPT !.backend = IF k = Closed THEN k ELSE @ \o k]
  /\ UNCHANGED <<proxied, wire, asked, request, seen, served, got>>

\* The first server writes its answer; request_cleanup closes the connection or not.
Reply ==
  /\ at = "reply" /\ at' = "read"
  /\ wire' = Send(request, resp)
  /\ left' = IF resp.keep_alive THEN left ELSE [left EXCEPT !.client = Closed]
  /\ UNCHANGED <<proxied, asked, request, seen, resp, served, got>>

\* The client reads it and keeps its end of the connection or not.
Read ==
  /\ at = "read" /\ at' = "done"
  /\ \E p \in {ParseResponse(wire)} :
       /\ got' = [status |-> p.status, body |-> DataUnits(p, wire.data),
                  complete |-> Complete(p, wire.data), keeps |-> p.keep_alive, extra |-> p.extra]
       /\ \E k \in LeftBehind(p, wire.data) :
            left' = [left EXCEPT !.client =
                       IF k = Closed THEN k ELSE IF @ = Closed THEN <<"half">> ELSE @ \o k]
  /\ UNCHANGED <<proxied, wire, asked, request, seen, resp, served>>

NextMessage ==
  /\ at = "done" /\ at' = "idle"
  /\ proxied' = FALSE /\ wire' = NoMessage /\ asked' = NoMessage /\ request' = NoMessage
  /\ seen' = NoMessage /\ resp' = NoMessage /\ served' = NoMessage /\ got' = NoMessage
  /\ UNCHANGED left

MessagesNext ==
  \/ ClientAsks \/ Receive \/ Forward \/ BackendReceive \/ HandlerAnswers \/ Relay \/ Reply \/ Read \/ NextMessage

MessagesSpec == MessagesInit /\ [][MessagesNext]_messagesVars
-----------------------------------------------------------------------------
\* The request the handler gets is the one the client made, whoever passed it on: HEAD
\* stays HEAD, the time of the copy it has is the same, and the body has all its units
\* and no other, whether it had a length, a coding or both (http_utils.c:377-496).
SameRequest ==
  (at \in {"handler", "back"} /\ seen # NoMessage) =>
    /\ proxied => ~seen.bad
    /\ seen.head = asked.head /\ seen.since = asked.since /\ seen.body = asked.body

\* The answer the client makes out is the one the handler gave, with all its content, or
\* that the client's copy is still good; only the answer to HEAD lacks its body, and no other
\* answer leaves the client waiting for its end (http_utils.c:833-949 and 1204-1319).
SameAnswer ==
  at = "done" =>
    LET good == asked.since # 0 /\ served.modified \in 1..asked.since /\ ~request.bad
        none == good \/ request.head
    IN /\ got.status = IF good THEN 304 ELSE served.status
       /\ got.body = IF none THEN 0 ELSE served.body
       /\ got.complete \/ request.head
       /\ served.status = 302 => "Location" \in got.extra

\* When a connection is kept for another request, both ends keep it and nothing of the
\* last request or of its answer is left in it, nor a reader that waits for more, so the
\* next message starts where the reader looks (nxd_http_proxy.c:182-199, nxd_http_server_proto.c:88-121).
InStep ==
  at \in {"idle", "done"} => \A c \in DOMAIN left : left[c] \in {Closed, <<>>}

\* No message has a header twice, once as the server writes it and once as it came from
\* the handler or from the other end (http_utils.c:803-831).
OneOfEach == wire # NoMessage => wire.extra \cap DOMAIN wire.own = {}

\* Parser and writer of HTTP messages fit each other: the handler gets the
\* request that was sent, the client the answer that the handler gave, also
\* through a proxy, and the connection stays in step for the next request.
MessagesSound == SameRequest /\ SameAnswer /\ InStep /\ OneOfEach
=============================================================================
