-------------------------------- MODULE NxTls --------------------------------
(***************************************************************************)
(* The TLS socket of nxweb (lib/nxd_ssl_socket.c) under its event loop     *)
(* (lib/nx_event.c).  The first read or write finds that there was no      *)
(* handshake: the socket then takes its streams away from the protocol     *)
(* above it, pairs them with two stubs that go on with the handshake       *)
(* whenever something can be read or written, and gives them back when it  *)
(* succeeds.                                                               *)
(*                                                                         *)
(* The protocol above reads a request and then writes its answer, a unit   *)
(* each time (NxConn has the rest of it).  The client's handshake is a     *)
(* number of flights; each but the first follows an answer to the one      *)
(* before.  The kernel reports a socket when something new happened, and   *)
(* then all it is ready for (EPOLLET).                                     *)
(***************************************************************************)
EXTENDS Naturals, Sequences, FiniteSets, SequencesExt

CONSTANTS Flights,  \* flights of the client's handshake
          Units,    \* units of the request, and of the answer
          Fulls     \* bound: times the socket's send buffer is full

VARIABLES
  s,      \* the socket and the protocol's streams, with the loop's events
  net,    \* the kernel's socket
  peer    \* the client

vars == <<s, net, peer>>

Istreams == {"data_is", "data_out", "stub_is"}
Ostreams == {"data_in", "data_os", "stub_os"}

\* Whose the socket's streams are.
App  == [data_is |-> "data_in", data_out |-> "data_os"]
Stub == [data_is |-> "stub_os", stub_is |-> "data_os"]
Paired(to) == [i \in Istreams |-> IF i \in DOMAIN to THEN to[i] ELSE "none"]

\* hs: "new", "started", "done" or "failed"; pair: the ostream of an istream;
\* linked: the istreams whose event waits in the loop; error: data_error was
\* published; seen and told: flights of the client, and those answered; got and
\* sent: units read and written above; broken: the assertion of do_handshake
\* failed.
Init == /\ s = [hs |-> "new", is |-> {}, os |-> {"data_in"},
                pair |-> Paired(App),
                linked |-> {}, error |-> FALSE, seen |-> 0, told |-> 0, got |-> 0, sent |-> 0,
                open |-> TRUE, broken |-> FALSE]
        /\ net = [in |-> <<>>, full |-> FALSE, noticed |-> FALSE, edge |-> TRUE]
        /\ peer = [flights |-> 0, units |-> 0, gone |-> FALSE, fulls |-> 0]

-----------------------------------------------------------------------------
\* The streams (nx_event.c, nx_event.h).

BothReady(t, i) == i \in t.is /\ t.pair[i] \in t.os
SetIs(t, i) == LET u == [t EXCEPT !.is = @ \cup {i}]
               IN IF i \notin t.is /\ BothReady(u, i) THEN [u EXCEPT !.linked = @ \cup {i}] ELSE u
SetOs(t, o) == LET u == [t EXCEPT !.os = @ \cup {o}]
               IN [u EXCEPT !.linked = @ \cup {i \in Istreams : u.pair[i] = o /\ i \in u.is}]

\* nxe_disconnect_streams of the istreams from, which takes their events out of
\* the loop, and nxe_connect_streams of the pairs to, which puts those in whose
\* two ends are ready.
\* Mutant: an event stays in the loop.
KeepsEvents(linked, from) == linked
Unlinked(linked, from) == linked \ from
\* Mutant: none is put in.
WakesNone(t, to) == {}
Woken(t, to) == {i \in DOMAIN to : i \in t.is /\ to[i] \in t.os}
Exchange(t, from, to) ==
  [t EXCEPT !.pair = Paired(to), !.linked = Unlinked(@, from) \cup Woken(t, to)]

-----------------------------------------------------------------------------
\* The handshake (do_handshake).  Each operator below yields the streams and
\* the kernel's socket after it.

TakeStreams(t) == Exchange([t EXCEPT !.is = @ \cup {"stub_is"}, !.os = @ \cup {"stub_os"}],
                           {"data_is", "data_out"}, Stub)
\* Mutant: the protocol gets back only what it reads from.
GivesBackOne(t) == Exchange([t EXCEPT !.is = @ \ {"stub_is"}, !.os = @ \ {"stub_os"}],
                            {"data_is", "stub_is"}, [data_is |-> "data_in"])
GiveBack(t) == Exchange([t EXCEPT !.is = @ \ {"stub_is"}, !.os = @ \ {"stub_os"}],
                        {"data_is", "stub_is"}, App)

Publish(t) == [t EXCEPT !.error = TRUE]

\* gnutls_handshake reads a flight and answers it, as far as both work.
Reads(t) == t.seen = t.told /\ net.in # <<>>
Gnutls(t) ==
  IF Reads(t) /\ Head(net.in) # "flight" THEN [ret |-> "error", t |-> t, n |-> [net EXCEPT !.in = Tail(@)]]
  ELSE LET u == IF Reads(t) THEN [t EXCEPT !.seen = @ + 1] ELSE t
           in == IF Reads(t) THEN Tail(net.in) ELSE net.in
           owes == u.seen > u.told
           v == IF owes /\ ~net.full THEN [u EXCEPT !.told = @ + 1] ELSE u
       IN [ret |-> IF v.told = Flights THEN "success" ELSE "again", t |-> v,
           n |-> [net EXCEPT !.in = in, !.noticed = @ \/ (owes /\ net.full)]]

\* Mutant: a failed handshake is told to nobody.
FailsQuietly(t) == [t EXCEPT !.hs = "failed"]
Failed(t) == [Publish(t) EXCEPT !.hs = "failed"]
DoHandshake(t) ==
  LET a == [t EXCEPT !.broken = @ \/ t.hs \in {"done", "failed"}]
      b == IF t.hs = "new" THEN [TakeStreams(a) EXCEPT !.hs = "started"] ELSE a
      g == Gnutls(b)
  IN CASE g.ret = "success" -> [ok |-> TRUE, t |-> GiveBack([g.t EXCEPT !.hs = "done"]), n |-> g.n]
       [] g.ret = "again"   -> [ok |-> FALSE, t |-> g.t, n |-> g.n]
       [] g.ret = "error"   -> [ok |-> FALSE, t |-> Failed(g.t), n |-> g.n]

\* handshake_stub_os_do_read and handshake_stub_is_do_write.
\* Mutant: they do not ask whether the handshake has failed.
GoesOn(t) == TRUE
MayGoOn(t) == t.hs # "failed"
StubRead(t) == LET d == DoHandshake(t)
               IN IF ~MayGoOn(t) THEN <<[t EXCEPT !.is = @ \ {"data_is"}], net>>
                  ELSE <<IF d.ok THEN d.t ELSE [d.t EXCEPT !.is = @ \ {"data_is"}], d.n>>
StubWrite(t) == LET d == DoHandshake(t)
                IN IF ~MayGoOn(t) THEN <<[t EXCEPT !.os = @ \ {"data_os"}], net>>
                   ELSE <<IF d.ok THEN d.t ELSE [d.t EXCEPT !.os = @ \ {"data_os"}], d.n>>

-----------------------------------------------------------------------------
\* Reading and writing.

\* sock_data_recv_read under data_in: a unit, or nothing to read, or an error.
\* When the request is complete the protocol reads no more.
Receive(t, n) ==
  IF n.in = <<>> THEN <<[t EXCEPT !.is = @ \ {"data_is"}], n>>
  ELSE IF Head(n.in) # "unit" THEN <<[Publish(t) EXCEPT !.is = @ \ {"data_is"}], [n EXCEPT !.in = Tail(@)]>>
  ELSE <<[t EXCEPT !.got = @ + 1, !.os = IF t.got + 1 = Units THEN @ \ {"data_in"} ELSE @],
         [n EXCEPT !.in = Tail(@)]>>
Read(t) == IF t.hs = "done" THEN Receive(t, net)
           ELSE LET d == DoHandshake(t)
                IN IF d.ok THEN Receive(d.t, d.n) ELSE <<[d.t EXCEPT !.is = @ \ {"data_is"}], d.n>>

\* sock_data_send_write under data_out: a unit, or the socket is full.
Send(t, n) ==
  IF n.full THEN <<[t EXCEPT !.os = @ \ {"data_os"}], [n EXCEPT !.noticed = TRUE]>>
  ELSE <<[t EXCEPT !.sent = @ + 1, !.is = IF t.sent + 1 = Units THEN @ \ {"data_out"} ELSE @], n>>
Write(t) == IF t.hs = "done" THEN Send(t, net)
            ELSE LET d == DoHandshake(t)
                 IN IF d.ok THEN Send(d.t, d.n) ELSE <<[d.t EXCEPT !.os = @ \ {"data_os"}], d.n>>

\* stream_event_deliver: as long as both are ready and still each other's.
Call(t, i) == CASE t.pair[i] = "stub_os" -> StubRead(t)
                [] i = "stub_is"         -> StubWrite(t)
                [] t.pair[i] = "data_in" -> Read(t)
                [] i = "data_out"        -> Write(t)
Deliver(i) ==
  /\ i \in s.linked
  /\ LET t == [s EXCEPT !.linked = @ \ {i}]
         r == IF BothReady(t, i) THEN Call(t, i) ELSE <<t, net>>
         on == BothReady(t, i) /\ BothReady(r[1], i) /\ r[1].pair[i] = t.pair[i]
     IN /\ s' = IF on THEN [r[1] EXCEPT !.linked = @ \cup {i}] ELSE r[1]
        /\ net' = r[2]
  /\ UNCHANGED peer

\* The message reaches the connection, which ends.
DeliverError == /\ s.error
                /\ s' = [s EXCEPT !.open = FALSE]
                /\ UNCHANGED <<net, peer>>

\* The answer is ready.
Answer == /\ s.got = Units
          /\ s.sent = 0
          /\ "data_out" \notin s.is
          /\ s' = SetIs(s, "data_out")
          /\ UNCHANGED <<net, peer>>

\* epoll_wait and fd_source_emit, when the loop has nothing else to do: all the
\* socket is ready for; the kernel remembers that it was asked for room.
Poll ==
  /\ s.linked = {} /\ ~s.error
  /\ net.edge
  /\ LET a == IF net.in # <<>> THEN SetIs(s, "data_is") ELSE s
         b == IF ~net.full THEN SetOs(a, "data_os") ELSE a
     IN s' = IF "close" \in ToSet(net.in) THEN Publish(b) ELSE b
  /\ net' = [net EXCEPT !.edge = FALSE, !.noticed = @ \/ net.full]
  /\ UNCHANGED peer

Loop == Answer \/ Poll \/ DeliverError \/ \E i \in Istreams : Deliver(i)

-----------------------------------------------------------------------------
\* The client and the kernel.

Arrive(x) == /\ net' = [net EXCEPT !.in = Append(@, x), !.edge = TRUE] /\ UNCHANGED s

ClientSends ==
  /\ ~peer.gone
  /\ \/ /\ peer.flights < Flights /\ s.told = peer.flights
        /\ Arrive("flight") /\ peer' = [peer EXCEPT !.flights = @ + 1]
     \/ /\ peer.flights = Flights /\ peer.units < Units
        /\ Arrive("unit") /\ peer' = [peer EXCEPT !.units = @ + 1]

\* What it sends is no TLS, or it closes.
ClientFails == /\ ~peer.gone
               /\ peer' = [peer EXCEPT !.gone = TRUE]
               /\ \E x \in {"bad", "close"} : Arrive(x)

\* The send buffer is full, and has room again: reported if somebody noticed.
Fill == /\ ~net.full /\ peer.fulls < Fulls
        /\ net' = [net EXCEPT !.full = TRUE, !.noticed = FALSE]
        /\ peer' = [peer EXCEPT !.fulls = @ + 1]
        /\ UNCHANGED s
Drain == /\ net.full
         /\ net' = [net EXCEPT !.full = FALSE, !.edge = @ \/ net.noticed]
         /\ UNCHANGED <<s, peer>>

Next == s.open /\ (Loop \/ ClientSends \/ ClientFails \/ Fill \/ Drain)

Spec == Init /\ [][Next]_vars

\* The loop runs, the client says what it has to say, and the socket's buffer
\* does not stay full.
FairSpec == /\ Spec
            /\ WF_vars(s.open /\ Loop)
            /\ WF_vars(s.open /\ ClientSends)
            /\ WF_vars(s.open /\ Drain)

-----------------------------------------------------------------------------
\* Properties.

\* Both streams of the socket are the stubs' from the beginning of the
\* handshake until it succeeds, and the protocol's otherwise; nothing is read
\* or written above before that.
TypeOK ==
  /\ s.is \subseteq Istreams /\ s.os \subseteq Ostreams /\ s.linked \subseteq Istreams
  /\ s.pair = IF s.hs \in {"started", "failed"}
              THEN Paired(Stub) ELSE Paired(App)
  /\ s.got + s.sent > 0 => s.hs = "done"

\* do_handshake is never entered when the handshake is over (its assertion),
\* whatever order reads and writes come in, and only streams that are connected
\* have an event in the loop: nxe_connect_streams links without asking, and an
\* event that is linked already would tear the queue.
HandshakeSafe == /\ ~s.broken
                 /\ \A i \in s.linked : s.pair[i] # "none"

\* No wake-up is lost while the streams change hands: a client that keeps to
\* TLS and sends its request gets the whole answer, or the connection ends.
ServesTls == <>(s.sent = Units \/ ~s.open)

\* A handshake that failed ends the connection (the message of do_handshake).
FailureEnds == (s.hs = "failed") ~> ~s.open
=============================================================================
