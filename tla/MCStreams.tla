------------------------------ MODULE MCStreams ------------------------------
(***************************************************************************)
(* The streams, connections and processes of nxweb, the fetches of the     *)
(* client and its single-instance guard, on small instances.  The parts    *)
(* share nothing: a behaviour chooses one of them at its beginning, and    *)
(* the others stay as they are.                                            *)
(*                                                                         *)
(* The bounds of the parts stand in their INSTANCEs; the guard, the proxy, *)
(* the daemon, the fetches and the gzip filter are extended, and their     *)
(* constants are in the configuration.                                     *)
(***************************************************************************)
EXTENDS RunGuard, NxDaemon, ApiHttp, NxProxy, NxGzip, TLC

VARIABLE part     \* the part that this behaviour is about

\* Pages with their subrequests.
VARIABLES pDoc, pFed, pClosed, pNodes, pCur, pForced, pOutReady, pLinked, pReady,
          pOut, pOver
P == INSTANCE NxPage
  WITH Parts <- 2, Chunk <- 2, Answer <- 2, doc <- pDoc, fed <- pFed,
       closed <- pClosed, nodes <- pNodes, cur <- pCur, forced <- pForced,
       outReady <- pOutReady, linked <- pLinked, ready <- pReady, out <- pOut,
       over <- pOver
pageVars == <<pDoc, pFed, pClosed, pNodes, pCur, pForced, pOutReady, pLinked, pReady,
              pOut, pOver>>

\* A TLS socket.
VARIABLES tS, tNet, tPeer
T == INSTANCE NxTls
  WITH Flights <- 2, Units <- 2, Fulls <- 2, s <- tS, net <- tNet, peer <- tPeer
tlsVars == <<tS, tNet, tPeer>>

\* The chunked coding.
VARIABLES cEnc, cAvail, cMade, cEof, cComplete, cWire, cDec, cGot, cResult, cPassed
C == INSTANCE NxChunked
  WITH Base <- 2, Digits <- 4, MaxChunk <- 2, Units <- 4, Rooms <- {1, 3, 20},
       Reads <- {1, 2, 7}, enc <- cEnc, avail <- cAvail, made <- cMade, eof <- cEof,
       complete <- cComplete, wire <- cWire, dec <- cDec, got <- cGot,
       result <- cResult, passed <- cPassed
chunkedVars == <<cEnc, cAvail, cMade, cEof, cComplete, cWire, cDec, cGot, cResult,
                 cPassed>>

-----------------------------------------------------------------------------
Parts == {"guard", "proxy", "page", "tls", "chunked", "gzip", "daemon", "fetch"}

\* A part that is idle stays in one initial state.
StreamsInit ==
  /\ part \in Parts
  /\ GuardInit /\ DaemonInit /\ FetchInit /\ ProxyInit /\ T!Init
  /\ P!Init /\ (part # "page" => pDoc = <<>> /\ pReady)
  /\ C!Init /\ (part # "chunked" => ~cDec.monitor)
  /\ GzipInit /\ (part # "gzip" => body = 0 /\ all /\ client)

\* The part p makes a step and the others none.
Only(p) ==
  /\ part = p
  /\ UNCHANGED part
  /\ IF p = "guard" THEN TRUE ELSE UNCHANGED guardVars
  /\ IF p = "proxy" THEN TRUE ELSE UNCHANGED proxyVars
  /\ IF p = "page" THEN TRUE ELSE UNCHANGED pageVars
  /\ IF p = "tls" THEN TRUE ELSE UNCHANGED tlsVars
  /\ IF p = "chunked" THEN TRUE ELSE UNCHANGED chunkedVars
  /\ IF p = "gzip" THEN TRUE ELSE UNCHANGED gzipVars
  /\ IF p = "daemon" THEN TRUE ELSE UNCHANGED daemonVars
  /\ IF p = "fetch" THEN TRUE ELSE UNCHANGED fetchVars

StreamsNext ==
  \/ Only("guard") /\ GuardNext
  \/ Only("proxy") /\ ProxyNext
  \/ Only("page") /\ P!Next
  \/ Only("tls") /\ T!Next
  \/ Only("chunked") /\ C!Next
  \/ Only("gzip") /\ GzipNext
  \/ Only("daemon") /\ DaemonNext
  \/ Only("fetch") /\ FetchNext

StreamsVars == <<part, guardVars, proxyVars, pageVars, tlsVars, chunkedVars, gzipVars,
                 daemonVars, fetchVars>>
StreamsSpec == StreamsInit /\ [][StreamsNext]_StreamsVars
\* What the loop, the threads, the kernel and the peers go on doing: the
\* fairness of each module, as its FairSpec says, by what is done.
Serves ==
  \/ Only("proxy") /\ Deliver
  \/ Only("page") /\ P!Open /\ P!Streamer
  \/ Only("tls") /\ tS.open /\ T!Loop
  \/ Only("chunked") /\ C!Sender /\ cPassed' # cPassed
  \/ Only("gzip") /\ DataIn
  \/ Only("daemon") /\ Launcher
  \/ Only("fetch") /\ Return

Arrives ==
  \/ Only("proxy") /\ Timers
  \/ Only("page") /\ P!Open /\ P!Feed
  \/ Only("tls") /\ tS.open /\ T!ClientSends
  \/ Only("chunked") /\ C!Produce
  \/ Only("gzip") /\ BodyArrives
  \/ Only("daemon") /\ Ready
  \/ Only("fetch") /\ \E i \in Frames : Timeout(i)

Leaves ==
  \/ Only("proxy") /\ BackendTimeout
  \/ Only("page") /\ P!Open /\ P!ClientReady
  \/ Only("tls") /\ tS.open /\ T!Drain
  \/ Only("chunked") /\ C!Receiver
  \/ Only("gzip") /\ DataOut
  \/ Only("daemon") /\ Alarm

Goes ==
  \/ Only("proxy") /\ ClientTimeout
  \/ Only("gzip") /\ ClientReady
  \/ Only("daemon") /\ Kill

\* The subrequest i of the page.
Answers(i) == Only("page") /\ P!Open /\ i \in P!NodeIds /\ (P!Respond(i) \/ P!More(i))

FairStreamsSpec == /\ StreamsSpec
                   /\ WF_StreamsVars(Serves) /\ WF_StreamsVars(Arrives)
                   /\ WF_StreamsVars(Leaves) /\ WF_StreamsVars(Goes)
                   /\ \A i \in 1..4 : WF_StreamsVars(Answers(i))

-----------------------------------------------------------------------------
(* Properties: those of the modules, where their comments say what they are. *)

\* What the filters and codings of nxweb pass on is what they were given, whole
\* and in order, and its end is the end: pages with their subrequests, TLS,
\* chunks and gzip, however the pieces are cut and the two sides take turns.
PassedOn == /\ P!TypeOK /\ P!InOrder /\ P!EndsWhole
            /\ T!TypeOK /\ T!HandshakeSafe
            /\ C!EncoderSound /\ C!RoundTrip
            /\ GzipSound

\* What is begun: an exchange with a backend, a page, a handshake, chunks, a
\* compressed answer, a failure of the server, a fetch; and its end.
Begun == \/ part = "proxy" /\ srv.st = "handling"
         \/ part = "page" /\ pDoc # <<>>
         \/ part \in {"tls", "chunked", "gzip"}
         \/ part = "daemon" /\ child = "failed" /\ pid < 4
         \/ part = "fetch" /\ Level > 0
Ended == \/ part = "proxy" /\ srv.st # "handling"
         \/ part = "page" /\ ~P!Open
         \/ part = "tls" /\ (tS.sent = 2 \/ ~tS.open)
         \/ part = "chunked" /\ cResult = 1
         \/ part = "gzip" /\ over
         \/ part = "daemon" /\ child = "starting"
         \/ part = "fetch" /\ Level = 0

\* A failed handshake and a server that is told to stop; and their end.
Closing == \/ part = "tls" /\ tS.hs = "failed"
           \/ part = "daemon" /\ child = "stopping"
Stopped == \/ part = "tls" /\ ~tS.open
           \/ part = "daemon" /\ (launcher = "gone" \/ child = "failed")

\* Everything that is begun ends, as HandlingEnds, PageEnds, ServesTls,
\* EndArrives, GzipEnds, Relaunched and CallsReturn of the modules say, and what
\* is to be closed is closed (FailureEnds, Stops): neither side of a stream waits
\* for the other for ever, and no timer is missing.
AllEnd == (Begun ~> Ended) /\ (Closing ~> Stopped)
=============================================================================
