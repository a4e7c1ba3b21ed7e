------------------------------ MODULE VpnClient ------------------------------
(***************************************************************************)
(* One VPNClient object (backend/vpnclient.cpp) from its open() to the end *)
(* of its life, with the two slots of Obhod123 that call back into it.     *)
(* Obhod123::onConnect creates a new object for every attempt, so open()   *)
(* is called once per object and close() any number of times.              *)
(*                                                                         *)
(* Four parties run concurrently:                                          *)
(*   - the GUI thread: open() and close() wait in nested event loops, so   *)
(*     they pile up on its stack, and every loop delivers posted signals   *)
(*     and user clicks, which call close() again from inside;              *)
(*   - the worker thread, VPNClient::run(), polling openvpn's output;      *)
(*   - the agent thread, VPNAgent::run(), reading openvpn's management     *)
(*     port while the client is connected;                                 *)
(*   - the openvpn process (external).                                     *)
(* m_state and m_compose are read and written by all three threads with no *)
(* lock.  A signal emitted outside the GUI thread is posted to it; one     *)
(* emitted by the GUI thread calls its slots at once.                      *)
(*                                                                         *)
(* Timers: the minute of open() and close() is far longer than any step of *)
(* the threads (the worker polls every CHECKLOOP = 50 ms), so they expire  *)
(* only when nothing but openvpn can move (Stalled).                       *)
(***************************************************************************)
EXTENDS Naturals, Sequences

CONSTANTS MaxMarkers,      \* bound: markers and UPDOWN:DOWN lines of openvpn
          MaxClicks,       \* bound: disconnects and cancels by the user
          ReconnectOnDrop  \* Settings::reconnectOnDrop()

ASSUME VpnClientAssumption == /\ MaxMarkers \in Nat
                              /\ MaxClicks \in Nat
                              /\ ReconnectOnDrop \in BOOLEAN

VARIABLES
  state,       \* m_state
  worker,      \* where VPNClient::run() is
  compose,     \* m_compose is not null
  openvpn,     \* the process: "none", "running", "dead"
  out,         \* markers in openvpn's unread output
  written,     \* markers and management lines openvpn has written
  stopAsked,   \* the worker has asked openvpn to stop
  mgmtDown,    \* an unread UPDOWN:DOWN on the management port
  agent,       \* where VPNAgent::run() is
  agentSet,    \* m_agent is not null
  agentDoomed, \* m_agent->deleteLater() is pending
  posted,      \* signals posted to the GUI thread, oldest first
  opening,     \* where open() is; its frame is below those of close()
  closing,     \* frames of close() on the stack
  conn,        \* connected receivers: 0 is Obhod123, others are loops
  quit,        \* event loops told to quit
  late,        \* open() has waited more than m_timeout - TIMEOUTFIX
  opened,      \* what open() returned
  clicks,      \* disconnects and cancels so far
  wasUp,       \* history: state has been CONNECTED
  told,        \* history: Obhod123::onStateChanged has seen VPNERROR
  closed       \* history: no close() has ended, all ended "clean", one was "forced"

thread  == <<worker, compose>>
process == <<openvpn, out, written, stopAsked, mgmtDown>>
agents  == <<agent, agentSet, agentDoomed>>
calls   == <<opening, closing, conn, quit, late, opened, clicks>>
history == <<wasUp, told, closed>>
vars    == <<state, thread, process, agents, posted, calls, history>>

State == {"DISCONNECTED", "DISCONNECTING", "CONNECTING", "CONNECTED", "VPNERROR"}
Owner    == 0            \* Obhod123, the receiver of message and stateChanged
OpenLoop == 1            \* the QEventLoop of open()
CloseLoop(i) == 1 + i    \* that of the i-th close() on the stack
CloseLoops(n) == {CloseLoop(i) : i \in 1..n}

Signal == [sig : {"message", "error", "connected", "finished"}, to : SUBSET Nat]

Init == /\ state = "DISCONNECTED" /\ worker = "none" /\ compose = FALSE
        /\ openvpn = "none" /\ out = {} /\ written = 0
        /\ stopAsked = FALSE /\ mgmtDown = FALSE
        /\ agent = "off" /\ agentSet = FALSE /\ agentDoomed = FALSE
        /\ posted = <<>> /\ opening = "idle" /\ closing = 0
        /\ conn = {Owner} /\ quit = {}
        /\ late = FALSE /\ opened = "no" /\ clicks = 0
        /\ wasUp = FALSE /\ told = FALSE /\ closed = "no"

-----------------------------------------------------------------------------
(* Signals and state *)

\* The program dies: every thread stops; openvpn is another process.
Crash == /\ worker' = "crashed" /\ agent' = "crashed" /\ opening' = "crashed"
         /\ closing' = 0 /\ posted' = <<>>

\* QThread::isRunning()
IsRunning == worker \notin {"none", "done", "crashed"}

Emit(sig, to) == IF conn \cap to = {} THEN <<>>
                 ELSE <<[sig |-> sig, to |-> conn \cap to]>>

ErrorMessage == Emit("message", {Owner})

\* setState() called by the worker or the agent, after the signals in before.
SetState(s, before) ==
  /\ state' = s
  /\ posted' = posted \o before \o
       (CASE state = s -> <<>>
          [] s = "VPNERROR"  /\ state # s -> Emit("error", {Owner})
          [] s = "CONNECTED" /\ state # s -> Emit("connected", {OpenLoop}))

-----------------------------------------------------------------------------
(* VPNClient::run(), the worker thread *)

\* The process is started; waitForStarted() may fail.
RunStart ==
  /\ worker = "start"
  /\ compose' = TRUE
  /\ \/ /\ openvpn' = "running" /\ worker' = "poll"
        /\ UNCHANGED <<state, posted>>
     \/ /\ openvpn' = "dead" /\ worker' = "exit"
        /\ SetState("VPNERROR", ErrorMessage)
  /\ UNCHANGED <<out, written, stopAsked, mgmtDown, agents, calls, history>>

\* The tests of the loop that end it: m_compose is null, or openvpn has ended.
\* A worker that made the test before close() reset m_compose goes on to
\* dereference a null pointer.
RunLoopEnds ==
  /\ worker = "poll"
  /\ \/ /\ ~compose /\ worker' = "exit"
        /\ UNCHANGED <<agent, opening, closing, posted>>
     \/ /\ compose /\ openvpn = "dead" /\ worker' = "checkConnected"
        /\ UNCHANGED <<agent, opening, closing, posted>>
     \/ ~compose /\ Crash
  /\ UNCHANGED <<state, compose, process, agentSet, agentDoomed, conn, quit, late, opened,
                 clicks, history>>

\* readAll(): the first marker the code looks for wins, the rest is dropped.
\* Output of a process that has just ended may still be read, or never be.
RunRead ==
  /\ worker = "poll" /\ compose /\ out # {}
  /\ worker' = IF "authFailed" \in out THEN "authFailed" ELSE "initialized"
  /\ out' = {}
  /\ UNCHANGED <<state, compose, openvpn, written, stopAsked, mgmtDown, agents,
                 posted, calls, history>>

RunAuthFailed ==
  /\ worker = "authFailed" /\ worker' = "poll"
  /\ SetState("VPNERROR", ErrorMessage)
  /\ UNCHANGED <<compose, process, agents, calls, history>>

\* setState(CONNECTED) also starts the agent.
RunInitialized ==
  /\ worker = "initialized" /\ worker' = "poll"
  /\ SetState("CONNECTED", <<>>)
  /\ wasUp' = TRUE
  /\ agent' = IF agentSet /\ agent = "off" /\ state # "CONNECTED"
              THEN "test" ELSE agent
  /\ UNCHANGED <<compose, process, agentSet, agentDoomed, calls, told, closed>>

\* Nothing to read and a disconnect asked for: stop openvpn.
RunStop ==
  /\ worker = "poll" /\ compose /\ out = {}
  /\ state = "DISCONNECTING" /\ ~stopAsked
  /\ stopAsked' = TRUE
  /\ UNCHANGED <<state, thread, openvpn, out, written, mgmtDown, agents, posted,
                 calls, history>>

\* Mutant: only a connection that was never made is tested for.
TestedOnce == [checkConnected |-> "CONNECTING", checkConnecting |-> "CONNECTING"]

\* What is tested after the loop.
Tested == [checkConnected |-> "CONNECTED", checkConnecting |-> "CONNECTING"]

\* After the loop the state is tested twice, each time apart from setState().
RunCheck ==
  /\ worker \in DOMAIN Tested
  /\ worker' = CASE worker = "checkConnected"  /\ state = Tested[worker] -> "dropConnected"
                 [] worker = "checkConnected"  /\ state # Tested[worker] -> "checkConnecting"
                 [] worker = "checkConnecting" /\ state = Tested[worker] -> "dropConnecting"
                 [] worker = "checkConnecting" /\ state # Tested[worker] -> "exit"
  /\ posted' = posted \o (IF worker' \in {"dropConnected", "dropConnecting"}
                          THEN ErrorMessage ELSE <<>>)
  /\ UNCHANGED <<state, compose, process, agents, calls, history>>

RunDrop ==
  /\ worker \in {"dropConnected", "dropConnecting"}
  /\ worker' = IF worker = "dropConnected" THEN "checkConnecting" ELSE "exit"
  /\ SetState("VPNERROR", <<>>)
  /\ UNCHANGED <<compose, process, agents, calls, history>>

\* run() returns; QThread emits finished().
RunExit ==
  /\ worker = "exit" /\ worker' = "done"
  /\ posted' = posted \o Emit("finished", conn \ {Owner})
  /\ UNCHANGED <<state, compose, process, agents, calls, history>>

Run == \/ RunStart \/ RunLoopEnds \/ RunRead \/ RunAuthFailed
       \/ RunInitialized \/ RunStop \/ RunCheck \/ RunDrop \/ RunExit

-----------------------------------------------------------------------------
(* VPNAgent::run(), the agent thread *)

AgentTest ==
  /\ agent = "test"
  /\ agent' = IF state = "CONNECTED" THEN "wait" ELSE "off"
  /\ UNCHANGED <<state, thread, process, agentSet, agentDoomed, posted, calls, history>>

\* Data arrives on the management port.  UPDOWN:DOWN runs the functor of the
\* constructor in this thread, until close() disconnects it with the rest; anything
\* else (byte counts, the socket closing) only leads to the next test.
AgentRead ==
  /\ agent = "wait" /\ agent' = "test"
  /\ IF mgmtDown /\ Owner \in conn THEN SetState("VPNERROR", <<>>)
                                    ELSE UNCHANGED <<state, posted>>
  /\ mgmtDown' = FALSE
  /\ UNCHANGED <<thread, openvpn, out, written, stopAsked, agentSet, agentDoomed,
                 calls, history>>

-----------------------------------------------------------------------------
(* The openvpn process *)

OpenvpnWrites ==
  /\ openvpn = "running" /\ written < MaxMarkers /\ written' = written + 1
  /\ \/ \E m \in {"init", "authFailed"} : out' = out \cup {m} /\ UNCHANGED mgmtDown
     \/ agent = "wait" /\ mgmtDown' = TRUE /\ UNCHANGED out
  /\ UNCHANGED <<state, thread, openvpn, stopAsked, agents, posted, calls, history>>

\* It ends when it was asked to stop, and may end by itself (--ping-exit).
OpenvpnEnds ==
  /\ openvpn = "running" /\ openvpn' = "dead"
  /\ UNCHANGED <<state, thread, out, written, stopAsked, mgmtDown, agents, posted,
                 calls, history>>

-----------------------------------------------------------------------------
(* The GUI thread *)

\* The GUI thread is in an event loop: its own, open()'s or close()'s.
InLoop == closing > 0 \/ opening \in {"idle", "wait"}

\* Mutant: no QTimer is connected to a QEventLoop.
NoTimers == FALSE

\* Nothing but openvpn can move.
Stalled == /\ posted = <<>>
           /\ \/ worker = "done"
              \/ /\ worker = "poll" /\ compose /\ openvpn = "running" /\ out = {}
                 /\ state = "DISCONNECTING" => stopAsked
           /\ agent = "off" \/ (state = "CONNECTED" /\ ~mgmtDown)

\* open(): the compose file is there ...
Open ==
  /\ opened = "no" /\ opening = "idle"
  /\ state \in {"DISCONNECTED", "VPNERROR"}
  /\ state' = "CONNECTING" /\ opening' = "start"
  /\ agentSet' = TRUE /\ compose' = FALSE /\ worker' = "start"
  /\ UNCHANGED <<process, agent, agentDoomed, posted, closing, conn, quit, late, opened,
                 clicks, history>>

\* The loop is connected only after start(): what the thread emits in between
\* does not reach it.
OpenWaits ==
  /\ opening = "start" /\ opening' = "wait"
  /\ conn' = conn \cup {OpenLoop}
  /\ UNCHANGED <<state, thread, process, agents, posted, closing, quit, late, opened,
                 clicks, history>>

\* ... or missing: the error reaches Obhod123 at once, whose close() finds no
\* running thread.
OpenMissing ==
  /\ opened = "no" /\ opening = "idle"
  /\ state \in {"DISCONNECTED", "VPNERROR"}
  /\ state' = "VPNERROR" /\ opened' = "false" /\ told' = TRUE
  /\ UNCHANGED <<thread, process, agents, posted, opening, closing, conn, quit, late,
                 clicks, wasUp, closed>>

\* close() does nothing unless there is something to close.
CanClose(s) == s \notin {"DISCONNECTED", "DISCONNECTING"} /\ IsRunning

\* close() up to its event loop, entered in state s.
CloseFrom(s) ==
  IF CanClose(s)
  THEN /\ state' = "DISCONNECTING"
       /\ closing' = closing + 1
       /\ conn' = conn \cup {CloseLoop(closing + 1)}
  ELSE state' = s /\ UNCHANGED <<closing, conn>>

\* Mutant: close() kills openvpn only when the thread has ended too.
NoKill == openvpn

\* openvpn after the clean-up of close().
Killed == IF compose /\ openvpn = "running" THEN "dead" ELSE openvpn

\* Mutant: close() leaves every receiver connected.
KeepReceivers == conn

\* disconnect(this, 0, 0, 0)
Disconnected == {}

\* close() after its event loop, innermost frame first.
CloseReturn ==
  /\ closing > 0 /\ CloseLoop(closing) \in quit
  /\ openvpn' = Killed
  /\ compose' = FALSE
  /\ agentDoomed' = (agentDoomed \/ agentSet) /\ agentSet' = FALSE
  /\ state' = "DISCONNECTED"
  /\ closing' = closing - 1 /\ quit' = quit \ {CloseLoop(closing)}
  /\ conn' = Disconnected
  /\ closed' = IF IsRunning \/ closed = "forced" THEN "forced" ELSE "clean"
  /\ UNCHANGED <<worker, out, written, stopAsked, mgmtDown, agent, posted, opening,
                 late, opened, clicks, wasUp, told>>

\* The minute of a close() is over, and that of the open() below it with it.
CloseTimeout ==
  /\ Stalled
  /\ \E i \in 1..closing : CloseLoop(i) \notin quit /\ quit' = quit \cup {CloseLoop(i)}
  /\ late' = (late \/ opening = "wait")
  /\ UNCHANGED <<state, thread, process, agents, posted, opening, closing, conn,
                 opened, clicks, history>>

\* The user disconnects or cancels: Obhod123::onDisconnect, onCancel.
Click ==
  /\ InLoop /\ clicks < MaxClicks
  /\ clicks' = clicks + 1
  /\ CloseFrom(state)
  /\ UNCHANGED <<thread, process, agents, posted, opening, quit, late, opened, history>>

\* Mutant: onStateChanged() does not close the client.
OnlyMessageCloses(sig) == sig = "message" /\ ReconnectOnDrop

\* The slots Obhod123::onMessage and onStateChanged call close().
SlotCloses(sig) == sig = "error" \/ (sig = "message" /\ ReconnectOnDrop)

\* A posted signal is delivered to its receivers.
Deliver ==
  /\ InLoop /\ posted # <<>>
  /\ posted' = Tail(posted)
  /\ LET e == Head(posted) IN
     IF SlotCloses(e.sig)
     THEN CloseFrom(state) /\ UNCHANGED quit
     ELSE /\ quit' = quit \cup (e.to \cap ((IF opening = "wait" THEN {OpenLoop} ELSE {})
                                           \cup CloseLoops(closing)))
          /\ UNCHANGED <<state, closing, conn>>
  /\ told' = (told \/ Head(posted).sig = "error")
  /\ UNCHANGED <<thread, process, agents, opening, late, opened, clicks, wasUp, closed>>

\* Mutant: the 500 ms timer of open() does not look at the thread.
AlwaysEnded == TRUE

\* What that timer asks for.
ThreadEnded == ~IsRunning

OpenCheck ==
  /\ opening = "wait" /\ OpenLoop \notin quit /\ ThreadEnded
  /\ quit' = quit \cup {OpenLoop}
  /\ UNCHANGED <<state, thread, process, agents, posted, opening, closing, conn, late,
                 opened, clicks, history>>

\* m_timeout - TIMEOUTFIX has passed, then m_timeout.
OpenTimer ==
  /\ opening = "wait" /\ OpenLoop \notin quit /\ Stalled
  /\ IF late THEN quit' = quit \cup {OpenLoop} /\ UNCHANGED late
             ELSE late' = TRUE /\ UNCHANGED quit
  /\ UNCHANGED <<state, thread, process, agents, posted, opening, closing, conn,
                 opened, clicks, history>>

\* open() leaves its loop in time.
OpenReturn ==
  /\ opening = "wait" /\ closing = 0 /\ OpenLoop \in quit /\ ~late
  /\ opening' = "idle" /\ opened' = IF IsRunning THEN "true" ELSE "false"
  /\ conn' = conn \ {OpenLoop} /\ quit' = {}
  /\ UNCHANGED <<state, thread, process, agents, posted, closing, late, clicks, history>>

\* ... or too late: the error message comes first,
OpenLate ==
  /\ opening = "wait" /\ closing = 0 /\ OpenLoop \in quit /\ late
  /\ opening' = "message" /\ quit' = {}
  /\ IF Owner \in conn /\ SlotCloses("message") THEN CloseFrom(state)
                                                ELSE UNCHANGED <<state, closing, conn>>
  /\ UNCHANGED <<thread, process, agents, posted, late, opened, clicks, history>>

\* then the state, which calls the slot when it changes,
OpenLateError ==
  /\ opening = "message" /\ closing = 0
  /\ opening' = "error"
  /\ IF Owner \in conn /\ state # "VPNERROR"
     THEN CloseFrom("VPNERROR")
     ELSE state' = "VPNERROR" /\ UNCHANGED <<closing, conn>>
  /\ told' = (told \/ (Owner \in conn /\ state # "VPNERROR"))
  /\ UNCHANGED <<thread, process, agents, posted, quit, late, opened, clicks, wasUp, closed>>

\* and open() returns.
OpenLateReturn ==
  /\ opening = "error" /\ closing = 0
  /\ opening' = "idle" /\ opened' = "false" /\ conn' = conn \ {OpenLoop}
  /\ UNCHANGED <<state, thread, process, agents, posted, closing, quit, late, clicks,
                 history>>

\* The event loop deletes the agent: fatal in Qt while its thread runs.
DeleteAgent ==
  /\ agentDoomed /\ InLoop
  /\ agentDoomed' = FALSE
  /\ IF agent = "off" THEN UNCHANGED <<worker, agent, opening, closing, posted>> ELSE Crash
  /\ UNCHANGED <<state, compose, process, agentSet, conn, quit, late, opened, clicks,
                 history>>

GuiSteps == \/ OpenWaits \/ Deliver \/ DeleteAgent
            \/ OpenCheck \/ OpenTimer \/ OpenReturn
            \/ OpenLate \/ OpenLateError \/ OpenLateReturn
            \/ CloseReturn \/ CloseTimeout

Agent == AgentTest \/ AgentRead

Next == \/ Open \/ OpenMissing \/ Click \/ GuiSteps
        \/ Run
        \/ Agent
        \/ OpenvpnWrites \/ OpenvpnEnds

Spec == Init /\ [][Next]_vars

\* The three threads of the program are scheduled; nothing is assumed of the
\* user or of openvpn, which may hang.
FairSpec == Spec /\ WF_vars(GuiSteps) /\ WF_vars(Run) /\ WF_vars(Agent)

-----------------------------------------------------------------------------
(* Properties *)

\* Every variable has its type, and only loops that are on the stack are
\* connected: a signal never reaches the QEventLoop of a frame that is gone.
TypeOK ==
  /\ state \in State
  /\ worker \in {"none", "start", "poll", "authFailed", "initialized", "exit", "done",
                 "dropConnected", "dropConnecting", "crashed"} \cup DOMAIN Tested
  /\ compose \in BOOLEAN /\ openvpn \in {"none", "running", "dead"}
  /\ out \subseteq {"init", "authFailed"} /\ written \in 0..MaxMarkers
  /\ stopAsked \in BOOLEAN /\ mgmtDown \in BOOLEAN
  /\ agent \in {"off", "test", "wait", "crashed"}
  /\ agentSet \in BOOLEAN /\ agentDoomed \in BOOLEAN
  /\ posted \in Seq(Signal)
  /\ opening \in {"idle", "start", "wait", "message", "error", "crashed"} /\ closing \in Nat
  /\ quit \subseteq Nat /\ late \in BOOLEAN
  /\ opened \in {"no", "true", "false"} /\ clicks \in 0..MaxClicks
  /\ wasUp \in BOOLEAN /\ told \in BOOLEAN /\ closed \in {"no", "clean", "forced"}
  /\ worker # "crashed" => conn \subseteq {Owner, OpenLoop} \cup CloseLoops(closing)

\* vpnclient.cpp:381: open() returns isRunning(), a statement about the thread.
\* Whatever ended its loop, it answers true only for a client that has really
\* been CONNECTED.
OpenTruth == opened = "true" => wasUp

\* A client that says DISCONNECTED has no openvpn process left behind it, even
\* when openvpn ignored the stop event for the whole timeout of close().
DisconnectedMeansStopped == state = "DISCONNECTED" => openvpn # "running"

\* No call of open() or close() is on the stack, no signal is on its way and the
\* worker has nothing left to read.
AtRest == /\ posted = <<>> /\ closing = 0 /\ opening = "idle"
          /\ \/ worker \in {"none", "done"}
             \/ worker = "poll" /\ out = {} /\ openvpn = "running"

\* At rest an openvpn process runs only under a client that answered true to
\* open() and shows CONNECTED: no interleaving of cancels, errors and late
\* answers leaves a tunnel nobody shows or will close.
NoLeak == AtRest /\ openvpn = "running" => opened = "true" /\ state = "CONNECTED"

\* At rest with the thread gone, the client's end was told: a connection that
\* open() announced and that is lost without the user asking is reported to
\* onStateChanged, the only place from which MainWindow schedules a reconnect,
\* and the close() that an [ERROR] message starts may not swallow the report; and
\* the client does not pretend to be connected or connecting, unless a close()
\* gave up waiting for the thread, which then wrote its last state over
\* DISCONNECTED.
EndTold ==
  AtRest /\ worker = "done" =>
    /\ opened = "true" /\ clicks = 0 => told
    /\ closed # "forced" => state \in {"DISCONNECTED", "VPNERROR"}

\* The attempt as its opener sees it.
Phase == CASE worker = "none" /\ opened # "false" -> "idle"
           [] worker = "none" /\ opened = "false" -> "failed"
           [] IsRunning /\ ~wasUp -> "trying"
           [] IsRunning /\ wasUp -> "up"
           [] worker \in {"done", "crashed"} /\ wasUp -> "fell"
           [] worker \in {"done", "crashed"} /\ ~wasUp -> "failed"

T == INSTANCE Tunnel WITH phase <- Phase, answer <- opened

\* Behind all its threads the client is one attempt that ends once, and open()
\* answers true only while the attempt is up.
TunnelSpec == T!Spec

\* open() and close() return: their nested loops never wait for one another; and
\* once the client is disconnecting openvpn will be gone, though the worker can
\* overwrite DISCONNECTING and forget to stop it.
OpenReturns == opening # "idle" ~> opening \in {"idle", "crashed"}
CloseReturns == closing > 0 ~> closing = 0
DisconnectStops == state = "DISCONNECTING" ~> openvpn # "running"
CallsReturn == OpenReturns /\ CloseReturns /\ DisconnectStops

\* vpnclient.cpp:257 says the worker stops openvpn on the systems it knows and
\* that close() has to terminate it only "if the system is unknown".
KillOnlyIfStopAsked ==
  [][closing' < closing /\ openvpn = "running" /\ openvpn' = "dead" => stopAsked]_vars

=============================================================================
