----------------------------- MODULE ObhodSession -----------------------------
(***************************************************************************)
(* The session, Obhod123 (backend/obhod123.cpp), and the connect logic of  *)
(* MainWindow (ui/mainwindow.cpp) that drives it, in the mode "obhod" that *)
(* the licence check sets.                                                 *)
(*                                                                         *)
(* All of it runs on the GUI thread, but not one call after the other:     *)
(* onConnect waits in event loops for the download, for open() and between *)
(* attempts, the handlers that call VPNClient::close() wait in the loop of *)
(* close(), and each loop delivers clicks, timers and the signals of any   *)
(* client.  The stack of calls that wait is a variable; one frame stands   *)
(* for a whole MainWindow::onConnect with the onConnectAuto and the        *)
(* Obhod123::onConnect it has called, or for a handler inside close().     *)
(*                                                                         *)
(* A VPNClient object is what module VpnClient shows of it to its owner:   *)
(* its state, whether its thread runs, and the signals it posts.           *)
(* Objects that nothing refers to any more are used again.                 *)
(***************************************************************************)
EXTENDS Naturals, Sequences, FiniteSets

CONSTANTS Clients,         \* VPNClient objects in use at one time
          Nobody,          \* no client
          MaxDepth,        \* bound: calls on the stack when onConnect goes to work
          MaxTimers,       \* bound: reconnect timers counted at one time
          MayQuit,         \* bound: whether the user may quit the program
          ReconnectOnDrop  \* Settings::reconnectOnDrop()

ASSUME SessionAssumption == /\ Nobody \notin Clients
                            /\ MaxDepth \in Nat /\ MaxTimers \in Nat \ {0}
                            /\ MayQuit \in BOOLEAN /\ ReconnectOnDrop \in BOOLEAN

VARIABLES
  vpn,         \* the current client
  state,       \* VPNClient::state() of each client
  phase,       \* its thread: "trying", "up", "rejected", "dropped", or none
  hears,       \* the signals of a client that are connected to Obhod123
  posted,      \* signals on their way to the GUI thread, oldest first
  status,      \* m_vpnStatus
  cancelAuto,  \* cancelAutoConnect
  autoInProgress,
  lastAction,  \* lastUserAction
  needExit,
  quitting,    \* qApp->quit() was called: every event loop returns at once
  stack,       \* the calls that wait, the innermost last
  reconnects,  \* 5 s timers that will call onConnect
  routeTimers, \* 500 ms timers that will add the routes
  routes,      \* routes are installed: "none", "in", or "stale", added too late
  nested,      \* history: onConnect went to work inside another call
  missed       \* history: since the last click, a "cancel" that came during a download
               \* or in the wait of a "retry", a "drop" while onConnectAuto ran, or a
               \* "connect" while a drop was closed

clients == <<vpn, state, phase, hears, posted>>
flags   == <<status, cancelAuto, autoInProgress, lastAction>>
exit    == <<needExit, quitting>>
timers  == <<reconnects, routeTimers, routes>>
history == <<nested, missed>>
vars    == <<clients, flags, exit, stack, timers, history>>

Attempts == {"download", "open", "late", "gaveUp", "settle", "pause", "retry"}
Closers  == {"disconnect", "cancel", "message", "error", "undo"}

Running(c) == phase[c] # "none"

Top  == stack[Len(stack)]
Rest == SubSeq(stack, 1, Len(stack) - 1)

\* The GUI thread is in an event loop that delivers events.
InLoop == ~quitting /\ (stack # <<>> => Top.at \notin {"late", "gaveUp"})

Frame(at, c) == [at |-> at, client |-> c, slow |-> FALSE]

\* A call that starts inside open() may last longer than its timeout.
Push(s, f) == Append([i \in DOMAIN s |-> [s[i] EXCEPT !.slow = s[i].at = "open"]], f)

\* The innermost onConnect goes on.
Goto(at) == Append(Rest, Frame(at, Nobody))

\* The constructors: Obhod123 makes a first client that is never opened, and
\* MainWindow calls onConnect, which is in its first download.
Init ==
  /\ vpn \in Clients
  /\ state = [c \in Clients |-> "DISCONNECTED"] /\ phase = [c \in Clients |-> "none"]
  /\ hears = [c \in Clients |-> {"message", "error"}] /\ posted = <<>>
  /\ status = "Disconnected" /\ cancelAuto = FALSE /\ autoInProgress = TRUE
  /\ lastAction = "Connect" /\ needExit = FALSE /\ quitting = FALSE
  /\ stack = <<Frame("download", Nobody)>>
  /\ reconnects = 0 /\ routeTimers = 0 /\ routes = "none"
  /\ nested = FALSE /\ missed = "nothing"

-----------------------------------------------------------------------------
(* close() and the handlers that call it *)

\* Mutant: a client in VPNERROR is not closed.
CanCloseButError(st, c) == st[c] \in {"CONNECTING", "CONNECTED"} /\ Running(c)

\* VPNClient::close() does nothing unless there is something to close.
CanClose(st, c) == st[c] \notin {"DISCONNECTED", "DISCONNECTING"} /\ Running(c)

\* Mutant: onMessage() sets VPNStatusError.
EnteringError(h) == CASE h = "disconnect" -> "Disconnecting"
                      [] h = "message" -> "Error"
                      [] h = "cancel" -> "Canceling"
                      [] h \in {"error", "undo"} -> status

\* The status a handler sets before its close().
Entering(h) == CASE h \in {"disconnect", "message"} -> "Disconnecting"
                 [] h = "cancel" -> "Canceling"
                 [] h \in {"error", "undo"} -> status

\* Mutant: onStateChanged() keeps the routes.
ClearsOnDisconnect(h) == h = "disconnect"

\* The handlers that call Router::clearSavedRoutes() after it.
Clears(h) == h \in {"disconnect", "error"}

\* A handler up to the loop of close(), the clients being in the states st, with
\* the calls s below it; or all of it, if there is nothing to close.
Handle(h, st, s) ==
  IF CanClose(st, vpn)
  THEN /\ state' = [st EXCEPT ![vpn] = "DISCONNECTING"]
       /\ status' = Entering(h)
       /\ stack' = Push(s, Frame(h, vpn))
       /\ UNCHANGED routes
  ELSE /\ state' = st /\ stack' = s /\ status' = "Disconnected"
       /\ routes' = IF Clears(h) THEN "none" ELSE routes

\* Mutant: close() has no timer.
ThreadOver(c) == ~Running(c) \/ quitting

\* The loop of close() ends: the thread has ended, or the minute is over; nothing can be
\* on its way by then.
CloseOver(c) == ~Running(c) \/ posted = <<>> \/ quitting

\* close() returns, and the handler with it; an openvpn that still runs is killed.
CloseReturn ==
  /\ stack # <<>> /\ Top.at \in Closers
  /\ CloseOver(Top.client)
  /\ phase' = [phase EXCEPT ![Top.client] = "none"]
  /\ state' = [state EXCEPT ![Top.client] = "DISCONNECTED"]
  /\ hears' = [hears EXCEPT ![Top.client] = {}]
  /\ status' = "Disconnected"
  /\ routes' = IF Clears(Top.at) THEN "none" ELSE routes
  /\ stack' = Rest
  /\ UNCHANGED <<vpn, posted, cancelAuto, autoInProgress, lastAction, exit, reconnects,
                 routeTimers, history>>

-----------------------------------------------------------------------------
(* onConnectAuto *)

\* An object nothing refers to: its memory is leaked, here it is used again.
Unused(c) == /\ ~Running(c)
             /\ \A i \in DOMAIN posted : posted[i].client # c
             /\ \A i \in DOMAIN stack : stack[i].client # c

\* The status in which the loop gives up.
Ends == {"Connected", "Disconnecting", "Canceling"}

\* The head of the loop, the calls s being below: make a new client and download its
\* configuration, or return; MainWindow::onConnect tries again in ten seconds
\* when the answer is false.
Loop(s, cancelled, heard) ==
  IF cancelled \/ status \in Ends
  THEN /\ autoInProgress' = FALSE
       /\ hears' = [heard EXCEPT ![vpn] = @ \cup {"message"}]
       /\ stack' = IF cancelled \/ status = "Connected"
                   THEN s ELSE Push(s, Frame("retry", Nobody))
       /\ UNCHANGED <<vpn, state, phase>>
  ELSE /\ autoInProgress' = TRUE
       /\ \E c \in Clients :
            /\ c # vpn /\ Unused(c)
            /\ vpn' = c
       /\ state' = [c \in Clients |-> IF Unused(c) THEN "DISCONNECTED" ELSE state[c]]
       /\ hears' = [c \in Clients |-> IF Unused(c) THEN {"message", "error"} ELSE heard[c]]
       /\ UNCHANGED phase
       /\ stack' = Push(s, Frame("download", Nobody))

\* onConnectAuto begins: unless connected it forgets an earlier cancel and the
\* messages of the last client.
ConnectAuto(s) ==
  IF status = "Connected"
  THEN stack' = s /\ UNCHANGED <<vpn, state, phase, hears, cancelAuto, autoInProgress>>
  ELSE /\ cancelAuto' = FALSE
       /\ Loop(s, FALSE, [hears EXCEPT ![vpn] = @ \ {"message"}])

\* The second after a failed attempt is over; its loop has delivered what was posted.
PauseOver ==
  /\ stack # <<>> /\ Top.at = "pause" /\ (posted = <<>> \/ quitting)
  /\ Loop(Rest, cancelAuto, hears)
  /\ UNCHANGED <<posted, status, cancelAuto, lastAction, exit, timers, history>>

\* The second after a connection is over, and onConnect returns.  The routes' timer
\* is shorter.
SettleOver ==
  /\ stack # <<>> /\ Top.at = "settle" /\ (routeTimers = 0 \/ quitting)
  /\ autoInProgress' = FALSE
  /\ stack' = Rest
  /\ UNCHANGED <<clients, status, cancelAuto, lastAction, exit, timers, history>>

\* The ten seconds are over.
RetryOver ==
  /\ stack # <<>> /\ Top.at = "retry"
  /\ IF needExit
     THEN /\ stack' = Rest
          /\ UNCHANGED <<vpn, state, phase, hears, cancelAuto, autoInProgress, missed>>
     ELSE /\ ConnectAuto(Rest)
          /\ missed' = IF lastAction = "CancelConnect" THEN "retry" ELSE missed
  /\ UNCHANGED <<posted, status, lastAction, exit, timers, nested>>

-----------------------------------------------------------------------------
(* Obhod123::onConnect *)

\* Nothing was downloaded, or nothing of use; or the adapter cannot be set up.
DownloadFails ==
  /\ stack # <<>> /\ Top.at = "download"
  /\ stack' = Goto("pause")
  /\ status' \in IF quitting THEN {status} ELSE {status, "Disconnected"}
  /\ UNCHANGED <<clients, cancelAuto, autoInProgress, lastAction, exit, timers, history>>

\* open() of the current client, which need not be the one this call has made: an
\* open or opened one refuses.
Downloaded ==
  /\ stack # <<>> /\ Top.at = "download" /\ ~quitting
  /\ IF state[vpn] \in {"DISCONNECTED", "VPNERROR"}
     THEN /\ status' = "Connecting"
          /\ state' = [state EXCEPT ![vpn] = "CONNECTING"]
          /\ phase' = [phase EXCEPT ![vpn] = "trying"]
          /\ stack' = Append(Rest, Frame("open", vpn))
     ELSE /\ status' = "Disconnected"
          /\ stack' = Goto("pause")
          /\ UNCHANGED <<state, phase>>
  /\ missed' = IF cancelAuto THEN "cancel" ELSE missed
  /\ UNCHANGED <<vpn, hears, posted, cancelAuto, autoInProgress, lastAction, exit, timers,
                 nested>>

\* The status that says that the attempt was cancelled in open().
Cancelled == {"Canceling", "Disconnected"}

\* open() answers true: the thread runs.
OpenTrue ==
  /\ stack # <<>> /\ Top.at = "open"
  /\ phase[Top.client] \in {"up", "dropped"} \/ (quitting /\ Running(Top.client))
  /\ IF status \in Cancelled
     THEN Handle("undo", state, Goto("pause")) /\ UNCHANGED routeTimers
     ELSE /\ status' = "Connected" /\ routeTimers' = routeTimers + 1
          /\ stack' = Goto("settle")
          /\ UNCHANGED <<state, routes>>
  /\ UNCHANGED <<vpn, phase, hears, posted, cancelAuto, autoInProgress, lastAction, exit,
                 reconnects, history>>

\* open() answers false: the thread has ended.
OpenFalse ==
  /\ stack # <<>> /\ Top.at = "open" /\ ~Running(Top.client)
  /\ status' = "Disconnected"
  /\ stack' = Goto("pause")
  /\ UNCHANGED <<clients, cancelAuto, autoInProgress, lastAction, exit, timers, history>>

\* open() has lasted a minute and says so by a message, ...
OpenLate ==
  /\ stack # <<>> /\ Top.at = "open" /\ ~quitting
  /\ phase[Top.client] \in {"trying", "rejected"} \/ Top.slow
  /\ LET s == Append(Rest, Frame("late", Top.client)) IN
     IF "message" \in hears[Top.client] /\ ReconnectOnDrop
     THEN Handle("message", state, s)
     ELSE stack' = s /\ UNCHANGED <<state, status, routes>>
  /\ UNCHANGED <<vpn, phase, hears, posted, cancelAuto, autoInProgress, lastAction, exit,
                 reconnects, routeTimers, history>>

-----------------------------------------------------------------------------
(* Signals of the clients *)

\* Mutant: a reconnect only for a connection that has been announced.
ReconnectIfShown == ReconnectOnDrop /\ lastAction = "Connect" /\ status = "Connecting"

\* MainWindow::onVpnStateChanged(VPNERROR) schedules a reconnect.
Reconnects == ReconnectOnDrop /\ lastAction = "Connect" /\ ~autoInProgress

\* onVpnStateChanged and then onStateChanged, for VPNERROR.
Error(st, s) ==
  /\ reconnects' = IF Reconnects /\ reconnects < MaxTimers THEN reconnects + 1
                                                           ELSE reconnects
  /\ missed' = IF /\ autoInProgress /\ lastAction = "Connect"
                  /\ \E i \in DOMAIN stack : stack[i].at = "settle"
               THEN "drop" ELSE missed
  /\ Handle("error", st, s)

\* ... then by the state, and returns.
OpenLateError ==
  /\ stack # <<>> /\ Top.at = "late"
  /\ LET c == Top.client
         s == Goto("gaveUp")
         st == [state EXCEPT ![c] = "VPNERROR"] IN
     IF "error" \in hears[c] /\ state[c] # "VPNERROR"
     THEN Error(st, s)
     ELSE state' = st /\ stack' = s /\ UNCHANGED <<status, routes, reconnects, missed>>
  /\ UNCHANGED <<vpn, phase, hears, posted, cancelAuto, autoInProgress, lastAction, exit,
                 routeTimers, nested>>

OpenGaveUp ==
  /\ stack # <<>> /\ Top.at = "gaveUp"
  /\ status' = "Disconnected"
  /\ stack' = Goto("pause")
  /\ UNCHANGED <<clients, cancelAuto, autoInProgress, lastAction, exit, timers, history>>

\* A posted signal reaches Obhod123::onMessage or onStateChanged.
Deliver ==
  /\ InLoop /\ posted # <<>>
  /\ posted' = Tail(posted)
  /\ \/ /\ Head(posted).sig = "error" /\ Error(state, stack)
     \/ /\ Head(posted).sig = "message" /\ ReconnectOnDrop
        /\ Handle("message", state, stack)
        /\ UNCHANGED <<reconnects, missed>>
     \/ /\ Head(posted).sig = "message" /\ ~ReconnectOnDrop
        /\ UNCHANGED <<state, status, stack, routes, reconnects, missed>>
  /\ UNCHANGED <<vpn, phase, hears, cancelAuto, autoInProgress, lastAction, exit,
                 routeTimers, nested>>

\* A signal is posted if it is connected to Obhod123.
Emit(c, sig) == IF sig \in hears[c] THEN <<[client |-> c, sig |-> sig]>> ELSE <<>>

\* Mutant: stateChanged() is not emitted.
FailSilently(c, before) ==
  /\ state' = [state EXCEPT ![c] = "VPNERROR"]
  /\ posted' = posted \o before

\* A client leaves CONNECTING, CONNECTED, or the DISCONNECTING that a close() has set,
\* for VPNERROR, after the signals before.
Fail(c, before) ==
  /\ state' = [state EXCEPT ![c] = "VPNERROR"]
  /\ posted' = posted \o before \o Emit(c, "error")

\* The tunnel comes up, whatever the state is by then.
ClientUp(c) ==
  /\ phase[c] = "trying"
  /\ phase' = [phase EXCEPT ![c] = "up"]
  /\ state' = [state EXCEPT ![c] = "CONNECTED"]
  /\ UNCHANGED <<vpn, hears, posted>>

\* AUTH_FAILED, or UPDOWN:DOWN on the management port: an error, and openvpn runs on.
ClientFails(c) ==
  /\ \/ /\ phase[c] = "trying" /\ phase' = [phase EXCEPT ![c] = "rejected"]
        /\ Fail(c, Emit(c, "message"))
     \/ /\ phase[c] = "up" /\ phase' = [phase EXCEPT ![c] = "dropped"]
        /\ Fail(c, <<>>)
  /\ UNCHANGED <<vpn, hears>>

\* openvpn has ended: the thread ends too, with an error unless one was reported or a
\* disconnect asked for.
ClientEnds(c) ==
  /\ Running(c) /\ phase' = [phase EXCEPT ![c] = "none"]
  /\ IF state[c] \in {"CONNECTING", "CONNECTED"}
     THEN Fail(c, Emit(c, "message")) ELSE UNCHANGED <<state, posted>>
  /\ UNCHANGED <<vpn, hears>>

Client == /\ \E c \in Clients : ClientUp(c) \/ ClientFails(c) \/ ClientEnds(c)
          /\ UNCHANGED <<flags, exit, stack, timers, history>>

-----------------------------------------------------------------------------
(* The user and the timers *)

\* VPNClient::CONNECTED, which MainWindow::onConnect compares with a VPNStatus, has
\* the value of VPNStatusDisconnecting.
ClientConnected == "Disconnecting"

Closing == \E i \in DOMAIN stack : stack[i].at \in Closers

\* Bound: one more call if the new one only waits to try again, as it does inside
\* onCancel's close(), and no third one.
Room(f) == IF f.at = "retry" THEN MaxDepth + 1 ELSE MaxDepth

\* MainWindow::onConnect, called from whatever loop runs.
MainConnect ==
  /\ InLoop
  /\ IF status = ClientConnected
     THEN UNCHANGED <<vpn, state, phase, hears, cancelAuto, autoInProgress, lastAction,
                      stack, history>>
     ELSE /\ lastAction' = "Connect"
          /\ ConnectAuto(stack)
          /\ stack' # stack => ~nested /\ Len(stack) < Room(stack'[Len(stack')])
          /\ nested' = (nested \/ (stack # <<>> /\ stack' # stack))
          /\ missed' = CASE stack' # stack -> "nothing"
                         [] stack' = stack /\ Closing -> "connect"
                         [] stack' = stack /\ ~Closing -> missed
  /\ UNCHANGED <<posted, status, exit, routeTimers, routes>>

ClickConnect == MainConnect /\ UNCHANGED reconnects

\* Armed five seconds ago, on conditions that nobody looks at again.
ReconnectTimer ==
  /\ reconnects > 0 /\ reconnects' = reconnects - 1
  /\ MainConnect

ClickDisconnect ==
  /\ InLoop
  /\ lastAction' = "Disconnect" /\ missed' = "nothing"
  /\ Handle("disconnect", state, stack)
  /\ UNCHANGED <<vpn, phase, hears, posted, cancelAuto, autoInProgress, exit, reconnects,
                 routeTimers, nested>>

\* Mutant: onCancel() only closes the client.
KeepTrying == cancelAuto

\* What onCancel() makes of cancelAutoConnect.
StopTrying == TRUE

ClickCancel ==
  /\ InLoop
  /\ lastAction' = "CancelConnect" /\ missed' = "nothing"
  /\ cancelAuto' = StopTrying
  /\ Handle("cancel", state, stack)
  /\ UNCHANGED <<vpn, phase, hears, posted, autoInProgress, exit, reconnects, routeTimers,
                 nested>>

\* The close button; the tray menu quits without needExit.
Quit ==
  /\ MayQuit /\ InLoop /\ quitting' = TRUE /\ needExit' \in {needExit, TRUE}
  /\ UNCHANGED <<clients, flags, stack, timers, history>>

\* The routes are added, whatever has become of the tunnel in the half second.
RouteTimer ==
  /\ InLoop /\ routeTimers > 0
  /\ routeTimers' = routeTimers - 1
  /\ routes' = IF status = "Connected" \/ routes = "in" THEN "in" ELSE "stale"
  /\ UNCHANGED <<clients, flags, exit, stack, reconnects, history>>

Calls == \/ DownloadFails \/ Downloaded
         \/ OpenTrue \/ OpenFalse \/ OpenLate \/ OpenLateError \/ OpenGaveUp
         \/ PauseOver \/ SettleOver \/ RetryOver
         \/ CloseReturn

Events == Deliver \/ ReconnectTimer \/ RouteTimer

\* Bound: once calls nest only Cancel is clicked.
User == \/ ~nested /\ (ClickConnect \/ ClickDisconnect \/ Quit)
        \/ ClickCancel

Next == Calls \/ Events \/ User \/ Client

Spec == Init /\ [][Next]_vars

\* Calls return and loops deliver; nothing is assumed of the user and of openvpn.
FairSpec == Spec /\ WF_vars(Calls) /\ WF_vars(Events)

-----------------------------------------------------------------------------
(* Properties *)

\* Every variable has its type; a call names a client just when it is inside a member
\* function of that client.
TypeOK ==
  /\ vpn \in Clients
  /\ state \in [Clients -> {"DISCONNECTED", "DISCONNECTING", "CONNECTING", "CONNECTED",
                            "VPNERROR"}]
  /\ phase \in [Clients -> {"none", "trying", "up", "rejected", "dropped"}]
  /\ hears \in [Clients -> SUBSET {"message", "error"}]
  /\ posted \in Seq([client : Clients, sig : {"message", "error"}])
  /\ status \in {"Disconnected", "Disconnecting", "Connecting", "Connected", "Canceling"}
  /\ cancelAuto \in BOOLEAN /\ autoInProgress \in BOOLEAN
  /\ lastAction \in {"Connect", "Disconnect", "CancelConnect"}
  /\ needExit \in BOOLEAN /\ quitting \in BOOLEAN
  /\ stack \in Seq([at : Attempts \cup Closers, client : Clients \cup {Nobody},
                     slow : BOOLEAN])
  /\ \A i \in DOMAIN stack : stack[i].client = Nobody
        <=> stack[i].at \in {"download", "settle", "pause", "retry", "gaveUp"}
  /\ reconnects \in 0..MaxTimers /\ routeTimers \in Nat
  /\ routes \in {"none", "in", "stale"}
  /\ nested \in BOOLEAN /\ missed \in {"nothing", "cancel", "drop", "connect", "retry"}

\* No call waits and no signal is on its way.
AtRest == stack = <<>> /\ posted = <<>> /\ ~quitting

\* Every running openvpn can still be closed: it belongs to the current client, which
\* the handlers close, or to one that a waiting call opens or closes.  It
\* holds as long as no onConnect went to work inside another call, and until the user
\* quits while an error waits that nothing but its delivery can bring to a close.
NoOrphan == \A c \in Clients : Running(c) /\ c # vpn /\ ~nested
                                 /\ (quitting => ReconnectOnDrop)
              => \E i \in DOMAIN stack : stack[i].client = c

\* At rest the session shows Connected just when there is a tunnel, whatever
\* failures, cancels and late answers came in between.
StatusHonest == AtRest /\ ~nested => (status = "Connected" <=> phase[vpn] = "up")

\* A cancel that came last holds: no attempt, retry or timer leaves a client
\* running, unless the cancel came during a download, which onConnect does not notice.
CancelHolds == AtRest /\ lastAction = "CancelConnect" /\ ~nested /\ missed # "cancel"
                 => \A c \in Clients : ~Running(c)

\* After a cancel no call of onConnect makes another client, however the calls are
\* nested, unless one was in its ten-second wait, after which it forgets the cancel.
CancelStopsRetry ==
  [][vpn' # vpn /\ lastAction' = "CancelConnect" => missed' = "retry"]_vars

\* Who asked for a connection last, with the setting reconnectOnDrop, gets one or a timer
\* that will try again, but for a drop in the second in which onConnectAuto still waits, and
\* for a timer or click that finds Connected while a lost connection is being closed.
DropsReconnect == ReconnectOnDrop /\ AtRest /\ ~nested /\ lastAction = "Connect"
                         /\ status # "Connected" /\ missed \notin {"drop", "connect"}
                    => reconnects > 0

\* Without a connection no routes are left, but for those the timer adds after the
\* end of it, and those of a connection ended by onCancel.
RoutesCleared == AtRest /\ status # "Connected" /\ ~nested
                        /\ routeTimers = 0 /\ lastAction # "CancelConnect"
                   => routes # "in"

\* A close() that a handler waits for ends, and so does an attempt that was cancelled,
\* as long as no onConnect goes to work inside another call: one that begins inside
\* onCancel's close() finds Canceling every ten seconds, and close() waits for it.
CloseEnds == Closing ~> ~Closing \/ nested
CancelEnds == lastAction = "CancelConnect" /\ ~quitting
                ~> \/ stack = <<>> \/ nested
                   \/ lastAction # "CancelConnect" \/ missed = "cancel"
SessionEnds == CloseEnds /\ CancelEnds

\* mainwindow.h:136: needExit is "used for exiting from Event loops".
ExitEnds == needExit ~> stack = <<>>

=============================================================================
