---------------------------- MODULE VpnClientProofs ----------------------------
(***************************************************************************)
(* A client that says DISCONNECTED has left no openvpn process behind, and *)
(* open() answers true only for a client that has been CONNECTED, for any  *)
(* amount of openvpn's output and any number of disconnects.  On this rest *)
(* that the client is one attempt to whoever opened it (Tunnel), that it   *)
(* never leaves a tunnel that nobody shows, and that its end is reported.  *)
(***************************************************************************)
EXTENDS VpnClient, TLAPS

Typed == TypeOK /\ conn \subseteq Nat

\* The worker has done its first step; it has made its last one.
Begun == worker \notin {"none", "start"}
Ended == worker \in {"done", "crashed"}

\* open() starts the worker, and nothing else does.
Once == /\ opened = "no" /\ opening = "idle" => worker = "none"
        /\ opening \in {"start", "wait", "message", "error"} => worker # "none"

\* An openvpn process is one that close() can see, and runs under no client that
\* says DISCONNECTED; nor is a worker about to start it there.
Stop == /\ worker \in {"none", "start"} => openvpn = "none"
        /\ openvpn = "running" => compose
        /\ state = "DISCONNECTED" => openvpn # "running" /\ worker # "start"

\* What tells an event loop to quit: that of open() the connection (up) or the
\* worker's end, that of a close() the worker's end, so the worker has begun.
Tells(loops, up, begun) == /\ OpenLoop \in loops => up
                           /\ \A i \in Nat \ {0} : CloseLoop(i) \in loops => begun

AllTell(s, up, begun) == \A k \in 1..Len(s) : Tells(s[k].to, up, begun)

Posted == AllTell(posted, wasUp \/ Ended, Begun)
Quits  == Tells(quit, wasUp \/ Ended \/ late, Begun)

IInv == Typed /\ Once /\ Stop /\ Posted /\ Quits /\ OpenTruth

-----------------------------------------------------------------------------
(* Signals *)

LEMMA TellAppend ==
  ASSUME NEW s \in Seq(Signal), NEW t \in Seq(Signal), NEW up \in BOOLEAN, NEW begun \in BOOLEAN,
         AllTell(s, up, begun), AllTell(t, up, begun)
  PROVE  AllTell(s \o t, up, begun)
BY DEF AllTell

LEMMA TellMore ==
  ASSUME NEW s \in Seq(Signal), NEW up \in BOOLEAN, NEW begun \in BOOLEAN,
         NEW up2 \in BOOLEAN, NEW begun2 \in BOOLEAN,
         AllTell(s, up, begun), up => up2, begun => begun2
  PROVE  AllTell(s, up2, begun2)
BY DEF AllTell, Tells

LEMMA TellHead ==
  ASSUME NEW s \in Seq(Signal), s # <<>>, NEW up \in BOOLEAN, NEW begun \in BOOLEAN,
         AllTell(s, up, begun)
  PROVE  /\ Head(s) \in Signal /\ Tail(s) \in Seq(Signal)
         /\ Tells(Head(s).to, up, begun) /\ AllTell(Tail(s), up, begun)
<1>1. Len(s) \in Nat \ {0} /\ Head(s) = s[1] /\ Tail(s) \in Seq(Signal)
  OBVIOUS
<1>2. \A k \in 1..Len(Tail(s)) : Tail(s)[k] = s[k + 1] /\ k + 1 \in 1..Len(s)
  BY <1>1
<1> QED
  BY <1>1, <1>2 DEF AllTell

LEMMA Emitted ==
  ASSUME NEW sig \in {"message", "error", "connected", "finished"}, NEW to,
         conn \subseteq Nat, NEW up \in BOOLEAN, NEW begun \in BOOLEAN,
         Tells(conn \cap to, up, begun)
  PROVE  Emit(sig, to) \in Seq(Signal) /\ AllTell(Emit(sig, to), up, begun)
<1> DEFINE e == [sig |-> sig, to |-> conn \cap to]
<1>1. e \in Signal /\ e.to = conn \cap to
  BY DEF Signal
<1> HIDE DEF e
<1>2. <<e>> \in Seq(Signal) /\ Len(<<e>>) = 1 /\ <<e>>[1] = e
  BY <1>1
<1>3. AllTell(<<e>>, up, begun)
  BY <1>1, <1>2 DEF AllTell
<1>4. <<>> \in Seq(Signal) /\ AllTell(<<>>, up, begun)
  BY DEF AllTell
<1> QED
  BY <1>2, <1>3, <1>4 DEF Emit, e

\* A signal for Obhod123 tells no loop to quit; the one for open()'s loop that one.
LEMMA TellOwner ==
  ASSUME NEW up \in BOOLEAN, NEW begun \in BOOLEAN
  PROVE  /\ Tells(conn \cap {Owner}, up, begun)
         /\ up => Tells(conn \cap {OpenLoop}, up, begun)
         /\ up /\ begun => \A loops : Tells(loops, up, begun)
         /\ Tells({}, up, begun)
BY DEF Tells, Owner, OpenLoop, CloseLoop

LEMMA ErrorMessageTells ==
  ASSUME conn \subseteq Nat, NEW up \in BOOLEAN, NEW begun \in BOOLEAN
  PROVE  ErrorMessage \in Seq(Signal) /\ AllTell(ErrorMessage, up, begun)
BY TellOwner, Emitted DEF ErrorMessage

LEMMA SetStateTells ==
  ASSUME NEW s \in {"VPNERROR", "CONNECTED"}, NEW before \in Seq(Signal), SetState(s, before),
         conn \subseteq Nat, posted \in Seq(Signal),
         NEW up \in BOOLEAN, NEW begun \in BOOLEAN,
         AllTell(posted, up, begun), AllTell(before, up, begun), s = "CONNECTED" => up
  PROVE  state' = s /\ posted' \in Seq(Signal) /\ AllTell(posted', up, begun)
<1>1. state' = s
  BY DEF SetState
<1>2. posted \o before \in Seq(Signal) /\ AllTell(posted \o before, up, begun)
  BY TellAppend
<1>3. \E t \in Seq(Signal) : posted' = (posted \o before) \o t /\ AllTell(t, up, begun)
  <2>1. CASE state = s
    <3>1. posted' = (posted \o before) \o <<>>
      BY <2>1 DEF SetState
    <3>2. <<>> \in Seq(Signal) /\ AllTell(<<>>, up, begun)
      BY DEF AllTell
    <3> QED
      BY <3>1, <3>2
  <2>2. CASE state # s /\ s = "VPNERROR"
    <3>1. posted' = (posted \o before) \o Emit("error", {Owner})
      BY <2>2 DEF SetState
    <3>2. Emit("error", {Owner}) \in Seq(Signal) /\ AllTell(Emit("error", {Owner}), up, begun)
      BY TellOwner, Emitted
    <3> QED
      BY <3>1, <3>2
  <2>3. CASE state # s /\ s = "CONNECTED"
    <3>1. posted' = (posted \o before) \o Emit("connected", {OpenLoop})
      BY <2>3 DEF SetState
    <3>2. /\ Emit("connected", {OpenLoop}) \in Seq(Signal)
          /\ AllTell(Emit("connected", {OpenLoop}), up, begun)
      BY <2>3, TellOwner, Emitted
    <3> QED
      BY <3>1, <3>2
  <2> QED
    BY <2>1, <2>2, <2>3
<1> DEFINE p == posted \o before
<1>4. PICK t \in Seq(Signal) : posted' = p \o t /\ AllTell(t, up, begun)
  BY <1>3
<1>5. p \in Seq(Signal) /\ AllTell(p, up, begun)
  BY <1>2
<1> HIDE DEF p
<1>6. AllTell(p \o t, up, begun)
  BY <1>4, <1>5, TellAppend
<1>7. p \o t \in Seq(Signal)
  BY <1>4, <1>5
<1> QED
  BY <1>1, <1>4, <1>6, <1>7

\* CloseFrom() enters a close() or leaves the state as it was given.
LEMMA CloseFromKeeps ==
  ASSUME NEW s \in State, CloseFrom(s), Typed, worker' = worker
  PROVE  /\ state' \in {s, "DISCONNECTING"} /\ state' \in State
         /\ closing' \in Nat /\ conn' \subseteq Nat
         /\ conn \subseteq {Owner, OpenLoop} \cup CloseLoops(closing) =>
              conn' \subseteq {Owner, OpenLoop} \cup CloseLoops(closing')
         /\ state' = "DISCONNECTED" => s = "DISCONNECTED"
<1>1. closing \in Nat /\ conn \subseteq Nat
  BY DEF Typed, TypeOK
<1>2. CASE CanClose(s)
  <2>1. /\ state' = "DISCONNECTING" /\ closing' = closing + 1
        /\ conn' = conn \cup {CloseLoop(closing + 1)}
    BY <1>2 DEF CloseFrom
  <2> QED
    BY <1>1, <2>1 DEF State, CloseLoop, CloseLoops
<1>3. CASE ~CanClose(s)
  BY <1>1, <1>3 DEF CloseFrom
<1> QED
  BY <1>2, <1>3

-----------------------------------------------------------------------------
(* Steps *)

LEMMA PostedKept ==
  ASSUME Typed, Posted, posted' = posted, wasUp => wasUp', Ended => Ended', Begun => Begun',
         wasUp' \in BOOLEAN
  PROVE  Posted'
BY TellMore DEF Posted, Typed, TypeOK, Ended, Begun

LEMMA PostedStep ==
  ASSUME NEW up \in BOOLEAN, NEW begun \in BOOLEAN, posted' \in Seq(Signal),
         AllTell(posted', up, begun), wasUp' \in BOOLEAN,
         up => wasUp' \/ Ended', begun => Begun'
  PROVE  Posted'
BY TellMore DEF Posted, Ended, Begun

\* A thread reports an error, with or without a message before it.
LEMMA ErrorStep ==
  ASSUME Typed, Posted, NEW before, before = <<>> \/ before = ErrorMessage,
         SetState("VPNERROR", before)
  PROVE  /\ state' = "VPNERROR" /\ posted' \in Seq(Signal)
         /\ AllTell(posted', wasUp \/ Ended, Begun)
<1> DEFINE up == wasUp \/ Ended
<1>1. up \in BOOLEAN /\ Begun \in BOOLEAN
  BY DEF Typed, TypeOK, Ended, Begun
<1>2. conn \subseteq Nat /\ posted \in Seq(Signal) /\ AllTell(posted, up, Begun)
  BY DEF Typed, TypeOK, Posted
<1> HIDE DEF up
<1>3. <<>> \in Seq(Signal) /\ AllTell(<<>>, up, Begun)
  BY DEF AllTell
<1>4. before \in Seq(Signal) /\ AllTell(before, up, Begun)
  BY <1>1, <1>2, <1>3, ErrorMessageTells
<1>5. state' = "VPNERROR" /\ posted' \in Seq(Signal) /\ AllTell(posted', up, Begun)
  BY <1>1, <1>2, <1>4, SetStateTells
<1> QED
  BY <1>5 DEF up

\* The program dies: nothing is on its way to anybody.
LEMMA CrashStep ==
  ASSUME Crash, wasUp' \in BOOLEAN
  PROVE  posted' \in Seq(Signal) /\ Posted'
<1>1. posted' = <<>> /\ <<>> \in Seq(Signal) /\ Len(<<>>) = 0
  BY DEF Crash
<1> QED
  BY <1>1 DEF Posted, AllTell

LEMMA QuitsKept ==
  ASSUME Quits, quit' \subseteq quit, wasUp => wasUp', Ended => Ended', Begun => Begun',
         late => late'
  PROVE  Quits'
BY DEF Quits, Tells

LEMMA InitIInv == Init => IInv
<1> SUFFICES ASSUME Init PROVE IInv
  OBVIOUS
<1>1. posted = <<>> /\ <<>> \in Seq(Signal) /\ Len(<<>>) = 0
  BY DEF Init
<1>2. Typed
  <2>1. written \in 0..MaxMarkers /\ clicks \in 0..MaxClicks
    BY VpnClientAssumption DEF Init
  <2>2. conn \subseteq Nat /\ conn \subseteq {Owner, OpenLoop} \cup CloseLoops(closing)
    BY DEF Init, Owner
  <2>3. state \in State /\ quit \subseteq Nat /\ out \subseteq {"init", "authFailed"}
    BY DEF Init, State
  <2> QED
    BY <1>1, <2>1, <2>2, <2>3 DEF Init, Typed, TypeOK
<1>3. Once /\ Stop /\ Quits /\ OpenTruth
  BY DEF Init, Once, Stop, Quits, Tells, OpenTruth, Begun, Ended
<1>4. Posted
  BY <1>1 DEF Posted, AllTell
<1> QED
  BY <1>2, <1>3, <1>4 DEF IInv

LEMMA RunStartStep == IInv /\ RunStart => IInv'
<1> SUFFICES ASSUME IInv, RunStart PROVE IInv'
  OBVIOUS
<1> USE DEF IInv
<1>0. /\ state' \in {state, "VPNERROR"} /\ posted' \in Seq(Signal)
      /\ AllTell(posted', wasUp \/ Ended, Begun)
  <2>1. CASE state' = state /\ posted' = posted
    BY <2>1 DEF Typed, TypeOK, Posted
  <2>2. CASE SetState("VPNERROR", ErrorMessage)
    BY <2>2, ErrorStep
  <2> QED
    BY <2>1, <2>2 DEF RunStart
<1>1. Typed'
  <2>1. /\ conn' \subseteq Nat
        /\ worker' # "crashed" => conn' \subseteq {Owner, OpenLoop} \cup CloseLoops(closing')
    BY DEF RunStart, calls, Typed, TypeOK
  <2>2. worker' \in {"poll", "exit"} /\ openvpn' \in {"running", "dead"} /\ compose' = TRUE
    BY DEF RunStart
  <2>3. state' \in State
    BY <1>0 DEF Typed, TypeOK, State
  <2> QED
    BY <1>0, <2>1, <2>2, <2>3 DEF RunStart, agents, calls, history, Typed, TypeOK
<1>2. Once'
  BY DEF RunStart, calls, Once
<1>3. Stop'
  BY <1>0 DEF RunStart, Stop
<1>4. Posted'
  <2>1. wasUp' = wasUp /\ Ended' = FALSE /\ Ended = FALSE /\ Begun' = TRUE
    BY DEF RunStart, history, Ended, Begun
  <2> QED
    BY <1>0, <2>1, PostedStep DEF Typed, TypeOK, Begun
<1>5. Quits'
  BY QuitsKept DEF RunStart, calls, history, Ended, Begun
<1>6. OpenTruth'
  BY DEF RunStart, calls, history, OpenTruth
<1> QED
  BY <1>1, <1>2, <1>3, <1>4, <1>5, <1>6

LEMMA RunLoopEndsStep == IInv /\ RunLoopEnds => IInv'
<1> SUFFICES ASSUME IInv, RunLoopEnds PROVE IInv'
  OBVIOUS
<1> USE DEF IInv
<1>0. \/ /\ posted' = posted /\ opening' = opening /\ closing' = closing
         /\ Ended' = Ended /\ Begun' = Begun /\ worker' \in {worker, "exit", "checkConnected"}
         /\ worker # "crashed" => worker' # "crashed"
         /\ worker' = "start" => worker = "start"
         /\ worker' \in {"none", "start"} => worker' = worker
         /\ agent' = agent
      \/ Crash
  BY DEF RunLoopEnds, Begun, Ended
<1>a. wasUp' = wasUp /\ wasUp \in BOOLEAN /\ quit' = quit /\ late' = late
  BY DEF RunLoopEnds, history, Typed, TypeOK
<1>b. posted' \in Seq(Signal) /\ worker' \in {worker, "exit", "checkConnected", "crashed"}
  BY <1>0, <1>a, CrashStep DEF Crash, Typed, TypeOK
<1>1. Typed'
  <2>1. /\ conn' \subseteq Nat
        /\ worker' # "crashed" => conn' \subseteq {Owner, OpenLoop} \cup CloseLoops(closing')
    BY <1>0 DEF Crash, RunLoopEnds, Typed, TypeOK
  <2>2. /\ opening' \in {opening, "crashed"} /\ closing' \in Nat
        /\ agent' \in {agent, "crashed"}
    BY <1>0 DEF Crash, Typed, TypeOK
  <2>3. /\ UNCHANGED <<state, compose, process>> /\ agentSet' = agentSet
        /\ UNCHANGED <<quit, late, opened, clicks>> /\ UNCHANGED history
        /\ agentDoomed' \in BOOLEAN
    BY DEF RunLoopEnds, Typed, TypeOK
  <2>4. worker' \in {"none", "start", "poll", "authFailed", "initialized", "exit", "done",
                     "dropConnected", "dropConnecting", "crashed"} \cup DOMAIN Tested
    BY <1>b DEF Typed, TypeOK, Tested
  <2> QED
    BY <1>b, <2>1, <2>2, <2>3, <2>4 DEF process, history, Typed, TypeOK
<1>2. Once'
  BY <1>0 DEF Crash, RunLoopEnds, Once
<1>3. Stop'
  BY <1>0 DEF Crash, RunLoopEnds, process, Stop
<1>4. Posted'
  BY <1>0, <1>a, CrashStep, PostedKept DEF Typed
<1>5. Quits'
  BY <1>0, <1>a, QuitsKept DEF Crash, Ended, Begun
<1>6. OpenTruth'
  BY <1>a DEF RunLoopEnds, OpenTruth
<1> QED
  BY <1>1, <1>2, <1>3, <1>4, <1>5, <1>6

LEMMA RunReadStep == IInv /\ RunRead => IInv'
<1> SUFFICES ASSUME IInv, RunRead PROVE IInv'
  OBVIOUS
<1> USE DEF IInv
<1>1. Typed'
  BY VpnClientAssumption DEF RunRead, agents, calls, history, Typed, TypeOK, State, Tested
<1>2. Once'
  BY DEF RunRead, calls, Once
<1>3. Stop'
  BY DEF RunRead, Stop, Once
<1>4. Posted'
  BY PostedKept, <1>1 DEF RunRead, history, Ended, Begun, Typed, TypeOK
<1>5. Quits'
  BY QuitsKept DEF RunRead, calls, history, Ended, Begun
<1>6. OpenTruth'
  BY DEF RunRead, calls, history, OpenTruth
<1> QED
  BY <1>1, <1>2, <1>3, <1>4, <1>5, <1>6

LEMMA RunAuthFailedStep == IInv /\ RunAuthFailed => IInv'
<1> SUFFICES ASSUME IInv, RunAuthFailed PROVE IInv'
  OBVIOUS
<1> USE DEF IInv
<1>0. /\ state' = "VPNERROR" /\ posted' \in Seq(Signal)
      /\ AllTell(posted', wasUp \/ Ended, Begun)
  BY ErrorStep DEF RunAuthFailed
<1>1. Typed'
  <2>1. /\ conn' \subseteq Nat
        /\ worker' # "crashed" => conn' \subseteq {Owner, OpenLoop} \cup CloseLoops(closing')
    BY DEF RunAuthFailed, calls, Typed, TypeOK
  <2>2. state' \in State
    BY <1>0 DEF State
  <2> QED
    BY <1>0, <2>1, <2>2 DEF RunAuthFailed, process, agents, calls, history, Typed, TypeOK
<1>2. Once'
  BY DEF RunAuthFailed, calls, Once
<1>3. Stop'
  BY <1>0 DEF RunAuthFailed, process, Stop
<1>4. Posted'
  BY <1>0, PostedStep DEF RunAuthFailed, history, Ended, Begun, Typed, TypeOK
<1>5. Quits'
  BY QuitsKept DEF RunAuthFailed, calls, history, Ended, Begun
<1>6. OpenTruth'
  BY DEF RunAuthFailed, calls, history, OpenTruth
<1> QED
  BY <1>1, <1>2, <1>3, <1>4, <1>5, <1>6

LEMMA RunInitializedStep == IInv /\ RunInitialized => IInv'
<1> SUFFICES ASSUME IInv, RunInitialized PROVE IInv'
  OBVIOUS
<1> USE DEF IInv
<1>0. state' = "CONNECTED" /\ posted' \in Seq(Signal) /\ AllTell(posted', TRUE, TRUE)
  <2>1. conn \subseteq Nat /\ posted \in Seq(Signal) /\ Begun
    BY DEF RunInitialized, Typed, TypeOK, Begun
  <2>2. AllTell(posted, TRUE, TRUE)
    BY <2>1, TellMore DEF Posted, Typed, TypeOK, Ended
  <2>3. <<>> \in Seq(Signal) /\ AllTell(<<>>, TRUE, TRUE)
    BY DEF AllTell
  <2> QED
    BY <2>1, <2>2, <2>3, SetStateTells DEF RunInitialized
<1>1. Typed'
  <2>1. /\ conn' \subseteq Nat
        /\ worker' # "crashed" => conn' \subseteq {Owner, OpenLoop} \cup CloseLoops(closing')
    BY DEF RunInitialized, calls, Typed, TypeOK
  <2>2. /\ state' \in State /\ worker' = "poll" /\ wasUp' = TRUE
        /\ agent' \in {"off", "test", "wait", "crashed"}
    BY <1>0 DEF RunInitialized, State, Typed, TypeOK
  <2> QED
    BY <1>0, <2>1, <2>2 DEF RunInitialized, process, calls, Typed, TypeOK
<1>2. Once'
  BY DEF RunInitialized, calls, Once
<1>3. Stop'
  BY <1>0 DEF RunInitialized, process, Stop
<1>4. Posted'
  BY <1>0, PostedStep DEF RunInitialized, Begun
<1>5. Quits'
  BY QuitsKept DEF RunInitialized, calls, Ended, Begun
<1>6. OpenTruth'
  BY DEF RunInitialized, calls, OpenTruth
<1> QED
  BY <1>1, <1>2, <1>3, <1>4, <1>5, <1>6

LEMMA RunStopStep == IInv /\ RunStop => IInv'
<1> SUFFICES ASSUME IInv, RunStop PROVE IInv'
  OBVIOUS
<1> USE DEF IInv
<1>1. Typed'
  BY VpnClientAssumption DEF RunStop, thread, agents, calls, history, Typed, TypeOK, State,
     Tested
<1>2. Once'
  BY DEF RunStop, thread, calls, Once
<1>3. Stop'
  BY DEF RunStop, thread, Stop, Once
<1>4. Posted'
  BY PostedKept, <1>1 DEF RunStop, thread, history, Ended, Begun, Typed, TypeOK
<1>5. Quits'
  BY QuitsKept DEF RunStop, thread, calls, history, Ended, Begun
<1>6. OpenTruth'
  BY DEF RunStop, calls, history, OpenTruth
<1> QED
  BY <1>1, <1>2, <1>3, <1>4, <1>5, <1>6

LEMMA RunCheckStep == IInv /\ RunCheck => IInv'
<1> SUFFICES ASSUME IInv, RunCheck PROVE IInv'
  OBVIOUS
<1> USE DEF IInv
<1>0. worker \in {"checkConnected", "checkConnecting"}
  BY DEF RunCheck, Tested
<1>a. worker' \in {"dropConnected", "dropConnecting", "checkConnecting", "exit"}
  BY <1>0 DEF RunCheck
<1>b. posted' \in Seq(Signal) /\ AllTell(posted', wasUp \/ Ended, Begun)
  <2> DEFINE up == wasUp \/ Ended
  <2>1. up \in BOOLEAN /\ Begun \in BOOLEAN
    BY DEF Typed, TypeOK, Ended, Begun
  <2>2. conn \subseteq Nat /\ posted \in Seq(Signal) /\ AllTell(posted, up, Begun)
    BY DEF Typed, TypeOK, Posted
  <2> HIDE DEF up
  <2>3. <<>> \in Seq(Signal) /\ AllTell(<<>>, up, Begun)
    BY DEF AllTell
  <2>4. ErrorMessage \in Seq(Signal) /\ AllTell(ErrorMessage, up, Begun)
    BY <2>1, <2>2, ErrorMessageTells
  <2>5. PICK t \in {<<>>, ErrorMessage} : posted' = posted \o t
    BY DEF RunCheck
  <2>6. t \in Seq(Signal) /\ AllTell(t, up, Begun)
    BY <2>3, <2>4
  <2>7. AllTell(posted \o t, up, Begun)
    BY <2>1, <2>2, <2>6, TellAppend
  <2>8. posted \o t \in Seq(Signal)
    BY <2>2, <2>6
  <2> QED
    BY <2>5, <2>7, <2>8 DEF up
<1>1. Typed'
  <2>1. /\ conn' \subseteq Nat
        /\ worker' # "crashed" => conn' \subseteq {Owner, OpenLoop} \cup CloseLoops(closing')
    BY <1>0, <1>a DEF RunCheck, calls, Typed, TypeOK
  <2> QED
    BY <1>a, <1>b, <2>1 DEF RunCheck, process, agents, calls, history, Typed, TypeOK, Tested
<1>2. Once'
  <2>1. opening' = opening /\ opened' = opened /\ worker' # "none"
    BY <1>a DEF RunCheck, calls
  <2> QED
    BY <1>0, <2>1 DEF Once
<1>3. Stop'
  BY <1>a DEF RunCheck, process, Stop
<1>4. Posted'
  BY <1>0, <1>a, <1>b, PostedStep DEF RunCheck, history, Ended, Begun, Typed, TypeOK
<1>5. Quits'
  BY <1>0, <1>a, QuitsKept DEF RunCheck, calls, history, Ended, Begun
<1>6. OpenTruth'
  BY DEF RunCheck, calls, history, OpenTruth
<1> QED
  BY <1>1, <1>2, <1>3, <1>4, <1>5, <1>6

LEMMA RunDropStep == IInv /\ RunDrop => IInv'
<1> SUFFICES ASSUME IInv, RunDrop PROVE IInv'
  OBVIOUS
<1> USE DEF IInv
<1>0. /\ state' = "VPNERROR" /\ posted' \in Seq(Signal)
      /\ AllTell(posted', wasUp \/ Ended, Begun)
  BY ErrorStep DEF RunDrop
<1>1. Typed'
  <2>1. /\ conn' \subseteq Nat
        /\ worker' # "crashed" => conn' \subseteq {Owner, OpenLoop} \cup CloseLoops(closing')
    BY DEF RunDrop, calls, Typed, TypeOK
  <2>2. state' \in State /\ worker' \in {"checkConnecting", "exit"}
    BY <1>0 DEF State, RunDrop
  <2> QED
    BY <1>0, <2>1, <2>2 DEF RunDrop, process, agents, calls, history, Typed, TypeOK, Tested
<1>2. Once'
  BY DEF RunDrop, calls, Once
<1>3. Stop'
  BY <1>0 DEF RunDrop, process, Stop
<1>4. Posted'
  BY <1>0, PostedStep DEF RunDrop, history, Ended, Begun, Typed, TypeOK
<1>5. Quits'
  BY QuitsKept DEF RunDrop, calls, history, Ended, Begun
<1>6. OpenTruth'
  BY DEF RunDrop, calls, history, OpenTruth
<1> QED
  BY <1>1, <1>2, <1>3, <1>4, <1>5, <1>6

LEMMA RunExitStep == IInv /\ RunExit => IInv'
<1> SUFFICES ASSUME IInv, RunExit PROVE IInv'
  OBVIOUS
<1> USE DEF IInv
<1>0. posted' \in Seq(Signal) /\ AllTell(posted', TRUE, TRUE)
  <2> DEFINE t == Emit("finished", conn \ {Owner})
  <2>1. conn \subseteq Nat /\ posted \in Seq(Signal) /\ Begun
    BY DEF RunExit, Typed, TypeOK, Begun
  <2>2. AllTell(posted, TRUE, TRUE)
    BY <2>1, TellMore DEF Posted, Typed, TypeOK, Ended
  <2>3. t \in Seq(Signal) /\ AllTell(t, TRUE, TRUE)
    BY <2>1, TellOwner, Emitted
  <2>4. posted' = posted \o t
    BY DEF RunExit
  <2> HIDE DEF t
  <2>5. AllTell(posted \o t, TRUE, TRUE)
    BY <2>1, <2>2, <2>3, TellAppend
  <2>6. posted \o t \in Seq(Signal)
    BY <2>1, <2>3
  <2> QED
    BY <2>4, <2>5, <2>6
<1>1. Typed'
  <2>1. /\ conn' \subseteq Nat
        /\ worker' # "crashed" => conn' \subseteq {Owner, OpenLoop} \cup CloseLoops(closing')
    BY DEF RunExit, calls, Typed, TypeOK
  <2>2. worker' = "done"
    BY DEF RunExit
  <2> QED
    BY <1>0, <2>1, <2>2 DEF RunExit, process, agents, calls, history, Typed, TypeOK
<1>2. Once'
  BY DEF RunExit, calls, Once
<1>3. Stop'
  BY DEF RunExit, process, Stop, Once
<1>4. Posted'
  BY <1>0, PostedStep DEF RunExit, history, Ended, Begun, Typed, TypeOK
<1>5. Quits'
  BY QuitsKept DEF RunExit, calls, history, Ended, Begun
<1>6. OpenTruth'
  BY DEF RunExit, calls, history, OpenTruth
<1> QED
  BY <1>1, <1>2, <1>3, <1>4, <1>5, <1>6

LEMMA AgentTestStep == IInv /\ AgentTest => IInv'
<1> SUFFICES ASSUME IInv, AgentTest PROVE IInv'
  OBVIOUS
<1> USE DEF IInv
<1>1. Typed'
  BY VpnClientAssumption DEF AgentTest, thread, process, calls, history, Typed, TypeOK,
     State, Tested
<1>2. Once'
  BY DEF AgentTest, thread, calls, Once
<1>3. Stop'
  BY DEF AgentTest, thread, process, Stop, Once
<1>4. Posted'
  BY PostedKept, <1>1 DEF AgentTest, thread, history, Ended, Begun, Typed, TypeOK
<1>5. Quits'
  BY QuitsKept DEF AgentTest, thread, calls, history, Ended, Begun
<1>6. OpenTruth'
  BY DEF AgentTest, calls, history, OpenTruth
<1> QED
  BY <1>1, <1>2, <1>3, <1>4, <1>5, <1>6

LEMMA AgentReadStep == IInv /\ AgentRead => IInv'
<1> SUFFICES ASSUME IInv, AgentRead PROVE IInv'
  OBVIOUS
<1> USE DEF IInv
<1>0. /\ state' \in {state, "VPNERROR"} /\ posted' \in Seq(Signal)
      /\ AllTell(posted', wasUp \/ Ended, Begun)
  <2>1. CASE state' = state /\ posted' = posted
    BY <2>1 DEF Typed, TypeOK, Posted
  <2>2. CASE SetState("VPNERROR", <<>>)
    BY <2>2, ErrorStep
  <2> QED
    BY <2>1, <2>2 DEF AgentRead
<1>1. Typed'
  <2>1. /\ conn' \subseteq Nat
        /\ worker' # "crashed" => conn' \subseteq {Owner, OpenLoop} \cup CloseLoops(closing')
    BY DEF AgentRead, thread, calls, Typed, TypeOK
  <2>2. state' \in State
    BY <1>0 DEF Typed, TypeOK, State
  <2>3. mgmtDown' = FALSE /\ agent' = "test"
    BY DEF AgentRead
  <2>4. UNCHANGED <<worker, compose, openvpn, out, written, stopAsked, agentSet, agentDoomed,
                    calls, history>>
    BY DEF AgentRead, thread
  <2>5. UNCHANGED <<worker, compose, openvpn, out, written, stopAsked, agentSet, agentDoomed>>
        /\ UNCHANGED <<opening, closing, quit, late, opened, clicks, wasUp, told, closed>>
    BY <2>4 DEF calls, history
  <2>6. mgmtDown' \in BOOLEAN /\ agent' \in {"off", "test", "wait", "crashed"}
    BY <2>3
  <2> QED
    BY <1>0, <2>1, <2>2, <2>5, <2>6 DEF Typed, TypeOK
<1>2. Once'
  BY DEF AgentRead, thread, calls, Once
<1>3. Stop'
  BY <1>0 DEF AgentRead, thread, Stop
<1>4. Posted'
  BY <1>0, PostedStep DEF AgentRead, thread, history, Ended, Begun, Typed, TypeOK
<1>5. Quits'
  BY QuitsKept DEF AgentRead, thread, calls, history, Ended, Begun
<1>6. OpenTruth'
  BY DEF AgentRead, calls, history, OpenTruth
<1> QED
  BY <1>1, <1>2, <1>3, <1>4, <1>5, <1>6

LEMMA OpenvpnWritesStep == IInv /\ OpenvpnWrites => IInv'
<1> SUFFICES ASSUME IInv, OpenvpnWrites PROVE IInv'
  OBVIOUS
<1> USE DEF IInv
<1>1. Typed'
  <2>1. written' \in 0..MaxMarkers
    BY VpnClientAssumption DEF OpenvpnWrites, Typed, TypeOK
  <2>2. out' \subseteq {"init", "authFailed"}
    BY DEF OpenvpnWrites, Typed, TypeOK
  <2>3. mgmtDown' \in BOOLEAN
    BY DEF OpenvpnWrites, Typed, TypeOK
  <2>4. /\ conn' \subseteq Nat
        /\ worker' # "crashed" => conn' \subseteq {Owner, OpenLoop} \cup CloseLoops(closing')
    BY DEF OpenvpnWrites, thread, calls, Typed, TypeOK
  <2> QED
    BY <2>1, <2>2, <2>3, <2>4
    DEF OpenvpnWrites, thread, agents, calls, history, Typed, TypeOK
<1>2. Once'
  BY DEF OpenvpnWrites, thread, calls, Once
<1>3. Stop'
  BY DEF OpenvpnWrites, thread, Stop, Once
<1>4. Posted'
  BY PostedKept, <1>1 DEF OpenvpnWrites, thread, history, Ended, Begun, Typed, TypeOK
<1>5. Quits'
  BY QuitsKept DEF OpenvpnWrites, thread, calls, history, Ended, Begun
<1>6. OpenTruth'
  BY DEF OpenvpnWrites, calls, history, OpenTruth
<1> QED
  BY <1>1, <1>2, <1>3, <1>4, <1>5, <1>6

LEMMA OpenvpnEndsStep == IInv /\ OpenvpnEnds => IInv'
<1> SUFFICES ASSUME IInv, OpenvpnEnds PROVE IInv'
  OBVIOUS
<1> USE DEF IInv
<1>1. Typed'
  BY VpnClientAssumption DEF OpenvpnEnds, thread, agents, calls, history, Typed, TypeOK,
     State, Tested
<1>2. Once'
  BY DEF OpenvpnEnds, thread, calls, Once
<1>3. Stop'
  BY DEF OpenvpnEnds, thread, Stop, Once
<1>4. Posted'
  BY PostedKept, <1>1 DEF OpenvpnEnds, thread, history, Ended, Begun, Typed, TypeOK
<1>5. Quits'
  BY QuitsKept DEF OpenvpnEnds, thread, calls, history, Ended, Begun
<1>6. OpenTruth'
  BY DEF OpenvpnEnds, calls, history, OpenTruth
<1> QED
  BY <1>1, <1>2, <1>3, <1>4, <1>5, <1>6

LEMMA OpenStep == IInv /\ Open => IInv'
<1> SUFFICES ASSUME IInv, Open PROVE IInv'
  OBVIOUS
<1> USE DEF IInv
<1>0. worker = "none" /\ openvpn = "none" /\ Ended = FALSE /\ Begun = FALSE
  BY DEF Open, Once, Stop, Ended, Begun
<1>1. Typed'
  <2>0. conn' = conn /\ closing' = closing
    BY DEF Open
  <2>1. /\ conn' \subseteq Nat
        /\ worker' # "crashed" => conn' \subseteq {Owner, OpenLoop} \cup CloseLoops(closing')
    BY <1>0, <2>0 DEF Typed, TypeOK
  <2>2. state' \in State /\ agentSet' = TRUE /\ compose' = FALSE
    BY DEF Open, State
  <2>3. worker' = "start" /\ opening' = "start"
    BY DEF Open
  <2>4. UNCHANGED <<process, agent, agentDoomed, posted, quit, late, opened, clicks, history>>
    BY DEF Open
  <2>5. /\ UNCHANGED <<openvpn, out, written, stopAsked, mgmtDown, agent, agentDoomed, posted>>
        /\ UNCHANGED <<quit, late, opened, clicks, wasUp, told, closed>>
    BY <2>4 DEF process, history
  <2>6. agentSet' \in BOOLEAN /\ compose' \in BOOLEAN
    BY <2>2
  <2> QED
    BY <2>0, <2>1, <2>2, <2>3, <2>5, <2>6 DEF Typed, TypeOK
<1>2. Once'
  BY DEF Open, Once
<1>3. Stop'
  BY <1>0 DEF Open, process, Stop
<1>4. Posted'
  BY <1>0, <1>1, PostedKept DEF Open, history, Typed, TypeOK
<1>5. Quits'
  BY <1>0, QuitsKept DEF Open, history
<1>6. OpenTruth'
  BY DEF Open, history, OpenTruth
<1> QED
  BY <1>1, <1>2, <1>3, <1>4, <1>5, <1>6

LEMMA OpenMissingStep == IInv /\ OpenMissing => IInv'
<1> SUFFICES ASSUME IInv, OpenMissing PROVE IInv'
  OBVIOUS
<1> USE DEF IInv
<1>1. Typed'
  BY VpnClientAssumption DEF OpenMissing, thread, process, agents, Typed, TypeOK, State, Tested
<1>2. Once'
  BY DEF OpenMissing, thread, Once
<1>3. Stop'
  BY DEF OpenMissing, thread, process, Stop, Once
<1>4. Posted'
  BY PostedKept, <1>1 DEF OpenMissing, thread, Ended, Begun, Typed, TypeOK
<1>5. Quits'
  BY QuitsKept DEF OpenMissing, thread, Ended, Begun
<1>6. OpenTruth'
  BY DEF OpenMissing, OpenTruth
<1> QED
  BY <1>1, <1>2, <1>3, <1>4, <1>5, <1>6

LEMMA ClickStep == IInv /\ Click => IInv'
<1> SUFFICES ASSUME IInv, Click PROVE IInv'
  OBVIOUS
<1> USE DEF IInv
<1>0. /\ state' \in State /\ closing' \in Nat /\ conn' \subseteq Nat
      /\ worker' # "crashed" => conn' \subseteq {Owner, OpenLoop} \cup CloseLoops(closing')
      /\ state' = "DISCONNECTED" => state = "DISCONNECTED"
  <2>1. CloseFrom(state) /\ worker' = worker /\ state \in State
    BY DEF Click, thread, Typed, TypeOK
  <2> QED
    BY <2>1, CloseFromKeeps DEF Typed, TypeOK
<1>1. Typed'
  <2>1. clicks' \in 0..MaxClicks
    BY VpnClientAssumption DEF Click, Typed, TypeOK
  <2> QED
    BY <1>0, <2>1 DEF Click, thread, process, agents, history, Typed, TypeOK
<1>2. Once'
  BY DEF Click, thread, Once
<1>3. Stop'
  BY <1>0 DEF Click, thread, process, Stop
<1>4. Posted'
  BY <1>1, PostedKept DEF Click, thread, history, Ended, Begun, Typed, TypeOK
<1>5. Quits'
  BY QuitsKept DEF Click, thread, history, Ended, Begun
<1>6. OpenTruth'
  BY DEF Click, history, OpenTruth
<1> QED
  BY <1>1, <1>2, <1>3, <1>4, <1>5, <1>6

LEMMA OpenWaitsStep == IInv /\ OpenWaits => IInv'
<1> SUFFICES ASSUME IInv, OpenWaits PROVE IInv'
  OBVIOUS
<1> USE DEF IInv
<1>1. Typed'
  <2>1. /\ conn' \subseteq Nat
        /\ worker' # "crashed" => conn' \subseteq {Owner, OpenLoop} \cup CloseLoops(closing')
    BY DEF OpenWaits, thread, Typed, TypeOK, OpenLoop
  <2> QED
    BY <2>1 DEF OpenWaits, thread, process, agents, history, Typed, TypeOK
<1>2. Once'
  BY DEF OpenWaits, thread, Once
<1>3. Stop'
  BY DEF OpenWaits, thread, process, Stop, Once
<1>4. Posted'
  BY PostedKept, <1>1 DEF OpenWaits, thread, history, Ended, Begun, Typed, TypeOK
<1>5. Quits'
  BY QuitsKept DEF OpenWaits, thread, history, Ended, Begun
<1>6. OpenTruth'
  BY DEF OpenWaits, history, OpenTruth
<1> QED
  BY <1>1, <1>2, <1>3, <1>4, <1>5, <1>6

LEMMA DeliverStep == IInv /\ Deliver => IInv'
<1> SUFFICES ASSUME IInv, Deliver PROVE IInv'
  OBVIOUS
<1> USE DEF IInv
<1>a. worker' = worker /\ Ended' = Ended /\ Begun' = Begun /\ wasUp' = wasUp
  BY DEF Deliver, thread, Ended, Begun
<1>b. wasUp \in BOOLEAN /\ Begun \in BOOLEAN /\ (wasUp \/ Ended) \in BOOLEAN
  BY DEF Typed, TypeOK, Ended, Begun
<1>c. /\ posted' = Tail(posted) /\ posted' \in Seq(Signal) /\ Head(posted) \in Signal
      /\ Tells(Head(posted).to, wasUp \/ Ended, Begun)
      /\ AllTell(posted', wasUp \/ Ended, Begun)
  <2>1. posted \in Seq(Signal) /\ posted # <<>> /\ posted' = Tail(posted)
    BY DEF Deliver, Typed, TypeOK
  <2>2. AllTell(posted, wasUp \/ Ended, Begun)
    BY DEF Posted
  <2> HIDE DEF IInv
  <2> QED
    BY <1>b, <2>1, <2>2, TellHead
<1>d. \/ CloseFrom(state) /\ quit' = quit
      \/ /\ quit' \subseteq quit \cup Head(posted).to
         /\ state' = state /\ closing' = closing /\ conn' = conn
  BY DEF Deliver
<1>0. /\ state' \in State /\ closing' \in Nat /\ conn' \subseteq Nat
      /\ worker' # "crashed" => conn' \subseteq {Owner, OpenLoop} \cup CloseLoops(closing')
      /\ state' = "DISCONNECTED" => state = "DISCONNECTED"
  BY <1>a, <1>d, CloseFromKeeps DEF Typed, TypeOK
<1>1. Typed'
  <2>1. quit' \subseteq Nat
    BY <1>c, <1>d DEF Typed, TypeOK, Signal
  <2>2. told' \in BOOLEAN
    BY DEF Deliver, Typed, TypeOK
  <2> QED
    BY <1>0, <1>c, <2>1, <2>2 DEF Deliver, thread, process, agents, Typed, TypeOK
<1>2. Once'
  BY DEF Deliver, thread, Once
<1>3. Stop'
  BY <1>0 DEF Deliver, thread, process, Stop
<1>4. Posted'
  BY <1>a, <1>b, <1>c, PostedStep
<1>5. Quits'
  <2>1. late' = late
    BY DEF Deliver
  <2> QED
    BY <1>a, <1>c, <1>d, <2>1 DEF Quits, Tells
<1>6. OpenTruth'
  BY DEF Deliver, OpenTruth
<1> QED
  BY <1>1, <1>2, <1>3, <1>4, <1>5, <1>6

LEMMA DeleteAgentStep == IInv /\ DeleteAgent => IInv'
<1> SUFFICES ASSUME IInv, DeleteAgent PROVE IInv'
  OBVIOUS
<1> USE DEF IInv
<1>0. \/ /\ posted' = posted /\ opening' = opening /\ closing' = closing
         /\ Ended' = Ended /\ Begun' = Begun /\ worker' \in {worker, "exit", "checkConnected"}
         /\ worker # "crashed" => worker' # "crashed"
         /\ worker' = "start" => worker = "start"
         /\ worker' \in {"none", "start"} => worker' = worker
         /\ agent' = agent
      \/ Crash
  BY DEF DeleteAgent, Begun, Ended
<1>a. wasUp' = wasUp /\ wasUp \in BOOLEAN /\ quit' = quit /\ late' = late
  BY DEF DeleteAgent, history, Typed, TypeOK
<1>b. posted' \in Seq(Signal) /\ worker' \in {worker, "exit", "checkConnected", "crashed"}
  BY <1>0, <1>a, CrashStep DEF Crash, Typed, TypeOK
<1>1. Typed'
  <2>1. /\ conn' \subseteq Nat
        /\ worker' # "crashed" => conn' \subseteq {Owner, OpenLoop} \cup CloseLoops(closing')
    BY <1>0 DEF Crash, DeleteAgent, Typed, TypeOK
  <2>2. /\ opening' \in {opening, "crashed"} /\ closing' \in Nat
        /\ agent' \in {agent, "crashed"}
    BY <1>0 DEF Crash, Typed, TypeOK
  <2>3. /\ UNCHANGED <<state, compose, process>> /\ agentSet' = agentSet
        /\ UNCHANGED <<quit, late, opened, clicks>> /\ UNCHANGED history
        /\ agentDoomed' \in BOOLEAN
    BY DEF DeleteAgent, Typed, TypeOK
  <2>4. worker' \in {"none", "start", "poll", "authFailed", "initialized", "exit", "done",
                     "dropConnected", "dropConnecting", "crashed"} \cup DOMAIN Tested
    BY <1>b DEF Typed, TypeOK, Tested
  <2> QED
    BY <1>b, <2>1, <2>2, <2>3, <2>4 DEF process, history, Typed, TypeOK
<1>2. Once'
  BY <1>0 DEF Crash, DeleteAgent, Once
<1>3. Stop'
  BY <1>0 DEF Crash, DeleteAgent, process, Stop
<1>4. Posted'
  BY <1>0, <1>a, CrashStep, PostedKept DEF Typed
<1>5. Quits'
  BY <1>0, <1>a, QuitsKept DEF Crash, Ended, Begun
<1>6. OpenTruth'
  BY <1>a DEF DeleteAgent, OpenTruth
<1> QED
  BY <1>1, <1>2, <1>3, <1>4, <1>5, <1>6

LEMMA OpenCheckStep == IInv /\ OpenCheck => IInv'
<1> SUFFICES ASSUME IInv, OpenCheck PROVE IInv'
  OBVIOUS
<1> USE DEF IInv
<1>a. worker # "none" /\ (quit' = quit \/ quit' = quit \cup {OpenLoop})
  BY DEF OpenCheck, Once
<1>b. /\ worker' = worker /\ wasUp' = wasUp /\ (late' = late \/ late' = TRUE)
      /\ Ended' = Ended /\ Begun' = Begun
  BY DEF OpenCheck, thread, history, Ended, Begun
<1>1. Typed'
  <2>1. /\ conn' \subseteq Nat
        /\ worker' # "crashed" => conn' \subseteq {Owner, OpenLoop} \cup CloseLoops(closing')
    BY DEF OpenCheck, thread, Typed, TypeOK
  <2>2. late' \in BOOLEAN
    BY <1>b DEF Typed, TypeOK
  <2>3. quit \subseteq Nat /\ OpenLoop \in Nat
    BY DEF Typed, TypeOK, OpenLoop
  <2>4. quit' \subseteq Nat
    BY <1>a, <2>3
  <2> QED
    BY <2>1, <2>2, <2>4 DEF OpenCheck, thread, process, agents, history, Typed, TypeOK
<1>2. Once'
  BY DEF OpenCheck, ThreadEnded, IsRunning, thread, Once
<1>3. Stop'
  BY DEF OpenCheck, ThreadEnded, IsRunning, thread, process, Stop, Once
<1>4. Posted'
  BY PostedKept, <1>1 DEF OpenCheck, ThreadEnded, IsRunning, thread, history, Ended, Begun,
     Typed, TypeOK
<1>5. Quits'
  <2>1. \A i \in Nat \ {0} : CloseLoop(i) \in quit' => CloseLoop(i) \in quit
    BY <1>a DEF CloseLoop, OpenLoop
  <2>2. OpenLoop \in quit' => OpenLoop \in quit \/ Ended \/ late'
    BY <1>a DEF OpenCheck, ThreadEnded, IsRunning, Ended
  <2>3. OpenLoop \in quit => wasUp \/ Ended \/ late
    BY DEF Quits, Tells
  <2>4. \A i \in Nat \ {0} : CloseLoop(i) \in quit => Begun
    BY DEF Quits, Tells
  <2>5. OpenLoop \in quit' => wasUp' \/ Ended' \/ late'
    BY <1>b, <2>2, <2>3
  <2>6. \A i \in Nat \ {0} : CloseLoop(i) \in quit' => Begun'
    BY <1>b, <2>1, <2>4
  <2> QED
    BY <2>5, <2>6 DEF Quits, Tells
<1>6. OpenTruth'
  BY DEF OpenCheck, ThreadEnded, IsRunning, history, OpenTruth
<1> QED
  BY <1>1, <1>2, <1>3, <1>4, <1>5, <1>6

LEMMA OpenTimerStep == IInv /\ OpenTimer => IInv'
<1> SUFFICES ASSUME IInv, OpenTimer PROVE IInv'
  OBVIOUS
<1> USE DEF IInv
<1>a. worker # "none" /\ (quit' = quit \/ quit' = quit \cup {OpenLoop})
  BY DEF OpenTimer, Once
<1>b. /\ worker' = worker /\ wasUp' = wasUp /\ (late' = late \/ late' = TRUE)
      /\ Ended' = Ended /\ Begun' = Begun
  BY DEF OpenTimer, thread, history, Ended, Begun
<1>1. Typed'
  <2>1. /\ conn' \subseteq Nat
        /\ worker' # "crashed" => conn' \subseteq {Owner, OpenLoop} \cup CloseLoops(closing')
    BY DEF OpenTimer, thread, Typed, TypeOK
  <2>2. late' \in BOOLEAN
    BY <1>b DEF Typed, TypeOK
  <2>3. quit \subseteq Nat /\ OpenLoop \in Nat
    BY DEF Typed, TypeOK, OpenLoop
  <2>4. quit' \subseteq Nat
    BY <1>a, <2>3
  <2> QED
    BY <2>1, <2>2, <2>4 DEF OpenTimer, thread, process, agents, history, Typed, TypeOK
<1>2. Once'
  BY DEF OpenTimer, Stalled, thread, Once
<1>3. Stop'
  BY DEF OpenTimer, Stalled, thread, process, Stop, Once
<1>4. Posted'
  BY PostedKept, <1>1 DEF OpenTimer, Stalled, thread, history, Ended, Begun, Typed, TypeOK
<1>5. Quits'
  <2>1. \A i \in Nat \ {0} : CloseLoop(i) \in quit' => CloseLoop(i) \in quit
    BY <1>a DEF CloseLoop, OpenLoop
  <2>2. OpenLoop \in quit' => OpenLoop \in quit \/ Ended \/ late'
    BY <1>a DEF OpenTimer, ThreadEnded, IsRunning, Ended
  <2>3. OpenLoop \in quit => wasUp \/ Ended \/ late
    BY DEF Quits, Tells
  <2>4. \A i \in Nat \ {0} : CloseLoop(i) \in quit => Begun
    BY DEF Quits, Tells
  <2>5. OpenLoop \in quit' => wasUp' \/ Ended' \/ late'
    BY <1>b, <2>2, <2>3
  <2>6. \A i \in Nat \ {0} : CloseLoop(i) \in quit' => Begun'
    BY <1>b, <2>1, <2>4
  <2> QED
    BY <2>5, <2>6 DEF Quits, Tells
<1>6. OpenTruth'
  BY DEF OpenTimer, Stalled, history, OpenTruth
<1> QED
  BY <1>1, <1>2, <1>3, <1>4, <1>5, <1>6

LEMMA OpenReturnStep == IInv /\ OpenReturn => IInv'
<1> SUFFICES ASSUME IInv, OpenReturn PROVE IInv'
  OBVIOUS
<1> USE DEF IInv
<1>1. Typed'
  <2>1. /\ conn' \subseteq Nat
        /\ worker' # "crashed" => conn' \subseteq {Owner, OpenLoop} \cup CloseLoops(closing')
    BY DEF OpenReturn, thread, Typed, TypeOK
  <2>2. quit' \subseteq Nat /\ opened' \in {"true", "false"}
    BY DEF OpenReturn
  <2> QED
    BY <2>1, <2>2 DEF OpenReturn, thread, process, agents, history, Typed, TypeOK
<1>2. Once'
  BY DEF OpenReturn, IsRunning, thread, Once
<1>3. Stop'
  BY DEF OpenReturn, IsRunning, thread, process, Stop, Once
<1>4. Posted'
  BY PostedKept, <1>1 DEF OpenReturn, IsRunning, thread, history, Ended, Begun, Typed, TypeOK
<1>5. Quits'
  BY QuitsKept DEF OpenReturn, IsRunning, thread, history, Ended, Begun
<1>6. OpenTruth'
  <2>1. IsRunning => wasUp
    BY DEF OpenReturn, Quits, Tells, IsRunning, Ended
  <2> QED
    BY <2>1 DEF OpenReturn, history, OpenTruth
<1> QED
  BY <1>1, <1>2, <1>3, <1>4, <1>5, <1>6

LEMMA OpenLateStep == IInv /\ OpenLate => IInv'
<1> SUFFICES ASSUME IInv, OpenLate PROVE IInv'
  OBVIOUS
<1> USE DEF IInv
<1>a. worker' = worker
  BY DEF OpenLate, thread
<1>b. \/ CloseFrom(state)
      \/ state' = state /\ closing' = closing /\ conn' = conn
  BY DEF OpenLate
<1>0. /\ state' \in State /\ closing' \in Nat /\ conn' \subseteq Nat
      /\ worker' # "crashed" => conn' \subseteq {Owner, OpenLoop} \cup CloseLoops(closing')
      /\ state' = "DISCONNECTED" => state = "DISCONNECTED"
  BY <1>a, <1>b, CloseFromKeeps DEF Typed, TypeOK
<1>1. Typed'
  BY <1>0 DEF OpenLate, thread, process, agents, history, Typed, TypeOK
<1>2. Once'
  BY DEF OpenLate, thread, Once
<1>3. Stop'
  BY <1>0 DEF OpenLate, thread, process, Stop
<1>4. Posted'
  BY <1>1, PostedKept DEF OpenLate, thread, history, Ended, Begun, Typed, TypeOK
<1>5. Quits'
  BY QuitsKept DEF OpenLate, thread, history, Ended, Begun
<1>6. OpenTruth'
  BY DEF OpenLate, history, OpenTruth
<1> QED
  BY <1>1, <1>2, <1>3, <1>4, <1>5, <1>6

LEMMA OpenLateErrorStep == IInv /\ OpenLateError => IInv'
<1> SUFFICES ASSUME IInv, OpenLateError PROVE IInv'
  OBVIOUS
<1> USE DEF IInv
<1>a. worker' = worker
  BY DEF OpenLateError, thread
<1>b. \/ CloseFrom("VPNERROR")
      \/ state' = "VPNERROR" /\ closing' = closing /\ conn' = conn
  BY DEF OpenLateError
<1>0. /\ state' \in State /\ closing' \in Nat /\ conn' \subseteq Nat
      /\ worker' # "crashed" => conn' \subseteq {Owner, OpenLoop} \cup CloseLoops(closing')
      /\ state' # "DISCONNECTED"
  <2>1. "VPNERROR" \in State
    BY DEF State
  <2> QED
    BY <1>a, <1>b, <2>1, CloseFromKeeps DEF Typed, TypeOK
<1>1. Typed'
  <2>1. told' \in BOOLEAN
    BY DEF OpenLateError, Typed, TypeOK
  <2> QED
    BY <1>0, <2>1 DEF OpenLateError, thread, process, agents, Typed, TypeOK
<1>2. Once'
  BY DEF OpenLateError, thread, Once
<1>3. Stop'
  BY <1>0 DEF OpenLateError, thread, process, Stop
<1>4. Posted'
  BY <1>1, PostedKept DEF OpenLateError, thread, Ended, Begun, Typed, TypeOK
<1>5. Quits'
  BY QuitsKept DEF OpenLateError, thread, Ended, Begun
<1>6. OpenTruth'
  BY DEF OpenLateError, OpenTruth
<1> QED
  BY <1>1, <1>2, <1>3, <1>4, <1>5, <1>6

LEMMA OpenLateReturnStep == IInv /\ OpenLateReturn => IInv'
<1> SUFFICES ASSUME IInv, OpenLateReturn PROVE IInv'
  OBVIOUS
<1> USE DEF IInv
<1>1. Typed'
  <2>1. /\ conn' \subseteq Nat
        /\ worker' # "crashed" => conn' \subseteq {Owner, OpenLoop} \cup CloseLoops(closing')
    BY DEF OpenLateReturn, thread, Typed, TypeOK
  <2> QED
    BY <2>1 DEF OpenLateReturn, thread, process, agents, history, Typed, TypeOK
<1>2. Once'
  BY DEF OpenLateReturn, thread, Once
<1>3. Stop'
  BY DEF OpenLateReturn, thread, process, Stop, Once
<1>4. Posted'
  BY PostedKept, <1>1 DEF OpenLateReturn, thread, history, Ended, Begun, Typed, TypeOK
<1>5. Quits'
  BY QuitsKept DEF OpenLateReturn, thread, history, Ended, Begun
<1>6. OpenTruth'
  BY DEF OpenLateReturn, history, OpenTruth
<1> QED
  BY <1>1, <1>2, <1>3, <1>4, <1>5, <1>6

LEMMA CloseReturnStep == IInv /\ CloseReturn => IInv'
<1> SUFFICES ASSUME IInv, CloseReturn PROVE IInv'
  OBVIOUS
<1> USE DEF IInv
<1>a. /\ closing > 0 /\ closing' = closing - 1 /\ quit' = quit \ {CloseLoop(closing)}
      /\ conn' = {} /\ state' = "DISCONNECTED" /\ compose' = FALSE /\ agentSet' = FALSE
      /\ closed' \in {"forced", "clean"} /\ openvpn' = Killed
  BY DEF CloseReturn, Disconnected
<1>b. UNCHANGED <<worker, out, written, stopAsked, mgmtDown, agent, posted, opening,
                  late, opened, clicks, wasUp, told>>
  BY DEF CloseReturn
<1>c. Begun
  <2>1. closing \in Nat \ {0} /\ CloseLoop(closing) \in quit
    BY <1>a DEF CloseReturn, Typed, TypeOK
  <2> QED
    BY <2>1 DEF Quits, Tells
<1>d. openvpn' # "running" /\ openvpn' \in {"none", "dead"}
  BY <1>a DEF Killed, Stop, Typed, TypeOK
<1>1. Typed'
  <2>1. closing' \in Nat
    BY <1>a DEF Typed, TypeOK
  <2>2. quit' \subseteq Nat
    BY <1>a DEF Typed, TypeOK
  <2>3. agentDoomed' \in BOOLEAN
    BY DEF CloseReturn, Typed, TypeOK
  <2>4. conn' \subseteq Nat /\ conn' \subseteq {Owner, OpenLoop} \cup CloseLoops(closing')
    BY <1>a
  <2>5. /\ state' \in State /\ closed' \in {"no", "clean", "forced"}
        /\ agentSet' \in BOOLEAN /\ compose' \in BOOLEAN
    BY <1>a DEF State
  <2> QED
    BY <1>b, <1>d, <2>1, <2>2, <2>3, <2>4, <2>5 DEF Typed, TypeOK
<1>2. Once'
  BY <1>b DEF Once
<1>3. Stop'
  BY <1>b, <1>c, <1>d DEF Stop, Begun
<1>4. Posted'
  BY <1>1, <1>b, PostedKept DEF Ended, Begun, Typed, TypeOK
<1>5. Quits'
  BY <1>a, <1>b, QuitsKept DEF Ended, Begun
<1>6. OpenTruth'
  BY <1>b DEF OpenTruth
<1> QED
  BY <1>1, <1>2, <1>3, <1>4, <1>5, <1>6

LEMMA CloseTimeoutStep == IInv /\ CloseTimeout => IInv'
<1> SUFFICES ASSUME IInv, CloseTimeout PROVE IInv'
  OBVIOUS
<1> USE DEF IInv
<1>a. Begun
  BY DEF CloseTimeout, Stalled, Begun
<1>b. PICK i \in 1..closing : quit' = quit \cup {CloseLoop(i)}
  BY DEF CloseTimeout
<1>c. i \in Nat \ {0} /\ CloseLoop(i) \in Nat /\ CloseLoop(i) # OpenLoop
  BY DEF Typed, TypeOK, CloseLoop, OpenLoop
<1>1. Typed'
  <2>1. /\ conn' \subseteq Nat
        /\ worker' # "crashed" => conn' \subseteq {Owner, OpenLoop} \cup CloseLoops(closing')
    BY DEF CloseTimeout, thread, Typed, TypeOK
  <2>2. quit' \subseteq Nat /\ late' \in BOOLEAN
    BY <1>b, <1>c DEF CloseTimeout, Typed, TypeOK
  <2> QED
    BY <2>1, <2>2 DEF CloseTimeout, thread, process, agents, history, Typed, TypeOK
<1>2. Once'
  BY DEF CloseTimeout, Stalled, thread, Once
<1>3. Stop'
  BY DEF CloseTimeout, Stalled, thread, process, Stop, Once
<1>4. Posted'
  BY PostedKept, <1>1 DEF CloseTimeout, Stalled, thread, history, Ended, Begun, Typed, TypeOK
<1>5. Quits'
  <2>1. worker' = worker /\ wasUp' = wasUp /\ (late => late')
    BY DEF CloseTimeout, thread, history
  <2> QED
    BY <1>a, <1>b, <1>c, <2>1 DEF Quits, Tells, Ended, Begun
<1>6. OpenTruth'
  BY DEF CloseTimeout, Stalled, history, OpenTruth
<1> QED
  BY <1>1, <1>2, <1>3, <1>4, <1>5, <1>6

LEMMA RunSteps == IInv /\ Run => IInv'
BY RunStartStep, RunLoopEndsStep, RunReadStep, RunAuthFailedStep, RunInitializedStep,
   RunStopStep, RunCheckStep, RunDropStep, RunExitStep DEF Run

LEMMA GuiKeeps == IInv /\ GuiSteps => IInv'
BY OpenWaitsStep, DeliverStep, DeleteAgentStep, OpenCheckStep, OpenTimerStep, OpenReturnStep,
   OpenLateStep, OpenLateErrorStep, OpenLateReturnStep, CloseReturnStep, CloseTimeoutStep
DEF GuiSteps

LEMMA StutterStep == IInv /\ UNCHANGED vars => IInv'
<1> SUFFICES ASSUME IInv, UNCHANGED vars PROVE IInv'
  OBVIOUS
<1>1. UNCHANGED <<state, thread, process, agents, posted>>
      /\ UNCHANGED <<calls, history>>
  BY DEF vars
<1>2. Typed'
  BY <1>1 DEF IInv, Typed, TypeOK, thread, process, agents, calls, history
<1>3. Once' /\ Stop' /\ OpenTruth'
  BY <1>1 DEF IInv, Once, Stop, OpenTruth, thread, process, calls, history
<1>4. Posted' /\ Quits'
  BY <1>1 DEF IInv, Posted, Quits, Ended, Begun, thread, calls, history
<1> QED
  BY <1>2, <1>3, <1>4 DEF IInv

LEMMA StepIInv == IInv /\ [Next]_vars => IInv'
<1> SUFFICES ASSUME IInv, [Next]_vars PROVE IInv'
  OBVIOUS
<1>1. CASE Open \/ OpenMissing \/ Click
  BY <1>1, OpenStep, OpenMissingStep, ClickStep
<1>2. CASE GuiSteps
  BY <1>2, GuiKeeps
<1>3. CASE Run
  BY <1>3, RunSteps
<1>4. CASE Agent
  BY <1>4, AgentTestStep, AgentReadStep DEF Agent
<1>5. CASE OpenvpnWrites \/ OpenvpnEnds
  BY <1>5, OpenvpnWritesStep, OpenvpnEndsStep
<1>6. CASE UNCHANGED vars
  BY <1>6, StutterStep
<1> QED
  BY <1>1, <1>2, <1>3, <1>4, <1>5, <1>6 DEF Next

LEMMA Invariance == Spec => []IInv
BY InitIInv, StepIInv, PTL DEF Spec

-----------------------------------------------------------------------------
(* Theorems *)

\* TypeOK holds whatever openvpn writes and however often the user disconnects; in
\* particular only event loops that are on the stack of the GUI thread stay connected.
THEOREM TypeCorrect == Spec => []TypeOK
<1>1. IInv => TypeOK
  BY DEF IInv, Typed
<1> QED
  BY <1>1, Invariance, PTL

\* DisconnectedMeansStopped: the only place that writes DISCONNECTED is the end of
\* close() (vpnclient.cpp:412-425), which kills the process it can see through
\* m_compose, and no running process is ever out of its sight (Stop).
THEOREM StoppedWhenDisconnected == Spec => []DisconnectedMeansStopped
<1>1. IInv => DisconnectedMeansStopped
  BY DEF IInv, Stop, DisconnectedMeansStopped
<1> QED
  BY <1>1, Invariance, PTL

\* OpenTruth: whatever quits the loop of open() in time is the connection or the
\* worker's end (Posted, Quits), and after its end isRunning() is false
\* (vpnclient.cpp:354-381).
THEOREM OpenIsTrue == Spec => []OpenTruth
<1>1. IInv => OpenTruth
  BY DEF IInv
<1> QED
  BY <1>1, Invariance, PTL

-----------------------------------------------------------------------------
(* The client implements Tunnel *)

\* A client whose worker was never started has no agent and has never been up, and
\* open() has not answered while its frame is on the stack.
Unanswered == /\ worker = "none" => agent = "off" /\ ~wasUp
              /\ opening \in {"start", "wait", "message", "error"} => opened = "no"

\* Steps that Tunnel does not see: the worker only moves on, if at all.
Unseen == /\ worker' = worker \/ (IsRunning /\ IsRunning')
          /\ wasUp' = wasUp /\ opened' = opened

LEMMA UnseenStep ==
  ASSUME Unseen
  PROVE  UNCHANGED <<Phase, opened>>
BY DEF Unseen, Phase, IsRunning

LEMMA UnansweredKept ==
  ASSUME Unanswered, Unseen,
         agent' = agent \/ worker # "none",
         \/ opening' = opening
         \/ opening' \notin {"start", "wait", "message", "error"}
         \/ opening \in {"start", "wait", "message", "error"}
  PROVE  Unanswered'
BY DEF Unanswered, Unseen, IsRunning

LEMMA RunUnseen ==
  ASSUME Typed, Unanswered,
         RunStart \/ RunRead \/ RunAuthFailed \/ RunStop \/ RunCheck \/ RunDrop
  PROVE  Unseen /\ Unanswered'
<1>1. Unseen
  BY DEF Typed, TypeOK, Unseen, IsRunning, RunStart, RunRead, RunAuthFailed, RunStop, RunCheck,
         RunDrop, Tested, history, calls, thread
<1>2. agent' = agent /\ opening' = opening
  BY DEF RunStart, RunRead, RunAuthFailed, RunStop, RunCheck, RunDrop, agents, calls
<1> QED
  BY <1>1, <1>2, UnansweredKept

LEMMA AgentUnseen ==
  ASSUME Unanswered, AgentTest \/ AgentRead \/ OpenvpnWrites \/ OpenvpnEnds
  PROVE  Unseen /\ Unanswered'
<1>1. Unseen /\ opening' = opening
  BY DEF Unseen, AgentTest, AgentRead, OpenvpnWrites, OpenvpnEnds, history, calls, thread
<1>2. agent' = agent \/ agent # "off"
  BY DEF AgentTest, AgentRead, OpenvpnWrites, OpenvpnEnds, agents
<1> QED
  BY <1>1, <1>2, UnansweredKept DEF Unanswered

LEMMA GuiUnseen ==
  ASSUME Unanswered, \/ Click \/ OpenWaits \/ Deliver \/ OpenCheck \/ OpenTimer
                     \/ OpenLate \/ OpenLateError \/ CloseReturn \/ CloseTimeout
  PROVE  Unseen /\ Unanswered'
<1>1. Unseen /\ agent' = agent
  BY DEF Unseen, Click, OpenWaits, Deliver, OpenCheck, OpenTimer, OpenLate, OpenLateError,
         CloseReturn, CloseTimeout, history, thread, agents
<1>2. \/ opening' = opening
      \/ opening \in {"start", "wait", "message", "error"}
  BY DEF Click, OpenWaits, Deliver, OpenCheck, OpenTimer, OpenLate, OpenLateError,
         CloseReturn, CloseTimeout
<1> QED
  BY <1>1, <1>2, UnansweredKept

\* A step of the client is one of Tunnel's, or Tunnel does not see it.
Implements == [T!Next]_<<Phase, opened>> /\ Unanswered'

LEMMA UnseenImplements == ASSUME Unseen, Unanswered' PROVE Implements
BY UnseenStep DEF Implements

LEMMA CrashFalls ==
  ASSUME Unanswered, Crash, worker # "none", wasUp' = wasUp, opened' = opened
  PROVE  Implements
<1>1. worker' = "crashed" /\ opening' = "crashed"
  BY DEF Crash
<1>2. Unanswered'
  BY <1>1 DEF Unanswered
<1>3. CASE IsRunning
  BY <1>1, <1>2, <1>3 DEF IsRunning, Implements, Phase, T!Next, T!GoDown
<1>4. CASE ~IsRunning
  BY <1>1, <1>2, <1>4 DEF IsRunning, Implements, Phase
<1> QED
  BY <1>3, <1>4

LEMMA RunLoopEndsFalls == ASSUME Typed, Unanswered, RunLoopEnds PROVE Implements
<1>1. worker = "poll" /\ wasUp' = wasUp /\ opened' = opened
  BY DEF RunLoopEnds, history
<1>2. CASE Crash
  BY <1>1, <1>2, CrashFalls
<1>3. CASE worker' \in {"exit", "checkConnected"} /\ agent' = agent /\ opening' = opening
  <2>1. Unseen
    BY <1>1, <1>3 DEF Unseen, IsRunning
  <2> QED
    BY <1>3, <2>1, UnansweredKept, UnseenImplements
<1> QED
  BY <1>2, <1>3 DEF RunLoopEnds

LEMMA RunInitializedComesUp == ASSUME Unanswered, RunInitialized PROVE Implements
<1>1. /\ worker = "initialized" /\ worker' = "poll" /\ wasUp' = TRUE
      /\ opened' = opened /\ opening' = opening
  BY DEF RunInitialized, calls
<1>2. Unanswered'
  BY <1>1 DEF Unanswered
<1>3. Phase' = "up" /\ Phase \in {"trying", "up"}
  BY <1>1 DEF Phase, IsRunning
<1> QED
  BY <1>1, <1>2, <1>3 DEF Implements, T!Next, T!ComeUp

LEMMA RunExitFalls == ASSUME Unanswered, RunExit PROVE Implements
<1>1. /\ worker = "exit" /\ worker' = "done" /\ wasUp' = wasUp
      /\ opened' = opened /\ opening' = opening
  BY DEF RunExit, calls, history
<1>2. Unanswered'
  BY <1>1 DEF Unanswered
<1>3. \/ Phase = "trying" /\ Phase' = "failed"
      \/ Phase = "up" /\ Phase' = "fell"
  BY <1>1 DEF Phase, IsRunning
<1> QED
  BY <1>1, <1>2, <1>3 DEF Implements, T!Next, T!GoDown

LEMMA DeleteAgentFalls == ASSUME Unanswered, DeleteAgent PROVE Implements
<1>1. wasUp' = wasUp /\ opened' = opened
  BY DEF DeleteAgent, history
<1>2. CASE agent = "off"
  <2>1. worker' = worker /\ agent' = agent /\ opening' = opening
    BY <1>2 DEF DeleteAgent
  <2>2. Unseen
    BY <1>1, <2>1 DEF Unseen
  <2> QED
    BY <2>1, <2>2, UnansweredKept, UnseenImplements
<1>3. CASE agent # "off"
  <2>1. Crash /\ worker # "none"
    BY <1>3 DEF DeleteAgent, Unanswered
  <2> QED
    BY <1>1, <2>1, CrashFalls
<1> QED
  BY <1>2, <1>3

LEMMA OpenTries == ASSUME Once, Unanswered, Open PROVE Implements
<1>1. /\ worker = "none" /\ worker' = "start" /\ opened = "no" /\ opened' = opened
      /\ ~wasUp /\ wasUp' = wasUp
  BY DEF Open, Once, Unanswered, history
<1>2. Unanswered'
  BY <1>1 DEF Unanswered
<1>3. Phase = "idle" /\ Phase' = "trying"
  BY <1>1 DEF Phase, IsRunning
<1> QED
  BY <1>1, <1>2, <1>3 DEF Implements, T!Next, T!Try

LEMMA OpenMissingRefuses == ASSUME Once, Unanswered, OpenMissing PROVE Implements
<1>1. /\ worker = "none" /\ worker' = worker /\ opened = "no" /\ opened' = "false"
      /\ wasUp' = wasUp /\ opening' = opening /\ opening = "idle" /\ agent' = agent
  BY DEF OpenMissing, Once, thread, agents
<1>2. Unanswered'
  BY <1>1 DEF Unanswered
<1>3. Phase = "idle" /\ Phase' = "failed"
  BY <1>1 DEF Phase, IsRunning
<1> QED
  BY <1>1, <1>2, <1>3 DEF Implements, T!Next, T!Refuse

LEMMA OpenReturnAnswers ==
  ASSUME Typed, Once, Quits, Unanswered, OpenReturn \/ OpenLateReturn
  PROVE  Implements
<1>1. /\ worker # "none" /\ worker' = worker /\ opened = "no" /\ opening' = "idle"
      /\ wasUp' = wasUp
  BY DEF OpenReturn, OpenLateReturn, Once, Unanswered, thread, history
<1>2. Unanswered'
  BY <1>1 DEF Unanswered
<1>3. Phase' = Phase /\ Phase # "idle"
  BY <1>1 DEF Phase, IsRunning
<1>4. CASE opened' = "false"
  BY <1>1, <1>2, <1>3, <1>4 DEF Implements, T!Next, T!GiveUp
<1>5. CASE OpenReturn /\ IsRunning
  <2>1. opened' = "true"
    BY <1>5 DEF OpenReturn
  <2>2. wasUp
    BY <1>5 DEF OpenReturn, Quits, Tells, Ended, IsRunning
  <2>3. Phase = "up"
    BY <1>1, <1>5, <2>2 DEF Phase, IsRunning
  <2> QED
    BY <1>1, <1>2, <1>3, <2>1, <2>3 DEF Implements, T!Next, T!Succeed
<1> QED
  BY <1>4, <1>5 DEF OpenReturn, OpenLateReturn

LEMMA StepImplements ==
  ASSUME IInv, Unanswered, [Next]_vars
  PROVE  Implements
<1>1. Typed /\ Once /\ Quits
  BY DEF IInv
<1>2. CASE Open \/ OpenMissing \/ Click
  BY <1>1, <1>2, OpenTries, OpenMissingRefuses, GuiUnseen, UnseenImplements
<1>3. CASE GuiSteps
  BY <1>1, <1>3, GuiUnseen, UnseenImplements, DeleteAgentFalls, OpenReturnAnswers DEF GuiSteps
<1>4. CASE Run
  BY <1>1, <1>4, RunUnseen, UnseenImplements, RunLoopEndsFalls, RunInitializedComesUp, RunExitFalls
     DEF Run
<1>5. CASE Agent \/ OpenvpnWrites \/ OpenvpnEnds
  BY <1>5, AgentUnseen, UnseenImplements DEF Agent
<1>6. CASE UNCHANGED vars
  <2>1. Unseen /\ agent' = agent /\ opening' = opening
    BY <1>6 DEF vars, thread, agents, calls, history, Unseen
  <2> QED
    BY <2>1, UnansweredKept, UnseenImplements
<1> QED
  BY <1>2, <1>3, <1>4, <1>5, <1>6 DEF Next

\* TunnelSpec: whoever opens a client sees one attempt, which comes up or fails once and
\* never comes back to life, and open() answers true only while it is up: a step of any
\* of the threads is a step of Tunnel or one that it does not see.
THEOREM ImplementsTunnel == Spec => TunnelSpec
<1>1. Init => T!Init /\ Unanswered
  <2> SUFFICES ASSUME Init PROVE T!Init /\ Unanswered
    OBVIOUS
  <2>1. worker = "none" /\ agent = "off" /\ opened = "no" /\ opening = "idle" /\ ~wasUp
    BY DEF Init
  <2>2. Phase = "idle"
    BY <2>1 DEF Phase, IsRunning
  <2> QED
    BY <2>1, <2>2 DEF T!Init, Unanswered
<1>2. IInv /\ Unanswered /\ [Next]_vars => Unanswered' /\ [T!Next]_<<Phase, opened>>
  BY StepImplements DEF Implements
<1> QED
  BY <1>1, <1>2, Invariance, PTL DEF Spec, T!Spec, TunnelSpec

-----------------------------------------------------------------------------
(* No tunnel is left behind *)

\* The worker is about to start openvpn, or openvpn runs.
Live == worker = "start" \/ openvpn = "running"

\* While openvpn runs the worker is in its loop; an attempt that is CONNECTING was
\* never up; and a client that was never opened has its owner.
Looks == /\ openvpn = "running" => worker \in {"poll", "authFailed", "initialized", "crashed"}
         /\ state = "CONNECTING" => ~wasUp
         /\ worker = "none" => Owner \in conn

\* An error is on its way.
Warned(s) == \E k \in 1..Len(s) : s[k].sig = "error"

\* Before its first close() returns, a live client has its owner, and if it is in error
\* or open() has failed, an error is on its way that will close it.
Watched ==
  Live /\ worker # "crashed" /\ closing = 0 =>
    /\ Owner \in conn
    /\ state \in {"CONNECTING", "CONNECTED", "VPNERROR"}
    /\ state = "VPNERROR" \/ opening = "error" \/ opened = "false" => Warned(posted)

LEMMA WarnAppend ==
  ASSUME NEW s \in Seq(Signal), NEW t \in Seq(Signal), Warned(s) \/ Warned(t)
  PROVE  Warned(s \o t)
<1>1. CASE Warned(s)
  <2>1. PICK k \in 1..Len(s) : s[k].sig = "error"
    BY <1>1 DEF Warned
  <2>2. k \in 1..Len(s \o t) /\ (s \o t)[k] = s[k]
    OBVIOUS
  <2> QED
    BY <2>1, <2>2 DEF Warned
<1>2. CASE Warned(t)
  <2>1. PICK k \in 1..Len(t) : t[k].sig = "error"
    BY <1>2 DEF Warned
  <2>2. Len(s) + k \in 1..Len(s \o t) /\ (s \o t)[Len(s) + k] = t[k]
    OBVIOUS
  <2> QED
    BY <2>1, <2>2 DEF Warned
<1> QED
  BY <1>1, <1>2

LEMMA WarnTail ==
  ASSUME NEW s \in Seq(Signal), s # <<>>, Warned(s), Head(s).sig # "error"
  PROVE  Warned(Tail(s))
<1>1. PICK k \in 1..Len(s) : s[k].sig = "error"
  BY DEF Warned
<1>2. k # 1 /\ k - 1 \in 1..Len(Tail(s)) /\ Tail(s)[k - 1] = s[k]
  BY <1>1
<1> QED
  BY <1>1, <1>2 DEF Warned

\* Whoever sets VPNERROR warns the owner, unless it has been warned.
LEMMA SetStateWarns ==
  ASSUME NEW s \in {"VPNERROR", "CONNECTED"}, NEW before \in Seq(Signal), SetState(s, before),
         conn \subseteq Nat, posted \in Seq(Signal), Owner \in conn,
         Warned(posted) \/ (s = "VPNERROR" /\ state # "VPNERROR")
  PROVE  Warned(posted')
<1> DEFINE p == posted \o before
<1>1. p \in Seq(Signal) /\ (Warned(posted) => Warned(p))
  BY WarnAppend
<1>2. CASE state = s
  <2>1. posted' = p \o <<>>
    BY <1>2 DEF SetState
  <2> HIDE DEF p
  <2> QED
    BY <1>1, <1>2, <2>1
<1>3. CASE state # s /\ s = "VPNERROR"
  <2> DEFINE e == [sig |-> "error", to |-> conn \cap {Owner}]
  <2>1. e \in Signal /\ e.sig = "error"
    BY DEF Signal
  <2>2. posted' = p \o <<e>>
    BY <1>3 DEF SetState, Emit
  <2> HIDE DEF e, p
  <2>3. <<e>> \in Seq(Signal) /\ Len(<<e>>) = 1 /\ <<e>>[1] = e
    BY <2>1
  <2>4. Warned(<<e>>)
    BY <2>1, <2>3 DEF Warned
  <2> QED
    BY <1>1, <2>2, <2>3, <2>4, WarnAppend
<1>4. CASE state # s /\ s = "CONNECTED"
  <2> DEFINE t == Emit("connected", {OpenLoop})
  <2>1. posted' = p \o t
    BY <1>4 DEF SetState
  <2>2. t \in Seq(Signal)
    <3> DEFINE e == [sig |-> "connected", to |-> conn \cap {OpenLoop}]
    <3>1. e \in Signal
      BY DEF Signal
    <3>2. t = <<>> \/ t = <<e>>
      BY DEF Emit
    <3> HIDE DEF e, t
    <3>3. <<>> \in Seq(Signal) /\ <<e>> \in Seq(Signal)
      BY <3>1
    <3> QED
      BY <3>2, <3>3
  <2> HIDE DEF t, p
  <2> QED
    BY <1>1, <1>4, <2>1, <2>2, WarnAppend
<1> QED
  BY <1>2, <1>3, <1>4

\* Steps that leave the state, the signals and the calls of close() alone.
LEMMA WatchedKept ==
  ASSUME Watched, Live' => Live, worker' # "crashed" => worker # "crashed",
         UNCHANGED <<state, posted, closing>>, Owner \in conn => Owner \in conn',
         opening' = "error" => opening = "error", opened' = "false" => opened = "false"
  PROVE  Watched'
BY DEF Watched

LEMMA CloseFromWatches ==
  ASSUME Typed, Looks, Watched, Live' => Live, worker' = worker, CloseFrom(state)
  PROVE  \/ closing' # 0
         \/ /\ closing' = closing /\ state' = state /\ conn' = conn
            /\ ~(Live /\ worker # "crashed" /\ closing = 0)
<1>1. CASE CanClose(state)
  BY <1>1 DEF CloseFrom, Typed, TypeOK
<1>2. CASE ~CanClose(state)
  <2>1. closing' = closing /\ state' = state /\ conn' = conn
    BY <1>2 DEF CloseFrom
  <2>2. ~(Live /\ worker # "crashed" /\ closing = 0)
    BY <1>2 DEF CanClose, Watched, Live, Looks, IsRunning
  <2> QED
    BY <2>1, <2>2
<1> QED
  BY <1>1, <1>2

LEMMA QuietWatches ==
  ASSUME Typed, Once, Stop, Looks, Watched,
         \/ RunStart \/ RunLoopEnds \/ RunRead \/ RunStop \/ RunCheck \/ RunDrop \/ RunExit
         \/ AgentTest \/ OpenvpnWrites \/ OpenvpnEnds \/ OpenMissing \/ OpenWaits
         \/ DeleteAgent \/ OpenCheck \/ OpenTimer \/ CloseTimeout \/ UNCHANGED vars
  PROVE  Watched'
<1>1. CASE RunStart
  <2>1. CASE openvpn' = "running"
    <3>1. Live /\ UNCHANGED <<state, posted, closing, conn, opening, opened>>
          /\ worker # "crashed"
      BY <1>1, <2>1 DEF RunStart, Live, calls
    <3>2. worker = "start"
      BY <1>1 DEF RunStart
    <3> QED
      BY <3>1, <3>2, WatchedKept DEF Live
  <2>2. CASE openvpn' = "dead" /\ worker' = "exit"
    BY <2>2 DEF Watched, Live
  <2> QED
    BY <1>1, <2>1, <2>2 DEF RunStart
<1>2. CASE RunLoopEnds
  BY <1>2 DEF RunLoopEnds, Crash, Watched, Live, Stop, process
<1>3. CASE RunRead \/ RunStop \/ AgentTest \/ OpenvpnWrites \/ OpenvpnEnds
  <2>1. UNCHANGED <<state, posted, closing, conn, opening, opened>>
    BY <1>3 DEF RunRead, RunStop, AgentTest, OpenvpnWrites, OpenvpnEnds, calls
  <2>2. (Live' => Live) /\ (worker' # "crashed" => worker # "crashed")
    BY <1>3 DEF RunRead, RunStop, AgentTest, OpenvpnWrites, OpenvpnEnds, Live, thread, process
  <2> QED
    BY <2>1, <2>2, WatchedKept
<1>4. CASE RunCheck \/ RunDrop \/ RunExit
  <2>1. openvpn' = openvpn /\ worker' # "start" /\ openvpn # "running" 
    BY <1>4 DEF RunCheck, RunDrop, RunExit, Tested, Looks, process
  <2> QED
    BY <2>1 DEF Watched, Live
<1>5. CASE OpenMissing
  <2>1. worker' = "none" /\ openvpn' = "none"
    BY <1>5 DEF OpenMissing, Once, Stop, thread, process
  <2> QED
    BY <2>1 DEF Watched, Live
<1>6. CASE OpenWaits \/ OpenCheck \/ OpenTimer \/ CloseTimeout
  <2>1. UNCHANGED <<state, posted, closing, opened, worker, openvpn>>
    BY <1>6 DEF OpenWaits, OpenCheck, OpenTimer, CloseTimeout, thread, process
  <2>2. (Owner \in conn => Owner \in conn') /\ (opening' = "error" => opening = "error")
    BY <1>6 DEF OpenWaits, OpenCheck, OpenTimer, CloseTimeout
  <2> QED
    BY <2>1, <2>2, WatchedKept DEF Live
<1>7. CASE DeleteAgent
  <2>1. CASE worker' = "crashed"
    BY <2>1 DEF Watched
  <2>2. CASE worker' # "crashed"
    <3>1. UNCHANGED <<state, posted, closing, conn, opening, opened, worker, openvpn>>
      BY <1>7, <2>2 DEF DeleteAgent, Crash, process
    <3> QED
      BY <3>1, WatchedKept DEF Live
  <2> QED
    BY <2>1, <2>2
<1>8. CASE UNCHANGED vars
  BY <1>8, WatchedKept DEF vars, thread, process, calls, Live
<1> QED
  BY <1>1, <1>2, <1>3, <1>4, <1>5, <1>6, <1>7, <1>8

LEMMA StateWatches ==
  ASSUME Typed, Looks, Watched, RunAuthFailed \/ RunInitialized \/ AgentRead
  PROVE  Watched'
<1> SUFFICES ASSUME Live', worker' # "crashed", closing' = 0
             PROVE  /\ Owner \in conn'
                    /\ state' \in {"CONNECTING", "CONNECTED", "VPNERROR"}
                    /\ state' = "VPNERROR" \/ opening' = "error" \/ opened' = "false"
                         => Warned(posted')
  BY DEF Watched
<1>1. Live /\ worker # "crashed" /\ closing = 0 /\ UNCHANGED <<conn, opening, opened>>
  BY DEF RunAuthFailed, RunInitialized, AgentRead, calls, thread, process, Live
<1>2. /\ Owner \in conn /\ state \in {"CONNECTING", "CONNECTED", "VPNERROR"}
      /\ state = "VPNERROR" \/ opening = "error" \/ opened = "false" => Warned(posted)
  BY <1>1 DEF Watched
<1>3. conn \subseteq Nat /\ posted \in Seq(Signal) /\ <<>> \in Seq(Signal)
  BY DEF Typed, TypeOK
<1>4. CASE RunAuthFailed
  <2>1. SetState("VPNERROR", ErrorMessage)
    BY <1>4 DEF RunAuthFailed
  <2>2. ErrorMessage \in Seq(Signal)
    BY <1>3, ErrorMessageTells
  <2>3. state' = "VPNERROR"
    BY <2>1 DEF SetState
  <2>4. Warned(posted')
    BY <1>2, <1>3, <2>1, <2>2, SetStateWarns
  <2> QED
    BY <1>1, <1>2, <2>3, <2>4
<1>5. CASE RunInitialized
  <2>1. SetState("CONNECTED", <<>>)
    BY <1>5 DEF RunInitialized
  <2>2. state' = "CONNECTED"
    BY <2>1 DEF SetState
  <2>3. Warned(posted) => Warned(posted')
    BY <1>2, <1>3, <2>1, SetStateWarns
  <2> QED
    BY <1>1, <1>2, <2>2, <2>3
<1>6. CASE AgentRead /\ mgmtDown /\ Owner \in conn
  <2>1. SetState("VPNERROR", <<>>)
    BY <1>6 DEF AgentRead
  <2>2. state' = "VPNERROR"
    BY <2>1 DEF SetState
  <2>3. Warned(posted')
    BY <1>2, <1>3, <2>1, SetStateWarns
  <2> QED
    BY <1>1, <1>2, <2>2, <2>3
<1>7. CASE AgentRead /\ ~(mgmtDown /\ Owner \in conn)
  <2>1. UNCHANGED <<state, posted>>
    BY <1>7 DEF AgentRead
  <2> QED
    BY <1>1, <1>2, <2>1
<1> QED
  BY <1>4, <1>5, <1>6, <1>7

LEMMA OpenWatches ==
  ASSUME Typed, Once, Looks, Watched, Unanswered,
         Open \/ OpenReturn \/ OpenLate \/ OpenLateError \/ OpenLateReturn
  PROVE  Watched'
<1>1. CASE Open
  <2>1. worker = "none" /\ opened' = "no" /\ opening' = "start" /\ conn' = conn
        /\ state' = "CONNECTING"
    BY <1>1 DEF Open, Once
  <2> QED
    BY <2>1 DEF Watched, Looks
<1>2. CASE OpenReturn
  <2>1. /\ UNCHANGED <<state, posted, closing, worker, openvpn>>
        /\ opened' = (IF IsRunning THEN "true" ELSE "false")
        /\ conn' = conn \ {OpenLoop} /\ opening' = "idle"
    BY <1>2 DEF OpenReturn, thread, process
  <2>2. Live /\ worker # "crashed" => opened' = "true"
    BY <2>1 DEF Live, Looks, IsRunning
  <2> QED
    BY <2>1, <2>2 DEF Watched, Live, Owner, OpenLoop
<1>3. CASE OpenLate
  <2>1. UNCHANGED <<posted, worker, openvpn, opened>> /\ opening' = "message"
    BY <1>3 DEF OpenLate, thread, process
  <2>2. CASE CloseFrom(state)
    BY <2>1, <2>2, CloseFromWatches DEF Watched, Live
  <2>3. CASE UNCHANGED <<state, closing, conn>>
    BY <2>1, <2>3 DEF Watched, Live
  <2> QED
    BY <1>3, <2>2, <2>3 DEF OpenLate
<1>4. CASE OpenLateError
  <2>1. UNCHANGED <<posted, worker, openvpn, opened>> /\ opening' = "error" /\ closing = 0
    BY <1>4 DEF OpenLateError, thread, process
  <2>2. CASE Live /\ worker # "crashed" /\ state # "VPNERROR"
    <3>1. Owner \in conn /\ CloseFrom("VPNERROR")
      BY <1>4, <2>1, <2>2 DEF OpenLateError, Watched
    <3>2. CanClose("VPNERROR")
      BY <2>2 DEF CanClose, Live, Looks, IsRunning
    <3>3. closing' = 1
      BY <2>1, <3>1, <3>2 DEF CloseFrom
    <3> QED
      BY <3>3 DEF Watched
  <2>3. CASE Live /\ worker # "crashed" /\ state = "VPNERROR"
    <3>1. state' = "VPNERROR" /\ UNCHANGED <<closing, conn>>
      BY <1>4, <2>3 DEF OpenLateError
    <3> QED
      BY <2>1, <2>3, <3>1 DEF Watched
  <2>4. CASE ~(Live /\ worker # "crashed")
    BY <2>1, <2>4 DEF Watched, Live
  <2> QED
    BY <2>2, <2>3, <2>4
<1>5. CASE OpenLateReturn
  <2>1. /\ UNCHANGED <<state, posted, closing, worker, openvpn>>
        /\ conn' = conn \ {OpenLoop} /\ opening = "error"
    BY <1>5 DEF OpenLateReturn, thread, process
  <2> QED
    BY <2>1 DEF Watched, Live, Owner, OpenLoop
<1> QED
  BY <1>1, <1>2, <1>3, <1>4, <1>5

LEMMA CloseWatches ==
  ASSUME Typed, Stop, Quits, Looks, Watched, Click \/ Deliver \/ CloseReturn
  PROVE  Watched'
<1>1. CASE Click
  <2>1. UNCHANGED <<posted, worker, openvpn, opened, opening>> /\ CloseFrom(state)
    BY <1>1 DEF Click, thread, process
  <2> QED
    BY <2>1, CloseFromWatches DEF Watched, Live
<1>2. CASE Deliver
  <2>1. UNCHANGED <<worker, openvpn, opened, opening>> /\ posted # <<>> /\ posted' = Tail(posted)
    BY <1>2 DEF Deliver, thread, process
  <2>2. CASE SlotCloses(Head(posted).sig)
    <3>1. CloseFrom(state)
      BY <1>2, <2>2 DEF Deliver
    <3> QED
      BY <2>1, <3>1, CloseFromWatches DEF Watched, Live
  <2>3. CASE ~SlotCloses(Head(posted).sig)
    <3>1. UNCHANGED <<state, closing, conn>>
      BY <1>2, <2>3 DEF Deliver
    <3>2. Head(posted).sig # "error"
      BY <2>3 DEF SlotCloses
    <3>3. Warned(posted) => Warned(posted')
      BY <2>1, <3>2, WarnTail DEF Typed, TypeOK
    <3> QED
      BY <2>1, <3>1, <3>3 DEF Watched, Live
  <2> QED
    BY <2>2, <2>3
<1>3. CASE CloseReturn
  <2>1. closing > 0 /\ CloseLoop(closing) \in quit /\ closing \in Nat
    BY <1>3 DEF CloseReturn, Typed, TypeOK
  <2>2. worker' = worker /\ worker # "start"
    BY <1>3, <2>1 DEF CloseReturn, Quits, Tells, Begun
  <2>3. openvpn' # "running"
    BY <1>3 DEF CloseReturn, Killed, Stop
  <2> QED
    BY <2>2, <2>3 DEF Watched, Live
<1> QED
  BY <1>1, <1>2, <1>3

LEMMA LooksKept == ASSUME Typed, Once, Stop, Quits, Unanswered, Looks, [Next]_vars PROVE Looks'
<1> USE DEF Looks
<1>1. CASE Open \/ OpenMissing
  BY <1>1 DEF Open, OpenMissing, Once, Stop, Unanswered, thread, process, history, calls
<1>2. CASE Click \/ Deliver \/ OpenLate \/ OpenLateError
  <2>1. UNCHANGED <<worker, openvpn, wasUp>>
    BY <1>2 DEF Click, Deliver, OpenLate, OpenLateError, thread, process, history
  <2>2. /\ state' = "CONNECTING" => state = "CONNECTING"
        /\ Owner \in conn => Owner \in conn'
    BY <1>2 DEF Click, Deliver, OpenLate, OpenLateError, CloseFrom
  <2> QED
    BY <2>1, <2>2
<1>3. CASE CloseReturn
  <2>1. closing > 0 /\ CloseLoop(closing) \in quit /\ closing \in Nat
    BY <1>3 DEF CloseReturn, Typed, TypeOK
  <2>2. worker' = worker /\ worker # "none" /\ state' = "DISCONNECTED"
    BY <1>3, <2>1 DEF CloseReturn, Quits, Tells, Begun
  <2>3. openvpn' # "running"
    BY <1>3 DEF CloseReturn, Killed, Stop
  <2> QED
    BY <2>2, <2>3
<1>4. CASE OpenWaits \/ OpenCheck \/ OpenTimer \/ OpenReturn \/ OpenLateReturn \/ CloseTimeout
  <2>1. UNCHANGED <<worker, openvpn, wasUp, state>>
    BY <1>4 DEF OpenWaits, OpenCheck, OpenTimer, OpenReturn, OpenLateReturn, CloseTimeout, thread,
         process, history
  <2>2. Owner \in conn => Owner \in conn'
    BY <1>4 DEF OpenWaits, OpenCheck, OpenTimer, OpenReturn, OpenLateReturn, CloseTimeout, Owner,
         OpenLoop
  <2> QED
    BY <2>1, <2>2
<1>5. CASE DeleteAgent
  <2>1. UNCHANGED <<openvpn, wasUp, state, conn>>
    BY <1>5 DEF DeleteAgent, process, history
  <2>2. worker' = worker \/ worker' = "crashed"
    BY <1>5 DEF DeleteAgent, Crash
  <2> QED
    BY <2>1, <2>2
<1>6. CASE Run
  <2>1. conn' = conn /\ worker # "none" /\ worker' # "none"
    BY <1>6 DEF Run, RunStart, RunLoopEnds, RunRead, RunAuthFailed, RunInitialized, RunStop,
         RunCheck, RunDrop, RunExit, Crash, Tested, calls, thread
  <2>2. state' = "CONNECTING" => state = "CONNECTING" /\ wasUp' = wasUp
    BY <1>6 DEF Run, RunStart, RunLoopEnds, RunRead, RunAuthFailed, RunInitialized, RunStop,
         RunCheck, RunDrop, RunExit, SetState, history
  <2>3. openvpn' = "running" => worker' \in {"poll", "authFailed", "initialized", "crashed"}
    BY <1>6 DEF Run, RunStart, RunLoopEnds, RunRead, RunAuthFailed, RunInitialized, RunStop,
         RunCheck, RunDrop, RunExit, Crash, Tested, Stop, thread, process
  <2> QED
    BY <2>1, <2>2, <2>3
<1>7. CASE Agent \/ OpenvpnWrites \/ OpenvpnEnds
  <2>1. UNCHANGED <<worker, wasUp, conn>>
    BY <1>7 DEF Agent, AgentTest, AgentRead, OpenvpnWrites, OpenvpnEnds, thread, calls, history
  <2>2. /\ openvpn' = "running" => openvpn = "running"
        /\ state' = "CONNECTING" => state = "CONNECTING"
    BY <1>7 DEF Agent, AgentTest, AgentRead, OpenvpnWrites, OpenvpnEnds, SetState, process
  <2> QED
    BY <2>1, <2>2
<1>8. CASE UNCHANGED vars
  BY <1>8 DEF vars, thread, process, calls, history
<1> QED
  BY <1>1, <1>2, <1>3, <1>4, <1>5, <1>6, <1>7, <1>8 DEF Next, GuiSteps

LEMMA WatchedStep ==
  ASSUME IInv, Unanswered, Looks, Watched, [Next]_vars
  PROVE  Watched'
BY QuietWatches, StateWatches, OpenWatches, CloseWatches DEF IInv, Next, GuiSteps, Run, Agent

\* NoLeak: a tunnel that runs while nothing is under way is one that open() announced and
\* that shows CONNECTED.  No close() of the client has returned, for this kills openvpn;
\* so Obhod123 is still connected, and a VPNERROR or a failed open() would have an error
\* on its way that closes the client (Watched).
THEOREM NoTunnelLeaks == Spec => []NoLeak
<1>1. Init => IInv /\ Unanswered /\ Looks /\ Watched
  BY InitIInv DEF Init, Unanswered, Looks, Watched, Live
<1>2. IInv /\ Unanswered /\ Looks /\ Watched /\ [Next]_vars
        => Unanswered' /\ Looks' /\ Watched'
  BY StepImplements, LooksKept, WatchedStep DEF Implements, IInv
<1>3. IInv /\ Unanswered /\ Looks /\ Watched => NoLeak
  <2> SUFFICES ASSUME IInv, Looks, Watched, AtRest, openvpn = "running"
               PROVE  opened = "true" /\ state = "CONNECTED"
    BY DEF NoLeak
  <2>1. worker = "poll" /\ opening = "idle" /\ closing = 0 /\ posted = <<>>
    BY DEF AtRest, Looks
  <2>2. ~Warned(posted)
    BY <2>1 DEF Warned
  <2>3. opened # "false" /\ state \in {"CONNECTING", "CONNECTED"}
    BY <2>1, <2>2 DEF Watched, Live
  <2>4. opened = "true"
    BY <2>1, <2>3 DEF IInv, Once, Typed, TypeOK
  <2> QED
    BY <2>3, <2>4 DEF Looks, IInv, OpenTruth
<1> QED
  BY <1>1, <1>2, <1>3, Invariance, PTL DEF Spec

-----------------------------------------------------------------------------
(* The end is told *)

\* A client that is not being closed is not DISCONNECTING; and the worker leaves with
\* its tests only once it is neither CONNECTED nor CONNECTING, unless a close() has
\* given up waiting for it and has written over what they had seen.
Honest ==
  /\ state = "DISCONNECTING" /\ worker # "crashed" => closing > 0
  /\ worker = "checkConnecting" => state # "CONNECTED"
  /\ worker \in {"exit", "done"} /\ closed # "forced" => state \notin {"CONNECTED", "CONNECTING"}
  /\ worker \in {"poll", "authFailed", "initialized"} /\ ~compose => closed = "forced"

LEMMA HonestKept ==
  ASSUME Typed, Once, Quits, Honest, [Next]_vars
  PROVE  Honest'
<1> USE DEF Honest
<1>1. CASE Open \/ OpenMissing
  BY <1>1 DEF Open, OpenMissing, Once, thread
<1>2. CASE Click \/ Deliver \/ OpenLate \/ OpenLateError
  <2>1. UNCHANGED <<worker, compose, closed>>
    BY <1>2 DEF Click, Deliver, OpenLate, OpenLateError, thread, history
  <2>2. \/ state' = "DISCONNECTING" /\ closing' = closing + 1
        \/ closing' = closing /\ (state' = state \/ state' = "VPNERROR")
    BY <1>2 DEF Click, Deliver, OpenLate, OpenLateError, CloseFrom
  <2> QED
    BY <2>1, <2>2 DEF Typed, TypeOK
<1>3. CASE CloseReturn
  <2>1. worker' = worker /\ state' = "DISCONNECTED"
        /\ closed' = (IF IsRunning \/ closed = "forced" THEN "forced" ELSE "clean")
    BY <1>3 DEF CloseReturn
  <2> QED
    BY <2>1 DEF IsRunning
<1>4. CASE OpenWaits \/ OpenCheck \/ OpenTimer \/ OpenReturn \/ OpenLateReturn \/ CloseTimeout
           \/ OpenvpnWrites \/ OpenvpnEnds \/ AgentTest
  BY <1>4 DEF OpenWaits, OpenCheck, OpenTimer, OpenReturn, OpenLateReturn, CloseTimeout,
       OpenvpnWrites, OpenvpnEnds, AgentTest, thread, history, calls
<1>5. CASE DeleteAgent
  <2>1. UNCHANGED <<state, compose, closed>>
    BY <1>5 DEF DeleteAgent, history
  <2>2. (worker' = worker /\ closing' = closing) \/ worker' = "crashed"
    BY <1>5 DEF DeleteAgent, Crash
  <2> QED
    BY <2>1, <2>2
<1>6. CASE RunStart \/ RunLoopEnds \/ RunRead \/ RunStop \/ RunExit
  <2>1. closed' = closed /\ (closing' = closing \/ worker' = "crashed")
    BY <1>6 DEF RunStart, RunLoopEnds, RunRead, RunStop, RunExit, Crash, calls, history
  <2>2. CASE RunStart
    BY <2>1, <2>2 DEF RunStart, SetState, Honest
  <2>3. CASE RunLoopEnds \/ RunRead \/ RunStop \/ RunExit
    BY <2>1, <2>3 DEF RunLoopEnds, RunRead, RunStop, RunExit, Crash, thread, Honest
  <2> QED
    BY <1>6, <2>2, <2>3
<1>7. CASE RunAuthFailed \/ RunInitialized \/ RunCheck \/ RunDrop \/ AgentRead
  <2>1. closed' = closed /\ closing' = closing /\ compose' = compose
    BY <1>7 DEF RunAuthFailed, RunInitialized, RunCheck, RunDrop, AgentRead, calls, history, thread
  <2>2. CASE RunAuthFailed \/ RunDrop \/ AgentRead
    <3>1. state' = state \/ state' = "VPNERROR"
      BY <2>2 DEF RunAuthFailed, RunDrop, AgentRead, SetState
    <3>2. CASE RunAuthFailed
      BY <2>1, <3>1, <3>2 DEF RunAuthFailed
    <3>3. CASE RunDrop
      <4>1. state' = "VPNERROR" /\ worker' \in {"checkConnecting", "exit"}
        BY <3>3 DEF RunDrop, SetState
      <4> QED
        BY <2>1, <4>1
    <3>4. CASE AgentRead
      <4>1. worker' = worker
        BY <3>4 DEF AgentRead, thread
      <4> QED
        BY <2>1, <3>1, <4>1
    <3> QED
      BY <2>2, <3>2, <3>3, <3>4
  <2>3. CASE RunInitialized
    <3>1. worker = "initialized" /\ worker' = "poll" /\ state' = "CONNECTED"
      BY <2>3 DEF RunInitialized, SetState
    <3> QED
      BY <2>1, <3>1
  <2>4. CASE RunCheck
    <3>1. state' = state
      BY <2>4 DEF RunCheck
    <3>2. CASE worker = "checkConnected"
      <4>1. worker' = (IF state = "CONNECTED" THEN "dropConnected" ELSE "checkConnecting")
        BY <2>4, <3>2 DEF RunCheck, Tested
      <4> QED
        BY <2>1, <3>1, <3>2, <4>1
    <3>3. CASE worker = "checkConnecting"
      <4>1. worker' = (IF state = "CONNECTING" THEN "dropConnecting" ELSE "exit")
        BY <2>4, <3>3 DEF RunCheck, Tested
      <4> QED
        BY <2>1, <3>1, <3>3, <4>1
    <3> QED
      BY <2>4, <3>2, <3>3 DEF RunCheck, Tested
  <2> QED
    BY <1>7, <2>2, <2>3, <2>4
<1>8. CASE UNCHANGED vars
  BY <1>8 DEF vars, thread, calls, history
<1> QED
  BY <1>1, <1>2, <1>3, <1>4, <1>5, <1>6, <1>7, <1>8 DEF Next, GuiSteps, Run, Agent

-----------------------------------------------------------------------------
\* No loop of a close() is told to quit before the worker has ended, except by the time.
Ends == AllTell(posted, TRUE, Ended)

LEMMA EndsKept ==
  ASSUME Typed, Once, Ends, [Next]_vars
  PROVE  Ends'
<1>a. conn \subseteq Nat /\ posted \in Seq(Signal)
  BY DEF Typed, TypeOK
<1>b. AllTell(posted, TRUE, Ended)
  BY DEF Ends
<1>c. <<>> \in Seq(Signal) /\ AllTell(<<>>, TRUE, Ended) /\ AllTell(<<>>, TRUE, Ended')
  BY DEF AllTell
<1>d. Ended \in BOOLEAN /\ Ended' \in BOOLEAN
  BY DEF Ended
<1>0. /\ conn \subseteq Nat /\ posted \in Seq(Signal) /\ AllTell(posted, TRUE, Ended)
      /\ <<>> \in Seq(Signal) /\ AllTell(<<>>, TRUE, Ended) /\ AllTell(<<>>, TRUE, Ended')
      /\ Ended \in BOOLEAN /\ Ended' \in BOOLEAN
  BY <1>a, <1>b, <1>c, <1>d
<1>1. CASE posted' = posted /\ (Ended => Ended')
  BY <1>0, <1>1, TellMore DEF Ends
<1>2. CASE posted' = <<>>
  BY <1>0, <1>2 DEF Ends
<1>3. CASE \E s \in {"VPNERROR", "CONNECTED"}, before \in {<<>>, ErrorMessage} :
             SetState(s, before) /\ (Ended => Ended')
  <2>1. PICK s \in {"VPNERROR", "CONNECTED"}, before \in {<<>>, ErrorMessage} :
          SetState(s, before) /\ (Ended => Ended')
    BY <1>3
  <2>2. before \in Seq(Signal) /\ AllTell(before, TRUE, Ended)
    BY <1>0, <2>1, ErrorMessageTells
  <2>3. posted' \in Seq(Signal) /\ AllTell(posted', TRUE, Ended)
    BY <1>0, <2>1, <2>2, SetStateTells
  <2> QED
    BY <1>0, <2>1, <2>3, TellMore DEF Ends
<1>4. CASE RunCheck
  <2>1. Ended' = Ended
    BY <1>4 DEF RunCheck, Ended, Tested
  <2>2. ErrorMessage \in Seq(Signal) /\ AllTell(ErrorMessage, TRUE, Ended)
    BY <1>0, ErrorMessageTells
  <2>3. posted' = posted \o ErrorMessage \/ posted' = posted \o <<>>
    BY <1>4 DEF RunCheck
  <2>4. AllTell(posted', TRUE, Ended)
    BY <1>0, <2>2, <2>3, TellAppend
  <2> QED
    BY <2>1, <2>4 DEF Ends
<1>5. CASE RunExit
  <2>1. Ended' /\ posted' = posted \o Emit("finished", conn \ {Owner})
    BY <1>5 DEF RunExit, Ended
  <2>2. AllTell(posted, TRUE, TRUE)
    BY <1>0, TellMore
  <2>3. Emit("finished", conn \ {Owner}) \in Seq(Signal)
        /\ AllTell(Emit("finished", conn \ {Owner}), TRUE, TRUE)
    BY <1>0, TellOwner, Emitted
  <2>4. AllTell(posted', TRUE, TRUE)
    BY <1>0, <2>1, <2>2, <2>3, TellAppend
  <2> QED
    BY <2>1, <2>4 DEF Ends
<1>6. CASE Deliver
  <2>1. posted # <<>> /\ posted' = Tail(posted) /\ Ended' = Ended
    BY <1>6 DEF Deliver, Ended, thread
  <2> QED
    BY <1>0, <2>1, TellHead DEF Ends
<1>7. ASSUME [Next]_vars, ~RunCheck, ~RunExit, ~Deliver
      PROVE  \/ posted' = posted /\ (Ended => Ended')
             \/ posted' = <<>>
             \/ \E s \in {"VPNERROR", "CONNECTED"}, before \in {<<>>, ErrorMessage} :
                  SetState(s, before) /\ (Ended => Ended')
  <2>1. CASE Run
    <3>1. CASE RunStart \/ RunAuthFailed
      <4>1. \/ posted' = posted
            \/ SetState("VPNERROR", ErrorMessage)
        BY <3>1 DEF RunStart, RunAuthFailed
      <4>2. Ended => Ended'
        BY <3>1 DEF RunStart, RunAuthFailed, Ended
      <4> QED
        BY <4>1, <4>2
    <3>2. CASE RunInitialized \/ RunDrop
      <4>1. SetState("VPNERROR", <<>>) \/ SetState("CONNECTED", <<>>)
        BY <3>2 DEF RunInitialized, RunDrop
      <4>2. Ended => Ended'
        BY <3>2 DEF RunInitialized, RunDrop, Ended
      <4> QED
        BY <4>1, <4>2
    <3>3. CASE RunLoopEnds \/ RunRead \/ RunStop
      <4>1. posted' = posted \/ posted' = <<>>
        BY <3>3 DEF RunLoopEnds, RunRead, RunStop, Crash
      <4>2. Ended => Ended'
        BY <3>3 DEF RunLoopEnds, RunRead, RunStop, Crash, Ended, thread
      <4> QED
        BY <4>1, <4>2
    <3> QED
      BY <1>7, <2>1, <3>1, <3>2, <3>3 DEF Run
  <2>2. CASE Agent \/ OpenvpnWrites \/ OpenvpnEnds \/ UNCHANGED vars
    BY <2>2 DEF Agent, AgentTest, AgentRead, OpenvpnWrites, OpenvpnEnds, vars, Ended, thread
  <2>3. CASE Open \/ OpenMissing \/ Click
    BY <2>3 DEF Open, OpenMissing, Click, Ended, thread, Once
  <2>4. CASE GuiSteps
    BY <1>7, <2>4 DEF GuiSteps, OpenWaits, DeleteAgent, OpenCheck, OpenTimer, OpenReturn, OpenLate,
         OpenLateError, OpenLateReturn, CloseReturn, CloseTimeout, Crash, Ended, thread
  <2> QED
    BY <1>7, <2>1, <2>2, <2>3, <2>4 DEF Next
<1> QED
  BY <1>1, <1>2, <1>3, <1>4, <1>5, <1>6, <1>7

\* A client that was never opened waits for nothing.
Unused == worker = "none" => closing = 0 /\ posted = <<>> /\ quit = {}

Drops == {"dropConnected", "dropConnecting"}

\* The user has asked for nothing, open() has not failed, and no error was reported nor
\* is on its way.
Unheard == /\ clicks = 0 /\ ~told /\ ~Warned(posted)
           /\ opening \notin {"message", "error"} /\ opened # "false"
           /\ worker \notin {"none", "crashed"}

\* Then the client is alive, or its worker is about to report the error, and at most the
\* message that goes before it has closed the client.
Noticed ==
  Unheard =>
    /\ Owner \in conn
    /\ \A i \in Nat \ {0} : CloseLoop(i) \notin quit
    /\ \A k \in 1..Len(posted) : posted[k].sig = "message" => worker \in Drops
    /\ compose \/ worker = "start"
    /\ \/ /\ closing = 0 /\ state = "CONNECTED"
          /\ worker \in {"poll", "authFailed", "initialized", "checkConnected", "dropConnected"}
       \/ /\ closing = 0 /\ state = "CONNECTING"
          /\ worker \in {"start", "poll", "authFailed", "initialized", "checkConnected",
                         "checkConnecting", "dropConnecting"}
       \/ closing > 0 /\ state = "DISCONNECTING" /\ worker \in Drops

LEMMA UnusedKept ==
  ASSUME Typed, Once, Unanswered, Unused, [Next]_vars
  PROVE  Unused'
<1> SUFFICES ASSUME worker' = "none"
             PROVE  closing' = 0 /\ posted' = <<>> /\ quit' = {}
  BY DEF Unused
<1>1. CASE Open \/ OpenMissing \/ Click
  BY <1>1 DEF Open, OpenMissing, Click, CloseFrom, CanClose, IsRunning, thread, Unused
<1>2. CASE GuiSteps
  <2>1. worker = "none"
    BY <1>2 DEF GuiSteps, OpenWaits, Deliver, DeleteAgent, OpenCheck, OpenTimer, OpenReturn,
         OpenLate, OpenLateError, OpenLateReturn, CloseReturn, CloseTimeout, Crash, thread
  <2>2. opening \notin {"start", "wait", "message", "error"} /\ closing = 0 /\ posted = <<>>
        /\ quit = {}
    BY <2>1 DEF Once, Unused
  <2>3. CASE DeleteAgent
    BY <2>1, <2>2, <2>3 DEF DeleteAgent, Crash
  <2>4. ~(CloseReturn \/ CloseTimeout \/ Deliver)
    BY <2>2 DEF CloseReturn, CloseTimeout, Deliver
  <2> QED
    BY <1>2, <2>2, <2>3, <2>4
       DEF GuiSteps, OpenWaits, OpenCheck, OpenTimer, OpenReturn, OpenLate, OpenLateError,
           OpenLateReturn
<1>3. CASE Run
  <2>1. worker' # "none"
    BY <1>3 DEF Run, RunStart, RunLoopEnds, RunRead, RunAuthFailed, RunInitialized, RunStop,
         RunCheck, RunDrop, RunExit, Crash, Tested, thread
  <2> QED
    BY <2>1
<1>4. CASE Agent \/ OpenvpnWrites \/ OpenvpnEnds \/ UNCHANGED vars
  <2>1. worker = "none" /\ agent = "off"
    BY <1>4 DEF Agent, AgentTest, AgentRead, OpenvpnWrites, OpenvpnEnds, vars, thread, Unanswered
  <2> QED
    BY <1>4, <2>1 DEF Agent, AgentTest, AgentRead, OpenvpnWrites, OpenvpnEnds, vars, calls, Unused
<1> QED
  BY <1>1, <1>2, <1>3, <1>4 DEF Next

\* What was on its way stays so when a thread sets the state.
LEMMA StaysWarned ==
  ASSUME NEW s \in {"VPNERROR", "CONNECTED"}, NEW before \in Seq(Signal), SetState(s, before),
         posted \in Seq(Signal), Warned(posted)
  PROVE  Warned(posted')
<1> DEFINE p == posted \o before
<1>1. p \in Seq(Signal) /\ Warned(p)
  BY WarnAppend
<1>2. PICK t : posted' = p \o t /\ (t = <<>> \/ t = Emit("error", {Owner}) \/ t = Emit("connected", {OpenLoop}))
  BY DEF SetState
<1>3. t \in Seq(Signal)
  <2> DEFINE e == [sig |-> "error", to |-> conn \cap {Owner}]
             c == [sig |-> "connected", to |-> conn \cap {OpenLoop}]
  <2>1. e \in Signal /\ c \in Signal
    BY DEF Signal, Owner, OpenLoop
  <2>2. t = <<>> \/ t = <<e>> \/ t = <<c>>
    BY <1>2 DEF Emit
  <2> HIDE DEF e, c
  <2>3. <<>> \in Seq(Signal) /\ <<e>> \in Seq(Signal) /\ <<c>> \in Seq(Signal)
    BY <2>1
  <2> QED
    BY <2>2, <2>3
<1> HIDE DEF p
<1> QED
  BY <1>1, <1>2, <1>3, WarnAppend

LEMMA NoticedKept ==
  ASSUME Noticed, Unheard' => Unheard, UNCHANGED <<state, worker, compose, closing, posted>>,
         Owner \in conn => Owner \in conn', quit' \subseteq quit \cup {OpenLoop}
  PROVE  Noticed'
<1>1. \A i \in Nat \ {0} : CloseLoop(i) # OpenLoop
  BY DEF CloseLoop, OpenLoop
<1> QED
  BY <1>1 DEF Noticed

LEMMA QuietNotices ==
  ASSUME Unanswered, Noticed,
         \/ RunStop \/ OpenvpnWrites \/ OpenvpnEnds \/ AgentTest \/ OpenWaits \/ OpenCheck
         \/ OpenTimer \/ OpenReturn \/ UNCHANGED vars
  PROVE  Noticed'
<1>1. UNCHANGED <<state, worker, compose, closing, posted, clicks, told>>
  BY DEF RunStop, OpenvpnWrites, OpenvpnEnds, AgentTest, OpenWaits, OpenCheck,
     OpenTimer, OpenReturn, vars, thread, calls, history
<1>2. /\ opened' # "false" => opened # "false"
      /\ opening \in {"message", "error"} => opening' \in {"message", "error"}
  BY DEF RunStop, OpenvpnWrites, OpenvpnEnds, AgentTest, OpenWaits, OpenCheck,
     OpenTimer, OpenReturn, vars, calls, Unanswered
<1>3. (Owner \in conn => Owner \in conn') /\ quit' \subseteq quit \cup {OpenLoop}
  BY DEF RunStop, OpenvpnWrites, OpenvpnEnds, AgentTest, OpenWaits, OpenCheck,
     OpenTimer, OpenReturn, vars, calls, Owner, OpenLoop
<1>4. Unheard' => Unheard
  BY <1>1, <1>2 DEF Unheard
<1> QED
  BY <1>1, <1>3, <1>4, NoticedKept

\* Steps after which somebody has heard, or that ask for an end that is not there.
LEMMA HeardNotices ==
  ASSUME Typed, Unanswered, Noticed,
         \/ Click \/ OpenMissing \/ OpenLate \/ OpenLateError \/ OpenLateReturn \/ DeleteAgent
         \/ CloseTimeout \/ CloseReturn
  PROVE  Noticed'
<1>1. CASE Click
  BY <1>1 DEF Click, Typed, TypeOK, Noticed, Unheard
<1>2. CASE OpenMissing \/ OpenLate \/ OpenLateError \/ OpenLateReturn
  BY <1>2 DEF OpenMissing, OpenLate, OpenLateError, OpenLateReturn, Noticed, Unheard
<1>3. CASE DeleteAgent
  <2>1. CASE worker' = "crashed"
    BY <2>1 DEF Noticed, Unheard
  <2>2. CASE worker' # "crashed"
    <3>1. /\ UNCHANGED <<state, worker, compose, closing, posted, conn, quit>>
          /\ UNCHANGED <<clicks, told, opening, opened>>
      BY <1>3, <2>2 DEF DeleteAgent, Crash, history
    <3> QED
      BY <3>1, NoticedKept DEF Unheard
  <2> QED
    BY <2>1, <2>2
<1>4. CASE CloseTimeout
  <2>1. /\ closing > 0 /\ worker \in {"done", "poll"}
    BY <1>4 DEF CloseTimeout, Stalled, Typed, TypeOK
  <2>2. Unheard' => Unheard
    BY <1>4 DEF CloseTimeout, Unheard, thread, history
  <2> QED
    BY <2>1, <2>2 DEF Noticed, Drops
<1>5. CASE CloseReturn
  <2>1. closing \in Nat \ {0} /\ CloseLoop(closing) \in quit
    BY <1>5 DEF CloseReturn, Typed, TypeOK
  <2>2. Unheard' => Unheard
    BY <1>5 DEF CloseReturn, Unheard
  <2> QED
    BY <2>1, <2>2 DEF Noticed
<1> QED
  BY <1>1, <1>2, <1>3, <1>4, <1>5

LEMMA OpenNotices ==
  ASSUME Typed, Once, Looks, Unused, Open
  PROVE  Noticed'
<1>1. worker = "none"
  BY DEF Open, Once
<1>2. closing = 0 /\ posted = <<>> /\ quit = {} /\ Owner \in conn
  BY <1>1 DEF Unused, Looks
<1>3. /\ state' = "CONNECTING" /\ worker' = "start"
      /\ UNCHANGED <<closing, posted, quit, conn>>
  BY DEF Open
<1> QED
  BY <1>2, <1>3 DEF Noticed

LEMMA DeliverNotices ==
  ASSUME Typed, Ends, Noticed, Deliver
  PROVE  Noticed'
<1> SUFFICES ASSUME Unheard'
             PROVE  Noticed'
  BY DEF Noticed
<1> DEFINE e == Head(posted)
<1>1. /\ posted \in Seq(Signal) /\ posted # <<>> /\ posted' = Tail(posted)
      /\ UNCHANGED <<worker, compose, clicks, opening, opened>>
      /\ told' = (told \/ e.sig = "error")
  BY DEF Deliver, Typed, TypeOK, thread
<1>2. ~told /\ e.sig # "error"
  BY <1>1 DEF Unheard
<1>3. Unheard
  BY <1>1, <1>2, WarnTail DEF Unheard
<1>4. /\ Owner \in conn
      /\ \A i \in Nat \ {0} : CloseLoop(i) \notin quit
      /\ \A k \in 1..Len(posted) : posted[k].sig = "message" => worker \in Drops
      /\ compose \/ worker = "start"
      /\ worker \in {"start", "poll", "authFailed", "initialized", "checkConnected",
                     "checkConnecting", "dropConnecting", "dropConnected"}
  BY <1>3 DEF Noticed, Drops
<1>5. /\ 1 \in 1..Len(posted) /\ posted[1] = e
      /\ \A k \in 1..Len(Tail(posted)) : k + 1 \in 1..Len(posted) /\ Tail(posted)[k] = posted[k + 1]
  BY <1>1
<1>6. \A k \in 1..Len(posted') : posted'[k].sig = "message" => worker' \in Drops
  BY <1>1, <1>4, <1>5
<1>7. CASE SlotCloses(e.sig)
  <2>1. CloseFrom(state) /\ quit' = quit
    BY <1>7 DEF Deliver
  <2>2. worker \in Drops
    BY <1>2, <1>4, <1>5, <1>7 DEF SlotCloses
  <2>3. CASE closing = 0 /\ state \in {"CONNECTED", "CONNECTING"}
    <3>1. CanClose(state)
      BY <2>2, <2>3 DEF CanClose, IsRunning, Drops
    <3>2. state' = "DISCONNECTING" /\ closing' = 1 /\ Owner \in conn'
      BY <1>4, <2>1, <2>3, <3>1 DEF CloseFrom
    <3> QED
      BY <1>1, <1>4, <1>6, <2>1, <2>2, <3>2 DEF Noticed
  <2>4. CASE closing > 0 /\ state = "DISCONNECTING"
    <3>1. UNCHANGED <<state, closing, conn>>
      BY <2>1, <2>4 DEF CloseFrom, CanClose
    <3> QED
      BY <1>1, <1>4, <1>6, <2>1, <2>2, <2>4, <3>1 DEF Noticed
  <2> QED
    BY <1>3, <2>3, <2>4 DEF Noticed
<1>8. CASE ~SlotCloses(e.sig)
  <2>1. UNCHANGED <<state, closing, conn>>
        /\ quit' \subseteq quit \cup (e.to \cap ({OpenLoop} \cup CloseLoops(closing)))
    BY <1>8 DEF Deliver
  <2>2. \A i \in Nat \ {0} : CloseLoop(i) \notin e.to
    BY <1>4, <1>5 DEF Ends, AllTell, Tells, Ended
  <2>3. \A i \in Nat \ {0} : CloseLoop(i) \notin quit'
    BY <1>4, <2>1, <2>2
  <2> QED
    BY <1>1, <1>3, <1>4, <1>6, <2>1, <2>3 DEF Noticed
<1> QED
  BY <1>7, <1>8

\* The worker's steps that set the state to an error are heard.
LEMMA ErrorNotices ==
  ASSUME Typed, Noticed, NEW before \in Seq(Signal), SetState("VPNERROR", before),
         UNCHANGED <<conn, clicks, told, opening, opened>>, worker \notin {"none", "crashed"}
  PROVE  Noticed'
<1>1. conn \subseteq Nat /\ posted \in Seq(Signal)
  BY DEF Typed, TypeOK
<1>2. CASE Warned(posted)
  <2>1. Warned(posted')
    BY <1>1, <1>2, StaysWarned
  <2> QED
    BY <2>1 DEF Noticed, Unheard
<1>3. CASE ~Warned(posted) /\ Unheard
  <2>1. Owner \in conn /\ state # "VPNERROR"
    BY <1>3 DEF Noticed
  <2>2. Warned(posted')
    BY <1>1, <2>1, SetStateWarns
  <2> QED
    BY <2>2 DEF Noticed, Unheard
<1>4. CASE ~Warned(posted) /\ ~Unheard
  BY <1>4 DEF Noticed, Unheard
<1> QED
  BY <1>2, <1>3, <1>4

LEMMA RunNotices ==
  ASSUME Typed, Noticed, RunStart \/ RunLoopEnds \/ RunRead \/ RunCheck \/ RunExit
  PROVE  Noticed'
<1>0. conn \subseteq Nat /\ posted \in Seq(Signal)
  BY DEF Typed, TypeOK
<1>1. UNCHANGED <<conn, quit, clicks, told, opened>>
  BY DEF RunStart, RunLoopEnds, RunRead, RunCheck, RunExit, calls, history
<1>2. CASE RunStart
  <2>1. worker = "start" /\ compose' = TRUE /\ UNCHANGED <<opening, closing>>
    BY <1>2 DEF RunStart, calls
  <2>2. CASE worker' = "poll" /\ UNCHANGED <<state, posted>>
    <3>1. Unheard' => Unheard
      BY <1>1, <2>1, <2>2 DEF Unheard
    <3>2. Unheard => /\ \A k \in 1..Len(posted) : posted[k].sig # "message"
                     /\ closing = 0 /\ state = "CONNECTING" /\ Owner \in conn
                     /\ \A i \in Nat \ {0} : CloseLoop(i) \notin quit
      BY <2>1 DEF Noticed, Drops
    <3> QED
      BY <1>1, <2>1, <2>2, <3>1, <3>2 DEF Noticed
  <2>3. CASE SetState("VPNERROR", ErrorMessage)
    <3>1. ErrorMessage \in Seq(Signal)
      BY <1>0, ErrorMessageTells
    <3> QED
      BY <1>1, <2>1, <2>3, <3>1, ErrorNotices
  <2> QED
    BY <1>2, <2>2, <2>3 DEF RunStart
<1>3. CASE RunLoopEnds
  <2>1. CASE worker' = "crashed"
    BY <2>1 DEF Noticed, Unheard
  <2>2. CASE worker' # "crashed"
    <3>1. worker = "poll" /\ UNCHANGED <<state, compose, opening, closing, posted>>
      BY <1>3, <2>2 DEF RunLoopEnds, Crash
    <3>2. Unheard' => Unheard
      BY <1>1, <3>1 DEF Unheard
    <3>3. Unheard => /\ \A k \in 1..Len(posted) : posted[k].sig # "message"
                     /\ closing = 0 /\ state \in {"CONNECTED", "CONNECTING"} /\ Owner \in conn
                     /\ \A i \in Nat \ {0} : CloseLoop(i) \notin quit
                     /\ compose
      BY <3>1 DEF Noticed, Drops
    <3>4. compose => worker' = "checkConnected"
      BY <1>3, <2>2 DEF RunLoopEnds, Crash
    <3> QED
      BY <1>1, <3>1, <3>2, <3>3, <3>4 DEF Noticed
  <2> QED
    BY <2>1, <2>2
<1>4. CASE RunRead
  <2>1. /\ worker = "poll" /\ worker' \in {"authFailed", "initialized"}
        /\ UNCHANGED <<state, compose, opening, closing, posted>>
    BY <1>4 DEF RunRead, calls
  <2>2. Unheard' => Unheard
    BY <1>1, <2>1 DEF Unheard
  <2>3. Unheard => /\ \A k \in 1..Len(posted) : posted[k].sig # "message"
                   /\ closing = 0 /\ state \in {"CONNECTED", "CONNECTING"} /\ Owner \in conn
                   /\ \A i \in Nat \ {0} : CloseLoop(i) \notin quit
                   /\ compose
    BY <2>1 DEF Noticed, Drops
  <2> QED
    BY <1>1, <2>1, <2>2, <2>3 DEF Noticed
<1>5. CASE RunCheck
  <2>1. UNCHANGED <<state, compose, opening, closing>>
    BY <1>5 DEF RunCheck, calls
  <2>2. ErrorMessage \in Seq(Signal)
    BY <1>0, ErrorMessageTells
  <2>3. \/ posted' = posted \o <<>>
        \/ worker' \in Drops /\ posted' = posted \o ErrorMessage
    BY <1>5 DEF RunCheck, Drops
  <2>4. Warned(posted) => Warned(posted')
    <3>1. CASE posted' = posted \o <<>>
      <4>1. posted' = posted
        BY <1>0, <3>1
      <4> QED
        BY <4>1
    <3>2. CASE posted' = posted \o ErrorMessage
      BY <1>0, <2>2, <3>2, WarnAppend
    <3> QED
      BY <2>3, <3>1, <3>2
  <2>5. /\ worker = "checkConnected" /\ state = "CONNECTED" => worker' = "dropConnected"
        /\ worker = "checkConnected" /\ state = "CONNECTING" => worker' = "checkConnecting"
        /\ worker = "checkConnecting" /\ state = "CONNECTING" => worker' = "dropConnecting"
        /\ worker \in {"checkConnected", "checkConnecting"}
    BY <1>5 DEF RunCheck, Tested
  <2>6. Unheard' => Unheard
    BY <1>1, <2>1, <2>4, <2>5 DEF Unheard
  <2>7. Unheard => /\ \A k \in 1..Len(posted) : posted[k].sig # "message"
                   /\ closing = 0 /\ Owner \in conn /\ compose
                   /\ \A i \in Nat \ {0} : CloseLoop(i) \notin quit
                   /\ \/ state = "CONNECTED" /\ worker' = "dropConnected"
                      \/ state = "CONNECTING" /\ worker' \in {"checkConnecting", "dropConnecting"}
    BY <2>5 DEF Noticed, Drops
  <2>8. Unheard => \A k \in 1..Len(posted') : posted'[k].sig = "message" => worker' \in Drops
    <3>1. posted' = posted \/ worker' \in Drops
      BY <1>0, <2>3
    <3> QED
      BY <2>7, <3>1
  <2> QED
    BY <1>1, <2>1, <2>6, <2>7, <2>8 DEF Noticed
<1>6. CASE RunExit
  <2>1. worker = "exit" /\ opening' = opening
        /\ posted' = posted \o Emit("finished", conn \ {Owner})
    BY <1>6 DEF RunExit, calls
  <2>2. Emit("finished", conn \ {Owner}) \in Seq(Signal)
    BY <1>0, TellOwner, Emitted
  <2>3. Warned(posted) => Warned(posted')
    BY <1>0, <2>1, <2>2, WarnAppend
  <2>4. Unheard' => Unheard
    BY <1>1, <2>1, <2>3 DEF Unheard
  <2>5. ~Unheard
    BY <2>1 DEF Noticed, Drops
  <2> QED
    BY <2>4, <2>5 DEF Noticed
<1> QED
  BY <1>2, <1>3, <1>4, <1>5, <1>6

LEMMA StateNotices ==
  ASSUME Typed, Unanswered, Noticed, RunAuthFailed \/ RunDrop \/ AgentRead \/ RunInitialized
  PROVE  Noticed'
<1>0. conn \subseteq Nat /\ posted \in Seq(Signal) /\ <<>> \in Seq(Signal)
  BY DEF Typed, TypeOK
<1>1. UNCHANGED <<conn, quit, clicks, told, opened, opening, closing, compose>>
  BY DEF RunAuthFailed, RunDrop, AgentRead, RunInitialized, calls, history, thread
<1>2. CASE RunAuthFailed
  <2>1. SetState("VPNERROR", ErrorMessage) /\ worker = "authFailed"
    BY <1>2 DEF RunAuthFailed
  <2>2. ErrorMessage \in Seq(Signal)
    BY <1>0, ErrorMessageTells
  <2> QED
    BY <1>1, <2>1, <2>2, ErrorNotices
<1>3. CASE RunDrop
  <2>1. SetState("VPNERROR", <<>>) /\ worker \in {"dropConnected", "dropConnecting"}
    BY <1>3 DEF RunDrop
  <2> QED
    BY <1>0, <1>1, <2>1, ErrorNotices
<1>4. CASE AgentRead
  <2>1. worker' = worker /\ worker # "none"
    BY <1>4 DEF AgentRead, thread, Unanswered
  <2>2. CASE mgmtDown /\ Owner \in conn
    <3>1. SetState("VPNERROR", <<>>)
      BY <1>4, <2>2 DEF AgentRead
    <3>2. CASE worker # "crashed"
      BY <1>0, <1>1, <2>1, <3>1, <3>2, ErrorNotices
    <3>3. CASE worker = "crashed"
      BY <2>1, <3>3 DEF Noticed, Unheard
    <3> QED
      BY <3>2, <3>3
  <2>3. CASE ~(mgmtDown /\ Owner \in conn)
    <3>1. UNCHANGED <<state, posted>>
      BY <1>4, <2>3 DEF AgentRead
    <3>2. Unheard' => Unheard
      BY <1>1, <2>1, <3>1 DEF Unheard
    <3> QED
      BY <1>1, <2>1, <3>1, <3>2, NoticedKept
  <2> QED
    BY <2>2, <2>3
<1>5. CASE RunInitialized
  <2>1. /\ worker = "initialized" /\ worker' = "poll" /\ SetState("CONNECTED", <<>>)
        /\ state' = "CONNECTED"
    BY <1>5 DEF RunInitialized, SetState
  <2>2. Warned(posted) => Warned(posted')
    BY <1>0, <2>1, StaysWarned
  <2>3. Unheard' => Unheard
    BY <1>1, <2>1, <2>2 DEF Unheard
  <2>4. Unheard => /\ \A k \in 1..Len(posted) : posted[k].sig # "message"
                   /\ closing = 0 /\ Owner \in conn /\ compose
                   /\ \A i \in Nat \ {0} : CloseLoop(i) \notin quit
    BY <2>1 DEF Noticed, Drops
  <2>5. ASSUME \A k \in 1..Len(posted) : posted[k].sig # "message"
        PROVE  \A k \in 1..Len(posted') : posted'[k].sig # "message"
    <3> DEFINE c == [sig |-> "connected", to |-> conn \cap {OpenLoop}]
    <3>1. c \in Signal /\ c.sig # "message"
      BY DEF Signal, OpenLoop
    <3>2. posted' = posted \o <<>> \o <<>> \/ posted' = posted \o <<>> \o <<c>>
      BY <2>1 DEF SetState, Emit
    <3> HIDE DEF c
    <3>3. posted' = posted \/ posted' = Append(posted, c)
      BY <1>0, <3>1, <3>2
    <3>4. CASE posted' = posted
      BY <2>5, <3>4
    <3>5. CASE posted' = Append(posted, c)
      BY <1>0, <2>5, <3>1, <3>5
    <3> QED
      BY <3>3, <3>4, <3>5
  <2> QED
    BY <1>1, <2>1, <2>3, <2>4, <2>5 DEF Noticed
<1> QED
  BY <1>2, <1>3, <1>4, <1>5

LEMMA NoticedStep ==
  ASSUME IInv, Unanswered, Looks, Ends, Unused, Noticed, [Next]_vars
  PROVE  Noticed'
BY QuietNotices, HeardNotices, OpenNotices, DeliverNotices, RunNotices, StateNotices
   DEF IInv, Next, GuiSteps, Run, Agent

EInv == IInv /\ Unanswered /\ Looks /\ Honest /\ Ends /\ Unused /\ Noticed

\* EndTold: a connection that is lost without the user asking is reported to
\* Obhod123::onStateChanged, and the client is left in a state that says so.  The [ERROR]
\* message that comes before the error can close the client first; the worker then finds
\* the receivers still connected, since no close() returns before the worker is done
\* (Ends), and posts the error (Noticed).
THEOREM EndIsTold == Spec => []EndTold
<1>1. Init => EInv
  <2> SUFFICES ASSUME Init PROVE EInv
    OBVIOUS
  <2>1. Unanswered /\ Looks /\ Honest /\ Unused /\ Noticed
    BY DEF Init, Unanswered, Looks, Honest, Unused, Noticed, Unheard
  <2>2. Ends
    BY DEF Init, Ends, AllTell
  <2> QED
    BY <2>1, <2>2, InitIInv DEF EInv
<1>2. EInv /\ [Next]_vars => EInv'
  <2> SUFFICES ASSUME EInv, [Next]_vars PROVE EInv'
    OBVIOUS
  <2>1. IInv /\ Typed /\ Once /\ Stop /\ Quits
    BY DEF EInv, IInv
  <2>2. IInv'
    BY <2>1, StepIInv
  <2>3. Unanswered'
    BY <2>1, StepImplements DEF EInv, Implements
  <2>4. Looks' /\ Honest' /\ Ends' /\ Unused' /\ Noticed'
    BY <2>1, LooksKept, HonestKept, EndsKept, UnusedKept, NoticedStep DEF EInv
  <2> QED
    BY <2>2, <2>3, <2>4 DEF EInv
<1>3. EInv => EndTold
  <2> SUFFICES ASSUME EInv, AtRest, worker = "done"
               PROVE  /\ opened = "true" /\ clicks = 0 => told
                      /\ closed # "forced" => state \in {"DISCONNECTED", "VPNERROR"}
    BY DEF EndTold
  <2>1. closing = 0 /\ opening = "idle" /\ posted = <<>>
    BY DEF AtRest
  <2>2. ~Warned(posted)
    BY <2>1 DEF Warned
  <2>3. opened = "true" /\ clicks = 0 => told
    BY <2>1, <2>2 DEF EInv, Noticed, Unheard, Drops
  <2>4. closed # "forced" => state \in {"DISCONNECTED", "VPNERROR"}
    BY <2>1 DEF EInv, Honest, IInv, Typed, TypeOK, State
  <2> QED
    BY <2>3, <2>4
<1> QED
  BY <1>1, <1>2, <1>3, PTL DEF Spec

=============================================================================
