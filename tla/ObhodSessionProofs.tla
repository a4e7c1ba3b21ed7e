-------------------------- MODULE ObhodSessionProofs --------------------------
(***************************************************************************)
(* Proofs about module ObhodSession, for any number of clients, any depth  *)
(* of calls of onConnect inside one another and any number of timers: the  *)
(* state stays of its type; a client at rest is nobody's or will be told   *)
(* of; what the window shows is the client's state; a cancel is kept; a    *)
(* dropped connection is tried again; the routes go with it; and a cancel  *)
(* stops the retries.                                                      *)
(*                                                                         *)
(* The properties speak of sessions without an onConnect at work inside    *)
(* another call (missed = "none"), and so does the inductive invariant     *)
(* Core: then only the outermost call attempts, the calls above it are     *)
(* handlers about the client of now, and the client's phase, its state and *)
(* the status shown go together with the stage of that one attempt.        *)
(***************************************************************************)
EXTENDS ObhodSession, TLAPS


-----------------------------------------------------------------------------
(* The stack of calls *)

\* The calls that are not inside a client's member function.
Waits == {"download", "settle", "pause", "retry", "gaveUp"}

\* A call, of whatever kind and client.
Call == [at : Attempts \cup Closers, client : Clients \cup {Nobody}, slow : BOOLEAN]

\* A call names a client just when it is inside a member function of it.
Paired(f) == f.client = Nobody <=> f.at \in Waits

IsStack(s) == s \in Seq(Call) /\ \A i \in DOMAIN s : Paired(s[i])

\* How far the outermost onConnect is, if there is one.
StageOf(s) == IF s # <<>> /\ s[1].at \in Attempts THEN s[1].at ELSE "idle"
Stage == StageOf(stack)

\* A close() waits, one of a handler that clears the routes after it.
ClosingIn(s)  == \E i \in DOMAIN s : s[i].at \in Closers
ClearingIn(s) == \E i \in DOMAIN s : Clears(s[i].at)

\* Nothing but handlers is above the outermost call, and every call is about client c.
Shape(s)  == \A i \in DOMAIN s : i > 1 => s[i].at \in Closers
Own(s, c) == \A i \in DOMAIN s : s[i].client \in {c, Nobody}

\* A new call is one of the kind and client it is made for.
LEMMA FrameTyped ==
  ASSUME NEW at \in Attempts \cup Closers, NEW c \in Clients \cup {Nobody},
         c = Nobody <=> at \in Waits
  PROVE  /\ Frame(at, c) \in Call /\ Paired(Frame(at, c))
         /\ Frame(at, c).at = at /\ Frame(at, c).client = c
BY DEF Frame, Call, Paired

\* The calls below a new one stay what they are.
LEMMA MarkTyped ==
  ASSUME NEW f \in Call, NEW b \in BOOLEAN
  PROVE  LET g == [f EXCEPT !.slow = b] IN
         g \in Call /\ g.at = f.at /\ g.client = f.client
BY DEF Call

\* What a push leaves on the stack.
LEMMA PushTyped ==
  ASSUME NEW s, IsStack(s), NEW f \in Call, Paired(f)
  PROVE  LET t == Push(s, f) IN
         /\ IsStack(t) /\ t # <<>> /\ Len(t) = Len(s) + 1 /\ t[Len(t)] = f
         /\ \A i \in 1..Len(s) : t[i].at = s[i].at /\ t[i].client = s[i].client
<1> DEFINE m == [i \in DOMAIN s |-> [s[i] EXCEPT !.slow = s[i].at = "open"]]
<1>1. s \in Seq(Call) /\ DOMAIN s = 1..Len(s) /\ Len(s) \in Nat
      /\ \A i \in 1..Len(s) : s[i] \in Call /\ Paired(s[i])
  BY DEF IsStack
<1>2. \A i \in 1..Len(s) : m[i] \in Call /\ m[i].at = s[i].at /\ m[i].client = s[i].client
  <2>1. TAKE i \in 1..Len(s)
  <2>2. m[i] = [s[i] EXCEPT !.slow = s[i].at = "open"]
    BY <1>1
  <2>3. (s[i].at = "open") \in BOOLEAN /\ s[i] \in Call
    BY <1>1
  <2> DEFINE g == s[i]  b == (s[i].at = "open")
  <2>4. g \in Call /\ b \in BOOLEAN
    BY <2>3
  <2>5. m[i] = [g EXCEPT !.slow = b]
    BY <2>2
  <2> HIDE DEF g, b
  <2>6. /\ [g EXCEPT !.slow = b] \in Call /\ [g EXCEPT !.slow = b].at = g.at
        /\ [g EXCEPT !.slow = b].client = g.client
    BY <2>4, MarkTyped
  <2> USE DEF g
  <2>. QED  BY <2>5, <2>6
<1>3. m \in Seq(Call) /\ Len(m) = Len(s)
  <2>1. m \in [1..Len(s) -> Call]
    BY <1>1, <1>2
  <2>. QED  BY <2>1, <1>1
<1>4. Push(s, f) = Append(m, f)
  BY DEF Push
<1>5. \A i \in 1..Len(s) : Paired(m[i])
  BY <1>1, <1>2 DEF Paired
<1> HIDE DEF m
<1> DEFINE t == Append(m, f)
<1>6. /\ t \in Seq(Call) /\ Len(t) = Len(s) + 1 /\ t[Len(s) + 1] = f /\ DOMAIN t = 1..(Len(s) + 1)
      /\ \A i \in 1..Len(s) : t[i] = m[i]
  BY <1>3, <1>1
<1>7. \A i \in DOMAIN t : Paired(t[i])
  <2>1. TAKE i \in DOMAIN t
  <2>2. i \in 1..Len(s) \/ i = Len(s) + 1
    BY <1>6, <1>1
  <2>. QED  BY <2>2, <1>5, <1>6
<1>8. t # <<>>
  BY <1>6, <1>1
<1>. QED  BY <1>2, <1>4, <1>6, <1>7, <1>8 DEF IsStack

\* A handler's call on the stack.
LEMMA PushViews ==
  ASSUME NEW s, IsStack(s), NEW f \in Call, Paired(f), f.at \in Closers
  PROVE  LET t == Push(s, f) IN
         /\ StageOf(t) = StageOf(s) /\ ClosingIn(t)
         /\ ClearingIn(t) <=> ClearingIn(s) \/ Clears(f.at)
         /\ Shape(s) => Shape(t)
         /\ \A c : Own(s, c) /\ f.client = c => Own(t, c)
<1> DEFINE t == Push(s, f)
<1>1. /\ t # <<>> /\ Len(t) = Len(s) + 1 /\ t[Len(s) + 1] = f /\ Len(s) \in Nat
      /\ \A i \in 1..Len(s) : t[i].at = s[i].at /\ t[i].client = s[i].client
      /\ DOMAIN t = 1..(Len(s) + 1) /\ DOMAIN s = 1..Len(s)
  BY PushTyped DEF IsStack
<1> HIDE DEF t
<1>2. \A i \in DOMAIN t : i \in 1..Len(s) \/ i = Len(s) + 1
  BY <1>1
<1>2a. Len(s) + 1 \in DOMAIN t /\ \A i \in 1..Len(s) : i \in DOMAIN t
  BY <1>1
<1>3. StageOf(t) = StageOf(s)
  <2>1. CASE s = <<>>
    <3>1. t[1] = f
      BY <1>1, <2>1
    <3>2. f.at \notin Attempts
      BY DEF Attempts, Closers
    <3>. QED  BY <2>1, <3>1, <3>2 DEF StageOf
  <2>2. CASE s # <<>>
    <3>1. 1 \in 1..Len(s)
      BY <2>2, <1>1 DEF IsStack
    <3>2. t[1].at = s[1].at
      BY <1>1, <3>1
    <3>. QED  BY <1>1, <2>2, <3>2 DEF StageOf
  <2>. QED  BY <2>1, <2>2
<1>4. ClosingIn(t)
  BY <1>1, <1>2a DEF ClosingIn
<1>5. ClearingIn(t) <=> ClearingIn(s) \/ Clears(f.at)
  BY <1>1, <1>2, <1>2a DEF ClearingIn
<1>6. Shape(s) => Shape(t)
  BY <1>1, <1>2 DEF Shape
<1>7. \A c : Own(s, c) /\ f.client = c => Own(t, c)
  BY <1>1, <1>2 DEF Own
<1>. QED  BY <1>3, <1>4, <1>5, <1>6, <1>7 DEF t

\* The innermost call and those below it.
LEMMA TopTyped ==
  ASSUME IsStack(stack), stack # <<>>
  PROVE  /\ Top \in Call /\ Paired(Top) /\ IsStack(Rest)
         /\ Len(stack) \in Nat \ {0} /\ Len(Rest) = Len(stack) - 1
         /\ \A i \in 1..Len(Rest) : Rest[i] = stack[i]
<1>1. /\ stack \in Seq(Call) /\ Len(stack) \in Nat \ {0} /\ DOMAIN stack = 1..Len(stack)
      /\ \A i \in 1..Len(stack) : stack[i] \in Call /\ Paired(stack[i])
  BY DEF IsStack
<1>2. Top \in Call /\ Paired(Top)
  <2>1. Len(stack) \in 1..Len(stack)
    BY <1>1
  <2>. QED  BY <1>1, <2>1 DEF Top
<1>3. /\ Rest \in Seq(Call) /\ Len(Rest) = Len(stack) - 1
      /\ \A i \in 1..Len(Rest) : Rest[i] = stack[i]
  BY <1>1 DEF Rest
<1>4. \A i \in DOMAIN Rest : Paired(Rest[i])
  <2>1. DOMAIN Rest = 1..Len(Rest) /\ \A i \in 1..Len(Rest) : i \in 1..Len(stack)
    BY <1>1, <1>3
  <2>. QED  BY <1>1, <1>3, <2>1
<1>. QED  BY <1>1, <1>2, <1>3, <1>4 DEF IsStack

\* The innermost onConnect goes on: its call is replaced.
LEMMA AppendTyped ==
  ASSUME NEW s, IsStack(s), NEW f \in Call, Paired(f)
  PROVE  /\ IsStack(Append(s, f)) /\ Append(s, f) # <<>>
         /\ s = <<>> => Append(s, f) = <<f>>
<1>1. s \in Seq(Call) /\ Len(s) \in Nat /\ DOMAIN s = 1..Len(s)
      /\ \A i \in 1..Len(s) : Paired(s[i])
  BY DEF IsStack
<1> DEFINE t == Append(s, f)
<1>2. /\ t \in Seq(Call) /\ DOMAIN t = 1..(Len(s) + 1) /\ t[Len(s) + 1] = f
      /\ \A i \in 1..Len(s) : t[i] = s[i]
  BY <1>1
<1>3. \A i \in DOMAIN t : i \in 1..Len(s) \/ i = Len(s) + 1
  BY <1>1, <1>2
<1>4. IsStack(t)
  BY <1>1, <1>2, <1>3 DEF IsStack
<1>5. t # <<>>
  BY <1>2, <1>1
<1>6. s = <<>> => t = <<f>>
  BY <1>1
<1>. QED  BY <1>4, <1>5, <1>6

\* The outermost onConnect and the closes, of what CloseReturn leaves.
LEMMA PopViews ==
  ASSUME IsStack(stack), stack # <<>>, Top.at \in Closers
  PROVE  /\ StageOf(Rest) = StageOf(stack)
         /\ ClearingIn(stack) <=> ClearingIn(Rest) \/ Clears(Top.at)
         /\ Shape(stack) => Shape(Rest)
         /\ \A c : Own(stack, c) => Own(Rest, c)
<1>1. /\ Len(stack) \in Nat \ {0} /\ Len(Rest) = Len(stack) - 1 /\ DOMAIN stack = 1..Len(stack)
      /\ DOMAIN Rest = 1..Len(Rest)
      /\ \A i \in 1..Len(Rest) : Rest[i] = stack[i]
  BY TopTyped DEF IsStack
<1>2. /\ \A i \in DOMAIN Rest : i \in DOMAIN stack
      /\ \A i \in DOMAIN stack : i \in DOMAIN Rest \/ i = Len(stack)
      /\ Len(stack) \in DOMAIN stack
  BY <1>1
<1>3. StageOf(Rest) = StageOf(stack)
  <2>1. CASE Rest = <<>>
    <3>1. Len(stack) = 1
      BY <1>1, <2>1
    <3>2. stack[1].at \notin Attempts
      BY <3>1 DEF Top, Attempts, Closers
    <3>. QED  BY <2>1, <3>2 DEF StageOf
  <2>2. CASE Rest # <<>>
    <3>1. 1 \in 1..Len(Rest)
      BY <2>2, <1>1, TopTyped DEF IsStack
    <3>. QED  BY <1>1, <2>2, <3>1 DEF StageOf
  <2>. QED  BY <2>1, <2>2
<1>4. ClearingIn(stack) <=> ClearingIn(Rest) \/ Clears(Top.at)
  BY <1>1, <1>2 DEF ClearingIn, Top
<1>5. Shape(stack) => Shape(Rest)
  BY <1>1, <1>2 DEF Shape
<1>6. \A c : Own(stack, c) => Own(Rest, c)
  BY <1>1, <1>2 DEF Own
<1>. QED  BY <1>3, <1>4, <1>5, <1>6

\* When the innermost call is an onConnect, it is the only one.
LEMMA AloneViews ==
  ASSUME IsStack(stack), stack # <<>>, Top.at \in Attempts, Shape(stack)
  PROVE  /\ Rest = <<>> /\ Stage = Top.at /\ ~ClosingIn(stack) /\ ~ClearingIn(stack)
<1>1. Len(stack) \in Nat \ {0} /\ DOMAIN stack = 1..Len(stack) /\ Len(Rest) = Len(stack) - 1
  BY TopTyped DEF IsStack
<1>2. Len(stack) = 1
  <2>1. Len(stack) \in DOMAIN stack
    BY <1>1
  <2>2. Top.at \notin Closers
    BY DEF Attempts, Closers
  <2>3. ~(Len(stack) > 1)
    BY <2>1, <2>2 DEF Shape, Top
  <2>. QED  BY <1>1, <2>3
<1>3. Top = stack[1]
  BY <1>2 DEF Top
<1>4. Rest = <<>>
  BY <1>1, <1>2, TopTyped DEF IsStack
<1>5. DOMAIN stack = {1}
  BY <1>1, <1>2
<1>6. Top.at \notin Closers /\ ~Clears(Top.at)
  BY DEF Attempts, Closers, Clears
<1>. QED  BY <1>3, <1>4, <1>5, <1>6 DEF Stage, StageOf, ClosingIn, ClearingIn

\* A stack of one call, and the empty one.
LEMMA OneViews ==
  ASSUME NEW f \in Call, Paired(f)
  PROVE  /\ IsStack(<<f>>) /\ <<f>> # <<>> /\ Shape(<<f>>)
         /\ f.at \in Attempts => /\ StageOf(<<f>>) = f.at
                                 /\ ~ClosingIn(<<f>>) /\ ~ClearingIn(<<f>>)
         /\ \A c : f.client \in {c, Nobody} => Own(<<f>>, c)
<1>1. <<f>> \in Seq(Call) /\ DOMAIN <<f>> = {1} /\ <<f>>[1] = f /\ <<f>> # <<>>
  OBVIOUS
<1>2. f.at \in Attempts => f.at \notin Closers /\ ~Clears(f.at)
  BY DEF Attempts, Closers, Clears
<1> DEFINE t == <<f>>
<1>3. t \in Seq(Call) /\ DOMAIN t = {1} /\ t[1] = f /\ t # <<>>
  BY <1>1
<1> HIDE DEF t
<1>4. IsStack(t) /\ Shape(t)
  BY <1>3 DEF IsStack, Shape
<1>5. f.at \in Attempts => StageOf(t) = f.at /\ ~ClosingIn(t) /\ ~ClearingIn(t)
  BY <1>2, <1>3 DEF StageOf, ClosingIn, ClearingIn
<1>6. \A c : f.client \in {c, Nobody} => Own(t, c)
  BY <1>3 DEF Own
<1> USE DEF t
<1>. QED  BY <1>3, <1>4, <1>5, <1>6

LEMMA NoneViews ==
  /\ IsStack(<<>>) /\ StageOf(<<>>) = "idle" /\ ~ClosingIn(<<>>) /\ ~ClearingIn(<<>>)
  /\ Shape(<<>>) /\ \A c : Own(<<>>, c)
  /\ \A f : Push(<<>>, f) = <<f>>
<1>1. <<>> \in Seq(Call) /\ DOMAIN <<>> = {}
  OBVIOUS
<1>2. \A f : Push(<<>>, f) = <<f>>
  <2>1. TAKE f
  <2>2. [i \in DOMAIN <<>> |-> [<<>>[i] EXCEPT !.slow = <<>>[i].at = "open"]] = <<>>
    OBVIOUS
  <2>3. Push(<<>>, f) = Append(<<>>, f)
    BY <2>2 DEF Push
  <2>. QED  BY <2>3
<1>. QED  BY <1>1, <1>2 DEF IsStack, StageOf, ClosingIn, ClearingIn, Shape, Own
-----------------------------------------------------------------------------
(* Types *)

States    == {"DISCONNECTED", "DISCONNECTING", "CONNECTING", "CONNECTED", "VPNERROR"}
Phases    == {"none", "trying", "up", "rejected", "dropped"}
Kinds     == {"message", "error"}
Signal    == [client : Clients, sig : Kinds]
Statuses  == {"Disconnected", "Disconnecting", "Connecting", "Connected", "Canceling"}
RouteSet  == {"none", "in", "stale"}
MissedSet == {"nothing", "cancel", "drop", "connect", "retry"}

\* TypeOK, in the terms of the lemmas.
ClientsTyped == /\ vpn \in Clients
                /\ state \in [Clients -> States] /\ phase \in [Clients -> Phases]
                /\ hears \in [Clients -> SUBSET Kinds] /\ posted \in Seq(Signal)
FlagsTyped   == /\ status \in Statuses /\ cancelAuto \in BOOLEAN /\ autoInProgress \in BOOLEAN
                /\ lastAction \in {"Connect", "Disconnect", "CancelConnect"}
ExitTyped    == needExit \in BOOLEAN /\ quitting \in BOOLEAN
TimersTyped  == reconnects \in 0..MaxTimers /\ routeTimers \in Nat /\ routes \in RouteSet
HistoryTyped == nested \in BOOLEAN /\ missed \in MissedSet

Typed == ClientsTyped /\ FlagsTyped /\ ExitTyped /\ TimersTyped /\ HistoryTyped /\ IsStack(stack)

LEMMA TypedIsTypeOK == Typed <=> TypeOK
BY DEF Typed, TypeOK, ClientsTyped, FlagsTyped, ExitTyped, TimersTyped, HistoryTyped, IsStack,
     Call, Paired, Waits, States, Phases, Kinds, Signal, Statuses, RouteSet, MissedSet

LEMMA InitTyped == Init => Typed
<1>1. Frame("download", Nobody) \in Call /\ Paired(Frame("download", Nobody))
  BY FrameTyped DEF Attempts, Waits
<1>2. IsStack(<<Frame("download", Nobody)>>)
  BY <1>1, OneViews
<1>3. <<>> \in Seq(Signal)
  OBVIOUS
<1>4. MaxTimers \in Nat
  BY SessionAssumption
<1>5. Init => ClientsTyped
  <2>1. \A c \in Clients : Kinds \in SUBSET Kinds
    OBVIOUS
  <2>. QED  BY <1>3, <2>1 DEF Init, ClientsTyped, States, Phases, Kinds
<1>6. Init => FlagsTyped /\ ExitTyped /\ HistoryTyped
  BY DEF Init, FlagsTyped, ExitTyped, HistoryTyped, Statuses, MissedSet
<1>7. Init => TimersTyped
  BY <1>4 DEF Init, TimersTyped, RouteSet
<1>8. Init => IsStack(stack)
  BY <1>2 DEF Init
<1>. QED  BY <1>5, <1>6, <1>7, <1>8 DEF Typed

\* The onConnect that goes on.
LEMMA GotoTyped ==
  ASSUME IsStack(stack), stack # <<>>, NEW at \in {"gaveUp", "pause", "settle"}
  PROVE  /\ IsStack(Goto(at))
         /\ Rest = <<>> => /\ StageOf(Goto(at)) = at /\ Shape(Goto(at))
                           /\ ~ClosingIn(Goto(at)) /\ ~ClearingIn(Goto(at))
                           /\ \A c : Own(Goto(at), c)
<1>1. /\ Frame(at, Nobody) \in Call /\ Paired(Frame(at, Nobody)) /\ Frame(at, Nobody).at = at
      /\ at \in Attempts /\ Frame(at, Nobody).client = Nobody
  BY FrameTyped DEF Attempts, Waits
<1> DEFINE f == Frame(at, Nobody)
<1>2. IsStack(Rest) /\ f \in Call /\ Paired(f) /\ f.at = at /\ f.client = Nobody
  BY <1>1, TopTyped
<1>3. Goto(at) = Append(Rest, f)
  BY DEF Goto
<1> HIDE DEF f
<1>4. IsStack(Goto(at))
  BY <1>2, <1>3, AppendTyped
<1>5. ASSUME Rest = <<>>
      PROVE  /\ StageOf(Goto(at)) = at /\ Shape(Goto(at))
             /\ ~ClosingIn(Goto(at)) /\ ~ClearingIn(Goto(at))
             /\ \A c : Own(Goto(at), c)
  <2>1. Goto(at) = <<f>>
    BY <1>2, <1>3, <1>5, AppendTyped
  <2>. QED  BY <1>1, <1>2, <2>1, OneViews
<1>. QED  BY <1>4, <1>5

\* A handler, whatever it finds.
LEMMA HandleTyped ==
  ASSUME Typed, NEW h \in Closers, NEW st \in [Clients -> States], NEW s, IsStack(s),
         Handle(h, st, s)
  PROVE  /\ state' \in [Clients -> States] /\ status' \in Statuses
         /\ IsStack(stack') /\ routes' \in RouteSet
<1>1. /\ vpn \in Clients /\ status \in Statuses /\ routes \in RouteSet
  BY DEF Typed, ClientsTyped, FlagsTyped, TimersTyped
<1>2. CASE CanClose(st, vpn)
  <2>1. Frame(h, vpn) \in Call /\ Paired(Frame(h, vpn))
    BY <1>1, FrameTyped, SessionAssumption DEF Closers, Waits
  <2>2. IsStack(Push(s, Frame(h, vpn)))
    BY <2>1, PushTyped
  <2>3. Entering(h) \in Statuses
    BY <1>1 DEF Entering, Closers, Statuses
  <2>4. [st EXCEPT ![vpn] = "DISCONNECTING"] \in [Clients -> States]
    BY <1>1 DEF States
  <2>. QED  BY <1>1, <1>2, <2>2, <2>3, <2>4 DEF Handle
<1>3. CASE ~CanClose(st, vpn)
  BY <1>1, <1>3 DEF Handle, Statuses, RouteSet
<1>. QED  BY <1>2, <1>3

\* The head of the loop of onConnectAuto.
LEMMA LoopTyped ==
  ASSUME Typed, NEW s, IsStack(s), NEW k \in BOOLEAN, NEW heard \in [Clients -> SUBSET Kinds],
         Loop(s, k, heard)
  PROVE  /\ vpn' \in Clients /\ state' \in [Clients -> States] /\ phase' = phase
         /\ hears' \in [Clients -> SUBSET Kinds] /\ IsStack(stack') /\ autoInProgress' \in BOOLEAN
<1>1. /\ vpn \in Clients /\ state \in [Clients -> States] /\ hears \in [Clients -> SUBSET Kinds]
  BY DEF Typed, ClientsTyped
<1>2. \A at \in {"download", "retry"} : IsStack(Push(s, Frame(at, Nobody)))
  <2>1. TAKE at \in {"download", "retry"}
  <2>2. Frame(at, Nobody) \in Call /\ Paired(Frame(at, Nobody))
    BY FrameTyped DEF Attempts, Waits
  <2>. QED  BY <2>2, PushTyped
<1>3. CASE k \/ status \in Ends
  BY <1>1, <1>2, <1>3 DEF Loop, Kinds
<1>4. CASE ~(k \/ status \in Ends)
  BY <1>1, <1>2, <1>4 DEF Loop, Kinds, States
<1>. QED  BY <1>3, <1>4

\* The whole of onConnectAuto.
LEMMA AutoTyped ==
  ASSUME Typed, NEW s, IsStack(s), ConnectAuto(s)
  PROVE  /\ vpn' \in Clients /\ state' \in [Clients -> States] /\ phase' = phase
         /\ hears' \in [Clients -> SUBSET Kinds] /\ IsStack(stack')
         /\ autoInProgress' \in BOOLEAN /\ cancelAuto' \in BOOLEAN
<1>1. CASE status = "Connected"
  BY <1>1 DEF ConnectAuto, Typed, ClientsTyped, FlagsTyped
<1>2. CASE status # "Connected"
  <2>1. [hears EXCEPT ![vpn] = @ \ {"message"}] \in [Clients -> SUBSET Kinds]
    BY DEF Typed, ClientsTyped
  <2>. QED  BY <1>2, <2>1, LoopTyped DEF ConnectAuto
<1>. QED  BY <1>1, <1>2

\* An error that is reported.
LEMMA ErrorTyped ==
  ASSUME Typed, NEW st \in [Clients -> States], NEW s, IsStack(s), Error(st, s)
  PROVE  /\ state' \in [Clients -> States] /\ status' \in Statuses
         /\ IsStack(stack') /\ routes' \in RouteSet
         /\ reconnects' \in 0..MaxTimers /\ missed' \in MissedSet
<1>1. "error" \in Closers
  BY DEF Closers
<1>2. reconnects' \in 0..MaxTimers
  BY SessionAssumption DEF Error, Typed, TimersTyped
<1>3. missed' \in MissedSet
  BY DEF Error, Typed, HistoryTyped, MissedSet
<1>. QED  BY <1>1, <1>2, <1>3, HandleTyped DEF Error

\* Posted signals.
LEMMA EmitTyped ==
  ASSUME Typed, NEW c \in Clients, NEW sig \in Kinds
  PROVE  Emit(c, sig) \in Seq(Signal)
<1> DEFINE e == [client |-> c, sig |-> sig]
<1>1. e \in Signal
  BY DEF Signal
<1>2. Emit(c, sig) = IF sig \in hears[c] THEN <<e>> ELSE <<>>
  BY DEF Emit
<1> HIDE DEF e
<1>3. <<>> \in Seq(Signal) /\ <<e>> \in Seq(Signal)
  BY <1>1
<1>. QED  BY <1>2, <1>3

LEMMA FailTyped ==
  ASSUME Typed, NEW c \in Clients, NEW before \in Seq(Signal), Fail(c, before)
  PROVE  state' \in [Clients -> States] /\ posted' \in Seq(Signal)
<1>1. Emit(c, "error") \in Seq(Signal)
  BY EmitTyped DEF Kinds
<1>2. posted \in Seq(Signal) /\ posted \o before \in Seq(Signal)
  BY DEF Typed, ClientsTyped
<1>3. posted' \in Seq(Signal)
  BY <1>1, <1>2 DEF Fail
<1>. QED  BY <1>3 DEF Fail, Typed, ClientsTyped, States

\* The calls that end or go on by themselves.
LEMMA CallsTyped ==
  ASSUME Typed, Calls
  PROVE  Typed'
<1>a. ASSUME stack # <<>>  PROVE Top \in Call /\ Paired(Top) /\ IsStack(Rest)
  BY <1>a, TopTyped DEF Typed
<1>b. ASSUME stack # <<>>, NEW at \in {"gaveUp", "pause", "settle"}  PROVE IsStack(Goto(at))
  BY <1>b, GotoTyped DEF Typed
<1> DEFINE Moved == /\ UNCHANGED <<vpn, hears, posted, cancelAuto, autoInProgress, exit, nested>>
                    /\ lastAction' = lastAction
<1>c. ASSUME Moved, state' \in [Clients -> States], phase' \in [Clients -> Phases],
             status' \in Statuses, IsStack(stack'), TimersTyped', missed' \in MissedSet
      PROVE  Typed'
  BY <1>c DEF Typed, ClientsTyped, FlagsTyped, ExitTyped, HistoryTyped, exit
<1>d. /\ state \in [Clients -> States] /\ phase \in [Clients -> Phases] /\ status \in Statuses
      /\ TimersTyped /\ missed \in MissedSet /\ vpn \in Clients /\ IsStack(stack)
      /\ hears \in [Clients -> SUBSET Kinds] /\ posted \in Seq(Signal) /\ ExitTyped
      /\ HistoryTyped /\ FlagsTyped /\ ClientsTyped
  BY DEF Typed, ClientsTyped, FlagsTyped, HistoryTyped
<1>e. /\ reconnects \in 0..MaxTimers /\ routeTimers \in Nat /\ routes \in RouteSet
  BY <1>d DEF TimersTyped
<1>1. CASE DownloadFails \/ OpenFalse \/ OpenGaveUp
  <2>1. stack # <<>> /\ stack' = Goto("pause") /\ status' \in Statuses
    BY <1>1, <1>d DEF DownloadFails, OpenFalse, OpenGaveUp, Statuses
  <2>2. Moved /\ state' = state /\ phase' = phase /\ missed' = missed /\ timers' = timers
    BY <1>1 DEF DownloadFails, OpenFalse, OpenGaveUp, clients, history
  <2>3. IsStack(stack')
    BY <2>1, <1>b
  <2>4. TimersTyped'
    BY <2>2, <1>d DEF timers, TimersTyped
  <2>. QED  BY <2>1, <2>2, <2>3, <2>4, <1>c, <1>d
<1>2. CASE Downloaded
  <2>1. Moved /\ timers' = timers /\ missed' \in MissedSet /\ stack # <<>>
    BY <1>2, <1>d DEF Downloaded, MissedSet, history
  <2>2. TimersTyped'
    BY <2>1, <1>d DEF timers, TimersTyped
  <2>3. CASE state[vpn] \in {"DISCONNECTED", "VPNERROR"}
    <3>1. /\ status' = "Connecting" /\ stack' = Append(Rest, Frame("open", vpn))
          /\ state' = [state EXCEPT ![vpn] = "CONNECTING"]
          /\ phase' = [phase EXCEPT ![vpn] = "trying"]
      BY <1>2, <2>3 DEF Downloaded
    <3>2. Frame("open", vpn) \in Call /\ Paired(Frame("open", vpn))
      BY <1>d, FrameTyped, SessionAssumption DEF Attempts, Waits
    <3>3. IsStack(stack')
      BY <3>1, <3>2, <1>a, <2>1, AppendTyped
    <3>4. state' \in [Clients -> States] /\ phase' \in [Clients -> Phases] /\ status' \in Statuses
      BY <3>1, <1>d DEF States, Phases, Statuses
    <3>. QED  BY <2>1, <2>2, <3>3, <3>4, <1>c
  <2>4. CASE state[vpn] \notin {"DISCONNECTED", "VPNERROR"}
    <3>1. /\ status' = "Disconnected" /\ stack' = Goto("pause") /\ state' = state /\ phase' = phase
      BY <1>2, <2>4 DEF Downloaded
    <3>2. IsStack(stack') /\ status' \in Statuses
      BY <3>1, <1>b, <2>1 DEF Statuses
    <3>. QED  BY <2>1, <2>2, <3>1, <3>2, <1>c, <1>d
  <2>. QED  BY <2>3, <2>4
<1>3. CASE OpenTrue
  <2>1. Moved /\ reconnects' = reconnects /\ missed' = missed /\ phase' = phase /\ stack # <<>>
    BY <1>3 DEF OpenTrue, history
  <2>2. CASE status \in Cancelled
    <3>1. Handle("undo", state, Goto("pause")) /\ routeTimers' = routeTimers
      BY <1>3, <2>2 DEF OpenTrue
    <3>2. IsStack(Goto("pause")) /\ "undo" \in Closers
      BY <2>1, <1>b DEF Closers
    <3>3. /\ state' \in [Clients -> States] /\ status' \in Statuses
          /\ IsStack(stack') /\ routes' \in RouteSet
      BY <3>1, <3>2, <1>d, HandleTyped
    <3>4. TimersTyped'
      BY <2>1, <3>1, <3>3, <1>e DEF TimersTyped
    <3>. QED  BY <2>1, <3>3, <3>4, <1>c, <1>d
  <2>3. CASE status \notin Cancelled
    <3>1. /\ status' = "Connected" /\ routeTimers' = routeTimers + 1
          /\ stack' = Goto("settle") /\ state' = state /\ routes' = routes
      BY <1>3, <2>3 DEF OpenTrue
    <3>2. IsStack(stack') /\ status' \in Statuses
      BY <3>1, <1>b, <2>1 DEF Statuses
    <3>3. TimersTyped'
      BY <2>1, <3>1, <1>e DEF TimersTyped
    <3>. QED  BY <2>1, <3>1, <3>2, <3>3, <1>c, <1>d
  <2>. QED  BY <2>2, <2>3
<1>4. CASE OpenLate
  <2>1. /\ Moved /\ reconnects' = reconnects /\ routeTimers' = routeTimers /\ missed' = missed
        /\ phase' = phase /\ stack # <<>> /\ Top.at = "open"
    BY <1>4 DEF OpenLate, history
  <2> DEFINE s == Append(Rest, Frame("late", Top.client))
  <2>2. Frame("late", Top.client) \in Call /\ Paired(Frame("late", Top.client))
    <3>1. Top.client \in Clients \cup {Nobody} /\ (Top.client = Nobody <=> Top.at \in Waits)
      BY <2>1, <1>a DEF Call, Paired
    <3>. QED  BY <3>1, <2>1, FrameTyped DEF Attempts, Waits
  <2>3. IsStack(s)
    BY <2>1, <2>2, <1>a, AppendTyped
  <2>4. \/ Handle("message", state, s)
        \/ stack' = s /\ state' = state /\ status' = status /\ routes' = routes
    BY <1>4 DEF OpenLate
  <2> HIDE DEF s
  <2>5. /\ state' \in [Clients -> States] /\ status' \in Statuses
        /\ IsStack(stack') /\ routes' \in RouteSet
    <3>1. CASE Handle("message", state, s)
      <4>1. "message" \in Closers
        BY DEF Closers
      <4>. QED  BY <3>1, <4>1, <2>3, <1>d, HandleTyped
    <3>2. CASE stack' = s /\ state' = state /\ status' = status /\ routes' = routes
      BY <3>2, <2>3, <1>d, <1>e
    <3>. QED  BY <3>1, <3>2, <2>4
  <2>6. TimersTyped'
    BY <2>1, <2>5, <1>e DEF TimersTyped
  <2>. QED  BY <2>1, <2>5, <2>6, <1>c, <1>d
<1>5. CASE OpenLateError
  <2>1. /\ Moved /\ routeTimers' = routeTimers /\ phase' = phase /\ stack # <<>>
    BY <1>5 DEF OpenLateError
  <2> DEFINE st == [state EXCEPT ![Top.client] = "VPNERROR"]
             s  == Goto("gaveUp")
  <2>2. st \in [Clients -> States] /\ IsStack(s)
    BY <2>1, <1>b, <1>d DEF States
  <2>3. \/ Error(st, s)
        \/ /\ state' = st /\ stack' = s /\ status' = status /\ routes' = routes
           /\ reconnects' = reconnects /\ missed' = missed
    BY <1>5 DEF OpenLateError
  <2> HIDE DEF st, s
  <2>4. /\ state' \in [Clients -> States] /\ status' \in Statuses
        /\ IsStack(stack') /\ routes' \in RouteSet
        /\ reconnects' \in 0..MaxTimers /\ missed' \in MissedSet
    <3>1. CASE Error(st, s)
      BY <3>1, <2>2, ErrorTyped
    <3>2. CASE /\ state' = st /\ stack' = s /\ status' = status /\ routes' = routes
               /\ reconnects' = reconnects /\ missed' = missed
      BY <3>2, <2>2, <1>d, <1>e
    <3>. QED  BY <3>1, <3>2, <2>3
  <2>5. TimersTyped'
    BY <2>1, <2>4, <1>e DEF TimersTyped
  <2>. QED  BY <2>1, <2>4, <2>5, <1>c, <1>d
<1>6. CASE PauseOver
  <2>1. /\ stack # <<>> /\ Loop(Rest, cancelAuto, hears)
        /\ UNCHANGED <<posted, status, cancelAuto, lastAction, exit, timers, history>>
    BY <1>6 DEF PauseOver
  <2>2. IsStack(Rest) /\ cancelAuto \in BOOLEAN
    BY <2>1, <1>a, <1>d DEF FlagsTyped
  <2>3. /\ vpn' \in Clients /\ state' \in [Clients -> States] /\ phase' = phase
        /\ hears' \in [Clients -> SUBSET Kinds] /\ IsStack(stack') /\ autoInProgress' \in BOOLEAN
    BY <2>1, <2>2, <1>d, LoopTyped
  <2>. QED  BY <2>1, <2>3, <1>d
       DEF Typed, ClientsTyped, FlagsTyped, ExitTyped, TimersTyped, HistoryTyped, exit, timers, history
<1>7. CASE SettleOver
  <2>1. /\ stack' = Rest /\ stack # <<>> /\ autoInProgress' = FALSE
        /\ UNCHANGED <<clients, status, cancelAuto, lastAction, exit, timers, history>>
    BY <1>7 DEF SettleOver
  <2>2. IsStack(stack')
    BY <2>1, <1>a
  <2>. QED  BY <2>1, <2>2, <1>d
       DEF Typed, ClientsTyped, FlagsTyped, ExitTyped, TimersTyped, HistoryTyped, clients, exit,
           timers, history
<1>8. CASE RetryOver
  <2>1. /\ UNCHANGED <<posted, status, lastAction, exit, timers, nested>>
        /\ stack # <<>> /\ missed' \in MissedSet
        /\ \/ stack' = Rest /\ UNCHANGED <<vpn, state, phase, hears, cancelAuto, autoInProgress>>
           \/ ConnectAuto(Rest)
    BY <1>8, <1>d DEF RetryOver, MissedSet
  <2>2. IsStack(Rest)
    BY <2>1, <1>a
  <2>3. /\ vpn' \in Clients /\ state' \in [Clients -> States] /\ phase' = phase
        /\ hears' \in [Clients -> SUBSET Kinds] /\ IsStack(stack')
        /\ autoInProgress' \in BOOLEAN /\ cancelAuto' \in BOOLEAN
    BY <2>1, <2>2, <1>d, AutoTyped DEF FlagsTyped
  <2>. QED  BY <2>1, <2>3, <1>d
       DEF Typed, ClientsTyped, FlagsTyped, ExitTyped, TimersTyped, HistoryTyped, exit, timers
<1>9. CASE CloseReturn
  <2>1. /\ stack # <<>> /\ stack' = Rest
        /\ phase' = [phase EXCEPT ![Top.client] = "none"]
        /\ state' = [state EXCEPT ![Top.client] = "DISCONNECTED"]
        /\ hears' = [hears EXCEPT ![Top.client] = {}]
        /\ status' = "Disconnected" /\ routes' \in {"none", routes}
        /\ UNCHANGED <<vpn, posted, cancelAuto, autoInProgress, lastAction, exit, reconnects,
                       routeTimers, history>>
    BY <1>9 DEF CloseReturn
  <2>2. IsStack(stack') /\ routes' \in RouteSet /\ status' \in Statuses
    BY <2>1, <1>a, <1>e DEF RouteSet, Statuses
  <2>3. /\ phase' \in [Clients -> Phases] /\ state' \in [Clients -> States]
        /\ hears' \in [Clients -> SUBSET Kinds]
    BY <2>1, <1>d DEF Phases, States
  <2>. QED  BY <2>1, <2>2, <2>3, <1>d
       DEF Typed, ClientsTyped, FlagsTyped, ExitTyped, TimersTyped, HistoryTyped, exit, history
<1>. QED  BY <1>1, <1>2, <1>3, <1>4, <1>5, <1>6, <1>7, <1>8, <1>9 DEF Calls

\* MainWindow::onConnect.
LEMMA MainTyped ==
  ASSUME Typed, MainConnect, reconnects' \in 0..MaxTimers
  PROVE  Typed'
<1>1. /\ UNCHANGED <<posted, status, exit, routeTimers, routes>>
      /\ lastAction' \in {lastAction, "Connect"}
      /\ \/ UNCHANGED <<vpn, state, phase, hears, cancelAuto, autoInProgress, stack, history>>
         \/ /\ ConnectAuto(stack) /\ nested' \in BOOLEAN
            /\ missed' = CASE stack' # stack -> "nothing"
                         [] stack' = stack /\ Closing -> "connect"
                         [] stack' = stack /\ ~Closing -> missed
  BY DEF MainConnect, Typed, HistoryTyped
<1>2. missed' \in MissedSet /\ nested' \in BOOLEAN
  BY <1>1 DEF Typed, HistoryTyped, MissedSet, history
<1>3. IsStack(stack)
  BY DEF Typed
<1>4. /\ vpn' \in Clients /\ state' \in [Clients -> States] /\ phase' = phase
      /\ hears' \in [Clients -> SUBSET Kinds] /\ IsStack(stack')
      /\ autoInProgress' \in BOOLEAN /\ cancelAuto' \in BOOLEAN
  BY <1>1, <1>3, AutoTyped DEF Typed, ClientsTyped, FlagsTyped
<1>. QED  BY <1>1, <1>2, <1>4
     DEF Typed, ClientsTyped, FlagsTyped, ExitTyped, TimersTyped, HistoryTyped, exit

\* The signals and the timers.
LEMMA EventsTyped ==
  ASSUME Typed, Events
  PROVE  Typed'
<1>d. /\ state \in [Clients -> States] /\ status \in Statuses /\ missed \in MissedSet
      /\ IsStack(stack) /\ posted \in Seq(Signal)
      /\ reconnects \in 0..MaxTimers /\ routeTimers \in Nat /\ routes \in RouteSet
  BY DEF Typed, ClientsTyped, FlagsTyped, HistoryTyped, TimersTyped
<1>1. CASE Deliver
  <2>1. /\ UNCHANGED <<vpn, phase, hears, cancelAuto, autoInProgress, lastAction, exit,
                       routeTimers, nested>>
        /\ posted # <<>> /\ posted' = Tail(posted)
        /\ \/ Error(state, stack)
           \/ /\ Handle("message", state, stack) /\ reconnects' = reconnects /\ missed' = missed
           \/ UNCHANGED <<state, status, stack, routes, reconnects, missed>>
    BY <1>1 DEF Deliver
  <2>2. posted' \in Seq(Signal)
    BY <2>1, <1>d
  <2>3. /\ state' \in [Clients -> States] /\ status' \in Statuses
        /\ IsStack(stack') /\ routes' \in RouteSet
        /\ reconnects' \in 0..MaxTimers /\ missed' \in MissedSet
    <3>1. CASE Error(state, stack)
      BY <3>1, <1>d, ErrorTyped
    <3>2. CASE Handle("message", state, stack) /\ reconnects' = reconnects /\ missed' = missed
      <4>1. "message" \in Closers
        BY DEF Closers
      <4>. QED  BY <3>2, <4>1, <1>d, HandleTyped
    <3>3. CASE UNCHANGED <<state, status, stack, routes, reconnects, missed>>
      BY <3>3, <1>d
    <3>. QED  BY <2>1, <3>1, <3>2, <3>3
  <2>. QED  BY <2>1, <2>2, <2>3
       DEF Typed, ClientsTyped, FlagsTyped, ExitTyped, TimersTyped, HistoryTyped, exit
<1>2. CASE ReconnectTimer
  <2>1. MainConnect /\ reconnects' = reconnects - 1 /\ reconnects > 0
    BY <1>2 DEF ReconnectTimer
  <2>2. reconnects' \in 0..MaxTimers
    BY <2>1, <1>d, SessionAssumption
  <2>. QED  BY <2>1, <2>2, MainTyped
<1>3. CASE RouteTimer
  <2>1. /\ routeTimers > 0 /\ routeTimers' = routeTimers - 1 /\ routes' \in {"in", "stale"}
        /\ UNCHANGED <<clients, flags, exit, stack, reconnects, history>>
    BY <1>3 DEF RouteTimer
  <2>2. routeTimers' \in Nat /\ routes' \in RouteSet
    BY <2>1, <1>d DEF RouteSet
  <2>. QED  BY <2>1, <2>2 DEF Typed, ClientsTyped, FlagsTyped, ExitTyped, TimersTyped, HistoryTyped,
         clients, flags, exit, history
<1>. QED  BY <1>1, <1>2, <1>3 DEF Events

\* The user.
LEMMA UserTyped ==
  ASSUME Typed, User
  PROVE  Typed'
<1>d. /\ state \in [Clients -> States] /\ IsStack(stack) /\ reconnects \in 0..MaxTimers
  BY DEF Typed, ClientsTyped, TimersTyped
<1>1. CASE ClickConnect
  <2>1. MainConnect /\ reconnects' \in 0..MaxTimers
    BY <1>1, <1>d DEF ClickConnect
  <2>. QED  BY <2>1, MainTyped
<1>2. CASE ClickDisconnect \/ ClickCancel
  <2>1. /\ Handle("disconnect", state, stack) \/ Handle("cancel", state, stack)
        /\ lastAction' \in {"Disconnect", "CancelConnect"} /\ missed' = "nothing"
        /\ cancelAuto' \in {cancelAuto, TRUE}
        /\ UNCHANGED <<vpn, phase, hears, posted, autoInProgress, exit, reconnects, routeTimers,
                       nested>>
    BY <1>2 DEF ClickDisconnect, ClickCancel, StopTrying
  <2>2. "disconnect" \in Closers /\ "cancel" \in Closers
    BY DEF Closers
  <2>3. /\ state' \in [Clients -> States] /\ status' \in Statuses
        /\ IsStack(stack') /\ routes' \in RouteSet
    BY <2>1, <2>2, <1>d, HandleTyped
  <2>. QED  BY <2>1, <2>3 DEF Typed, ClientsTyped, FlagsTyped, ExitTyped, TimersTyped, HistoryTyped,
         exit, MissedSet
<1>3. CASE Quit
  BY <1>3 DEF Quit, Typed, ClientsTyped, FlagsTyped, ExitTyped, TimersTyped, HistoryTyped,
     clients, flags, timers, history
<1>. QED  BY <1>1, <1>2, <1>3 DEF User

\* The clients' own threads.
LEMMA ClientTyped ==
  ASSUME Typed, Client
  PROVE  Typed'
<1>d. /\ state \in [Clients -> States] /\ phase \in [Clients -> Phases] /\ posted \in Seq(Signal)
  BY DEF Typed, ClientsTyped
<1>1. PICK c \in Clients : ClientUp(c) \/ ClientFails(c) \/ ClientEnds(c)
  BY DEF Client
<1>2. UNCHANGED <<flags, exit, stack, timers, history, vpn, hears>>
  BY <1>1 DEF Client, ClientUp, ClientFails, ClientEnds
<1>3. <<>> \in Seq(Signal) /\ Emit(c, "message") \in Seq(Signal)
  BY EmitTyped DEF Kinds
<1>4. phase' \in [Clients -> Phases]
  BY <1>1, <1>d DEF ClientUp, ClientFails, ClientEnds, Phases
<1>5. state' \in [Clients -> States] /\ posted' \in Seq(Signal)
  <2>1. CASE ClientUp(c)
    BY <2>1, <1>d DEF ClientUp, States
  <2>2. CASE Fail(c, <<>>) \/ Fail(c, Emit(c, "message"))
    BY <2>2, <1>3, FailTyped
  <2>3. CASE UNCHANGED <<state, posted>>
    BY <2>3, <1>d
  <2>. QED  BY <1>1, <2>1, <2>2, <2>3 DEF ClientFails, ClientEnds
<1>. QED  BY <1>2, <1>4, <1>5 DEF Typed, ClientsTyped, FlagsTyped, ExitTyped, TimersTyped,
       HistoryTyped, flags, exit, timers, history

LEMMA StepTyped == Typed /\ [Next]_vars => Typed'
<1>1. ASSUME Typed, UNCHANGED vars  PROVE Typed'
  BY <1>1 DEF vars, clients, flags, exit, timers, history, Typed, ClientsTyped, FlagsTyped,
     ExitTyped, TimersTyped, HistoryTyped
<1>. QED  BY <1>1, CallsTyped, EventsTyped, UserTyped, ClientTyped DEF Next

\* Every variable has its type, and a call names a client just when it is inside it.
THEOREM TypeCorrect == Spec => []TypeOK
<1>1. Spec => []Typed
  BY InitTyped, StepTyped, PTL DEF Spec
<1>. QED  BY <1>1, TypedIsTypeOK, PTL

-----------------------------------------------------------------------------
(* One onConnect at a time *)

\* No onConnect went to work inside another call, and after a quit an error that was
\* posted has nothing left to close.
Calm == ~nested /\ (quitting => ReconnectOnDrop)

\* An error is on its way.
Warned == \E i \in DOMAIN posted : posted[i].sig = "error"

\* The current client runs, and no close() waits for it.
Alive == Running(vpn) /\ ~ClosingIn(stack)

\* No other client runs or is waited for.
Alone == /\ Shape(stack) /\ Own(stack, vpn)
         /\ \A c \in Clients : Running(c) => c = vpn
         /\ Stage # "retry"
         /\ autoInProgress <=> Stage # "idle"

\* What the state of the current client tells about its thread.
Known ==
  /\ Running(vpn) => state[vpn] # "DISCONNECTED" /\ hears[vpn] = Kinds
  /\ ~Running(vpn) => state[vpn] \notin {"CONNECTING", "CONNECTED"}
  /\ state[vpn] = "DISCONNECTING" => ClosingIn(stack)
  /\ Alive => /\ phase[vpn] = "trying" => state[vpn] = "CONNECTING"
              /\ phase[vpn] = "up" => state[vpn] = "CONNECTED"
              /\ phase[vpn] \in {"rejected", "dropped"} => state[vpn] = "VPNERROR" /\ Warned
  /\ Stage = "download" => /\ state[vpn] = "DISCONNECTED" /\ hears[vpn] = Kinds
                           /\ ~ClosingIn(stack) /\ ~Running(vpn)

\* What the status tells about the current client, stage by stage.
Shown ==
  /\ Stage = "download" => status = "Disconnected"
  /\ Stage = "open" /\ Alive => status = "Connecting"
  /\ Stage = "late" /\ Alive => ~ReconnectOnDrop
  /\ Stage \in {"gaveUp", "pause"} /\ Alive => ~ReconnectOnDrop /\ state[vpn] = "VPNERROR"
  /\ Stage = "pause" /\ ~ClosingIn(stack) => status = "Disconnected"
  /\ Stage \in {"idle", "settle"} /\ ~ClosingIn(stack) =>
       /\ status \in {"Connected", "Disconnected"}
       /\ Running(vpn) => status = "Connected"
       /\ status = "Connected" => Running(vpn) \/ Warned
  /\ Stage \in {"idle", "settle"} /\ Running(vpn) /\ phase[vpn] = "trying" => quitting
  /\ status = "Connected" => Stage \in {"idle", "settle"}
  /\ status = "Connected" /\ ClosingIn(stack) => ClearingIn(stack)

Core == Typed /\ Calm /\ Alone /\ Known /\ Shown

LEMMA CalmBefore ==
  ASSUME Typed, [Next]_vars, Calm'
  PROVE  Calm
<1>1. nested \in BOOLEAN /\ quitting \in BOOLEAN
  BY DEF Typed, HistoryTyped, ExitTyped
<1>2. (nested => nested') /\ (quitting => quitting')
  <2>1. CASE Calls
    BY <2>1 DEF Calls, DownloadFails, Downloaded, OpenTrue, OpenFalse, OpenLate, OpenLateError,
       OpenGaveUp, PauseOver, SettleOver, RetryOver, CloseReturn, exit, history
  <2>2. CASE Events \/ User
    BY <2>2, <1>1 DEF Events, User, Deliver, ReconnectTimer, RouteTimer, ClickConnect, MainConnect,
       ClickDisconnect, ClickCancel, Quit, exit, history
  <2>3. CASE Client \/ UNCHANGED vars
    BY <2>3 DEF Client, vars, exit, history
  <2>. QED  BY <2>1, <2>2, <2>3 DEF Next
<1>. QED  BY <1>1, <1>2 DEF Calm

LEMMA InitCore == Init => Alone /\ Known /\ Shown
<1> SUFFICES ASSUME Init  PROVE Alone /\ Known /\ Shown
  OBVIOUS
<1> DEFINE f == Frame("download", Nobody)
<1>1. f \in Call /\ Paired(f) /\ f.at = "download" /\ f.client = Nobody /\ stack = <<f>>
  BY FrameTyped DEF Attempts, Waits, Init
<1> HIDE DEF f
<1>2. /\ Shape(stack) /\ Own(stack, vpn) /\ Stage = "download" /\ ~ClosingIn(stack)
      /\ ~ClearingIn(stack)
  BY <1>1, OneViews DEF Stage, Attempts
<1>3. /\ vpn \in Clients /\ \A c \in Clients : ~Running(c) /\ state[c] = "DISCONNECTED"
                                              /\ hears[c] = Kinds
      /\ autoInProgress /\ status = "Disconnected"
  BY DEF Init, Running, Kinds
<1>. QED  BY <1>2, <1>3 DEF Alone, Known, Shown, Alive

\* What a handler leaves.
LEMMA HandleViews ==
  ASSUME Typed, NEW h \in Closers, NEW st \in [Clients -> States], NEW s, IsStack(s),
         Handle(h, st, s), Shape(s), Own(s, vpn)
  PROVE  /\ Shape(stack') /\ Own(stack', vpn) /\ StageOf(stack') = StageOf(s)
         /\ \/ /\ st[vpn] \notin {"DISCONNECTED", "DISCONNECTING"} /\ Running(vpn)
               /\ state' = [st EXCEPT ![vpn] = "DISCONNECTING"] /\ status' = Entering(h)
               /\ ClosingIn(stack') /\ routes' = routes
               /\ ClearingIn(stack') <=> ClearingIn(s) \/ Clears(h)
            \/ /\ st[vpn] \in {"DISCONNECTED", "DISCONNECTING"} \/ ~Running(vpn)
               /\ state' = st /\ status' = "Disconnected" /\ stack' = s
               /\ routes' = IF Clears(h) THEN "none" ELSE routes
<1>1. vpn \in Clients
  BY DEF Typed, ClientsTyped
<1>2. CASE CanClose(st, vpn)
  <2> DEFINE f == Frame(h, vpn)
  <2>1. f \in Call /\ Paired(f) /\ f.at = h /\ f.client = vpn
    BY <1>1, FrameTyped, SessionAssumption DEF Closers, Waits
  <2>2. /\ state' = [st EXCEPT ![vpn] = "DISCONNECTING"] /\ status' = Entering(h)
        /\ stack' = Push(s, f) /\ routes' = routes
    BY <1>2 DEF Handle
  <2> HIDE DEF f
  <2>. QED  BY <1>2, <2>1, <2>2, PushViews DEF CanClose
<1>3. CASE ~CanClose(st, vpn)
  BY <1>3 DEF Handle, CanClose
<1>. QED  BY <1>2, <1>3

\* The loop of onConnectAuto, on the outermost level.
LEMMA LoopViews ==
  ASSUME Typed, NEW k \in BOOLEAN, NEW heard \in [Clients -> SUBSET Kinds],
         Loop(<<>>, k, heard)
  PROVE  \/ /\ k \/ status \in Ends
            /\ UNCHANGED <<vpn, state, phase>> /\ autoInProgress' = FALSE
            /\ hears' = [heard EXCEPT ![vpn] = @ \cup {"message"}]
            /\ k => stack' = <<>>
         \/ /\ ~k /\ status \notin Ends /\ phase' = phase /\ autoInProgress' = TRUE
            /\ vpn' \in Clients /\ vpn' # vpn /\ ~Running(vpn')
            /\ state'[vpn'] = "DISCONNECTED" /\ hears'[vpn'] = Kinds
            /\ stack' # <<>> /\ Shape(stack') /\ \A c : Own(stack', c)
            /\ StageOf(stack') = "download" /\ ~ClosingIn(stack') /\ ~ClearingIn(stack')
<1>1. CASE k \/ status \in Ends
  BY <1>1 DEF Loop
<1>2. CASE ~(k \/ status \in Ends)
  <2> DEFINE f == Frame("download", Nobody)
  <2>1. f \in Call /\ Paired(f) /\ f.at = "download" /\ f.client = Nobody
    BY FrameTyped DEF Attempts, Waits
  <2>2. /\ phase' = phase /\ autoInProgress' = TRUE /\ stack' = Push(<<>>, f)
        /\ vpn' \in Clients /\ vpn' # vpn /\ Unused(vpn')
        /\ state' = [c \in Clients |-> IF Unused(c) THEN "DISCONNECTED" ELSE state[c]]
        /\ hears' = [c \in Clients |-> IF Unused(c) THEN {"message", "error"} ELSE heard[c]]
    BY <1>2 DEF Loop
  <2>3. stack' = <<f>>
    BY <2>2, NoneViews
  <2> HIDE DEF f
  <2>4. /\ stack' # <<>> /\ Shape(stack') /\ \A c : Own(stack', c)
        /\ StageOf(stack') = "download" /\ ~ClosingIn(stack') /\ ~ClearingIn(stack')
    BY <2>1, <2>3, OneViews DEF Attempts
  <2>5. state'[vpn'] = "DISCONNECTED" /\ hears'[vpn'] = Kinds /\ ~Running(vpn')
    BY <2>2 DEF Unused, Kinds
  <2>. QED  BY <1>2, <2>2, <2>4, <2>5
<1>. QED  BY <1>1, <1>2

\* A call that is inside a client is inside the current one.
LEMMA TopIsOwn ==
  ASSUME IsStack(stack), stack # <<>>, Own(stack, vpn), Top.at \notin Waits
  PROVE  Top.client = vpn
<1>1. Len(stack) \in DOMAIN stack
  BY TopTyped DEF IsStack
<1>2. Top.client \in {vpn, Nobody}
  BY <1>1 DEF Own, Top
<1>3. Paired(Top)
  BY TopTyped
<1>. QED  BY <1>2, <1>3 DEF Paired

\* The parts of Core that a proof starts from.
LEMMA CoreParts ==
  ASSUME Core
  PROVE  /\ vpn \in Clients /\ state \in [Clients -> States] /\ phase \in [Clients -> Phases]
         /\ hears \in [Clients -> SUBSET Kinds] /\ posted \in Seq(Signal)
         /\ status \in Statuses /\ IsStack(stack) /\ Shape(stack) /\ Own(stack, vpn)
         /\ cancelAuto \in BOOLEAN /\ autoInProgress \in BOOLEAN /\ nested = FALSE
         /\ quitting \in BOOLEAN /\ (quitting => ReconnectOnDrop)
BY DEF Core, Typed, ClientsTyped, FlagsTyped, ExitTyped, HistoryTyped, Alone, Calm

\* An attempt that has failed.
LEMMA CoreFailed ==
  ASSUME Core, DownloadFails \/ OpenFalse \/ OpenGaveUp
  PROVE  /\ Alone' /\ Known' /\ Shown' /\ Stage \in {"download", "open", "gaveUp"}
         /\ Stage' = "pause" /\ status' = "Disconnected" /\ ~ClearingIn(stack)
<1>p. IsStack(stack) /\ Shape(stack) /\ Own(stack, vpn)
  BY CoreParts
<1>1. /\ stack # <<>> /\ Top.at \in {"download", "open", "gaveUp"} /\ stack' = Goto("pause")
      /\ UNCHANGED <<vpn, state, phase, hears, posted, autoInProgress, quitting>>
  BY DEF DownloadFails, OpenFalse, OpenGaveUp, clients, exit
<1>2. Rest = <<>> /\ Stage = Top.at /\ ~ClosingIn(stack) /\ ~ClearingIn(stack)
  BY <1>p, <1>1, AloneViews DEF Attempts
<1>3. /\ Stage' = "pause" /\ Shape(stack') /\ Own(stack', vpn')
      /\ ~ClosingIn(stack') /\ ~ClearingIn(stack')
  BY <1>p, <1>1, <1>2, GotoTyped DEF Stage
<1>4. status' = "Disconnected"
  BY <1>1, <1>2 DEF DownloadFails, OpenFalse, OpenGaveUp, Core, Shown
<1>5. Running(vpn) => Stage = "gaveUp"
  <2>1. CASE DownloadFails
    BY <2>1, <1>2 DEF DownloadFails, Core, Known
  <2>2. CASE OpenFalse
    <3>1. Top.client = vpn /\ ~Running(Top.client)
      BY <2>2, <1>p, <1>1, TopIsOwn DEF OpenFalse, Waits
    <3>. QED  BY <3>1
  <2>3. CASE OpenGaveUp
    BY <2>3, <1>2 DEF OpenGaveUp
  <2>. QED  BY <2>1, <2>2, <2>3
<1>6. Running(vpn) => ~ReconnectOnDrop /\ state[vpn] = "VPNERROR"
  BY <1>2, <1>5 DEF Core, Shown, Alive
<1>7. (\A c : Running(c)' <=> Running(c)) /\ (Warned' <=> Warned) /\ (Alive' <=> Running(vpn))
  BY <1>1, <1>3 DEF Running, Warned, Alive
<1>8. Alone'
  BY <1>1, <1>2, <1>3, <1>7 DEF Core, Alone
<1>9. Known'
  BY <1>1, <1>2, <1>3, <1>7 DEF Core, Known, Alive, Running
<1>10. Shown'
  BY <1>1, <1>3, <1>4, <1>6, <1>7 DEF Shown
<1>. QED  BY <1>1, <1>2, <1>3, <1>4, <1>8, <1>9, <1>10

\* open() of a client that was just made never refuses.
LEMMA CoreDownloaded ==
  ASSUME Core, Downloaded
  PROVE  /\ Alone' /\ Known' /\ Shown' /\ Stage = "download" /\ Stage' = "open"
         /\ status' = "Connecting" /\ ~ClearingIn(stack)
<1>p. IsStack(stack) /\ Shape(stack) /\ Own(stack, vpn) /\ vpn \in Clients
      /\ state \in [Clients -> States] /\ phase \in [Clients -> Phases]
  BY CoreParts
<1>1. stack # <<>> /\ Top.at = "download"
      /\ UNCHANGED <<vpn, hears, posted, autoInProgress, quitting>>
  BY DEF Downloaded, exit
<1>2. Rest = <<>> /\ Stage = "download" /\ ~ClosingIn(stack) /\ ~ClearingIn(stack)
  BY <1>p, <1>1, AloneViews DEF Attempts
<1>3. state[vpn] = "DISCONNECTED" /\ hears[vpn] = Kinds
  BY <1>2 DEF Core, Known
<1>4. /\ status' = "Connecting" /\ state' = [state EXCEPT ![vpn] = "CONNECTING"]
      /\ phase' = [phase EXCEPT ![vpn] = "trying"]
      /\ stack' = Append(Rest, Frame("open", vpn))
  BY <1>3 DEF Downloaded
<1> DEFINE f == Frame("open", vpn)
<1>5. f \in Call /\ Paired(f) /\ f.at = "open" /\ f.client = vpn /\ f.at \in Attempts
  BY <1>p, FrameTyped, SessionAssumption DEF Attempts, Waits
<1>6. stack' = <<f>>
  BY <1>2, <1>4, <1>5, NoneViews, AppendTyped
<1> HIDE DEF f
<1>7. /\ Stage' = "open" /\ Shape(stack') /\ Own(stack', vpn') /\ ~ClosingIn(stack')
  BY <1>1, <1>5, <1>6, OneViews DEF Stage
<1>8. /\ phase'[vpn] = "trying" /\ state'[vpn] = "CONNECTING"
      /\ \A c \in Clients : c # vpn => phase'[c] = phase[c]
  BY <1>4, <1>p
<1>9. Alone'
  BY <1>1, <1>2, <1>7, <1>8 DEF Core, Alone, Running
<1>10. Known'
  BY <1>1, <1>3, <1>7, <1>8 DEF Known, Alive, Running
<1>11. Shown'
  BY <1>1, <1>4, <1>7 DEF Shown
<1>. QED  BY <1>2, <1>4, <1>7, <1>9, <1>10, <1>11

\* The client is up, or quitting has ended open() too early; the attempt was not
\* cancelled, for a cancel would wait in close().
LEMMA CoreOpenTrue ==
  ASSUME Core, OpenTrue
  PROVE  /\ Alone' /\ Known' /\ Shown' /\ Stage = "open" /\ Alive /\ Stage' = "settle"
         /\ status' = "Connected" /\ ~ClosingIn(stack')
<1>p. IsStack(stack) /\ Shape(stack) /\ Own(stack, vpn) /\ vpn \in Clients
  BY CoreParts
<1>1. stack # <<>> /\ Top.at = "open"
      /\ UNCHANGED <<vpn, hears, phase, posted, autoInProgress, quitting>>
  BY DEF OpenTrue, exit
<1>2. Rest = <<>> /\ Stage = "open" /\ ~ClosingIn(stack)
  BY <1>p, <1>1, AloneViews DEF Attempts
<1>3. Top.client = vpn
  BY <1>p, <1>1, TopIsOwn DEF Waits
<1>4. Running(vpn) /\ (phase[vpn] = "trying" => quitting)
  BY <1>3 DEF OpenTrue, Running
<1>5. status = "Connecting" /\ Alive
  BY <1>2, <1>4 DEF Core, Shown, Alive
<1>6. status' = "Connected" /\ stack' = Goto("settle") /\ state' = state
  BY <1>5 DEF OpenTrue, Cancelled
<1>7. /\ Stage' = "settle" /\ Shape(stack') /\ Own(stack', vpn') /\ ~ClosingIn(stack')
  BY <1>p, <1>1, <1>2, <1>6, GotoTyped DEF Stage
<1>8. /\ \A c : Running(c)' <=> Running(c)
      /\ Warned' <=> Warned
  BY <1>1 DEF Running, Warned
<1>9. Alone'
  BY <1>1, <1>2, <1>7, <1>8 DEF Core, Alone
<1>10. Known'
  BY <1>1, <1>5, <1>6, <1>7, <1>8 DEF Core, Known, Alive
<1>11. Shown'
  BY <1>1, <1>4, <1>6, <1>7, <1>8 DEF Shown
<1>. QED  BY <1>2, <1>5, <1>6, <1>7, <1>9, <1>10, <1>11

\* A handler: the current client no longer runs, or its close() waits.
LEMMA HandleCore ==
  ASSUME Core, NEW h \in Closers \ {"undo"}, NEW st \in [Clients -> States], NEW s, IsStack(s),
         Shape(s), Own(s, vpn), Handle(h, st, s),
         UNCHANGED <<vpn, phase, hears, autoInProgress, quitting>>,
         Running(vpn) => st[vpn] # "DISCONNECTED",
         ~Running(vpn) => st[vpn] \notin {"CONNECTING", "CONNECTED"},
         st[vpn] = "DISCONNECTING" => ClosingIn(s),
         StageOf(s) # "retry", autoInProgress <=> StageOf(s) # "idle",
         StageOf(s) \in {"idle", "settle"} => Stage = StageOf(s),
         StageOf(s) = "download" => Stage = "download" /\ st = state /\ ~ClosingIn(s),
         status = "Connected" => StageOf(s) \in {"idle", "settle"},
         status = "Connected" /\ ClosingIn(s) => ClearingIn(s)
  PROVE  /\ Alone' /\ Known' /\ Shown' /\ ~Alive' /\ Stage' = StageOf(s)
         /\ status' = "Connected" => h = "error" /\ status = "Connected" /\ ClosingIn(stack')
         /\ status' = "Disconnecting" => h \in {"disconnect", "message"} \/ status = "Disconnecting"
         /\ ClearingIn(s) => ClearingIn(stack')
         /\ Clears(h) => routes' = "none" \/ ClearingIn(stack')
         /\ routes' \in {routes, "none"}
         /\ ClosingIn(stack') \/ status' = "Disconnected"
<1>p. vpn \in Clients /\ state \in [Clients -> States]
  BY CoreParts
<1>1. /\ Shape(stack') /\ Own(stack', vpn) /\ Stage' = StageOf(s)
      /\ \/ /\ st[vpn] \notin {"DISCONNECTED", "DISCONNECTING"} /\ Running(vpn)
            /\ state' = [st EXCEPT ![vpn] = "DISCONNECTING"] /\ status' = Entering(h)
            /\ ClosingIn(stack') /\ routes' = routes
            /\ ClearingIn(stack') <=> ClearingIn(s) \/ Clears(h)
         \/ /\ st[vpn] \in {"DISCONNECTED", "DISCONNECTING"} \/ ~Running(vpn)
            /\ state' = st /\ status' = "Disconnected" /\ stack' = s
            /\ (routes' = IF Clears(h) THEN "none" ELSE routes)
  <2>1. Typed
    BY DEF Core
  <2>. QED  BY <2>1, HandleViews DEF Stage
<1>2. \A c : Running(c)' <=> Running(c)
  BY DEF Running
<1>3. CASE /\ st[vpn] \notin {"DISCONNECTED", "DISCONNECTING"} /\ Running(vpn)
           /\ state' = [st EXCEPT ![vpn] = "DISCONNECTING"] /\ status' = Entering(h)
           /\ ClosingIn(stack') /\ routes' = routes
           /\ ClearingIn(stack') <=> ClearingIn(s) \/ Clears(h)
  <2>1. state'[vpn] = "DISCONNECTING"
    BY <1>3, <1>p
  <2>2. StageOf(s) # "download"
    BY <1>3 DEF Core, Known
  <2>3. Alone'
    BY <1>1, <1>2, <1>p DEF Core, Alone
  <2>4. Known'
    BY <1>1, <1>2, <1>3, <2>1, <2>2 DEF Core, Known, Alive
  <2>5. /\ status' = "Connected" => h = "error" /\ status = "Connected" /\ Clears(h)
        /\ status' = "Disconnecting" => h \in {"disconnect", "message"} \/ status = "Disconnecting"
    BY <1>3 DEF Entering, Closers, Clears
  <2>6. Shown'
    BY <1>1, <1>2, <1>3, <2>2, <2>5 DEF Core, Shown, Alive
  <2>7. ~Alive'
    BY <1>3 DEF Alive
  <2>. QED  BY <1>1, <1>3, <2>3, <2>4, <2>5, <2>6, <2>7
<1>4. CASE /\ st[vpn] \in {"DISCONNECTED", "DISCONNECTING"} \/ ~Running(vpn)
           /\ state' = st /\ status' = "Disconnected" /\ stack' = s
           /\ (routes' = IF Clears(h) THEN "none" ELSE routes)
  <2>1. ~Running(vpn) \/ ClosingIn(s)
    BY <1>4
  <2>2. ~Alive'
    BY <1>2, <1>4, <2>1 DEF Alive
  <2>3. Alone'
    BY <1>1, <1>2, <1>p DEF Core, Alone
  <2>4. Known'
    BY <1>1, <1>2, <1>4, <2>2 DEF Core, Known
  <2>5. Shown'
    BY <1>1, <1>2, <1>4, <2>1, <2>2 DEF Core, Shown, Alive
  <2>. QED  BY <1>1, <1>4, <2>2, <2>3, <2>4, <2>5
<1>. QED  BY <1>1, <1>3, <1>4

\* The handlers that find the stack and the states as they are.
LEMMA HandleHere ==
  ASSUME Core, NEW h \in Closers \ {"undo"}, Handle(h, state, stack),
         UNCHANGED <<vpn, phase, hears, autoInProgress, quitting>>
  PROVE  /\ Alone' /\ Known' /\ Shown' /\ ~Alive' /\ Stage' = Stage
         /\ status' = "Connected" => h = "error" /\ status = "Connected" /\ ClosingIn(stack')
         /\ status' = "Disconnecting" => h \in {"disconnect", "message"} \/ status = "Disconnecting"
         /\ ClearingIn(stack) => ClearingIn(stack')
         /\ Clears(h) => routes' = "none" \/ ClearingIn(stack')
         /\ routes' \in {routes, "none"}
         /\ ClosingIn(stack') \/ status' = "Disconnected"
<1>1. state \in [Clients -> States] /\ IsStack(stack) /\ Shape(stack) /\ Own(stack, vpn)
  BY CoreParts
<1>2. /\ Running(vpn) => state[vpn] # "DISCONNECTED"
      /\ ~Running(vpn) => state[vpn] \notin {"CONNECTING", "CONNECTED"}
      /\ state[vpn] = "DISCONNECTING" => ClosingIn(stack)
      /\ Stage = "download" => ~ClosingIn(stack)
  BY DEF Core, Known
<1>3. Stage # "retry" /\ (autoInProgress <=> Stage # "idle")
  BY DEF Core, Alone
<1>4. /\ status = "Connected" => Stage \in {"idle", "settle"}
      /\ status = "Connected" /\ ClosingIn(stack) => ClearingIn(stack)
  BY DEF Core, Shown
<1>. QED  BY <1>1, <1>2, <1>3, <1>4, HandleCore DEF Stage

\* open() that has lasted a minute.
LEMMA CoreOpenLate ==
  ASSUME Core, OpenLate
  PROVE  /\ Alone' /\ Known' /\ Shown' /\ Stage = "open" /\ Stage' = "late"
         /\ (Alive' => Alive) /\ status' # "Connected" /\ ~ClearingIn(stack)
         /\ routes' \in {routes, "none"}
<1>p. IsStack(stack) /\ Shape(stack) /\ Own(stack, vpn) /\ vpn \in Clients
      /\ state \in [Clients -> States]
  BY CoreParts
<1>1. stack # <<>> /\ Top.at = "open"
      /\ UNCHANGED <<vpn, hears, phase, posted, autoInProgress, quitting>>
  BY DEF OpenLate, exit
<1>2. Rest = <<>> /\ Stage = "open" /\ ~ClosingIn(stack) /\ ~ClearingIn(stack)
  BY <1>p, <1>1, AloneViews DEF Attempts
<1>3. Top.client = vpn
  BY <1>p, <1>1, TopIsOwn DEF Waits
<1> DEFINE f == Frame("late", vpn)
<1>4. f \in Call /\ Paired(f) /\ f.at = "late" /\ f.client = vpn /\ f.at \in Attempts
  BY <1>p, FrameTyped, SessionAssumption DEF Attempts, Waits
<1>5. Append(Rest, f) = <<f>>
  BY <1>2, <1>4, NoneViews, AppendTyped
<1>6. \/ Handle("message", state, <<f>>)
      \/ /\ ~ReconnectOnDrop \/ "message" \notin hears[vpn]
         /\ stack' = <<f>> /\ UNCHANGED <<state, status, routes>>
  BY <1>3, <1>5 DEF OpenLate
<1> HIDE DEF f
<1>7. /\ IsStack(<<f>>) /\ Shape(<<f>>) /\ Own(<<f>>, vpn) /\ StageOf(<<f>>) = "late"
      /\ ~ClosingIn(<<f>>)
  BY <1>4, OneViews
<1>8. status # "Connected" /\ state[vpn] # "DISCONNECTING"
  BY <1>2 DEF Core, Shown, Known
<1>9. /\ Running(vpn) => state[vpn] # "DISCONNECTED"
      /\ ~Running(vpn) => state[vpn] \notin {"CONNECTING", "CONNECTED"}
      /\ autoInProgress
  BY <1>2 DEF Core, Known, Alone
<1>10. CASE Handle("message", state, <<f>>)
  <2>1. "message" \in Closers \ {"undo"}
    BY DEF Closers
  <2>2. /\ Alone' /\ Known' /\ Shown' /\ ~Alive' /\ Stage' = StageOf(<<f>>)
        /\ routes' \in {routes, "none"}
    BY <1>p, <1>1, <1>7, <1>8, <1>9, <1>10, <2>1, HandleCore
  <2>3. status' # "Connected"
    BY <2>2, <1>7 DEF Shown
  <2>. QED  BY <2>2, <2>3, <1>2, <1>7
<1>11. CASE /\ ~ReconnectOnDrop \/ "message" \notin hears[vpn]
            /\ stack' = <<f>> /\ UNCHANGED <<state, status, routes>>
  <2>1. Stage' = "late" /\ Shape(stack') /\ Own(stack', vpn') /\ ~ClosingIn(stack')
    BY <1>1, <1>7, <1>11 DEF Stage
  <2>2. /\ \A c : Running(c)' <=> Running(c)
        /\ Warned' <=> Warned
        /\ Alive' <=> Alive
    BY <1>1, <1>2, <2>1 DEF Running, Warned, Alive
  <2>3. Running(vpn) => ~ReconnectOnDrop
    BY <1>11 DEF Core, Known, Kinds
  <2>4. Alone'
    BY <1>1, <1>2, <2>1, <2>2 DEF Core, Alone
  <2>5. Known'
    BY <1>1, <1>2, <1>11, <2>1, <2>2 DEF Core, Known
  <2>6. Shown'
    BY <1>8, <1>11, <2>1, <2>2, <2>3 DEF Shown, Alive
  <2>. QED  BY <1>2, <1>8, <1>11, <2>1, <2>2, <2>4, <2>5, <2>6
<1>. QED  BY <1>6, <1>10, <1>11

\* open() reports that it has given up, unless somebody else has.
LEMMA CoreLateError ==
  ASSUME Core, OpenLateError
  PROVE  /\ Alone' /\ Known' /\ Shown' /\ Stage = "late" /\ Stage' = "gaveUp"
         /\ status' # "Connected" /\ routes' \in {routes, "none"}
         /\ missed' = missed /\ ~ClearingIn(stack)
<1>p. IsStack(stack) /\ Shape(stack) /\ Own(stack, vpn) /\ vpn \in Clients
      /\ state \in [Clients -> States] /\ phase \in [Clients -> Phases]
  BY CoreParts
<1>1. stack # <<>> /\ Top.at = "late"
      /\ UNCHANGED <<vpn, hears, phase, posted, autoInProgress, quitting>>
  BY DEF OpenLateError, exit
<1>2. Rest = <<>> /\ Stage = "late" /\ ~ClosingIn(stack) /\ ~ClearingIn(stack)
  BY <1>p, <1>1, AloneViews DEF Attempts
<1>3. Top.client = vpn
  BY <1>p, <1>1, TopIsOwn DEF Waits
<1> DEFINE s == Goto("gaveUp")  st == [state EXCEPT ![vpn] = "VPNERROR"]
<1>4. /\ IsStack(s) /\ Shape(s) /\ Own(s, vpn) /\ StageOf(s) = "gaveUp" /\ ~ClosingIn(s)
      /\ ~ClearingIn(s)
  BY <1>p, <1>1, <1>2, GotoTyped
<1>5. st[vpn] = "VPNERROR" /\ st \in [Clients -> States]
      /\ (state[vpn] = "VPNERROR" => st = state)
  BY <1>p DEF States
<1>6. \/ Error(st, s)
      \/ /\ "error" \notin hears[vpn] \/ state[vpn] = "VPNERROR"
         /\ state' = st /\ stack' = s /\ UNCHANGED <<status, routes, missed>>
  BY <1>3 DEF OpenLateError
<1> HIDE DEF s, st
<1>7. status # "Connected" /\ autoInProgress /\ stack # <<>>
  BY <1>1, <1>2 DEF Core, Shown, Alone
<1>7a. \A i \in DOMAIN stack : stack[i].at # "settle"
  <2>1. Len(stack) = 1
    BY <1>p, <1>1, <1>2, TopTyped
  <2>2. Top = stack[1] /\ DOMAIN stack = {1}
    BY <2>1, <1>p DEF Top, IsStack
  <2>. QED  BY <2>2, <1>1
<1>8. CASE Error(st, s)
  <2>1. Handle("error", st, s) /\ "error" \in Closers \ {"undo"} /\ missed' = missed
    BY <1>8, <1>7a DEF Error, Closers
  <2>2. /\ Alone' /\ Known' /\ Shown' /\ Stage' = StageOf(s)
        /\ routes' \in {routes, "none"}
    BY <1>p, <1>1, <1>4, <1>5, <1>7, <2>1, HandleCore
  <2>3. status' # "Connected"
    BY <2>2, <1>4 DEF Shown
  <2>. QED  BY <2>1, <2>2, <2>3, <1>2, <1>4
<1>9. CASE /\ "error" \notin hears[vpn] \/ state[vpn] = "VPNERROR"
           /\ state' = st /\ stack' = s /\ UNCHANGED <<status, routes, missed>>
  <2>1. Stage' = "gaveUp" /\ Shape(stack') /\ Own(stack', vpn') /\ ~ClosingIn(stack')
    BY <1>1, <1>4, <1>9 DEF Stage
  <2>2. /\ \A c : Running(c)' <=> Running(c)
        /\ Warned' <=> Warned
        /\ Alive' <=> Alive
    BY <1>1, <1>2, <2>1 DEF Running, Warned, Alive
  <2>3. Running(vpn) => state[vpn] = "VPNERROR" /\ ~ReconnectOnDrop
    BY <1>2, <1>9 DEF Core, Known, Shown, Alive, Kinds
  <2>4. Running(vpn) => Known'
    BY <1>1, <1>2, <1>9, <1>5, <2>1, <2>2, <2>3 DEF Core, Known
  <2>5. ~Running(vpn) => Known'
    BY <1>1, <1>2, <1>9, <1>5, <2>1, <2>2 DEF Known, Alive
  <2>6. Alone'
    BY <1>1, <1>2, <2>1, <2>2 DEF Core, Alone
  <2>7. Shown'
    BY <1>1, <1>5, <1>7, <1>9, <2>1, <2>2, <2>3 DEF Shown, Alive
  <2>. QED  BY <1>2, <1>7, <1>9, <2>1, <2>4, <2>5, <2>6, <2>7
<1>. QED  BY <1>6, <1>8, <1>9

\* The second after an attempt: it has delivered the errors of the old client.
LEMMA CorePauseOver ==
  ASSUME Core, PauseOver
  PROVE  /\ Alone' /\ Known' /\ Shown' /\ Stage = "pause" /\ status' = "Disconnected"
         /\ \/ cancelAuto /\ Stage' = "idle"
            \/ Stage' = "download"
         /\ ~ClosingIn(stack) /\ ~ClearingIn(stack)
<1>p. IsStack(stack) /\ Shape(stack) /\ Own(stack, vpn) /\ vpn \in Clients
      /\ phase \in [Clients -> Phases] /\ hears \in [Clients -> SUBSET Kinds]
      /\ cancelAuto \in BOOLEAN /\ (quitting => ReconnectOnDrop)
      /\ state \in [Clients -> States]
  BY CoreParts
<1>1. /\ stack # <<>> /\ Top.at = "pause" /\ (posted = <<>> \/ quitting)
      /\ Loop(Rest, cancelAuto, hears) /\ UNCHANGED <<posted, status, quitting>>
  BY DEF PauseOver, exit
<1>2. Rest = <<>> /\ Stage = "pause" /\ ~ClosingIn(stack) /\ ~ClearingIn(stack)
  BY <1>p, <1>1, AloneViews DEF Attempts
<1>3. status = "Disconnected"
  BY <1>2 DEF Core, Shown
<1>4. ~Running(vpn)
  <2> SUFFICES ASSUME Running(vpn)  PROVE FALSE
    OBVIOUS
  <2>1. ~ReconnectOnDrop /\ state[vpn] = "VPNERROR" /\ Alive
    BY <1>2 DEF Core, Shown, Alive
  <2>2. phase[vpn] \in {"rejected", "dropped"}
    BY <2>1, <1>p DEF Core, Known, Running, Phases
  <2>3. Warned
    BY <2>1, <2>2 DEF Core, Known
  <2>4. posted # <<>>
    BY <2>3 DEF Warned
  <2>. QED  BY <2>1, <2>4, <1>1, <1>p
<1>5. \A c \in Clients : ~Running(c)
  BY <1>4 DEF Core, Alone
<1>6. \/ /\ cancelAuto
         /\ UNCHANGED <<vpn, state, phase>> /\ autoInProgress' = FALSE /\ stack' = <<>>
         /\ hears' = [hears EXCEPT ![vpn] = @ \cup {"message"}]
      \/ /\ phase' = phase /\ autoInProgress' = TRUE
         /\ vpn' \in Clients /\ ~Running(vpn')
         /\ state'[vpn'] = "DISCONNECTED" /\ hears'[vpn'] = Kinds
         /\ stack' # <<>> /\ Shape(stack') /\ \A c : Own(stack', c)
         /\ StageOf(stack') = "download" /\ ~ClosingIn(stack') /\ ~ClearingIn(stack')
  <2>1. Loop(<<>>, cancelAuto, hears) /\ Typed
    BY <1>1, <1>2 DEF Core
  <2>2. status \notin Ends
    BY <1>3 DEF Ends
  <2>. QED  BY <2>1, <2>2, <1>p, LoopViews
<1>7. CASE /\ cancelAuto
           /\ UNCHANGED <<vpn, state, phase>> /\ autoInProgress' = FALSE /\ stack' = <<>>
           /\ hears' = [hears EXCEPT ![vpn] = @ \cup {"message"}]
  <2>1. /\ Stage' = "idle" /\ Shape(stack') /\ Own(stack', vpn') /\ ~ClosingIn(stack')
        /\ ~Running(vpn)' /\ \A c \in Clients : ~Running(c)'
    BY <1>7, <1>5, <1>p, NoneViews DEF Stage, Running
  <2>2. Alone'
    BY <1>7, <2>1 DEF Alone
  <2>3. Known'
    BY <1>2, <1>4, <1>7, <2>1 DEF Core, Known, Alive
  <2>4. Shown'
    BY <1>1, <1>3, <2>1 DEF Shown, Alive
  <2>. QED  BY <1>1, <1>2, <1>3, <1>7, <2>1, <2>2, <2>3, <2>4
<1>8. CASE /\ phase' = phase /\ autoInProgress' = TRUE
           /\ vpn' \in Clients /\ ~Running(vpn')
           /\ state'[vpn'] = "DISCONNECTED" /\ hears'[vpn'] = Kinds
           /\ stack' # <<>> /\ Shape(stack') /\ \A c : Own(stack', c)
           /\ StageOf(stack') = "download" /\ ~ClosingIn(stack') /\ ~ClearingIn(stack')
  <2>1. /\ Stage' = "download" /\ ~Running(vpn)' /\ \A c \in Clients : ~Running(c)'
    BY <1>8, <1>5 DEF Stage, Running
  <2>2. Alone'
    BY <1>8, <2>1 DEF Alone
  <2>3. Known'
    BY <1>8, <2>1 DEF Known, Alive
  <2>4. Shown'
    BY <1>1, <1>3, <2>1 DEF Shown
  <2>. QED  BY <1>1, <1>2, <1>3, <2>1, <2>2, <2>3, <2>4
<1>. QED  BY <1>6, <1>7, <1>8

\* onConnect returns.
LEMMA CoreSettleOver ==
  ASSUME Core, SettleOver
  PROVE  /\ Alone' /\ Known' /\ Shown' /\ Stage = "settle" /\ Stage' = "idle"
         /\ ~ClosingIn(stack) /\ ~ClosingIn(stack')
<1>p. IsStack(stack) /\ Shape(stack) /\ Own(stack, vpn)
  BY CoreParts
<1>1. /\ stack # <<>> /\ Top.at = "settle" /\ stack' = Rest /\ autoInProgress' = FALSE
      /\ UNCHANGED <<vpn, state, phase, hears, posted, status, quitting>>
  BY DEF SettleOver, exit, clients
<1>2. Rest = <<>> /\ Stage = "settle" /\ ~ClosingIn(stack)
  BY <1>p, <1>1, AloneViews DEF Attempts
<1>3. /\ Stage' = "idle" /\ Shape(stack') /\ Own(stack', vpn') /\ ~ClosingIn(stack')
  BY <1>1, <1>2, NoneViews DEF Stage
<1>4. /\ \A c : Running(c)' <=> Running(c)
      /\ Warned' <=> Warned
      /\ Alive' <=> Alive
  BY <1>1, <1>2, <1>3 DEF Running, Warned, Alive
<1>5. Alone'
  BY <1>1, <1>3, <1>4 DEF Core, Alone
<1>6. Known'
  BY <1>1, <1>2, <1>3, <1>4 DEF Core, Known
<1>7. Shown'
  BY <1>1, <1>2, <1>3, <1>4 DEF Core, Shown
<1>. QED  BY <1>2, <1>3, <1>5, <1>6, <1>7

\* Nobody waits ten seconds as long as onConnect is not called in a close().
LEMMA CoreNoRetry ==
  ASSUME Core, RetryOver
  PROVE  FALSE
<1>p. IsStack(stack) /\ Shape(stack)
  BY CoreParts
<1>1. stack # <<>> /\ Top.at = "retry"
  BY DEF RetryOver
<1>2. Stage = "retry"
  BY <1>p, <1>1, AloneViews DEF Attempts
<1>. QED  BY <1>2 DEF Core, Alone

\* close() returns.
LEMMA CoreCloseReturn ==
  ASSUME Core, CloseReturn
  PROVE  /\ Alone' /\ Known' /\ Shown' /\ Stage' = Stage /\ status' = "Disconnected"
         /\ ~Alive' /\ ClosingIn(stack)
         /\ ClearingIn(stack) => ClearingIn(stack') \/ routes' = "none"
         /\ routes' \in {routes, "none"}
<1>p. IsStack(stack) /\ Shape(stack) /\ Own(stack, vpn) /\ vpn \in Clients
      /\ phase \in [Clients -> Phases] /\ hears \in [Clients -> SUBSET Kinds]
      /\ state \in [Clients -> States]
  BY CoreParts
<1>1. stack # <<>> /\ Top.at \in Closers /\ Top.at \notin Waits
  BY DEF CloseReturn, Closers, Waits
<1>2. Top.client = vpn
  BY <1>p, <1>1, TopIsOwn
<1>3. /\ phase' = [phase EXCEPT ![vpn] = "none"] /\ state' = [state EXCEPT ![vpn] = "DISCONNECTED"]
      /\ hears' = [hears EXCEPT ![vpn] = {}] /\ status' = "Disconnected" /\ stack' = Rest
      /\ routes' = (IF Clears(Top.at) THEN "none" ELSE routes)
      /\ UNCHANGED <<vpn, posted, autoInProgress, quitting>>
  BY <1>2 DEF CloseReturn, exit
<1>4. /\ StageOf(stack') = Stage /\ Shape(stack') /\ Own(stack', vpn)
      /\ ClearingIn(stack) <=> ClearingIn(stack') \/ Clears(Top.at)
  BY <1>p, <1>1, <1>3, PopViews DEF Stage
<1>5. ClosingIn(stack)
  <2>1. Len(stack) \in DOMAIN stack
    BY <1>p, <1>1, TopTyped DEF IsStack
  <2>. QED  BY <2>1, <1>1 DEF ClosingIn, Top
<1>6. Stage # "download"
  BY <1>5 DEF Core, Known
<1>7. /\ phase'[vpn] = "none" /\ state'[vpn] = "DISCONNECTED"
      /\ \A c \in Clients : c # vpn => phase'[c] = phase[c]
  BY <1>3, <1>p
<1>8. Stage' = Stage /\ ~Running(vpn)' /\ ~Alive'
  BY <1>3, <1>4, <1>7 DEF Stage, Running, Alive
<1>9. Alone'
  BY <1>3, <1>4, <1>7, <1>8 DEF Core, Alone, Running
<1>10. Known'
  BY <1>3, <1>6, <1>7, <1>8 DEF Known
<1>11. Shown'
  BY <1>3, <1>8 DEF Shown, Alive
<1>. QED  BY <1>3, <1>4, <1>5, <1>8, <1>9, <1>10, <1>11

\* What a delivered message leaves on its way.
LEMMA WarnTail ==
  ASSUME posted \in Seq(Signal), posted # <<>>, posted' = Tail(posted), Warned,
         Head(posted).sig # "error"
  PROVE  Warned'
<1>1. PICK i \in DOMAIN posted : posted[i].sig = "error"
  BY DEF Warned
<1>2. i \in 1..Len(posted) /\ Len(posted) \in Nat /\ i # 1
  BY <1>1
<1>3. i - 1 \in 1..(Len(posted) - 1) /\ posted'[i - 1] = posted[i] /\ DOMAIN posted' = 1..(Len(posted) - 1)
  BY <1>2
<1>. QED  BY <1>1, <1>3 DEF Warned

\* What is posted after it.
LEMMA WarnAppend ==
  ASSUME posted \in Seq(Signal), NEW t \in Seq(Signal), NEW u \in Seq(Signal),
         posted' = posted \o t \o u
  PROVE  /\ Warned => Warned'
         /\ (\E i \in DOMAIN u : u[i].sig = "error") => Warned'
<1>1. Len(posted) \in Nat /\ Len(t) \in Nat /\ Len(u) \in Nat
      /\ DOMAIN posted = 1..Len(posted) /\ DOMAIN u = 1..Len(u)
  OBVIOUS
<1>2. DOMAIN posted' = 1..(Len(posted) + Len(t) + Len(u))
  BY <1>1
<1>3. ASSUME NEW i \in DOMAIN posted  PROVE i \in DOMAIN posted' /\ posted'[i] = posted[i]
  BY <1>1, <1>2, <1>3
<1>4. ASSUME NEW i \in DOMAIN u
      PROVE  Len(posted) + Len(t) + i \in DOMAIN posted' /\ posted'[Len(posted) + Len(t) + i] = u[i]
  BY <1>1, <1>2, <1>4
<1>. QED  BY <1>3, <1>4 DEF Warned

\* A signal reaches its handler.
LEMMA CoreDeliver ==
  ASSUME Core, Deliver
  PROVE  /\ Alone' /\ Known' /\ Shown' /\ Stage' = Stage /\ (Alive' => Alive)
         /\ ClearingIn(stack) => ClearingIn(stack') \/ routes' = "none"
         /\ routes' \in {routes, "none"}
         /\ status' = "Connected" => status = "Connected"
         /\ \/ Head(posted).sig = "error" /\ (routes' = "none" \/ ClearingIn(stack'))
            \/ Head(posted).sig # "error" /\ (Warned => Warned')
         /\ Head(posted).sig # "error" /\ status' = "Disconnecting"
              => status = "Disconnecting" \/ Head(posted).sig = "message"
         /\ Head(posted).sig = "error" /\ status' = "Disconnecting" => status = "Disconnecting"
         /\ Head(posted).sig = "error" \/ ReconnectOnDrop => ~Alive'
         /\ Head(posted).sig = "message" /\ ~ReconnectOnDrop
              => UNCHANGED <<status, stack, routes, state>>
<1>p. IsStack(stack) /\ Shape(stack) /\ Own(stack, vpn) /\ posted \in Seq(Signal)
  BY CoreParts
<1>1. /\ posted # <<>> /\ posted' = Tail(posted)
      /\ UNCHANGED <<vpn, phase, hears, autoInProgress, quitting>>
      /\ \/ Head(posted).sig = "error" /\ Handle("error", state, stack)
         \/ Head(posted).sig = "message" /\ ReconnectOnDrop /\ Handle("message", state, stack)
         \/ Head(posted).sig = "message" /\ ~ReconnectOnDrop
            /\ UNCHANGED <<state, status, stack, routes>>
  BY DEF Deliver, Error, exit
<1>2. Head(posted).sig # "error" => (Warned => Warned')
  BY <1>p, <1>1, WarnTail
<1>3. CASE Head(posted).sig = "error" /\ Handle("error", state, stack)
  <2>1. "error" \in Closers \ {"undo"} /\ Clears("error")
    BY DEF Closers, Clears
  <2>. QED  BY <1>1, <1>3, <2>1, HandleHere
<1>4. CASE Head(posted).sig = "message" /\ ReconnectOnDrop /\ Handle("message", state, stack)
  <2>1. "message" \in Closers \ {"undo"}
    BY DEF Closers
  <2>. QED  BY <1>1, <1>2, <1>4, <2>1, HandleHere
<1>5. CASE Head(posted).sig = "message" /\ ~ReconnectOnDrop
           /\ UNCHANGED <<state, status, stack, routes>>
  <2>1. /\ \A c : Running(c)' <=> Running(c)
        /\ Warned => Warned'
        /\ Alive' <=> Alive
        /\ Stage' = Stage
    BY <1>1, <1>2, <1>5 DEF Running, Alive, Stage
  <2>2. Alone'
    BY <1>1, <1>5, <2>1 DEF Core, Alone
  <2>3. Known'
    BY <1>1, <1>5, <2>1 DEF Core, Known
  <2>4. Shown'
    BY <1>1, <1>5, <2>1 DEF Core, Shown
  <2>. QED  BY <1>1, <1>2, <1>5, <2>1, <2>2, <2>3, <2>4
<1>. QED  BY <1>1, <1>3, <1>4, <1>5

\* A call on the stack makes another stack.
LEMMA PushChanges ==
  ASSUME IsStack(stack), NEW at \in {"download", "retry"}
  PROVE  Push(stack, Frame(at, Nobody)) # stack
<1>1. Frame(at, Nobody) \in Call /\ Paired(Frame(at, Nobody))
  BY FrameTyped DEF Attempts, Waits
<1>2. Len(Push(stack, Frame(at, Nobody))) = Len(stack) + 1 /\ Len(stack) \in Nat
  BY <1>1, PushTyped DEF IsStack
<1>. QED  BY <1>2

\* MainWindow::onConnect: nothing, a connection that is there, or a new attempt.
LEMMA CoreMainConnect ==
  ASSUME Core, MainConnect, Calm'
  PROVE  /\ Alone' /\ Known' /\ Shown'
         /\ \/ /\ status = "Disconnecting" /\ Stage' = Stage
               /\ UNCHANGED <<status, stack, routes, lastAction, cancelAuto, missed, vpn, phase, posted,
                              state>>
            \/ /\ status = "Connected" /\ lastAction' = "Connect" /\ Stage' = Stage
               /\ UNCHANGED <<status, stack, routes, cancelAuto, vpn, phase, posted, state>>
               /\ missed' = IF ClosingIn(stack) THEN "connect" ELSE missed
            \/ /\ stack = <<>> /\ Stage' = "download" /\ lastAction' = "Connect"
               /\ cancelAuto' = FALSE
<1>p. /\ IsStack(stack) /\ Shape(stack) /\ Own(stack, vpn) /\ vpn \in Clients
      /\ hears \in [Clients -> SUBSET Kinds] /\ state \in [Clients -> States]
      /\ phase \in [Clients -> Phases]
  BY CoreParts
<1>1. UNCHANGED <<posted, status, quitting, routes>>
  BY DEF MainConnect, exit
<1>2. ASSUME UNCHANGED <<vpn, state, phase, hears, autoInProgress, stack>>
      PROVE  Alone' /\ Known' /\ Shown' /\ Stage' = Stage
  <2>1. /\ \A c : Running(c)' <=> Running(c)
        /\ Warned' <=> Warned
        /\ Alive' <=> Alive
        /\ Stage' = Stage
    BY <1>1, <1>2 DEF Running, Alive, Stage, Warned
  <2>2. Alone'
    BY <1>2, <2>1 DEF Core, Alone
  <2>3. Known'
    BY <1>2, <2>1 DEF Core, Known
  <2>4. Shown'
    BY <1>1, <1>2, <2>1 DEF Core, Shown
  <2>. QED  BY <2>1, <2>2, <2>3, <2>4
<1>3. CASE status = "Disconnecting"
  <2>1. UNCHANGED <<vpn, state, phase, hears, autoInProgress, stack, lastAction, cancelAuto, missed>>
    BY <1>3 DEF MainConnect, ClientConnected, history
  <2>. QED  BY <1>1, <1>2, <1>3, <2>1
<1>4. CASE status = "Connected"
  <2>1. /\ UNCHANGED <<vpn, state, phase, hears, autoInProgress, stack, cancelAuto>>
        /\ lastAction' = "Connect"
        /\ missed' = CASE stack' # stack -> "nothing"
                       [] stack' = stack /\ Closing -> "connect"
                       [] stack' = stack /\ ~Closing -> missed
    BY <1>4 DEF MainConnect, ClientConnected, ConnectAuto
  <2>2. missed' = IF ClosingIn(stack) THEN "connect" ELSE missed
    BY <2>1 DEF Closing, ClosingIn
  <2>. QED  BY <1>1, <1>2, <1>4, <2>1, <2>2
<1>5. CASE status \notin {"Disconnecting", "Connected"}
  <2>1. /\ lastAction' = "Connect" /\ cancelAuto' = FALSE
        /\ Loop(stack, FALSE, [hears EXCEPT ![vpn] = @ \ {"message"}])
        /\ nested' = (nested \/ (stack # <<>> /\ stack' # stack))
    BY <1>5 DEF MainConnect, ClientConnected, ConnectAuto
  <2>2. stack' = Push(stack, Frame("download", Nobody)) \/ stack' = Push(stack, Frame("retry", Nobody))
    BY <1>5, <2>1 DEF Loop
  <2>3. stack' # stack
    BY <1>p, <2>2, PushChanges
  <2>4. stack = <<>>
    BY <2>1, <2>3 DEF Calm
  <2>5. Stage = "idle" /\ ~ClosingIn(stack)
    BY <2>4, NoneViews DEF Stage
  <2>6. status = "Disconnected" /\ ~Running(vpn)
    BY <1>5, <2>5 DEF Core, Shown
  <2>7. [hears EXCEPT ![vpn] = @ \ {"message"}] \in [Clients -> SUBSET Kinds]
    BY <1>p
  <2> DEFINE heard == [hears EXCEPT ![vpn] = @ \ {"message"}]
  <2>8. Loop(<<>>, FALSE, heard) /\ heard \in [Clients -> SUBSET Kinds] /\ Typed
        /\ status \notin Ends
    BY <2>1, <2>4, <2>6, <2>7 DEF Core, Ends
  <2> HIDE DEF heard
  <2>9. /\ phase' = phase /\ autoInProgress' = TRUE
        /\ vpn' \in Clients /\ ~Running(vpn')
        /\ state'[vpn'] = "DISCONNECTED" /\ hears'[vpn'] = Kinds
        /\ stack' # <<>> /\ Shape(stack') /\ \A c : Own(stack', c)
        /\ StageOf(stack') = "download" /\ ~ClosingIn(stack') /\ ~ClearingIn(stack')
    BY <2>8, LoopViews
  <2>10. /\ Stage' = "download" /\ ~Running(vpn)' /\ \A c \in Clients : ~Running(c)'
    BY <2>6, <2>9 DEF Stage, Running, Core, Alone
  <2>11. Alone'
    BY <2>9, <2>10 DEF Alone
  <2>12. Known'
    BY <2>9, <2>10 DEF Known, Alive
  <2>13. Shown'
    BY <1>1, <2>6, <2>10 DEF Shown
  <2>. QED  BY <2>1, <2>4, <2>10, <2>11, <2>12, <2>13
<1>. QED  BY <1>3, <1>4, <1>5

\* The steps that leave the clients and the calls alone.
LEMMA CoreAside ==
  ASSUME Core, RouteTimer \/ Quit \/ UNCHANGED vars, Calm'
  PROVE  /\ Alone' /\ Known' /\ Shown' /\ Stage' = Stage
<1>1. /\ UNCHANGED <<vpn, state, phase, hears, posted, autoInProgress, status, stack>>
  BY DEF RouteTimer, Quit, vars, clients, flags
<1>1a. quitting' = quitting \/ quitting' = TRUE
  BY DEF RouteTimer, Quit, vars, exit
<1>1b. quitting => quitting'
  BY <1>1a
<1>2. /\ \A c : Running(c)' <=> Running(c)
      /\ Warned' <=> Warned
      /\ Alive' <=> Alive
      /\ Stage' = Stage
  BY <1>1 DEF Running, Alive, Stage, Warned
<1>3. Alone'
  BY <1>1, <1>2 DEF Core, Alone
<1>4. Known'
  BY <1>1, <1>2 DEF Core, Known
<1>5. Shown'
  BY <1>1, <1>1b, <1>2 DEF Core, Shown
<1>. QED  BY <1>2, <1>3, <1>4, <1>5

\* The user's Disconnect and Cancel.
LEMMA CoreClicks ==
  ASSUME Core, ClickDisconnect \/ ClickCancel
  PROVE  /\ Alone' /\ Known' /\ Shown' /\ ~Alive' /\ Stage' = Stage
         /\ status' # "Connected"
         /\ ClearingIn(stack) => ClearingIn(stack')
         /\ ClickDisconnect => routes' = "none" \/ ClearingIn(stack')
<1>1. UNCHANGED <<vpn, phase, hears, autoInProgress, quitting>>
  BY DEF ClickDisconnect, ClickCancel, exit
<1>2. CASE ClickDisconnect
  <2>1. Handle("disconnect", state, stack) /\ "disconnect" \in Closers \ {"undo"} /\ Clears("disconnect")
    BY <1>2 DEF ClickDisconnect, Closers, Clears
  <2>. QED  BY <1>1, <2>1, HandleHere
<1>3. CASE ClickCancel /\ ~ClickDisconnect
  <2>1. Handle("cancel", state, stack) /\ "cancel" \in Closers \ {"undo"}
    BY <1>3 DEF ClickCancel, Closers
  <2>. QED  BY <1>1, <1>3, <2>1, HandleHere
<1>. QED  BY <1>2, <1>3

\* The client's own thread.
LEMMA CoreClient ==
  ASSUME Core, Client
  PROVE  /\ Alone' /\ Known' /\ Shown' /\ Stage' = Stage /\ (Alive' => Alive)
         /\ Warned => Warned'
<1>p. /\ vpn \in Clients /\ state \in [Clients -> States] /\ phase \in [Clients -> Phases]
      /\ posted \in Seq(Signal)
  BY CoreParts
<1>1. PICK c \in Clients : ClientUp(c) \/ ClientFails(c) \/ ClientEnds(c)
  BY DEF Client
<1>2. UNCHANGED <<vpn, hears, autoInProgress, quitting, status, stack>>
  BY <1>1 DEF Client, ClientUp, ClientFails, ClientEnds, flags, exit
<1>3. c = vpn
  <2>1. Running(c)
    BY <1>1 DEF ClientUp, ClientFails, ClientEnds, Running
  <2>. QED  BY <2>1 DEF Core, Alone
<1>4. Running(vpn) /\ hears[vpn] = Kinds /\ state[vpn] # "DISCONNECTED" /\ Stage # "download"
  BY <1>1, <1>3 DEF ClientUp, ClientFails, ClientEnds, Running, Core, Known
<1>5. Stage' = Stage
  BY <1>2 DEF Stage
<1>6. ASSUME NEW t \in Seq(Signal), Fail(vpn, t)
      PROVE  Warned' /\ state' = [state EXCEPT ![vpn] = "VPNERROR"]
  <2> DEFINE e == [client |-> vpn, sig |-> "error"]  u == <<e>>
  <2>1. Emit(vpn, "error") = u
    BY <1>4 DEF Emit, Kinds
  <2>2. u \in Seq(Signal) /\ DOMAIN u = {1} /\ u[1].sig = "error"
    <3>1. e \in Signal /\ e.sig = "error"
      BY <1>p DEF Signal, Kinds
    <3> HIDE DEF e
    <3>. QED  BY <3>1
  <2>3. posted' = posted \o t \o u
    BY <1>6, <2>1 DEF Fail
  <2> HIDE DEF u
  <2>4. Warned'
    BY <1>p, <2>2, <2>3, WarnAppend
  <2>. QED  BY <1>6, <2>4 DEF Fail
<1>7. <<>> \in Seq(Signal) /\ Emit(vpn, "message") \in Seq(Signal)
  BY <1>p, EmitTyped DEF Core, Kinds
<1>8. \A d \in Clients : d # vpn => phase'[d] = phase[d]
  BY <1>1, <1>3, <1>p DEF ClientUp, ClientFails, ClientEnds
<1>9. Alone'
  BY <1>2, <1>5, <1>8 DEF Core, Alone, Running
<1>10. CASE ClientUp(vpn)
  <2>1. /\ phase'[vpn] = "up" /\ state'[vpn] = "CONNECTED" /\ phase[vpn] = "trying"
        /\ posted' = posted
    BY <1>10, <1>p DEF ClientUp
  <2>2. Running(vpn)' /\ (Alive' <=> Alive) /\ (Warned' <=> Warned)
    BY <1>2, <1>4, <2>1 DEF Running, Alive, Warned
  <2>3. Known'
    BY <1>2, <1>4, <1>5, <2>1, <2>2 DEF Known
  <2>4. Alive => state[vpn] = "CONNECTING"
    BY <2>1 DEF Core, Known
  <2>5. Shown'
    BY <1>2, <1>4, <1>5, <2>1, <2>2, <2>4 DEF Core, Shown
  <2>. QED  BY <1>5, <1>9, <2>2, <2>3, <2>5
<1>11. CASE ClientFails(vpn)
  <2>1. Fail(vpn, <<>>) \/ Fail(vpn, Emit(vpn, "message"))
    BY <1>11 DEF ClientFails
  <2>2. Warned' /\ state' = [state EXCEPT ![vpn] = "VPNERROR"]
    BY <1>6, <1>7, <2>1
  <2>3. phase'[vpn] \in {"rejected", "dropped"} /\ state'[vpn] = "VPNERROR"
    BY <1>11, <1>p, <2>2 DEF ClientFails
  <2>4. Running(vpn)' /\ (Alive' <=> Alive)
    BY <1>2, <1>4, <2>3 DEF Running, Alive
  <2>5. Known'
    BY <1>2, <1>4, <1>5, <2>2, <2>3, <2>4 DEF Known
  <2>6. Shown'
    BY <1>2, <1>4, <1>5, <2>2, <2>3, <2>4 DEF Core, Shown
  <2>. QED  BY <1>5, <1>9, <2>2, <2>4, <2>5, <2>6
<1>12. CASE ClientEnds(vpn)
  <2>1. phase'[vpn] = "none"
    BY <1>12, <1>p DEF ClientEnds
  <2>2. ~Running(vpn)' /\ ~Alive'
    BY <1>2, <2>1 DEF Running, Alive
  <2>3. \/ Warned' /\ state'[vpn] = "VPNERROR"
        \/ /\ state[vpn] \notin {"CONNECTING", "CONNECTED"} /\ state' = state
           /\ Warned' <=> Warned
    <3>1. CASE state[vpn] \in {"CONNECTING", "CONNECTED"}
      <4>1. Fail(vpn, Emit(vpn, "message"))
        BY <1>12, <3>1 DEF ClientEnds
      <4>. QED  BY <4>1, <1>6, <1>7, <1>p
    <3>2. CASE state[vpn] \notin {"CONNECTING", "CONNECTED"}
      BY <1>12, <3>2 DEF ClientEnds, Warned
    <3>. QED  BY <3>1, <3>2
  <2>4. Known'
    BY <1>2, <1>4, <1>5, <2>2, <2>3 DEF Core, Known
  <2>5. ClosingIn(stack) \/ Warned'
    <3> SUFFICES ASSUME ~ClosingIn(stack)  PROVE Warned'
      OBVIOUS
    <3>1. Alive
      BY <1>4 DEF Alive
    <3>2. CASE state[vpn] \in {"CONNECTING", "CONNECTED"}
      BY <2>3, <3>2
    <3>3. CASE state[vpn] \notin {"CONNECTING", "CONNECTED"}
      <4>1. phase[vpn] \in {"rejected", "dropped"}
        BY <3>1, <3>3, <1>p DEF Core, Known, Alive, Running, Phases
      <4>. QED  BY <2>3, <3>1, <4>1 DEF Core, Known
    <3>. QED  BY <3>2, <3>3
  <2>6. Shown'
    BY <1>2, <1>4, <1>5, <2>2, <2>5 DEF Core, Shown
  <2>7. Warned => Warned'
    BY <2>3
  <2>. QED  BY <1>5, <1>9, <2>2, <2>4, <2>6, <2>7
<1>. QED  BY <1>1, <1>3, <1>10, <1>11, <1>12

\* As long as there is one onConnect at a time, every step keeps the core.
LEMMA CoreStep ==
  ASSUME Core, [Next]_vars, Calm'
  PROVE  Alone' /\ Known' /\ Shown'
<1>1. CASE Calls
  BY <1>1, CoreFailed, CoreDownloaded, CoreOpenTrue, CoreOpenLate, CoreLateError, CorePauseOver,
     CoreSettleOver, CoreNoRetry, CoreCloseReturn DEF Calls
<1>2. CASE Events
  BY <1>2, CoreDeliver, CoreMainConnect, CoreAside DEF Events, ReconnectTimer
<1>3. CASE User
  BY <1>3, CoreMainConnect, CoreClicks, CoreAside DEF User, ClickConnect
<1>4. CASE Client
  BY <1>4, CoreClient
<1>5. CASE UNCHANGED vars
  BY <1>5, CoreAside
<1>. QED  BY <1>1, <1>2, <1>3, <1>4, <1>5 DEF Next

Steady == Calm => Alone /\ Known /\ Shown

LEMMA SteadyStep ==
  ASSUME Typed, Steady, [Next]_vars
  PROVE  Steady'
<1> SUFFICES ASSUME Calm'  PROVE Alone' /\ Known' /\ Shown'
  BY DEF Steady
<1>1. Calm
  BY CalmBefore
<1>2. Core
  BY <1>1 DEF Core, Steady
<1>. QED  BY <1>2, CoreStep

LEMMA AlwaysSteady == Spec => [](Typed /\ Steady)
<1>1. Init => Typed /\ Steady
  BY InitTyped, InitCore DEF Steady
<1>2. Typed /\ Steady /\ [Next]_vars => Typed' /\ Steady'
  BY StepTyped, SteadyStep
<1>. QED  BY <1>1, <1>2, PTL DEF Spec

-----------------------------------------------------------------------------
(* The last click *)

\* While a cancel is the last action cancelAutoConnect is set, nothing is announced and
\* no attempt can succeed; while a connect is, no attempt will stop by itself.
Cancels ==
  /\ lastAction = "CancelConnect" => cancelAuto
  /\ lastAction = "CancelConnect" /\ missed # "cancel"
       => status # "Connected" /\ ~(Stage = "open" /\ Alive)
  /\ lastAction = "Connect" /\ Stage \notin {"idle", "settle"} => ~cancelAuto

\* No step changes the last action, but for the clicks and the timer.
LEMMA CallsCancels ==
  ASSUME Core, Cancels, Calls
  PROVE  Cancels'
<1>1. CASE DownloadFails \/ OpenFalse \/ OpenGaveUp
  <2>1. UNCHANGED <<lastAction, cancelAuto, missed>>
    BY <1>1 DEF DownloadFails, OpenFalse, OpenGaveUp, history
  <2>. QED  BY <1>1, <2>1, CoreFailed DEF Cancels
<1>2. CASE Downloaded
  <2>1. UNCHANGED <<lastAction, cancelAuto>> /\ (cancelAuto => missed' = "cancel")
    BY <1>2 DEF Downloaded
  <2>. QED  BY <1>2, <2>1, CoreDownloaded DEF Cancels
<1>3. CASE OpenTrue
  <2>1. UNCHANGED <<lastAction, cancelAuto, missed>>
    BY <1>3 DEF OpenTrue, history
  <2>. QED  BY <1>3, <2>1, CoreOpenTrue DEF Cancels
<1>4. CASE OpenLate
  <2>1. UNCHANGED <<lastAction, cancelAuto, missed>>
    BY <1>4 DEF OpenLate, history
  <2>. QED  BY <1>4, <2>1, CoreOpenLate DEF Cancels
<1>5. CASE OpenLateError
  <2>1. UNCHANGED <<lastAction, cancelAuto>>
    BY <1>5 DEF OpenLateError
  <2>. QED  BY <1>5, <2>1, CoreLateError DEF Cancels
<1>6. CASE PauseOver
  <2>1. UNCHANGED <<lastAction, cancelAuto, missed>>
    BY <1>6 DEF PauseOver, history
  <2>. QED  BY <1>6, <2>1, CorePauseOver DEF Cancels
<1>7. CASE SettleOver
  <2>1. UNCHANGED <<lastAction, cancelAuto, missed, status>>
    BY <1>7 DEF SettleOver, history
  <2>. QED  BY <1>7, <2>1, CoreSettleOver DEF Cancels
<1>8. CASE CloseReturn
  <2>1. UNCHANGED <<lastAction, cancelAuto, missed>>
    BY <1>8 DEF CloseReturn, history
  <2>. QED  BY <1>8, <2>1, CoreCloseReturn DEF Cancels
<1>. QED  BY <1>1, <1>2, <1>3, <1>4, <1>5, <1>6, <1>7, <1>8, CoreNoRetry DEF Calls

LEMMA OthersCancels ==
  ASSUME Core, Cancels, Events \/ User \/ Client \/ UNCHANGED vars, Calm'
  PROVE  Cancels'
<1>1. CASE Deliver
  <2>1. UNCHANGED <<lastAction, cancelAuto>> /\ (missed' = missed \/ lastAction = "Connect")
    BY <1>1 DEF Deliver, Error
  <2>. QED  BY <1>1, <2>1, CoreDeliver DEF Cancels
<1>2. CASE MainConnect
  <2>1. /\ status = "Connected" => Stage \in {"idle", "settle"}
        /\ Alive' /\ UNCHANGED <<stack, vpn, phase>> => Alive
    BY DEF Core, Shown, Alive, Running
  <2>2. CASE UNCHANGED <<status, stack, lastAction, cancelAuto, missed, vpn, phase>> /\ Stage' = Stage
    BY <2>1, <2>2 DEF Cancels
  <2>3. CASE status = "Connected" /\ lastAction' = "Connect" /\ Stage' = Stage
    BY <2>1, <2>3 DEF Cancels
  <2>4. CASE Stage' = "download" /\ lastAction' = "Connect" /\ cancelAuto' = FALSE
    BY <2>4 DEF Cancels
  <2>. QED  BY <1>2, <2>2, <2>3, <2>4, CoreMainConnect
<1>3. CASE RouteTimer \/ Quit \/ UNCHANGED vars
  <2>1. UNCHANGED <<lastAction, cancelAuto, missed, status, stack, vpn, phase>>
    BY <1>3 DEF RouteTimer, Quit, vars, clients, flags, history
  <2>. QED  BY <1>3, <2>1, CoreAside DEF Cancels, Alive, Running
<1>4. CASE ClickDisconnect \/ ClickCancel
  <2>1. lastAction' # "Connect" /\ (lastAction' = "CancelConnect" => cancelAuto' = TRUE)
    BY <1>4 DEF ClickDisconnect, ClickCancel, StopTrying
  <2>2. status' # "Connected" /\ ~Alive'
    BY <1>4, CoreClicks
  <2>. QED  BY <2>1, <2>2 DEF Cancels
<1>5. CASE Client
  <2>1. UNCHANGED <<lastAction, cancelAuto, missed, status>>
    BY <1>5 DEF Client, flags, history
  <2>. QED  BY <1>5, <2>1, CoreClient DEF Cancels
<1>. QED  BY <1>1, <1>2, <1>3, <1>4, <1>5 DEF Events, User, ReconnectTimer, ClickConnect

-----------------------------------------------------------------------------
(* Lost connections *)

\* Every message of a failure is followed by its error.
Told == \A i \in DOMAIN posted : posted[i].sig = "message" =>
          \E j \in DOMAIN posted : i < j /\ posted[j].sig = "error"

\* What a client posts ends with an error.
LEMMA ClientPosts ==
  ASSUME Core, Client
  PROVE  \/ posted' = posted /\ (phase[vpn] = "trying" \/ ~Running(vpn)')
         \/ \E t \in Seq(Signal), e \in Signal : e.sig = "error" /\ posted' = posted \o t \o <<e>>
<1>p. vpn \in Clients /\ phase \in [Clients -> Phases] /\ Typed
  BY CoreParts DEF Core
<1>1. PICK c \in Clients : ClientUp(c) \/ ClientFails(c) \/ ClientEnds(c)
  BY DEF Client
<1>2. c = vpn
  <2>1. Running(c)
    BY <1>1 DEF ClientUp, ClientFails, ClientEnds, Running
  <2>. QED  BY <2>1 DEF Core, Alone
<1>3. hears[vpn] = Kinds /\ vpn' = vpn
  BY <1>1, <1>2 DEF ClientUp, ClientFails, ClientEnds, Running, Core, Known
<1>4. ASSUME NEW t \in Seq(Signal), Fail(vpn, t)
      PROVE  \E e \in Signal : e.sig = "error" /\ posted' = posted \o t \o <<e>>
  <2> DEFINE e == [client |-> vpn, sig |-> "error"]
  <2>1. posted' = posted \o t \o <<e>>
    BY <1>3, <1>4 DEF Emit, Kinds, Fail
  <2>2. e \in Signal /\ e.sig = "error"
    BY <1>p DEF Signal, Kinds
  <2>. QED  BY <2>1, <2>2
<1>5. <<>> \in Seq(Signal) /\ Emit(vpn, "message") \in Seq(Signal)
  BY <1>p, EmitTyped DEF Kinds
<1>6. CASE Fail(vpn, <<>>) \/ Fail(vpn, Emit(vpn, "message"))
  BY <1>4, <1>5, <1>6
<1>7. CASE ~(Fail(vpn, <<>>) \/ Fail(vpn, Emit(vpn, "message")))
  <2>1. ClientUp(vpn) \/ (ClientEnds(vpn) /\ posted' = posted)
    BY <1>1, <1>2, <1>7 DEF ClientFails, ClientEnds
  <2>. QED  BY <2>1, <1>3, <1>p DEF ClientUp, ClientEnds, Running
<1>. QED  BY <1>6, <1>7

LEMMA ToldAppend ==
  ASSUME posted \in Seq(Signal), NEW t \in Seq(Signal), NEW e \in Signal, e.sig = "error",
         posted' = posted \o t \o <<e>>
  PROVE  /\ Told' /\ Warned'
         /\ Warned => \E i, j \in DOMAIN posted' :
                        i < j /\ posted'[i].sig = "error" /\ posted'[j].sig = "error"
<1> DEFINE n == Len(posted) + Len(t) + 1
<1>1. /\ Len(posted) \in Nat /\ Len(t) \in Nat /\ DOMAIN posted = 1..Len(posted)
      /\ <<e>> \in Seq(Signal) /\ Len(<<e>>) = 1 /\ <<e>>[1] = e
  OBVIOUS
<1>2. /\ DOMAIN posted' = 1..n /\ n \in DOMAIN posted'
      /\ posted'[n] = e
      /\ \A i \in DOMAIN posted : i \in DOMAIN posted' /\ i < n /\ posted'[i] = posted[i]
  BY <1>1
<1>3. \A i \in DOMAIN posted' : i < n \/ i = n
  <2>1. n \in Nat
    BY <1>1
  <2> HIDE DEF n
  <2>2. \A i \in 1..n : i < n \/ i = n
    BY <2>1
  <2> USE DEF n
  <2>. QED  BY <1>2, <2>2
<1> HIDE DEF n
<1>4. Told'
  <2> SUFFICES ASSUME NEW i \in DOMAIN posted', posted'[i].sig = "message"
               PROVE  \E j \in DOMAIN posted' : i < j /\ posted'[j].sig = "error"
    BY DEF Told
  <2>1. i # n
    BY <1>2
  <2>. QED  BY <1>2, <1>3, <2>1
<1>5. Warned'
  BY <1>2 DEF Warned
<1>6. ASSUME Warned
      PROVE  \E i, j \in DOMAIN posted' :
               i < j /\ posted'[i].sig = "error" /\ posted'[j].sig = "error"
  <2>1. PICK i \in DOMAIN posted : posted[i].sig = "error"
    BY <1>6 DEF Warned
  <2>2. i \in DOMAIN posted' /\ i < n /\ posted'[i].sig = "error" /\ posted'[n].sig = "error"
    BY <2>1, <1>2
  <2>. QED  BY <2>2, <1>2
<1>. QED  BY <1>4, <1>5, <1>6

\* What a delivery leaves.
LEMMA TailViews ==
  ASSUME posted \in Seq(Signal), posted # <<>>, posted' = Tail(posted)
  PROVE  /\ Told => Told'
         /\ Told /\ Head(posted).sig = "message" => Warned'
         /\ (\E i, j \in DOMAIN posted : i < j /\ posted[i].sig = "error" /\ posted[j].sig = "error")
              => Warned'
<1>1. /\ Len(posted) \in Nat \ {0} /\ DOMAIN posted = 1..Len(posted)
      /\ DOMAIN posted' = 1..(Len(posted) - 1)
      /\ \A i \in DOMAIN posted' : i + 1 \in DOMAIN posted /\ posted'[i] = posted[i + 1]
  OBVIOUS
<1>2. \A j \in DOMAIN posted : j > 1 => j - 1 \in DOMAIN posted' /\ posted'[j - 1] = posted[j]
  BY <1>1
<1>3. ASSUME Told  PROVE Told'
  <2> SUFFICES ASSUME NEW i \in DOMAIN posted', posted'[i].sig = "message"
               PROVE  \E j \in DOMAIN posted' : i < j /\ posted'[j].sig = "error"
    BY DEF Told
  <2>1. i + 1 \in DOMAIN posted /\ posted[i + 1].sig = "message" /\ i \in Nat \ {0}
    BY <1>1
  <2>2. PICK j \in DOMAIN posted : i + 1 < j /\ posted[j].sig = "error"
    BY <1>3, <2>1 DEF Told
  <2>3. j \in Nat /\ j > 1 /\ i < j - 1
    BY <2>1, <2>2, <1>1
  <2>. QED  BY <1>2, <2>2, <2>3
<1>4. ASSUME NEW i \in DOMAIN posted, NEW j \in DOMAIN posted, i < j, posted[j].sig = "error"
      PROVE  Warned'
  <2>1. j > 1
    BY <1>1, <1>4
  <2>. QED  BY <1>2, <1>4, <2>1 DEF Warned
<1>5. ASSUME Told, Head(posted).sig = "message"  PROVE Warned'
  <2>1. 1 \in DOMAIN posted /\ posted[1].sig = "message"
    BY <1>1, <1>5
  <2>. QED  BY <1>4, <1>5, <2>1 DEF Told
<1>. QED  BY <1>3, <1>4, <1>5

LEMMA ToldStep ==
  ASSUME Core, Told, [Next]_vars
  PROVE  Told'
<1>p. posted \in Seq(Signal)
  BY CoreParts
<1>1. CASE Deliver
  <2>1. posted # <<>> /\ posted' = Tail(posted)
    BY <1>1 DEF Deliver
  <2>. QED  BY <1>p, <2>1, TailViews
<1>2. CASE Client
  <2>1. CASE posted' = posted
    BY <2>1 DEF Told
  <2>. QED  BY <1>p, <1>2, <2>1, ClientPosts, ToldAppend
<1>3. CASE posted' = posted
  BY <1>3 DEF Told
<1>4. Deliver \/ Client \/ posted' = posted
  BY DEF Next, Calls, DownloadFails, Downloaded, OpenTrue, OpenFalse, OpenLate, OpenLateError,
     OpenGaveUp, PauseOver, SettleOver, RetryOver, CloseReturn, Events, ReconnectTimer,
     MainConnect, RouteTimer, User, ClickConnect, ClickDisconnect, ClickCancel, Quit, vars, clients
<1>. QED  BY <1>1, <1>2, <1>3, <1>4

\* No connection, or one that a close() ends.
Lost == Stage \in {"idle", "settle"} /\ (status # "Connected" \/ ClosingIn(stack))

\* Whoever wants a connection and has lost it hears of an error, has heard of it and
\* waits for the timer, or belongs to the exceptions.
Drops == ReconnectOnDrop /\ lastAction = "Connect" /\ Lost
           => \/ Warned \/ missed \in {"drop", "connect"}
              \/ Stage = "idle" /\ reconnects > 0 /\ status # "Disconnecting"

\* A client that fails while a message closes it has posted another error after the one
\* that belongs to the message.
Twice == ~quitting /\ ReconnectOnDrop /\ lastAction = "Connect" /\ Stage \in {"idle", "settle"}
         /\ status = "Disconnecting" /\ Running(vpn) /\ state[vpn] # "DISCONNECTING"
           => \/ missed \in {"drop", "connect"}
              \/ \E i, j \in DOMAIN posted :
                   i < j /\ posted[i].sig = "error" /\ posted[j].sig = "error"

LEMMA CallsDrops ==
  ASSUME Core, Cancels, Drops, Calls
  PROVE  Drops' /\ Twice'
<1>1. CASE DownloadFails \/ OpenFalse \/ OpenGaveUp
  BY <1>1, CoreFailed DEF Drops, Twice, Lost
<1>2. CASE Downloaded
  BY <1>2, CoreDownloaded DEF Drops, Twice, Lost
<1>3. CASE OpenTrue
  BY <1>3, CoreOpenTrue DEF Drops, Twice, Lost
<1>4. CASE OpenLate \/ OpenLateError
  BY <1>4, CoreOpenLate, CoreLateError DEF Drops, Twice, Lost
<1>5. CASE PauseOver
  <2>1. lastAction' = lastAction
    BY <1>5 DEF PauseOver
  <2>2. Stage' = "download" \/ lastAction # "Connect"
    BY <1>5, CorePauseOver DEF Cancels
  <2>. QED  BY <2>1, <2>2 DEF Drops, Twice, Lost
<1>6. CASE SettleOver
  <2>1. UNCHANGED <<lastAction, missed, status, posted, reconnects>>
    BY <1>6 DEF SettleOver, history, clients, timers
  <2>2. status # "Disconnecting"
    BY <1>6, CoreSettleOver DEF Core, Shown
  <2>3. Warned' <=> Warned
    BY <2>1 DEF Warned
  <2>. QED  BY <1>6, <2>1, <2>2, <2>3, CoreSettleOver DEF Drops, Twice, Lost
<1>7. CASE CloseReturn
  <2>1. UNCHANGED <<lastAction, missed, posted, reconnects>>
    BY <1>7 DEF CloseReturn, history
  <2>2. Warned' <=> Warned
    BY <2>1 DEF Warned
  <2>. QED  BY <1>7, <2>1, <2>2, CoreCloseReturn DEF Drops, Twice, Lost
<1>. QED  BY <1>1, <1>2, <1>3, <1>4, <1>5, <1>6, <1>7, CoreNoRetry DEF Calls

LEMMA DeliverDrops ==
  ASSUME Core, Told, Drops, Twice, Deliver
  PROVE  Drops' /\ Twice'
<1>p. /\ posted \in Seq(Signal) /\ IsStack(stack) /\ reconnects \in 0..MaxTimers
      /\ state \in [Clients -> States] /\ vpn \in Clients
  BY CoreParts DEF Core, Typed, TimersTyped
<1>1. /\ UNCHANGED <<vpn, phase, lastAction, autoInProgress>> /\ ~quitting
      /\ posted # <<>> /\ posted' = Tail(posted) /\ Stage' = Stage
      /\ Head(posted).sig \in {"error", "message"}
  BY CoreDeliver DEF Deliver, InLoop
<1>2. CASE ~ReconnectOnDrop
  BY <1>2 DEF Drops, Twice
<1>3. CASE ReconnectOnDrop /\ lastAction = "Connect"
  <2>1. PICK h \in {"error", "message"} : Handle(h, state, stack)
    BY <1>3 DEF Deliver, Error
  <2>2. \/ state'[vpn] = "DISCONNECTING" /\ CanClose(state, vpn)
        \/ status' = "Disconnected"
    BY <2>1, <1>p DEF Handle
  <2>3. Twice'
    BY <1>1, <2>2 DEF Twice
  <2>4. CASE Head(posted).sig = "message"
    <3>1. Warned'
      BY <1>p, <1>1, <2>4, TailViews
    <3>. QED  BY <2>3, <3>1 DEF Drops
  <2>5. CASE Head(posted).sig = "error"
    <3>1. Error(state, stack)
      BY <2>5 DEF Deliver
    <3>2. CASE Stage = "idle"
      <4>1. ~autoInProgress
        BY <3>2 DEF Core, Alone
      <4>2. reconnects' > 0
        <5>1. Reconnects
          BY <1>3, <4>1 DEF Reconnects
        <5>2. reconnects' = IF reconnects < MaxTimers THEN reconnects + 1 ELSE reconnects
          BY <3>1, <5>1 DEF Error
        <5>. QED  BY <5>2, <1>p, SessionAssumption
      <4>3. missed' = missed
        BY <3>1, <4>1 DEF Error
      <4>4. CASE status' # "Disconnecting"
        BY <1>1, <2>3, <3>2, <4>2, <4>4 DEF Drops
      <4>5. CASE status' = "Disconnecting"
        <5>1. status = "Disconnecting"
          BY <2>5, <4>5, CoreDeliver
        <5>2. Running(vpn) /\ state[vpn] # "DISCONNECTING"
          BY <2>2, <4>5 DEF CanClose
        <5>3. \/ missed \in {"drop", "connect"}
              \/ \E i, j \in DOMAIN posted :
                   i < j /\ posted[i].sig = "error" /\ posted[j].sig = "error"
          BY <1>1, <1>3, <3>2, <5>1, <5>2 DEF Twice
        <5>4. missed' \in {"drop", "connect"} \/ Warned'
          BY <1>p, <1>1, <4>3, <5>3, TailViews
        <5>. QED  BY <2>3, <5>4 DEF Drops
      <4>. QED  BY <4>4, <4>5
    <3>3. CASE Stage = "settle"
      <4>1. autoInProgress
        BY <3>3 DEF Core, Alone
      <4>2. \E i \in DOMAIN stack : stack[i].at = "settle"
        <5>1. stack # <<>> /\ stack[1].at = "settle"
          BY <3>3 DEF Stage, StageOf
        <5>2. 1 \in DOMAIN stack
          BY <5>1, <1>p, TopTyped DEF IsStack
        <5>. QED  BY <5>1, <5>2
      <4>3. missed' = "drop"
        BY <1>3, <3>1, <4>1, <4>2 DEF Error
      <4>. QED  BY <2>3, <4>3 DEF Drops
    <3>4. CASE Stage \notin {"idle", "settle"}
      BY <1>1, <2>3, <3>4 DEF Drops, Lost
    <3>. QED  BY <3>2, <3>3, <3>4
  <2>. QED  BY <1>1, <2>4, <2>5
<1>4. CASE lastAction # "Connect"
  BY <1>1, <1>4 DEF Drops, Twice
<1>. QED  BY <1>2, <1>3, <1>4

LEMMA OthersDrops ==
  ASSUME Core, Drops, Twice, ReconnectTimer \/ RouteTimer \/ User \/ Client \/ UNCHANGED vars, Calm'
  PROVE  Drops' /\ Twice'
<1>p. posted \in Seq(Signal) /\ reconnects \in 0..MaxTimers
  BY CoreParts DEF Core, Typed, TimersTyped
<1>1. CASE MainConnect
  <2>1. quitting' = quitting
    BY <1>1 DEF MainConnect, exit
  <2>2. CASE /\ status = "Disconnecting" /\ Stage' = Stage
             /\ UNCHANGED <<status, stack, lastAction, missed, vpn, phase, posted, state>>
    <3>1. (Warned' <=> Warned) /\ (Running(vpn)' <=> Running(vpn)) /\ (Lost' <=> Lost)
      BY <2>2 DEF Warned, Running, Lost
    <3>. QED  BY <2>1, <2>2, <3>1 DEF Drops, Twice
  <2>3. CASE /\ status = "Connected" /\ Stage' = Stage /\ UNCHANGED <<status, stack>>
             /\ missed' = IF ClosingIn(stack) THEN "connect" ELSE missed
    BY <2>3 DEF Drops, Twice, Lost
  <2>4. CASE Stage' = "download"
    BY <2>4 DEF Drops, Twice, Lost
  <2>. QED  BY <1>1, <2>2, <2>3, <2>4, CoreMainConnect
<1>2. CASE RouteTimer \/ Quit \/ UNCHANGED vars
  <2>1. /\ UNCHANGED <<lastAction, missed, status, stack, vpn, phase, posted, state, reconnects>>
    BY <1>2 DEF RouteTimer, Quit, vars, clients, flags, history, timers
  <2>1a. quitting' = quitting \/ quitting' = TRUE
    BY <1>2 DEF RouteTimer, Quit, vars, exit
  <2>2. /\ (Warned' <=> Warned) /\ (Running(vpn)' <=> Running(vpn)) /\ (Lost' <=> Lost)
        /\ Stage' = Stage
    BY <2>1 DEF Warned, Running, Lost, Stage
  <2>3. Drops'
    BY <2>1, <2>2 DEF Drops
  <2>4. Twice'
    BY <2>1, <2>1a, <2>2 DEF Twice
  <2>. QED  BY <2>3, <2>4
<1>3. CASE ClickDisconnect \/ ClickCancel
  <2>1. lastAction' # "Connect"
    BY <1>3 DEF ClickDisconnect, ClickCancel
  <2>. QED  BY <2>1 DEF Drops, Twice
<1>4. CASE Client
  <2>1. UNCHANGED <<lastAction, missed, status, stack, reconnects, quitting>>
    BY <1>4 DEF Client, flags, history, timers, exit
  <2>2. Stage' = Stage /\ (Warned => Warned') /\ (Lost' <=> Lost)
    BY <1>4, <2>1, CoreClient DEF Lost
  <2>3. Drops'
    BY <2>1, <2>2 DEF Drops
  <2>4. CASE posted' = posted /\ (phase[vpn] = "trying" \/ ~Running(vpn)')
    <3>1. vpn' = vpn
      BY <1>4 DEF Client, ClientUp, ClientFails, ClientEnds
    <3>2. phase[vpn] = "trying" => Running(vpn)
      BY DEF Running
    <3>3. phase[vpn] = "trying" /\ Stage \in {"idle", "settle"} => quitting
      BY <3>2 DEF Core, Shown
    <3>. QED  BY <2>1, <2>2, <2>3, <2>4, <3>1, <3>3 DEF Twice
  <2>5. CASE \E t \in Seq(Signal), e \in Signal : e.sig = "error" /\ posted' = posted \o t \o <<e>>
    <3>1. Warned => \E i, j \in DOMAIN posted' :
                      i < j /\ posted'[i].sig = "error" /\ posted'[j].sig = "error"
      BY <1>p, <2>5, ToldAppend
    <3>2. Twice'
      BY <2>1, <2>2, <3>1 DEF Twice, Drops, Lost
    <3>. QED  BY <2>3, <3>2
  <2>. QED  BY <1>4, <2>4, <2>5, ClientPosts
<1>. QED  BY <1>1, <1>2, <1>3, <1>4 DEF User, ReconnectTimer, ClickConnect

-----------------------------------------------------------------------------
(* Routes *)

\* Routes of a connection that is gone, but for one the user cancelled, are about to be
\* cleared by an error that is on its way or by a handler that waits for its close(), and
\* so are those of a connection the user has ended.
Cleans ==
  /\ lastAction # "CancelConnect" /\ Lost /\ routes = "in" => Warned \/ ClearingIn(stack)
  /\ lastAction = "Disconnect" /\ Stage \notin {"idle", "settle"} /\ routes = "in"
       => ClearingIn(stack)

LEMMA CallsCleans ==
  ASSUME Core, Cancels, Cleans, Calls
  PROVE  Cleans'
<1>1. CASE DownloadFails \/ OpenFalse \/ OpenGaveUp
  <2>1. UNCHANGED <<lastAction, routes>>
    BY <1>1 DEF DownloadFails, OpenFalse, OpenGaveUp, timers
  <2>. QED  BY <1>1, <2>1, CoreFailed DEF Cleans, Lost
<1>2. CASE Downloaded
  <2>1. UNCHANGED <<lastAction, routes>>
    BY <1>2 DEF Downloaded, timers
  <2>. QED  BY <1>2, <2>1, CoreDownloaded DEF Cleans, Lost
<1>3. CASE OpenTrue
  BY <1>3, CoreOpenTrue DEF Cleans, Lost
<1>4. CASE OpenLate \/ OpenLateError
  <2>1. lastAction' = lastAction
    BY <1>4 DEF OpenLate, OpenLateError
  <2>. QED  BY <1>4, <2>1, CoreOpenLate, CoreLateError DEF Cleans, Lost
<1>5. CASE PauseOver
  <2>1. UNCHANGED <<lastAction, routes>>
    BY <1>5 DEF PauseOver, timers
  <2>2. \/ Stage' = "download"
        \/ lastAction # "Connect"
    BY <1>5, CorePauseOver DEF Cancels
  <2>3. lastAction \in {"Connect", "Disconnect", "CancelConnect"}
    BY DEF Core, Typed, FlagsTyped
  <2>. QED  BY <1>5, <2>1, <2>2, <2>3, CorePauseOver DEF Cleans, Lost
<1>6. CASE SettleOver
  <2>1. UNCHANGED <<lastAction, status, posted, routes>>
    BY <1>6 DEF SettleOver, clients, timers
  <2>2. Warned' <=> Warned
    BY <2>1 DEF Warned
  <2>3. ~ClearingIn(stack)
    <3>1. \A h : Clears(h) => h \in Closers
      BY DEF Clears, Closers
    <3>. QED  BY <1>6, <3>1, CoreSettleOver DEF ClosingIn, ClearingIn
  <2>. QED  BY <1>6, <2>1, <2>2, <2>3, CoreSettleOver DEF Cleans, Lost
<1>7. CASE CloseReturn
  <2>1. UNCHANGED <<lastAction, posted>>
    BY <1>7 DEF CloseReturn
  <2>2. Warned' <=> Warned
    BY <2>1 DEF Warned
  <2>. QED  BY <1>7, <2>1, <2>2, CoreCloseReturn DEF Cleans, Lost
<1>. QED  BY <1>1, <1>2, <1>3, <1>4, <1>5, <1>6, <1>7, CoreNoRetry DEF Calls

LEMMA OthersCleans ==
  ASSUME Core, Told, Cleans, Events \/ User \/ Client \/ UNCHANGED vars, Calm'
  PROVE  Cleans'
<1>p. posted \in Seq(Signal)
  BY CoreParts
<1>1. CASE Deliver
  <2>1. lastAction' = lastAction /\ posted # <<>> /\ posted' = Tail(posted)
    BY <1>1 DEF Deliver
  <2>2. CASE Head(posted).sig = "error"
    <3>1. routes' = "none" \/ ClearingIn(stack')
      BY <1>1, <2>2, CoreDeliver
    <3>. QED  BY <3>1 DEF Cleans
  <2>3. CASE Head(posted).sig = "message"
    <3>1. Warned'
      BY <1>p, <2>1, <2>3, TailViews
    <3>. QED  BY <1>1, <2>1, <3>1, CoreDeliver DEF Cleans
  <2>. QED  BY <1>1, <2>2, <2>3 DEF Deliver
<1>2. CASE MainConnect
  <2>1. CASE /\ Stage' = Stage /\ UNCHANGED <<status, stack, routes, lastAction, posted>>
    <3>1. (Warned' <=> Warned) /\ (Lost' <=> Lost)
      BY <2>1 DEF Warned, Lost
    <3>. QED  BY <2>1, <3>1 DEF Cleans
  <2>2. CASE /\ status = "Connected" /\ lastAction' = "Connect" /\ Stage' = Stage
             /\ UNCHANGED <<status, stack>>
    <3>1. ClosingIn(stack) => ClearingIn(stack)
      BY <2>2 DEF Core, Shown
    <3>. QED  BY <2>2, <3>1 DEF Cleans, Lost
  <2>3. CASE Stage' = "download" /\ lastAction' = "Connect"
    BY <2>3 DEF Cleans, Lost
  <2>. QED  BY <1>2, <2>1, <2>2, <2>3, CoreMainConnect
<1>3. CASE RouteTimer \/ Quit \/ UNCHANGED vars
  <2>1. /\ UNCHANGED <<lastAction, status, stack, posted>>
        /\ routes' = "in" => routes = "in" \/ status = "Connected"
    BY <1>3 DEF RouteTimer, Quit, vars, clients, flags, timers
  <2>2. (Warned' <=> Warned) /\ (Lost' <=> Lost) /\ Stage' = Stage
    BY <2>1 DEF Warned, Lost, Stage
  <2>3. status = "Connected" => /\ Stage \in {"idle", "settle"}
                                /\ ClosingIn(stack) => ClearingIn(stack)
    BY DEF Core, Shown
  <2>. QED  BY <2>1, <2>2, <2>3 DEF Cleans, Lost
<1>4. CASE ClickDisconnect
  <2>1. routes' = "none" \/ ClearingIn(stack')
    BY <1>4, CoreClicks
  <2>. QED  BY <2>1 DEF Cleans
<1>5. CASE ClickCancel
  <2>1. lastAction' = "CancelConnect"
    BY <1>5 DEF ClickCancel
  <2>. QED  BY <2>1 DEF Cleans
<1>6. CASE Client
  <2>1. UNCHANGED <<lastAction, status, stack, routes>>
    BY <1>6 DEF Client, flags, timers
  <2>2. Stage' = Stage /\ (Warned => Warned') /\ (Lost' <=> Lost)
    BY <1>6, <2>1, CoreClient DEF Lost
  <2>. QED  BY <2>1, <2>2 DEF Cleans
<1>. QED  BY <1>1, <1>2, <1>3, <1>4, <1>5, <1>6 DEF Events, User, ReconnectTimer, ClickConnect

-----------------------------------------------------------------------------
(* The session's invariants *)

Session == Steady /\ (Calm => Cancels /\ Told /\ Drops /\ Twice /\ Cleans)

LEMMA InitSession == Init => Session
<1> SUFFICES ASSUME Init  PROVE Session
  OBVIOUS
<1>1. Steady
  BY InitCore DEF Steady
<1>2. lastAction = "Connect" /\ ~cancelAuto /\ posted = <<>> /\ routes = "none" /\ status = "Disconnected"
      /\ autoInProgress
  BY DEF Init
<1>3. Stage = "download"
  <2> DEFINE f == Frame("download", Nobody)
  <2>1. f \in Call /\ Paired(f) /\ f.at = "download" /\ stack = <<f>>
    BY FrameTyped DEF Attempts, Waits, Init
  <2> HIDE DEF f
  <2>. QED  BY <2>1, OneViews DEF Stage, Attempts
<1>4. Told
  BY <1>2 DEF Told
<1>. QED  BY <1>1, <1>2, <1>3, <1>4 DEF Session, Cancels, Drops, Twice, Cleans, Lost

LEMMA SessionStep ==
  ASSUME Typed, Session, [Next]_vars
  PROVE  Session'
<1>1. Steady'
  BY SteadyStep DEF Session
<1>2. ASSUME Calm'  PROVE Cancels' /\ Told' /\ Drops' /\ Twice' /\ Cleans'
  <2>1. Core /\ Cancels /\ Told /\ Drops /\ Twice /\ Cleans
    BY <1>2, CalmBefore DEF Core, Session, Steady
  <2>2. Told'
    BY <2>1, ToldStep
  <2>3. CASE Calls
    BY <2>1, <2>2, <2>3, CallsCancels, CallsDrops, CallsCleans
  <2>4. CASE Events \/ User \/ Client \/ UNCHANGED vars
    <3>1. Cancels' /\ Cleans'
      BY <1>2, <2>1, <2>4, OthersCancels, OthersCleans
    <3>2. Drops' /\ Twice'
      BY <1>2, <2>1, <2>4, DeliverDrops, OthersDrops DEF Events
    <3>. QED  BY <2>2, <3>1, <3>2
  <2>. QED  BY <2>3, <2>4 DEF Next
<1>. QED  BY <1>1, <1>2 DEF Session

LEMMA AlwaysSession == Spec => [](Typed /\ Session)
<1>1. Init => Typed /\ Session
  BY InitTyped, InitSession
<1>2. Typed /\ Session /\ [Next]_vars => Typed' /\ Session'
  BY StepTyped, SessionStep
<1>. QED  BY <1>1, <1>2, PTL DEF Spec

\* At rest no call waits, and with one onConnect at a time all of the above holds.
LEMMA Rested ==
  ASSUME Typed, Session, AtRest, ~nested
  PROVE  /\ Core /\ Cancels /\ Drops /\ Cleans
         /\ Stage = "idle" /\ ~ClosingIn(stack) /\ ~ClearingIn(stack) /\ ~Warned
<1>1. Calm
  BY DEF AtRest, Calm
<1>2. Core /\ Cancels /\ Drops /\ Cleans
  BY <1>1 DEF Core, Session, Steady
<1>3. Stage = "idle" /\ ~ClosingIn(stack) /\ ~ClearingIn(stack)
  BY NoneViews DEF AtRest, Stage
<1>4. ~Warned
  BY DEF AtRest, Warned
<1>. QED  BY <1>2, <1>3, <1>4

\* A running openvpn that nothing can close any more does not exist: there is one client
\* that runs, the current one.
THEOREM NobodyIsOrphaned == Spec => []NoOrphan
<1>1. Session => NoOrphan
  BY DEF Session, Steady, Calm, Alone, NoOrphan
<1>. QED  BY <1>1, AlwaysSession, PTL

\* The session shows Connected just when there is a tunnel.
THEOREM StatusIsHonest == Spec => []StatusHonest
<1>1. Typed /\ Session => StatusHonest
  <2> SUFFICES ASSUME Typed, Session, AtRest, ~nested
               PROVE  status = "Connected" <=> phase[vpn] = "up"
    BY DEF StatusHonest
  <2>1. Core /\ Stage = "idle" /\ ~ClosingIn(stack) /\ ~Warned /\ ~quitting
    BY Rested DEF AtRest
  <2>2. ASSUME status = "Connected"  PROVE phase[vpn] = "up"
    <3>1. Running(vpn) /\ Alive
      BY <2>1, <2>2 DEF Core, Shown, Alive
    <3>2. phase[vpn] \notin {"trying", "rejected", "dropped"}
      BY <2>1, <3>1 DEF Core, Shown, Known
    <3>3. phase[vpn] \in Phases
      BY <2>1, CoreParts
    <3>. QED  BY <3>1, <3>2, <3>3 DEF Phases, Running
  <2>3. ASSUME phase[vpn] = "up"  PROVE status = "Connected"
    BY <2>1, <2>3 DEF Core, Shown, Running
  <2>. QED  BY <2>2, <2>3
<1>. QED  BY <1>1, AlwaysSession, PTL

\* After a cancel that onConnect could notice nothing runs.
THEOREM CancelIsKept == Spec => []CancelHolds
<1>1. Typed /\ Session => CancelHolds
  <2> SUFFICES ASSUME Typed, Session, AtRest, ~nested, lastAction = "CancelConnect",
                      missed # "cancel", NEW c \in Clients, Running(c)
               PROVE  FALSE
    BY DEF CancelHolds
  <2>1. Core /\ Cancels /\ Stage = "idle" /\ ~ClosingIn(stack)
    BY Rested
  <2>2. Running(vpn)
    BY <2>1 DEF Core, Alone
  <2>3. status = "Connected"
    BY <2>1, <2>2 DEF Core, Shown
  <2>. QED  BY <2>1, <2>3 DEF Cancels
<1>. QED  BY <1>1, AlwaysSession, PTL

\* A lost connection is tried again, if the settings say so and the user wants it.
THEOREM DropsAreRetried == Spec => []DropsReconnect
<1>1. Typed /\ Session => DropsReconnect
  <2> SUFFICES ASSUME Typed, Session, ReconnectOnDrop, AtRest, lastAction = "Connect",
                      status # "Connected", ~nested, missed \notin {"drop", "connect"}
               PROVE  reconnects > 0
    BY DEF DropsReconnect
  <2>1. Drops /\ Stage = "idle" /\ ~Warned
    BY Rested
  <2>. QED  BY <2>1 DEF Drops, Lost
<1>. QED  BY <1>1, AlwaysSession, PTL

\* Without a connection no routes of one are left.
THEOREM RoutesAreCleared == Spec => []RoutesCleared
<1>1. Typed /\ Session => RoutesCleared
  <2> SUFFICES ASSUME Typed, Session, AtRest, status # "Connected", ~nested,
                      lastAction # "CancelConnect"
               PROVE  routes # "in"
    BY DEF RoutesCleared
  <2>1. Cleans /\ Stage = "idle" /\ ~Warned /\ ~ClearingIn(stack)
    BY Rested
  <2>. QED  BY <2>1 DEF Cleans, Lost
<1>. QED  BY <1>1, AlwaysSession, PTL

\* A cancel is remembered in cancelAutoConnect until a new onConnectAuto forgets it,
\* which, while the cancel is the last action, only the end of a ten-second wait begins.
Remembered == lastAction = "CancelConnect" => cancelAuto \/ missed = "retry"

\* Initially the last action is Connect.
LEMMA RememberedInit == Init => Remembered
BY DEF Init, Remembered

\* The calls that go on keep a cancel in mind.
LEMMA CallsRemember ==
  ASSUME Remembered, Calls
  PROVE  /\ Remembered'
         /\ vpn' # vpn /\ lastAction' = "CancelConnect" => missed' = "retry"
<1>1. CASE DownloadFails \/ OpenTrue \/ OpenFalse \/ OpenLate \/ OpenGaveUp \/ SettleOver
           \/ CloseReturn
  BY <1>1 DEF DownloadFails, OpenTrue, OpenFalse, OpenLate, OpenGaveUp, SettleOver,
       CloseReturn, Remembered, clients, history
<1>2. CASE Downloaded
  BY <1>2 DEF Downloaded, Remembered
<1>3. CASE OpenLateError
  <2>1. missed' = missed \/ lastAction = "Connect"
    BY <1>3 DEF OpenLateError, Error
  <2>. QED  BY <1>3, <2>1 DEF OpenLateError, Remembered
<1>4. CASE PauseOver
  <2>1. vpn' # vpn => ~cancelAuto
    BY <1>4 DEF PauseOver, Loop
  <2>. QED  BY <1>4, <2>1 DEF PauseOver, Remembered, history
<1>5. CASE RetryOver
  <2>1. CASE needExit
    BY <1>5, <2>1 DEF RetryOver, Remembered
  <2>2. CASE ~needExit
    BY <1>5, <2>2 DEF RetryOver, Remembered
  <2>. QED  BY <2>1, <2>2
<1>. QED  BY <1>1, <1>2, <1>3, <1>4, <1>5 DEF Calls

\* The signals and timers too: a timer that makes a client is a new action.
LEMMA EventsRemember ==
  ASSUME Remembered, Events
  PROVE  /\ Remembered'
         /\ vpn' # vpn /\ lastAction' = "CancelConnect" => missed' = "retry"
<1>1. CASE Deliver
  <2>1. missed' = missed \/ lastAction = "Connect"
    BY <1>1 DEF Deliver, Error
  <2>. QED  BY <1>1, <2>1 DEF Deliver, Remembered
<1>2. CASE ReconnectTimer
  BY <1>2 DEF ReconnectTimer, MainConnect, Remembered, history
<1>3. CASE RouteTimer
  BY <1>3 DEF RouteTimer, Remembered, clients, flags, history
<1>. QED  BY <1>1, <1>2, <1>3 DEF Events

\* And the user, whose cancel sets cancelAutoConnect.
LEMMA UserRemembers ==
  ASSUME Remembered, User
  PROVE  /\ Remembered'
         /\ vpn' # vpn /\ lastAction' = "CancelConnect" => missed' = "retry"
<1>1. CASE ClickConnect
  BY <1>1 DEF ClickConnect, MainConnect, Remembered, history
<1>2. CASE ClickDisconnect
  BY <1>2 DEF ClickDisconnect, Remembered
<1>3. CASE ClickCancel
  BY <1>3 DEF ClickCancel, StopTrying, Remembered
<1>4. CASE Quit
  BY <1>4 DEF Quit, Remembered, clients, flags, history
<1>. QED  BY <1>1, <1>2, <1>3, <1>4 DEF User

\* What no step does, and what every step keeps.
LEMMA StepRemembers ==
  ASSUME Remembered, [Next]_vars
  PROVE  /\ Remembered'
         /\ vpn' # vpn /\ lastAction' = "CancelConnect" => missed' = "retry"
<1>1. CASE Client
  <2>1. vpn' = vpn
    BY <1>1 DEF Client, ClientUp, ClientFails, ClientEnds
  <2>. QED  BY <1>1, <2>1 DEF Client, Remembered, flags, history
<1>2. CASE UNCHANGED vars
  BY <1>2 DEF vars, clients, flags, history, Remembered
<1>. QED  BY <1>1, <1>2, CallsRemember, EventsRemember, UserRemembers DEF Next

\* After onCancel() no call of onConnect makes another client, unless one was in its
\* ten-second wait, however many calls are inside one another.
THEOREM CancelIsFinal == Spec => CancelStopsRetry
<1>1. Remembered /\ [Next]_vars => Remembered'
  BY StepRemembers
<1>2. Remembered /\ [Next]_vars
      => [vpn' # vpn /\ lastAction' = "CancelConnect" => missed' = "retry"]_vars
  BY StepRemembers
<1>. QED  BY RememberedInit, <1>1, <1>2, PTL DEF Spec, CancelStopsRetry
=============================================================================
