---------------------------- MODULE NxConnProofs ----------------------------
EXTENDS NxConn, SequenceTheorems, WellFoundedInduction, TLAPS

-----------------------------------------------------------------------------
(* The connection's fields. *)

Fields == {"st", "kind", "keep", "is", "os", "paired", "q", "pump", "left", "timers", "cont",
           "chunk", "got", "rest", "avail", "handler", "closing", "seen", "done", "inbox", "room"}
States == {"free", "waiting", "headers", "body", "handling"} \cup Sending
Tokens == Kinds \cup {"part", "piece"}
Events == Streams \cup Messages

\* t is s but for the fields F.
Same(t, s, F) == DOMAIN t = DOMAIN s /\ \A f \in Fields \ F : t[f] = s[f]

Typed(s) ==
  /\ DOMAIN s = Fields
  /\ s.st \in States
  /\ s.kind \in Kinds \cup {None}
  /\ s.handler \in {"idle", "worker", "later"}
  /\ s.is \in [Streams -> BOOLEAN] /\ s.os \in [Streams -> BOOLEAN]
  /\ s.timers \in [Timers -> {0, 1}]
  /\ s.keep \in BOOLEAN /\ s.cont \in BOOLEAN /\ s.closing \in BOOLEAN
  /\ s.paired \subseteq Streams
  /\ s.pump \in Streams \cup {None}
  /\ s.got \in 0..Body /\ s.rest \in 0..Content
  /\ s.left \in Nat /\ s.chunk \in Nat /\ s.avail \in Nat /\ s.room \in Nat
  /\ s.seen \in Nat /\ s.done \in Nat
  /\ s.inbox \in Seq(Tokens)

\* What is in the queue.  A stream, and a message of a request, is in it once.
In(s) == ToSet(s.q)
Once(q) == \A i, j \in DOMAIN q : q[i] \notin {"error", "drop"} /\ q[i] = q[j] => i = j
Line(q) == q \in Seq(Events) /\ Once(q)

\* A stream that is in the queue is connected, and is not being delivered.
Queued(s) == Line(s.q) /\ \A x \in Streams : x \in In(s) => x \in s.paired /\ s.pump # x

\* A stream whose ends are ready is in the queue or being delivered; but for
\* those in X, in the middle of a step.
WokenBut(s, X) ==
  \A x \in Streams \ X : x \in s.paired /\ s.is[x] /\ s.os[x] => x \in In(s) \/ s.pump = x
Woken(s) == WokenBut(s, {})

\* The request is being served.
Answering(s) == s.st \in Sending /\ "complete" \notin In(s)
Busy(s) == s.st \in {"body", "handling"} \/ Answering(s)

\* The timer of what the connection waits for is set, or has expired, and the
\* connection's end is in the queue; the others are not.
Waits(s, t) == \/ t = "keep" /\ s.st = "waiting"
               \/ t = "read" /\ s.st \in {"headers", "body"}
               \/ t = "write" /\ Answering(s)
Timed(s) == \A t \in Timers : IF Waits(s, t) THEN s.timers[t] = 1 \/ "drop" \in In(s)
                              ELSE s.timers[t] = 0

Counted(s) == s.seen = s.done + (IF Busy(s) THEN 1 ELSE 0)

\* The messages of a request come one after the other.
Asks(s) ==
  /\ "received" \in In(s) =>
       /\ s.st \in {"body", "handling"} /\ s.handler = "idle" /\ "body" \notin s.paired
       /\ (s.kind \in HasBody) <=> s.st = "body"
       /\ "whole" \notin In(s)
  /\ "whole" \in In(s) =>
       s.st = "handling" /\ s.handler = "idle" /\ s.kind \in HasBody /\ s.got = Body
  /\ "worker" \in In(s) => s.handler = "worker"
  /\ s.handler # "idle" => s.st = "handling" /\ "received" \notin In(s) /\ "whole" \notin In(s)
  /\ "complete" \in In(s) => s.st \in Sending /\ ~s.cont
  /\ s.closing => s.handler = "worker"

\* When the ends of the streams are ready, and which are connected.
Ports(s) ==
  /\ s.st # "free" => "in" \in s.paired /\ "out" \in s.paired
  /\ s.os["in"] => s.st \in {"free", "waiting", "headers"} \/ (s.st = "body" /\ "body" \in s.paired)
  /\ s.os["body"] => s.st = "body" /\ "body" \in s.paired
  /\ s.cont => s.st \in {"body", "handling", "sendHeaders"}
  /\ "body" \in s.paired => s.st \in {"body", "handling"} \/ Answering(s)

\* What there is to send; the stream of the content has some of it, but in the
\* middle of a step.
Source(s) ==
  /\ s.is["out"] => s.cont \/ Answering(s)
  /\ "src" \in s.paired => Answering(s) /\ s.rest > 0
  /\ Answering(s) /\ "src" \notin s.paired => s.st = "sendHeaders" /\ s.rest = 0
  /\ s.avail <= s.rest
Filled(s) == "src" \in s.paired /\ s.is["src"] => s.avail > 0

\* The request that is being read, and the one in the handler.
Whole(s) ==
  /\ s.st \in {"waiting", "headers"} => s.kind = None /\ s.got = 0
  /\ s.st = "body" => s.kind \in HasBody /\ s.got < Body
  /\ s.st = "handling" => s.kind \in {"get"} \cup HasBody
  /\ s.handler # "idle" /\ s.kind \in HasBody => s.got = Body

\* What is under way to a connection that reads headers: parts of them, their
\* end, and at most the body.
Headed(v) ==
  \/ \A j \in 1..Len(v) : v[j] = "part"
  \/ \E i \in 1..Len(v) :
       /\ v[i] \in Kinds
       /\ \A j \in 1..Len(v) : j < i => v[j] = "part"
       /\ Len(v) <= i + (IF v[i] \in HasBody THEN Body ELSE 0)
Coming(s, p) == Len(s.inbox) + Len(p.script)
Reads(s) == \/ s.st \in {"waiting", "headers"} /\ s.os["in"]
            \/ "complete" \in In(s) /\ s.keep
Answers(s) == s.st = "handling" \/ (Answering(s) /\ s.keep)
Fed(s, p) ==
  /\ Reads(s) => Headed(s.inbox \o p.script) /\ (p.asked = s.done => Coming(s, p) = 0)
  /\ s.st = "body" => s.chunk + Coming(s, p) <= Body - s.got /\ p.asked # s.done
  /\ Answers(s) => Coming(s, p) = 0 /\ p.asked # s.done

PeerTyped(p) ==
  /\ DOMAIN p = {"script", "gone", "edges", "asked"}
  /\ p.script \in Seq(Tokens) /\ p.gone \in BOOLEAN /\ p.asked \in Nat

\* Core holds also in the middle of a step, Nearly when the timers are set again.
Core(s) == /\ Typed(s) /\ Queued(s) /\ WokenBut(s, {"src"})
           /\ Counted(s) /\ Asks(s) /\ Ports(s) /\ Source(s) /\ Whole(s)
Nearly(s) == Core(s) /\ Timed(s)
Good(s) == Nearly(s) /\ Woken(s) /\ Filled(s)

IInv ==
  /\ Typed(h) /\ PeerTyped(peer)
  /\ h.st = "free" => h = Free /\ peer = Nobody
  /\ h.st # "free" => Good(h) /\ Fed(h, peer)
  /\ phase = "poll" => h.pump = None

-----------------------------------------------------------------------------
(* The queue. *)

\* An event that is not linked, or may be twice, is linked at the end.
LEMMA AppendLine ==
  ASSUME NEW q, Line(q), NEW e \in Events, e \notin ToSet(q) \/ e \in {"error", "drop"}
  PROVE  Line(Append(q, e)) /\ ToSet(Append(q, e)) = ToSet(q) \cup {e}
<1> DEFINE r == Append(q, e)
<1>1. r \in Seq(Events) /\ DOMAIN q = 1..Len(q) /\ DOMAIN r = 1..(Len(q) + 1) /\ Len(q) \in Nat
  BY DEF Line
<1>2. (\A i \in 1..Len(q) : r[i] = q[i]) /\ r[Len(q) + 1] = e
  BY DEF Line
<1>3. ToSet(r) = ToSet(q) \cup {e}
  BY <1>1, <1>2 DEF ToSet
<1>4. Once(r)
  BY <1>1, <1>2 DEF Once, Line, ToSet
<1> QED BY <1>1, <1>3, <1>4 DEF Line

\* The first event is taken from the queue.
LEMMA TailLine ==
  ASSUME NEW q, Line(q), q # <<>>
  PROVE  /\ Head(q) \in Events /\ Line(Tail(q)) /\ ToSet(q) = ToSet(Tail(q)) \cup {Head(q)}
         /\ Head(q) \in {"error", "drop"} \/ Head(q) \notin ToSet(Tail(q))
<1> DEFINE r == Tail(q)
<1>1. r \in Seq(Events) /\ DOMAIN q = 1..Len(q) /\ DOMAIN r = 1..(Len(q) - 1) /\ Len(q) \in Nat \ {0}
  BY DEF Line
<1>2. (\A i \in 1..(Len(q) - 1) : r[i] = q[i + 1]) /\ Head(q) = q[1] /\ q[1] \in Events
  BY <1>1 DEF Line
<1>3. ToSet(q) = ToSet(r) \cup {Head(q)}
  <2>1. ASSUME NEW i \in 1..Len(q) PROVE q[i] \in ToSet(r) \cup {Head(q)}
    <3>1. CASE i = 1 BY <3>1, <1>2
    <3>2. CASE i # 1
      <4>1. i - 1 \in 1..(Len(q) - 1) /\ q[i] = r[i - 1] BY <3>2, <1>1, <1>2
      <4> QED BY <4>1, <1>1 DEF ToSet
    <3> QED BY <3>1, <3>2
  <2>2. ASSUME NEW i \in 1..(Len(q) - 1) PROVE r[i] \in ToSet(q)
    <3>1. i + 1 \in 1..Len(q) /\ r[i] = q[i + 1] BY <1>1, <1>2
    <3> QED BY <3>1, <1>1 DEF ToSet
  <2> QED BY <2>1, <2>2, <1>1, <1>2 DEF ToSet
<1>4. Once(r)
  BY <1>1, <1>2 DEF Once, Line
<1>5. Head(q) \in {"error", "drop"} \/ Head(q) \notin ToSet(r)
  BY <1>1, <1>2 DEF Once, Line, ToSet
<1> QED BY <1>1, <1>2, <1>3, <1>4, <1>5 DEF Line

\* A stream's event is unlinked, wherever it is.
LEMMA UnlinkedLine ==
  ASSUME NEW q, Line(q), NEW x \in Streams
  PROVE  Line(Unlinked(q, x)) /\ ToSet(Unlinked(q, x)) = ToSet(q) \ {x}
<1>1. CASE x \notin ToSet(q)
  BY <1>1 DEF Unlinked
<1>2. CASE x \in ToSet(q)
  <2> DEFINE k == CHOOSE i \in DOMAIN q : q[i] = x
             r == RemoveAt(q, k)
             a == SubSeq(q, 1, k - 1)
             b == SubSeq(q, k + 1, Len(q))
  <2>1. q \in Seq(Events) /\ DOMAIN q = 1..Len(q) /\ Len(q) \in Nat /\ k \in 1..Len(q) /\ q[k] = x
    BY <1>2 DEF Line, ToSet
  <2>r. r = a \o b BY DEF RemoveAt
  <2> HIDE DEF k, r
  <2>a. a \in Seq(Events) /\ Len(a) = k - 1 /\ \A i \in 1..(k - 1) : a[i] = q[i]
    BY <2>1, SubSeqProperties
  <2>b. b \in Seq(Events) /\ Len(b) = Len(q) - k /\ \A i \in 1..(Len(q) - k) : b[i] = q[k + i]
    <3>1. /\ b \in Seq(Events)
          /\ Len(b) = IF k + 1 <= Len(q) THEN Len(q) - (k + 1) + 1 ELSE 0
          /\ \A i \in 1..(Len(q) - (k + 1) + 1) : b[i] = q[k + 1 + i - 1]
      BY <2>1, SubSeqProperties
    <3>2. \A i \in 1..(Len(q) - k) : i \in 1..(Len(q) - (k + 1) + 1) /\ k + 1 + i - 1 = k + i
      BY <2>1
    <3> HIDE DEF b
    <3>3. Len(b) = Len(q) - k
      <4>1. Len(q) - (k + 1) + 1 = Len(q) - k BY <2>1
      <4>2. CASE k + 1 <= Len(q) BY <4>1, <4>2, <3>1
      <4>3. CASE k = Len(q)
        <5>1. ~(k + 1 <= Len(q)) /\ Len(q) - k = 0 BY <4>3, <2>1
        <5> QED BY <5>1, <3>1
      <4>4. k + 1 <= Len(q) \/ k = Len(q)
        <5>1. k \in 1..Len(q) /\ Len(q) \in Nat BY <2>1
        <5> QED BY <5>1
      <4> QED BY <4>2, <4>3, <4>4
    <3> QED BY <3>1, <3>2, <3>3
  <2> HIDE DEF a, b
  <2>2. r \in Seq(Events) /\ Len(r) = Len(q) - 1 /\ DOMAIN r = 1..(Len(q) - 1)
    <3>1. r \in Seq(Events) /\ Len(r) = Len(a) + Len(b) BY <2>a, <2>b, <2>r, ConcatProperties
    <3>2. Len(r) = Len(q) - 1 BY <3>1, <2>a, <2>b, <2>1
    <3> QED BY <3>1, <3>2
  <2>3. ASSUME NEW i \in 1..(Len(q) - 1) PROVE r[i] = IF i < k THEN q[i] ELSE q[i + 1]
    <3>1. r[i] = IF i <= Len(a) THEN a[i] ELSE b[i - Len(a)]
      BY <2>1, <2>a, <2>b, <2>r, ConcatProperties
    <3>2. CASE i < k
      BY <3>1, <3>2, <2>a, <2>1
    <3>3. CASE i >= k
      <4>1. i - (k - 1) \in 1..(Len(q) - k) /\ i - Len(a) = i - (k - 1) /\ k + (i - (k - 1)) = i + 1
        BY <3>3, <2>a, <2>1
      <4>2. ~(i <= Len(a)) /\ ~(i < k)
        BY <3>3, <2>a, <2>1
      <4>3. r[i] = b[i - (k - 1)]
        BY <3>1, <4>1, <4>2
      <4>4. b[i - (k - 1)] = q[i + 1]
        BY <2>b, <4>1
      <4> QED BY <4>2, <4>3, <4>4
    <3> QED BY <3>2, <3>3, <2>1
  <2>4. Once(r)
    <3> SUFFICES ASSUME NEW i \in 1..(Len(q) - 1), NEW j \in 1..(Len(q) - 1),
                        r[i] \notin {"error", "drop"}, r[i] = r[j]
                 PROVE  i = j
      BY <2>2 DEF Once
    <3> DEFINE m == IF i < k THEN i ELSE i + 1
               n == IF j < k THEN j ELSE j + 1
    <3>1. m \in DOMAIN q /\ n \in DOMAIN q BY <2>1
    <3>2. r[i] = q[m] /\ r[j] = q[n] BY <2>3
    <3>3. m = n => i = j BY <2>1
    <3> HIDE DEF m, n
    <3> QED BY <3>1, <3>2, <3>3 DEF Line, Once
  <2>5. \A i \in 1..Len(q) : q[i] = x => i = k
    BY <2>1 DEF Once, Line, Streams
  <2>6. ASSUME NEW i \in 1..Len(q), q[i] # x PROVE q[i] \in ToSet(r)
    <3>1. CASE i < k
      <4>1. i \in 1..(Len(q) - 1) BY <3>1, <2>1
      <4>2. r[i] = q[i] BY <4>1, <2>3, <3>1
      <4> QED BY <4>1, <4>2, <2>2 DEF ToSet
    <3>2. CASE i > k
      <4>1. i - 1 \in 1..(Len(q) - 1) /\ ~(i - 1 < k) /\ (i - 1) + 1 = i BY <3>2, <2>1
      <4>2. r[i - 1] = q[i] BY <4>1, <2>3
      <4> QED BY <4>1, <4>2, <2>2 DEF ToSet
    <3>3. i # k BY <2>1, <2>6
    <3>4. i < k \/ i > k BY <3>3, <2>1
    <3> QED BY <3>1, <3>2, <3>4
  <2>7. ASSUME NEW i \in 1..(Len(q) - 1) PROVE r[i] \in ToSet(q) \ {x}
    <3> DEFINE m == IF i < k THEN i ELSE i + 1
    <3>1. m \in 1..Len(q) /\ m # k BY <2>1
    <3>2. r[i] = q[m] BY <2>3
    <3> HIDE DEF m
    <3> QED BY <3>1, <3>2, <2>1, <2>5 DEF ToSet
  <2>8. ToSet(r) = ToSet(q) \ {x}
    BY <2>1, <2>2, <2>6, <2>7 DEF ToSet
  <2> QED BY <1>2, <2>2, <2>4, <2>8 DEF Line, Unlinked, r, k
<1> QED BY <1>1, <1>2

-----------------------------------------------------------------------------
(* What the operations of the loop do. *)

\* Only the queue changes.
LEMMA PublishDoes ==
  ASSUME NEW s, Typed(s), Line(s.q), NEW m \in Messages, m \notin In(s) \/ m \in {"error", "drop"}
  PROVE  LET t == Publish(s, m)
         IN Typed(t) /\ Same(t, s, {"q"}) /\ Line(t.q) /\ In(t) = In(s) \cup {m}
<1>1. Line(Append(s.q, m)) /\ ToSet(Append(s.q, m)) = ToSet(s.q) \cup {m}
  BY AppendLine DEF In, Events
<1> QED BY <1>1 DEF Publish, Link, Typed, Same, In, Fields

\* A connected stream whose ends are ready is linked, once.
LEMMA LinkIfBothDoes ==
  ASSUME NEW s, Typed(s), Line(s.q), NEW x \in Streams
  PROVE  LET t == LinkIfBoth(s, x)
         IN /\ Typed(t) /\ Same(t, s, {"q"}) /\ Line(t.q)
            /\ In(t) = In(s) \cup (IF x \in s.paired /\ s.is[x] /\ s.os[x] THEN {x} ELSE {})
<1>1. CASE x \in s.paired /\ s.is[x] /\ s.os[x] /\ x \notin In(s)
  <2>1. Line(Append(s.q, x)) /\ ToSet(Append(s.q, x)) = ToSet(s.q) \cup {x}
    BY <1>1, AppendLine DEF In, Events
  <2> QED BY <1>1, <2>1 DEF LinkIfBoth, Linked, Link, Typed, Same, In, Fields
<1>2. CASE ~(x \in s.paired /\ s.is[x] /\ s.os[x] /\ x \notin In(s))
  BY <1>2 DEF LinkIfBoth, Linked, Same, In
<1> QED BY <1>1, <1>2

\* An istream becomes ready.
LEMMA IsReadyDoes ==
  ASSUME NEW s, Typed(s), Line(s.q), NEW x \in Streams
  PROVE  LET t == IsReady(s, x)
         IN /\ Typed(t) /\ Same(t, s, {"is", "q"}) /\ Line(t.q)
            /\ \A y \in Streams : t.is[y] = (s.is[y] \/ y = x)
            /\ In(t) = In(s) \cup (IF x \in s.paired /\ ~s.is[x] /\ s.os[x] THEN {x} ELSE {})
<1>1. CASE s.is[x]
  BY <1>1 DEF IsReady, Same, Typed
<1>2. CASE ~s.is[x]
  <2> DEFINE u == [s EXCEPT !.is[x] = TRUE]
  <2>1. Typed(u) /\ Same(u, s, {"is"}) /\ u.is = [s.is EXCEPT ![x] = TRUE]
    BY DEF Typed, Fields, Same
  <2>2. IsReady(s, x) = LinkIfBoth(u, x)
    BY <1>2 DEF IsReady
  <2> HIDE DEF u
  <2>3. u.q = s.q /\ u.paired = s.paired /\ u.os = s.os
    BY <2>1 DEF Same, Fields
  <2>4. LET t == LinkIfBoth(u, x)
        IN /\ Typed(t) /\ Same(t, u, {"q"}) /\ Line(t.q)
           /\ In(t) = In(u) \cup (IF x \in u.paired /\ u.is[x] /\ u.os[x] THEN {x} ELSE {})
    BY <2>1, <2>3, LinkIfBothDoes
  <2>5. In(u) = In(s)
    BY <2>3 DEF In
  <2>6. u.is[x] = TRUE /\ \A y \in Streams : u.is[y] = (s.is[y] \/ y = x)
    BY <2>1 DEF Typed
  <2> DEFINE z == LinkIfBoth(u, x)
  <2>7. Typed(z) /\ Same(z, u, {"q"}) /\ Line(z.q)
    BY <2>4
  <2>8. In(z) = In(s) \cup (IF x \in s.paired /\ ~s.is[x] /\ s.os[x] THEN {x} ELSE {})
    BY <1>2, <2>3, <2>4, <2>5, <2>6
  <2>9. IsReady(s, x) = z
    BY <2>2
  <2> HIDE DEF z
  <2>10. Same(z, s, {"is", "q"}) /\ z.is = u.is
    BY <2>1, <2>7 DEF Same, Fields
  <2>11. \A y \in Streams : z.is[y] = (s.is[y] \/ y = x)
    BY <2>6, <2>10
  <2> QED BY <2>7, <2>8, <2>9, <2>10, <2>11
<1> QED BY <1>1, <1>2

\* An ostream becomes ready.
LEMMA OsReadyDoes ==
  ASSUME NEW s, Typed(s), Line(s.q), NEW x \in Streams
  PROVE  LET t == OsReady(s, x)
         IN /\ Typed(t) /\ Same(t, s, {"os", "q"}) /\ Line(t.q)
            /\ \A y \in Streams : t.os[y] = (s.os[y] \/ y = x)
            /\ In(t) = In(s) \cup (IF x \in s.paired /\ s.is[x] THEN {x} ELSE {})
<1> DEFINE u == [s EXCEPT !.os[x] = TRUE]
<1>1. Typed(u) /\ Same(u, s, {"os"}) /\ u.os = [s.os EXCEPT ![x] = TRUE]
  BY DEF Typed, Fields, Same
<1>2. OsReady(s, x) = LinkIfBoth(u, x)
  BY DEF OsReady
<1> HIDE DEF u
<1>3. u.q = s.q /\ u.paired = s.paired /\ u.is = s.is
  BY <1>1 DEF Same, Fields
<1>4. LET t == LinkIfBoth(u, x)
      IN /\ Typed(t) /\ Same(t, u, {"q"}) /\ Line(t.q)
         /\ In(t) = In(u) \cup (IF x \in u.paired /\ u.is[x] /\ u.os[x] THEN {x} ELSE {})
  BY <1>1, <1>3, LinkIfBothDoes
<1>5. In(u) = In(s)
  BY <1>3 DEF In
<1>6. u.os[x] = TRUE /\ \A y \in Streams : u.os[y] = (s.os[y] \/ y = x)
  BY <1>1 DEF Typed
<1> DEFINE z == LinkIfBoth(u, x)
<1>7. Typed(z) /\ Same(z, u, {"q"}) /\ Line(z.q)
  BY <1>4
<1>8. In(z) = In(s) \cup (IF x \in s.paired /\ s.is[x] THEN {x} ELSE {})
  BY <1>3, <1>4, <1>5, <1>6
<1>9. OsReady(s, x) = z
  BY <1>2
<1> HIDE DEF z
<1>10. Same(z, s, {"os", "q"}) /\ z.os = u.os
  BY <1>1, <1>7 DEF Same, Fields
<1>11. \A y \in Streams : z.os[y] = (s.os[y] \/ y = x)
  BY <1>6, <1>10
<1> QED BY <1>7, <1>8, <1>9, <1>10, <1>11

\* A stream that was not linked is connected.
LEMMA ConnectDoes ==
  ASSUME NEW s, Typed(s), Line(s.q), NEW x \in Streams, x \notin In(s)
  PROVE  LET t == Connect(s, x)
         IN /\ Typed(t) /\ Same(t, s, {"paired", "q"}) /\ Line(t.q)
            /\ t.paired = s.paired \cup {x}
            /\ In(t) = In(s) \cup (IF s.is[x] /\ s.os[x] THEN {x} ELSE {})
<1>1. Line(Append(s.q, x)) /\ ToSet(Append(s.q, x)) = ToSet(s.q) \cup {x}
  BY AppendLine DEF In, Events
<1> QED BY <1>1 DEF Connect, Link, Typed, Same, In, Fields

\* A stream is disconnected, and leaves the queue.
LEMMA DisconnectDoes ==
  ASSUME NEW s, Typed(s), Line(s.q), NEW x \in Streams
  PROVE  LET t == Disconnect(s, x)
         IN /\ Typed(t) /\ Same(t, s, {"paired", "q"}) /\ Line(t.q)
            /\ t.paired = s.paired \ {x}
            /\ In(t) = In(s) \ {x}
<1>1. Line(Unlinked(s.q, x)) /\ ToSet(Unlinked(s.q, x)) = ToSet(s.q) \ {x}
  BY UnlinkedLine
<1> QED BY <1>1 DEF Disconnect, Typed, Same, In, Fields

\* A timer is unset, or set when it was not.
LEMMA TimersDo ==
  ASSUME NEW s, Typed(s), NEW t \in Timers
  PROVE  /\ Typed(Unset(s, t)) /\ Same(Unset(s, t), s, {"timers"})
         /\ Unset(s, t).timers = [s.timers EXCEPT ![t] = 0]
         /\ s.timers[t] = 0 => /\ Typed(Set(s, t)) /\ Same(Set(s, t), s, {"timers"})
                               /\ Set(s, t).timers = [s.timers EXCEPT ![t] = 1]
<1>1. Typed(Unset(s, t)) /\ Same(Unset(s, t), s, {"timers"})
      /\ Unset(s, t).timers = [s.timers EXCEPT ![t] = 0]
  BY DEF Unset, Typed, Same, Fields
<1>2. ASSUME s.timers[t] = 0
      PROVE  /\ Typed(Set(s, t)) /\ Same(Set(s, t), s, {"timers"})
             /\ Set(s, t).timers = [s.timers EXCEPT ![t] = 1]
  <2>1. Least(s.timers[t] + 1, 2) = 1 BY <1>2 DEF Least
  <2> QED BY <2>1 DEF Set, Typed, Same, Fields
<1> QED BY <1>1, <1>2

-----------------------------------------------------------------------------
(* Sending. *)

\* The end of an answer.
LEMMA CompleteIsGood ==
  ASSUME NEW s, Typed(s), Queued(s), WokenBut(s, {"src"}), Counted(s), Asks(s), Ports(s), Whole(s),
         Answering(s), ~s.cont, s.avail <= s.rest, s.timers["keep"] = 0, s.timers["read"] = 0,
         PeerTyped(peer), Fed(s, peer)
  PROVE  LET t == RequestComplete(s)
         IN /\ Good(t) /\ Fed(t, peer) /\ "src" \notin t.paired
            /\ Same(t, s, {"is", "done", "timers", "paired", "q"})
<1> DEFINE a == [s EXCEPT !.is["out"] = FALSE, !.done = @ + 1]
           b == Unset(a, "write")
           c == Disconnect(b, "src")
           d == Disconnect(c, "body")
           t == Publish(d, "complete")
<1>1. /\ Typed(a) /\ Same(a, s, {"is", "done"})
      /\ a.done = s.done + 1 /\ a.is = [s.is EXCEPT !["out"] = FALSE]
  <2>1. DOMAIN a = DOMAIN s /\ a.is = [s.is EXCEPT !["out"] = FALSE] /\ a.done = s.done + 1
    BY DEF Typed, Fields
  <2>2. \A f \in Fields \ {"is", "done"} : a[f] = s[f]
    BY DEF Typed, Fields
  <2> HIDE DEF a
  <2>3. a.is \in [Streams -> BOOLEAN]
    BY <2>1 DEF Typed
  <2>4. a.done \in Nat
    BY <2>1 DEF Typed
  <2> QED BY <2>1, <2>2, <2>3, <2>4 DEF Typed, Same, Fields
<1>2. t = RequestComplete(s)
  BY DEF RequestComplete
<1> HIDE DEF a
<1>3. Typed(b) /\ Same(b, a, {"timers"}) /\ b.timers = [a.timers EXCEPT !["write"] = 0]
  BY <1>1, TimersDo DEF Timers
<1> HIDE DEF b
<1>4. b.q = s.q /\ Line(s.q)
  BY <1>1, <1>3 DEF Same, Fields, Queued
<1>5. /\ Typed(c) /\ Same(c, b, {"paired", "q"}) /\ Line(c.q)
      /\ c.paired = b.paired \ {"src"} /\ In(c) = In(b) \ {"src"}
  BY <1>3, <1>4, DisconnectDoes DEF Streams
<1> HIDE DEF c
<1>6. /\ Typed(d) /\ Same(d, c, {"paired", "q"}) /\ Line(d.q)
      /\ d.paired = c.paired \ {"body"} /\ In(d) = In(c) \ {"body"}
  BY <1>5, DisconnectDoes DEF Streams
<1> HIDE DEF d
<1>7. In(b) = In(s)
  BY <1>4 DEF In
<1>8. "complete" \notin In(d)
  BY <1>5, <1>6, <1>7 DEF Answering
<1>9. Typed(t) /\ Same(t, d, {"q"}) /\ Line(t.q) /\ In(t) = In(d) \cup {"complete"}
  BY <1>6, <1>8, PublishDoes DEF Messages
<1> HIDE DEF t
<1>10. /\ Same(t, s, {"is", "done", "timers", "paired", "q"})
       /\ t.done = s.done + 1 /\ t.is = [s.is EXCEPT !["out"] = FALSE]
       /\ t.timers = [s.timers EXCEPT !["write"] = 0]
       /\ t.paired = s.paired \ {"src", "body"}
       /\ In(t) = (In(s) \ {"src", "body"}) \cup {"complete"}
  BY <1>1, <1>3, <1>5, <1>6, <1>7, <1>9 DEF Same, Fields
<1>11. s.st \in Sending /\ s.handler = "idle"
  BY DEF Answering, Asks, Sending
<1>12. Queued(t)
  BY <1>9, <1>10 DEF Queued, Same, Fields, Streams
<1>13. Woken(t)
  BY <1>10 DEF WokenBut, Woken, Same, Fields, Streams, Typed
<1>14. Timed(t)
  BY <1>10, <1>11 DEF Timed, Waits, Answering, Same, Fields, Timers, Sending, Typed
<1>15. Counted(t)
  BY <1>10, <1>11 DEF Counted, Busy, Answering, Same, Fields, Sending, Typed
<1>16. Asks(t)
  BY <1>10, <1>11 DEF Asks, Same, Fields, Sending
<1>17. Ports(t) /\ Source(t) /\ Filled(t)
  BY <1>10, <1>11 DEF Ports, Source, Filled, Answering, Same, Fields, Sending, Streams, Typed
<1>18. Whole(t)
  BY <1>10, <1>11 DEF Whole, Same, Fields, Sending
<1>19. Fed(t, peer)
  <2>1. s.keep => s.inbox = <<>> /\ peer.script = <<>> /\ Coming(s, peer) = 0
    BY <1>11 DEF Fed, Answers, Coming, PeerTyped, Typed
  <2>2. Headed(<<>> \o <<>>)
    BY DEF Headed
  <2>3. /\ t.st = s.st /\ t.keep = s.keep /\ t.inbox = s.inbox /\ "complete" \in In(t)
        /\ Coming(t, peer) = Coming(s, peer)
    BY <1>10 DEF Same, Fields, Coming
  <2>4. ~Answers(t) /\ t.st # "body" /\ (Reads(t) => s.keep)
    BY <1>11, <2>3 DEF Answers, Answering, Reads, Sending
  <2> QED BY <2>1, <2>2, <2>3, <2>4 DEF Fed
<1> QED BY <1>2, <1>9, <1>10, <1>12, <1>13, <1>14, <1>15, <1>16, <1>17, <1>18, <1>19 DEF Good, Nearly, Core, Woken, WokenBut

\* The beginning of an answer.
LEMMA StartIsGood ==
  ASSUME NEW s, Typed(s), Queued(s), Woken(s), NEW content \in Contents, NEW keep \in BOOLEAN,
         s.seen = s.done + 1, s.timers["keep"] = 0, s.timers["write"] = 0,
         {"received", "whole", "complete", "worker"} \cap In(s) = {}, ~s.closing,
         "in" \in s.paired, "out" \in s.paired, "src" \notin s.paired, s.pump \notin {"out", "src"},
         ~s.os["in"], ~s.os["body"], s.is["out"] => s.cont,
         PeerTyped(peer), keep => Coming(s, peer) = 0 /\ peer.asked # s.done
  PROVE  LET t == StartSending(s, content, keep)
         IN Good(t) /\ Fed(t, peer) /\ t.st # "free" /\ t.pump = s.pump
<1> DEFINE n == IF content = "nothing" THEN 0 ELSE Content
           m == IF content = "buffer" THEN Content ELSE 0
           a == Unset(s, "read")
           b == [a EXCEPT !.keep = keep, !.handler = "idle", !.rest = n, !.avail = m,
                          !.is["src"] = content = "buffer"]
           c == IF content = "nothing" THEN b ELSE Connect(b, "src")
           d == IF s.cont THEN c ELSE IsReady(c, "out")
           e == [d EXCEPT !.st = "sendHeaders"]
           t == Set(e, "write")
<1>1. t = StartSending(s, content, keep)
  BY DEF StartSending
<1> HIDE DEF t
<1>2. /\ n \in 0..Content /\ m \in 0..Content /\ n \in Nat /\ m \in Nat /\ m <= n
      /\ (content = "nothing" <=> n = 0) /\ (content = "buffer" => m > 0)
  BY NxConnAssumption DEF Contents
<1> HIDE DEF n, m
<1>3. Typed(a) /\ Same(a, s, {"timers"}) /\ a.timers = [s.timers EXCEPT !["read"] = 0]
  BY TimersDo DEF Timers
<1> HIDE DEF a
<1>4. /\ DOMAIN b = DOMAIN a /\ \A f \in Fields \ {"keep", "handler", "rest", "avail", "is"} : b[f] = a[f]
      /\ b.keep = keep /\ b.handler = "idle" /\ b.rest = n /\ b.avail = m
      /\ b.is = [a.is EXCEPT !["src"] = content = "buffer"]
  BY <1>3 DEF Typed, Fields
<1> HIDE DEF b
<1>5. /\ b.is \in [Streams -> BOOLEAN] /\ b.is["src"] = (content = "buffer")
      /\ \A y \in Streams \ {"src"} : b.is[y] = a.is[y]
  <2>1. a.is \in [Streams -> BOOLEAN] /\ "src" \in Streams
    BY <1>3 DEF Typed, Streams
  <2>2. CASE content = "buffer"
    <3>1. b.is = [a.is EXCEPT !["src"] = TRUE] BY <1>4, <2>2
    <3> QED BY <3>1, <2>1, <2>2
  <2>3. CASE content # "buffer"
    <3>1. b.is = [a.is EXCEPT !["src"] = FALSE] BY <1>4, <2>3
    <3> QED BY <3>1, <2>1, <2>3
  <2> QED BY <2>2, <2>3
<1>6. Typed(b)
  <2>1. /\ b.st = a.st /\ b.kind = a.kind /\ b.os = a.os /\ b.timers = a.timers /\ b.cont = a.cont
        /\ b.closing = a.closing /\ b.paired = a.paired /\ b.pump = a.pump /\ b.got = a.got
    BY <1>4 DEF Fields
  <2>2. /\ b.left = a.left /\ b.chunk = a.chunk /\ b.room = a.room /\ b.seen = a.seen
        /\ b.done = a.done /\ b.inbox = a.inbox
    BY <1>4 DEF Fields
  <2>3. DOMAIN b = Fields
    BY <1>3, <1>4 DEF Typed
  <2>4. b.keep \in BOOLEAN /\ b.handler \in {"idle", "worker", "later"} /\ b.rest \in 0..Content /\ b.avail \in Nat
    BY <1>2, <1>4
  <2> QED BY <1>3, <1>5, <2>1, <2>2, <2>3, <2>4 DEF Typed
<1>7. /\ Same(b, s, {"keep", "handler", "rest", "avail", "is", "timers"})
      /\ b.is["src"] = (content = "buffer") /\ \A y \in Streams \ {"src"} : b.is[y] = s.is[y]
  <2>1. a.is = s.is BY <1>3 DEF Same, Fields
  <2>2. Same(b, s, {"keep", "handler", "rest", "avail", "is", "timers"})
    BY <1>3, <1>4 DEF Same, Fields
  <2> QED BY <2>1, <2>2, <1>5
<1>8. Line(b.q) /\ In(b) = In(s) /\ "src" \notin In(s) /\ b.paired = s.paired
  BY <1>7 DEF In, Queued, Same, Fields, Streams
<1>9. /\ Typed(c) /\ Same(c, b, {"paired", "q"}) /\ Line(c.q)
      /\ c.paired = s.paired \cup (IF n = 0 THEN {} ELSE {"src"})
      /\ In(c) = In(s) \cup (IF n # 0 /\ b.is["src"] /\ b.os["src"] THEN {"src"} ELSE {})
  <2>1. CASE content = "nothing"
    BY <2>1, <1>2, <1>6, <1>8 DEF Same
  <2>2. CASE content # "nothing"
    BY <2>2, <1>2, <1>6, <1>8, ConnectDoes DEF Streams
  <2> QED BY <2>1, <2>2
<1> HIDE DEF c
<1>10. /\ Typed(d) /\ Same(d, c, {"is", "q"}) /\ Line(d.q)
       /\ \A y \in Streams \ {"out"} : d.is[y] = c.is[y]
       /\ ~s.cont => d.is["out"]
       /\ s.cont => d.is["out"] = c.is["out"]
       /\ In(d) = In(c) \cup (IF ~s.cont /\ ~c.is["out"] /\ c.os["out"] THEN {"out"} ELSE {})
  <2>1. CASE s.cont
    BY <2>1, <1>9 DEF Same, Streams
  <2>2. CASE ~s.cont
    <3>1. "out" \in c.paired /\ "out" \in Streams BY <1>9 DEF Streams
    <3>2. /\ Typed(d) /\ Same(d, c, {"is", "q"}) /\ Line(d.q)
          /\ \A y \in Streams : d.is[y] = (c.is[y] \/ y = "out")
          /\ In(d) = In(c) \cup (IF "out" \in c.paired /\ ~c.is["out"] /\ c.os["out"] THEN {"out"} ELSE {})
      BY <2>2, <3>1, <1>9, IsReadyDoes
    <3>3. c.is \in [Streams -> BOOLEAN] /\ d.is \in [Streams -> BOOLEAN]
      BY <1>9, <3>2 DEF Typed
    <3>4. /\ \A y \in Streams \ {"out"} : d.is[y] = c.is[y]
          /\ d.is["out"]
      BY <3>1, <3>2, <3>3
    <3> QED BY <2>2, <3>1, <3>2, <3>4
  <2> QED BY <2>1, <2>2
<1> HIDE DEF d
<1>11. Typed(e) /\ Same(e, d, {"st"}) /\ e.st = "sendHeaders" /\ e.q = d.q
  BY <1>10 DEF Typed, Same, Fields, States, Sending
<1> HIDE DEF e
<1>12. e.timers = [s.timers EXCEPT !["read"] = 0]
  BY <1>3, <1>7, <1>4, <1>9, <1>10, <1>11 DEF Same, Fields
<1>13. e.timers["write"] = 0
  BY <1>12 DEF Typed, Timers
<1>14. Typed(t) /\ Same(t, e, {"timers"}) /\ t.timers = [e.timers EXCEPT !["write"] = 1]
  BY <1>11, <1>13, TimersDo DEF Timers, t
<1>15. /\ Same(t, s, {"st", "keep", "handler", "rest", "avail", "is", "timers", "paired", "q"})
       /\ t.st = "sendHeaders" /\ t.keep = keep /\ t.handler = "idle" /\ t.rest = n /\ t.avail = m
       /\ t.paired = s.paired \cup (IF n = 0 THEN {} ELSE {"src"})
       /\ t.is["src"] = (content = "buffer") /\ t.is["in"] = s.is["in"] /\ t.is["body"] = s.is["body"]
       /\ t.timers["keep"] = 0 /\ t.timers["read"] = 0 /\ t.timers["write"] = 1
  <2>1. Same(t, s, {"st", "keep", "handler", "rest", "avail", "is", "timers", "paired", "q"})
    BY <1>7, <1>9, <1>10, <1>11, <1>14 DEF Same, Fields
  <2>2. /\ t.st = "sendHeaders" /\ t.keep = keep /\ t.handler = "idle" /\ t.rest = n /\ t.avail = m
        /\ t.paired = s.paired \cup (IF n = 0 THEN {} ELSE {"src"})
    BY <1>4, <1>9, <1>10, <1>11, <1>14 DEF Same, Fields
  <2>3. t.is["src"] = (content = "buffer") /\ t.is["in"] = s.is["in"] /\ t.is["body"] = s.is["body"]
    BY <1>7, <1>9, <1>10, <1>11, <1>14 DEF Same, Fields, Streams
  <2>4. t.timers["keep"] = 0 /\ t.timers["read"] = 0 /\ t.timers["write"] = 1
    BY <1>12, <1>14, <1>11 DEF Typed, Timers
  <2> QED BY <2>1, <2>2, <2>3, <2>4
<1>16. Line(t.q) /\ In(t) = In(d)
  BY <1>10, <1>11, <1>14 DEF Same, Fields, In
<1>17. /\ b.os = s.os /\ c.os = s.os /\ t.os = s.os /\ c.is["out"] = s.is["out"] /\ t.is["out"] = d.is["out"]
       /\ b.is["src"] = t.is["src"] /\ t.paired = c.paired
  BY <1>7, <1>9, <1>10, <1>11, <1>14, <1>15 DEF Same, Fields, Streams
<1>18. In(t) = In(s) \cup (IF n # 0 /\ t.is["src"] /\ s.os["src"] THEN {"src"} ELSE {})
                     \cup (IF ~s.cont /\ ~s.is["out"] /\ s.os["out"] THEN {"out"} ELSE {})
  BY <1>9, <1>10, <1>16, <1>17
<1>19. s.cont => t.is["out"] = s.is["out"]
  BY <1>10, <1>17
<1>20. Answering(t) /\ t.pump = s.pump /\ t.cont = s.cont /\ t.seen = s.seen /\ t.done = s.done
  BY <1>15, <1>18 DEF Answering, Sending, Same, Fields
<1>21. Queued(t)
  BY <1>15, <1>16, <1>17, <1>18, <1>20 DEF Queued
<1>22. Woken(t)
  <2>1. ASSUME NEW x \in Streams, x \in t.paired, t.is[x], t.os[x] PROVE x \in In(t) \/ t.pump = x
    <3>1. CASE x \in {"in", "body"}
      BY <2>1, <3>1, <1>15, <1>17, <1>18, <1>20 DEF Woken, WokenBut, Streams
    <3>2. CASE x = "out"
      BY <2>1, <3>2, <1>15, <1>17, <1>18, <1>19, <1>20 DEF Woken, WokenBut, Streams
    <3>3. CASE x = "src"
      BY <2>1, <3>3, <1>15, <1>17, <1>18
    <3> QED BY <3>1, <3>2, <3>3 DEF Streams
  <2> QED BY <2>1 DEF Woken, WokenBut
<1>23. Timed(t)
  BY <1>15, <1>20 DEF Timed, Waits, Timers
<1>24. Counted(t)
  BY <1>20 DEF Counted, Busy
<1>25. Asks(t)
  BY <1>15, <1>18 DEF Asks, Same, Fields
<1>26. Ports(t)
  BY <1>15, <1>17, <1>20 DEF Ports
<1>27. Source(t) /\ Filled(t)
  <2>1. "src" \in t.paired <=> n # 0
    BY <1>15
  <2>2. t.rest = n /\ t.avail = m /\ t.st = "sendHeaders" /\ t.is["src"] = (content = "buffer")
    BY <1>15
  <2>3. Filled(t)
    <3>1. CASE content = "buffer" BY <3>1, <1>2, <2>2 DEF Filled
    <3>2. CASE content # "buffer" BY <3>2, <2>2 DEF Filled
    <3> QED BY <3>1, <3>2
  <2>4. t.rest > 0 <=> n # 0
    BY <1>2, <2>2
  <2>5. t.avail <= t.rest /\ (n = 0 => t.rest = 0)
    BY <1>2, <2>2
  <2>6. Source(t)
    BY <1>20, <2>1, <2>2, <2>4, <2>5 DEF Source
  <2> QED BY <2>3, <2>6
<1>28. Whole(t)
  BY <1>15 DEF Whole
<1>29. Fed(t, peer)
  <2>1. ~Reads(t)
    BY <1>15, <1>20 DEF Reads, Answering
  <2>2. Coming(t, peer) = Coming(s, peer)
    BY <1>15 DEF Same, Fields, Coming
  <2> QED BY <2>1, <2>2, <1>15, <1>20 DEF Fed, Answers
<1> QED
  BY <1>1, <1>14, <1>15, <1>20, <1>21, <1>22, <1>23, <1>24, <1>25, <1>26, <1>27, <1>28, <1>29
  DEF Good, Nearly, Core, Woken, WokenBut

\* The messages in the queue are the same.
SameTold(t, s) == \A m \in Messages : m \in In(t) <=> m \in In(s)

\* data_out becomes ready.
LEMMA OutReady ==
  ASSUME NEW s, Core(s), s.cont \/ Answering(s), s.pump = "out" => s.is["out"], s.st # "free"
  PROVE  LET t == IsReady(s, "out")
         IN /\ Core(t) /\ Same(t, s, {"is", "q"}) /\ SameTold(t, s)
            /\ \A y \in Streams \ {"out"} : t.is[y] = s.is[y]
            /\ WokenBut(s, {}) => WokenBut(t, {})
<1> DEFINE t == IsReady(s, "out")
<1>1. Typed(s) /\ Line(s.q) /\ "out" \in Streams
  BY DEF Core, Queued, Streams
<1>2. /\ Typed(t) /\ Same(t, s, {"is", "q"}) /\ Line(t.q)
      /\ \A y \in Streams : t.is[y] = (s.is[y] \/ y = "out")
      /\ In(t) = In(s) \cup (IF "out" \in s.paired /\ ~s.is["out"] /\ s.os["out"] THEN {"out"} ELSE {})
  BY <1>1, IsReadyDoes
<1> HIDE DEF t
<1>3. s.is \in [Streams -> BOOLEAN] /\ t.is \in [Streams -> BOOLEAN]
  BY <1>1, <1>2 DEF Typed
<1>4. t.is["out"] /\ \A y \in Streams \ {"out"} : t.is[y] = s.is[y]
  BY <1>1, <1>2, <1>3
<1>5. SameTold(t, s)
  BY <1>2 DEF SameTold, Messages
<1>6. Queued(t)
  BY <1>2 DEF Core, Queued, Same, Fields
<1>7. ASSUME NEW X, WokenBut(s, X) PROVE WokenBut(t, X)
  <2>1. ASSUME NEW x \in Streams \ X, x \in t.paired, t.is[x], t.os[x] PROVE x \in In(t) \/ t.pump = x
    <3>1. t.paired = s.paired /\ t.os = s.os /\ t.pump = s.pump
      BY <1>2 DEF Same, Fields
    <3>2. CASE x = "out" /\ ~s.is["out"]
      BY <2>1, <3>1, <3>2, <1>2
    <3>3. CASE x # "out" \/ s.is["out"]
      BY <2>1, <3>1, <3>3, <1>2, <1>4, <1>7 DEF WokenBut
    <3> QED BY <3>2, <3>3
  <2> QED BY <2>1 DEF WokenBut
<1>8. Answering(t) <=> Answering(s)
  BY <1>2, <1>5 DEF Answering, Same, Fields, SameTold, Messages
<1>9. Counted(t)
  BY <1>2, <1>8 DEF Core, Counted, Busy, Same, Fields
<1>10. Asks(t)
  BY <1>2, <1>5 DEF Core, Asks, Same, Fields, SameTold, Messages
<1>11. Ports(t)
  BY <1>2, <1>8 DEF Core, Ports, Same, Fields
<1>12. Source(t)
  BY <1>2, <1>4, <1>8 DEF Core, Source, Same, Fields, Typed
<1>13. Whole(t)
  BY <1>2 DEF Core, Whole, Same, Fields
<1> QED
  BY <1>2, <1>4, <1>5, <1>6, <1>7, <1>9, <1>10, <1>11, <1>12, <1>13 DEF Core, t

\* The socket takes what it has room for.
LEMMA WroteDoes ==
  ASSUME NEW s, Typed(s), NEW n \in Nat
  PROVE  LET t == Wrote(s, n)
         IN /\ Typed(t) /\ Same(t, s, {"os", "room"})
            /\ t.os["out"] = (n = Taken(s, n))
            /\ \A y \in Streams \ {"out"} : t.os[y] = s.os[y]
            /\ Taken(s, n) \in Nat /\ Taken(s, n) <= n
<1> DEFINE t == Wrote(s, n)
<1>1. Taken(s, n) \in Nat /\ Taken(s, n) <= n /\ Taken(s, n) <= s.room /\ s.room \in Nat
  BY DEF Taken, Least, Typed
<1>2. /\ DOMAIN t = DOMAIN s /\ \A f \in Fields \ {"os", "room"} : t[f] = s[f]
      /\ t.room = s.room - Taken(s, n) /\ t.os = [s.os EXCEPT !["out"] = n = Taken(s, n)]
  BY DEF Wrote, Typed, Fields
<1> HIDE DEF t
<1>3. s.os \in [Streams -> BOOLEAN] /\ "out" \in Streams
  BY DEF Typed, Streams
<1>4. /\ t.os \in [Streams -> BOOLEAN] /\ t.os["out"] = (n = Taken(s, n))
      /\ \A y \in Streams \ {"out"} : t.os[y] = s.os[y]
  <2>1. CASE n = Taken(s, n)
    <3>1. t.os = [s.os EXCEPT !["out"] = TRUE] BY <1>2, <2>1
    <3> QED BY <3>1, <1>3, <2>1
  <2>2. CASE n # Taken(s, n)
    <3>1. t.os = [s.os EXCEPT !["out"] = FALSE] BY <1>2, <2>2
    <3> QED BY <3>1, <1>3, <2>2
  <2> QED BY <2>1, <2>2
<1>5. t.room \in Nat
  BY <1>1, <1>2
<1> QED BY <1>1, <1>2, <1>4, <1>5 DEF Typed, Same, Fields, t

\* The socket takes what it is given or becomes not ready.
LEMMA WroteIsCore ==
  ASSUME NEW s, Core(s), NEW n \in Nat, s.os["out"] \/ s.pump = "out"
  PROVE  Core(Wrote(s, n)) /\ (WokenBut(s, {}) => WokenBut(Wrote(s, n), {}))
<1> DEFINE t == Wrote(s, n)
<1>1. Typed(s) BY DEF Core
<1>2. /\ Typed(t) /\ Same(t, s, {"os", "room"})
      /\ t.os["out"] = (n = Taken(s, n))
      /\ \A y \in Streams \ {"out"} : t.os[y] = s.os[y]
  BY <1>1, WroteDoes
<1> HIDE DEF t
<1>3. In(t) = In(s) /\ t.q = s.q
  BY <1>2 DEF Same, Fields, In
<1>4. Queued(t)
  BY <1>2, <1>3 DEF Core, Queued, Same, Fields
<1>5. ASSUME NEW X, WokenBut(s, X) PROVE WokenBut(t, X)
  BY <1>2, <1>3, <1>5 DEF WokenBut, Same, Fields
<1>6. Answering(t) <=> Answering(s)
  BY <1>2, <1>3 DEF Answering, Same, Fields
<1>7. Counted(t) /\ Asks(t) /\ Whole(t) /\ Source(t)
  BY <1>2, <1>3, <1>6 DEF Core, Counted, Busy, Asks, Whole, Source, Same, Fields
<1>8. Ports(t)
  BY <1>2, <1>6 DEF Core, Ports, Same, Fields, Streams
<1> QED BY <1>2, <1>4, <1>5, <1>7, <1>8 DEF Core, t

\* A piece of the content is written: what follows of it waits for the socket.
LEMMA BodyWriteIsCore ==
  ASSUME NEW s, Nearly(s), "src" \in s.paired, s.avail > 0, s.pump = "out" => s.is["out"],
         s.st # "free", PeerTyped(peer), Fed(s, peer)
  PROVE  LET t == BodyWrite(s)
         IN /\ Nearly(t) /\ Fed(t, peer) /\ t.pump = s.pump /\ t.st = s.st
            /\ "src" \in t.paired /\ t.avail > 0 => ~t.os["src"]
            /\ "src" \notin t.paired => t.avail = 0 /\ t.rest = 0
<1> DEFINE t == BodyWrite(s)
<1>1. Core(s) /\ Typed(s) /\ Timed(s) /\ Answering(s) /\ s.rest > 0 /\ s.avail <= s.rest
  BY DEF Nearly, Core, Source
<1>2. s.st \in Sending /\ s.os \in [Streams -> BOOLEAN] /\ s.rest \in Nat /\ s.avail \in Nat /\ s.room \in Nat
  BY <1>1 DEF Answering, Typed
<1>3. CASE s.st # "sendBody"
  <2> DEFINE a == [s EXCEPT !.os["src"] = FALSE]
  <2>1. t = IsReady(a, "out")
    BY <1>3 DEF BodyWrite
  <2>2. Same(a, s, {"os"}) /\ a.os = [s.os EXCEPT !["src"] = FALSE]
    BY <1>1 DEF Typed, Same, Fields
  <2> HIDE DEF a, t
  <2>3. /\ a.os \in [Streams -> BOOLEAN] /\ ~a.os["src"]
        /\ \A y \in Streams \ {"src"} : a.os[y] = s.os[y]
    BY <1>2, <2>2 DEF Streams
  <2>4. Core(a)
    <3>1. Typed(a) BY <1>1, <2>2, <2>3 DEF Typed, Same, Fields
    <3>2. In(a) = In(s) BY <2>2 DEF In, Same, Fields
    <3>3. Queued(a) /\ WokenBut(a, {"src"}) /\ Counted(a) /\ Asks(a) /\ Source(a) /\ Whole(a)
      BY <1>1, <2>2, <2>3, <3>2
      DEF Core, Queued, WokenBut, Counted, Busy, Answering, Asks, Source, Whole, Same, Fields
    <3>4. Ports(a)
      BY <1>1, <2>2, <2>3, <3>2 DEF Core, Ports, Answering, Same, Fields, Streams
    <3> QED BY <3>1, <3>3, <3>4 DEF Core
  <2>5. Answering(a) /\ (a.pump = "out" => a.is["out"]) /\ a.st # "free" /\ In(a) = In(s)
    BY <1>1, <2>2 DEF Answering, Same, Fields, In
  <2>6. Core(t) /\ Same(t, a, {"is", "q"}) /\ SameTold(t, a)
    BY <2>1, <2>4, <2>5, OutReady
  <2>7. Same(t, s, {"os", "is", "q"}) /\ SameTold(t, s) /\ t.os = a.os
    BY <2>2, <2>5, <2>6 DEF Same, Fields, SameTold
  <2>8. Timed(t)
    BY <1>1, <2>7 DEF Timed, Waits, Answering, Same, Fields, SameTold, Messages
  <2>9. Fed(t, peer)
    BY <1>1, <2>3, <2>7 DEF Fed, Reads, Answers, Answering, Coming, Same, Fields, SameTold, Messages, Streams
  <2> QED BY <2>3, <2>6, <2>7, <2>8, <2>9 DEF Nearly, Same, Fields, t
<1>4. CASE s.st = "sendBody"
  <2> DEFINE k == IF s.os["out"] THEN Taken(s, s.avail) ELSE 0
             w == IF s.os["out"] THEN Wrote(s, s.avail) ELSE s
             b == Unset(w, "write")
             c == [b EXCEPT !.os["src"] = FALSE]
             u == IF b.os["out"] THEN b ELSE IsReady(c, "out")
             v == [u EXCEPT !.rest = @ - k, !.avail = @ - k]
  <2>1. t = IF v.rest = 0 THEN RequestComplete(v) ELSE Set(v, "write")
    BY <1>4 DEF BodyWrite
  <2> HIDE DEF t
  <2>2. /\ Core(w) /\ Same(w, s, {"os", "room"})
        /\ k \in Nat /\ k <= s.avail /\ w.os["out"] = (k = s.avail)
        /\ \A y \in Streams \ {"out"} : w.os[y] = s.os[y]
    <3>1. CASE s.os["out"]
      BY <3>1, <1>1, <1>2, WroteDoes, WroteIsCore
    <3>2. CASE ~s.os["out"]
      <4>1. w = s /\ k = 0 /\ k # s.avail
        BY <3>2, <1>2
      <4>2. w.os["out"] = FALSE
        BY <4>1, <3>2, <1>2 DEF Streams
      <4> HIDE DEF k, w
      <4>3. w.os["out"] = (k = s.avail)
        BY <4>1, <4>2
      <4> QED BY <4>1, <4>3, <1>1, <1>2 DEF Same
    <3> QED BY <3>1, <3>2
  <2> HIDE DEF k, w
  <2>3. Typed(b) /\ Same(b, w, {"timers"}) /\ b.timers = [w.timers EXCEPT !["write"] = 0]
    BY <2>2, TimersDo DEF Core, Timers
  <2> HIDE DEF b
  <2>4. /\ In(b) = In(s) /\ Same(b, s, {"os", "room", "timers"}) /\ b.timers = [s.timers EXCEPT !["write"] = 0]
        /\ b.os = w.os /\ In(w) = In(s)
    BY <2>2, <2>3 DEF In, Same, Fields
  <2>5. Core(b)
    BY <2>2, <2>3, <2>4 DEF Core, Queued, WokenBut, Counted, Busy, Answering, Asks, Ports, Source, Whole, Same, Fields
  <2>6. /\ Core(u) /\ Same(u, s, {"os", "room", "timers", "is", "q"}) /\ SameTold(u, s)
        /\ u.timers = b.timers
        /\ k = s.avail \/ ~u.os["src"]
    <3>1. CASE b.os["out"]
      BY <3>1, <2>2, <2>4, <2>5 DEF Same, SameTold
    <3>2. CASE ~b.os["out"]
      <4>1. u = IsReady(c, "out")
        BY <3>2
      <4>2. Same(c, b, {"os"}) /\ c.os = [b.os EXCEPT !["src"] = FALSE]
        BY <2>3 DEF Typed, Same, Fields
      <4> HIDE DEF c, u
      <4>3. /\ c.os \in [Streams -> BOOLEAN] /\ ~c.os["src"]
            /\ \A y \in Streams \ {"src"} : c.os[y] = b.os[y]
        BY <2>3, <4>2 DEF Streams, Typed
      <4>4. Core(c)
        <5>1. Typed(c) BY <2>3, <4>2, <4>3 DEF Typed, Same, Fields
        <5>2. In(c) = In(b) BY <4>2 DEF In, Same, Fields
        <5>3. Queued(c) /\ WokenBut(c, {"src"}) /\ Counted(c) /\ Asks(c) /\ Source(c) /\ Whole(c)
          BY <2>5, <4>2, <4>3, <5>2
          DEF Core, Queued, WokenBut, Counted, Busy, Answering, Asks, Source, Whole, Same, Fields
        <5>4. Ports(c)
          BY <2>5, <4>2, <4>3, <5>2 DEF Core, Ports, Answering, Same, Fields, Streams
        <5> QED BY <5>1, <5>3, <5>4 DEF Core
      <4>5. Answering(c) /\ (c.pump = "out" => c.is["out"]) /\ c.st # "free" /\ In(c) = In(s)
        BY <1>1, <2>4, <4>2 DEF Answering, Same, Fields, In
      <4>6. Core(u) /\ Same(u, c, {"is", "q"}) /\ SameTold(u, c)
        BY <4>1, <4>4, <4>5, OutReady
      <4> QED BY <2>4, <4>2, <4>3, <4>5, <4>6 DEF Same, Fields, SameTold
    <3> QED BY <3>1, <3>2
  <2> HIDE DEF u
  <2>7. /\ Typed(u) /\ u.rest = s.rest /\ u.avail = s.avail /\ u.st = s.st /\ u.paired = s.paired
        /\ u.timers = [s.timers EXCEPT !["write"] = 0]
    BY <2>4, <2>6 DEF Core, Same, Fields
  <2>8. /\ DOMAIN v = DOMAIN u /\ \A f \in Fields \ {"rest", "avail"} : v[f] = u[f]
        /\ v.rest = s.rest - k /\ v.avail = s.avail - k
    BY <2>7 DEF Typed, Fields
  <2> HIDE DEF v
  <2>9. /\ Same(v, s, {"os", "room", "timers", "is", "q", "rest", "avail"}) /\ SameTold(v, s) /\ v.timers = u.timers
        /\ v.q = u.q /\ In(v) = In(u) /\ v.os = u.os
    BY <2>6, <2>8 DEF Same, Fields, SameTold, In
  <2>10. /\ v.rest \in 0..Content /\ v.rest \in Nat /\ v.avail \in Nat /\ v.avail <= v.rest
         /\ s.avail = k <=> v.avail = 0
    <3>1. s.rest \in 0..Content /\ Content \in Nat /\ k \in Nat /\ k <= s.avail /\ s.avail <= s.rest
          /\ s.rest \in Nat /\ s.avail \in Nat
      BY <1>1, <1>2, <2>2, NxConnAssumption DEF Typed
    <3>2. v.rest = s.rest - k /\ v.avail = s.avail - k
      BY <2>8
    <3> QED BY <3>1, <3>2
  <2>11. Typed(v)
    BY <2>7, <2>8, <2>10 DEF Typed, Fields
  <2>12. /\ Queued(v) /\ WokenBut(v, {"src"}) /\ Counted(v) /\ Asks(v) /\ Ports(v) /\ Whole(v)
         /\ v.is = u.is
    BY <2>6, <2>8, <2>9 DEF Core, Queued, WokenBut, Counted, Busy, Answering, Asks, Ports, Whole, Fields
  <2>13. /\ Answering(v) /\ ~v.cont /\ v.timers["keep"] = 0 /\ v.timers["read"] = 0 /\ v.timers["write"] = 0
         /\ "src" \in v.paired
    <3>1. Answering(v)
      BY <1>1, <2>9 DEF Answering, Same, Fields, SameTold, Messages
    <3>2. ~s.cont
      BY <1>1, <1>4 DEF Core, Ports
    <3>3. s.timers["keep"] = 0 /\ s.timers["read"] = 0
      BY <1>1, <1>4 DEF Timed, Waits, Timers
    <3>4. v.cont = s.cont /\ v.paired = s.paired
      BY <2>9 DEF Same, Fields
    <3>5. s.timers \in [Timers -> {0, 1}] /\ v.timers = [s.timers EXCEPT !["write"] = 0]
      BY <1>1, <2>7, <2>9 DEF Core, Typed
    <3>6. v.timers["keep"] = 0 /\ v.timers["read"] = 0 /\ v.timers["write"] = 0
      BY <3>3, <3>5 DEF Timers
    <3> QED BY <3>1, <3>2, <3>4, <3>6, <1>1
  <2>14. Fed(v, peer)
    BY <1>1, <1>4, <2>9, <2>13 DEF Fed, Reads, Answers, Answering, Coming, Same, Fields, SameTold, Messages
  <2>15. CASE v.rest = 0
    <3>1. t = RequestComplete(v)
      BY <2>1, <2>15
    <3>2. /\ Good(t) /\ Fed(t, peer) /\ "src" \notin t.paired
          /\ Same(t, v, {"is", "done", "timers", "paired", "q"})
      BY <3>1, <2>10, <2>11, <2>12, <2>13, <2>14, CompleteIsGood
    <3> QED BY <3>2, <2>9, <2>10, <2>15 DEF Good, Same, Fields, t
  <2>16. CASE v.rest # 0
    <3>1. t = Set(v, "write")
      BY <2>1, <2>16
    <3>2. Typed(t) /\ Same(t, v, {"timers"}) /\ t.timers = [v.timers EXCEPT !["write"] = 1]
      BY <3>1, <2>11, <2>13, TimersDo DEF Timers
    <3> HIDE DEF t
    <3>3. t.q = v.q /\ In(t) = In(v) /\ Answering(t)
      BY <3>2, <2>13 DEF Same, Fields, In, Answering
    <3>4. Queued(t) /\ WokenBut(t, {"src"}) /\ Counted(t) /\ Asks(t) /\ Ports(t) /\ Whole(t)
      BY <3>2, <3>3, <2>12, <2>13 DEF Queued, WokenBut, Counted, Busy, Asks, Ports, Whole, Same, Fields
    <3>5. Source(t)
      BY <3>2, <3>3, <2>10, <2>13, <2>16 DEF Source, Same, Fields
    <3>6. Timed(t)
      BY <3>2, <3>3, <2>11, <2>13 DEF Timed, Waits, Timers, Answering, Sending, Typed
    <3>7. Fed(t, peer)
      BY <3>2, <3>3, <2>14 DEF Fed, Reads, Answers, Answering, Coming, Same, Fields
    <3>8. "src" \in t.paired /\ t.avail > 0 => ~t.os["src"]
      BY <3>2, <2>6, <2>9, <2>10 DEF Same, Fields
    <3> QED BY <3>2, <3>4, <3>5, <3>6, <3>7, <3>8, <2>9, <2>13 DEF Nearly, Core, Same, Fields, t
  <2> QED BY <2>15, <2>16
<1> QED BY <1>3, <1>4

\* The stream of the content passes on what it has.
LEMMA ContentWriteIsGood ==
  ASSUME NEW s, Nearly(s), "src" \in s.paired, s.avail > 0, s.pump = "out" => s.is["out"],
         s.st # "free", PeerTyped(peer), Fed(s, peer)
  PROVE  LET t == ContentWrite(s)
         IN Good(t) /\ Fed(t, peer) /\ t.pump = s.pump /\ t.st = s.st
<1> DEFINE b == BodyWrite(s)
           t == ContentWrite(s)
<1>1. /\ Nearly(b) /\ Fed(b, peer) /\ b.pump = s.pump /\ b.st = s.st
      /\ "src" \in b.paired /\ b.avail > 0 => ~b.os["src"]
      /\ "src" \notin b.paired => b.avail = 0 /\ b.rest = 0
  BY BodyWriteIsCore
<1>2. t = IF b.avail = 0 /\ b.rest > 0 THEN [b EXCEPT !.is["src"] = FALSE] ELSE b
  BY DEF ContentWrite
<1> HIDE DEF b, t
<1>3. Core(b) /\ Typed(b) /\ b.avail \in Nat /\ b.rest \in Nat /\ Source(b)
  <2>1. Core(b)
    BY <1>1 DEF Nearly
  <2>2. Typed(b) /\ Source(b)
    BY <2>1 DEF Core
  <2>3. b.avail \in Nat /\ b.rest \in 0..Content
    BY <2>2 DEF Typed
  <2> QED BY <2>1, <2>2, <2>3, NxConnAssumption
<1>4. CASE b.avail = 0 /\ b.rest > 0
  <2>1. Same(t, b, {"is"}) /\ t.is = [b.is EXCEPT !["src"] = FALSE]
    BY <1>2, <1>3, <1>4 DEF Typed, Same, Fields
  <2>2. t.is \in [Streams -> BOOLEAN] /\ ~t.is["src"] /\ \A y \in Streams \ {"src"} : t.is[y] = b.is[y]
    BY <2>1, <1>3 DEF Typed, Streams
  <2>3. Typed(t)
    BY <2>1, <2>2, <1>3 DEF Typed, Same, Fields
  <2>4. In(t) = In(b)
    BY <2>1 DEF In, Same, Fields
  <2>5. Queued(t) /\ Counted(t) /\ Asks(t) /\ Ports(t) /\ Whole(t) /\ Timed(t)
    BY <2>1, <2>4, <1>1 DEF Nearly, Core, Queued, Counted, Busy, Answering, Asks, Ports, Whole, Timed, Waits, Same, Fields
  <2>6. Source(t) /\ Filled(t)
    BY <2>1, <2>2, <2>4, <1>3 DEF Source, Filled, Answering, Same, Fields, Streams
  <2>7. Woken(t)
    BY <2>1, <2>2, <2>4, <1>3 DEF Core, Woken, WokenBut, Same, Fields
  <2>8. Fed(t, peer)
    BY <2>1, <2>4, <1>1 DEF Fed, Reads, Answers, Answering, Coming, Same, Fields
  <2> QED BY <2>1, <2>3, <2>5, <2>6, <2>7, <2>8, <1>1 DEF Good, Nearly, Core, Woken, WokenBut, Same, Fields, t
<1>5. CASE ~(b.avail = 0 /\ b.rest > 0)
  <2>1. t = b
    BY <1>2, <1>5
  <2>2. "src" \in b.paired => b.avail > 0
    BY <1>3, <1>5 DEF Source
  <2>3. Woken(b) /\ Filled(b)
    BY <1>1, <1>3, <2>2 DEF Core, Woken, WokenBut, Filled
  <2> QED BY <2>1, <2>3, <1>1 DEF Good, t
<1> QED BY <1>4, <1>5

\* data_out has sent what there is, and waits for the content.
LEMMA OutIdles ==
  ASSUME NEW s, Good(s), s.st # "free", ~s.is["src"], Fed(s, peer)
  PROVE  LET t == OsReady([s EXCEPT !.is["out"] = FALSE], "src")
         IN Good(t) /\ Fed(t, peer) /\ t.pump = s.pump /\ t.st = s.st
<1> DEFINE a == [s EXCEPT !.is["out"] = FALSE]
           t == OsReady(a, "src")
<1>1. Typed(s) /\ Line(s.q)
  BY DEF Good, Nearly, Core, Queued
<1>2. Same(a, s, {"is"}) /\ a.is = [s.is EXCEPT !["out"] = FALSE]
  BY <1>1 DEF Typed, Same, Fields
<1> HIDE DEF a
<1>3. a.is \in [Streams -> BOOLEAN] /\ ~a.is["out"] /\ \A y \in Streams \ {"out"} : a.is[y] = s.is[y]
  BY <1>1, <1>2 DEF Typed, Streams
<1>4. Typed(a) /\ a.q = s.q /\ In(a) = In(s)
  BY <1>1, <1>2, <1>3 DEF Typed, Same, Fields, In
<1>5. ~a.is["src"] /\ "src" \in Streams
  BY <1>3 DEF Streams
<1>6. /\ Typed(t) /\ Same(t, a, {"os", "q"}) /\ Line(t.q)
      /\ \A y \in Streams : t.os[y] = (a.os[y] \/ y = "src")
      /\ In(t) = In(a)
  <2>1. Line(a.q)
    BY <1>1, <1>4
  <2>2. /\ Typed(t) /\ Same(t, a, {"os", "q"}) /\ Line(t.q)
        /\ \A y \in Streams : t.os[y] = (a.os[y] \/ y = "src")
        /\ In(t) = In(a) \cup (IF "src" \in a.paired /\ a.is["src"] THEN {"src"} ELSE {})
    BY <2>1, <1>4, <1>5, OsReadyDoes
  <2> QED BY <2>2, <1>5
<1> HIDE DEF t
<1>7. a.os \in [Streams -> BOOLEAN] /\ t.os \in [Streams -> BOOLEAN] /\ a.os = s.os
  BY <1>2, <1>4, <1>6 DEF Typed, Same, Fields
<1>8. /\ Same(t, s, {"is", "os", "q"}) /\ In(t) = In(s) /\ ~t.is["out"] /\ ~t.is["src"]
      /\ \A y \in Streams \ {"out"} : t.is[y] = s.is[y]
      /\ \A y \in Streams \ {"src"} : t.os[y] = s.os[y]
  BY <1>2, <1>3, <1>4, <1>5, <1>6, <1>7 DEF Same, Fields
<1>9. Queued(t) /\ Counted(t) /\ Asks(t) /\ Whole(t) /\ Timed(t) /\ Source(t) /\ Filled(t)
  BY <1>6, <1>8 DEF Good, Nearly, Core, Queued, Counted, Busy, Answering, Asks, Whole, Timed, Waits, Source, Filled, Same, Fields
<1>10. Ports(t)
  BY <1>8 DEF Good, Nearly, Core, Ports, Answering, Same, Fields, Streams
<1>11. Woken(t)
  BY <1>8 DEF Good, Woken, WokenBut, Same, Fields
<1>12. Fed(t, peer)
  BY <1>8 DEF Fed, Reads, Answers, Answering, Coming, Same, Fields, Streams
<1> QED
  BY <1>6, <1>8, <1>9, <1>10, <1>11, <1>12 DEF Good, Nearly, Core, Woken, WokenBut, Same, Fields, t, a

\* data_out fetches the content, or finds that there is none yet.
LEMMA SendBodyIsGood ==
  ASSUME NEW s, Good(s), s.st = "sendBody", "complete" \notin In(s), s.pump = "out", s.is["out"],
         PeerTyped(peer), Fed(s, peer)
  PROVE  LET t == SendBody(s)
         IN Good(t) /\ Fed(t, peer) /\ t.pump = s.pump /\ t.st = s.st
<1> DEFINE a == [s EXCEPT !.os["src"] = TRUE]
           t == IF s.is["src"] THEN ContentWrite(a) ELSE s
<1>1. Typed(s) /\ "src" \in s.paired /\ (s.is["src"] => s.avail > 0)
  BY DEF Good, Nearly, Core, Source, Filled, Answering, Sending
<1>2. SendBody(s) = IF t.is["src"] THEN t ELSE OsReady([t EXCEPT !.is["out"] = FALSE], "src")
  BY <1>1 DEF SendBody
<1>3. Good(t) /\ Fed(t, peer) /\ t.pump = s.pump /\ t.st = s.st
  <2>1. CASE s.is["src"]
    <3>1. t = ContentWrite(a)
      BY <2>1
    <3>2. Same(a, s, {"os"}) /\ a.os = [s.os EXCEPT !["src"] = TRUE]
      BY <1>1 DEF Typed, Same, Fields
    <3> HIDE DEF a, t
    <3>3. a.os \in [Streams -> BOOLEAN] /\ \A y \in Streams \ {"src"} : a.os[y] = s.os[y]
      BY <1>1, <3>2 DEF Typed, Streams
    <3>4. Typed(a) /\ In(a) = In(s)
      BY <1>1, <3>2, <3>3 DEF Typed, Same, Fields, In
    <3>5. Queued(a) /\ WokenBut(a, {"src"}) /\ Counted(a) /\ Asks(a) /\ Whole(a) /\ Timed(a) /\ Source(a)
      BY <3>2, <3>3, <3>4
      DEF Good, Nearly, Core, Queued, WokenBut, Counted, Busy, Answering, Asks, Whole, Timed, Waits, Source, Same, Fields
    <3>6. Ports(a)
      BY <3>2, <3>3, <3>4 DEF Good, Nearly, Core, Ports, Answering, Same, Fields, Streams
    <3>7. Fed(a, peer)
      BY <3>2, <3>3, <3>4 DEF Fed, Reads, Answers, Answering, Coming, Same, Fields, Streams
    <3>8. /\ Nearly(a) /\ "src" \in a.paired /\ a.avail > 0 /\ a.is["out"] /\ a.st # "free"
          /\ a.pump = s.pump /\ a.st = s.st
      BY <1>1, <2>1, <3>2, <3>4, <3>5, <3>6 DEF Nearly, Core, Same, Fields
    <3> QED BY <3>1, <3>7, <3>8, ContentWriteIsGood
  <2>2. CASE ~s.is["src"]
    BY <2>2
  <2> QED BY <2>1, <2>2
<1> HIDE DEF t
<1>4. CASE t.is["src"]
  BY <1>2, <1>3, <1>4
<1>5. CASE ~t.is["src"]
  BY <1>2, <1>3, <1>5, OutIdles
<1> QED BY <1>4, <1>5

\* The timer of an answer is set again.
LEMMA TimerAgain ==
  ASSUME NEW s, Good(s), Answering(s), Fed(s, peer)
  PROVE  LET t == Set(Unset(s, "write"), "write")
         IN Good(t) /\ Fed(t, peer) /\ Same(t, s, {"timers"}) /\ In(t) = In(s)
<1> DEFINE a == Unset(s, "write")
           t == Set(a, "write")
<1>1. Typed(s)
  BY DEF Good, Nearly, Core
<1>2. Typed(a) /\ Same(a, s, {"timers"}) /\ a.timers = [s.timers EXCEPT !["write"] = 0]
  BY <1>1, TimersDo DEF Timers
<1> HIDE DEF a
<1>3. a.timers["write"] = 0
  <2>1. s.timers \in [Timers -> {0, 1}]
    BY <1>1 DEF Typed
  <2> QED BY <1>2, <2>1 DEF Timers
<1>4. Typed(t) /\ Same(t, a, {"timers"}) /\ t.timers = [a.timers EXCEPT !["write"] = 1]
  BY <1>2, <1>3, TimersDo DEF Timers
<1> HIDE DEF t
<1>5. Same(t, s, {"timers"}) /\ In(t) = In(s) /\ Answering(t)
  BY <1>2, <1>4 DEF Same, Fields, In, Answering
<1>6. Timed(t)
  <2>1. s.timers \in [Timers -> {0, 1}] /\ Timed(s)
    BY <1>1 DEF Good, Nearly, Typed
  <2>2. t.timers["write"] = 1 /\ \A x \in Timers \ {"write"} : t.timers[x] = s.timers[x]
    BY <1>2, <1>4, <2>1 DEF Timers
  <2>3. t.st = s.st /\ In(t) = In(s) /\ Answering(t) /\ Answering(s)
    BY <1>5 DEF Same, Fields, Answering
  <2>4. \A x \in Timers : Waits(t, x) <=> Waits(s, x)
    BY <2>3 DEF Waits
  <2>5. Waits(t, "write")
    BY <2>3 DEF Waits
  <2> QED BY <2>1, <2>2, <2>3, <2>4, <2>5 DEF Timed
<1>7. Queued(t) /\ Counted(t) /\ Asks(t) /\ Whole(t) /\ Source(t) /\ Filled(t) /\ Woken(t) /\ Ports(t)
  BY <1>5 DEF Good, Nearly, Core, Queued, Counted, Busy, Answering, Asks, Whole, Source, Filled, Woken, WokenBut, Ports, Same, Fields
<1>8. Fed(t, peer)
  BY <1>5 DEF Fed, Reads, Answers, Answering, Coming, Same, Fields
<1> QED BY <1>4, <1>5, <1>6, <1>7, <1>8 DEF Good, Nearly, Core, Woken, WokenBut, t, a

\* The socket takes a unit, or is not ready.
LEMMA WroteIsGood ==
  ASSUME NEW s, Good(s), s.pump = "out", Fed(s, peer)
  PROVE  LET t == Wrote(s, 1)
         IN Good(t) /\ Fed(t, peer) /\ Same(t, s, {"os", "room"}) /\ In(t) = In(s)
<1> DEFINE t == Wrote(s, 1)
<1>1. Core(s) /\ Typed(s) /\ Timed(s) /\ WokenBut(s, {})
  BY DEF Good, Nearly, Core, Woken
<1>2. Core(t) /\ WokenBut(t, {}) /\ Same(t, s, {"os", "room"}) /\ \A y \in Streams \ {"out"} : t.os[y] = s.os[y]
  BY <1>1, WroteIsCore, WroteDoes
<1> HIDE DEF t
<1>3. In(t) = In(s)
  BY <1>2 DEF Same, Fields, In
<1>4. Timed(t) /\ Filled(t)
  BY <1>1, <1>2, <1>3 DEF Good, Timed, Waits, Answering, Filled, Same, Fields
<1>5. Fed(t, peer)
  BY <1>2, <1>3 DEF Fed, Reads, Answers, Answering, Coming, Same, Fields, Streams
<1> QED BY <1>2, <1>3, <1>4, <1>5 DEF Good, Nearly, Woken, t

\* data_out sends the headers, and the content after them.
LEMMA SendHeadersIsGood ==
  ASSUME NEW s, Good(s), s.st # "free", ~s.cont, s.pump = "out", s.is["out"], PeerTyped(peer), Fed(s, peer)
  PROVE  LET t == SendHeaders(s)
         IN Good(t) /\ Fed(t, peer) /\ t.pump = s.pump /\ t.st # "free"
<1> DEFINE r == Set(Unset(s, "write"), "write")
           t == Wrote(r, 1)
           e == [t EXCEPT !.st = "sendBody"]
<1>1. Answering(s)
  BY DEF Good, Nearly, Core, Source
<1>2. Good(r) /\ Fed(r, peer) /\ Same(r, s, {"timers"}) /\ In(r) = In(s)
  BY <1>1, TimerAgain
<1>3. SendHeaders(s) = IF s.st # "sendHeaders" THEN SendBody(r)
                       ELSE IF Taken(s, 1) = 0 THEN t
                       ELSE IF s.rest = 0 THEN RequestComplete(t) ELSE SendBody(e)
  BY DEF SendHeaders
<1> HIDE DEF r
<1>4. /\ r.st = s.st /\ r.pump = "out" /\ r.is["out"] /\ ~r.cont /\ r.rest = s.rest /\ Answering(r)
      /\ "complete" \notin In(r)
  BY <1>1, <1>2 DEF Same, Fields, Answering
<1>5. CASE s.st # "sendHeaders"
  <2>1. r.st = "sendBody"
    BY <1>1, <1>4, <1>5 DEF Answering, Sending
  <2> QED BY <1>2, <1>3, <1>4, <1>5, <2>1, SendBodyIsGood
<1>6. CASE s.st = "sendHeaders"
  <2>1. Good(t) /\ Fed(t, peer) /\ Same(t, r, {"os", "room"}) /\ In(t) = In(r)
    BY <1>2, <1>4, WroteIsGood
  <2> HIDE DEF t
  <2>2. /\ t.st = "sendHeaders" /\ t.pump = "out" /\ t.is["out"] /\ ~t.cont /\ t.rest = s.rest
        /\ "complete" \notin In(t) /\ Answering(t)
    BY <1>4, <1>6, <2>1 DEF Same, Fields, Answering
  <2>3. CASE Taken(s, 1) = 0
    BY <1>3, <1>6, <2>1, <2>2, <2>3
  <2>4. CASE Taken(s, 1) # 0 /\ s.rest = 0
    <3>1. SendHeaders(s) = RequestComplete(t)
      BY <1>3, <1>6, <2>4
    <3>2. /\ Typed(t) /\ Queued(t) /\ WokenBut(t, {"src"}) /\ Counted(t) /\ Asks(t) /\ Ports(t)
          /\ Whole(t) /\ t.avail <= t.rest
      BY <2>1 DEF Good, Nearly, Core, Source
    <3>3. t.timers["keep"] = 0 /\ t.timers["read"] = 0
      BY <2>1, <2>2 DEF Good, Nearly, Timed, Waits, Timers
    <3>4. /\ Good(RequestComplete(t)) /\ Fed(RequestComplete(t), peer)
          /\ Same(RequestComplete(t), t, {"is", "done", "timers", "paired", "q"})
      BY <2>1, <2>2, <3>2, <3>3, CompleteIsGood
    <3> QED BY <3>1, <3>4, <2>2 DEF Same, Fields
  <2>5. CASE Taken(s, 1) # 0 /\ s.rest # 0
    <3>1. SendHeaders(s) = SendBody(e)
      BY <1>3, <1>6, <2>5
    <3>2. Typed(t)
      BY <2>1 DEF Good, Nearly, Core
    <3>3. Same(e, t, {"st"}) /\ e.st = "sendBody"
      BY <3>2 DEF Typed, Same, Fields
    <3> HIDE DEF e
    <3>4. In(e) = In(t) /\ Answering(e)
      BY <2>2, <3>3 DEF In, Same, Fields, Answering, Sending
    <3>5. Typed(e)
      BY <3>2, <3>3 DEF Typed, Same, Fields, States, Sending
    <3>6. Queued(e) /\ Woken(e) /\ Filled(e)
      BY <2>1, <3>3, <3>4 DEF Good, Nearly, Core, Queued, Woken, WokenBut, Filled, Same, Fields
    <3>7. Timed(e) /\ Counted(e) /\ Asks(e) /\ Whole(e)
      BY <2>1, <2>2, <3>3, <3>4 DEF Good, Nearly, Core, Timed, Waits, Counted, Busy, Asks, Whole, Sending, Same, Fields
    <3>8. Ports(e) /\ Source(e)
      BY <2>1, <2>2, <2>5, <3>3, <3>4 DEF Good, Nearly, Core, Ports, Source, Sending, Same, Fields
    <3>9. Fed(e, peer)
      BY <2>1, <2>2, <3>3, <3>4 DEF Fed, Reads, Answers, Coming, Same, Fields
    <3>10. Good(e) /\ "complete" \notin In(e) /\ e.pump = "out" /\ e.is["out"]
      BY <2>2, <3>3, <3>4, <3>5, <3>6, <3>7, <3>8 DEF Good, Nearly, Core, Woken, WokenBut, Same, Fields
    <3> QED BY <3>1, <3>3, <3>9, <3>10, <2>2, SendBodyIsGood
  <2> QED BY <2>3, <2>4, <2>5
<1> QED BY <1>5, <1>6

\* A round of data_out, whatever it has to send.
LEMMA DataOutIsGood ==
  ASSUME NEW s, Good(s), s.st # "free", s.pump = "out", s.is["out"], PeerTyped(peer), Fed(s, peer)
  PROVE  LET t == DataOut(s)
         IN Good(t) /\ Fed(t, peer) /\ t.pump = s.pump /\ t.st # "free"
<1> DEFINE t == Wrote(s, 1)
           e == [t EXCEPT !.cont = FALSE]
           f == [t EXCEPT !.cont = FALSE, !.is["out"] = FALSE]
<1>1. DataOut(s) = IF ~s.cont THEN SendHeaders(s) ELSE IF Taken(s, 1) = 0 THEN t
                   ELSE IF s.st = "sendHeaders" THEN SendHeaders(e) ELSE f
  BY DEF DataOut
<1>2. Good(t) /\ Fed(t, peer) /\ Same(t, s, {"os", "room"}) /\ In(t) = In(s)
  BY WroteIsGood
<1> HIDE DEF t
<1>3. Typed(t) /\ t.st = s.st /\ t.pump = s.pump /\ t.is = s.is /\ t.cont = s.cont
  BY <1>2 DEF Good, Nearly, Core, Same, Fields
<1>4. CASE ~s.cont
  BY <1>1, <1>4, SendHeadersIsGood
<1>5. CASE s.cont /\ Taken(s, 1) = 0
  BY <1>1, <1>2, <1>3, <1>5
<1>6. CASE s.cont /\ Taken(s, 1) # 0 /\ s.st = "sendHeaders"
  <2>1. DataOut(s) = SendHeaders(e)
    BY <1>1, <1>6
  <2>2. Same(e, t, {"cont"}) /\ e.cont = FALSE
    BY <1>3 DEF Typed, Same, Fields
  <2> HIDE DEF e
  <2>3. In(e) = In(t)
    BY <2>2 DEF In, Same, Fields
  <2>4. Typed(e)
    <3>1. /\ e.st = t.st /\ e.kind = t.kind /\ e.keep = t.keep /\ e.is = t.is /\ e.os = t.os
          /\ e.paired = t.paired /\ e.pump = t.pump /\ e.timers = t.timers /\ e.handler = t.handler
          /\ e.closing = t.closing
      BY <2>2 DEF Same, Fields
    <3>2. /\ e.left = t.left /\ e.chunk = t.chunk /\ e.got = t.got /\ e.rest = t.rest
          /\ e.avail = t.avail /\ e.seen = t.seen /\ e.done = t.done /\ e.inbox = t.inbox /\ e.room = t.room
      BY <2>2 DEF Same, Fields
    <3>3. DOMAIN e = DOMAIN t
      BY <2>2 DEF Same
    <3> QED BY <1>3, <2>2, <3>1, <3>2, <3>3 DEF Typed
  <2>5. "complete" \notin In(t)
    BY <1>2, <1>3, <1>6 DEF Good, Nearly, Core, Asks
  <2>6. Queued(e) /\ Woken(e) /\ Filled(e) /\ Timed(e) /\ Counted(e) /\ Asks(e) /\ Whole(e)
    BY <1>2, <2>2, <2>3
    DEF Good, Nearly, Core, Queued, Woken, WokenBut, Filled, Timed, Waits, Counted, Busy, Answering, Asks, Whole, Same, Fields
  <2>7. Ports(e) /\ Source(e)
    BY <1>2, <1>3, <1>6, <2>2, <2>3, <2>5 DEF Good, Nearly, Core, Ports, Source, Answering, Sending, Same, Fields
  <2>8. Fed(e, peer)
    BY <1>2, <2>2, <2>3 DEF Fed, Reads, Answers, Answering, Coming, Same, Fields
  <2>9. Good(e) /\ e.st # "free" /\ e.pump = s.pump /\ e.is["out"]
    BY <1>3, <1>6, <2>2, <2>4, <2>6, <2>7 DEF Good, Nearly, Core, Woken, WokenBut, Same, Fields
  <2> QED BY <2>1, <2>2, <2>8, <2>9, SendHeadersIsGood
<1>7. CASE s.cont /\ Taken(s, 1) # 0 /\ s.st # "sendHeaders"
  <2>1. DataOut(s) = f
    BY <1>1, <1>7
  <2>2. Same(f, t, {"cont", "is"}) /\ f.cont = FALSE /\ f.is = [t.is EXCEPT !["out"] = FALSE]
    BY <1>3 DEF Typed, Same, Fields
  <2> HIDE DEF f
  <2>3. f.is \in [Streams -> BOOLEAN] /\ ~f.is["out"] /\ \A y \in Streams \ {"out"} : f.is[y] = t.is[y]
    BY <1>3, <2>2 DEF Typed, Streams
  <2>4. In(f) = In(t)
    BY <2>2 DEF In, Same, Fields
  <2>5. Typed(f)
    <3>1. f.cont \in BOOLEAN /\ f.is \in [Streams -> BOOLEAN]
      BY <2>2, <2>3
    <3>2. DOMAIN f = Fields /\ \A x \in Fields \ {"cont", "is"} : f[x] = t[x]
      BY <1>3, <2>2 DEF Typed, Same
    <3> QED BY <1>3, <3>1, <3>2 DEF Typed, Fields
  <2>6. Queued(f) /\ Filled(f) /\ Timed(f) /\ Counted(f) /\ Asks(f) /\ Whole(f)
    BY <1>2, <2>2, <2>3, <2>4
    DEF Good, Nearly, Core, Queued, Filled, Timed, Waits, Counted, Busy, Answering, Asks, Whole, Same, Fields, Streams
  <2>7. Woken(f)
    BY <1>2, <2>2, <2>3, <2>4 DEF Good, Woken, WokenBut, Same, Fields
  <2>8. Ports(f) /\ Source(f)
    BY <1>2, <2>2, <2>3, <2>4 DEF Good, Nearly, Core, Ports, Source, Answering, Same, Fields
  <2>9. Fed(f, peer)
    BY <1>2, <2>2, <2>4 DEF Fed, Reads, Answers, Answering, Coming, Same, Fields
  <2> QED BY <2>1, <2>2, <2>5, <2>6, <2>7, <2>8, <2>9, <1>3, <1>7 DEF Good, Nearly, Core, Woken, WokenBut, Same, Fields
<1> QED BY <1>4, <1>5, <1>6, <1>7

-----------------------------------------------------------------------------
(* Receiving. *)

\* What is under way can be counted.
LEMMA ComingIsNat ==
  ASSUME NEW s, s.inbox \in Seq(Tokens), peer.script \in Seq(Tokens)
  PROVE  Coming(s, peer) \in Nat
<1> DEFINE a == Len(s.inbox)
           b == Len(peer.script)
<1>1. a \in Nat /\ b \in Nat
  BY LenProperties
<1>2. Coming(s, peer) = a + b
  BY DEF Coming
<1> HIDE DEF a, b
<1> QED BY <1>1, <1>2

\* A set of numbers has a least one.
LEMMA LeastOf ==
  ASSUME NEW T, T \subseteq Nat, T # {}
  PROVE  \E i \in T : \A j \in T : i <= j
<1>1. PICK i \in T : \A j \in T : ~(<<j, i>> \in OpToRel(<, Nat))
  BY NatLessThanWellFounded, WFMin
<1>2. \A j \in T : ~(j < i)
  BY <1>1 DEF OpToRel
<1> QED BY <1>2

\* What the socket gives is taken from the front of what has arrived.
LEMMA SockReadDoes ==
  ASSUME NEW s, Typed(s), Line(s.q), NEW n \in Nat
  PROVE  LET t == SockRead(s, n)
             k == Least(n, Len(s.inbox))
         IN /\ Typed(t) /\ Same(t, s, {"is", "q", "inbox"}) /\ Line(t.q)
            /\ t.inbox = SubSeq(s.inbox, k + 1, Len(s.inbox)) /\ Len(t.inbox) = Len(s.inbox) - k
            /\ k \in Nat /\ k <= n /\ k <= Len(s.inbox)
            /\ t.is["in"] = (n = k) /\ \A y \in Streams \ {"in"} : t.is[y] = s.is[y]
            /\ In(s) \subseteq In(t) /\ In(t) \subseteq In(s) \cup {"error"}
<1> DEFINE k == Least(n, Len(s.inbox))
           a == [s EXCEPT !.inbox = SubSeq(@, k + 1, Len(@)), !.is["in"] = n = k]
           t == IF k = 0 /\ peer.gone THEN Publish(a, "error") ELSE a
<1>1. t = SockRead(s, n)
  BY DEF SockRead
<1>2. k \in Nat /\ k <= n /\ k <= Len(s.inbox) /\ Len(s.inbox) \in Nat /\ s.inbox \in Seq(Tokens)
  BY DEF Least, Typed
<1> HIDE DEF k
<1>3. /\ DOMAIN a = DOMAIN s /\ \A f \in Fields \ {"is", "inbox"} : a[f] = s[f]
      /\ a.inbox = SubSeq(s.inbox, k + 1, Len(s.inbox)) /\ a.is = [s.is EXCEPT !["in"] = n = k]
  BY DEF Typed, Fields
<1> HIDE DEF a
<1>4. a.inbox \in Seq(Tokens) /\ Len(a.inbox) = Len(s.inbox) - k
  <2>1. \A i \in (k + 1)..Len(s.inbox) : s.inbox[i] \in Tokens
    BY <1>2, ElementOfSeq
  <2>2. /\ a.inbox \in Seq(Tokens)
        /\ Len(a.inbox) = IF k + 1 <= Len(s.inbox) THEN Len(s.inbox) - (k + 1) + 1 ELSE 0
    BY <1>2, <1>3, <2>1, SubSeqProperties
  <2> QED BY <2>2, <1>2
<1>5. /\ a.is \in [Streams -> BOOLEAN] /\ a.is["in"] = (n = k)
      /\ \A y \in Streams \ {"in"} : a.is[y] = s.is[y]
  <2>1. s.is \in [Streams -> BOOLEAN] /\ "in" \in Streams
    BY DEF Typed, Streams
  <2>2. CASE n = k
    <3>1. a.is = [s.is EXCEPT !["in"] = TRUE] BY <1>3, <2>2
    <3> QED BY <3>1, <2>1, <2>2
  <2>3. CASE n # k
    <3>1. a.is = [s.is EXCEPT !["in"] = FALSE] BY <1>3, <2>3
    <3> QED BY <3>1, <2>1, <2>3
  <2> QED BY <2>2, <2>3
<1>6. Typed(a) /\ Same(a, s, {"is", "inbox"}) /\ a.q = s.q /\ In(a) = In(s)
  BY <1>3, <1>4, <1>5 DEF Typed, Same, Fields, In
<1>7. /\ Typed(t) /\ Same(t, a, {"q"}) /\ Line(t.q)
      /\ In(a) \subseteq In(t) /\ In(t) \subseteq In(a) \cup {"error"}
  <2>1. CASE k = 0 /\ peer.gone
    <3>1. "error" \in Messages /\ t = Publish(a, "error")
      BY <2>1 DEF Messages
    <3> HIDE DEF t
    <3> QED BY <3>1, <1>6, PublishDoes
  <2>2. CASE ~(k = 0 /\ peer.gone)
    BY <2>2, <1>6 DEF Same
  <2> QED BY <2>1, <2>2
<1> HIDE DEF t
<1> QED BY <1>1, <1>2, <1>3, <1>4, <1>5, <1>6, <1>7 DEF Same, Fields, k

\* A connection that reads headers takes parts of them, until their end.
LEMMA HeadedParts ==
  ASSUME NEW v \in Seq(Tokens), NEW w \in Seq(Tokens), Headed(v \o w), NEW k \in 0..Len(v),
         \A j \in 1..k : v[j] = "part"
  PROVE  Headed(SubSeq(v, k + 1, Len(v)) \o w)
<1> DEFINE u == v \o w
           b == SubSeq(v, k + 1, Len(v))
           r == b \o w
           P == \A j \in 1..Len(u) : u[j] = "part"
           E == \E i \in 1..Len(u) :
                  /\ u[i] \in Kinds
                  /\ \A j \in 1..Len(u) : j < i => u[j] = "part"
                  /\ Len(u) <= i + (IF u[i] \in HasBody THEN Body ELSE 0)
<1>1. /\ Len(v) \in Nat /\ Len(w) \in Nat /\ u \in Seq(Tokens) /\ Len(u) = Len(v) + Len(w)
      /\ \A i \in 1..(Len(v) + Len(w)) : u[i] = IF i <= Len(v) THEN v[i] ELSE w[i - Len(v)]
  BY ConcatProperties
<1>2. b \in Seq(Tokens) /\ Len(b) = Len(v) - k /\ \A i \in 1..(Len(v) - k) : b[i] = v[k + i]
  <2>1. \A i \in (k + 1)..Len(v) : v[i] \in Tokens
    BY <1>1, ElementOfSeq
  <2>2. /\ b \in Seq(Tokens)
        /\ Len(b) = IF k + 1 <= Len(v) THEN Len(v) - (k + 1) + 1 ELSE 0
        /\ \A i \in 1..(Len(v) - (k + 1) + 1) : b[i] = v[k + 1 + i - 1]
    BY <1>1, <2>1, SubSeqProperties
  <2>3. \A i \in 1..(Len(v) - k) : i \in 1..(Len(v) - (k + 1) + 1) /\ k + 1 + i - 1 = k + i
    BY <1>1
  <2> HIDE DEF b
  <2>4. Len(b) = Len(v) - k BY <2>2, <1>1
  <2> QED BY <2>2, <2>3, <2>4
<1> HIDE DEF b
<1>3. /\ r \in Seq(Tokens) /\ Len(r) = Len(b) + Len(w)
      /\ \A i \in 1..(Len(b) + Len(w)) : r[i] = IF i <= Len(b) THEN b[i] ELSE w[i - Len(b)]
  BY <1>2, ConcatProperties
<1> HIDE DEF u, r
<1>4. Len(r) = Len(u) - k /\ \A i \in 1..(Len(u) - k) : r[i] = u[k + i]
  <2>1. ASSUME NEW i \in 1..(Len(u) - k) PROVE r[i] = u[k + i]
    <3>0. i \in 1..(Len(b) + Len(w)) /\ k + i \in 1..(Len(v) + Len(w))
      BY <1>1, <1>2
    <3>1. CASE i <= Len(b)
      <4>1. i \in 1..(Len(v) - k) /\ k + i <= Len(v) BY <1>1, <1>2, <3>1
      <4> QED BY <4>1, <3>0, <3>1, <1>1, <1>2, <1>3
    <3>2. CASE ~(i <= Len(b))
      <4>1. i - Len(b) = (k + i) - Len(v) /\ ~(k + i <= Len(v)) BY <1>1, <1>2, <3>2
      <4> QED BY <4>1, <3>0, <3>2, <1>1, <1>3
    <3> QED BY <3>1, <3>2
  <2> QED BY <2>1, <1>1, <1>2, <1>3
<1>5. \A j \in 1..k : u[j] = "part"
  BY <1>1
<1>6. k \in Nat /\ k <= Len(u) /\ Len(u) \in Nat /\ Body \in Nat
  BY <1>1, NxConnAssumption
<1>7. CASE P
  <2>1. ASSUME NEW j \in 1..Len(r) PROVE r[j] = "part"
    <3>1. j \in 1..(Len(u) - k) /\ k + j \in 1..Len(u) BY <1>4, <1>6
    <3> QED BY <3>1, <1>4, <1>7
  <2> QED BY <2>1 DEF Headed, r, b
<1>8. CASE E
  <2>1. PICK i \in 1..Len(u) :
             /\ u[i] \in Kinds
             /\ \A j \in 1..Len(u) : j < i => u[j] = "part"
             /\ Len(u) <= i + (IF u[i] \in HasBody THEN Body ELSE 0)
    BY <1>8
  <2>2. i > k
    <3>1. u[i] # "part" BY <2>1 DEF Kinds
    <3> QED BY <3>1, <1>5, <1>6
  <2>3. i - k \in 1..Len(r) /\ r[i - k] = u[i]
    <3>1. i - k \in 1..(Len(u) - k) /\ k + (i - k) = i BY <2>2, <1>6
    <3> QED BY <3>1, <1>4
  <2>4. ASSUME NEW j \in 1..Len(r), j < i - k PROVE r[j] = "part"
    <3>1. k + j \in 1..Len(u) /\ k + j < i /\ r[j] = u[k + j] BY <2>4, <1>4, <1>6
    <3> QED BY <3>1, <2>1
  <2>5. Len(r) <= (i - k) + (IF r[i - k] \in HasBody THEN Body ELSE 0)
    BY <2>1, <2>3, <1>4, <1>6
  <2> QED BY <2>1, <2>3, <2>4, <2>5 DEF Headed, r, b
<1>9. P \/ E
  BY DEF Headed, u
<1> HIDE DEF P, E
<1> QED BY <1>7, <1>8, <1>9

\* The first token that is not a part of headers is their end, followed by the body at most.
LEMMA HeadedEnd ==
  ASSUME NEW v \in Seq(Tokens), NEW w \in Seq(Tokens), Headed(v \o w), NEW i \in 1..Len(v),
         v[i] # "part", \A j \in 1..Len(v) : j < i => v[j] = "part"
  PROVE  /\ v[i] \in Kinds
         /\ Len(v) + Len(w) <= i + (IF v[i] \in HasBody THEN Body ELSE 0)
<1> DEFINE u == v \o w
<1>1. /\ Len(v) \in Nat /\ Len(w) \in Nat /\ u \in Seq(Tokens) /\ Len(u) = Len(v) + Len(w)
      /\ \A j \in 1..(Len(v) + Len(w)) : u[j] = IF j <= Len(v) THEN v[j] ELSE w[j - Len(v)]
  BY ConcatProperties
<1> HIDE DEF u
<1>2. i \in 1..Len(u) /\ u[i] = v[i]
  BY <1>1
<1>3. PICK e \in 1..Len(u) :
             /\ u[e] \in Kinds
             /\ \A j \in 1..Len(u) : j < e => u[j] = "part"
             /\ Len(u) <= e + (IF u[e] \in HasBody THEN Body ELSE 0)
  BY <1>2 DEF Headed, u
<1>4. ~(i < e)
  BY <1>2, <1>3
<1>5. ~(e < i)
  <2>1. ASSUME e < i PROVE FALSE
    <3>1. e \in 1..Len(v) /\ u[e] = v[e] BY <2>1, <1>1, <1>3
    <3>2. v[e] = "part" BY <2>1, <3>1
    <3> QED BY <3>1, <3>2, <1>3 DEF Kinds
  <2> QED BY <2>1
<1>6. e = i
  BY <1>1, <1>4, <1>5
<1> QED BY <1>1, <1>2, <1>3, <1>6

\* The headers of a request have come.
LEMMA HeadersEndIsGood ==
  ASSUME NEW s, Good(s), s.st = "headers", s.pump = "in", NEW kind \in Kinds, NEW chunk \in Nat,
         PeerTyped(peer), peer.asked # s.done,
         chunk + Coming(s, peer) <= (IF kind \in HasBody THEN Body ELSE 0)
  PROVE  LET t == HeadersEnd(s, kind, chunk)
         IN Good(t) /\ Fed(t, peer) /\ t.pump = s.pump /\ t.st # "free"
<1> DEFINE a == [s EXCEPT !.kind = kind, !.os["in"] = FALSE, !.chunk = chunk, !.seen = @ + 1]
           c == kind = "expect" /\ chunk = 0
           d == [a EXCEPT !.cont = TRUE]
           e == IF c THEN IsReady(d, "out") ELSE a
           u == Publish(e, "received")
           b == Unset(s, "read")
           bad == [b EXCEPT !.kind = kind, !.os["in"] = FALSE, !.seen = @ + 1]
           f == [u EXCEPT !.st = "body"]
           g == Unset(u, "read")
           i == [g EXCEPT !.st = "handling", !.chunk = 0]
<1>1. HeadersEnd(s, kind, chunk) =
        IF kind \notin {"get"} \cup HasBody THEN StartSending(bad, "buffer", FALSE)
        ELSE IF kind \in HasBody THEN IsReady(f, "body") ELSE i
  BY DEF HeadersEnd
<1>2. Typed(s) /\ Line(s.q) /\ Coming(s, peer) \in Nat /\ s.seen \in Nat /\ s.done \in Nat /\ Body \in Nat
  <2>1. Typed(s) /\ Line(s.q)
    BY DEF Good, Nearly, Core, Queued
  <2>2. s.inbox \in Seq(Tokens) /\ peer.script \in Seq(Tokens) /\ s.seen \in Nat /\ s.done \in Nat
    BY <2>1 DEF Typed, PeerTyped
  <2>3. Len(s.inbox) \in Nat /\ Len(peer.script) \in Nat
    BY <2>2
  <2>4. Body \in Nat
    BY NxConnAssumption
  <2>5. Coming(s, peer) \in Nat
    BY <2>2, ComingIsNat
  <2> QED BY <2>1, <2>2, <2>4, <2>5
<1>3. /\ s.handler = "idle" /\ ~s.cont /\ ~s.closing /\ ~s.is["out"] /\ "src" \notin s.paired /\ "body" \notin s.paired
      /\ "in" \in s.paired /\ "out" \in s.paired
      /\ ~s.os["body"] /\ {"received", "whole", "complete", "worker"} \cap In(s) = {}
      /\ s.seen = s.done /\ s.timers["keep"] = 0 /\ s.timers["write"] = 0
      /\ s.timers["read"] = 1 \/ "drop" \in In(s)
      /\ s.got = 0 /\ ~Answering(s)
  <2>1. s.handler = "idle" /\ ~s.cont /\ ~s.closing /\ "in" \in s.paired /\ "out" \in s.paired
        /\ "body" \notin s.paired /\ ~s.os["body"]
    BY <1>2 DEF Good, Nearly, Core, Asks, Ports, Answering, Sending
  <2>2. ~Answering(s) /\ ~s.is["out"] /\ "src" \notin s.paired /\ s.got = 0
    BY <2>1 DEF Good, Nearly, Core, Source, Whole, Answering, Sending
  <2>3. {"received", "whole", "complete", "worker"} \cap In(s) = {}
    BY <2>1 DEF Good, Nearly, Core, Asks, Sending
  <2>4. s.seen = s.done
    BY <1>2, <2>2 DEF Good, Nearly, Core, Counted, Busy
  <2>5. s.timers["keep"] = 0 /\ s.timers["write"] = 0 /\ (s.timers["read"] = 1 \/ "drop" \in In(s))
    BY <2>2 DEF Good, Nearly, Timed, Waits, Timers
  <2> QED BY <2>1, <2>2, <2>3, <2>4, <2>5
<1>4. CASE kind \notin {"get"} \cup HasBody
  <2>1. HeadersEnd(s, kind, chunk) = StartSending(bad, "buffer", FALSE)
    BY <1>1, <1>4
  <2>2. Typed(b) /\ Same(b, s, {"timers"}) /\ b.timers = [s.timers EXCEPT !["read"] = 0]
    BY <1>2, TimersDo DEF Timers
  <2> HIDE DEF b
  <2>3. /\ DOMAIN bad = DOMAIN b /\ \A x \in Fields \ {"kind", "os", "seen"} : bad[x] = b[x]
        /\ bad.kind = kind /\ bad.os = [b.os EXCEPT !["in"] = FALSE] /\ bad.seen = b.seen + 1
    BY <2>2 DEF Typed, Fields
  <2> HIDE DEF bad
  <2>4. bad.os \in [Streams -> BOOLEAN] /\ ~bad.os["in"] /\ \A y \in Streams \ {"in"} : bad.os[y] = b.os[y]
    BY <2>2, <2>3 DEF Typed, Streams
  <2>5. Typed(bad) /\ Same(bad, s, {"kind", "os", "seen", "timers"})
    <3>1. bad.seen \in Nat BY <2>2, <2>3 DEF Typed
    <3>2. Same(bad, s, {"kind", "os", "seen", "timers"})
      BY <2>2, <2>3 DEF Same, Fields
    <3>3. DOMAIN bad = Fields /\ bad.kind \in Kinds \cup {None} /\ bad.os \in [Streams -> BOOLEAN]
      BY <2>2, <2>3, <2>4 DEF Typed
    <3> QED BY <2>2, <2>3, <3>1, <3>2, <3>3 DEF Typed, Fields
  <2>6. bad.q = s.q /\ In(bad) = In(s)
    BY <2>5 DEF Same, Fields, In
  <2>7. Queued(bad) /\ Woken(bad)
    BY <2>2, <2>3, <2>4, <2>5, <2>6 DEF Good, Nearly, Core, Queued, Woken, WokenBut, Same, Fields
  <2>8. /\ bad.seen = bad.done + 1 /\ bad.timers["keep"] = 0 /\ bad.timers["write"] = 0
        /\ {"received", "whole", "complete", "worker"} \cap In(bad) = {} /\ ~bad.closing
        /\ "in" \in bad.paired /\ "out" \in bad.paired /\ "src" \notin bad.paired /\ bad.pump \notin {"out", "src"}
        /\ ~bad.os["in"] /\ ~bad.os["body"] /\ ~bad.is["out"]
    <3>1. bad.seen = bad.done + 1
      BY <1>3, <2>2, <2>3, <2>5 DEF Same, Fields
    <3>2. bad.timers = b.timers /\ bad.timers["keep"] = 0 /\ bad.timers["write"] = 0
      <4>1. bad.timers = b.timers /\ bad.timers = [s.timers EXCEPT !["read"] = 0]
        BY <2>2, <2>3 DEF Fields
      <4>2. s.timers \in [Timers -> {0, 1}]
        BY <1>2 DEF Typed
      <4> QED BY <1>3, <4>1, <4>2 DEF Timers
    <3>3. bad.closing = s.closing /\ bad.paired = s.paired /\ bad.pump = s.pump /\ bad.is = s.is
          /\ b.os = s.os
      BY <2>2, <2>5 DEF Same, Fields
    <3>4. ~bad.os["in"] /\ ~bad.os["body"]
      BY <1>3, <2>4, <3>3 DEF Streams
    <3>5. bad.pump \notin {"out", "src"}
      BY <3>3
    <3>6. {"received", "whole", "complete", "worker"} \cap In(bad) = {}
      BY <1>3, <2>6
    <3>7. ~bad.closing /\ "in" \in bad.paired /\ "out" \in bad.paired /\ "src" \notin bad.paired /\ ~bad.is["out"]
      BY <1>3, <3>3
    <3> QED BY <3>1, <3>2, <3>4, <3>5, <3>6, <3>7
  <2>9. "buffer" \in Contents /\ FALSE \in BOOLEAN
    BY DEF Contents
  <2>10. bad.pump = s.pump
    BY <2>5 DEF Same, Fields
  <2>11. FALSE => Coming(bad, peer) = 0 /\ peer.asked # bad.done
    OBVIOUS
  <2>12. bad.is["out"] => bad.cont
    BY <2>8
  <2> DEFINE z == StartSending(bad, "buffer", FALSE)
  <2>13. Good(z) /\ Fed(z, peer) /\ z.st # "free" /\ z.pump = bad.pump
    BY <2>5, <2>7, <2>8, <2>9, <2>11, <2>12, StartIsGood
  <2>14. HeadersEnd(s, kind, chunk) = z
    BY <2>1
  <2> HIDE DEF z
  <2> QED BY <2>10, <2>13, <2>14
<1>5. CASE kind \in {"get"} \cup HasBody
  <2>1. /\ DOMAIN a = DOMAIN s /\ \A x \in Fields \ {"kind", "os", "chunk", "seen"} : a[x] = s[x]
        /\ a.kind = kind /\ a.os = [s.os EXCEPT !["in"] = FALSE] /\ a.chunk = chunk /\ a.seen = s.seen + 1
    BY <1>2 DEF Typed, Fields
  <2> HIDE DEF a
  <2>2. a.os \in [Streams -> BOOLEAN] /\ ~a.os["in"] /\ \A y \in Streams \ {"in"} : a.os[y] = s.os[y]
    <3>1. s.os \in [Streams -> BOOLEAN] /\ a.os = [s.os EXCEPT !["in"] = FALSE]
      BY <1>2, <2>1 DEF Typed
    <3> QED BY <3>1 DEF Streams
  <2>3. Typed(a) /\ Same(a, s, {"kind", "os", "chunk", "seen"}) /\ a.q = s.q /\ In(a) = In(s)
    <3>1. a.seen \in Nat BY <1>2, <2>1
    <3> QED BY <1>2, <2>1, <2>2, <3>1 DEF Typed, Same, Fields, In
  <2>4. Queued(a) /\ Woken(a)
    BY <2>1, <2>2, <2>3 DEF Good, Nearly, Core, Queued, Woken, WokenBut, Same, Fields
  <2>5. Typed(d) /\ Same(d, a, {"cont"}) /\ d.cont = TRUE
    <3>1. Same(d, a, {"cont"}) /\ d.cont = TRUE
      BY <2>3 DEF Typed, Same, Fields
    <3> QED BY <2>3, <3>1 DEF Typed, Same, Fields
  <2> HIDE DEF d
  <2>6. d.q = s.q /\ In(d) = In(s) /\ Line(d.q)
    BY <1>2, <2>3, <2>5 DEF Same, Fields, In
  <2>7. /\ Typed(e) /\ Same(e, a, {"cont", "is", "q"}) /\ Line(e.q)
        /\ \A y \in Streams \ {"out"} : e.is[y] = s.is[y]
        /\ In(e) = In(s) \cup (IF c /\ s.os["out"] THEN {"out"} ELSE {})
        /\ e.cont = c /\ (e.is["out"] <=> c)
    <3>1. CASE c
      <4>1. e = IsReady(d, "out") /\ "out" \in Streams
        BY <3>1 DEF Streams
      <4> HIDE DEF c, e
      <4>2. /\ Typed(e) /\ Same(e, d, {"is", "q"}) /\ Line(e.q)
            /\ \A y \in Streams : e.is[y] = (d.is[y] \/ y = "out")
            /\ In(e) = In(d) \cup (IF "out" \in d.paired /\ ~d.is["out"] /\ d.os["out"] THEN {"out"} ELSE {})
        BY <4>1, <2>5, <2>6, IsReadyDoes
      <4>3. d.is = s.is /\ d.paired = s.paired /\ d.os["out"] = s.os["out"]
        BY <2>2, <2>3, <2>5 DEF Same, Fields, Streams
      <4>4. d.is \in [Streams -> BOOLEAN] /\ e.is \in [Streams -> BOOLEAN]
        BY <4>2, <2>5 DEF Typed
      <4>5. e.is["out"] /\ \A y \in Streams \ {"out"} : e.is[y] = s.is[y]
        BY <4>1, <4>2, <4>3, <4>4
      <4>6. Same(e, a, {"cont", "is", "q"}) /\ e.cont = TRUE
        BY <4>2, <2>5 DEF Same, Fields
      <4>7. c = TRUE
        BY <3>1 DEF c
      <4> QED BY <3>1, <4>2, <4>3, <4>5, <4>6, <4>7, <1>3, <2>6
    <3>2. CASE ~c
      <4>1. e = a
        BY <3>2
      <4>2. a.cont = FALSE /\ a.is = s.is
        BY <1>2, <1>3, <2>3 DEF Same, Fields, Typed
      <4>3. c = FALSE
        BY <3>2
      <4> HIDE DEF c, e
      <4> QED BY <3>2, <4>1, <4>2, <4>3, <1>2, <1>3, <2>3 DEF Same
    <3> QED BY <3>1, <3>2
  <2> HIDE DEF e, c
  <2>8. "received" \notin In(e) /\ "received" \in Messages
    BY <1>3, <2>7 DEF Messages
  <2>9. Typed(u) /\ Same(u, e, {"q"}) /\ Line(u.q) /\ In(u) = In(e) \cup {"received"}
    BY <2>7, <2>8, PublishDoes
  <2> HIDE DEF u
  <2>10. /\ Same(u, s, {"kind", "os", "chunk", "seen", "cont", "is", "q"})
         /\ u.kind = kind /\ u.chunk = chunk /\ u.seen = s.seen + 1 /\ u.cont = c
         /\ ~u.os["in"] /\ \A y \in Streams \ {"in"} : u.os[y] = s.os[y]
         /\ (u.is["out"] <=> c) /\ \A y \in Streams \ {"out"} : u.is[y] = s.is[y]
         /\ In(u) = In(s) \cup {"received"} \cup (IF c /\ s.os["out"] THEN {"out"} ELSE {})
    BY <2>1, <2>2, <2>3, <2>7, <2>9 DEF Same, Fields
  <2>11. Queued(u)
    BY <1>3, <2>9, <2>10 DEF Good, Nearly, Core, Queued, Same, Fields, Streams
  <2>12. Woken(u)
    <3>1. ASSUME NEW x \in Streams, x \in u.paired, u.is[x], u.os[x] PROVE x \in In(u) \/ u.pump = x
      <4>1. u.paired = s.paired /\ u.pump = s.pump BY <2>10 DEF Same, Fields
      <4>2. CASE x = "out"
        BY <3>1, <4>1, <4>2, <2>10 DEF Streams
      <4>3. CASE x = "in"
        BY <3>1, <4>3, <2>10
      <4>4. CASE x \notin {"in", "out"}
        BY <3>1, <4>1, <4>4, <2>10 DEF Good, Woken, WokenBut
      <4> QED BY <4>2, <4>3, <4>4
    <3> QED BY <3>1 DEF Woken, WokenBut
  <2>13. /\ u.timers = s.timers /\ u.done = s.done /\ u.handler = "idle" /\ u.closing = s.closing
         /\ u.paired = s.paired /\ u.rest = s.rest /\ u.avail = s.avail /\ u.got = 0 /\ u.pump = s.pump
         /\ u.inbox = s.inbox /\ u.st = "headers" /\ ~u.os["body"]
    BY <1>3, <2>10 DEF Same, Fields, Streams
  <2>14. s.avail <= s.rest /\ c \in BOOLEAN
    BY DEF Good, Nearly, Core, Source, c
  <2>15. CASE kind \in HasBody
    <3> DEFINE t == IsReady(f, "body")
    <3>1. HeadersEnd(s, kind, chunk) = t
      BY <1>1, <1>5, <2>15
    <3>2. Same(f, u, {"st"}) /\ f.st = "body" /\ f.q = u.q /\ In(f) = In(u)
      BY <2>9 DEF Typed, Same, Fields, In
    <3> HIDE DEF f
    <3>3. Typed(f)
      BY <2>9, <3>2 DEF Typed, Same, Fields, States
    <3>4. f.paired = s.paired /\ "body" \in Streams
      BY <3>2, <2>13 DEF Same, Fields, Streams
    <3>5. /\ Typed(t) /\ Same(t, f, {"is", "q"}) /\ Line(t.q)
          /\ \A y \in Streams : t.is[y] = (f.is[y] \/ y = "body")
          /\ In(t) = In(f)
      <4>1. /\ Typed(t) /\ Same(t, f, {"is", "q"}) /\ Line(t.q)
            /\ \A y \in Streams : t.is[y] = (f.is[y] \/ y = "body")
            /\ In(t) = In(f) \cup (IF "body" \in f.paired /\ ~f.is["body"] /\ f.os["body"] THEN {"body"} ELSE {})
        BY <2>9, <3>2, <3>3, <3>4, IsReadyDoes
      <4> QED BY <4>1, <3>4, <1>3
    <3> HIDE DEF t
    <3>6. f.is = u.is /\ u.is \in [Streams -> BOOLEAN] /\ t.is \in [Streams -> BOOLEAN]
      BY <2>9, <3>2, <3>5 DEF Same, Fields, Typed
    <3>7. \A y \in Streams \ {"body"} : t.is[y] = u.is[y]
      BY <3>5, <3>6
    <3>8. Same(t, u, {"st", "is", "q"}) /\ t.st = "body" /\ In(t) = In(u)
      BY <3>2, <3>5 DEF Same, Fields
    <3>9. /\ t.kind = kind /\ t.chunk = chunk /\ t.seen = s.seen + 1 /\ t.cont = c /\ t.os = u.os
          /\ t.timers = s.timers /\ t.done = s.done /\ t.handler = "idle" /\ t.closing = s.closing
          /\ t.paired = s.paired /\ t.rest = s.rest /\ t.avail = s.avail /\ t.got = 0 /\ t.pump = s.pump
          /\ t.inbox = s.inbox /\ ~Answering(t) /\ (t.is["out"] <=> c)
      BY <2>10, <2>13, <3>7, <3>8 DEF Same, Fields, Answering, Sending, Streams
    <3>10. Queued(t)
      BY <2>11, <3>5, <3>8, <3>9, <2>13 DEF Queued
    <3>11. Woken(t)
      BY <2>12, <2>13, <3>7, <3>8, <3>9, <1>3 DEF Woken, WokenBut
    <3>12. Timed(t)
      BY <1>3, <2>10, <3>8, <3>9 DEF Timed, Waits, Timers
    <3>13. Counted(t)
      BY <1>2, <1>3, <3>8, <3>9 DEF Counted, Busy
    <3>14. Asks(t)
      BY <1>3, <2>10, <2>15, <3>8, <3>9 DEF Asks
    <3>15. Ports(t)
      BY <1>3, <2>10, <2>13, <3>8, <3>9 DEF Ports
    <3>16. Source(t) /\ Filled(t)
      BY <1>3, <2>14, <3>9 DEF Source, Filled
    <3>17. Whole(t)
      BY <2>15, <3>8, <3>9, NxConnAssumption DEF Whole
    <3>18. Fed(t, peer)
      <4>1. ~Reads(t) /\ ~Answers(t)
        BY <1>3, <2>10, <3>8, <3>9 DEF Reads, Answers
      <4>2. Coming(t, peer) = Coming(s, peer)
        BY <3>9 DEF Coming
      <4>3. t.chunk + Coming(t, peer) <= Body - t.got
        BY <1>2, <2>15, <3>9, <4>2
      <4> QED BY <3>9, <4>1, <4>3 DEF Fed
    <3> QED
      BY <3>1, <3>5, <3>8, <3>9, <3>10, <3>11, <3>12, <3>13, <3>14, <3>15, <3>16, <3>17, <3>18
      DEF Good, Nearly, Core, Woken, WokenBut
  <2>16. CASE kind \notin HasBody
    <3>1. HeadersEnd(s, kind, chunk) = i
      BY <1>1, <1>5, <2>16
    <3>2. Typed(g) /\ Same(g, u, {"timers"}) /\ g.timers = [u.timers EXCEPT !["read"] = 0]
      BY <2>9, TimersDo DEF Timers
    <3> HIDE DEF g
    <3>3. Same(i, g, {"st", "chunk"}) /\ i.st = "handling" /\ i.chunk = 0
      BY <3>2 DEF Typed, Same, Fields
    <3> HIDE DEF i
    <3>4. Typed(i)
      BY <3>2, <3>3 DEF Typed, Same, Fields, States
    <3>5. Same(i, u, {"st", "chunk", "timers"}) /\ In(i) = In(u) /\ i.q = u.q
      BY <3>2, <3>3 DEF Same, Fields, In
    <3>6. /\ i.kind = kind /\ i.seen = s.seen + 1 /\ i.cont = c /\ i.os = u.os /\ i.is = u.is
          /\ i.done = s.done /\ i.handler = "idle" /\ i.closing = s.closing
          /\ i.paired = s.paired /\ i.rest = s.rest /\ i.avail = s.avail /\ i.got = 0 /\ i.pump = s.pump
          /\ i.inbox = s.inbox /\ ~Answering(i)
      BY <2>10, <2>13, <3>3, <3>5 DEF Same, Fields, Answering, Sending
    <3>7. \A x \in Timers : i.timers[x] = 0
      <4>1. i.timers = [s.timers EXCEPT !["read"] = 0]
        BY <2>13, <3>2, <3>3 DEF Same, Fields
      <4>2. s.timers \in [Timers -> {0, 1}]
        BY <1>2 DEF Typed
      <4> QED BY <1>3, <4>1, <4>2 DEF Timers
    <3>8. Queued(i) /\ Woken(i)
      BY <2>11, <2>12, <2>13, <3>5, <3>6 DEF Queued, Woken, WokenBut
    <3>9. Timed(i)
      BY <3>3, <3>6, <3>7 DEF Timed, Waits
    <3>10. Counted(i)
      BY <1>2, <1>3, <3>3, <3>6 DEF Counted, Busy
    <3>11. Asks(i)
      BY <1>3, <2>10, <2>16, <3>3, <3>5, <3>6 DEF Asks
    <3>12. Ports(i)
      BY <1>3, <2>10, <2>13, <3>3, <3>6 DEF Ports
    <3>13. Source(i) /\ Filled(i)
      BY <1>3, <2>10, <2>14, <3>6 DEF Source, Filled
    <3>14. Whole(i)
      BY <1>5, <2>16, <3>3, <3>6 DEF Whole
    <3>15. Fed(i, peer)
      <4>1. ~Reads(i)
        BY <1>3, <2>10, <3>3, <3>5 DEF Reads
      <4>2. Coming(i, peer) = Coming(s, peer)
        BY <3>6 DEF Coming
      <4>3. Coming(s, peer) = 0
        BY <1>2, <2>16
      <4> QED BY <3>3, <3>6, <4>1, <4>2, <4>3 DEF Fed
    <3> QED
      BY <3>1, <3>3, <3>4, <3>6, <3>8, <3>9, <3>10, <3>11, <3>12, <3>13, <3>14, <3>15
      DEF Good, Nearly, Core, Woken, WokenBut
  <2> QED BY <2>15, <2>16
<1> QED BY <1>4, <1>5

\* Something is read from the socket, which is being delivered.
LEMMA SockReadIsGood ==
  ASSUME NEW s, Good(s), s.pump = "in", NEW n \in Nat
  PROVE  Good(SockRead(s, n))
<1> DEFINE t == SockRead(s, n)
<1>1. Typed(s) /\ Line(s.q)
  BY DEF Good, Nearly, Core, Queued
<1>2. /\ Typed(t) /\ Same(t, s, {"is", "q", "inbox"}) /\ Line(t.q)
      /\ \A y \in Streams \ {"in"} : t.is[y] = s.is[y]
      /\ In(s) \subseteq In(t) /\ In(t) \subseteq In(s) \cup {"error"}
  BY <1>1, SockReadDoes
<1> HIDE DEF t
<1>3. Answering(t) <=> Answering(s)
  BY <1>2 DEF Answering, Same, Fields
<1>4. Queued(t)
  BY <1>2 DEF Good, Nearly, Core, Queued, Same, Fields, Streams
<1>5. Woken(t)
  BY <1>2 DEF Good, Woken, WokenBut, Same, Fields
<1>6. Timed(t)
  BY <1>2, <1>3 DEF Good, Nearly, Timed, Waits, Same, Fields
<1>7. Counted(t) /\ Whole(t)
  BY <1>2, <1>3 DEF Good, Nearly, Core, Counted, Busy, Whole, Same, Fields
<1>8. Asks(t)
  BY <1>2 DEF Good, Nearly, Core, Asks, Same, Fields
<1>9. Ports(t)
  BY <1>2, <1>3 DEF Good, Nearly, Core, Ports, Same, Fields
<1>10. Source(t) /\ Filled(t)
  BY <1>2, <1>3 DEF Good, Nearly, Core, Source, Filled, Same, Fields, Streams
<1> QED BY <1>2, <1>4, <1>5, <1>6, <1>7, <1>8, <1>9, <1>10 DEF Good, Nearly, Core, Woken, WokenBut, t

\* Parts of headers are read, or their end.
LEMMA HeadersIsGood ==
  ASSUME NEW s, Good(s), s.st = "headers", s.pump = "in", s.os["in"], NEW n \in Nat,
         PeerTyped(peer), Fed(s, peer)
  PROVE  LET t == Headers(s, n)
         IN Good(t) /\ Fed(t, peer) /\ t.pump = s.pump /\ t.st # "free"
<1> DEFINE k == Least(n, Len(s.inbox))
           got == SubSeq(s.inbox, 1, k)
           ends == {i \in 1..Len(got) : got[i] # "part"}
           t == SockRead(s, n)
           e == CHOOSE j \in ends : \A m \in ends : j <= m
           a == Len(s.inbox)
           b == Len(peer.script)
<1>1. Headers(s, n) = IF ends = {} THEN t ELSE HeadersEnd(t, got[e], Len(got) - e)
  BY DEF Headers
<1>2. Typed(s) /\ Line(s.q) /\ s.inbox \in Seq(Tokens) /\ peer.script \in Seq(Tokens)
  BY DEF Good, Nearly, Core, Queued, Typed, PeerTyped
<1>3. a \in Nat /\ b \in Nat
  BY <1>2, LenProperties
<1>4. /\ Same(t, s, {"is", "q", "inbox"})
      /\ t.inbox = SubSeq(s.inbox, k + 1, Len(s.inbox)) /\ Len(t.inbox) = a - k
      /\ k \in Nat /\ k <= n /\ k <= a
      /\ In(s) \subseteq In(t) /\ In(t) \subseteq In(s) \cup {"error"}
  BY <1>2, SockReadDoes
<1>5. Good(t)
  BY SockReadIsGood
<1> HIDE DEF t, k
<1>6. Len(got) = k /\ \A i \in 1..k : got[i] = s.inbox[i]
  <2>1. \A i \in 1..k : s.inbox[i] \in Tokens
    BY <1>2, <1>3, <1>4, ElementOfSeq
  <2>2. /\ Len(got) = IF 1 <= k THEN k - 1 + 1 ELSE 0
        /\ \A i \in 1..(k - 1 + 1) : got[i] = s.inbox[1 + i - 1]
    BY <1>4, <2>1, SubSeqProperties
  <2> HIDE DEF got
  <2>3. k - 1 + 1 = k /\ \A i \in 1..k : 1 + i - 1 = i
    BY <1>4
  <2> QED BY <2>2, <2>3, <1>4
<1> HIDE DEF got
<1>7. /\ t.st = "headers" /\ t.pump = "in" /\ t.os = s.os /\ t.kind = s.kind /\ t.done = s.done /\ t.seen = s.seen
      /\ t.keep = s.keep /\ t.chunk = s.chunk /\ t.got = s.got
  BY <1>4 DEF Same, Fields
<1>8. "complete" \notin In(s) /\ "complete" \notin In(t)
  <2>1. "complete" \notin In(s)
    BY DEF Good, Nearly, Core, Asks, Sending
  <2> QED BY <2>1, <1>4
<1>9. Headed(s.inbox \o peer.script) /\ (peer.asked = s.done => Coming(s, peer) = 0)
  BY DEF Fed, Reads
<1>10. Coming(t, peer) = a - k + b /\ Coming(s, peer) = a + b
  BY <1>4 DEF Coming
<1>a. a = Len(s.inbox) /\ b = Len(peer.script)
  OBVIOUS
<1> HIDE DEF a, b
<1>11. CASE ends = {}
  <2>1. \A j \in 1..k : s.inbox[j] = "part"
    BY <1>6, <1>11
  <2>2. k \in 0..Len(s.inbox)
    BY <1>3, <1>4, <1>a
  <2>3. Headed(t.inbox \o peer.script)
    BY <1>2, <1>4, <1>9, <2>1, <2>2, HeadedParts
  <2>4. peer.asked = t.done => Coming(t, peer) = 0
    BY <1>3, <1>4, <1>7, <1>9, <1>10
  <2>5. Fed(t, peer)
    BY <1>7, <1>8, <2>3, <2>4 DEF Fed, Reads, Answers, Answering, Sending
  <2> QED BY <1>1, <1>5, <1>7, <1>11, <2>5
<1>12. CASE ends # {}
  <2>1. e \in ends /\ \A m \in ends : e <= m
    <3>1. ends \in SUBSET Nat
      BY <1>4, <1>6
    <3>2. \E j \in ends : \A m \in ends : j <= m
      BY <1>12, <3>1, LeastOf
    <3> HIDE DEF ends
    <3> QED BY <3>2
  <2> HIDE DEF e
  <2>2. e \in 1..k /\ got[e] # "part" /\ got[e] = s.inbox[e]
    BY <1>6, <2>1
  <2>3. e \in 1..a /\ e \in Nat /\ 1 <= e /\ e <= k
    BY <1>3, <1>4, <2>2
  <2>4. \A j \in 1..a : j < e => s.inbox[j] = "part"
    <3>1. ASSUME NEW j \in 1..a, j < e PROVE s.inbox[j] = "part"
      <4>1. j \in 1..k BY <1>3, <1>4, <2>3, <3>1
      <4>2. ~(e <= j) BY <2>3, <3>1, <1>3
      <4>3. j \notin ends BY <2>1, <4>2
      <4> QED BY <1>6, <4>1, <4>3
    <3> QED BY <3>1
  <2>5. /\ got[e] \in Kinds
        /\ a + b <= e + (IF got[e] \in HasBody THEN Body ELSE 0)
    BY <1>2, <1>9, <1>a, <2>2, <2>3, <2>4, HeadedEnd
  <2>6. Len(got) - e \in Nat /\ Len(got) - e = k - e
    BY <1>4, <1>6, <2>3
  <2>7. (k - e) + Coming(t, peer) <= (IF got[e] \in HasBody THEN Body ELSE 0)
    <3>1. Body \in Nat BY NxConnAssumption
    <3> QED BY <1>3, <1>4, <1>10, <2>3, <2>5, <3>1
  <2>8. peer.asked # t.done
    <3>1. Coming(s, peer) # 0 BY <1>3, <1>10, <2>3
    <3> QED BY <3>1, <1>7, <1>9
  <2>9. /\ Good(HeadersEnd(t, got[e], Len(got) - e)) /\ Fed(HeadersEnd(t, got[e], Len(got) - e), peer)
        /\ HeadersEnd(t, got[e], Len(got) - e).pump = t.pump /\ HeadersEnd(t, got[e], Len(got) - e).st # "free"
    BY <1>5, <1>7, <2>5, <2>6, <2>7, <2>8, HeadersEndIsGood
  <2> QED BY <1>1, <1>7, <1>12, <2>9
<1> QED BY <1>11, <1>12

\* A piece of the body is read, from what came with the headers and from the socket.
LEMMA BodyReadIsGood ==
  ASSUME NEW s, Good(s), s.st = "body", "body" \in s.paired, s.os["body"], s.pump \in {"in", "body"},
         NEW n \in Nat, PeerTyped(peer), Fed(s, peer)
  PROVE  LET t == BodyRead(s, n)
         IN Good(t) /\ Fed(t, peer) /\ t.pump = s.pump /\ t.st \in {"body", "handling"}
            /\ "body" \in t.paired
<1> DEFINE size == Least(n, Body - s.got)
           k == Least(size, s.chunk)
           b == Unset(s, "read")
           t == [b EXCEPT !.chunk = @ - k, !.got = @ + k]
           l == Least(size - k, Len(s.inbox))
           w == SockRead(t, size - k)
           r == IF size > k /\ s.is["in"] THEN [w EXCEPT !.got = @ + l] ELSE t
           v == [r EXCEPT !.is["body"] = FALSE]
           u == IF size > k /\ ~r.is["in"] THEN OsReady(v, "in") ELSE r
           x == IF size > k /\ s.is["in"] THEN l ELSE 0
<1>1. BodyRead(s, n) = IF r.got = Body THEN BodyEnd(u) ELSE Set(u, "read")
  BY DEF BodyRead
<1>2. /\ Typed(s) /\ Line(s.q) /\ s.got \in Nat /\ s.got <= Body /\ s.chunk \in Nat /\ Body \in Nat
      /\ s.inbox \in Seq(Tokens) /\ peer.script \in Seq(Tokens) /\ s.is \in [Streams -> BOOLEAN]
      /\ s.os \in [Streams -> BOOLEAN] /\ s.timers \in [Timers -> {0, 1}]
  <2>1. Typed(s) /\ Line(s.q)
    BY DEF Good, Nearly, Core, Queued
  <2>2. /\ s.got \in 0..Body /\ s.chunk \in Nat /\ s.inbox \in Seq(Tokens) /\ s.is \in [Streams -> BOOLEAN]
        /\ s.os \in [Streams -> BOOLEAN] /\ s.timers \in [Timers -> {0, 1}]
    BY <2>1 DEF Typed
  <2>3. peer.script \in Seq(Tokens)
    BY DEF PeerTyped
  <2>4. Body \in Nat
    BY NxConnAssumption
  <2>5. s.got \in Nat /\ s.got <= Body
    BY <2>2, <2>4
  <2> QED BY <2>1, <2>2, <2>3, <2>4, <2>5
<1>3. Len(s.inbox) \in Nat
  BY <1>2, LenProperties
<1>4. /\ size \in Nat /\ size <= Body - s.got
      /\ k \in Nat /\ k <= size /\ k <= s.chunk /\ size - k \in Nat
  <2>1. size \in Nat /\ size <= Body - s.got
    BY <1>2 DEF Least
  <2> HIDE DEF size
  <2>2. k \in Nat /\ k <= size /\ k <= s.chunk
    BY <1>2, <2>1 DEF Least
  <2> HIDE DEF k
  <2> QED BY <2>1, <2>2
<1> HIDE DEF size, k
<1>5. Typed(b) /\ Same(b, s, {"timers"}) /\ b.timers = [s.timers EXCEPT !["read"] = 0]
  BY <1>2, TimersDo DEF Timers
<1> HIDE DEF b
<1>6. /\ DOMAIN t = DOMAIN b /\ \A f \in Fields \ {"chunk", "got"} : t[f] = b[f]
      /\ t.chunk = s.chunk - k /\ t.got = s.got + k
  BY <1>5 DEF Typed, Same, Fields
<1> HIDE DEF t
<1>7. t.chunk \in Nat /\ t.got \in 0..Body
  BY <1>2, <1>4, <1>6
<1>8. Typed(t) /\ Same(t, s, {"timers", "chunk", "got"}) /\ t.q = s.q /\ In(t) = In(s) /\ t.timers = b.timers
      /\ t.inbox = s.inbox /\ t.is = s.is
  BY <1>5, <1>6, <1>7 DEF Typed, Same, Fields, In
<1>9. /\ Typed(r) /\ Same(r, s, {"timers", "chunk", "got", "inbox", "is", "q"}) /\ Line(r.q)
      /\ r.timers = b.timers /\ r.chunk = s.chunk - k /\ r.got = s.got + k + x /\ x \in Nat
      /\ Coming(r, peer) = Coming(s, peer) - x
      /\ \A y \in Streams \ {"in"} : r.is[y] = s.is[y]
      /\ r.is["in"] => s.is["in"]
      /\ In(s) \subseteq In(r) /\ In(r) \subseteq In(s) \cup {"error"}
  <2>1. CASE size > k /\ s.is["in"]
    <3>1. x = l /\ r = [w EXCEPT !.got = @ + l]
      BY <2>1
    <3>2. /\ Typed(w) /\ Same(w, t, {"is", "q", "inbox"}) /\ Line(w.q)
          /\ Len(w.inbox) = Len(s.inbox) - l
          /\ l \in Nat /\ l <= size - k
          /\ \A y \in Streams \ {"in"} : w.is[y] = t.is[y]
          /\ In(t) \subseteq In(w) /\ In(w) \subseteq In(t) \cup {"error"}
      <4>1. Typed(t) /\ Line(t.q) /\ size - k \in Nat
        BY <1>2, <1>4, <1>8
      <4> HIDE DEF w
      <4>2. w = SockRead(t, size - k)
        BY DEF w
      <4>3. /\ Typed(w) /\ Same(w, t, {"is", "q", "inbox"}) /\ Line(w.q)
            /\ Len(w.inbox) = Len(t.inbox) - Least(size - k, Len(t.inbox))
            /\ Least(size - k, Len(t.inbox)) \in Nat /\ Least(size - k, Len(t.inbox)) <= size - k
            /\ \A y \in Streams \ {"in"} : w.is[y] = t.is[y]
            /\ In(t) \subseteq In(w) /\ In(w) \subseteq In(t) \cup {"error"}
        BY <4>1, <4>2, SockReadDoes
      <4>4. l = Least(size - k, Len(t.inbox)) /\ t.inbox = s.inbox
        BY <1>8
      <4> HIDE DEF l
      <4> QED BY <4>3, <4>4
    <3> HIDE DEF w, l, x, r
    <3>3. /\ DOMAIN r = DOMAIN w /\ \A f \in Fields \ {"got"} : r[f] = w[f]
          /\ r.got = w.got + l
      BY <3>1, <3>2 DEF Typed, Fields
    <3>4. w.got = s.got + k
      BY <1>6, <3>2 DEF Same, Fields
    <3>5. r.got \in 0..Body
      BY <1>2, <1>4, <3>2, <3>3, <3>4
    <3>6. Typed(r)
      BY <3>2, <3>3, <3>5 DEF Typed, Fields
    <3>7. r.q = w.q /\ In(r) = In(w) /\ r.inbox = w.inbox /\ r.is = w.is
      BY <3>3 DEF Fields, In
    <3>8. Same(r, s, {"timers", "chunk", "got", "inbox", "is", "q"}) /\ r.timers = b.timers /\ r.chunk = s.chunk - k
      BY <1>6, <1>8, <3>2, <3>3 DEF Same, Fields
    <3>9. Coming(r, peer) = Coming(s, peer) - x
      <4> DEFINE aa == Len(s.inbox)
                 bb == Len(peer.script)
      <4>1. aa \in Nat /\ bb \in Nat
        BY <1>2, LenProperties
      <4>2. Coming(r, peer) = (aa - x) + bb /\ Coming(s, peer) = aa + bb
        BY <3>1, <3>2, <3>7 DEF Coming
      <4>3. x \in Nat BY <3>1, <3>2
      <4> HIDE DEF aa, bb
      <4> QED BY <4>1, <4>2, <4>3
    <3>10. r.got = s.got + k + x /\ x \in Nat
      BY <3>1, <3>2, <3>3, <3>4
    <3> QED BY <1>8, <2>1, <3>2, <3>6, <3>7, <3>8, <3>9, <3>10
  <2>2. CASE ~(size > k /\ s.is["in"])
    <3>1. x = 0 /\ r = t
      BY <2>2
    <3> HIDE DEF x, r
    <3>2. t.got = s.got + k + x
      BY <1>2, <1>4, <1>6, <3>1
    <3>3. Coming(t, peer) = Coming(s, peer) - x
      <4>1. Coming(s, peer) \in Nat BY <1>2, ComingIsNat
      <4>2. Coming(t, peer) = Coming(s, peer) BY <1>8 DEF Coming
      <4> QED BY <3>1, <4>1, <4>2
    <3>4. Same(t, s, {"timers", "chunk", "got", "inbox", "is", "q"})
      BY <1>8 DEF Same
    <3> QED BY <1>2, <1>6, <1>8, <3>1, <3>2, <3>3, <3>4
  <2> QED BY <2>1, <2>2
<1> HIDE DEF r, x
<1>10. /\ Typed(u) /\ Same(u, s, {"timers", "chunk", "got", "inbox", "is", "os", "q"}) /\ Line(u.q)
       /\ u.timers = b.timers /\ u.chunk = r.chunk /\ u.got = r.got /\ u.inbox = r.inbox
       /\ \A y \in Streams \ {"in", "body"} : u.is[y] = s.is[y]
       /\ \A y \in Streams \ {"in"} : u.os[y] = s.os[y]
       /\ \A y \in Streams : u.is[y] /\ u.os[y] => s.is[y] /\ s.os[y]
       /\ In(s) \subseteq In(u) /\ In(u) \subseteq In(s) \cup {"error"}
  <2>0. r.os = s.os /\ r.is \in [Streams -> BOOLEAN]
    BY <1>9 DEF Same, Fields, Typed
  <2>1. CASE size > k /\ ~r.is["in"]
    <3>1. u = OsReady(v, "in")
      BY <2>1
    <3> HIDE DEF u
    <3>2. Same(v, r, {"is"}) /\ v.is = [r.is EXCEPT !["body"] = FALSE]
      BY <1>9 DEF Typed, Same, Fields
    <3> HIDE DEF v
    <3>3. v.is \in [Streams -> BOOLEAN] /\ ~v.is["body"] /\ \A y \in Streams \ {"body"} : v.is[y] = r.is[y]
      BY <2>0, <3>2 DEF Streams
    <3>4. Typed(v) /\ v.q = r.q /\ In(v) = In(r) /\ v.os = s.os
      BY <1>9, <2>0, <3>2, <3>3 DEF Typed, Same, Fields, In
    <3>5. ~v.is["in"] /\ "in" \in Streams
      BY <2>1, <3>3 DEF Streams
    <3>6. Line(v.q)
      BY <1>9, <3>4
    <3>7. /\ Typed(u) /\ Same(u, v, {"os", "q"}) /\ Line(u.q)
          /\ \A y \in Streams : u.os[y] = (v.os[y] \/ y = "in")
          /\ In(u) = In(v) \cup (IF "in" \in v.paired /\ v.is["in"] THEN {"in"} ELSE {})
      BY <3>1, <3>4, <3>5, <3>6, OsReadyDoes
    <3>8. In(u) = In(r)
      BY <3>4, <3>5, <3>7
    <3>9. u.is = v.is /\ u.os \in [Streams -> BOOLEAN]
      BY <3>7 DEF Typed, Same, Fields
    <3>10. \A y \in Streams \ {"in"} : u.os[y] = s.os[y]
      BY <1>2, <3>4, <3>7, <3>9
    <3>11. Same(u, s, {"timers", "chunk", "got", "inbox", "is", "os", "q"})
           /\ u.timers = b.timers /\ u.chunk = r.chunk /\ u.got = r.got /\ u.inbox = r.inbox
      BY <1>9, <3>2, <3>7 DEF Same, Fields
    <3>12. /\ \A y \in Streams \ {"in", "body"} : u.is[y] = s.is[y]
           /\ \A y \in Streams : u.is[y] /\ u.os[y] => s.is[y] /\ s.os[y]
      BY <1>9, <3>3, <3>5, <3>9, <3>10
    <3> QED BY <1>9, <3>7, <3>8, <3>10, <3>11, <3>12
  <2>2. CASE ~(size > k /\ ~r.is["in"])
    <3>1. u = r
      BY <2>2
    <3>2. Same(r, s, {"timers", "chunk", "got", "inbox", "is", "os", "q"})
      BY <1>9 DEF Same
    <3> HIDE DEF u
    <3> QED BY <1>9, <2>0, <3>1, <3>2
  <2> QED BY <2>1, <2>2
<1> HIDE DEF u
<1>11. /\ s.handler = "idle" /\ ~s.closing /\ s.kind \in HasBody /\ "in" \in s.paired /\ "out" \in s.paired
       /\ {"received", "whole", "complete", "worker"} \cap In(s) = {} /\ ~Answering(s)
       /\ s.timers["keep"] = 0 /\ s.timers["write"] = 0 /\ (s.is["out"] => s.cont) /\ "src" \notin s.paired
       /\ s.avail <= s.rest /\ s.seen = s.done + 1
  <2>1. ~Answering(s) /\ s.handler = "idle" /\ s.kind \in HasBody /\ "in" \in s.paired /\ "out" \in s.paired
    BY DEF Good, Nearly, Core, Answering, Sending, Asks, Whole, Ports
  <2>2. ~s.closing /\ {"received", "whole", "complete", "worker"} \cap In(s) = {}
    BY <2>1 DEF Good, Nearly, Core, Asks, Sending
  <2>3. s.timers["keep"] = 0 /\ s.timers["write"] = 0
    BY <2>1 DEF Good, Nearly, Timed, Waits, Timers
  <2>4. (s.is["out"] => s.cont) /\ "src" \notin s.paired /\ s.avail <= s.rest
    BY <2>1 DEF Good, Nearly, Core, Source
  <2>5. s.seen = s.done + 1
    BY DEF Good, Nearly, Core, Counted, Busy
  <2> QED BY <2>1, <2>2, <2>3, <2>4, <2>5
<1>12. /\ u.st = "body" /\ u.kind = s.kind /\ u.paired = s.paired /\ u.pump = s.pump /\ u.handler = "idle"
       /\ u.closing = s.closing /\ u.cont = s.cont /\ u.rest = s.rest /\ u.avail = s.avail
       /\ u.seen = s.seen /\ u.done = s.done /\ u.keep = s.keep
       /\ u.timers["read"] = 0 /\ u.timers["keep"] = 0 /\ u.timers["write"] = 0
       /\ {"received", "whole", "complete", "worker"} \cap In(u) = {}
       /\ (u.is["out"] => u.cont) /\ u.is["src"] = s.is["src"]
  <2>1. /\ u.st = "body" /\ u.kind = s.kind /\ u.paired = s.paired /\ u.pump = s.pump /\ u.handler = "idle"
        /\ u.closing = s.closing /\ u.cont = s.cont /\ u.rest = s.rest /\ u.avail = s.avail
        /\ u.seen = s.seen /\ u.done = s.done /\ u.keep = s.keep
    BY <1>10, <1>11 DEF Same, Fields
  <2>2. u.timers["read"] = 0 /\ u.timers["keep"] = 0 /\ u.timers["write"] = 0
    BY <1>2, <1>5, <1>10, <1>11 DEF Timers
  <2>3. {"received", "whole", "complete", "worker"} \cap In(u) = {}
    BY <1>10, <1>11
  <2>4. u.is["out"] = s.is["out"] /\ u.is["src"] = s.is["src"]
    BY <1>10 DEF Streams
  <2> QED BY <1>11, <2>1, <2>2, <2>3, <2>4
<1>13. Queued(u)
  BY <1>10, <1>12 DEF Good, Nearly, Core, Queued, Streams
<1>14. Woken(u)
  <2>1. ASSUME NEW y \in Streams, y \in u.paired, u.is[y], u.os[y] PROVE y \in In(u) \/ u.pump = y
    <3>1. s.is[y] /\ s.os[y] /\ y \in s.paired
      BY <2>1, <1>10, <1>12
    <3>2. y \in In(s) \/ s.pump = y
      BY <3>1 DEF Good, Woken, WokenBut
    <3> QED BY <3>2, <1>10, <1>12
  <2> QED BY <2>1 DEF Woken, WokenBut
<1>15. /\ u.chunk + Coming(u, peer) <= Body - u.got /\ u.chunk \in Nat /\ Coming(u, peer) \in Nat
       /\ u.got \in 0..Body /\ peer.asked # s.done
  <2>1. s.chunk + Coming(s, peer) <= Body - s.got /\ peer.asked # s.done
    BY DEF Fed
  <2>2. Coming(u, peer) = Coming(s, peer) - x
    BY <1>9, <1>10 DEF Coming
  <2>3. u.inbox \in Seq(Tokens) /\ u.chunk \in Nat /\ u.got \in 0..Body
    BY <1>10 DEF Typed
  <2>4. Coming(u, peer) \in Nat /\ Coming(s, peer) \in Nat
    BY <1>2, <2>3, ComingIsNat
  <2>5. u.chunk = s.chunk - k /\ u.got = s.got + k + x /\ x \in Nat
    BY <1>9, <1>10
  <2> DEFINE aa == Coming(s, peer)
             bb == Coming(u, peer)
  <2>6. /\ aa \in Nat /\ bb \in Nat /\ bb = aa - x /\ s.chunk + aa <= Body - s.got
        /\ u.chunk = s.chunk - k /\ u.got = s.got + k + x /\ x \in Nat /\ k \in Nat
        /\ s.chunk \in Nat /\ s.got \in Nat /\ Body \in Nat
    BY <1>2, <1>4, <2>1, <2>2, <2>4, <2>5
  <2> HIDE DEF aa, bb
  <2>7. u.chunk + bb <= Body - u.got
    BY <2>6
  <2> QED BY <2>1, <2>3, <2>4, <2>7 DEF bb
<1>16. u.os["body"] /\ ~(u.os["src"] # s.os["src"]) /\ "body" \in u.paired
  BY <1>10, <1>12 DEF Streams
<1>17. CASE r.got = Body
  <2> DEFINE e == [u EXCEPT !.st = "handling", !.os["in"] = FALSE, !.is["body"] = FALSE, !.os["body"] = FALSE]
             z == Publish(e, "whole")
  <2>1. BodyRead(s, n) = z
    BY <1>1, <1>17 DEF BodyEnd
  <2>2. /\ DOMAIN e = DOMAIN u /\ \A f \in Fields \ {"st", "os", "is"} : e[f] = u[f]
        /\ e.st = "handling" /\ e.os = [[u.os EXCEPT !["in"] = FALSE] EXCEPT !["body"] = FALSE]
        /\ e.is = [u.is EXCEPT !["body"] = FALSE]
    BY <1>10 DEF Typed, Fields
  <2> HIDE DEF e
  <2>3. /\ e.is \in [Streams -> BOOLEAN] /\ e.os \in [Streams -> BOOLEAN]
        /\ ~e.os["in"] /\ ~e.os["body"] /\ \A y \in Streams \ {"in", "body"} : e.os[y] = u.os[y] /\ e.is[y] = u.is[y]
    <3> DEFINE o == [u.os EXCEPT !["in"] = FALSE]
    <3>1. u.os \in [Streams -> BOOLEAN] /\ u.is \in [Streams -> BOOLEAN]
      BY <1>10 DEF Typed
    <3>2. o \in [Streams -> BOOLEAN] /\ o["in"] = FALSE /\ \A y \in Streams \ {"in"} : o[y] = u.os[y]
      BY <3>1 DEF Streams
    <3>3. e.os = [o EXCEPT !["body"] = FALSE]
      BY <2>2
    <3> HIDE DEF o
    <3>4. /\ e.os \in [Streams -> BOOLEAN] /\ e.os["body"] = FALSE /\ e.os["in"] = FALSE
          /\ \A y \in Streams \ {"in", "body"} : e.os[y] = u.os[y]
      <4> DEFINE pp == e.os
      <4>1. pp = [o EXCEPT !["body"] = FALSE]
        BY <3>3
      <4>2. \A y \in Streams \ {"in", "body"} : o[y] = u.os[y]
        BY <3>2
      <4> HIDE DEF pp
      <4>3. pp \in [Streams -> BOOLEAN] /\ pp["body"] = FALSE /\ \A y \in Streams \ {"body"} : pp[y] = o[y]
        BY <3>2, <4>1 DEF Streams
      <4>4. pp["in"] = FALSE
        BY <3>2, <4>3 DEF Streams
      <4> QED BY <4>2, <4>3, <4>4 DEF pp
    <3>5. e.is \in [Streams -> BOOLEAN] /\ \A y \in Streams \ {"body"} : e.is[y] = u.is[y]
      BY <2>2, <3>1 DEF Streams
    <3> QED BY <3>4, <3>5
  <2>4. Typed(e) /\ e.q = u.q /\ In(e) = In(u)
    <3>1. e.st \in States
      BY <2>2 DEF States
    <3>2. /\ e.q = u.q /\ e.kind = u.kind /\ e.handler = u.handler /\ e.timers = u.timers /\ e.keep = u.keep
          /\ e.cont = u.cont /\ e.closing = u.closing /\ e.paired = u.paired /\ e.pump = u.pump
          /\ e.got = u.got /\ e.rest = u.rest /\ e.left = u.left /\ e.chunk = u.chunk /\ e.avail = u.avail
          /\ e.room = u.room /\ e.seen = u.seen /\ e.done = u.done /\ e.inbox = u.inbox
      BY <2>2 DEF Fields
    <3>3. Typed(u)
      BY <1>10
    <3>4. Typed(e)
      BY <2>2, <2>3, <3>1, <3>2, <3>3 DEF Typed
    <3> QED BY <3>2, <3>4 DEF In
  <2>5. "whole" \notin In(e) /\ "whole" \in Messages
    BY <1>12, <2>4 DEF Messages
  <2>6. Typed(z) /\ Same(z, e, {"q"}) /\ Line(z.q) /\ In(z) = In(u) \cup {"whole"}
    BY <1>10, <2>4, <2>5, PublishDoes
  <2> HIDE DEF z
  <2>7. /\ z.st = "handling" /\ z.kind = s.kind /\ z.paired = s.paired /\ z.pump = s.pump /\ z.handler = "idle"
        /\ z.closing = s.closing /\ z.cont = s.cont /\ z.rest = s.rest /\ z.avail = s.avail
        /\ z.seen = s.seen /\ z.done = s.done /\ z.os = e.os /\ z.is = e.is /\ z.timers = u.timers
        /\ z.inbox = u.inbox /\ z.got = Body /\ z.chunk = u.chunk
    BY <1>10, <1>12, <1>17, <2>2, <2>6 DEF Same, Fields
  <2>8. Queued(z)
    BY <1>13, <1>12, <2>6, <2>7 DEF Queued, Streams
  <2>9. Woken(z)
    BY <1>14, <1>12, <2>3, <2>6, <2>7 DEF Woken, WokenBut
  <2>10. ~Answering(z) /\ (z.is["out"] => z.cont)
    BY <1>12, <2>3, <2>7 DEF Answering, Sending, Streams
  <2>11. Timed(z)
    BY <1>12, <2>7, <2>10 DEF Timed, Waits, Timers
  <2>12. Counted(z)
    BY <1>11, <2>7 DEF Counted, Busy
  <2>13. Asks(z)
    BY <1>11, <1>12, <2>6, <2>7 DEF Asks
  <2>14. Ports(z)
    BY <1>11, <2>3, <2>7 DEF Ports
  <2>15. Source(z) /\ Filled(z)
    BY <1>11, <2>7, <2>10 DEF Source, Filled
  <2>16. Whole(z)
    BY <1>11, <2>7 DEF Whole
  <2>17. Fed(z, peer)
    <3>1. Coming(z, peer) = Coming(u, peer)
      BY <2>7 DEF Coming
    <3>2. u.got = Body
      BY <1>10, <1>17
    <3>3. Coming(u, peer) = 0
      BY <1>2, <1>15, <3>2
    <3>4. ~Reads(z)
      BY <1>12, <2>6, <2>7 DEF Reads
    <3> QED BY <1>15, <2>7, <3>1, <3>3, <3>4 DEF Fed
  <2> QED
    BY <2>1, <2>6, <2>7, <2>8, <2>9, <2>11, <2>12, <2>13, <2>14, <2>15, <2>16, <2>17
    DEF Good, Nearly, Core, Woken, WokenBut
<1>18. CASE r.got # Body
  <2> DEFINE z == Set(u, "read")
  <2>1. BodyRead(s, n) = z
    BY <1>1, <1>18
  <2>2. Typed(z) /\ Same(z, u, {"timers"}) /\ z.timers = [u.timers EXCEPT !["read"] = 1]
    BY <1>10, <1>12, TimersDo DEF Timers
  <2> HIDE DEF z
  <2>3. /\ z.st = "body" /\ z.kind = s.kind /\ z.paired = s.paired /\ z.pump = s.pump /\ z.handler = "idle"
        /\ z.closing = s.closing /\ z.cont = s.cont /\ z.rest = s.rest /\ z.avail = s.avail
        /\ z.seen = s.seen /\ z.done = s.done /\ z.os = u.os /\ z.is = u.is
        /\ z.inbox = u.inbox /\ z.got = u.got /\ z.chunk = u.chunk /\ z.q = u.q /\ In(z) = In(u)
    BY <1>12, <2>2 DEF Same, Fields, In
  <2>4. z.timers["read"] = 1 /\ z.timers["keep"] = 0 /\ z.timers["write"] = 0
    BY <1>10, <1>12, <2>2 DEF Typed, Timers
  <2>5. Queued(z) /\ Woken(z)
    BY <1>12, <1>13, <1>14, <2>3 DEF Queued, Woken, WokenBut
  <2>6. ~Answering(z) /\ (z.is["out"] => z.cont)
    BY <1>12, <2>3 DEF Answering, Sending
  <2>7. Timed(z)
    BY <2>3, <2>4, <2>6 DEF Timed, Waits, Timers
  <2>8. Counted(z)
    BY <1>11, <2>3 DEF Counted, Busy
  <2>9. Asks(z)
    BY <1>11, <1>12, <2>3 DEF Asks
  <2>10. Ports(z)
    BY <1>11, <2>3 DEF Ports
  <2>11. Source(z) /\ Filled(z)
    BY <1>11, <2>3, <2>6 DEF Source, Filled
  <2>12. Whole(z)
    <3>1. u.got < Body BY <1>2, <1>10, <1>15, <1>18
    <3> QED BY <1>11, <2>3, <3>1 DEF Whole
  <2>13. Fed(z, peer)
    <3>1. Coming(z, peer) = Coming(u, peer)
      BY <2>3 DEF Coming
    <3>2. ~Reads(z) /\ ~Answers(z)
      BY <1>12, <2>3, <2>6 DEF Reads, Answers
    <3> QED BY <1>15, <2>3, <3>1, <3>2 DEF Fed
  <2> QED
    BY <2>1, <2>2, <2>3, <2>5, <2>7, <2>8, <2>9, <2>10, <2>11, <2>12, <2>13
    DEF Good, Nearly, Core, Woken, WokenBut
<1> QED BY <1>17, <1>18

\* data_in waits for the buffer of the body.
LEMMA BodyWaits ==
  ASSUME NEW s, Good(s), ~s.os["body"], s.st \in {"body", "handling"}, Fed(s, peer)
  PROVE  LET t == IsReady([s EXCEPT !.os["in"] = FALSE], "body")
         IN Good(t) /\ Fed(t, peer) /\ t.pump = s.pump /\ t.st = s.st
<1> DEFINE a == [s EXCEPT !.os["in"] = FALSE]
           t == IsReady(a, "body")
<1>1. Typed(s) /\ Line(s.q)
  BY DEF Good, Nearly, Core, Queued
<1>2. Same(a, s, {"os"}) /\ a.os = [s.os EXCEPT !["in"] = FALSE]
  BY <1>1 DEF Typed, Same, Fields
<1> HIDE DEF a
<1>3. s.os \in [Streams -> BOOLEAN] /\ s.is \in [Streams -> BOOLEAN]
  BY <1>1 DEF Typed
<1>4. a.os \in [Streams -> BOOLEAN] /\ ~a.os["in"] /\ \A y \in Streams \ {"in"} : a.os[y] = s.os[y]
  BY <1>2, <1>3 DEF Streams
<1>5. Typed(a) /\ a.q = s.q /\ In(a) = In(s) /\ a.is = s.is
  BY <1>1, <1>2, <1>4 DEF Typed, Same, Fields, In
<1>6. ~a.os["body"] /\ "body" \in Streams
  BY <1>4 DEF Streams
<1>7. /\ Typed(t) /\ Same(t, a, {"is", "q"}) /\ Line(t.q)
      /\ \A y \in Streams : t.is[y] = (a.is[y] \/ y = "body")
      /\ In(t) = In(a) \cup (IF "body" \in a.paired /\ ~a.is["body"] /\ a.os["body"] THEN {"body"} ELSE {})
  <2>1. Line(a.q)
    BY <1>1, <1>5
  <2> QED BY <1>5, <1>6, <2>1, IsReadyDoes
<1> HIDE DEF t
<1>8. In(t) = In(s)
  BY <1>5, <1>6, <1>7
<1>9. t.is \in [Streams -> BOOLEAN] /\ t.os = a.os
  BY <1>7 DEF Typed, Same, Fields
<1>10. \A y \in Streams \ {"body"} : t.is[y] = s.is[y]
  BY <1>3, <1>5, <1>7, <1>9
<1>11. /\ Same(t, s, {"is", "os", "q"}) /\ ~t.os["in"] /\ ~t.os["body"]
       /\ \A y \in Streams \ {"in"} : t.os[y] = s.os[y]
  BY <1>2, <1>4, <1>6, <1>7, <1>9 DEF Same, Fields
<1>12. t.is["out"] = s.is["out"] /\ t.is["src"] = s.is["src"]
  BY <1>10 DEF Streams
<1>13. Answering(t) <=> Answering(s)
  BY <1>8, <1>11 DEF Answering, Same, Fields
<1>14. Queued(t)
  BY <1>7, <1>8, <1>11 DEF Good, Nearly, Core, Queued, Same, Fields
<1>15. Woken(t)
  <2>1. ASSUME NEW y \in Streams, y \in t.paired, t.is[y], t.os[y] PROVE y \in In(t) \/ t.pump = y
    <3>1. y \notin {"in", "body"} /\ t.paired = s.paired /\ t.pump = s.pump
      BY <1>11, <2>1 DEF Same, Fields
    <3>2. s.is[y] /\ s.os[y] /\ y \in s.paired
      BY <2>1, <3>1, <1>10, <1>11
    <3> QED BY <1>8, <3>1, <3>2 DEF Good, Woken, WokenBut
  <2> QED BY <2>1 DEF Woken, WokenBut
<1>16. Timed(t)
  BY <1>8, <1>11, <1>13 DEF Good, Nearly, Timed, Waits, Same, Fields
<1>17. Counted(t) /\ Whole(t)
  BY <1>8, <1>11, <1>13 DEF Good, Nearly, Core, Counted, Busy, Whole, Same, Fields
<1>18. Asks(t)
  BY <1>8, <1>11 DEF Good, Nearly, Core, Asks, Same, Fields
<1>19. Ports(t)
  BY <1>11, <1>13 DEF Good, Nearly, Core, Ports, Same, Fields
<1>20. Source(t) /\ Filled(t)
  BY <1>11, <1>12, <1>13 DEF Good, Nearly, Core, Source, Filled, Same, Fields
<1>21. Fed(t, peer)
  BY <1>8, <1>11, <1>13 DEF Fed, Reads, Answers, Coming, Same, Fields, Good, Nearly, Core, Asks, Sending
<1>22. t.pump = s.pump /\ t.st = s.st
  BY <1>11 DEF Same, Fields
<1> QED BY <1>7, <1>14, <1>15, <1>16, <1>17, <1>18, <1>19, <1>20, <1>21, <1>22
        DEF Good, Nearly, Core, Woken, WokenBut, t, a

\* A request begins.
LEMMA HeadersBegin ==
  ASSUME NEW s, Good(s), s.st = "waiting", s.os["in"], Fed(s, peer)
  PROVE  LET t == [Set(Unset(s, "keep"), "read") EXCEPT !.st = "headers"]
         IN Good(t) /\ Fed(t, peer) /\ t.pump = s.pump /\ t.os["in"] /\ t.st = "headers"
<1> DEFINE a == Unset(s, "keep")
           b == Set(a, "read")
           t == [b EXCEPT !.st = "headers"]
<1>1. Typed(s) /\ Line(s.q) /\ s.timers \in [Timers -> {0, 1}]
  BY DEF Good, Nearly, Core, Queued, Typed
<1>2. ~Answering(s) /\ s.timers["read"] = 0 /\ s.timers["write"] = 0
  BY DEF Good, Nearly, Timed, Waits, Answering, Timers, Sending
<1>3. Typed(a) /\ Same(a, s, {"timers"}) /\ a.timers = [s.timers EXCEPT !["keep"] = 0]
  BY <1>1, TimersDo DEF Timers
<1> HIDE DEF a
<1>4. a.timers["read"] = 0 /\ a.timers["write"] = 0 /\ a.timers["keep"] = 0
  BY <1>1, <1>2, <1>3 DEF Timers
<1>5. Typed(b) /\ Same(b, a, {"timers"}) /\ b.timers = [a.timers EXCEPT !["read"] = 1]
  BY <1>3, <1>4, TimersDo DEF Timers
<1> HIDE DEF b
<1>6. a.timers \in [Timers -> {0, 1}]
  BY <1>3 DEF Typed
<1>7. b.timers["read"] = 1 /\ b.timers["write"] = 0 /\ b.timers["keep"] = 0
  BY <1>4, <1>5, <1>6 DEF Timers
<1>8. Same(t, b, {"st"}) /\ t.st = "headers"
  BY <1>5 DEF Typed, Same, Fields
<1> HIDE DEF t
<1>9. Typed(t)
  BY <1>5, <1>8 DEF Typed, Same, Fields, States
<1>10. Same(t, s, {"st", "timers"}) /\ t.timers = b.timers /\ In(t) = In(s) /\ t.q = s.q
  BY <1>3, <1>5, <1>8 DEF Same, Fields, In
<1>11. ~Answering(t)
  BY <1>8 DEF Answering, Sending
<1>12. Queued(t) /\ Woken(t)
  BY <1>10 DEF Good, Nearly, Core, Queued, Woken, WokenBut, Same, Fields
<1>13. Timed(t)
  BY <1>7, <1>8, <1>10, <1>11 DEF Timed, Waits, Timers
<1>14. Counted(t) /\ Whole(t)
  BY <1>2, <1>8, <1>10, <1>11 DEF Good, Nearly, Core, Counted, Busy, Whole, Same, Fields
<1>15. Asks(t)
  BY <1>8, <1>10 DEF Good, Nearly, Core, Asks, Same, Fields, Sending
<1>16. Ports(t)
  BY <1>2, <1>8, <1>10, <1>11 DEF Good, Nearly, Core, Ports, Same, Fields
<1>17. Source(t) /\ Filled(t)
  BY <1>2, <1>8, <1>10, <1>11 DEF Good, Nearly, Core, Source, Filled, Same, Fields
<1>18. Fed(t, peer)
  BY <1>8, <1>10, <1>11 DEF Fed, Reads, Answers, Coming, Same, Fields
<1>19. t.pump = s.pump /\ t.os = s.os
  BY <1>10 DEF Same, Fields
<1> QED BY <1>8, <1>9, <1>12, <1>13, <1>14, <1>15, <1>16, <1>17, <1>18, <1>19
        DEF Good, Nearly, Core, Woken, WokenBut, t, b, a

\* A round of data_in, whatever it waits for.
LEMMA DataInIsGood ==
  ASSUME NEW s, Good(s), s.st # "free", s.pump = "in", s.os["in"], NEW n \in Nat,
         PeerTyped(peer), Fed(s, peer)
  PROVE  LET t == DataIn(s, n)
         IN Good(t) /\ Fed(t, peer) /\ t.pump = s.pump /\ t.st # "free"
<1>1. s.st \in {"waiting", "headers"} \/ (s.st = "body" /\ "body" \in s.paired)
  BY DEF Good, Nearly, Core, Ports
<1>2. CASE s.st = "waiting"
  <2> DEFINE e == [Set(Unset(s, "keep"), "read") EXCEPT !.st = "headers"]
  <2>1. DataIn(s, n) = Headers(e, n)
    BY <1>2 DEF DataIn
  <2>2. Good(e) /\ Fed(e, peer) /\ e.pump = s.pump /\ e.os["in"] /\ e.st = "headers"
    BY <1>2, HeadersBegin
  <2> HIDE DEF e
  <2> QED BY <2>1, <2>2, HeadersIsGood
<1>3. CASE s.st = "headers"
  <2>1. DataIn(s, n) = Headers(s, n)
    BY <1>3 DEF DataIn
  <2> QED BY <1>3, <2>1, HeadersIsGood
<1>4. CASE s.st = "body" /\ "body" \in s.paired
  <2> DEFINE t == IF "body" \in s.paired /\ s.os["body"] THEN BodyRead(s, n) ELSE s
             z == IsReady([t EXCEPT !.os["in"] = FALSE], "body")
  <2>1. DataIn(s, n) = IF t.os["body"] THEN t ELSE z
    BY <1>4 DEF DataIn
  <2>2. Good(t) /\ Fed(t, peer) /\ t.pump = s.pump /\ t.st \in {"body", "handling"}
    <3>1. CASE s.os["body"]
      <4>1. t = BodyRead(s, n)
        BY <1>4, <3>1
      <4> HIDE DEF t
      <4> QED BY <1>4, <3>1, <4>1, BodyReadIsGood
    <3>2. CASE ~s.os["body"]
      BY <1>4, <3>2
    <3> QED BY <3>1, <3>2
  <2> HIDE DEF t
  <2>3. CASE t.os["body"]
    BY <2>1, <2>2, <2>3
  <2>4. CASE ~t.os["body"]
    <3>1. Good(z) /\ Fed(z, peer) /\ z.pump = t.pump /\ z.st = t.st
      BY <2>2, <2>4, BodyWaits
    <3> QED BY <2>1, <2>2, <2>4, <3>1
  <2> QED BY <2>3, <2>4
<1> QED BY <1>1, <1>2, <1>3, <1>4

-----------------------------------------------------------------------------
(* Messages. *)

\* What the queue holds of errors and of work does not disturb the rest.
LEMMA LineIsGood ==
  ASSUME NEW s, Good(s), NEW t, Typed(t), Queued(t), Woken(t), Timed(t),
         Same(t, s, {"q", "timers", "pump", "left", "room"}),
         \A m \in {"received", "whole"} : m \in In(t) => m \in In(s),
         "worker" \in In(t) => s.handler = "worker",
         "complete" \in In(t) <=> "complete" \in In(s)
  PROVE  Good(t) /\ (Fed(s, peer) => Fed(t, peer))
<1>1. Answering(t) <=> Answering(s)
  BY DEF Answering, Same, Fields
<1>2. Counted(t) /\ Whole(t)
  BY <1>1 DEF Good, Nearly, Core, Counted, Busy, Whole, Same, Fields
<1>3. Asks(t)
  BY DEF Good, Nearly, Core, Asks, Same, Fields
<1>4. Ports(t)
  BY <1>1 DEF Good, Nearly, Core, Ports, Same, Fields
<1>5. Source(t) /\ Filled(t)
  BY <1>1 DEF Good, Nearly, Core, Source, Filled, Same, Fields
<1>6. Fed(s, peer) => Fed(t, peer)
  BY <1>1 DEF Fed, Reads, Answers, Coming, Same, Fields
<1> QED BY <1>2, <1>3, <1>4, <1>5, <1>6 DEF Good, Nearly, Core, Woken, WokenBut

\* The first message is taken from the queue.
LEMMA MessageOff ==
  ASSUME NEW s, Good(s), s.q # <<>>, Head(s.q) \in Messages
  PROVE  LET g == [s EXCEPT !.q = Tail(@)]
             m == Head(s.q)
         IN /\ Typed(g) /\ Same(g, s, {"q"}) /\ Queued(g) /\ Woken(g) /\ In(s) = In(g) \cup {m}
            /\ m \notin {"error", "drop"} => m \notin In(g)
            /\ m \notin {"drop", "complete"} => Good(g) /\ (Fed(s, peer) => Fed(g, peer))
<1> DEFINE g == [s EXCEPT !.q = Tail(@)]
           m == Head(s.q)
<1>1. Typed(s) /\ Line(s.q)
  BY DEF Good, Nearly, Core, Queued
<1>2. Line(Tail(s.q)) /\ ToSet(s.q) = ToSet(Tail(s.q)) \cup {m} /\ (m \in {"error", "drop"} \/ m \notin ToSet(Tail(s.q)))
  BY <1>1, TailLine
<1>3. Same(g, s, {"q"}) /\ g.q = Tail(s.q)
  BY <1>1 DEF Typed, Same, Fields
<1>m. m \in Messages
  OBVIOUS
<1> HIDE DEF g, m
<1>4. Typed(g)
  BY <1>1, <1>3 DEF Typed, Same, Fields
<1>5. Line(g.q) /\ In(s) = In(g) \cup {m} /\ (m \in {"error", "drop"} \/ m \notin In(g))
  BY <1>2, <1>3 DEF In
<1>6. \A x \in Streams : x \in In(g) <=> x \in In(s)
  BY <1>5, <1>m DEF Streams, Messages
<1>7. Queued(g)
  BY <1>3, <1>5, <1>6 DEF Good, Nearly, Core, Queued, Same, Fields
<1>8. Woken(g)
  BY <1>3, <1>6 DEF Good, Woken, WokenBut, Same, Fields
<1>9. ASSUME m \notin {"drop", "complete"} PROVE Good(g) /\ (Fed(s, peer) => Fed(g, peer))
  <2>1. ("drop" \in In(g) <=> "drop" \in In(s)) /\ ("complete" \in In(g) <=> "complete" \in In(s))
    BY <1>5, <1>9
  <2>2. Timed(g)
    BY <1>3, <2>1 DEF Good, Nearly, Timed, Waits, Answering, Same, Fields
  <2>3. "worker" \in In(g) => s.handler = "worker"
    BY <1>5 DEF Good, Nearly, Core, Asks
  <2>4. Same(g, s, {"q", "timers", "pump", "left", "room"})
    BY <1>3 DEF Same
  <2>5. \A x \in {"received", "whole"} : x \in In(g) => x \in In(s)
    BY <1>5
  <2> QED BY <1>4, <1>7, <1>8, <2>1, <2>2, <2>3, <2>4, <2>5, LineIsGood
<1> QED BY <1>3, <1>4, <1>5, <1>7, <1>8, <1>9 DEF g, m

\* A message of the loop's own is published.
LEMMA PublishIsGood ==
  ASSUME NEW s, Good(s), NEW m \in {"error", "drop"}
  PROVE  LET t == Publish(s, m)
         IN Good(t) /\ (Fed(s, peer) => Fed(t, peer)) /\ t.st = s.st /\ t.pump = s.pump
<1> DEFINE t == Publish(s, m)
<1>1. Typed(s) /\ Line(s.q) /\ m \in Messages
  BY DEF Good, Nearly, Core, Queued, Messages
<1>2. Typed(t) /\ Same(t, s, {"q"}) /\ Line(t.q) /\ In(t) = In(s) \cup {m}
  BY <1>1, PublishDoes
<1> HIDE DEF t
<1>3. Queued(t) /\ Woken(t)
  BY <1>2 DEF Good, Nearly, Core, Queued, Woken, WokenBut, Same, Fields, Streams
<1>4. Timed(t)
  BY <1>2 DEF Good, Nearly, Timed, Waits, Answering, Same, Fields
<1>5. /\ \A x \in {"received", "whole"} : x \in In(t) => x \in In(s)
      /\ "complete" \in In(t) <=> "complete" \in In(s)
  BY <1>2
<1>6. "worker" \in In(t) => s.handler = "worker"
  BY <1>2 DEF Good, Nearly, Core, Asks
<1>7. Same(t, s, {"q", "timers", "pump", "left", "room"}) /\ t.st = s.st /\ t.pump = s.pump
  BY <1>2 DEF Same, Fields
<1> QED BY <1>2, <1>3, <1>4, <1>5, <1>6, <1>7, LineIsGood DEF t

\* A request is answered.
LEMMA AnswerIsGood ==
  ASSUME NEW s, Good(s), s.st \in {"body", "handling"}, "body" \in s.paired => s.st = "handling",
         {"received", "whole", "worker"} \cap In(s) = {}, ~s.closing, s.pump = None,
         NEW content \in Contents, NEW keep \in BOOLEAN, keep => s.st = "handling",
         PeerTyped(peer), Fed(s, peer)
  PROVE  LET t == StartSending(s, content, keep)
         IN Good(t) /\ Fed(t, peer) /\ t.st # "free" /\ t.pump = None
<1>1. Typed(s) /\ Queued(s) /\ Woken(s) /\ Counted(s) /\ Asks(s) /\ Ports(s) /\ Source(s) /\ Timed(s)
  BY DEF Good, Nearly, Core
<1>2. ~Answering(s) /\ "complete" \notin In(s)
  BY <1>1 DEF Answering, Sending, Asks
<1>3. s.seen = s.done + 1
  BY <1>1 DEF Counted, Busy
<1>4. s.timers["keep"] = 0 /\ s.timers["write"] = 0
  BY <1>1, <1>2 DEF Timed, Waits, Timers
<1>5. "in" \in s.paired /\ "out" \in s.paired /\ ~s.os["in"] /\ ~s.os["body"]
  BY <1>1 DEF Ports
<1>6. "src" \notin s.paired /\ (s.is["out"] => s.cont)
  BY <1>1, <1>2 DEF Source
<1>7. keep => Coming(s, peer) = 0 /\ peer.asked # s.done
  BY DEF Fed, Answers
<1>8. s.pump \notin {"out", "src"} /\ {"received", "whole", "complete", "worker"} \cap In(s) = {}
  BY <1>2 DEF None
<1> QED BY <1>1, <1>3, <1>4, <1>5, <1>6, <1>7, <1>8, StartIsGood

\* A request is handed to the handler.
LEMMA InvokedIsGood ==
  ASSUME NEW s, Good(s), s.st = "handling", s.handler = "idle", {"received", "whole"} \cap In(s) = {},
         s.kind \in HasBody => s.got = Body, s.pump = None, PeerTyped(peer), Fed(s, peer),
         NEW t \in Invoked(s)
  PROVE  Good(t) /\ Fed(t, peer) /\ t.st # "free" /\ t.pump = None
<1>1. ~s.closing /\ "worker" \notin In(s)
  BY DEF Good, Nearly, Core, Asks
<1>2. CASE \E c \in Contents, k \in BOOLEAN : t = StartSending(s, c, k)
  <2>1. PICK c \in Contents, k \in BOOLEAN : t = StartSending(s, c, k)
    BY <1>2
  <2> QED BY <1>1, <2>1, AnswerIsGood
<1>3. CASE \E w \in {"worker", "later"} : t = [s EXCEPT !.handler = w]
  <2>1. PICK w \in {"worker", "later"} : t = [s EXCEPT !.handler = w]
    BY <1>3
  <2>2. Typed(s)
    BY DEF Good, Nearly, Core
  <2>3. Same(t, s, {"handler"}) /\ t.handler = w
    BY <2>1, <2>2 DEF Typed, Same, Fields
  <2>4. Typed(t)
    BY <2>2, <2>3 DEF Typed, Same, Fields
  <2>5. In(t) = In(s) /\ t.q = s.q /\ t.st = "handling" /\ t.pump = None
    BY <2>3 DEF Same, Fields, In
  <2>6. Answering(t) <=> Answering(s)
    BY <2>5 DEF Answering
  <2>7. Queued(t) /\ Woken(t)
    BY <2>3, <2>5 DEF Good, Nearly, Core, Queued, Woken, WokenBut, Same, Fields
  <2>8. Timed(t) /\ Counted(t)
    BY <2>3, <2>5, <2>6 DEF Good, Nearly, Core, Timed, Waits, Counted, Busy, Same, Fields
  <2>9. Asks(t)
    BY <1>1, <2>3, <2>5 DEF Good, Nearly, Core, Asks, Same, Fields
  <2>10. Ports(t) /\ Whole(t)
    BY <2>3, <2>5, <2>6 DEF Good, Nearly, Core, Ports, Whole, Same, Fields
  <2>11. Source(t) /\ Filled(t)
    BY <2>3, <2>5, <2>6 DEF Good, Nearly, Core, Source, Filled, Same, Fields
  <2>12. Fed(t, peer)
    BY <2>3, <2>5, <2>6 DEF Fed, Reads, Answers, Coming, Same, Fields
  <2> QED BY <2>4, <2>5, <2>7, <2>8, <2>9, <2>10, <2>11, <2>12 DEF Good, Nearly, Core, Woken, WokenBut
<1> QED BY <1>2, <1>3 DEF Invoked

\* The buffer of a body is connected.
LEMMA BufferIsGood ==
  ASSUME NEW s, Good(s), s.st = "body", "body" \notin s.paired, "received" \notin In(s), s.pump = None,
         Fed(s, peer)
  PROVE  LET t == OsReady(Connect([s EXCEPT !.os["body"] = TRUE], "body"), "in")
         IN Good(t) /\ Fed(t, peer) /\ t.st # "free" /\ t.pump = None
<1> DEFINE a == [s EXCEPT !.os["body"] = TRUE]
           b == Connect(a, "body")
           t == OsReady(b, "in")
<1>1. Typed(s) /\ Line(s.q) /\ Queued(s) /\ s.os \in [Streams -> BOOLEAN]
  BY DEF Good, Nearly, Core, Queued, Typed
<1>2. "body" \notin In(s) /\ "body" \in Streams /\ "in" \in Streams
  BY <1>1 DEF Queued, Streams
<1>3. Same(a, s, {"os"}) /\ a.os = [s.os EXCEPT !["body"] = TRUE]
  BY <1>1 DEF Typed, Same, Fields
<1> HIDE DEF a
<1>4. a.os \in [Streams -> BOOLEAN] /\ a.os["body"] /\ \A y \in Streams \ {"body"} : a.os[y] = s.os[y]
  BY <1>1, <1>3 DEF Streams
<1>5. Typed(a) /\ a.q = s.q /\ In(a) = In(s) /\ Line(a.q) /\ a.is = s.is /\ a.paired = s.paired
  BY <1>1, <1>3, <1>4 DEF Typed, Same, Fields, In
<1>6. /\ Typed(b) /\ Same(b, a, {"paired", "q"}) /\ Line(b.q)
      /\ b.paired = a.paired \cup {"body"}
      /\ In(b) = In(a) \cup (IF a.is["body"] /\ a.os["body"] THEN {"body"} ELSE {})
  BY <1>2, <1>5, ConnectDoes
<1> HIDE DEF b
<1>7. /\ Typed(t) /\ Same(t, b, {"os", "q"}) /\ Line(t.q)
      /\ \A y \in Streams : t.os[y] = (b.os[y] \/ y = "in")
      /\ In(t) = In(b) \cup (IF "in" \in b.paired /\ b.is["in"] THEN {"in"} ELSE {})
  BY <1>2, <1>6, OsReadyDoes
<1> HIDE DEF t
<1>8. b.os = a.os /\ b.is = s.is /\ t.os \in [Streams -> BOOLEAN] /\ t.is = s.is /\ t.paired = s.paired \cup {"body"}
  BY <1>5, <1>6, <1>7 DEF Typed, Same, Fields
<1>9. t.os["body"] /\ t.os["in"] /\ \A y \in Streams \ {"in", "body"} : t.os[y] = s.os[y]
  BY <1>2, <1>4, <1>7, <1>8
<1>10. /\ Same(t, s, {"os", "paired", "q"}) /\ t.st = "body" /\ t.pump = None
       /\ In(s) \subseteq In(t) /\ In(t) \subseteq In(s) \cup {"in", "body"}
       /\ (s.is["body"] => "body" \in In(t)) /\ ("in" \in s.paired /\ s.is["in"] => "in" \in In(t))
  BY <1>3, <1>4, <1>5, <1>6, <1>7, <1>8 DEF Same, Fields
<1>11. ~Answering(t) /\ ~Answering(s)
  BY <1>10 DEF Answering, Sending
<1>12. "in" \in s.paired /\ "out" \in s.paired
  BY DEF Good, Nearly, Core, Ports
<1>13. Queued(t)
  BY <1>1, <1>7, <1>8, <1>10, <1>12 DEF Queued, None
<1>14. Woken(t)
  <2>1. ASSUME NEW y \in Streams, y \in t.paired, t.is[y], t.os[y] PROVE y \in In(t) \/ t.pump = y
    <3>1. CASE y \in {"in", "body"}
      BY <2>1, <3>1, <1>8, <1>10, <1>12
    <3>2. CASE y \notin {"in", "body"}
      <4>1. s.is[y] /\ s.os[y] /\ y \in s.paired /\ s.pump # y
        BY <2>1, <3>2, <1>8, <1>9 DEF None, Streams
      <4>2. y \in In(s)
        BY <4>1 DEF Good, Woken, WokenBut
      <4> QED BY <4>2, <1>10
    <3> QED BY <3>1, <3>2
  <2> QED BY <2>1 DEF Woken, WokenBut
<1>15. \A m \in Messages : m \in In(t) <=> m \in In(s)
  BY <1>10 DEF Messages
<1>16. Timed(t)
  BY <1>10, <1>11 DEF Good, Nearly, Timed, Waits, Same, Fields
<1>17. Counted(t) /\ Whole(t)
  BY <1>10, <1>11 DEF Good, Nearly, Core, Counted, Busy, Whole, Same, Fields
<1>18. Asks(t)
  BY <1>10, <1>15 DEF Good, Nearly, Core, Asks, Same, Fields, Messages, Sending
<1>19. Ports(t)
  <2>1. t.cont = s.cont /\ "body" \in t.paired /\ "in" \in t.paired /\ "out" \in t.paired
    BY <1>8, <1>10, <1>12 DEF Same, Fields
  <2> QED BY <1>10, <2>1 DEF Ports
<1>20. Source(t) /\ Filled(t)
  <2>1. "src" \in t.paired <=> "src" \in s.paired
    BY <1>8
  <2> QED BY <1>8, <1>10, <1>11, <2>1 DEF Good, Nearly, Core, Source, Filled, Same, Fields
<1>21. Fed(t, peer)
  <2>1. ~Reads(t) /\ ~Answers(t)
    BY <1>10, <1>11 DEF Reads, Answers, Good, Nearly, Core, Asks, Sending
  <2> QED BY <1>10, <2>1 DEF Fed, Coming, Same, Fields
<1>22. t.st # "free"
  BY <1>10
<1> QED BY <1>7, <1>10, <1>13, <1>14, <1>16, <1>17, <1>18, <1>19, <1>20, <1>21, <1>22
        DEF Good, Nearly, Core, Woken, WokenBut, t, b, a

\* The headers of a request are handed over.
LEMMA ReceivedIsGood ==
  ASSUME NEW s, Good(s), s.st \in {"body", "handling"}, s.handler = "idle", "body" \notin s.paired,
         (s.kind \in HasBody) <=> s.st = "body", {"received", "whole"} \cap In(s) = {}, s.pump = None,
         PeerTyped(peer), Fed(s, peer), NEW t \in Received(s)
  PROVE  Good(t) /\ Fed(t, peer) /\ t.st # "free" /\ t.pump = None
<1>1. ~s.closing /\ "worker" \notin In(s) /\ "buffer" \in Contents
  BY DEF Good, Nearly, Core, Asks, Contents
<1>2. CASE t = StartSending(s, "buffer", s.kind \notin HasBody)
  <2> DEFINE k == s.kind \notin HasBody
  <2>1. k \in BOOLEAN /\ (k => s.st = "handling") /\ t = StartSending(s, "buffer", k)
    BY <1>2
  <2> HIDE DEF k
  <2> QED BY <1>1, <2>1, AnswerIsGood
<1>3. CASE s.kind \in HasBody /\ t = OsReady(Connect([s EXCEPT !.os["body"] = TRUE], "body"), "in")
  BY <1>3, BufferIsGood
<1>4. CASE s.kind \notin HasBody /\ t \in Invoked(s)
  BY <1>4, InvokedIsGood
<1> QED BY <1>2, <1>3, <1>4 DEF Received

\* The end of a request: the connection waits for the next one, or for the client to close it.
LEMMA CleanupIsGood ==
  ASSUME NEW s, Typed(s), Queued(s), Woken(s), s.st \in Sending, s.handler = "idle", ~s.closing,
         s.seen = s.done, \A x \in Timers : s.timers[x] = 0,
         {"received", "whole", "worker", "complete"} \cap In(s) = {},
         "in" \in s.paired, "out" \in s.paired, "src" \notin s.paired, "body" \notin s.paired,
         ~s.os["in"], ~s.os["body"], ~s.is["out"], s.avail <= s.rest, s.pump = None,
         s.keep => Headed(s.inbox \o peer.script) /\ (peer.asked = s.done => Coming(s, peer) = 0)
  PROVE  LET t == Cleanup(s) IN Good(t) /\ Fed(t, peer) /\ t.st # "free" /\ t.pump = None
<1> DEFINE a == Recycled(s)
           b == IF s.keep THEN OsReady(a, "in") ELSE a
           t == Cleanup(s)
<1>1. t = Set(b, "keep")
  BY DEF Cleanup
<1> HIDE DEF t
<1>2. /\ Same(a, s, {"st", "kind", "got", "chunk", "cont"})
      /\ a.st = "waiting" /\ a.kind = None /\ a.got = 0 /\ a.chunk = 0 /\ a.cont = FALSE
  BY DEF Recycled, Typed, Same, Fields
<1> HIDE DEF a
<1>3. Typed(a)
  <2>1. a.got \in 0..Body
    BY <1>2, NxConnAssumption
  <2>2. a.st \in States /\ a.kind \in Kinds \cup {None} /\ a.chunk \in Nat /\ a.cont \in BOOLEAN
    <3>1. a.st \in States
      BY <1>2 DEF States
    <3>2. a.kind \in Kinds \cup {None}
      BY <1>2
    <3>3. a.chunk \in Nat
      BY <1>2
    <3>4. a.cont \in BOOLEAN
      BY <1>2
    <3> QED BY <3>1, <3>2, <3>3, <3>4
  <2>3. /\ DOMAIN a = Fields /\ a.handler = s.handler /\ a.timers = s.timers /\ a.keep = s.keep /\ a.is = s.is
        /\ a.os = s.os /\ a.closing = s.closing /\ a.paired = s.paired /\ a.pump = s.pump /\ a.rest = s.rest
        /\ a.left = s.left /\ a.avail = s.avail /\ a.room = s.room /\ a.seen = s.seen /\ a.done = s.done
        /\ a.inbox = s.inbox
    BY <1>2 DEF Typed, Same, Fields
  <2> QED BY <2>1, <2>2, <2>3 DEF Typed
<1>4. In(a) = In(s) /\ a.q = s.q /\ Line(a.q) /\ "in" \in Streams /\ a.os = s.os /\ a.is = s.is /\ a.paired = s.paired
  BY <1>2 DEF Same, Fields, In, Queued, Streams
<1>5. /\ Typed(b) /\ Same(b, a, {"os", "q"}) /\ Line(b.q)
      /\ \A y \in Streams \ {"in"} : b.os[y] = s.os[y]
      /\ b.os["in"] => s.keep
      /\ In(s) \subseteq In(b) /\ In(b) \subseteq In(s) \cup {"in"}
      /\ b.os["in"] /\ s.is["in"] => "in" \in In(b)
  <2>1. CASE s.keep
    <3>1. b = OsReady(a, "in")
      BY <2>1
    <3> HIDE DEF b
    <3>2. /\ Typed(b) /\ Same(b, a, {"os", "q"}) /\ Line(b.q)
          /\ \A y \in Streams : b.os[y] = (a.os[y] \/ y = "in")
          /\ In(b) = In(a) \cup (IF "in" \in a.paired /\ a.is["in"] THEN {"in"} ELSE {})
      BY <1>3, <1>4, <3>1, OsReadyDoes
    <3>3. b.os \in [Streams -> BOOLEAN] /\ a.os \in [Streams -> BOOLEAN]
      BY <1>3, <3>2 DEF Typed
    <3>4. \A y \in Streams \ {"in"} : b.os[y] = s.os[y]
      BY <1>4, <3>2, <3>3
    <3> QED BY <1>4, <2>1, <3>2, <3>4
  <2>2. CASE ~s.keep
    <3>1. b = a
      BY <2>2
    <3> HIDE DEF b
    <3> QED BY <1>3, <1>4, <3>1 DEF Same
  <2> QED BY <2>1, <2>2
<1> HIDE DEF b
<1>6. b.timers["keep"] = 0 /\ b.timers = s.timers
  BY <1>2, <1>5 DEF Same, Fields, Timers
<1>7. Typed(t) /\ Same(t, b, {"timers"}) /\ t.timers = [b.timers EXCEPT !["keep"] = 1]
  BY <1>1, <1>5, <1>6, TimersDo DEF Timers
<1>8. b.timers \in [Timers -> {0, 1}]
  BY <1>5 DEF Typed
<1>9. t.timers["keep"] = 1 /\ t.timers["read"] = 0 /\ t.timers["write"] = 0
  BY <1>6, <1>7, <1>8 DEF Timers
<1>10. /\ t.st = "waiting" /\ t.kind = None /\ t.got = 0 /\ t.chunk = 0 /\ t.cont = FALSE /\ t.handler = "idle"
       /\ t.closing = s.closing /\ t.seen = s.seen /\ t.done = s.done /\ t.paired = s.paired /\ t.pump = s.pump
       /\ t.is = s.is /\ t.os = b.os /\ t.rest = s.rest /\ t.avail = s.avail /\ t.inbox = s.inbox
       /\ t.q = b.q /\ In(t) = In(b)
  BY <1>2, <1>5, <1>7 DEF Same, Fields, In
<1>11. ~Answering(t) /\ {"received", "whole", "worker", "complete"} \cap In(t) = {}
  BY <1>5, <1>10 DEF Answering, Sending
<1>12. Queued(t)
  BY <1>5, <1>10 DEF Queued, None
<1>13. Woken(t)
  BY <1>5, <1>10 DEF Woken, WokenBut, None
<1>14. Timed(t)
  BY <1>9, <1>10, <1>11 DEF Timed, Waits, Timers
<1>15. Counted(t)
  <2>1. s.seen \in Nat /\ s.done \in Nat
    BY DEF Typed
  <2> QED BY <1>10, <1>11, <2>1 DEF Counted, Busy
<1>16. Asks(t)
  BY <1>10, <1>11 DEF Asks
<1>17. Ports(t)
  <2>1. ~t.os["body"]
    BY <1>5, <1>10 DEF Streams
  <2> QED BY <1>10, <2>1 DEF Ports
<1>18. Source(t) /\ Filled(t) /\ Whole(t)
  BY <1>10, <1>11 DEF Source, Filled, Whole
<1>19. Fed(t, peer)
  <2>1. Reads(t) => s.keep
    BY <1>5, <1>10, <1>11 DEF Reads
  <2> QED BY <1>10, <1>11, <2>1 DEF Fed, Answers, Coming
<1>20. t.st # "free" /\ t.pump = None
  BY <1>10
<1> QED BY <1>7, <1>12, <1>13, <1>14, <1>15, <1>16, <1>17, <1>18, <1>19, <1>20
        DEF Good, Nearly, Core, Woken, WokenBut, t

\* Each message leaves the connection served, or ends it.
LEMMA MessageIsGood ==
  ASSUME NEW s, Good(s), s.st # "free", s.q # <<>>, Head(s.q) \in Messages, s.pump = None,
         PeerTyped(peer), Fed(s, peer),
         NEW t \in OnMessage([s EXCEPT !.q = Tail(@)], Head(s.q))
  PROVE  t = Free \/ (Good(t) /\ Fed(t, peer) /\ t.st # "free" /\ t.pump = None)
<1> DEFINE g == [s EXCEPT !.q = Tail(@)]
           m == Head(s.q)
<1>1. /\ Typed(g) /\ Same(g, s, {"q"}) /\ Queued(g) /\ Woken(g) /\ In(s) = In(g) \cup {m}
      /\ m \notin {"error", "drop"} => m \notin In(g)
      /\ m \notin {"drop", "complete"} => Good(g) /\ Fed(g, peer)
  BY MessageOff
<1>2. t \in OnMessage(g, m) /\ m \in Messages
  OBVIOUS
<1> HIDE DEF g, m
<1>3. /\ g.st = s.st /\ g.kind = s.kind /\ g.handler = s.handler /\ g.paired = s.paired /\ g.closing = s.closing
      /\ g.keep = s.keep /\ g.pump = None /\ g.got = s.got /\ g.seen = s.seen /\ g.done = s.done /\ g.timers = s.timers
      /\ g.os = s.os /\ g.is = s.is /\ g.rest = s.rest /\ g.avail = s.avail /\ g.inbox = s.inbox /\ g.cont = s.cont
  BY <1>1 DEF Same, Fields
<1>4. m \in In(s) /\ In(g) \subseteq In(s)
  BY <1>1
<1>5. Asks(s) /\ Ports(s) /\ Source(s) /\ Timed(s) /\ Counted(s) /\ Whole(s) /\ Typed(s)
  BY DEF Good, Nearly, Core
<1>6. CASE m = "error"
  <2>1. t = Publish(g, "drop") /\ Good(g) /\ Fed(g, peer)
    BY <1>1, <1>2, <1>6 DEF OnMessage
  <2> QED BY <1>3, <2>1, PublishIsGood
<1>7. CASE m = "drop"
  <2>1. t = Dropped(g)
    BY <1>2, <1>7 DEF OnMessage
  <2>2. CASE g.handler # "worker"
    BY <2>1, <2>2 DEF Dropped
  <2>3. CASE g.handler = "worker"
    <3>1. t = [g EXCEPT !.closing = TRUE]
      BY <2>1, <2>3 DEF Dropped
    <3>2. Same(t, g, {"closing"}) /\ t.closing = TRUE
      BY <1>1, <3>1 DEF Typed, Same, Fields
    <3>3. Typed(t)
      BY <1>1, <3>2 DEF Typed, Same, Fields
    <3>4. /\ t.st = s.st /\ t.kind = s.kind /\ t.handler = s.handler /\ t.paired = s.paired
          /\ t.keep = s.keep /\ t.pump = None /\ t.got = s.got /\ t.seen = s.seen /\ t.done = s.done
          /\ t.timers = s.timers /\ t.os = s.os /\ t.is = s.is /\ t.rest = s.rest /\ t.avail = s.avail
          /\ t.inbox = s.inbox /\ t.cont = s.cont /\ t.q = g.q /\ In(t) = In(g)
      BY <1>3, <3>2 DEF Same, Fields, In
    <3>5. t.st = "handling" /\ ~Answering(t) /\ ~Answering(s)
      BY <1>3, <1>5, <2>3, <3>4 DEF Asks, Answering, Sending
    <3>6. Queued(t) /\ Woken(t)
      BY <1>1, <1>3, <3>4 DEF Queued, Woken, WokenBut
    <3>7. Timed(t)
      BY <1>5, <3>4, <3>5 DEF Timed, Waits
    <3>8. Counted(t) /\ Whole(t)
      BY <1>5, <3>4, <3>5 DEF Counted, Busy, Whole
    <3>9. Asks(t)
      BY <1>3, <1>4, <1>5, <2>3, <3>4, <3>5 DEF Asks, Sending
    <3>10. Ports(t)
      BY <1>5, <3>4, <3>5 DEF Ports
    <3>11. Source(t) /\ Filled(t)
      BY <1>5, <3>4, <3>5 DEF Source, Filled
    <3>12. Fed(t, peer)
      <4>1. ~Reads(t) /\ Answers(s)
        BY <1>4, <1>5, <3>4, <3>5 DEF Reads, Answers, Asks, Sending
      <4>2. Coming(s, peer) = 0 /\ peer.asked # s.done
        BY <4>1 DEF Fed
      <4>3. Coming(t, peer) = Coming(s, peer)
        BY <3>4 DEF Coming
      <4> QED BY <3>4, <3>5, <4>1, <4>2, <4>3 DEF Fed
    <3> QED BY <3>3, <3>4, <3>5, <3>6, <3>7, <3>8, <3>9, <3>10, <3>11, <3>12
            DEF Good, Nearly, Core, Woken, WokenBut
  <2> QED BY <2>2, <2>3
<1>8. CASE m = "received"
  <2>1. t \in Received(g) /\ Good(g) /\ Fed(g, peer) /\ "received" \notin In(g)
    BY <1>1, <1>2, <1>8 DEF OnMessage
  <2>2. /\ g.st \in {"body", "handling"} /\ g.handler = "idle" /\ "body" \notin g.paired
        /\ (g.kind \in HasBody) <=> g.st = "body"
        /\ "whole" \notin In(g)
    BY <1>3, <1>4, <1>5, <1>8 DEF Asks
  <2> QED BY <1>3, <2>1, <2>2, ReceivedIsGood
<1>9. CASE m = "whole"
  <2>1. t \in Invoked(g) /\ Good(g) /\ Fed(g, peer) /\ "whole" \notin In(g)
    BY <1>1, <1>2, <1>9 DEF OnMessage
  <2>2. g.st = "handling" /\ g.handler = "idle" /\ g.kind \in HasBody /\ g.got = Body /\ "received" \notin In(g)
    BY <1>3, <1>4, <1>5, <1>9 DEF Asks
  <2> QED BY <1>3, <2>1, <2>2, InvokedIsGood
<1>10. CASE m = "complete"
  <2>1. t = Cleanup(g)
    BY <1>2, <1>10 DEF OnMessage
  <2>2. s.st \in Sending /\ ~s.cont /\ ~Answering(s) /\ "complete" \in In(s)
    BY <1>4, <1>5, <1>10 DEF Asks, Answering
  <2>3. s.handler = "idle" /\ ~s.closing /\ {"received", "whole", "worker"} \cap In(s) = {}
    BY <1>5, <2>2 DEF Asks, Sending
  <2>4. s.seen = s.done
    BY <1>5, <2>2 DEF Counted, Busy, Sending, Typed
  <2>5. \A x \in Timers : s.timers[x] = 0
    BY <1>5, <2>2 DEF Timed, Waits, Sending
  <2>6. /\ "in" \in s.paired /\ "out" \in s.paired /\ "body" \notin s.paired /\ ~s.os["in"] /\ ~s.os["body"]
    BY <1>5, <2>2 DEF Ports, Sending
  <2>7. "src" \notin s.paired /\ ~s.is["out"] /\ s.avail <= s.rest
    BY <1>5, <2>2 DEF Source
  <2>8. s.keep => Headed(s.inbox \o peer.script) /\ (peer.asked = s.done => Coming(s, peer) = 0)
    BY <2>2 DEF Fed, Reads
  <2>9. g.keep => Headed(g.inbox \o peer.script) /\ (peer.asked = g.done => Coming(g, peer) = 0)
    BY <1>3, <2>8 DEF Coming
  <2>10. {"received", "whole", "worker", "complete"} \cap In(g) = {}
    BY <1>1, <1>4, <1>10, <2>3
  <2> HIDE <1>5
  <2> QED BY <1>1, <1>3, <2>1, <2>2, <2>3, <2>4, <2>5, <2>6, <2>7, <2>9, <2>10, CleanupIsGood
<1>11. CASE m = "worker"
  <2>1. Good(g) /\ Fed(g, peer) /\ "worker" \notin In(g)
    BY <1>1, <1>11
  <2>2. g.st = "handling" /\ {"received", "whole", "worker"} \cap In(g) = {}
    BY <1>3, <1>4, <1>5, <1>11, <2>1 DEF Asks
  <2>3. CASE g.closing
    BY <1>2, <1>11, <2>3 DEF OnMessage
  <2>4. CASE ~g.closing
    <3>1. PICK c \in Contents : t = StartSending(g, c, g.keep)
      BY <1>2, <1>11, <2>4 DEF OnMessage
    <3>2. g.keep \in BOOLEAN
      BY <1>1 DEF Typed
    <3> QED BY <1>3, <2>1, <2>2, <2>4, <3>1, <3>2, AnswerIsGood
  <2> QED BY <2>3, <2>4
<1> QED BY <1>2, <1>6, <1>7, <1>8, <1>9, <1>10, <1>11 DEF Messages

-----------------------------------------------------------------------------
(* The loop. *)

\* One round of a delivery leaves the connection served.
LEMMA MoveIsGood ==
  ASSUME NEW s, Good(s), s.st # "free", NEW x \in Streams, s.pump = x, x \in s.paired, s.is[x], s.os[x],
         PeerTyped(peer), Fed(s, peer), NEW t \in Moves(x, s)
  PROVE  Good(t) /\ Fed(t, peer) /\ t.st # "free"
<1>1. \A n \in 1..Buffer : n \in Nat
  BY NxConnAssumption
<1>2. CASE x = "in"
  <2>1. PICK n \in 1..Buffer : t = DataIn(s, n)
    BY <1>2 DEF Moves
  <2> QED BY <1>1, <1>2, <2>1, DataInIsGood
<1>3. CASE x = "out"
  <2>1. t = DataOut(s)
    BY <1>3 DEF Moves
  <2> QED BY <1>3, <2>1, DataOutIsGood
<1>4. CASE x = "body"
  <2>1. PICK n \in 1..Buffer : t = BodyRead(s, n)
    BY <1>4 DEF Moves
  <2>2. s.st = "body"
    BY <1>4 DEF Good, Nearly, Core, Ports
  <2>3. Good(t) /\ Fed(t, peer) /\ t.st \in {"body", "handling"}
    BY <1>1, <1>4, <2>1, <2>2, BodyReadIsGood
  <2> QED BY <2>3
<1>5. CASE x = "src"
  <2>1. t = ContentWrite(s)
    BY <1>5 DEF Moves
  <2>2. s.avail > 0 /\ Nearly(s)
    BY <1>5 DEF Good, Filled
  <2>3. Good(t) /\ Fed(t, peer) /\ t.st = s.st
    BY <1>5, <2>1, <2>2, ContentWriteIsGood
  <2> QED BY <2>3
<1> QED BY <1>2, <1>3, <1>4, <1>5 DEF Streams

\* A delivery begins.
LEMMA DeliveryIsGood ==
  ASSUME NEW s, Good(s), s.q # <<>>, Head(s.q) \in Streams, s.pump = None, Fed(s, peer)
  PROVE  LET t == [s EXCEPT !.q = Tail(@), !.pump = Head(s.q), !.left = MaxPump]
         IN Good(t) /\ Fed(t, peer) /\ t.st = s.st
<1> DEFINE x == Head(s.q)
           t == [s EXCEPT !.q = Tail(@), !.pump = x, !.left = MaxPump]
<1>1. Typed(s) /\ Line(s.q) /\ x \in Streams
  BY DEF Good, Nearly, Core, Queued
<1>2. Line(Tail(s.q)) /\ ToSet(s.q) = ToSet(Tail(s.q)) \cup {x} /\ (x \in {"error", "drop"} \/ x \notin ToSet(Tail(s.q)))
  BY <1>1, TailLine
<1>3. Same(t, s, {"q", "pump", "left"}) /\ t.q = Tail(s.q) /\ t.pump = x /\ t.left = MaxPump
  BY <1>1 DEF Typed, Same, Fields
<1> HIDE DEF t, x
<1>4. Typed(t)
  <2>1. t.left \in Nat
    BY <1>3, NxConnAssumption
  <2> QED BY <1>1, <1>3, <2>1 DEF Typed, Same, Fields
<1>5. Line(t.q) /\ In(s) = In(t) \cup {x} /\ x \notin In(t)
  BY <1>1, <1>2, <1>3 DEF In, Streams
<1>6. Queued(t)
  BY <1>3, <1>5 DEF Good, Nearly, Core, Queued, Same, Fields
<1>7. Woken(t)
  <2>1. ASSUME NEW y \in Streams, y \in t.paired, t.is[y], t.os[y] PROVE y \in In(t) \/ t.pump = y
    <3>1. y \in s.paired /\ s.is[y] /\ s.os[y]
      BY <1>3, <2>1 DEF Same, Fields
    <3>2. y \in In(s) \/ s.pump = y
      BY <3>1 DEF Good, Woken, WokenBut
    <3> QED BY <1>3, <1>5, <3>2 DEF None, Streams
  <2> QED BY <2>1 DEF Woken, WokenBut
<1>8. \A m \in Messages : m \in In(t) <=> m \in In(s)
  BY <1>1, <1>5 DEF Messages, Streams
<1>9. Timed(t)
  BY <1>3, <1>8 DEF Good, Nearly, Timed, Waits, Answering, Same, Fields, Messages
<1>10. /\ \A m \in {"received", "whole"} : m \in In(t) => m \in In(s)
       /\ "complete" \in In(t) <=> "complete" \in In(s)
  BY <1>8 DEF Messages
<1>11. "worker" \in In(t) => s.handler = "worker"
  BY <1>5 DEF Good, Nearly, Core, Asks
<1>12. Same(t, s, {"q", "timers", "pump", "left", "room"}) /\ t.st = s.st
  BY <1>3 DEF Same, Fields
<1> QED BY <1>4, <1>6, <1>7, <1>9, <1>10, <1>11, <1>12, LineIsGood DEF t, x

\* A delivery ends: its stream is not ready any more, or goes to the end of the queue.
LEMMA StopIsGood ==
  ASSUME NEW s, Good(s), s.pump # None, Fed(s, peer)
  PROVE  LET t == [s EXCEPT !.pump = None, !.left = 0]
             u == Link(t, s.pump)
         IN /\ ~(s.pump \in s.paired /\ s.is[s.pump] /\ s.os[s.pump]) => Good(t) /\ Fed(t, peer) /\ t.st = s.st
            /\ s.pump \in s.paired => Good(u) /\ Fed(u, peer) /\ u.st = s.st
<1> DEFINE x == s.pump
           t == [s EXCEPT !.pump = None, !.left = 0]
           u == Link(t, x)
<1>1. Typed(s) /\ Line(s.q) /\ x \in Streams /\ x \notin In(s)
  BY DEF Good, Nearly, Core, Queued, Typed
<1>2. Same(t, s, {"pump", "left"}) /\ t.pump = None /\ t.left = 0
  BY <1>1 DEF Typed, Same, Fields
<1>3. Same(u, t, {"q"}) /\ u.q = Append(t.q, x)
  BY <1>1 DEF Link, Typed, Same, Fields
<1>p. x = s.pump
  OBVIOUS
<1> HIDE DEF t, u, x
<1>4. Typed(t) /\ t.q = s.q /\ In(t) = In(s) /\ t.st = s.st
  BY <1>1, <1>2 DEF Typed, Same, Fields, In
<1>5. Line(u.q) /\ In(u) = In(s) \cup {x} /\ u.st = s.st /\ u.pump = None
  <2>1. x \notin ToSet(t.q) /\ x \in Events /\ Line(t.q)
    BY <1>1, <1>4 DEF In, Events
  <2>2. Line(Append(t.q, x)) /\ ToSet(Append(t.q, x)) = ToSet(t.q) \cup {x}
    BY <2>1, AppendLine
  <2> QED BY <1>2, <1>3, <1>4, <2>2 DEF In, Same, Fields
<1>6. Typed(u)
  BY <1>3, <1>4, <1>5 DEF Typed, Same, Fields
<1>7. ASSUME ~(x \in s.paired /\ s.is[x] /\ s.os[x]) PROVE Good(t) /\ Fed(t, peer)
  <2>1. Queued(t)
    BY <1>1, <1>2, <1>4 DEF Good, Nearly, Core, Queued, Same, Fields, None, Streams
  <2>2. Woken(t)
    BY <1>2, <1>4, <1>7, <1>p DEF Good, Woken, WokenBut, Same, Fields
  <2>3. Timed(t)
    BY <1>2, <1>4 DEF Good, Nearly, Timed, Waits, Answering, Same, Fields
  <2>4. "worker" \in In(t) => s.handler = "worker"
    BY <1>4 DEF Good, Nearly, Core, Asks
  <2>5. Same(t, s, {"q", "timers", "pump", "left", "room"})
    BY <1>2 DEF Same
  <2> QED BY <1>4, <2>1, <2>2, <2>3, <2>4, <2>5, LineIsGood
<1>8. ASSUME x \in s.paired PROVE Good(u) /\ Fed(u, peer)
  <2>1. Same(u, s, {"q", "pump", "left"})
    BY <1>2, <1>3 DEF Same, Fields
  <2>2. Queued(u)
    BY <1>5, <1>8, <2>1 DEF Good, Nearly, Core, Queued, Same, Fields, None, Streams
  <2>3. Woken(u)
    BY <1>5, <2>1, <1>p DEF Good, Woken, WokenBut, Same, Fields
  <2>4. \A m \in Messages : m \in In(u) <=> m \in In(s)
    BY <1>1, <1>5 DEF Messages, Streams
  <2>5. Timed(u)
    BY <2>1, <2>4 DEF Good, Nearly, Timed, Waits, Answering, Same, Fields, Messages
  <2>6. "worker" \in In(u) => s.handler = "worker"
    BY <2>4 DEF Good, Nearly, Core, Asks, Messages
  <2>7. /\ \A m \in {"received", "whole"} : m \in In(u) => m \in In(s)
        /\ "complete" \in In(u) <=> "complete" \in In(s)
    BY <2>4 DEF Messages
  <2>8. Same(u, s, {"q", "timers", "pump", "left", "room"})
    BY <2>1 DEF Same
  <2> QED BY <1>6, <2>2, <2>3, <2>5, <2>6, <2>7, <2>8, LineIsGood
<1> QED BY <1>4, <1>5, <1>7, <1>8, <1>p DEF t, u, x

\* A round is counted.
LEMMA RoundIsGood ==
  ASSUME NEW s, Good(s), s.left # 0, Fed(s, peer)
  PROVE  LET t == [s EXCEPT !.left = @ - 1]
         IN Good(t) /\ Fed(t, peer) /\ Same(t, s, {"left"})
<1> DEFINE t == [s EXCEPT !.left = @ - 1]
<1>1. Typed(s)
  BY DEF Good, Nearly, Core
<1>2. Same(t, s, {"left"}) /\ t.left = s.left - 1
  BY <1>1 DEF Typed, Same, Fields
<1> HIDE DEF t
<1>3. t.left \in Nat
  BY <1>1, <1>2 DEF Typed
<1>4. Typed(t) /\ t.q = s.q /\ In(t) = In(s)
  BY <1>1, <1>2, <1>3 DEF Typed, Same, Fields, In
<1>5. Queued(t) /\ Woken(t)
  BY <1>2, <1>4 DEF Good, Nearly, Core, Queued, Woken, WokenBut, Same, Fields
<1>6. Timed(t)
  BY <1>2, <1>4 DEF Good, Nearly, Timed, Waits, Answering, Same, Fields
<1>7. "worker" \in In(t) => s.handler = "worker"
  BY <1>4 DEF Good, Nearly, Core, Asks
<1>8. Same(t, s, {"q", "timers", "pump", "left", "room"})
  BY <1>2 DEF Same
<1> QED BY <1>2, <1>4, <1>5, <1>6, <1>7, <1>8, LineIsGood DEF t

\* An end of a stream becomes ready, outside of a delivery.
LEMMA ReadyIsGood ==
  ASSUME NEW s, Good(s), s.pump = None, NEW t, Typed(t), Line(t.q), Woken(t), Filled(t),
         Same(t, s, {"is", "os", "q", "avail"}), t.avail <= t.rest,
         t.is["out"] = s.is["out"], t.os["in"] = s.os["in"], t.os["body"] = s.os["body"],
         In(s) \subseteq In(t), In(t) \subseteq In(s) \cup s.paired
  PROVE  Good(t) /\ (Fed(s, peer) => Fed(t, peer)) /\ t.pump = None /\ t.st = s.st
<1>1. s.paired \subseteq Streams
  BY DEF Good, Nearly, Core, Typed
<1>2. \A m \in Messages : m \in In(t) <=> m \in In(s)
  BY <1>1 DEF Messages, Streams
<1>3. t.pump = None /\ t.st = s.st /\ t.paired = s.paired
  BY DEF Same, Fields
<1>4. Answering(t) <=> Answering(s)
  BY <1>2, <1>3 DEF Answering, Messages
<1>5. Queued(t)
  BY <1>3 DEF Good, Nearly, Core, Queued, None, Streams
<1>6. Timed(t)
  BY <1>2, <1>4 DEF Good, Nearly, Timed, Waits, Same, Fields, Messages
<1>7. Counted(t) /\ Whole(t)
  BY <1>4 DEF Good, Nearly, Core, Counted, Busy, Whole, Same, Fields
<1>8. Asks(t)
  BY <1>2 DEF Good, Nearly, Core, Asks, Same, Fields, Messages
<1>9. Ports(t)
  BY <1>4 DEF Good, Nearly, Core, Ports, Same, Fields
<1>10. Source(t)
  BY <1>4 DEF Good, Nearly, Core, Source, Same, Fields
<1>11. Fed(s, peer) => Fed(t, peer)
  BY <1>2, <1>4 DEF Fed, Reads, Answers, Coming, Same, Fields, Messages
<1> QED BY <1>3, <1>5, <1>6, <1>7, <1>8, <1>9, <1>10, <1>11 DEF Good, Nearly, Core, Woken, WokenBut

\* The socket has something to read.
LEMMA InReadyIsGood ==
  ASSUME NEW s, Good(s), s.pump = None
  PROVE  LET t == IsReady(s, "in")
         IN Good(t) /\ (Fed(s, peer) => Fed(t, peer)) /\ t.pump = None /\ t.st = s.st
<1> DEFINE t == IsReady(s, "in")
<1>1. Typed(s) /\ Line(s.q) /\ "in" \in Streams
  BY DEF Good, Nearly, Core, Queued, Streams
<1>2. /\ Typed(t) /\ Same(t, s, {"is", "q"}) /\ Line(t.q)
      /\ \A y \in Streams : t.is[y] = (s.is[y] \/ y = "in")
      /\ In(t) = In(s) \cup (IF "in" \in s.paired /\ ~s.is["in"] /\ s.os["in"] THEN {"in"} ELSE {})
  BY <1>1, IsReadyDoes
<1> HIDE DEF t
<1>3. s.is \in [Streams -> BOOLEAN] /\ t.is \in [Streams -> BOOLEAN]
  BY <1>1, <1>2 DEF Typed
<1>4. \A y \in Streams \ {"in"} : t.is[y] = s.is[y]
  BY <1>2, <1>3
<1>5. t.is["out"] = s.is["out"] /\ t.is["src"] = s.is["src"]
  BY <1>4 DEF Streams
<1>6. Woken(t)
  <2>1. ASSUME NEW y \in Streams, y \in t.paired, t.is[y], t.os[y] PROVE y \in In(t) \/ t.pump = y
    <3>1. y \in s.paired /\ s.os[y] /\ s.pump = t.pump
      BY <1>2, <2>1 DEF Same, Fields
    <3>2. s.is[y] => y \in In(s) \/ s.pump = y
      BY <3>1 DEF Good, Woken, WokenBut
    <3>3. y # "in" => s.is[y]
      BY <1>4, <2>1
    <3> QED BY <1>2, <3>1, <3>2, <3>3
  <2> QED BY <2>1 DEF Woken, WokenBut
<1>7. Filled(t) /\ t.avail <= t.rest
  BY <1>2, <1>5 DEF Good, Nearly, Core, Source, Filled, Same, Fields
<1>8. Same(t, s, {"is", "os", "q", "avail"}) /\ t.os = s.os
  BY <1>2 DEF Same, Fields
<1> QED BY <1>2, <1>5, <1>6, <1>7, <1>8, ReadyIsGood DEF t

\* The socket has room.
LEMMA RoomIsGood ==
  ASSUME NEW s, Good(s), s.pump = None
  PROVE  LET t == OsReady(s, "out")
         IN Good(t) /\ (Fed(s, peer) => Fed(t, peer)) /\ t.pump = None /\ t.st = s.st
<1> DEFINE t == OsReady(s, "out")
<1>1. Typed(s) /\ Line(s.q) /\ "out" \in Streams
  BY DEF Good, Nearly, Core, Queued, Streams
<1>2. /\ Typed(t) /\ Same(t, s, {"os", "q"}) /\ Line(t.q)
      /\ \A y \in Streams : t.os[y] = (s.os[y] \/ y = "out")
      /\ In(t) = In(s) \cup (IF "out" \in s.paired /\ s.is["out"] THEN {"out"} ELSE {})
  BY <1>1, OsReadyDoes
<1> HIDE DEF t
<1>3. s.os \in [Streams -> BOOLEAN] /\ t.os \in [Streams -> BOOLEAN]
  BY <1>1, <1>2 DEF Typed
<1>4. \A y \in Streams \ {"out"} : t.os[y] = s.os[y]
  BY <1>2, <1>3
<1>5. t.os["in"] = s.os["in"] /\ t.os["body"] = s.os["body"]
  BY <1>4 DEF Streams
<1>6. Woken(t)
  <2>1. ASSUME NEW y \in Streams, y \in t.paired, t.is[y], t.os[y] PROVE y \in In(t) \/ t.pump = y
    <3>1. y \in s.paired /\ s.is[y] /\ s.pump = t.pump
      BY <1>2, <2>1 DEF Same, Fields
    <3>2. s.os[y] => y \in In(s) \/ s.pump = y
      BY <3>1 DEF Good, Woken, WokenBut
    <3>3. y # "out" => s.os[y]
      BY <1>4, <2>1
    <3> QED BY <1>2, <3>1, <3>2, <3>3
  <2> QED BY <2>1 DEF Woken, WokenBut
<1>7. Filled(t) /\ t.avail <= t.rest
  BY <1>2 DEF Good, Nearly, Core, Source, Filled, Same, Fields
<1>8. Same(t, s, {"is", "os", "q", "avail"}) /\ t.is = s.is
  BY <1>2 DEF Same, Fields
<1> QED BY <1>2, <1>5, <1>6, <1>7, <1>8, ReadyIsGood DEF t

\* A piece of the content has come.
LEMMA PieceIsGood ==
  ASSUME NEW s, Good(s), s.pump = None, s.avail < s.rest
  PROVE  LET t == IsReady([s EXCEPT !.avail = @ + 1], "src")
         IN Good(t) /\ (Fed(s, peer) => Fed(t, peer)) /\ t.pump = None /\ t.st = s.st
<1> DEFINE a == [s EXCEPT !.avail = @ + 1]
           t == IsReady(a, "src")
<1>1. Typed(s) /\ Line(s.q) /\ "src" \in Streams
  BY DEF Good, Nearly, Core, Queued, Streams
<1>2. Same(a, s, {"avail"}) /\ a.avail = s.avail + 1
  BY <1>1 DEF Typed, Same, Fields
<1> HIDE DEF a
<1>3. s.avail \in Nat /\ s.rest \in Nat /\ a.avail \in Nat /\ a.avail > 0 /\ a.avail <= s.rest
  <2>1. s.avail \in Nat /\ s.rest \in 0..Content
    BY <1>1 DEF Typed
  <2> QED BY <1>2, <2>1, NxConnAssumption
<1>4. Typed(a) /\ a.q = s.q /\ In(a) = In(s) /\ Line(a.q) /\ a.is = s.is /\ a.os = s.os /\ a.paired = s.paired
  BY <1>1, <1>2, <1>3 DEF Typed, Same, Fields, In
<1>5. /\ Typed(t) /\ Same(t, a, {"is", "q"}) /\ Line(t.q)
      /\ \A y \in Streams : t.is[y] = (a.is[y] \/ y = "src")
      /\ In(t) = In(a) \cup (IF "src" \in a.paired /\ ~a.is["src"] /\ a.os["src"] THEN {"src"} ELSE {})
  BY <1>1, <1>4, IsReadyDoes
<1> HIDE DEF t
<1>6. s.is \in [Streams -> BOOLEAN] /\ t.is \in [Streams -> BOOLEAN]
  BY <1>1, <1>5 DEF Typed
<1>7. \A y \in Streams \ {"src"} : t.is[y] = s.is[y]
  BY <1>4, <1>5, <1>6
<1>8. t.is["out"] = s.is["out"]
  BY <1>7 DEF Streams
<1>9. Same(t, s, {"is", "os", "q", "avail"}) /\ t.os = s.os /\ t.avail = a.avail /\ t.rest = s.rest
  BY <1>2, <1>4, <1>5 DEF Same, Fields
<1>10. Woken(t)
  <2>1. ASSUME NEW y \in Streams, y \in t.paired, t.is[y], t.os[y] PROVE y \in In(t) \/ t.pump = y
    <3>1. y \in s.paired /\ s.os[y] /\ s.pump = t.pump
      BY <1>9, <2>1 DEF Same, Fields
    <3>2. s.is[y] => y \in In(s) \/ s.pump = y
      BY <3>1 DEF Good, Woken, WokenBut
    <3>3. y # "src" => s.is[y]
      BY <1>7, <2>1
    <3> QED BY <1>4, <1>5, <3>1, <3>2, <3>3
  <2> QED BY <2>1 DEF Woken, WokenBut
<1>11. Filled(t) /\ t.avail <= t.rest
  BY <1>3, <1>9 DEF Filled
<1>12. In(s) \subseteq In(t) /\ In(t) \subseteq In(s) \cup s.paired
  BY <1>4, <1>5
<1> QED BY <1>5, <1>8, <1>9, <1>10, <1>11, <1>12, ReadyIsGood DEF t, a

\* A timer expires.
LEMMA TimeoutIsGood ==
  ASSUME NEW s, Good(s), NEW x \in Timers
  PROVE  LET t == Publish([s EXCEPT !.timers[x] = 0], "drop")
         IN Good(t) /\ (Fed(s, peer) => Fed(t, peer)) /\ t.pump = s.pump /\ t.st = s.st
<1> DEFINE a == Unset(s, x)
           t == Publish(a, "drop")
<1>1. Typed(s) /\ Line(s.q) /\ "drop" \in Messages
  BY DEF Good, Nearly, Core, Queued, Messages
<1>2. Typed(a) /\ Same(a, s, {"timers"}) /\ a.timers = [s.timers EXCEPT ![x] = 0]
  BY <1>1, TimersDo
<1> HIDE DEF a
<1>3. a.q = s.q /\ In(a) = In(s) /\ Line(a.q)
  BY <1>1, <1>2 DEF Same, Fields, In
<1>4. Typed(t) /\ Same(t, a, {"q"}) /\ Line(t.q) /\ In(t) = In(a) \cup {"drop"}
  BY <1>1, <1>2, <1>3, PublishDoes
<1> HIDE DEF t
<1>5. Same(t, s, {"q", "timers"}) /\ t.timers = a.timers /\ In(t) = In(s) \cup {"drop"}
  BY <1>2, <1>3, <1>4 DEF Same, Fields
<1>6. Queued(t) /\ Woken(t)
  BY <1>4, <1>5 DEF Good, Nearly, Core, Queued, Woken, WokenBut, Same, Fields, Streams
<1>7. Timed(t)
  <2>1. \A y \in Timers : Waits(t, y) <=> Waits(s, y)
    BY <1>5 DEF Waits, Answering, Same, Fields
  <2>2. \A y \in Timers : s.timers[y] = 0 => t.timers[y] = 0
    <3>1. s.timers \in [Timers -> {0, 1}]
      BY <1>1 DEF Typed
    <3>2. t.timers = [s.timers EXCEPT ![x] = 0]
      BY <1>2, <1>5
    <3> QED BY <3>1, <3>2
  <2> QED BY <1>5, <2>1, <2>2 DEF Good, Nearly, Timed
<1>8. /\ \A m \in {"received", "whole"} : m \in In(t) => m \in In(s)
      /\ "complete" \in In(t) <=> "complete" \in In(s)
  BY <1>5
<1>9. "worker" \in In(t) => s.handler = "worker"
  BY <1>5 DEF Good, Nearly, Core, Asks
<1>10. Same(t, s, {"q", "timers", "pump", "left", "room"}) /\ t.pump = s.pump /\ t.st = s.st
  BY <1>5 DEF Same, Fields
<1> QED BY <1>4, <1>6, <1>7, <1>8, <1>9, <1>10, LineIsGood DEF t, a, Unset

\* A worker has finished.
LEMMA WorkerIsGood ==
  ASSUME NEW s, Good(s), s.handler = "worker", "worker" \notin In(s)
  PROVE  LET t == Publish(s, "worker")
         IN Good(t) /\ (Fed(s, peer) => Fed(t, peer)) /\ t.pump = s.pump /\ t.st = s.st
<1> DEFINE t == Publish(s, "worker")
<1>1. Typed(s) /\ Line(s.q) /\ "worker" \in Messages
  BY DEF Good, Nearly, Core, Queued, Messages
<1>2. Typed(t) /\ Same(t, s, {"q"}) /\ Line(t.q) /\ In(t) = In(s) \cup {"worker"}
  BY <1>1, PublishDoes
<1> HIDE DEF t
<1>3. Queued(t) /\ Woken(t)
  BY <1>2 DEF Good, Nearly, Core, Queued, Woken, WokenBut, Same, Fields, Streams
<1>4. Timed(t)
  BY <1>2 DEF Good, Nearly, Timed, Waits, Answering, Same, Fields
<1>5. /\ \A m \in {"received", "whole"} : m \in In(t) => m \in In(s)
      /\ "complete" \in In(t) <=> "complete" \in In(s)
  BY <1>2
<1>6. Same(t, s, {"q", "timers", "pump", "left", "room"}) /\ t.pump = s.pump /\ t.st = s.st
  BY <1>2 DEF Same, Fields
<1> QED BY <1>2, <1>3, <1>4, <1>5, <1>6, LineIsGood DEF t

-----------------------------------------------------------------------------
(* The client. *)

\* The client's next token arrives.
LEMMA SendIsGood ==
  ASSUME NEW s, Good(s), NEW p, PeerTyped(p), p.script # <<>>, Fed(s, p),
         NEW r, PeerTyped(r), r.script = Tail(p.script), r.asked = p.asked
  PROVE  LET t == [s EXCEPT !.inbox = Append(@, Head(p.script))]
         IN Good(t) /\ Fed(t, r) /\ t.pump = s.pump /\ t.st = s.st
<1> DEFINE t == [s EXCEPT !.inbox = Append(@, Head(p.script))]
           v == s.inbox
           w == p.script
           a == Len(v)
           b == Len(w)
<1>1. Typed(s) /\ v \in Seq(Tokens) /\ w \in Seq(Tokens) /\ w # <<>>
  BY DEF Good, Nearly, Core, Typed, PeerTyped
<1>2. Same(t, s, {"inbox"}) /\ t.inbox = Append(v, Head(w))
  BY <1>1 DEF Typed, Same, Fields
<1>3. a \in Nat /\ b \in Nat /\ b # 0
  BY <1>1, LenProperties, EmptySeq
<1>4. Head(w) \in Tokens /\ Tail(w) \in Seq(Tokens) /\ Len(Tail(w)) = b - 1 /\ Head(w) = w[1]
      /\ \A i \in 1..(b - 1) : Tail(w)[i] = w[i + 1]
  BY <1>1, <1>3, HeadTailProperties
<1> HIDE DEF t
<1>5. Append(v, Head(w)) \in Seq(Tokens) /\ Len(Append(v, Head(w))) = a + 1
      /\ (\A i \in 1..a : Append(v, Head(w))[i] = v[i]) /\ Append(v, Head(w))[a + 1] = Head(w)
  BY <1>1, <1>3, <1>4, AppendProperties
<1>6. Typed(t) /\ t.q = s.q /\ In(t) = In(s)
  BY <1>1, <1>2, <1>5 DEF Typed, Same, Fields, In
<1>7. Append(v, Head(w)) \o Tail(w) = v \o w
  <2> DEFINE c == Append(v, Head(w))
             d == Tail(w)
             f == c \o d
             g == v \o w
  <2>1. g \in Seq(Tokens) /\ Len(g) = a + b /\ \A i \in 1..(a + b) : g[i] = IF i <= a THEN v[i] ELSE w[i - a]
    BY <1>1, <1>3, ConcatProperties
  <2>2. f \in Seq(Tokens) /\ Len(f) = Len(c) + Len(d)
        /\ \A i \in 1..(Len(c) + Len(d)) : f[i] = IF i <= Len(c) THEN c[i] ELSE d[i - Len(c)]
    BY <1>4, <1>5, ConcatProperties
  <2>3. Len(c) = a + 1 /\ Len(d) = b - 1 /\ (\A i \in 1..a : c[i] = v[i]) /\ c[a + 1] = w[1]
        /\ \A i \in 1..(b - 1) : d[i] = w[i + 1]
    BY <1>4, <1>5
  <2> HIDE DEF a, b, c, d, f, g
  <2>4. Len(f) = Len(g) /\ Len(c) + Len(d) = a + b
    BY <1>3, <2>1, <2>2, <2>3
  <2>5. ASSUME NEW i \in 1..(a + b) PROVE f[i] = g[i]
    <3>1. CASE i <= a
      <4>1. i \in 1..a /\ i <= Len(c) BY <1>3, <2>3, <3>1
      <4> QED BY <2>1, <2>2, <2>3, <2>4, <3>1, <4>1
    <3>2. CASE i = a + 1
      <4>1. ~(i <= a) /\ i - a = 1 /\ i <= Len(c) BY <1>3, <2>3, <3>2
      <4> QED BY <2>1, <2>2, <2>3, <2>4, <3>2, <4>1
    <3>3. CASE i > a + 1
      <4>1. ~(i <= a) /\ ~(i <= Len(c)) /\ i - Len(c) \in 1..(b - 1) /\ (i - Len(c)) + 1 = i - a
        BY <1>3, <2>3, <3>3
      <4> QED BY <2>1, <2>2, <2>3, <2>4, <4>1
    <3> QED BY <1>3, <3>1, <3>2, <3>3
  <2> QED BY <2>1, <2>2, <2>4, <2>5, SeqEqual DEF c, d, f, g
<1>8. Coming(t, r) = Coming(s, p)
  <2>1. Coming(t, r) = (a + 1) + (b - 1) /\ Coming(s, p) = a + b
    BY <1>2, <1>4, <1>5 DEF Coming
  <2> HIDE DEF a, b
  <2> QED BY <1>3, <2>1
<1>9. t.inbox \o r.script = s.inbox \o p.script
  BY <1>2, <1>7
<1>10. Answering(t) <=> Answering(s)
  BY <1>2, <1>6 DEF Answering, Same, Fields
<1>11. Queued(t) /\ Woken(t)
  BY <1>2, <1>6 DEF Good, Nearly, Core, Queued, Woken, WokenBut, Same, Fields
<1>12. Timed(t)
  BY <1>2, <1>6, <1>10 DEF Good, Nearly, Timed, Waits, Same, Fields
<1>13. Counted(t) /\ Whole(t)
  BY <1>2, <1>10 DEF Good, Nearly, Core, Counted, Busy, Whole, Same, Fields
<1>14. Asks(t)
  BY <1>2, <1>6 DEF Good, Nearly, Core, Asks, Same, Fields
<1>15. Ports(t)
  BY <1>2, <1>10 DEF Good, Nearly, Core, Ports, Same, Fields
<1>16. Source(t) /\ Filled(t)
  BY <1>2, <1>10 DEF Good, Nearly, Core, Source, Filled, Same, Fields
<1>17. Fed(t, r)
  <2>1. /\ t.st = s.st /\ t.os = s.os /\ t.keep = s.keep /\ t.done = s.done /\ t.chunk = s.chunk /\ t.got = s.got
    BY <1>2 DEF Same, Fields
  <2>2. (Reads(t) <=> Reads(s)) /\ (Answers(t) <=> Answers(s))
    BY <1>6, <1>10, <2>1 DEF Reads, Answers
  <2> QED BY <1>8, <1>9, <2>1, <2>2 DEF Fed
<1>18. t.pump = s.pump /\ t.st = s.st
  BY <1>2 DEF Same, Fields
<1> QED BY <1>6, <1>11, <1>12, <1>13, <1>14, <1>15, <1>16, <1>17, <1>18
        DEF Good, Nearly, Core, Woken, WokenBut, t

\* What has arrived stays headed when nothing follows it.
LEMMA HeadedPrefix ==
  ASSUME NEW v \in Seq(Tokens), NEW w \in Seq(Tokens), Headed(v \o w)
  PROVE  Headed(v \o <<>>)
<1> DEFINE u == v \o w
           P == \A j \in 1..Len(u) : u[j] = "part"
           E == \E i \in 1..Len(u) :
                  /\ u[i] \in Kinds
                  /\ \A j \in 1..Len(u) : j < i => u[j] = "part"
                  /\ Len(u) <= i + (IF u[i] \in HasBody THEN Body ELSE 0)
<1>1. /\ Len(v) \in Nat /\ Len(w) \in Nat /\ u \in Seq(Tokens) /\ Len(u) = Len(v) + Len(w)
      /\ \A i \in 1..(Len(v) + Len(w)) : u[i] = IF i <= Len(v) THEN v[i] ELSE w[i - Len(v)]
  BY ConcatProperties
<1>2. v \o <<>> = v
  BY ConcatEmptySeq
<1>u. P \/ E
  BY DEF Headed
<1> HIDE DEF u
<1>3. \A i \in 1..Len(v) : i \in 1..Len(u) /\ u[i] = v[i]
  BY <1>1
<1>4. CASE P
  <2>1. \A j \in 1..Len(v) : v[j] = "part"
    BY <1>3, <1>4
  <2> QED BY <1>2, <2>1 DEF Headed
<1>5. CASE E
  <2>1. PICK i \in 1..Len(u) :
               /\ u[i] \in Kinds
               /\ \A j \in 1..Len(u) : j < i => u[j] = "part"
               /\ Len(u) <= i + (IF u[i] \in HasBody THEN Body ELSE 0)
    BY <1>5
  <2>2. CASE i <= Len(v)
    <3>1. i \in 1..Len(v) /\ v[i] = u[i]
      BY <1>1, <1>3, <2>2
    <3>2. \A j \in 1..Len(v) : j < i => v[j] = "part"
      BY <1>3, <2>1
    <3>3. Len(v) <= i + (IF v[i] \in HasBody THEN Body ELSE 0)
      <4>1. Body \in Nat BY NxConnAssumption
      <4>2. Len(v) <= Len(u) /\ Len(u) \in Nat BY <1>1
      <4> QED BY <1>1, <2>1, <3>1, <4>1, <4>2
    <3>4. v[i] \in Kinds
      BY <2>1, <3>1
    <3> QED BY <1>2, <3>1, <3>2, <3>3, <3>4 DEF Headed
  <2>3. CASE ~(i <= Len(v))
    <3>1. ASSUME NEW j \in 1..Len(v) PROVE v[j] = "part"
      <4>1. j < i BY <1>1, <2>1, <2>3
      <4> QED BY <1>3, <2>1, <4>1
    <3> QED BY <1>2, <3>1 DEF Headed
  <2> QED BY <2>2, <2>3
<1> HIDE DEF P, E
<1> QED BY <1>u, <1>4, <1>5

\* A script is the headers of one request and its body.
LEMMA ScriptIsHeaded ==
  ASSUME NEW k \in Kinds
  PROVE  Script(k) \in Seq(Tokens) /\ Headed(<<>> \o Script(k))
<1> DEFINE u == Script(k)
           v == <<"part", k>>
           w == [i \in 1..Body |-> "piece"]
<1>1. Body \in Nat /\ k \in Tokens /\ "part" \in Tokens /\ "piece" \in Tokens
  BY NxConnAssumption DEF Tokens
<1>2. v \in Seq(Tokens) /\ Len(v) = 2 /\ v[1] = "part" /\ v[2] = k
  BY <1>1
<1>3. CASE k = "bad"
  <2>1. u = <<k>>
    BY <1>3 DEF Script
  <2> HIDE DEF u
  <2>2. u \in Seq(Tokens) /\ Len(u) = 1 /\ u[1] = k
    BY <1>1, <2>1
  <2>3. <<>> \o u = u
    BY <2>2, ConcatEmptySeq
  <2>4. 1 \in 1..Len(u) /\ u[1] \in Kinds
    BY <2>2
  <2>5. \A j \in 1..Len(u) : j < 1 => u[j] = "part"
    BY <2>2
  <2>6. Len(u) <= 1 + (IF u[1] \in HasBody THEN Body ELSE 0)
    BY <1>1, <2>2
  <2>7. Headed(u)
    BY <2>4, <2>5, <2>6 DEF Headed
  <2> QED BY <2>2, <2>3, <2>7 DEF u
<1>4. CASE k # "bad"
  <2> DEFINE x == IF k \in HasBody THEN w ELSE <<>>
             n == IF k \in HasBody THEN Body ELSE 0
  <2>1. u = v \o x
    BY <1>4 DEF Script
  <2>2. x \in Seq(Tokens) /\ Len(x) = n /\ n \in Nat
    <3>1. w \in Seq(Tokens) /\ Len(w) = Body
      BY <1>1
    <3>2. <<>> \in Seq(Tokens) /\ Len(<<>>) = 0
      OBVIOUS
    <3> HIDE DEF w
    <3> QED BY <1>1, <3>1, <3>2
  <2> HIDE DEF u, v, x
  <2>3. u \in Seq(Tokens) /\ Len(u) = 2 + n /\ u[1] = "part" /\ u[2] = k
    <3>1. /\ u \in Seq(Tokens) /\ Len(u) = Len(v) + Len(x)
          /\ \A i \in 1..(Len(v) + Len(x)) : u[i] = IF i <= Len(v) THEN v[i] ELSE x[i - Len(v)]
      BY <1>2, <2>1, <2>2, ConcatProperties
    <3>2. 1 \in 1..(Len(v) + Len(x)) /\ 2 \in 1..(Len(v) + Len(x))
      BY <1>2, <2>2
    <3> QED BY <1>2, <2>2, <3>1, <3>2
  <2>4. <<>> \o u = u
    BY <2>3, ConcatEmptySeq
  <2>5. 2 \in 1..Len(u) /\ \A j \in 1..Len(u) : j < 2 => u[j] = "part"
    BY <2>2, <2>3
  <2>6. Len(u) <= 2 + (IF u[2] \in HasBody THEN Body ELSE 0)
    BY <2>2, <2>3
  <2>7. Headed(u)
    BY <2>3, <2>5, <2>6 DEF Headed
  <2> QED BY <2>3, <2>4, <2>7 DEF u
<1> QED BY <1>3, <1>4

-----------------------------------------------------------------------------
(* The invariant, step by step. *)

\* A connection without a client has its types.
LEMMA FreeIsTyped == Typed(Free) /\ PeerTyped(Nobody)
<1>1. Body \in Nat /\ Content \in Nat /\ Room \in Nat
  BY NxConnAssumption
<1>2. /\ DOMAIN Free = Fields /\ Free.st = "free" /\ Free.kind = None /\ Free.keep = TRUE
      /\ Free.is = [x \in Streams |-> FALSE] /\ Free.os = [x \in Streams |-> x \in {"in", "src"}]
      /\ Free.paired = {} /\ Free.q = <<>> /\ Free.pump = None /\ Free.left = 0
      /\ Free.timers = [t \in Timers |-> 0] /\ Free.cont = FALSE /\ Free.chunk = 0 /\ Free.got = 0
      /\ Free.rest = 0 /\ Free.avail = 0 /\ Free.handler = "idle" /\ Free.closing = FALSE
      /\ Free.seen = 0 /\ Free.done = 0 /\ Free.inbox = <<>> /\ Free.room = Room
  BY DEF Free, Fields
<1> DEFINE s == Free
<1>3. /\ DOMAIN s = Fields /\ s.st = "free" /\ s.kind = None /\ s.keep = TRUE
      /\ s.is = [x \in Streams |-> FALSE] /\ s.os = [x \in Streams |-> x \in {"in", "src"}]
      /\ s.paired = {} /\ s.q = <<>> /\ s.pump = None /\ s.left = 0
      /\ s.timers = [t \in Timers |-> 0] /\ s.cont = FALSE /\ s.chunk = 0 /\ s.got = 0
      /\ s.rest = 0 /\ s.avail = 0 /\ s.handler = "idle" /\ s.closing = FALSE
      /\ s.seen = 0 /\ s.done = 0 /\ s.inbox = <<>> /\ s.room = Room
  BY <1>2
<1> HIDE DEF s
<1>4. s.is \in [Streams -> BOOLEAN] /\ s.os \in [Streams -> BOOLEAN] /\ s.timers \in [Timers -> {0, 1}]
  BY <1>3
<1>5. s.got \in 0..Body /\ s.rest \in 0..Content
  BY <1>1, <1>3
<1>6. s.inbox \in Seq(Tokens) /\ s.room \in Nat
  BY <1>1, <1>3
<1>7. s.st \in States /\ s.kind \in Kinds \cup {None} /\ s.pump \in Streams \cup {None} /\ s.paired \subseteq Streams
  BY <1>3 DEF States
<1>8. s.keep \in BOOLEAN /\ s.cont \in BOOLEAN /\ s.closing \in BOOLEAN
  BY <1>3
<1>9. s.left \in Nat /\ s.chunk \in Nat /\ s.avail \in Nat /\ s.seen \in Nat /\ s.done \in Nat
  BY <1>3
<1>10. Typed(s)
  BY <1>3, <1>4, <1>5, <1>6, <1>7, <1>8, <1>9 DEF Typed
<1>11. PeerTyped(Nobody)
  BY DEF PeerTyped, Nobody
<1> QED BY <1>10, <1>11 DEF s

\* A connection begins.
LEMMA AcceptIsGood ==
  ASSUME NEW p, p.script = <<>>
  PROVE  LET t == Set([Free EXCEPT !.st = "waiting", !.paired = {"in", "out"}], "keep")
         IN Good(t) /\ Fed(t, p) /\ t.st = "waiting" /\ t.pump = None
<1> DEFINE a == [Free EXCEPT !.st = "waiting", !.paired = {"in", "out"}]
           t == Set(a, "keep")
           f == Free
<1>1. Typed(f)
  BY FreeIsTyped
<1>2. /\ f.is = [x \in Streams |-> FALSE] /\ f.os = [x \in Streams |-> x \in {"in", "src"}]
      /\ f.q = <<>> /\ f.pump = None /\ f.timers = [x \in Timers |-> 0] /\ f.cont = FALSE /\ f.got = 0
      /\ f.kind = None /\ f.rest = 0 /\ f.avail = 0 /\ f.handler = "idle" /\ f.closing = FALSE
      /\ f.seen = 0 /\ f.done = 0 /\ f.inbox = <<>>
  BY DEF Free
<1>f. f = Free
  OBVIOUS
<1> HIDE DEF f
<1>3. Same(a, f, {"st", "paired"}) /\ a.st = "waiting" /\ a.paired = {"in", "out"}
  BY <1>1, <1>f DEF Typed, Same, Fields
<1> HIDE DEF a
<1>4. Typed(a)
  <2>1. a.st \in States /\ a.paired \subseteq Streams
    BY <1>3 DEF States, Streams
  <2> QED BY <1>1, <1>3, <2>1 DEF Typed, Same, Fields
<1>5. a.timers["keep"] = 0 /\ a.timers["read"] = 0 /\ a.timers["write"] = 0
  BY <1>2, <1>3 DEF Same, Fields, Timers
<1>6. Typed(t) /\ Same(t, a, {"timers"}) /\ t.timers = [a.timers EXCEPT !["keep"] = 1]
  BY <1>4, <1>5, TimersDo DEF Timers
<1> HIDE DEF t
<1>7. a.timers \in [Timers -> {0, 1}]
  BY <1>4 DEF Typed
<1>8. t.timers["keep"] = 1 /\ t.timers["read"] = 0 /\ t.timers["write"] = 0
  BY <1>5, <1>6, <1>7 DEF Timers
<1>9. /\ t.st = "waiting" /\ t.paired = {"in", "out"} /\ t.is = f.is /\ t.os = f.os /\ t.q = <<>> /\ t.pump = None
      /\ t.cont = FALSE /\ t.got = 0 /\ t.kind = None /\ t.rest = 0 /\ t.avail = 0 /\ t.handler = "idle"
      /\ t.closing = FALSE /\ t.seen = 0 /\ t.done = 0 /\ t.inbox = <<>>
  BY <1>2, <1>3, <1>6 DEF Same, Fields
<1>10. /\ \A x \in Streams : t.is[x] = FALSE
       /\ ~t.os["body"]
  <2>1. t.is = [x \in Streams |-> FALSE] /\ t.os = [x \in Streams |-> x \in {"in", "src"}]
    BY <1>2, <1>9
  <2>2. "body" \in Streams /\ "body" \notin {"in", "src"}
    BY DEF Streams
  <2>3. \A x \in Streams : t.is[x] = FALSE
    BY <2>1
  <2>4. ~t.os["body"]
    <3>1. t.os["body"] = ("body" \in {"in", "src"})
      BY <2>1, <2>2
    <3> QED BY <3>1, <2>2
  <2> QED BY <2>3, <2>4
<1>11. In(t) = {} /\ Line(t.q)
  BY <1>9 DEF In, ToSet, Line, Once
<1>12. ~Answering(t)
  BY <1>9 DEF Answering, Sending
<1>13. Queued(t) /\ Woken(t)
  BY <1>10, <1>11 DEF Queued, Woken, WokenBut
<1>14. Timed(t)
  BY <1>8, <1>9, <1>12 DEF Timed, Waits, Timers
<1>15. Counted(t)
  BY <1>9, <1>12 DEF Counted, Busy
<1>16. Asks(t)
  BY <1>9, <1>11 DEF Asks
<1>17. Ports(t)
  BY <1>9, <1>10 DEF Ports
<1>18. Source(t) /\ Filled(t)
  <2>1. "out" \in Streams
    BY DEF Streams
  <2> QED BY <1>9, <1>10, <1>12, <2>1 DEF Source, Filled
<1>19. Whole(t)
  BY <1>9 DEF Whole
<1>20. Fed(t, p)
  <2>1. Headed(<<>> \o <<>>)
    BY DEF Headed
  <2>2. Coming(t, p) = 0
    BY <1>9 DEF Coming
  <2> QED BY <1>9, <1>12, <2>1, <2>2 DEF Fed, Answers
<1> QED BY <1>6, <1>9, <1>13, <1>14, <1>15, <1>16, <1>17, <1>18, <1>19, <1>20
        DEF Good, Nearly, Core, Woken, WokenBut, t, a

\* The invariant holds at the beginning,
LEMMA InitInv == Init => IInv
<1> SUFFICES ASSUME Init PROVE IInv
  OBVIOUS
<1>1. Free.st = "free" /\ Free.pump = None
  BY DEF Free
<1> QED BY <1>1, FreeIsTyped DEF Init, IInv

\* What a step of the loop leaves served.
Served(s) == s = Free \/ (Good(s) /\ Fed(s, peer) /\ s.st # "free")

\* The loop's end of a step: the state is kept, or the connection freed.
LEMMA AfterStepInv ==
  ASSUME PeerTyped(peer), NEW s, Served(s), AfterStep(s)
  PROVE  IInv'
<1>1. Free.st = "free"
  BY DEF Free
<1>2. h' = s /\ peer' = (IF s.st = "free" THEN Nobody ELSE peer) /\ (phase' = "poll" => s.pump = None)
  BY DEF AfterStep
<1>3. CASE s = Free
  <2>1. h' = Free /\ peer' = Nobody
    BY <1>1, <1>2, <1>3
  <2>2. Typed(h') /\ PeerTyped(peer')
    BY <2>1, FreeIsTyped
  <2> QED BY <1>1, <1>2, <1>3, <2>1, <2>2 DEF IInv
<1>4. CASE Good(s) /\ Fed(s, peer) /\ s.st # "free"
  <2>1. h' = s /\ peer' = peer
    BY <1>2, <1>4
  <2>2. Typed(h') /\ Good(h') /\ Fed(h', peer') /\ h'.st # "free"
    BY <1>4, <2>1 DEF Good, Nearly, Core
  <2> QED BY <1>2, <2>1, <2>2 DEF IInv
<1> QED BY <1>3, <1>4 DEF Served

\* The same for a step outside of the loop.
LEMMA OutsideInv ==
  ASSUME NEW s, Good(s), s.st # "free", NEW p, PeerTyped(p), Fed(s, p), h' = s, peer' = p,
         phase' = phase, phase = "poll" => s.pump = None
  PROVE  IInv'
<1>1. Typed(h') /\ Good(h') /\ Fed(h', peer') /\ h'.st # "free" /\ PeerTyped(peer')
  BY DEF Good, Nearly, Core
<1> QED BY <1>1 DEF IInv

\* ... is kept by the loop's steps,
LEMMA NetInv == IInv /\ Net => IInv'
<1> SUFFICES ASSUME IInv, Net PROVE IInv'
  OBVIOUS
<1>1. PeerTyped(peer) /\ (h.st = "free" => h = Free /\ peer = Nobody) /\ (h.st # "free" => Good(h) /\ Fed(h, peer))
      /\ (phase = "poll" => h.pump = None) /\ Typed(h)
  BY DEF IInv
<1>2. Free.q = <<>> /\ Free.pump = None /\ Nobody.edges = {}
  BY DEF Free, Nobody
<1>3. CASE DeliverMessage
  <2>1. PICK s \in OnMessage([h EXCEPT !.q = Tail(@)], Head(h.q)) : AfterStep(s)
    BY <1>3 DEF DeliverMessage
  <2>2. h.pump = None /\ h.q # <<>> /\ Head(h.q) \in Messages /\ h.st # "free"
    BY <1>1, <1>2, <1>3 DEF DeliverMessage
  <2>3. Served(s)
    BY <1>1, <2>1, <2>2, MessageIsGood DEF Served
  <2> QED BY <1>1, <2>1, <2>3, AfterStepInv
<1>4. CASE DeliverStream
  <2> DEFINE s == [h EXCEPT !.q = Tail(@), !.pump = Head(h.q), !.left = MaxPump]
  <2>1. h.pump = None /\ h.q # <<>> /\ Head(h.q) \in Streams /\ h.st # "free" /\ AfterStep(s)
    BY <1>1, <1>2, <1>4 DEF DeliverStream
  <2>2. Good(s) /\ Fed(s, peer) /\ s.st = h.st
    BY <1>1, <2>1, DeliveryIsGood
  <2> HIDE DEF s
  <2>3. Served(s)
    BY <2>1, <2>2 DEF Served
  <2> QED BY <1>1, <2>1, <2>3, AfterStepInv
<1>5. CASE Pump
  <2> DEFINE x == h.pump
             stopped == [h EXCEPT !.pump = None, !.left = 0]
             round == [h EXCEPT !.left = @ - 1]
  <2>1. /\ x # None
        /\ IF ~(x \in h.paired /\ h.is[x] /\ h.os[x]) THEN AfterStep(stopped)
           ELSE IF h.left = 0 THEN AfterStep(Link(stopped, x))
           ELSE \E s \in Moves(x, round) : AfterStep(s)
    BY <1>5 DEF Pump, Relinks
  <2>2. h.st # "free" /\ x \in Streams
    BY <1>1, <1>2, <2>1 DEF Typed
  <2>3. /\ ~(x \in h.paired /\ h.is[x] /\ h.os[x]) => Good(stopped) /\ Fed(stopped, peer) /\ stopped.st = h.st
        /\ x \in h.paired => Good(Link(stopped, x)) /\ Fed(Link(stopped, x), peer) /\ Link(stopped, x).st = h.st
    BY <1>1, <2>1, <2>2, StopIsGood
  <2>4. h.left # 0 => Good(round) /\ Fed(round, peer) /\ Same(round, h, {"left"})
    BY <1>1, <2>2, RoundIsGood
  <2> HIDE DEF stopped, round
  <2>5. CASE ~(x \in h.paired /\ h.is[x] /\ h.os[x])
    <3>1. Served(stopped) /\ AfterStep(stopped)
      BY <2>1, <2>2, <2>3, <2>5 DEF Served
    <3> QED BY <1>1, <3>1, AfterStepInv
  <2>6. CASE (x \in h.paired /\ h.is[x] /\ h.os[x]) /\ h.left = 0
    <3>1. Served(Link(stopped, x)) /\ AfterStep(Link(stopped, x))
      BY <2>1, <2>2, <2>3, <2>6 DEF Served
    <3> QED BY <1>1, <3>1, AfterStepInv
  <2>7. CASE (x \in h.paired /\ h.is[x] /\ h.os[x]) /\ h.left # 0
    <3>1. PICK s \in Moves(x, round) : AfterStep(s)
      BY <2>1, <2>7
    <3>2. round.st # "free" /\ round.pump = x /\ x \in round.paired /\ round.is[x] /\ round.os[x]
      BY <2>2, <2>4, <2>7 DEF Same, Fields
    <3>3. Good(s) /\ Fed(s, peer) /\ s.st # "free"
      BY <1>1, <2>2, <2>4, <2>7, <3>1, <3>2, MoveIsGood
    <3>4. Served(s)
      BY <3>3 DEF Served
    <3> QED BY <1>1, <3>1, <3>4, AfterStepInv
  <2> QED BY <2>5, <2>6, <2>7
<1>6. CASE Emit
  <2> DEFINE r == IF h.inbox # <<>> \/ peer.gone THEN IsReady(h, "in") ELSE h
             w == IF h.room > 0 THEN OsReady(r, "out") ELSE r
             t == IF peer.gone THEN Publish(w, "error") ELSE w
  <2>1. phase = "poll" /\ peer.edges # {} /\ h' = t /\ peer' = [peer EXCEPT !.edges = {}] /\ phase' = phase
    BY <1>6 DEF Emit
  <2>2. h.st # "free" /\ h.pump = None /\ Good(h) /\ Fed(h, peer)
    BY <1>1, <1>2, <2>1
  <2>3. Good(r) /\ Fed(r, peer) /\ r.pump = None /\ r.st = h.st
    BY <2>2, InReadyIsGood
  <2> HIDE DEF r
  <2>4. Good(w) /\ Fed(w, peer) /\ w.pump = None /\ w.st = h.st
    BY <2>3, RoomIsGood
  <2> HIDE DEF w
  <2>5. Good(t) /\ Fed(t, peer) /\ t.pump = None /\ t.st = h.st
    BY <2>4, PublishIsGood
  <2> HIDE DEF t
  <2>6. PeerTyped(peer') /\ peer'.script = peer.script /\ peer'.asked = peer.asked
    BY <1>1, <2>1 DEF PeerTyped
  <2>7. Fed(t, peer')
    BY <2>5, <2>6 DEF Fed, Coming
  <2> QED BY <2>1, <2>2, <2>5, <2>6, <2>7, OutsideInv
<1> QED BY <1>3, <1>4, <1>5, <1>6 DEF Net

\* ... by a timer that expires,
LEMMA TimingInv == IInv /\ Timing => IInv'
<1> SUFFICES ASSUME IInv, NEW t \in Timers, Timeout(t) PROVE IInv'
  BY DEF Timing
<1> DEFINE s == Publish([h EXCEPT !.timers[t] = 0], "drop")
<1>1. phase = "poll" /\ h.timers[t] > 0 /\ h' = s /\ peer' = peer /\ phase' = phase
  BY DEF Timeout
<1>2. Free.timers = [x \in Timers |-> 0]
  BY DEF Free
<1>3. h.st # "free"
  BY <1>1, <1>2 DEF IInv
<1>4. Good(h) /\ Fed(h, peer) /\ h.pump = None /\ PeerTyped(peer)
  BY <1>1, <1>3 DEF IInv
<1>5. Good(s) /\ Fed(s, peer) /\ s.pump = h.pump /\ s.st = h.st
  BY <1>4, TimeoutIsGood
<1> HIDE DEF s
<1> QED BY <1>1, <1>3, <1>4, <1>5, OutsideInv

\* ... by workers, handlers and contents,
LEMMA BackendInv == IInv /\ Backend => IInv'
<1> SUFFICES ASSUME IInv, Backend PROVE IInv'
  OBVIOUS
<1>1. PeerTyped(peer) /\ (h.st = "free" => h = Free) /\ (h.st # "free" => Good(h) /\ Fed(h, peer))
      /\ (phase = "poll" => h.pump = None)
  BY DEF IInv
<1>2. Free.handler = "idle"
  BY DEF Free
<1>3. CASE WorkerDone
  <2> DEFINE s == Publish(h, "worker")
  <2>1. phase = "poll" /\ h.handler = "worker" /\ "worker" \notin In(h) /\ h' = s /\ peer' = peer /\ phase' = phase
    BY <1>3 DEF WorkerDone, Linked, In
  <2>2. h.st # "free" /\ Good(h) /\ Fed(h, peer)
    BY <1>1, <1>2, <2>1
  <2>3. Good(s) /\ Fed(s, peer) /\ s.pump = h.pump /\ s.st = h.st
    BY <2>1, <2>2, WorkerIsGood
  <2> HIDE DEF s
  <2> QED BY <1>1, <2>1, <2>2, <2>3, OutsideInv
<1>4. CASE Later
  <2>1. PICK c \in Contents : h' = StartSending(h, c, TRUE)
    BY <1>4 DEF Later
  <2>2. phase = "poll" /\ h.handler = "later" /\ peer' = peer /\ phase' = phase
    BY <1>4 DEF Later
  <2>3. h.st # "free" /\ Good(h) /\ Fed(h, peer) /\ h.pump = None
    BY <1>1, <1>2, <2>2
  <2>4. h.st = "handling" /\ {"received", "whole", "worker"} \cap In(h) = {} /\ ~h.closing
    BY <2>2, <2>3 DEF Good, Nearly, Core, Asks
  <2>5. Good(h') /\ Fed(h', peer) /\ h'.st # "free" /\ h'.pump = None
    BY <1>1, <2>1, <2>3, <2>4, AnswerIsGood
  <2>6. Typed(h') /\ PeerTyped(peer') /\ Fed(h', peer')
    BY <1>1, <2>2, <2>5 DEF Good, Nearly, Core
  <2> QED BY <2>5, <2>6 DEF IInv
<1>5. CASE Arrives
  <2> DEFINE s == IsReady([h EXCEPT !.avail = @ + 1], "src")
  <2>1. phase = "poll" /\ h.st \in Sending /\ h.avail < h.rest /\ h' = s /\ peer' = peer /\ phase' = phase
    BY <1>5 DEF Arrives
  <2>2. h.st # "free"
    BY <2>1 DEF Sending
  <2>3. Good(s) /\ Fed(s, peer) /\ s.pump = None /\ s.st = h.st
    BY <1>1, <2>1, <2>2, PieceIsGood
  <2> HIDE DEF s
  <2> QED BY <1>1, <2>1, <2>2, <2>3, OutsideInv
<1> QED BY <1>3, <1>4, <1>5 DEF Backend

\* ... by the client,
LEMMA ClientInv == IInv /\ Client => IInv'
<1> SUFFICES ASSUME IInv, Client PROVE IInv'
  OBVIOUS
<1>1. PeerTyped(peer) /\ (h.st # "free" => Good(h) /\ Fed(h, peer)) /\ (phase = "poll" => h.pump = None) /\ Typed(h)
  BY DEF IInv
<1>2. CASE Accept
  <2> DEFINE s == Set([Free EXCEPT !.st = "waiting", !.paired = {"in", "out"}], "keep")
  <2>1. h' = s /\ peer' = [Nobody EXCEPT !.gone = FALSE, !.edges = {"out"}] /\ phase' = phase
    BY <1>2 DEF Accept
  <2>2. peer'.script = <<>> /\ PeerTyped(peer')
    BY <2>1 DEF Nobody, PeerTyped
  <2>3. Good(s) /\ Fed(s, peer') /\ s.st = "waiting" /\ s.pump = None
    BY <2>2, AcceptIsGood
  <2> HIDE DEF s
  <2> QED BY <2>1, <2>2, <2>3, OutsideInv
<1>3. CASE Ask
  <2>1. PICK k \in Kinds : peer' = [peer EXCEPT !.script = Script(k), !.asked = @ + 1]
    BY <1>3 DEF Ask
  <2>2. h.st # "free" /\ peer.script = <<>> /\ peer.asked = h.done /\ h' = h /\ phase' = phase
    BY <1>3 DEF Ask, Alive
  <2>3. Good(h) /\ Fed(h, peer)
    BY <1>1, <2>2
  <2>4. Script(k) \in Seq(Tokens) /\ Headed(<<>> \o Script(k))
    BY ScriptIsHeaded
  <2>5. peer'.script = Script(k) /\ peer'.asked = peer.asked + 1 /\ PeerTyped(peer') /\ peer'.asked # h.done
    <3>1. peer.asked \in Nat
      BY <1>1 DEF PeerTyped
    <3> QED BY <1>1, <2>1, <2>2, <2>4, <3>1 DEF PeerTyped
  <2>6. h.st # "body" /\ ~Answers(h)
    BY <2>2, <2>3 DEF Fed
  <2>7. Reads(h) => h.inbox = <<>>
    <3>1. Reads(h) => Coming(h, peer) = 0
      BY <2>2, <2>3 DEF Fed
    <3>2. h.inbox \in Seq(Tokens)
      BY <1>1 DEF Typed
    <3> DEFINE a == Len(h.inbox)
    <3>3. a \in Nat /\ Coming(h, peer) = a + 0
      BY <2>2, <3>2, LenProperties DEF Coming
    <3>4. a = 0 => h.inbox = <<>>
      BY <3>2, EmptySeq
    <3> HIDE DEF a
    <3> QED BY <3>1, <3>3, <3>4
  <2>8. Fed(h, peer')
    BY <2>4, <2>5, <2>6, <2>7 DEF Fed
  <2> QED BY <1>1, <2>2, <2>3, <2>5, <2>8, OutsideInv
<1>4. CASE Send
  <2> DEFINE s == [h EXCEPT !.inbox = Append(@, Head(peer.script))]
  <2>1. /\ h.st # "free" /\ peer.script # <<>> /\ h' = s /\ phase' = phase
        /\ peer' = [peer EXCEPT !.script = Tail(@), !.edges = @ \cup {"in"}]
    BY <1>4 DEF Send, Alive
  <2>2. peer'.script = Tail(peer.script) /\ peer'.asked = peer.asked /\ PeerTyped(peer')
    <3>1. Tail(peer.script) \in Seq(Tokens)
      BY <1>1, <2>1 DEF PeerTyped
    <3> QED BY <1>1, <2>1, <3>1 DEF PeerTyped
  <2>3. Good(s) /\ Fed(s, peer') /\ s.pump = h.pump /\ s.st = h.st
    BY <1>1, <2>1, <2>2, SendIsGood
  <2> HIDE DEF s
  <2> QED BY <1>1, <2>1, <2>2, <2>3, OutsideInv
<1>5. CASE Drain
  <2> DEFINE s == [h EXCEPT !.room = Room]
  <2>1. /\ h.st # "free" /\ h' = s /\ phase' = phase
        /\ peer' = [peer EXCEPT !.edges = IF h.os["out"] THEN @ ELSE @ \cup {"out"}]
    BY <1>5 DEF Drain, Alive
  <2>2. Good(h) /\ Fed(h, peer)
    BY <1>1, <2>1
  <2>3. Same(s, h, {"room"}) /\ s.room = Room
    BY <1>1 DEF Typed, Same, Fields
  <2> HIDE DEF s
  <2>4. Typed(s) /\ s.q = h.q /\ In(s) = In(h)
    BY <1>1, <2>3, NxConnAssumption DEF Typed, Same, Fields, In
  <2>5. Queued(s) /\ Woken(s) /\ Timed(s)
    BY <2>2, <2>3, <2>4 DEF Good, Nearly, Core, Queued, Woken, WokenBut, Timed, Waits, Answering, Same, Fields
  <2>6. "worker" \in In(s) => h.handler = "worker"
    BY <2>2, <2>4 DEF Good, Nearly, Core, Asks
  <2>7. Same(s, h, {"q", "timers", "pump", "left", "room"}) /\ s.st = h.st /\ s.pump = h.pump
    BY <2>3 DEF Same, Fields
  <2>8. Good(s) /\ Fed(s, peer)
    BY <2>2, <2>4, <2>5, <2>6, <2>7, LineIsGood
  <2>9. peer'.script = peer.script /\ peer'.asked = peer.asked /\ PeerTyped(peer')
    BY <1>1, <2>1 DEF PeerTyped
  <2>10. Fed(s, peer')
    BY <2>8, <2>9 DEF Fed, Coming
  <2> QED BY <1>1, <2>1, <2>7, <2>8, <2>9, <2>10, OutsideInv
<1>6. CASE Leave
  <2>1. /\ h.st # "free" /\ h' = h /\ phase' = phase
        /\ peer' = [peer EXCEPT !.gone = TRUE, !.script = <<>>, !.edges = @ \cup {"hup"}]
    BY <1>6 DEF Leave, Alive
  <2>2. Good(h) /\ Fed(h, peer)
    BY <1>1, <2>1
  <2>3. peer'.script = <<>> /\ peer'.asked = peer.asked /\ PeerTyped(peer')
    BY <1>1, <2>1 DEF PeerTyped
  <2>4. h.inbox \in Seq(Tokens) /\ peer.script \in Seq(Tokens) /\ h.chunk \in Nat /\ h.got \in 0..Body
    BY <1>1 DEF Typed, PeerTyped
  <2> DEFINE a == Len(h.inbox)
             b == Len(peer.script)
  <2>5. a \in Nat /\ b \in Nat /\ Coming(h, peer) = a + b /\ Coming(h, peer') = a + 0
    BY <2>3, <2>4, LenProperties DEF Coming
  <2> HIDE DEF a, b
  <2>6. Coming(h, peer') \in Nat /\ Coming(h, peer') <= Coming(h, peer) /\ Coming(h, peer) \in Nat
    BY <2>5
  <2>7. Headed(h.inbox \o peer.script) => Headed(h.inbox \o peer'.script)
    BY <2>3, <2>4, HeadedPrefix
  <2>8. h.st = "body" => h.chunk + Coming(h, peer') <= Body - h.got
    <3>1. h.st = "body" => h.chunk + Coming(h, peer) <= Body - h.got
      BY <2>2 DEF Fed
    <3>2. Body \in Nat
      BY NxConnAssumption
    <3> QED BY <2>4, <2>6, <3>1, <3>2
  <2>9. Coming(h, peer) = 0 => Coming(h, peer') = 0
    BY <2>6
  <2>10. Fed(h, peer')
    BY <2>2, <2>3, <2>7, <2>8, <2>9 DEF Fed
  <2> QED BY <1>1, <2>1, <2>2, <2>3, <2>10, OutsideInv
<1> QED BY <1>2, <1>3, <1>4, <1>5, <1>6 DEF Client

\* ... and so by every step.
LEMMA NextInv == IInv /\ [Next]_vars => IInv'
<1> SUFFICES ASSUME IInv, [Next]_vars PROVE IInv'
  OBVIOUS
<1>1. CASE UNCHANGED vars
  BY <1>1 DEF vars, IInv
<1> QED BY <1>1, NetInv, TimingInv, BackendInv, ClientInv DEF Next

\* What the invariant says of the connection is what ConnSound promises.
LEMMA InvImpliesSound == IInv => ConnSound
<1> SUFFICES ASSUME IInv PROVE ConnSound
  OBVIOUS
<1>1. Typed(h)
  BY DEF IInv
<1>2. CASE h.st = "free"
  <2>1. h = Free
    BY <1>2 DEF IInv
  <2>2. /\ Free.q = <<>> /\ Free.paired = {} /\ Free.st = "free" /\ Free.seen = 0 /\ Free.done = 0
        /\ Free.handler = "idle" /\ Free.kind = None /\ Free.timers = [t \in Timers |-> 0]
    BY DEF Free
  <2>3. ToSet(Free.q) = {} /\ DOMAIN Free.q = {}
    BY <2>2 DEF ToSet
  <2>4. TypeOK
    BY <1>1, <2>1, <2>3 DEF TypeOK, Typed, States
  <2>5. NoLostWakeup
    BY <2>1, <2>2 DEF NoLostWakeup
  <2>6. TimersCover
    BY <2>1, <2>2 DEF TimersCover, Sending
  <2>7. OneAnswer
    BY <2>1, <2>2 DEF OneAnswer, Sending
  <2>8. BodyWhole
    BY <2>1, <2>2 DEF BodyWhole, None
  <2> QED BY <2>4, <2>5, <2>6, <2>7, <2>8 DEF ConnSound
<1>3. CASE h.st # "free"
  <2>1. Good(h)
    BY <1>3 DEF IInv
  <2>2. Queued(h) /\ Woken(h) /\ Timed(h) /\ Counted(h) /\ Asks(h) /\ Whole(h)
    BY <2>1 DEF Good, Nearly, Core
  <2>3. NoLostWakeup
    BY <1>1, <2>2 DEF NoLostWakeup, Woken, WokenBut, Linked, In, Typed
  <2>4. BodyWhole
    BY <1>1, <2>2 DEF BodyWhole, Whole, Typed, Kinds, None
  <2>5. OneAnswer
    <3>1. h.seen \in Nat /\ h.done \in Nat
      BY <1>1 DEF Typed
    <3>2. Busy(h) <=> h.st \in {"body", "handling"} \cup Sending /\ ~Linked(h, "complete")
      BY <2>2 DEF Busy, Answering, Asks, Linked, In, Sending
    <3> QED BY <2>2, <3>1, <3>2 DEF OneAnswer, Counted
  <2>6. TypeOK
    BY <1>1, <2>2 DEF TypeOK, Typed, States, Queued, Line, Once, Streams
  <2>7. TimersCover
    <3> SUFFICES ASSUME h.q = <<>>
                 PROVE  {t \in Timers : h.timers[t] > 0} =
                          CASE h.st = "waiting" -> {"keep"}
                            [] h.st \in {"headers", "body"} -> {"read"}
                            [] h.st \in Sending -> {"write"}
                            [] OTHER -> {}
      BY DEF TimersCover
    <3>1. In(h) = {}
      BY DEF In, ToSet
    <3>2. \A t \in Timers : h.timers[t] > 0 <=> Waits(h, t)
      BY <2>2, <3>1 DEF Timed
    <3>3. h.st \in States /\ (Answering(h) <=> h.st \in Sending)
      BY <1>1, <3>1 DEF Typed, Answering
    <3>4. {t \in Timers : h.timers[t] > 0} = {t \in Timers : Waits(h, t)}
      BY <3>2
    <3> QED BY <3>3, <3>4 DEF Waits, Timers, States, Sending
  <2> QED BY <2>3, <2>4, <2>5, <2>6, <2>7 DEF ConnSound
<1> QED BY <1>2, <1>3

\* Whatever the client, the source of the content and the workers do, and in
\* whatever order the loop is woken: no wake-up of a stream is lost, a
\* connection that waits has the timer of what it waits for, each request is
\* answered once, and its handler has its whole body.
THEOREM ConnIsSound == Spec => []ConnSound
<1>1. Spec => []IInv
  BY InitInv, NextInv, PTL DEF Spec
<1>2. IInv => ConnSound
  BY InvImpliesSound
<1> QED BY <1>1, <1>2, PTL

====
