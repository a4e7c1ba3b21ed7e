--------------------------- MODULE NxServerProofs ---------------------------
(***************************************************************************)
(* Proofs about NxServer, for any set of connections and workers, any      *)
(* number of threads in the pool and any limits.                           *)
(*                                                                         *)
(* That the end of the server reaches every worker is not inductive: a     *)
(* worker must be in the queue before it can wait, for the one who wakes   *)
(* takes it from there.  That no connection is freed under its worker      *)
(* needs what the network thread knows of a job, and when: through the     *)
(* subscription, the message, and its spin.                                *)
(***************************************************************************)
EXTENDS NxServer, TLAPS

\* The part of the type invariant that the wakeups need.
Types == /\ worker \in [Worker -> WorkerType]
         /\ queue \in Seq(Worker)
         /\ stop \in BOOLEAN

\* A worker waits only while it is in the queue; and one that is about to
\* wait is in it as well, or sees at its test that it has a job, was retired or
\* that the server stops.
InQueue == \A w \in Worker :
             /\ worker[w].at = "wait" => w \in ToSet(queue)
             /\ worker[w].at = "check" =>
                  w \in ToSet(queue) \/ worker[w].job # None \/ worker[w].shut \/ stop

\* After the queue was emptied for the last time nothing is put into it.
EmptyAtEnd == stop => queue = <<>>

IInv == Types /\ InQueue /\ EmptyAtEnd

-----------------------------------------------------------------------------
(* The queue *)

LEMMA SetOfTail == ASSUME NEW s \in Seq(Worker), s # <<>>, NEW w \in ToSet(s)
                   PROVE  w = Head(s) \/ w \in ToSet(Tail(s))
<1>1. PICK i \in DOMAIN s : w = s[i]
  BY DEF ToSet
<1>2. CASE i = 1
  BY <1>1, <1>2
<1>3. CASE i # 1
  <2>1. i - 1 \in DOMAIN Tail(s) /\ Tail(s)[i - 1] = s[i]
    BY <1>3
  <2> QED
    BY <1>1, <2>1 DEF ToSet
<1> QED
  BY <1>2, <1>3

LEMMA SetOfAppend == ASSUME NEW s \in Seq(Worker), NEW w \in Worker
                     PROVE  /\ \A v \in ToSet(s) : v \in ToSet(Append(s, w))
                            /\ w \in ToSet(Append(s, w))
<1>1. ASSUME NEW v \in ToSet(s) PROVE v \in ToSet(Append(s, w))
  <2>1. PICK i \in DOMAIN s : v = s[i]
    BY DEF ToSet
  <2>2. i \in DOMAIN Append(s, w) /\ Append(s, w)[i] = s[i]
    OBVIOUS
  <2> QED
    BY <2>1, <2>2 DEF ToSet
<1>2. Len(s) + 1 \in DOMAIN Append(s, w) /\ Append(s, w)[Len(s) + 1] = w
  OBVIOUS
<1>3. w \in ToSet(Append(s, w))
  BY <1>2 DEF ToSet
<1> QED
  BY <1>1, <1>3

LEMMA SetOfRest == ASSUME NEW s \in Seq(Worker), NEW n \in Nat, NEW w \in ToSet(s)
                   PROVE  w \in {s[i] : i \in 1..n} \/ w \in ToSet(SubSeq(s, n + 1, Len(s)))
<1>1. PICK i \in DOMAIN s : w = s[i]
  BY DEF ToSet
<1>2. CASE i <= n
  BY <1>1, <1>2
<1>3. CASE i > n
  <2>1. i - n \in DOMAIN SubSeq(s, n + 1, Len(s)) /\ SubSeq(s, n + 1, Len(s))[i - n] = s[i]
    BY <1>3
  <2> QED
    BY <1>1, <2>1 DEF ToSet
<1> QED
  BY <1>2, <1>3

LEMMA TailInjective == ASSUME NEW s \in Seq(Worker), s # <<>>, IsInjective(s)
                       PROVE  /\ IsInjective(Tail(s))
                              /\ ToSet(Tail(s)) \subseteq ToSet(s)
                              /\ Head(s) \notin ToSet(Tail(s))
<1>1. \A i \in DOMAIN Tail(s) : i + 1 \in DOMAIN s /\ Tail(s)[i] = s[i + 1]
  OBVIOUS
<1>2. 1 \in DOMAIN s /\ Head(s) = s[1] /\ \A i \in DOMAIN Tail(s) : i + 1 # 1 /\ i \in Int
  OBVIOUS
<1>3. IsInjective(Tail(s))
  <2> SUFFICES ASSUME NEW a \in DOMAIN Tail(s), NEW b \in DOMAIN Tail(s), Tail(s)[a] = Tail(s)[b]
               PROVE  a = b
    BY DEF IsInjective
  <2>1. a + 1 = b + 1
    BY <1>1 DEF IsInjective
  <2> QED
    BY <2>1, <1>2
<1>4. ToSet(Tail(s)) \subseteq ToSet(s)
  BY <1>1 DEF ToSet
<1>5. Head(s) \notin ToSet(Tail(s))
  BY <1>1, <1>2 DEF IsInjective, ToSet
<1> QED
  BY <1>3, <1>4, <1>5

LEMMA AppendSet == ASSUME NEW s \in Seq(Worker), NEW w \in Worker
                   PROVE  ToSet(Append(s, w)) = ToSet(s) \cup {w}
<1>1. \A i \in DOMAIN Append(s, w) : \/ i \in DOMAIN s /\ Append(s, w)[i] = s[i]
                                     \/ i = Len(s) + 1 /\ Append(s, w)[i] = w
  OBVIOUS
<1>2. ToSet(Append(s, w)) \subseteq ToSet(s) \cup {w}
  BY <1>1 DEF ToSet
<1>3. ToSet(s) \cup {w} \subseteq ToSet(Append(s, w))
  BY SetOfAppend
<1> QED
  BY <1>2, <1>3

LEMMA InjectiveAppend == ASSUME NEW s \in Seq(Worker), NEW w \in Worker,
                                IsInjective(s), w \notin ToSet(s)
                         PROVE  IsInjective(Append(s, w))
<1> SUFFICES ASSUME NEW a \in DOMAIN Append(s, w), NEW b \in DOMAIN Append(s, w),
                    Append(s, w)[a] = Append(s, w)[b]
             PROVE  a = b
  BY DEF IsInjective
<1>1. \A i \in DOMAIN Append(s, w) : \/ i \in DOMAIN s /\ Append(s, w)[i] = s[i]
                                     \/ i = Len(s) + 1 /\ Append(s, w)[i] = w
  OBVIOUS
<1>2. \A i \in DOMAIN s : s[i] # w
  BY DEF ToSet
<1> QED
  BY <1>1, <1>2 DEF IsInjective

LEMMA RestInjective == ASSUME NEW s \in Seq(Worker), IsInjective(s), NEW n \in Nat, n <= Len(s)
                       PROVE  LET r == SubSeq(s, n + 1, Len(s)) IN
                              /\ IsInjective(r)
                              /\ ToSet(r) \subseteq ToSet(s)
                              /\ ToSet(r) \cap {s[i] : i \in 1..n} = {}
<1> DEFINE r == SubSeq(s, n + 1, Len(s))
<1>1. \A i \in DOMAIN r : i \in Int /\ i > 0 /\ i + n \in DOMAIN s /\ r[i] = s[i + n]
  OBVIOUS
<1>2. \A i \in 1..n : i \in DOMAIN s
  OBVIOUS
<1> HIDE DEF r
<1>3. IsInjective(r)
  <2> SUFFICES ASSUME NEW a \in DOMAIN r, NEW b \in DOMAIN r, r[a] = r[b]
               PROVE  a = b
    BY DEF IsInjective
  <2>1. a + n = b + n
    BY <1>1 DEF IsInjective
  <2> QED
    BY <2>1, <1>1
<1>4. ToSet(r) \subseteq ToSet(s)
  BY <1>1 DEF ToSet
<1>5. ToSet(r) \cap {s[i] : i \in 1..n} = {}
  <2> SUFFICES ASSUME NEW a \in DOMAIN r, NEW b \in 1..n, r[a] = s[b]
               PROVE  FALSE
    BY DEF ToSet
  <2>1. a + n = b
    BY <1>1, <1>2 DEF IsInjective
  <2> QED
    BY <2>1, <1>1
<1> QED
  BY <1>3, <1>4, <1>5 DEF r

-----------------------------------------------------------------------------
(* The invariant *)

\* What leaves workers, queue and stop alone leaves the invariant alone.
Same == UNCHANGED <<worker, queue, stop>>

LEMMA SameIInv == IInv /\ Same => IInv'
  BY DEF IInv, Same, Types, InQueue, EmptyAtEnd

LEMMA InitIInv == Init => IInv
<1> SUFFICES ASSUME Init PROVE IInv
  OBVIOUS
<1>1. NoWorker \in WorkerType
  BY DEF NoWorker, WorkerType
<1>2. worker \in [Worker -> WorkerType]
  BY <1>1 DEF Init
<1>3. /\ queue \in Seq(Worker)
      /\ stop \in BOOLEAN
  <2>1. <<>> \in Seq(Worker)
    OBVIOUS
  <2>2. queue = <<>> /\ stop = FALSE
    BY DEF Init
  <2> QED
    BY <2>1, <2>2
<1>4. \A w \in Worker : worker[w].at = "none"
  BY DEF Init, NoWorker
<1> QED
  BY <1>2, <1>3, <1>4 DEF Init, IInv, Types, InQueue, EmptyAtEnd

\* A worker that is given a job may leave the queue.
LEMMA GivenJob == ASSUME IInv, ~stop, NEW w \in Worker, NEW c \in Conn,
                         worker' = Started(worker, w, c),
                         queue' \in Seq(Worker),
                         \A v \in ToSet(queue) : v = w \/ v \in ToSet(queue'),
                         stop' = stop
                  PROVE  IInv'
<1> USE DEF IInv
<1>1. c # None
  BY NxServerAssumption
<1>2. worker' \in [Worker -> WorkerType]
  BY ZenonT(40) DEF Types, Started, WorkerType
<1>3. \A v \in Worker : v # w => worker'[v] = worker[v]
  BY DEF Types, Started
<1>4. worker'[w].job = c /\ worker'[w].at # "wait"
  BY DEF Types, Started, WorkerType
<1>5. InQueue'
  BY <1>1, <1>3, <1>4 DEF InQueue
<1> QED
  BY <1>2, <1>5 DEF Types, EmptyAtEnd

LEMMA StepIInv == IInv /\ [Next]_vars => IInv'
<1> SUFFICES ASSUME IInv, [Next]_vars PROVE IInv'
  OBVIOUS
<1>1. ASSUME NEW c \in Conn, Reuse(c) PROVE IInv'
  <2>1. Head(queue) \in Worker /\ Tail(queue) \in Seq(Worker)
    BY <1>1 DEF Reuse, IInv, Types
  <2>2. \A v \in ToSet(queue) : v = Head(queue) \/ v \in ToSet(queue')
    BY <1>1, SetOfTail DEF Reuse, IInv, Types
  <2> QED
    BY <1>1, <2>1, <2>2, GivenJob DEF Reuse, CanDispatch, Dispatch
<1>2. ASSUME NEW c \in Conn, NEW w \in Worker, Create(c, w) PROVE IInv'
  BY <1>2, GivenJob DEF Create, CanDispatch, Dispatch, IInv, Types
<1>3. ASSUME NEW w \in Worker, Emit(w) PROVE IInv'
  <2>1. worker' \in [Worker -> WorkerType]
    BY <1>3 DEF Emit, IInv, Types, WorkerType
  <2>2. \A v \in Worker : /\ worker'[v].at = worker[v].at /\ worker'[v].job = worker[v].job
                          /\ worker'[v].shut = worker[v].shut
    BY <1>3 DEF Emit, IInv, Types, WorkerType
  <2> QED
    BY <1>3, <2>1, <2>2 DEF Emit, IInv, Types, InQueue, EmptyAtEnd
<1>4. ASSUME NEW w \in Worker, Check(w) PROVE IInv'
  <2>1. worker' \in [Worker -> WorkerType]
    BY <1>4 DEF Check, IInv, Types, WorkerType
  <2>2. \A v \in Worker : v # w => worker'[v] = worker[v]
    BY <1>4 DEF Check, IInv, Types
  <2>3. worker'[w].at \in {"run", "dead"} \/ (worker'[w].at = "wait" /\ w \in ToSet(queue))
    BY <1>4 DEF Check, IInv, Types, InQueue, WorkerType
  <2> QED
    BY <1>4, <2>1, <2>2, <2>3 DEF Check, IInv, Types, InQueue, EmptyAtEnd
<1>5. ASSUME NEW w \in Worker, Run(w) PROVE IInv'
  <2>1. worker' \in [Worker -> WorkerType]
    <3>1. (worker[w].efs \/ Tells(w)) = TRUE
      BY DEF Tells
    <3>2. worker' = [worker EXCEPT ![w].at = "told", ![w].job = None, ![w].efs = TRUE]
      BY <1>5, <3>1 DEF Run
    <3> QED
      BY ZenonT(40), <3>2 DEF IInv, Types, WorkerType
  <2>2. \A v \in Worker : v # w => worker'[v] = worker[v]
    BY <1>5 DEF Run, IInv, Types
  <2>3. worker'[w].at = "told"
    BY <1>5 DEF Run, IInv, Types, WorkerType
  <2> QED
    BY <1>5, <2>1, <2>2, <2>3 DEF Run, IInv, Types, InQueue, EmptyAtEnd
<1>6. ASSUME NEW w \in Worker, Requeue(w) PROVE IInv'
  <2>1. worker' \in [Worker -> WorkerType]
    BY <1>6 DEF Requeue, IInv, Types, WorkerType
  <2>2. \A v \in Worker : v # w => worker'[v] = worker[v]
    BY <1>6 DEF Requeue, IInv, Types
  <2>3. \/ queue' = queue /\ worker'[w].at = "dead"
        \/ ~stop /\ queue' = Append(queue, w) /\ worker'[w].at = "check"
    BY <1>6 DEF Requeue, IInv, Types, WorkerType
  <2>4. stop' = stop
    BY <1>6 DEF Requeue
  <2>5. CASE queue' = queue /\ worker'[w].at = "dead"
    BY <2>1, <2>2, <2>4, <2>5 DEF IInv, Types, InQueue, EmptyAtEnd
  <2>6. CASE ~stop /\ queue' = Append(queue, w) /\ worker'[w].at = "check"
    <3>1. w \in ToSet(queue') /\ \A v \in ToSet(queue) : v \in ToSet(queue')
      BY <2>6, SetOfAppend DEF IInv, Types
    <3> QED
      BY <2>1, <2>2, <2>4, <2>6, <3>1 DEF IInv, Types, InQueue, EmptyAtEnd
  <2> QED
    BY <2>3, <2>5, <2>6
<1>7. CASE GC
  <2> DEFINE n == IF Len(queue) > MaxIdle THEN (Len(queue) - MaxIdle + 1) \div 2 ELSE 0
             W == {queue[i] : i \in 1..n}
             ws == [w \in Worker |-> IF w \in Destroyed THEN NoWorker
                                     ELSE IF w \in W THEN [worker[w] EXCEPT !.shut = TRUE]
                                     ELSE worker[w]]
  <2>1. n \in Nat
    BY NxServerAssumption DEF IInv, Types
  <2>2. queue' = SubSeq(queue, n + 1, Len(queue)) /\ worker' = Woken(ws, W) /\ stop' = stop
    BY <1>7 DEF GC
  <2>3. \A v \in ToSet(queue) : v \in W \/ v \in ToSet(queue')
    BY <2>1, <2>2, SetOfRest DEF IInv, Types
  <2> HIDE DEF n, W
  <2>4. worker' \in [Worker -> WorkerType]
    BY <2>2 DEF Woken, WorkerType, NoWorker, IInv, Types
  <2>5. \A v \in Worker : \/ worker'[v] = worker[v] /\ v \notin W
                          \/ worker'[v].at = "none"
                          \/ worker'[v].shut /\ worker'[v].at # "wait"
    BY <2>2 DEF Woken, NoWorker, WorkerType, IInv, Types
  <2>6. queue' \in Seq(Worker)
    BY <2>1, <2>2 DEF IInv, Types
  <2>7. stop => queue' = <<>>
    <3>1. queue = <<>> => n = 0
      BY NxServerAssumption DEF n
    <3> QED
      BY <2>2, <3>1 DEF IInv, EmptyAtEnd
  <2> QED
    BY <2>2, <2>3, <2>4, <2>5, <2>6, <2>7 DEF IInv, Types, InQueue, EmptyAtEnd
<1>8. CASE Shutdown
  <2>1. /\ queue' = <<>> /\ stop' = TRUE
        /\ worker' = Woken(worker, ToSet(queue))
    BY <1>8 DEF Shutdown, Signalled
  <2>2. worker' \in [Worker -> WorkerType]
    BY ZenonT(40), <2>1 DEF Woken, WorkerType, IInv, Types
  <2>3. \A v \in Worker : worker'[v].at # "wait"
    BY <2>1 DEF Woken, WorkerType, IInv, Types, InQueue
  <2> QED
    BY <2>1, <2>2, <2>3 DEF IInv, Types, InQueue, EmptyAtEnd
<1>9. CASE Join
  BY <1>9 DEF Join, NoWorker, WorkerType, IInv, Types, InQueue, EmptyAtEnd
<1>10. CASE Exit /\ UNCHANGED stop
  BY <1>10 DEF Exit, NoWorker, WorkerType, IInv, Types, InQueue, EmptyAtEnd
<1>11. CASE Same
  BY <1>11, SameIInv
<1>12. CASE UNCHANGED vars
  BY <1>12, SameIInv DEF vars, Same
<1> QED
  BY <1>1, <1>2, <1>3, <1>4, <1>5, <1>6, <1>7, <1>8, <1>9, <1>10, <1>11, <1>12
  DEF Next, NetThread, Handles, Answer, Ignore, Include, ResponseReady, Cleanup, Complete,
      SpinOver, Idle, WorkerThread, Network, Accept, Receive, Sent, Error, LoopEnds, Alarm,
      Sigterm, Exit, Same

-----------------------------------------------------------------------------
\* No worker sleeps through the end of the factory, which would wait for it for
\* ever: on its way to the wait it is in the queue, or looks at stop itself.
THEOREM EndReachesAll == Spec => []StopReachesAll
<1>1. IInv => StopReachesAll
  BY DEF IInv, InQueue, EmptyAtEnd, StopReachesAll, ToSet
<1> QED
  BY <1>1, InitIInv, StepIInv, PTL DEF Spec

-----------------------------------------------------------------------------
(* Connections and their workers, if there are no HEAD requests for pages *)

NoHeads == \A c \in Conn : ~conn[c].head

\* The network thread is about one connection only while it spins.
NetAt == /\ net.at = "spin" => /\ net.on \in Conn
                               /\ conn[net.on].pub = None /\ ~conn[net.on].inWorker
                               /\ net.on \notin queued
         /\ net.at # "spin" => net.on = None
         /\ net.at = "join" => stop

\* Who is subscribed to a worker, or will be told of one, has not gone on.
Handled == \A c \in Conn : conn[c].pub # None \/ c \in queued \/ conn[c].inWorker \/ net.on = c =>
                             conn[c].state = "handling"

\* A job is of a connection that waits for it, and of one worker.
Jobs == \A w \in Worker : worker[w].job # None =>
          /\ worker[w].at \in {"check", "run"}
          /\ conn[worker[w].job].state = "handling"
          /\ conn[worker[w].job].inWorker \/ net.on = worker[w].job
          /\ ~conn[worker[w].job].done
OneJob == \A v, w \in Worker : worker[v].job = worker[w].job /\ worker[v].job # None => v = w

\* A response that is complete needs no subrequest any more.
PagesDone == \A c, s \in Conn : conn[c].state = "complete" /\ conn[s].parent = c =>
                                  conn[s].state = "answered"

SInv == TypeOK /\ NoHeads /\ NetAt /\ Handled /\ Jobs /\ OneJob /\ PagesDone /\ QueueSound

LEMMA SInvIsEnough == SInv => ServerSound
<1> SUFFICES ASSUME SInv PROVE ServerSound
  OBVIOUS
<1>1. WorkersHoldConn
  BY DEF SInv, Jobs, WorkersHoldConn
<1>2. NoEarlyAnswer
  <2> SUFFICES ASSUME NEW c \in Conn, NEW w \in Worker, worker[w].job = c,
                      conn[c].state \in {"sending", "answered", "complete"}
               PROVE  FALSE
    BY DEF NoEarlyAnswer
  <2> QED
    BY NxServerAssumption DEF SInv, Jobs
<1> QED
  BY <1>1, <1>2 DEF SInv, ServerSound

LEMMA InitSInv == Init => SInv
<1> SUFFICES ASSUME Init PROVE SInv
  OBVIOUS
<1>1. NoWorker \in WorkerType /\ Free \in ConnType
  BY NxServerAssumption DEF NoWorker, WorkerType, Free, ConnType
<1>2. queue \in Seq(Worker)
  <2>1. <<>> \in Seq(Worker)
    OBVIOUS
  <2> QED
    BY <2>1 DEF Init
<1>3. TypeOK
  BY <1>1, <1>2 DEF Init, TypeOK
<1>4. IsInjective(queue) /\ ToSet(queue) = {}
  BY DEF Init, IsInjective, ToSet
<1> QED
  BY <1>3, <1>4, NxServerAssumption
  DEF Init, SInv, NoHeads, NetAt, Handled, Jobs, OneJob, PagesDone, QueueSound, NoWorker, Free

\* What may happen to a connection d outside of its job.
Kept(d)  == /\ conn'[d].state = conn[d].state /\ conn'[d].pub = conn[d].pub
            /\ conn'[d].inWorker = conn[d].inWorker /\ conn'[d].done = conn[d].done
Moved(d) == /\ conn[d].state # "handling"
            /\ conn'[d].pub = conn[d].pub /\ conn'[d].inWorker = conn[d].inWorker
Gone(d)  == conn'[d] = Free /\ ~conn[d].inWorker

LEMMA OutsideJobs == ASSUME SInv, Looping, UNCHANGED <<worker, queue, stop, net>>,
                            queued' \subseteq queued,
                            \A d \in Conn : \/ Kept(d)
                                            \/ Moved(d)
                                            \/ Gone(d) /\ d \notin queued'
                     PROVE  NetAt' /\ Handled' /\ Jobs' /\ OneJob' /\ QueueSound'
<1>1. net.on = None /\ None \notin Conn
  BY NxServerAssumption DEF SInv, NetAt, Looping
<1>2. NetAt' /\ OneJob'
  BY <1>1 DEF SInv, NetAt, OneJob, Looping
<1>3. Handled'
  BY <1>1 DEF SInv, Handled, Kept, Moved, Gone, Free
<1>4. Jobs'
  <2> SUFFICES ASSUME NEW w \in Worker, worker[w].job # None
               PROVE  /\ worker[w].at \in {"check", "run"}
                      /\ conn'[worker[w].job].state = "handling"
                      /\ conn'[worker[w].job].inWorker
                      /\ ~conn'[worker[w].job].done
    BY DEF Jobs
  <2>1. worker[w].job \in Conn
    BY DEF SInv, TypeOK, WorkerType
  <2>2. /\ worker[w].at \in {"check", "run"}
        /\ conn[worker[w].job].state = "handling"
        /\ conn[worker[w].job].inWorker
        /\ ~conn[worker[w].job].done
    BY <1>1, <2>1 DEF SInv, Jobs
  <2>3. Kept(worker[w].job)
    BY <2>1, <2>2 DEF Moved, Gone
  <2> QED
    BY <2>2, <2>3 DEF Kept
<1>5. QueueSound'
  <2>1. \A c \in Conn : conn'[c].pub # None => conn'[c].pub = conn[c].pub
    BY DEF Kept, Moved, Gone, Free
  <2> QED
    BY <2>1 DEF SInv, QueueSound
<1> QED
  BY <1>2, <1>3, <1>4, <1>5

\* The part of TypeOK that is not in Types.
RestTypes == /\ conn \in [Conn -> ConnType]
             /\ sigterm \in BOOLEAN
             /\ queued \subseteq Conn
             /\ net \in [at : {"loop", "gc", "spin", "join", "ended"}, on : Conn \cup {None}]

LEMMA TwoTypes == TypeOK <=> Types /\ RestTypes
  BY DEF TypeOK, Types, RestTypes

LEMMA FreeType == Free \in ConnType
  BY NxServerAssumption DEF Free, ConnType

\* Closing a connection frees what is not in a worker, or only marks it.
LEMMA FinalizedFacts ==
  ASSUME conn \in [Conn -> ConnType], NEW c \in Conn
  PROVE  LET fs == Finalized(conn, c) IN
         /\ fs \in [Conn -> ConnType]
         /\ \A d \in Conn : \/ fs[d] = Free /\ ~conn[d].inWorker
                            \/ /\ fs[d].state = conn[d].state /\ fs[d].pub = conn[d].pub
                               /\ fs[d].inWorker = conn[d].inWorker /\ fs[d].done = conn[d].done
                               /\ fs[d].parent = conn[d].parent /\ fs[d].head = conn[d].head
<1> DEFINE fs == Finalized(conn, c)
<1>1. CASE CanClose(c)
  <2>1. fs = Freed(conn, {c} \cup Subs(c))
    BY <1>1 DEF Finalized
  <2>2. \A d \in {c} \cup Subs(c) : ~conn[d].inWorker
    BY <1>1 DEF CanClose
  <2> QED
    BY <2>1, <2>2, FreeType DEF Freed
<1>2. CASE ~CanClose(c)
  <2>1. fs = [d \in Conn |-> IF d \in {c} \cup Subs(c) THEN [conn[d] EXCEPT !.closing = TRUE] ELSE conn[d]]
    BY <1>2 DEF Finalized
  <2> HIDE DEF fs
  <2>2. fs \in [Conn -> ConnType]
    BY ZenonT(40), <2>1 DEF ConnType
  <2>3. \A d \in Conn : /\ fs[d].state = conn[d].state /\ fs[d].pub = conn[d].pub
                        /\ fs[d].inWorker = conn[d].inWorker /\ fs[d].done = conn[d].done
                        /\ fs[d].parent = conn[d].parent /\ fs[d].head = conn[d].head
    BY <2>1 DEF ConnType
  <2> QED
    BY <2>2, <2>3 DEF fs
<1> QED
  BY <1>1, <1>2

\* The invariant for steps that OutsideJobs is about.
LEMMA OutsideStep == ASSUME IInv', SInv, Looping, UNCHANGED <<worker, queue, stop, net>>,
                            queued' \subseteq queued, sigterm' = sigterm,
                            conn' \in [Conn -> ConnType], NoHeads', PagesDone',
                            \A d \in Conn : \/ Kept(d)
                                            \/ Moved(d)
                                            \/ Gone(d) /\ d \notin queued'
                     PROVE  SInv'
<1>1. RestTypes'
  BY DEF SInv, RestTypes, TypeOK
<1>2. TypeOK'
  BY <1>1, TwoTypes, PTL DEF IInv
<1>3. NetAt' /\ Handled' /\ Jobs' /\ OneJob' /\ QueueSound'
  BY OutsideJobs
<1> QED
  BY <1>2, <1>3 DEF SInv

LEMMA ErrorSInv == ASSUME IInv', SInv, NEW c \in Conn, Error(c) PROVE SInv'
<1>1. conn \in [Conn -> ConnType]
  BY DEF SInv, TypeOK
<1>2. /\ conn' \in [Conn -> ConnType]
      /\ \A d \in Conn : \/ conn'[d] = Free /\ ~conn[d].inWorker
                         \/ /\ conn'[d].state = conn[d].state /\ conn'[d].pub = conn[d].pub
                            /\ conn'[d].inWorker = conn[d].inWorker /\ conn'[d].done = conn[d].done
                            /\ conn'[d].parent = conn[d].parent /\ conn'[d].head = conn[d].head
  BY <1>1, FinalizedFacts DEF Error
<1>3. \A d \in Conn : conn'[d] = Free => d \notin queued'
  BY DEF Error, Free
<1>4. \A d \in Conn : \/ Kept(d)
                      \/ Gone(d) /\ d \notin queued'
  BY <1>2, <1>3 DEF Kept, Gone
<1>5. NoHeads' /\ PagesDone'
  BY <1>2, NxServerAssumption DEF SInv, NoHeads, PagesDone, Free
<1>6. queued' \subseteq queued
  BY DEF Error
<1> QED
  BY <1>2, <1>4, <1>5, <1>6, OutsideStep DEF Error

\* A step of one connection, which has no job and keeps its parent.
LEMMA OneMoves == ASSUME IInv', SInv, Looping, UNCHANGED <<worker, queue, stop, sigterm, queued, net>>,
                         NEW c \in Conn, NEW q \in ConnType, conn' = [conn EXCEPT ![c] = q],
                         q.pub = conn[c].pub, q.inWorker = conn[c].inWorker, q.parent = conn[c].parent,
                         conn[c].state \in {"free", "waiting", "received", "sending"},
                         ~q.head,
                         q.state = "complete" => \A s \in Conn : conn[s].parent = c => conn[s].state = "answered",
                         conn[c].state = "sending" => q.state \in {"complete", "answered"},
                         q.state = "complete" => q.parent = None
                  PROVE  SInv'
<1>1. conn \in [Conn -> ConnType]
  BY DEF SInv, TypeOK
<1>2. conn' \in [Conn -> ConnType] /\ conn'[c] = q /\ \A d \in Conn : d # c => conn'[d] = conn[d]
  BY <1>1
<1>3. \A d \in Conn : Kept(d) \/ Moved(d)
  BY <1>2 DEF Kept, Moved
<1>4. NoHeads'
  BY <1>2 DEF SInv, NoHeads
<1>5. PagesDone'
  BY <1>2, NxServerAssumption DEF SInv, PagesDone
<1> QED
  BY <1>2, <1>3, <1>4, <1>5, OutsideStep

LEMMA RequestSInv ==
  ASSUME IInv', SInv, ~HeadPages, NEW c \in Conn,
         Accept(c) \/ Receive(c) \/ Answer(c) \/ Ignore(c) \/ ResponseReady(c) \/ Sent(c)
  PROVE  SInv'
<1>1. conn[c] \in ConnType /\ ~conn[c].head
  BY DEF SInv, TypeOK, NoHeads
<1>2. CASE Accept(c)
  <2> DEFINE q == [conn[c] EXCEPT !.state = "waiting"]
  <2>1. /\ q \in ConnType /\ q.pub = conn[c].pub /\ q.inWorker = conn[c].inWorker
        /\ q.parent = conn[c].parent /\ q.state = "waiting" /\ ~q.head
    BY <1>1 DEF ConnType
  <2>2. conn[c].state = "free" /\ conn' = [conn EXCEPT ![c] = q]
    BY <1>2 DEF Accept, Free
  <2> QED
    BY <1>2, <2>1, <2>2, OneMoves DEF Accept
<1>3. CASE Receive(c)
  <2> DEFINE q == [conn[c] EXCEPT !.state = "received"]
  <2>1. /\ q \in ConnType /\ q.pub = conn[c].pub /\ q.inWorker = conn[c].inWorker
        /\ q.parent = conn[c].parent /\ q.state = "received" /\ ~q.head
    BY <1>1 DEF ConnType
  <2>2. conn[c].state = "waiting" /\ conn' = [conn EXCEPT ![c] = q]
    BY <1>3 DEF Receive
  <2> QED
    BY <1>3, <2>1, <2>2, OneMoves DEF Receive
<1>4. CASE Answer(c)
  <2>1. PICK todo \in IF conn[c].parent = None THEN 0..Includes ELSE {0}, head \in BOOLEAN :
          /\ head => todo > 0 /\ HeadPages
          /\ conn' = [conn EXCEPT ![c].state = "sending", ![c].todo = todo, ![c].head = head]
    BY <1>4 DEF Answer
  <2>2. todo \in 0..Includes /\ ~head
    BY <2>1, NxServerAssumption
  <2> DEFINE q == [conn[c] EXCEPT !.state = "sending", !.todo = todo, !.head = head]
  <2>3. /\ q \in ConnType /\ q.pub = conn[c].pub /\ q.inWorker = conn[c].inWorker
        /\ q.parent = conn[c].parent /\ q.state = "sending" /\ ~q.head
    BY <1>1, <2>2 DEF ConnType
  <2>4. conn[c].state = "received" /\ conn' = [conn EXCEPT ![c] = q]
    BY <1>4, <2>1 DEF Answer
  <2> QED
    BY <1>4, <2>3, <2>4, OneMoves DEF Answer
<1>5. CASE Ignore(c)
  <2> DEFINE q == [conn[c] EXCEPT !.state = "handling"]
  <2>1. /\ q \in ConnType /\ q.pub = conn[c].pub /\ q.inWorker = conn[c].inWorker
        /\ q.parent = conn[c].parent /\ q.state = "handling" /\ ~q.head
    BY <1>1 DEF ConnType
  <2>2. conn[c].state = "received" /\ conn' = [conn EXCEPT ![c] = q]
    BY <1>5 DEF Ignore
  <2> QED
    BY <1>5, <2>1, <2>2, OneMoves DEF Ignore
<1>6. CASE ResponseReady(c)
  <2> DEFINE q == [conn[c] EXCEPT !.state = "answered"]
  <2>1. /\ q \in ConnType /\ q.pub = conn[c].pub /\ q.inWorker = conn[c].inWorker
        /\ q.parent = conn[c].parent /\ q.state = "answered" /\ ~q.head
    BY <1>1 DEF ConnType
  <2>2. conn[c].state = "sending" /\ conn' = [conn EXCEPT ![c] = q]
    BY <1>6 DEF ResponseReady
  <2> QED
    BY <1>6, <2>1, <2>2, OneMoves DEF ResponseReady
<1>7. CASE Sent(c)
  <2> DEFINE q == [conn[c] EXCEPT !.state = "complete"]
  <2>1. /\ q \in ConnType /\ q.pub = conn[c].pub /\ q.inWorker = conn[c].inWorker
        /\ q.parent = conn[c].parent /\ q.state = "complete" /\ ~q.head
    BY <1>1 DEF ConnType
  <2>2. /\ conn[c].state = "sending" /\ conn[c].parent = None
        /\ conn' = [conn EXCEPT ![c] = q]
        /\ \A s \in Conn : conn[s].parent = c => conn[s].state = "answered"
    BY <1>1, <1>7 DEF Sent, Subs
  <2> QED
    BY <1>7, <2>1, <2>2, OneMoves DEF Sent
<1> QED
  BY <1>2, <1>3, <1>4, <1>5, <1>6, <1>7

LEMMA IncludeSInv == ASSUME IInv', SInv, NEW c \in Conn, NEW s \in Conn, Include(c, s) PROVE SInv'
<1>1. conn \in [Conn -> ConnType] /\ conn[c] \in ConnType
  BY DEF SInv, TypeOK
<1>2. conn[c].todo - 1 \in 0..Includes
  BY <1>1, NxServerAssumption DEF Include, Left, ConnType
<1>3. CASE conn[c].closing
  <2> DEFINE q == [conn[c] EXCEPT !.todo = @ - 1]
  <2>1. /\ q \in ConnType /\ q.pub = conn[c].pub /\ q.inWorker = conn[c].inWorker
        /\ q.parent = conn[c].parent /\ q.state = conn[c].state /\ q.done = conn[c].done
        /\ q.head = conn[c].head
    BY <1>1, <1>2 DEF ConnType
  <2>2. conn' = [conn EXCEPT ![c] = q]
    BY <1>3 DEF Include
  <2> HIDE DEF q
  <2>3. conn' \in [Conn -> ConnType] /\ \A d \in Conn : conn'[d] = IF d = c THEN q ELSE conn[d]
    BY <1>1, <2>1, <2>2
  <2>4. \A d \in Conn : Kept(d)
    BY <2>1, <2>3 DEF Kept
  <2>5. NoHeads' /\ PagesDone'
    BY <2>1, <2>3 DEF SInv, NoHeads, PagesDone
  <2> QED
    BY <2>3, <2>4, <2>5, OutsideStep DEF Include
<1>4. CASE ~conn[c].closing
  <2> DEFINE q == [conn[c] EXCEPT !.todo = @ - 1]
             r == [Free EXCEPT !.parent = c, !.state = "received"]
  <2>1. /\ q \in ConnType /\ q.pub = conn[c].pub /\ q.inWorker = conn[c].inWorker
        /\ q.parent = conn[c].parent /\ q.state = "sending" /\ q.done = conn[c].done
        /\ q.head = conn[c].head
    BY <1>1, <1>2 DEF ConnType, Include
  <2>2. /\ r \in ConnType /\ r.pub = None /\ r.inWorker = FALSE /\ r.parent = c /\ r.state = "received"
        /\ ~r.head
    BY FreeType DEF Free, ConnType
  <2>3. conn' = [conn EXCEPT ![c] = q, ![s] = r] /\ conn[s] = Free /\ conn[c].state = "sending"
    BY <1>4 DEF Include
  <2> HIDE DEF q, r
  <2>4. s # c
    BY <2>3 DEF Free
  <2>5. /\ conn' \in [Conn -> ConnType]
        /\ \A d \in Conn : conn'[d] = IF d = s THEN r ELSE IF d = c THEN q ELSE conn[d]
    BY <1>1, <2>1, <2>2, <2>3, <2>4
  <2>6. \A d \in Conn : Kept(d) \/ Moved(d)
    <3> SUFFICES ASSUME NEW d \in Conn PROVE Kept(d) \/ Moved(d)
      OBVIOUS
    <3>1. CASE d = s
      <4>1. conn[s].state = "free" /\ conn[s].pub = None /\ conn[s].inWorker = FALSE
        BY <2>3 DEF Free
      <4>2. conn'[d].pub = None /\ conn'[d].inWorker = FALSE
        BY <3>1, <2>2, <2>5
      <4> QED
        BY <3>1, <4>1, <4>2 DEF Moved
    <3>2. CASE d # s
      BY <3>2, <2>1, <2>3, <2>5 DEF Kept, Free
    <3> QED
      BY <3>1, <3>2
  <2>7. NoHeads'
    BY <2>1, <2>2, <2>5 DEF SInv, NoHeads
  <2>8. PagesDone'
    <3> SUFFICES ASSUME NEW d \in Conn, NEW t \in Conn,
                        conn'[d].state = "complete", conn'[t].parent = d
                 PROVE  conn'[t].state = "answered"
      BY DEF PagesDone
    <3>1. d # c /\ d # s /\ conn[d].state = "complete"
      BY <2>1, <2>2, <2>4, <2>5
    <3>2. t # s
      BY <3>1, <2>2, <2>5
    <3>3. conn[t].parent = d /\ conn'[t].state = conn[t].state
      BY <3>2, <2>1, <2>3, <2>5
    <3> QED
      BY <3>1, <3>3 DEF SInv, PagesDone
  <2> QED
    BY <2>5, <2>6, <2>7, <2>8, OutsideStep DEF Include
<1> QED
  BY <1>3, <1>4

LEMMA CleanupSInv == ASSUME IInv', SInv, NEW c \in Conn, Cleanup(c) PROVE SInv'
<1>1. conn \in [Conn -> ConnType] /\ conn[c] \in ConnType
  BY DEF SInv, TypeOK
<1>2. \A s \in Subs(c) : s \in Conn /\ conn[s].state = "answered" /\ s # c
  BY DEF Subs, Cleanup, SInv, PagesDone
<1> DEFINE q == [conn[c] EXCEPT !.state = "waiting", !.todo = 0, !.head = FALSE]
<1>3. /\ q \in ConnType /\ q.pub = conn[c].pub /\ q.inWorker = conn[c].inWorker
      /\ q.parent = conn[c].parent /\ q.state = "waiting" /\ ~q.head
  <2>1. 0 \in 0..Includes
    BY NxServerAssumption
  <2> QED
    BY <1>1, <2>1 DEF ConnType
<1>4. \A d \in Conn : conn'[d] = IF d = c THEN q ELSE IF d \in Subs(c) THEN Free ELSE conn[d]
  BY <1>2 DEF Cleanup, Freed
<1>5. conn' \in [Conn -> ConnType]
  <2>1. conn' = [d \in Conn |-> conn'[d]]
    BY DEF Cleanup, Freed
  <2> QED
    BY <2>1, <1>1, <1>3, <1>4, FreeType
<1> HIDE DEF q
<1>6. \A d \in Conn : \/ Kept(d)
                      \/ Moved(d)
                      \/ Gone(d) /\ d \notin queued'
  <2> SUFFICES ASSUME NEW d \in Conn
               PROVE  \/ Kept(d)
                      \/ Moved(d)
                      \/ Gone(d) /\ d \notin queued'
    OBVIOUS
  <2>1. CASE d = c
    BY <2>1, <1>3, <1>4 DEF Moved, Cleanup
  <2>2. CASE d # c /\ d \in Subs(c)
    <3>1. ~conn[d].inWorker
      BY <2>2, <1>2 DEF SInv, Handled
    <3> QED
      BY <2>2, <3>1, <1>4 DEF Gone, Cleanup
  <2>3. CASE d # c /\ d \notin Subs(c)
    BY <2>3, <1>4 DEF Kept
  <2> QED
    BY <2>1, <2>2, <2>3
<1>7. NoHeads'
  BY <1>3, <1>4 DEF SInv, NoHeads, Free
<1>8. PagesDone'
  <2> SUFFICES ASSUME NEW d \in Conn, NEW s \in Conn,
                      conn'[d].state = "complete", conn'[s].parent = d
               PROVE  conn'[s].state = "answered"
    BY DEF PagesDone
  <2>1. d # c /\ conn[d].state = "complete"
    BY <1>3, <1>4 DEF Free
  <2>2. s # c => conn'[s] = conn[s] \/ conn'[s] = Free
    BY <1>4
  <2>3. CASE s = c
    <3>1. conn[s].parent = d
      BY <2>3, <1>3, <1>4
    <3>2. conn[s].state = "answered"
      BY <2>1, <3>1 DEF SInv, PagesDone
    <3> QED
      BY <2>3, <3>2 DEF Cleanup
  <2>4. CASE s # c
    <3>1. conn'[s] = conn[s]
      BY <2>2, <2>4, NxServerAssumption DEF Free
    <3> QED
      BY <3>1, <2>1 DEF SInv, PagesDone
  <2> QED
    BY <2>3, <2>4
<1>9. queued' \subseteq queued
  BY DEF Cleanup
<1> QED
  BY <1>5, <1>6, <1>7, <1>8, <1>9, OutsideStep DEF Cleanup

LEMMA TypesAgain == ASSUME IInv', RestTypes' PROVE TypeOK'
  BY TwoTypes, PTL DEF IInv

\* A worker that has no job is given one.
LEMMA DispatchSInv ==
  ASSUME IInv', SInv, NEW c \in Conn, NEW w \in Worker, CanDispatch(c), Dispatch(c, w),
         worker[w].at \in {"none", "check", "wait"},
         IsInjective(queue'), ToSet(queue') \subseteq ToSet(queue), w \notin ToSet(queue')
  PROVE  SInv'
<1>1. /\ conn \in [Conn -> ConnType] /\ conn[c] \in ConnType /\ conn[c].state = "received"
      /\ worker \in [Worker -> WorkerType] /\ worker[w] \in WorkerType
      /\ net.at = "loop" /\ net.on = None
  BY DEF SInv, TypeOK, CanDispatch, Looping, NetAt
<1> DEFINE q == [conn[c] EXCEPT !.state = "handling", !.inWorker = TRUE, !.pub = w, !.done = FALSE]
           r == [worker[w] EXCEPT !.job = c, !.at = IF @ = "check" THEN @ ELSE "run"]
<1>2. /\ q \in ConnType /\ q.state = "handling" /\ q.inWorker = TRUE /\ q.pub = w /\ q.done = FALSE
      /\ q.parent = conn[c].parent /\ q.head = conn[c].head
  BY <1>1 DEF ConnType
<1>3. r.job = c /\ r.at \in {"check", "run"}
  BY <1>1 DEF WorkerType
<1>4. conn' = [conn EXCEPT ![c] = q] /\ worker' = [worker EXCEPT ![w] = r]
  BY DEF Dispatch, Started
<1>5. UNCHANGED <<stop, sigterm, queued, net>>
  BY DEF Dispatch
<1> HIDE DEF q, r
<1>6. /\ conn' \in [Conn -> ConnType]
      /\ \A d \in Conn : conn'[d] = IF d = c THEN q ELSE conn[d]
      /\ \A v \in Worker : worker'[v] = IF v = w THEN r ELSE worker[v]
  BY <1>1, <1>2, <1>4
<1>7. TypeOK'
  <2>1. RestTypes'
    BY <1>5, <1>6 DEF SInv, TypeOK, RestTypes
  <2> QED
    BY <2>1, TypesAgain
<1>8. NoHeads'
  BY <1>2, <1>6 DEF SInv, NoHeads
<1>9. NetAt'
  BY <1>1, <1>5 DEF SInv, NetAt
<1>10. Handled'
  BY <1>2, <1>5, <1>6 DEF SInv, Handled
<1>11. \A v \in Worker : worker[v].job # None => worker[v].job \in Conn /\ worker[v].job # c
  BY <1>1 DEF SInv, Jobs, WorkerType
<1>12. Jobs'
  <2> SUFFICES ASSUME NEW v \in Worker, worker'[v].job # None
               PROVE  /\ worker'[v].at \in {"check", "run"}
                      /\ conn'[worker'[v].job].state = "handling"
                      /\ conn'[worker'[v].job].inWorker
                      /\ ~conn'[worker'[v].job].done
    BY DEF Jobs
  <2>1. CASE v = w
    BY <2>1, <1>2, <1>3, <1>6
  <2>2. CASE v # w
    <3>1. worker'[v] = worker[v] /\ conn'[worker[v].job] = conn[worker[v].job]
      BY <2>2, <1>6, <1>11
    <3> QED
      BY <3>1, <1>1, <1>11, NxServerAssumption DEF SInv, Jobs
  <2> QED
    BY <2>1, <2>2
<1>13. OneJob'
  <2> SUFFICES ASSUME NEW u \in Worker, NEW v \in Worker,
                      worker'[u].job = worker'[v].job, worker'[u].job # None
               PROVE  u = v
    BY DEF OneJob
  <2>1. CASE u = w
    BY <2>1, <1>3, <1>6, <1>11
  <2>2. CASE v = w
    BY <2>2, <1>3, <1>6, <1>11
  <2>3. CASE u # w /\ v # w
    BY <2>3, <1>6 DEF SInv, OneJob
  <2> QED
    BY <2>1, <2>2, <2>3
<1>14. PagesDone'
  BY <1>2, <1>6, <1>1 DEF SInv, PagesDone
<1>15. QueueSound'
  <2>1. \A v \in ToSet(queue') : v \in Worker /\ worker'[v] = worker[v] /\ v \in ToSet(queue)
    BY <1>6 DEF SInv, TypeOK, ToSet
  <2>2. ASSUME NEW d \in Conn, conn'[d].pub # None PROVE worker'[conn'[d].pub].at # "none"
    <3>1. CASE d = c
      BY <3>1, <1>2, <1>3, <1>6
    <3>2. CASE d # c
      <4>1. conn'[d] = conn[d] /\ conn[d].pub \in Worker
        BY <3>2, <2>2, <1>1, <1>6 DEF ConnType
      <4>2. worker[conn[d].pub].at # "none"
        BY <4>1, <2>2 DEF SInv, QueueSound
      <4> QED
        BY <4>1, <4>2, <1>3, <1>6
    <3> QED
      BY <3>1, <3>2
  <2> QED
    BY <2>1, <2>2 DEF SInv, QueueSound
<1> QED
  BY <1>7, <1>8, <1>9, <1>10, <1>12, <1>13, <1>14, <1>15 DEF SInv

LEMMA ReuseSInv == ASSUME IInv', SInv, NEW c \in Conn, Reuse(c) PROVE SInv'
<1>1. queue \in Seq(Worker) /\ queue # <<>> /\ IsInjective(queue)
  BY DEF Reuse, SInv, TypeOK, QueueSound
<1>2. /\ IsInjective(Tail(queue)) /\ ToSet(Tail(queue)) \subseteq ToSet(queue)
      /\ Head(queue) \notin ToSet(Tail(queue))
  BY <1>1, TailInjective
<1>3. Head(queue) \in Worker /\ Head(queue) \in ToSet(queue)
  BY <1>1 DEF ToSet
<1>4. worker[Head(queue)].at \in {"check", "wait"}
  BY <1>3 DEF SInv, QueueSound
<1> QED
  BY <1>2, <1>3, <1>4, DispatchSInv DEF Reuse

LEMMA CreateSInv == ASSUME IInv', SInv, NEW c \in Conn, NEW w \in Worker, Create(c, w) PROVE SInv'
<1>1. IsInjective(queue') /\ ToSet(queue') = {}
  BY DEF Create, ToSet, IsInjective
<1> QED
  BY <1>1, DispatchSInv DEF Create

LEMMA EmitSInv == ASSUME IInv', SInv, NEW w \in Worker, Emit(w) PROVE SInv'
<1>1. /\ worker \in [Worker -> WorkerType] /\ net.on = None /\ net.at = "loop"
      /\ UNCHANGED <<conn, queue, stop, sigterm, net>>
  BY DEF SInv, TypeOK, Emit, NetAt, Looping
<1>2. \A v \in Worker : /\ worker'[v].at = worker[v].at /\ worker'[v].job = worker[v].job
                        /\ worker'[v].shut = worker[v].shut
  BY <1>1 DEF Emit, WorkerType
<1>3. queued' = queued \cup {c \in Conn : conn[c].pub = w} /\ w # None
  BY NxServerAssumption DEF Emit
<1>4. TypeOK'
  <2>1. RestTypes'
    BY <1>1, <1>3 DEF SInv, TypeOK, RestTypes
  <2> QED
    BY <2>1, TypesAgain
<1>5. Handled'
  BY <1>1, <1>3 DEF SInv, Handled
<1>6. NoHeads' /\ PagesDone' /\ NetAt'
  BY <1>1 DEF SInv, NoHeads, PagesDone, NetAt
<1>7. Jobs' /\ OneJob'
  BY <1>1, <1>2 DEF SInv, Jobs, OneJob
<1>8. QueueSound'
  <2>1. ToSet(queue) \subseteq Worker
    BY DEF SInv, TypeOK, ToSet
  <2>2. \A c \in Conn : conn[c].pub # None => conn[c].pub \in Worker
    BY DEF SInv, TypeOK, ConnType
  <2> QED
    BY <1>1, <1>2, <2>1, <2>2 DEF SInv, QueueSound
<1> QED
  BY <1>4, <1>5, <1>6, <1>7, <1>8 DEF SInv

LEMMA CompleteSInv == ASSUME IInv', SInv, NEW c \in Conn, Complete(c) PROVE SInv'
<1>1. /\ conn \in [Conn -> ConnType] /\ conn[c] \in ConnType /\ net.on = None
      /\ conn[c].state = "handling"
      /\ UNCHANGED <<worker, queue, stop, sigterm>>
  BY DEF SInv, TypeOK, Complete, NetAt, Looping, Handled
<1> DEFINE q == [conn[c] EXCEPT !.pub = None, !.inWorker = FALSE]
<1>2. /\ q \in ConnType /\ q.state = "handling" /\ q.inWorker = FALSE /\ q.pub = None
      /\ q.done = conn[c].done /\ q.parent = conn[c].parent /\ q.head = conn[c].head
  BY <1>1 DEF ConnType
<1>3. /\ conn' = [conn EXCEPT ![c] = q]
      /\ net' = [at |-> "spin", on |-> c] /\ queued' = queued \ {c}
  BY DEF Complete
<1> HIDE DEF q
<1>4. /\ conn' \in [Conn -> ConnType]
      /\ \A d \in Conn : conn'[d] = IF d = c THEN q ELSE conn[d]
      /\ net'.at = "spin" /\ net'.on = c
  BY <1>1, <1>2, <1>3
<1>5. TypeOK'
  <2>1. RestTypes'
    BY <1>1, <1>3, <1>4 DEF SInv, TypeOK, RestTypes
  <2> QED
    BY <2>1, TypesAgain
<1>6. NetAt'
  BY <1>2, <1>3, <1>4 DEF NetAt
<1>7. Handled'
  BY <1>1, <1>2, <1>3, <1>4 DEF SInv, Handled
<1>8. NoHeads' /\ PagesDone'
  BY <1>1, <1>2, <1>4 DEF SInv, NoHeads, PagesDone
<1>9. OneJob'
  BY <1>1 DEF SInv, OneJob
<1>10. Jobs'
  <2> SUFFICES ASSUME NEW v \in Worker, worker[v].job # None
               PROVE  /\ worker[v].at \in {"check", "run"}
                      /\ conn'[worker[v].job].state = "handling"
                      /\ conn'[worker[v].job].inWorker \/ net'.on = worker[v].job
                      /\ ~conn'[worker[v].job].done
    BY <1>1 DEF Jobs
  <2>1. worker[v].job \in Conn
    BY DEF SInv, TypeOK, WorkerType
  <2>2. /\ worker[v].at \in {"check", "run"} /\ conn[worker[v].job].state = "handling"
        /\ conn[worker[v].job].inWorker /\ ~conn[worker[v].job].done
    BY <1>1, <2>1, NxServerAssumption DEF SInv, Jobs
  <2>3. CASE worker[v].job = c
    BY <2>2, <2>3, <1>2, <1>4
  <2>4. CASE worker[v].job # c
    BY <2>1, <2>2, <2>4, <1>4
  <2> QED
    BY <2>3, <2>4
<1>11. QueueSound'
  BY <1>1, <1>2, <1>4 DEF SInv, QueueSound
<1> QED
  BY <1>5, <1>6, <1>7, <1>8, <1>9, <1>10, <1>11 DEF SInv

LEMMA SpinOverSInv == ASSUME IInv', SInv, SpinOver PROVE SInv'
<1> DEFINE c == net.on
<1>1. /\ c \in Conn /\ conn \in [Conn -> ConnType] /\ conn[c] \in ConnType
      /\ conn[c].pub = None /\ ~conn[c].inWorker /\ c \notin queued /\ conn[c].done
      /\ conn[c].state = "handling"
      /\ UNCHANGED <<worker, queue, stop, sigterm>>
  BY DEF SInv, TypeOK, SpinOver, NetAt, Waited, Handled
<1>2. /\ net' = [at |-> "loop", on |-> None] /\ queued' \subseteq queued
      /\ \A d \in Conn : conn'[d] = Free => d \notin queued'
  BY DEF SpinOver, Free
<1>3. /\ conn' \in [Conn -> ConnType]
      /\ \A d \in Conn : \/ conn'[d] = Free /\ ~conn[d].inWorker
                         \/ /\ \/ conn'[d].state = conn[d].state
                               \/ d = c /\ conn'[d].state \in {"sending", "answered"}
                            /\ conn'[d].pub = conn[d].pub /\ conn'[d].inWorker = conn[d].inWorker
                            /\ conn'[d].done = conn[d].done \/ d = c
                            /\ conn'[d].parent = conn[d].parent /\ conn'[d].head = conn[d].head
  <2>1. CASE ~conn[c].closing
    <3> DEFINE q == [conn[c] EXCEPT !.state = "sending", !.done = FALSE]
    <3>1. /\ q \in ConnType /\ q.state = "sending" /\ q.pub = conn[c].pub
          /\ q.inWorker = conn[c].inWorker /\ q.parent = conn[c].parent /\ q.head = conn[c].head
      BY <1>1 DEF ConnType
    <3>2. conn' = [conn EXCEPT ![c] = q]
      BY <2>1 DEF SpinOver
    <3> HIDE DEF q, c
    <3> QED
      BY <1>1, <3>1, <3>2
  <2>2. CASE conn[c].closing /\ conn[c].parent = None
    <3>1. conn' = Finalized(conn, c)
      BY <2>2 DEF SpinOver
    <3> HIDE DEF c
    <3> QED
      BY <1>1, <3>1, FinalizedFacts
  <2>3. CASE conn[c].closing /\ conn[c].parent # None
    <3> DEFINE q == [conn[c] EXCEPT !.state = "answered"]
    <3>1. /\ q \in ConnType /\ q.state = "answered" /\ q.pub = conn[c].pub
          /\ q.inWorker = conn[c].inWorker /\ q.parent = conn[c].parent /\ q.head = conn[c].head
      BY <1>1 DEF ConnType
    <3>2. conn' = [conn EXCEPT ![c] = q]
      BY <2>3 DEF SpinOver, SubFailed
    <3> HIDE DEF q, c
    <3> QED
      BY <1>1, <3>1, <3>2
  <2> QED
    BY <2>1, <2>2, <2>3
<1> HIDE DEF c
<1>4. TypeOK'
  <2>1. RestTypes'
    BY <1>1, <1>2, <1>3 DEF SInv, TypeOK, RestTypes
  <2> QED
    BY <2>1, TypesAgain
<1>5. NetAt'
  BY <1>2 DEF NetAt
<1>6. None \notin Conn
  BY NxServerAssumption
<1>7. Handled'
  BY <1>1, <1>2, <1>3, <1>6 DEF SInv, Handled, Free, c
<1>8. NoHeads'
  BY <1>3 DEF SInv, NoHeads, Free
<1>9. PagesDone'
  BY <1>1, <1>3, <1>6 DEF SInv, PagesDone, Free
<1>10. OneJob'
  BY <1>1 DEF SInv, OneJob
<1>11. Jobs'
  <2> SUFFICES ASSUME NEW v \in Worker, worker[v].job # None
               PROVE  /\ worker[v].at \in {"check", "run"}
                      /\ conn'[worker[v].job].state = "handling"
                      /\ conn'[worker[v].job].inWorker
                      /\ ~conn'[worker[v].job].done
    BY <1>1 DEF Jobs
  <2>1. worker[v].job \in Conn
    BY DEF SInv, TypeOK, WorkerType
  <2>2. /\ worker[v].at \in {"check", "run"} /\ conn[worker[v].job].state = "handling"
        /\ conn[worker[v].job].inWorker \/ worker[v].job = c
        /\ ~conn[worker[v].job].done
    BY <2>1 DEF SInv, Jobs, c
  <2>3. worker[v].job # c
    BY <1>1, <2>2
  <2> QED
    BY <2>1, <2>2, <2>3, <1>3
<1>12. QueueSound'
  <2>1. \A d \in Conn : conn'[d].pub # None => conn'[d].pub = conn[d].pub
    BY <1>3 DEF Free
  <2> QED
    BY <1>1, <2>1 DEF SInv, QueueSound
<1> QED
  BY <1>4, <1>5, <1>7, <1>8, <1>9, <1>10, <1>11, <1>12 DEF SInv

LEMMA CheckSInv == ASSUME IInv, IInv', SInv, NEW w \in Worker, Check(w) PROVE SInv'
<1>1. /\ worker \in [Worker -> WorkerType] /\ worker[w].at = "check"
      /\ UNCHANGED <<conn, queue, stop, sigterm, queued, net>>
  BY DEF SInv, TypeOK, Check
<1>2. \A v \in Worker : /\ worker'[v].job = worker[v].job /\ worker'[v].shut = worker[v].shut
                        /\ v # w => worker'[v] = worker[v]
  BY <1>1 DEF Check, WorkerType
<1>3. /\ worker[w].job # None => worker'[w].at = "run"
      /\ worker[w].job = None /\ ~worker[w].shut /\ ~stop => worker'[w].at = "wait"
      /\ worker'[w].at # "none"
  BY <1>1 DEF Check, WorkerType
<1>4. TypeOK'
  <2>1. RestTypes'
    BY <1>1 DEF SInv, TypeOK, RestTypes
  <2> QED
    BY <2>1, TypesAgain
<1>5. NoHeads' /\ PagesDone' /\ NetAt' /\ Handled'
  BY <1>1 DEF SInv, NoHeads, PagesDone, NetAt, Handled
<1>6. Jobs'
  BY <1>1, <1>2, <1>3 DEF SInv, Jobs
<1>7. OneJob'
  BY <1>2 DEF SInv, OneJob
<1>8. QueueSound'
  <2>1. ToSet(queue) \subseteq Worker
    BY DEF SInv, TypeOK, ToSet
  <2>2. ToSet(queue) # {} => ~stop
    BY DEF IInv, EmptyAtEnd, ToSet
  <2>3. \A c \in Conn : conn[c].pub # None => conn[c].pub \in Worker
    BY DEF SInv, TypeOK, ConnType
  <2> QED
    BY <1>1, <1>2, <1>3, <2>1, <2>2, <2>3 DEF SInv, QueueSound
<1> QED
  BY <1>4, <1>5, <1>6, <1>7, <1>8 DEF SInv

LEMMA RunSInv == ASSUME IInv', SInv, NEW w \in Worker, Run(w) PROVE SInv'
<1>1. /\ worker \in [Worker -> WorkerType] /\ worker[w].at = "run"
      /\ conn \in [Conn -> ConnType]
      /\ UNCHANGED <<queue, stop, sigterm, queued, net>>
  BY DEF SInv, TypeOK, Run
<1>2. /\ worker'[w].at = "told" /\ worker'[w].job = None
      /\ \A v \in Worker : v # w => worker'[v] = worker[v]
  BY <1>1 DEF Run, WorkerType
<1>3. /\ conn' \in [Conn -> ConnType]
      /\ \A c \in Conn : /\ conn'[c].state = conn[c].state /\ conn'[c].pub = conn[c].pub
                         /\ conn'[c].inWorker = conn[c].inWorker /\ conn'[c].head = conn[c].head
                         /\ conn'[c].parent = conn[c].parent
                         /\ c # worker[w].job => conn'[c].done = conn[c].done
  <2>1. CASE worker[w].job \in Conn
    <3> DEFINE q == [conn[worker[w].job] EXCEPT !.done = TRUE]
    <3>1. conn[worker[w].job] \in ConnType
      BY <1>1, <2>1
    <3>2. /\ q \in ConnType /\ q.state = conn[worker[w].job].state
          /\ q.pub = conn[worker[w].job].pub /\ q.inWorker = conn[worker[w].job].inWorker
          /\ q.head = conn[worker[w].job].head /\ q.parent = conn[worker[w].job].parent
      BY <3>1 DEF ConnType
    <3>3. conn' = [conn EXCEPT ![worker[w].job] = q]
      BY DEF Run
    <3> HIDE DEF q
    <3> QED
      BY <1>1, <2>1, <3>2, <3>3
  <2>2. CASE worker[w].job \notin Conn
    <3>1. conn' = conn
      BY <1>1, <2>2 DEF Run
    <3> QED
      BY <1>1, <3>1
  <2> QED
    BY <2>1, <2>2
<1>4. TypeOK'
  <2>1. RestTypes'
    BY <1>1, <1>3 DEF SInv, TypeOK, RestTypes
  <2> QED
    BY <2>1, TypesAgain
<1>5. NoHeads' /\ PagesDone'
  BY <1>3 DEF SInv, NoHeads, PagesDone
<1>6. NetAt' /\ Handled'
  BY <1>1, <1>3 DEF SInv, NetAt, Handled
<1>7. Jobs'
  <2> SUFFICES ASSUME NEW v \in Worker, worker'[v].job # None
               PROVE  /\ worker'[v].at \in {"check", "run"}
                      /\ conn'[worker'[v].job].state = "handling"
                      /\ conn'[worker'[v].job].inWorker \/ net'.on = worker'[v].job
                      /\ ~conn'[worker'[v].job].done
    BY DEF Jobs
  <2>1. v # w /\ worker'[v] = worker[v] /\ worker[v].job \in Conn
    BY <1>1, <1>2 DEF WorkerType
  <2>2. worker[v].job # worker[w].job
    BY <2>1 DEF SInv, OneJob
  <2> QED
    BY <1>1, <1>3, <2>1, <2>2 DEF SInv, Jobs
<1>8. OneJob'
  BY <1>2 DEF SInv, OneJob
<1>9. QueueSound'
  <2>1. ToSet(queue) \subseteq Worker /\ w \notin ToSet(queue)
    <3>1. ToSet(queue) \subseteq Worker
      BY DEF SInv, TypeOK, ToSet
    <3>2. w \notin ToSet(queue)
      BY <1>1 DEF SInv, QueueSound
    <3> QED
      BY <3>1, <3>2
  <2>2. \A c \in Conn : conn[c].pub # None => conn[c].pub \in Worker
    BY DEF SInv, TypeOK, ConnType
  <2> QED
    BY <1>1, <1>2, <1>3, <2>1, <2>2 DEF SInv, QueueSound
<1> QED
  BY <1>4, <1>5, <1>6, <1>7, <1>8, <1>9 DEF SInv

LEMMA RequeueSInv == ASSUME IInv', SInv, NEW w \in Worker, Requeue(w) PROVE SInv'
<1>1. /\ worker \in [Worker -> WorkerType] /\ worker[w].at = "told" /\ queue \in Seq(Worker)
      /\ UNCHANGED <<conn, stop, sigterm, queued, net>>
  BY DEF SInv, TypeOK, Requeue
<1>2. worker[w].job = None /\ w \notin ToSet(queue)
  BY <1>1 DEF SInv, Jobs, QueueSound
<1>3. /\ \A v \in Worker : /\ worker'[v].job = worker[v].job /\ worker'[v].shut = worker[v].shut
                           /\ v # w => worker'[v] = worker[v]
      /\ \/ worker'[w].at = "dead" /\ queue' = queue
         \/ worker'[w].at = "check" /\ ~worker[w].shut /\ queue' = Append(queue, w)
  BY <1>1 DEF Requeue, WorkerType
<1>4. TypeOK'
  <2>1. RestTypes'
    BY <1>1 DEF SInv, TypeOK, RestTypes
  <2> QED
    BY <2>1, TypesAgain
<1>5. NoHeads' /\ PagesDone' /\ NetAt' /\ Handled'
  BY <1>1 DEF SInv, NoHeads, PagesDone, NetAt, Handled
<1>6. Jobs'
  BY <1>1, <1>2, <1>3 DEF SInv, Jobs
<1>7. OneJob'
  BY <1>3 DEF SInv, OneJob
<1>8. QueueSound'
  <2>1. ToSet(queue) \subseteq Worker
    BY <1>1 DEF ToSet
  <2>2. \A c \in Conn : conn[c].pub # None => conn[c].pub \in Worker
    BY DEF SInv, TypeOK, ConnType
  <2>3. CASE worker'[w].at = "dead" /\ queue' = queue
    BY <1>1, <1>2, <1>3, <2>1, <2>2, <2>3 DEF SInv, QueueSound
  <2>4. CASE worker'[w].at = "check" /\ ~worker[w].shut /\ queue' = Append(queue, w)
    <3>1. IsInjective(queue') /\ ToSet(queue') = ToSet(queue) \cup {w}
      BY <1>1, <1>2, <2>4, InjectiveAppend, AppendSet DEF SInv, QueueSound
    <3> QED
      BY <1>1, <1>2, <1>3, <2>1, <2>2, <2>4, <3>1 DEF SInv, QueueSound
  <2> QED
    BY <1>3, <2>3, <2>4
<1> QED
  BY <1>4, <1>5, <1>6, <1>7, <1>8 DEF SInv

\* A connection loses its subscription to a worker that is destroyed, no more.
LEMMA UnsubscribedFacts ==
  ASSUME conn \in [Conn -> ConnType], NEW W, Unsubscribed(W)
  PROVE  /\ conn' \in [Conn -> ConnType] /\ queued' \subseteq queued
         /\ \A c \in Conn : /\ conn'[c].state = conn[c].state /\ conn'[c].inWorker = conn[c].inWorker
                            /\ conn'[c].done = conn[c].done /\ conn'[c].parent = conn[c].parent
                            /\ conn'[c].head = conn[c].head
                            /\ conn'[c].pub = IF conn[c].pub \in W THEN None ELSE conn[c].pub
<1> DEFINE un(c) == [conn[c] EXCEPT !.pub = None]
<1>1. ASSUME NEW c \in Conn
      PROVE  /\ un(c) \in ConnType /\ un(c).state = conn[c].state /\ un(c).inWorker = conn[c].inWorker
             /\ un(c).done = conn[c].done /\ un(c).parent = conn[c].parent
             /\ un(c).head = conn[c].head /\ un(c).pub = None
  BY DEF ConnType
<1>2. conn' = [c \in Conn |-> IF conn[c].pub \in W THEN un(c) ELSE conn[c]]
  BY DEF Unsubscribed
<1>3. queued' \subseteq queued
  BY DEF Unsubscribed
<1> HIDE DEF un
<1> QED
  BY <1>1, <1>2, <1>3

\* What is said of the connections outside of the spin survives it.
LEMMA UnsubscribedKeeps ==
  ASSUME SInv, NEW W, Unsubscribed(W), net.at # "spin", net'.on = None, net'.at = "loop"
  PROVE  NoHeads' /\ PagesDone' /\ NetAt' /\ Handled'
<1>1. net.on = None /\ conn \in [Conn -> ConnType] /\ None \notin Conn
  BY NxServerAssumption DEF SInv, NetAt, TypeOK
<1>2. /\ queued' \subseteq queued
      /\ \A c \in Conn : /\ conn'[c].state = conn[c].state /\ conn'[c].inWorker = conn[c].inWorker
                         /\ conn'[c].parent = conn[c].parent /\ conn'[c].head = conn[c].head
                         /\ conn'[c].pub # None => conn[c].pub # None
  BY <1>1, UnsubscribedFacts
<1>3. NoHeads' /\ PagesDone'
  BY <1>2 DEF SInv, NoHeads, PagesDone
<1>4. NetAt'
  BY DEF NetAt
<1>5. Handled'
  BY <1>1, <1>2 DEF SInv, Handled
<1> QED
  BY <1>3, <1>4, <1>5

LEMMA GCSInv == ASSUME IInv', SInv, GC PROVE SInv'
<1> DEFINE n == IF Len(queue) > MaxIdle THEN (Len(queue) - MaxIdle + 1) \div 2 ELSE 0
           W == {queue[i] : i \in 1..n}
           ws == [w \in Worker |-> IF w \in Destroyed THEN NoWorker
                                   ELSE IF w \in W THEN [worker[w] EXCEPT !.shut = TRUE]
                                   ELSE worker[w]]
<1>1. /\ worker \in [Worker -> WorkerType] /\ conn \in [Conn -> ConnType]
      /\ queue \in Seq(Worker) /\ IsInjective(queue) /\ net.at = "gc" /\ net.on = None
  BY DEF SInv, TypeOK, GC, QueueSound, NetAt
<1>2. n \in Nat /\ n <= Len(queue)
  BY <1>1, NxServerAssumption
<1>3. /\ queue' = SubSeq(queue, n + 1, Len(queue)) /\ worker' = Woken(ws, W)
      /\ Unsubscribed(Destroyed) /\ net' = [net EXCEPT !.at = "loop"]
      /\ UNCHANGED <<stop, sigterm>>
  BY DEF GC
<1> HIDE DEF n
<1>4. /\ IsInjective(queue') /\ ToSet(queue') \subseteq ToSet(queue)
      /\ ToSet(queue') \cap W = {}
  BY <1>1, <1>2, <1>3, RestInjective
<1> HIDE DEF W
<1>5. \A w \in Worker : /\ w \in Destroyed => worker'[w].job = None
                        /\ w \notin Destroyed => /\ worker'[w].job = worker[w].job
                                                 /\ worker'[w].at # "none" \/ worker[w].at = "none"
                                                 /\ worker[w].at \in {"check", "run"} =>
                                                      worker'[w].at = worker[w].at
                        /\ w \notin Destroyed /\ w \notin W => worker'[w] = worker[w]
  BY <1>1, <1>3 DEF Woken, NoWorker, WorkerType
<1>6. \A w \in Destroyed : w \in Worker /\ worker[w].at = "dead"
  BY DEF Destroyed
<1>7. net'.on = None /\ net'.at = "loop" /\ net' \in [at : {"loop"}, on : {None}]
  BY <1>1, <1>3 DEF SInv, TypeOK
<1>8. /\ conn' \in [Conn -> ConnType] /\ queued' \subseteq queued
      /\ \A c \in Conn : /\ conn'[c].state = conn[c].state /\ conn'[c].inWorker = conn[c].inWorker
                         /\ conn'[c].done = conn[c].done
                         /\ conn'[c].pub = IF conn[c].pub \in Destroyed THEN None ELSE conn[c].pub
  BY <1>1, <1>3, UnsubscribedFacts
<1>9. NoHeads' /\ PagesDone' /\ NetAt' /\ Handled'
  BY <1>1, <1>3, <1>7, UnsubscribedKeeps
<1>10. TypeOK'
  <2>1. RestTypes'
    BY <1>3, <1>7, <1>8 DEF SInv, TypeOK, RestTypes
  <2> QED
    BY <2>1, TypesAgain
<1>11. \A w \in Worker : worker'[w].job # None => /\ worker'[w].job = worker[w].job
                                                  /\ worker'[w].at = worker[w].at
  <2> SUFFICES ASSUME NEW w \in Worker, worker'[w].job # None
               PROVE  worker'[w].job = worker[w].job /\ worker'[w].at = worker[w].at
    OBVIOUS
  <2>1. w \notin Destroyed /\ worker'[w].job = worker[w].job
    BY <1>5
  <2>2. worker[w].at \in {"check", "run"}
    BY <2>1 DEF SInv, Jobs
  <2> QED
    BY <2>1, <2>2, <1>5
<1>12. OneJob'
  BY <1>11 DEF SInv, OneJob
<1>13. Jobs'
  <2> SUFFICES ASSUME NEW v \in Worker, worker'[v].job # None
               PROVE  /\ worker'[v].at \in {"check", "run"}
                      /\ conn'[worker'[v].job].state = "handling"
                      /\ conn'[worker'[v].job].inWorker
                      /\ ~conn'[worker'[v].job].done
    BY DEF Jobs
  <2>1. worker'[v].job = worker[v].job /\ worker'[v].at = worker[v].at /\ worker[v].job \in Conn
    BY <1>1, <1>11 DEF WorkerType
  <2> QED
    BY <1>1, <1>8, <2>1, NxServerAssumption DEF SInv, Jobs
<1>14. QueueSound'
  <2>1. \A w \in ToSet(queue') : /\ w \in Worker /\ w \in ToSet(queue) /\ w \notin W
                                 /\ worker[w].at \in {"check", "wait"}
    <3>1. ToSet(queue) \subseteq Worker
      BY <1>1 DEF ToSet
    <3> QED
      BY <3>1, <1>4 DEF SInv, QueueSound
  <2>2. \A w \in ToSet(queue') : worker'[w] = worker[w]
    BY <2>1, <1>5, <1>6
  <2>3. ASSUME NEW c \in Conn, conn'[c].pub # None PROVE worker'[conn'[c].pub].at # "none"
    <3>1. conn'[c].pub = conn[c].pub /\ conn[c].pub \notin Destroyed /\ conn[c].pub \in Worker
      BY <2>3, <1>1, <1>8 DEF ConnType
    <3>2. worker[conn[c].pub].at # "none"
      BY <3>1, <2>3 DEF SInv, QueueSound
    <3> QED
      BY <3>1, <3>2, <1>5
  <2> QED
    BY <1>4, <2>1, <2>2, <2>3 DEF SInv, QueueSound
<1> QED
  BY <1>9, <1>10, <1>12, <1>13, <1>14 DEF SInv

LEMMA ShutdownSInv == ASSUME IInv', SInv, Shutdown PROVE SInv'
<1>1. /\ worker \in [Worker -> WorkerType] /\ net.on = None
      /\ net' = [at |-> "join", on |-> None] /\ stop' = TRUE /\ queue' = <<>>
      /\ worker' = Woken(worker, Signalled)
      /\ UNCHANGED <<conn, sigterm, queued>>
  BY DEF SInv, TypeOK, Shutdown, NetAt, Looping
<1>2. \A w \in Worker : /\ worker'[w].job = worker[w].job
                        /\ worker'[w].at = worker[w].at \/ (worker[w].at = "wait" /\ worker'[w].at = "check")
  BY <1>1 DEF Woken, WorkerType
<1>3. TypeOK'
  <2>1. RestTypes'
    BY <1>1 DEF SInv, TypeOK, RestTypes
  <2> QED
    BY <2>1, TypesAgain
<1>4. NoHeads' /\ PagesDone' /\ NetAt' /\ Handled'
  BY <1>1 DEF SInv, NoHeads, PagesDone, NetAt, Handled
<1>5. Jobs' /\ OneJob'
  BY <1>1, <1>2 DEF SInv, Jobs, OneJob
<1>6. QueueSound'
  <2>1. IsInjective(queue') /\ ToSet(queue') = {}
    BY <1>1 DEF IsInjective, ToSet
  <2>2. \A c \in Conn : conn[c].pub # None => conn[c].pub \in Worker
    BY DEF SInv, TypeOK, ConnType
  <2> QED
    BY <1>1, <1>2, <2>1, <2>2 DEF SInv, QueueSound
<1> QED
  BY <1>3, <1>4, <1>5, <1>6 DEF SInv

LEMMA JoinSInv == ASSUME IInv, IInv', SInv, Join PROVE SInv'
<1>1. /\ conn \in [Conn -> ConnType] /\ net.at = "join" /\ net.on = None
      /\ net' = [at |-> "loop", on |-> None] /\ stop /\ queue = <<>>
      /\ worker' = [w \in Worker |-> NoWorker] /\ Unsubscribed(Worker)
      /\ UNCHANGED <<queue, stop, sigterm>>
  BY DEF SInv, TypeOK, Join, NetAt, IInv, EmptyAtEnd
<1>2. conn' \in [Conn -> ConnType] /\ queued' \subseteq queued
  BY <1>1, UnsubscribedFacts
<1>3. \A c \in Conn : conn'[c].pub = None
  <2>1. \A c \in Conn : conn'[c].pub = IF conn[c].pub \in Worker THEN None ELSE conn[c].pub
    BY <1>1, UnsubscribedFacts
  <2> QED
    BY <1>1, <2>1 DEF ConnType
<1>4. NoHeads' /\ PagesDone' /\ NetAt' /\ Handled'
  BY <1>1, UnsubscribedKeeps
<1>5. TypeOK'
  <2>1. RestTypes'
    BY <1>1, <1>2 DEF SInv, TypeOK, RestTypes
  <2> QED
    BY <2>1, TypesAgain
<1>6. Jobs' /\ OneJob'
  BY <1>1 DEF Jobs, OneJob, NoWorker
<1>7. QueueSound'
  <2>1. IsInjective(queue') /\ ToSet(queue') = {}
    BY <1>1 DEF IsInjective, ToSet
  <2> QED
    BY <1>3, <2>1 DEF QueueSound
<1> QED
  BY <1>4, <1>5, <1>6, <1>7 DEF SInv

LEMMA ExitSInv == ASSUME IInv', SInv, Exit PROVE SInv'
<1>1. \A c \in Conn : conn'[c] = Free
  BY DEF Exit
<1>2. /\ \A w \in Worker : worker'[w] = NoWorker
      /\ queue' = <<>> /\ queued' = {} /\ net' = [at |-> "ended", on |-> None]
      /\ conn' = [c \in Conn |-> Free] /\ UNCHANGED <<stop, sigterm>>
  BY DEF Exit
<1>3. TypeOK'
  <2>1. RestTypes'
    BY <1>2, FreeType DEF SInv, TypeOK, RestTypes
  <2> QED
    BY <2>1, TypesAgain
<1>4. None \notin Conn
  BY NxServerAssumption
<1>5. NoHeads' /\ NetAt'
  BY <1>1, <1>2 DEF NoHeads, NetAt, Free
<1>6. Handled'
  BY <1>1, <1>2, <1>4 DEF Handled, Free
<1>7. PagesDone'
  BY <1>1, <1>4 DEF PagesDone, Free
<1>8. Jobs' /\ OneJob'
  BY <1>2 DEF Jobs, OneJob, NoWorker
<1>9. QueueSound'
  <2>1. IsInjective(queue') /\ ToSet(queue') = {}
    BY <1>2 DEF IsInjective, ToSet
  <2> QED
    BY <1>1, <2>1 DEF QueueSound, Free
<1> QED
  BY <1>3, <1>5, <1>6, <1>7, <1>8, <1>9 DEF SInv

LEMMA SigtermSInv == ASSUME IInv', SInv, UNCHANGED <<conn, worker, queue, stop, queued>>,
                            sigterm' \in BOOLEAN, net' = net \/ (Idle /\ net' = [net EXCEPT !.at = "gc"])
                     PROVE  SInv'
<1>1. /\ net' \in [at : {"loop", "gc", "spin", "join", "ended"}, on : Conn \cup {None}]
      /\ net'.on = net.on
      /\ net' = net \/ (net.at = "loop" /\ net'.at = "gc")
  BY DEF SInv, TypeOK, Idle, Looping
<1>2. TypeOK'
  <2>1. RestTypes'
    BY <1>1 DEF SInv, TypeOK, RestTypes
  <2> QED
    BY <2>1, TypesAgain
<1>3. NoHeads' /\ PagesDone' /\ OneJob' /\ QueueSound'
  BY DEF SInv, NoHeads, PagesDone, OneJob, QueueSound
<1>4. NetAt' /\ Handled' /\ Jobs'
  BY <1>1 DEF SInv, NetAt, Handled, Jobs
<1> QED
  BY <1>2, <1>3, <1>4 DEF SInv

LEMMA StepSInv == ASSUME ~HeadPages, IInv, IInv', SInv, [Next]_vars PROVE SInv'
<1>1. CASE \E c \in Conn : Handles(c) \/ ResponseReady(c)
  BY <1>1, RequestSInv, ReuseSInv, CreateSInv DEF Handles
<1>2. CASE \E c \in Conn : Cleanup(c) \/ Complete(c) \/ \E s \in Conn : Include(c, s)
  BY <1>2, CleanupSInv, CompleteSInv, IncludeSInv
<1>3. CASE \E w \in Worker : Emit(w) \/ WorkerThread(w)
  BY <1>3, EmitSInv, CheckSInv, RunSInv, RequeueSInv DEF WorkerThread
<1>4. CASE Network
  BY <1>4, RequestSInv, ErrorSInv DEF Network
<1>5. CASE SpinOver \/ GC \/ Shutdown \/ Join
  BY <1>5, SpinOverSInv, GCSInv, ShutdownSInv, JoinSInv
<1>6. CASE LoopEnds \/ Alarm
  BY <1>6, ExitSInv DEF LoopEnds, Alarm
<1>7. CASE Idle \/ Sigterm
  <2>1. sigterm' \in BOOLEAN
    BY <1>7 DEF SInv, TypeOK, Idle, Sigterm
  <2> QED
    BY <1>7, <2>1, SigtermSInv DEF Idle, Sigterm
<1>8. CASE UNCHANGED vars
  <2>1. sigterm' \in BOOLEAN
    BY <1>8 DEF SInv, TypeOK, vars
  <2> QED
    BY <1>8, <2>1, SigtermSInv DEF vars
<1> QED
  BY <1>1, <1>2, <1>3, <1>4, <1>5, <1>6, <1>7, <1>8 DEF Next, NetThread

-----------------------------------------------------------------------------
\* Connections, workers and their queue fit each other, whatever their numbers: no
\* connection is freed or answered while a worker runs its handler, and no worker
\* is twice in the queue, or there with a job.  With HEAD requests for pages it is
\* not so.
THEOREM ServerIsSound == ASSUME ~HeadPages PROVE Spec => []ServerSound
<1>1. Init => IInv /\ SInv
  BY InitIInv, InitSInv
<1>2. IInv /\ SInv /\ [Next]_vars => (IInv /\ SInv)'
  BY StepIInv, StepSInv
<1> QED
  BY <1>1, <1>2, SInvIsEnough, PTL DEF Spec
=============================================================================
