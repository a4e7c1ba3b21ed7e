------------------------------ MODULE NxServer ------------------------------
(***************************************************************************)
(* One network thread of nxweb with its pool of worker threads             *)
(* (lib/http_server.c, lib/nx_workers.c, include/nxweb/nx_queue_tpl.h).    *)
(*                                                                         *)
(* The network thread runs an event loop; each of its actions below is the *)
(* handler of one event.  A handler marked INWORKER is given to a worker   *)
(* thread, which reports the end through its own eventfd and then puts     *)
(* itself back into the queue of idle workers.  A page (the ssi filter)    *)
(* includes the responses of subrequests, connections without a socket     *)
(* that live as long as the request of their parent.                       *)
(*                                                                         *)
(* Events that wait in the loop are delivered in any order here; the loop  *)
(* delivers them in the order they were published.                         *)
(***************************************************************************)
EXTENDS Naturals, Sequences, FiniteSets, SequencesExt

CONSTANTS Conn,       \* objects of free_conn_pool
          Worker,     \* objects nxw_create_worker may allocate
          None,
          MaxWorkers, \* NXWEB_MAX_WORKERS
          MaxIdle,    \* NXWEB_MAX_IDLE_WORKERS_IN_QUEUE
          QueueCap,   \* NXWEB_MAX_WORKERS_IN_QUEUE - 1, what the ring can hold
          Clients,    \* bound: connections with a socket at a time
          Includes,   \* bound: subrequests of a page
          HeadPages   \* whether clients send HEAD requests for pages

ASSUME NxServerAssumption ==
  /\ None \notin Conn \cup Worker
  /\ {MaxWorkers, MaxIdle, QueueCap, Clients, Includes} \subseteq Nat
  /\ HeadPages \in BOOLEAN

VARIABLES
  conn,    \* the connections
  worker,  \* the workers
  queue,   \* factory->queue: idle workers
  stop,    \* factory->shutdown_in_progress
  sigterm, \* shutdown_in_progress of the process
  queued,  \* connections whose worker_complete message is in the loop
  net      \* where the network thread is

vars == <<conn, worker, queue, stop, sigterm, queued, net>>

\* state is hsp.state with the published events: a request is "received", a
\* response "complete" while that event waits in the loop; a subrequest is
\* "sending" while its RESPONSE_READY does, and "answered" after.
Free  == [state |-> "free", parent |-> None, closing |-> FALSE, inWorker |-> FALSE,
          pub |-> None, done |-> FALSE, todo |-> 0, head |-> FALSE]
ConnType == [state : {"free", "waiting", "received", "handling", "sending", "complete", "answered"},
             parent : Conn \cup {None}, closing : BOOLEAN, inWorker : BOOLEAN,
             pub : Worker \cup {None}, done : BOOLEAN,
             todo : 0..Includes, head : BOOLEAN]

\* at: "check" is the test of the loop around pthread_cond_wait, "run" the
\* job, and "told" is after job_done and the eventfd.
NoWorker == [at |-> "none", job |-> None, shut |-> FALSE, efs |-> FALSE]
WorkerType == [at : {"none", "check", "wait", "run", "told", "dead"},
               job : Conn \cup {None}, shut : BOOLEAN, efs : BOOLEAN]

Init == /\ conn = [c \in Conn |-> Free]
        /\ worker = [w \in Worker |-> NoWorker]
        /\ queue = <<>>
        /\ stop = FALSE
        /\ sigterm = FALSE
        /\ queued = {}
        /\ net = [at |-> "loop", on |-> None]

Looping == net.at = "loop"
Subs(c) == {s \in Conn : conn[s].parent = c}
Count == Cardinality({w \in Worker : worker[w].at # "none"})

-----------------------------------------------------------------------------
\* Closing connections.

\* nxweb_http_server_connection_check_if_can_close: marks the connection and
\* its subrequests, and refuses while one of them is in a worker.
\* Mutant: only the connection itself is asked.
AsksItself(c) == ~conn[c].inWorker
CanClose(c) == \A d \in {c} \cup Subs(c) : ~conn[d].inWorker

\* nxweb_http_server_connection_do_finalize of the connections in D.
Freed(cs, D) == [c \in Conn |-> IF c \in D THEN Free ELSE cs[c]]

\* nxweb_http_server_connection_finalize of a connection with a socket.
Finalized(cs, c) ==
  IF CanClose(c) THEN Freed(cs, {c} \cup Subs(c))
  ELSE [d \in Conn |-> IF d \in {c} \cup Subs(c) THEN [cs[d] EXCEPT !.closing = TRUE] ELSE cs[d]]

\* ... of a subrequest: its parent puts an error text in its place, once.
SubFailed(cs, c) == [cs EXCEPT ![c].state = "answered"]

\* A client goes away or one of the connection's timers ends: an event with
\* negative data.  While a handler runs there is no timer.
Error(c) ==
  /\ Looping
  /\ conn[c].state # "free"
  /\ conn[c].parent = None
  /\ conn' = Finalized(conn, c)
  /\ queued' = {d \in queued : conn'[d].state # "free"}
  /\ UNCHANGED <<worker, queue, stop, sigterm, net>>

-----------------------------------------------------------------------------
\* Requests.

Accept(c) ==
  /\ Looping
  /\ ~sigterm
  /\ conn[c] = Free
  /\ Cardinality({d \in Conn : conn[d].state # "free" /\ conn[d].parent = None}) < Clients
  /\ conn' = [conn EXCEPT ![c].state = "waiting"]
  /\ UNCHANGED <<worker, queue, stop, sigterm, queued, net>>

Receive(c) ==
  /\ Looping
  /\ conn[c].state = "waiting"
  /\ conn' = [conn EXCEPT ![c].state = "received"]
  /\ UNCHANGED <<worker, queue, stop, sigterm, queued, net>>

\* The handler of a received request answers it, as a page perhaps; a
\* subrequest is a GET of something that is not a page.
Answer(c) ==
  /\ Looping
  /\ conn[c].state = "received"
  /\ \E todo \in IF conn[c].parent = None THEN 0..Includes ELSE {0}, head \in BOOLEAN :
       /\ head => todo > 0 /\ HeadPages
       /\ conn' = [conn EXCEPT ![c].state = "sending", ![c].todo = todo, ![c].head = head]
  /\ UNCHANGED <<worker, queue, stop, sigterm, queued, net>>

\* invoke_request_handler does nothing for a connection that is closing.
Ignore(c) ==
  /\ Looping
  /\ conn[c].state = "received" /\ conn[c].closing
  /\ conn' = [conn EXCEPT ![c].state = "handling"]
  /\ UNCHANGED <<worker, queue, stop, sigterm, queued, net>>

\* nxw_start_worker, called with the worker nxw_get_worker has returned.
Started(ws, w, c) == [ws EXCEPT ![w].job = c, ![w].at = IF @ = "check" THEN @ ELSE "run"]

Dispatch(c, w) ==
  /\ conn' = [conn EXCEPT ![c].state = "handling", ![c].inWorker = TRUE,
                          ![c].pub = w, ![c].done = FALSE]
  /\ worker' = Started(worker, w, c)
  /\ UNCHANGED <<stop, sigterm, queued, net>>

CanDispatch(c) == /\ Looping
                  /\ conn[c].state = "received" /\ ~conn[c].closing
                  /\ ~stop

Reuse(c) == /\ CanDispatch(c)
            /\ queue # <<>>
            /\ Dispatch(c, Head(queue))
            /\ queue' = Tail(queue)

Create(c, w) == /\ CanDispatch(c)
                /\ queue = <<>>
                /\ Count <= MaxWorkers
                /\ worker[w].at = "none"
                /\ Dispatch(c, w)
                /\ UNCHANGED queue

\* nxw_get_worker returned nothing (Answer is also the 503 that follows).

\* Whether the page has an include left.
\* Mutant: text after the last include is taken for one.
AlwaysLeft(c) == TRUE
Left(c) == conn[c].todo > 0

\* The ssi filter reads on and finds an include: nxweb_http_server_subrequest_start.
Include(c, s) ==
  /\ Looping
  /\ conn[c].state = "sending" /\ Left(c)
  /\ IF conn[c].closing
     THEN conn' = [conn EXCEPT ![c].todo = @ - 1]
     ELSE /\ conn[s] = Free
          /\ conn' = [conn EXCEPT ![c].todo = @ - 1,
                                  ![s] = [Free EXCEPT !.parent = c, !.state = "received"]]
  /\ UNCHANGED <<worker, queue, stop, sigterm, queued, net>>

\* NXD_HSP_RESPONSE_READY: the parent connects the response to its own.
ResponseReady(s) ==
  /\ Looping
  /\ conn[s].state = "sending" /\ conn[s].parent # None
  /\ conn' = [conn EXCEPT ![s].state = "answered"]
  /\ UNCHANGED <<worker, queue, stop, sigterm, queued, net>>

\* The last byte of a response is written: of its headers for a HEAD request.
Sent(c) ==
  /\ Looping
  /\ conn[c].state = "sending" /\ conn[c].parent = None
  /\ conn[c].head \/ (conn[c].todo = 0 /\ \A s \in Subs(c) : conn[s].state = "answered")
  /\ conn' = [conn EXCEPT ![c].state = "complete"]
  /\ UNCHANGED <<worker, queue, stop, sigterm, queued, net>>

\* request_cleanup: _nxweb_call_request_finalizers frees the subrequests.
Cleanup(c) ==
  /\ Looping
  /\ conn[c].state = "complete"
  /\ conn' = [Freed(conn, Subs(c)) EXCEPT ![c].state = "waiting", ![c].todo = 0, ![c].head = FALSE]
  /\ queued' = queued \ Subs(c)
  /\ UNCHANGED <<worker, queue, stop, sigterm, net>>

-----------------------------------------------------------------------------
\* The end of a job, seen by the network thread.

\* eventfd_source_emit publishes to the subscribers of the moment.
Emit(w) ==
  /\ Looping
  /\ worker[w].efs
  /\ worker' = [worker EXCEPT ![w].efs = FALSE]
  /\ queued' = queued \cup {c \in Conn : conn[c].pub = w}
  /\ UNCHANGED <<conn, queue, stop, sigterm, net>>

\* The message may be about an earlier job of the worker: the thread spins
\* until this one is done.
Complete(c) ==
  /\ Looping
  /\ c \in queued
  /\ queued' = queued \ {c}
  /\ conn' = [conn EXCEPT ![c].pub = None, ![c].inWorker = FALSE]
  /\ net' = [at |-> "spin", on |-> c]
  /\ UNCHANGED <<worker, queue, stop, sigterm>>

\* Mutant: the message is taken for the end of the job.
NoSpin(c) == TRUE
Waited(c) == conn[c].done

SpinOver ==
  /\ net.at = "spin"
  /\ Waited(net.on)
  /\ net' = [at |-> "loop", on |-> None]
  /\ LET c == net.on IN
     conn' = IF ~conn[c].closing THEN [conn EXCEPT ![c].state = "sending", ![c].done = FALSE]
             ELSE IF conn[c].parent = None THEN Finalized(conn, c)
             ELSE SubFailed(conn, c)
  /\ queued' = {d \in queued : conn'[d].state # "free"}
  /\ UNCHANGED <<worker, queue, stop, sigterm>>

-----------------------------------------------------------------------------
\* nxw_worker_main.

Running == net.at # "ended"

Check(w) ==
  /\ Running
  /\ worker[w].at = "check"
  /\ worker' = [worker EXCEPT ![w].at =
                  IF worker[w].job # None THEN "run"
                  ELSE IF worker[w].shut \/ stop THEN "dead" ELSE "wait"]
  /\ UNCHANGED <<conn, queue, stop, sigterm, queued, net>>

\* The job is over: do_job is cleared, job_done set and the eventfd written.
\* Mutant: only a connection that is not closing is told.
TellsOpen(w) == \E c \in Conn : conn[c].pub = w /\ ~conn[c].closing
Tells(w) == TRUE

Run(w) ==
  /\ Running
  /\ worker[w].at = "run"
  /\ worker' = [worker EXCEPT ![w].at = "told", ![w].job = None, ![w].efs = @ \/ Tells(w)]
  /\ conn' = [conn EXCEPT ![worker[w].job].done = TRUE]
  /\ UNCHANGED <<queue, stop, sigterm, queued, net>>

\* Under queue_mux: nx_queue_workers_push, or the end of the thread.
Requeue(w) ==
  /\ Running
  /\ worker[w].at = "told"
  /\ LET dies == worker[w].shut \/ stop \/ Len(queue) >= QueueCap
     IN  /\ worker' = [worker EXCEPT ![w].at = IF dies THEN "dead" ELSE "check"]
         /\ queue' = IF dies THEN queue ELSE Append(queue, w)
  /\ UNCHANGED <<conn, stop, sigterm, queued, net>>

-----------------------------------------------------------------------------
\* The end of workers.

\* nxw_destroy_worker: the eventfd is unregistered with its subscribers and
\* what waits in the loop for them.
Unsubscribed(W) == /\ conn' = [c \in Conn |-> IF conn[c].pub \in W THEN [conn[c] EXCEPT !.pub = None] ELSE conn[c]]
                   /\ queued' = {c \in queued : conn[c].pub \notin W}

\* Signals the workers in W, which the caller has taken from the queue.
Woken(ws, W) == [w \in Worker |-> IF w \in W /\ ws[w].at = "wait" THEN [ws[w] EXCEPT !.at = "check"] ELSE ws[w]]

\* Mutant: every worker that is not running a job is destroyed.
DestroysIdle == {w \in Worker : worker[w].at \in {"dead", "wait"}}
Destroyed == {w \in Worker : worker[w].at = "dead"}

\* epoll_wait returns with nothing, and nothing is left to deliver: the loop
\* calls its gc next.  A worker may go on in between.
Idle ==
  /\ Looping
  /\ queued = {}
  /\ \A c \in Conn : conn[c].state \notin {"received", "complete"}
  /\ \A c \in Conn : conn[c].state = "sending" => conn[c].parent = None
  /\ \A w \in Worker : ~worker[w].efs
  /\ net' = [net EXCEPT !.at = "gc"]
  /\ UNCHANGED <<conn, worker, queue, stop, sigterm, queued>>

\* nxw_gc_factory destroys dead workers and retires half of the idle ones in
\* excess.
GC ==
  /\ net.at = "gc"
  /\ LET extra == IF Len(queue) > MaxIdle THEN (Len(queue) - MaxIdle + 1) \div 2 ELSE 0
         W     == {queue[i] : i \in 1..extra}
     IN  /\ queue' = SubSeq(queue, extra + 1, Len(queue))
         /\ worker' = Woken([w \in Worker |-> IF w \in Destroyed THEN NoWorker
                                              ELSE IF w \in W THEN [worker[w] EXCEPT !.shut = TRUE]
                                              ELSE worker[w]], W)
  /\ Unsubscribed(Destroyed)
  /\ net' = [net EXCEPT !.at = "loop"]
  /\ UNCHANGED <<stop, sigterm>>

\* on_sigterm, in the main thread.
Sigterm == /\ Running
           /\ ~sigterm
           /\ sigterm' = TRUE
           /\ UNCHANGED <<conn, worker, queue, stop, queued, net>>

\* nxw_finalize_factory.
\* Mutant: workers in the queue are not signalled.
SignalsNone == {}
Signalled == ToSet(queue)

Shutdown == /\ Looping
            /\ sigterm /\ ~stop
            /\ stop' = TRUE
            /\ queue' = <<>>
            /\ worker' = Woken(worker, Signalled)
            /\ net' = [at |-> "join", on |-> None]
            /\ UNCHANGED <<conn, sigterm, queued>>

\* pthread_join and nxw_destroy_worker of every worker.
Join == /\ net.at = "join"
        /\ \A w \in Worker : worker[w].at \in {"none", "dead"}
        /\ worker' = [w \in Worker |-> NoWorker]
        /\ Unsubscribed(Worker)
        /\ net' = [at |-> "loop", on |-> None]
        /\ UNCHANGED <<queue, stop, sigterm>>

\* The process ends, and its threads and connections with it: nxe_run returns
\* when no connection is left, or SIGALRM comes first.
Exit == /\ net' = [at |-> "ended", on |-> None]
        /\ conn' = [c \in Conn |-> Free]
        /\ worker' = [w \in Worker |-> NoWorker]
        /\ queue' = <<>>
        /\ queued' = {}
        /\ UNCHANGED <<stop, sigterm>>

LoopEnds == Looping /\ stop /\ (\A c \in Conn : conn[c] = Free) /\ Exit

Alarm == Running /\ sigterm /\ Exit

-----------------------------------------------------------------------------
Handles(c) == \/ Answer(c) \/ Ignore(c) \/ Reuse(c) \/ \E w \in Worker : Create(c, w)
NetThread == \/ \E c \in Conn : \/ Handles(c) \/ ResponseReady(c) \/ Cleanup(c) \/ Complete(c)
                                \/ \E s \in Conn : Include(c, s)
             \/ \E w \in Worker : Emit(w)
             \/ SpinOver \/ Idle \/ GC \/ Shutdown \/ Join \/ LoopEnds
WorkerThread(w) == Check(w) \/ Run(w) \/ Requeue(w)
Network == \E c \in Conn : Accept(c) \/ Receive(c) \/ Sent(c) \/ Error(c)

Next == NetThread \/ (\E w \in Worker : WorkerThread(w)) \/ Network \/ Sigterm \/ Alarm

Spec == Init /\ [][Next]_vars

\* Worker threads run, the network thread does not stop in a handler, and the
\* loop delivers what waits in it: an event is not passed over for ever by
\* the handlers of others, during which no other is delivered.
Fairness == /\ \A c \in Conn : SF_vars(Complete(c))
            /\ \A w \in Worker : SF_vars(Emit(w)) /\ WF_vars(WorkerThread(w))
            /\ WF_vars(SpinOver \/ GC)

FairSpec == Spec /\ Fairness

-----------------------------------------------------------------------------
TypeOK == /\ conn \in [Conn -> ConnType]
          /\ worker \in [Worker -> WorkerType]
          /\ queue \in Seq(Worker)
          /\ {stop, sigterm} \subseteq BOOLEAN
          /\ queued \subseteq Conn
          /\ net \in [at : {"loop", "gc", "spin", "join", "ended"}, on : Conn \cup {None}]

\* "can't close while worker is running" (http_server.c:635): the connection a
\* worker runs a handler for is not freed, nor given to another client.
WorkersHoldConn ==
  \A w \in Worker : worker[w].job # None =>
     /\ conn[worker[w].job].state = "handling"
     /\ conn[worker[w].job].inWorker \/ net.on = worker[w].job

\* A response is sent only after the worker that writes it has finished,
\* although the worker's eventfd may still report an earlier job.
NoEarlyAnswer ==
  \A c \in Conn : conn[c].state \in {"sending", "answered", "complete"} =>
     \A w \in Worker : worker[w].job # c

\* What is in the queue can be started: a worker that waits for a job, once.
QueueSound == /\ IsInjective(queue)
              /\ \A w \in ToSet(queue) : /\ worker[w].at \in {"check", "wait"}
                                         /\ worker[w].job = None
                                         /\ ~worker[w].shut
              /\ \A c \in Conn : conn[c].pub # None => worker[conn[c].pub].at # "none"

\* Connections, workers and their queue fit each other: all of the above.
ServerSound == TypeOK /\ WorkersHoldConn /\ NoEarlyAnswer /\ QueueSound

\* No worker sleeps through the end of the factory, which joins every worker.
StopReachesAll == stop => \A w \in Worker : worker[w].at # "wait"

\* A connection comes back from its worker, and is closed then if it could not
\* be before ("marked for closing immediately after worker thread completes",
\* http_server.c:659), unless the server stops.
JobsReturn == \A c \in Conn :
  conn[c].inWorker ~> \/ sigterm
                      \/ ~conn[c].inWorker /\ (conn[c].parent = None => ~conn[c].closing)
=============================================================================
