------------------------------ MODULE ApiHttp ------------------------------
(***************************************************************************)
(* How the client fetches a configuration: API_HTTP::GET_SYNC and          *)
(* downloadOVPNConfiguration (backend/api_http.cpp), called by             *)
(* Obhod123::onConnect.  GET_SYNC waits in an event loop of its own, so    *)
(* whatever that loop runs may fetch again: the calls are a stack, and     *)
(* only the innermost loop runs.  A call that got nothing makes onConnect  *)
(* replace the network manager that all calls share; Qt deletes the old    *)
(* one, with its requests, when control is back in the loop that asked.    *)
(*                                                                         *)
(* An answer is here not at all, in part or whole.  Qt's objects and the   *)
(* server are external.                                                    *)
(***************************************************************************)
EXTENDS Naturals, Sequences, FiniteSets

CONSTANTS MaxDepth,   \* bound: calls within calls
          MaxFetches  \* bound: calls

VARIABLES
  manager,   \* the number of the current QNetworkAccessManager
  dying,     \* the managers to be deleted, each with the level of its loop
  stack,     \* the calls of GET_SYNC, the innermost last
  fetches,   \* calls so far
  last       \* the call that returned last, and what onConnect made of it

fetchVars == <<manager, dying, stack, fetches, last>>

Level == Len(stack)
Frames == 1..Level

\* A call: its manager, its reply, and whether its loop was told to quit.
FetchCall(m) == [manager |-> m, have |-> "none", finished |-> FALSE, failed |-> FALSE,
                 reply |-> TRUE, timedOut |-> FALSE, quit |-> FALSE]

FetchInit ==
  /\ manager = 1
  /\ dying = {}
  /\ stack = <<>> /\ fetches = 0
  /\ last = [call |-> FetchCall(1), conn |-> "none"]

-----------------------------------------------------------------------------
\* onConnect asks for the configuration; the innermost loop runs it.  What is
\* not to do with fetching (module ObhodSession) does not keep it from that.
Connect ==
  /\ Level < MaxDepth /\ fetches < MaxFetches
  /\ stack' = Append(stack, FetchCall(manager))
  /\ fetches' = fetches + 1
  /\ UNCHANGED <<manager, dying, last>>

\* A request that can still be answered.
Unanswered(i) == stack[i].reply /\ ~stack[i].finished

Progress == [none |-> {"part", "all"}, part |-> {"all"}, all |-> {}]

Arrive(i) ==
  /\ Unanswered(i)
  /\ \E h \in Progress[stack[i].have] : stack' = [stack EXCEPT ![i].have = h]
  /\ UNCHANGED <<manager, dying, fetches, last>>

\* Mutant: every answer through the manager ends the wait.
AnyReply(i, j) == stack[i].manager = stack[j].manager

\* The call whose reply r == reply ends.
OwnReply(i, j) == i = j

\* finished, with the whole answer or an error; the manager tells all calls.
Finish(i) ==
  /\ Unanswered(i)
  /\ stack' = [j \in Frames |->
       [stack[j] EXCEPT !.quit = @ \/ OwnReply(i, j),
                        !.finished = @ \/ i = j,
                        !.failed = @ \/ (i = j /\ stack[i].have # "all")]]
  /\ UNCHANGED <<manager, dying, fetches, last>>

\* Mutant: the timer is the reply's, and gone with it.
ReplysTimer(c) == c.reply

\* QTimer::singleShot(timeout, loop, quit).
HasTimer(c) == TRUE

\* The same time for all calls: the earlier call's timer is the earlier one.
Timeout(i) ==
  /\ ~stack[i].timedOut /\ HasTimer(stack[i])
  /\ \A j \in 1..(i - 1) : stack[j].timedOut
  /\ stack' = [stack EXCEPT ![i].timedOut = TRUE, ![i].quit = TRUE]
  /\ UNCHANGED <<manager, dying, fetches, last>>

-----------------------------------------------------------------------------
\* readAll, unless the reply is gone.
ReadAll(c) == IF c.reply THEN c.have ELSE "none"

\* downloadOVPNConfiguration: nothing, an answer that decrypts to nothing, or a
\* configuration (of a part: whatever that decrypts to).
Connections(answer) == IF answer = "none" THEN {""} ELSE {"\n", "config"}

\* Mutant: an answer that cannot be used counts as none.
Unusable(conn) == conn # "config"

\* o.conn.isEmpty().
Resets(conn) == conn = ""

\* Mutant: the old manager is deleted, and used on.
SameManager == manager

\* resetNAM makes a new one.
NewManager == manager + 1

\* The innermost loop returns, GET_SYNC after it, and onConnect takes the
\* result.
Return ==
  /\ Level > 0 /\ stack[Level].quit
  /\ \E conn \in Connections(ReadAll(stack[Level])) :
       /\ last' = [call |-> stack[Level], conn |-> conn]
       /\ IF Resets(conn)
          THEN /\ dying' = dying \cup {<<manager, Level - 1>>}
               /\ manager' = NewManager
          ELSE UNCHANGED <<dying, manager>>
  /\ stack' = SubSeq(stack, 1, Level - 1)
  /\ UNCHANGED fetches

\* deleteLater: the manager goes when the loop that asked for it, or one
\* further out, runs, and its replies go with it, silently.
DeleteManager(d) ==
  /\ Level <= d[2]
  /\ dying' = dying \ {d}
  /\ stack' = [i \in Frames |-> [stack[i] EXCEPT !.reply = @ /\ stack[i].manager # d[1]]]
  /\ UNCHANGED <<manager, fetches, last>>

Loop == \/ \E i \in Frames : Arrive(i) \/ Finish(i) \/ Timeout(i)
        \/ \E d \in dying : DeleteManager(d)

FetchNext == Connect \/ Loop \/ Return

FetchSpec == FetchInit /\ [][FetchNext]_fetchVars

\* Timers fire and a loop that was told to quit returns; a server need not
\* answer.
FairFetchSpec == FetchSpec /\ WF_fetchVars(Return) /\ WF_fetchVars(\E i \in Frames : Timeout(i))

-----------------------------------------------------------------------------
\* A call that came back with less than its answer had its time, an error, or
\* its manager taken away by another call's reset; the end of another call's
\* request is no reason, though all calls hear of it (api_http.cpp:70-76).
ShortForAReason ==
  last.conn # "none" /\ last.call.have # "all" =>
    last.call.timedOut \/ last.call.failed \/ ~last.call.reply

\* No call begins on a manager that is about to go: after a reset, calls use a
\* manager that was made for them (obhod123.cpp:360-362).
ManagerStays ==
  /\ \A d \in dying : d[1] # manager
  /\ \A i \in Frames : stack[i].manager = manager => stack[i].reply

\* The manager is kept as long as the server answers, whatever it answers; the
\* next call after silence has another one (api_http.cpp:266).
ResetOnSilence ==
  [][Return => (manager' # manager <=> last'.call.have = "none" \/ ~last'.call.reply)]_fetchVars

\* A call that came back with less than the answer has a reason, calls use a
\* network manager that stays, and one that the server answers on is kept.
FetchSound == [](ShortForAReason /\ ManagerStays) /\ ResetOnSilence

\* Every call returns, also one whose reply another call's reset deleted.
CallsReturn == \A n \in 1..MaxDepth : []<>(Level < n)
=============================================================================
