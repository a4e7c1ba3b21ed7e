------------------------- MODULE WorkerThreadsProofs -------------------------
(***************************************************************************)
(* The users table of the worker is used by one network thread at a time,  *)
(* for any number of threads and any mix of requests, from a cold start    *)
(* or after the first request.                                             *)
(***************************************************************************)
EXTENDS WorkerThreads, TLAPS

\* Inside the locked part of a routine.
Inner == {"find", "newTable", "found", "issue", "use"}

\* The part of TypeOK the argument needs.
Typed == /\ pc \in [Thread -> PcSet]
         /\ mtx \in [Thread -> Thread \cup {Null}]
         /\ holder \in [Thread -> Thread \cup {Null}]
         /\ mutex \in Thread \cup {Null}
         /\ doubled \in BOOLEAN

\* The rest of it, the data.
Stored == /\ isInitialized \in BOOLEAN
          /\ table \in [Table -> Thread \cup {Null}]
          /\ content \in [Table -> [Thread -> 0..MaxVersion]]
          /\ file \in 1..MaxVersion
          /\ obj \in [Thread -> Thread \cup {Null}]
          /\ buf \in [Thread -> 0..MaxVersion]
          /\ loaded \in 0..MaxVersion
          /\ promised \in [Thread -> 0..MaxVersion]

\* A thread in a handler has something to do, and that does not end with init()'s
\* last routine.
Queued == /\ todo \in [Thread -> Seq(Routines)]
          /\ \A t \in Thread : pc[t] # "idle" => Len(todo[t]) > 0
          /\ \A t \in Thread : pc[t] # "idle" => todo[t][Len(todo[t])] # "pki"

\* A thread is on its way to a mutex only in a routine that takes one, and to a
\* table only in a routine that has one; a pointer is set when it is read to be
\* returned.
OnTheWay ==
  \A t \in Thread : /\ pc[t] \in {"newMutex", "gotMutex", "lock"} => Routine(t) \in Locked
                    /\ pc[t] \in Inner => Routine(t) # "pki"
                    /\ pc[t] = "found" => table[On[Routine(t)]] # Null
                    /\ pc[t] = "gotMutex" => mutex # Null
                    /\ pc[t] = "lock" => mtx[t] # Null

\* A thread inside a routine on the users holds the mutex it was given.
HoldsMutex == \A t \in Thread : pc[t] \in Inner /\ Routine(t) \in Locked
                                  => mtx[t] # Null /\ holder[mtx[t]] = t

\* Unless the pointer was set twice there is one mutex.
OneMutex == \A t \in Thread : mtx[t] # Null => mutex # Null /\ (mtx[t] = mutex \/ doubled)

IInv == Typed /\ Stored /\ Queued /\ OnTheWay /\ HoldsMutex /\ OneMutex

-----------------------------------------------------------------------------
(* The lists of routines *)

LEMMA NullOutside == Null \notin Thread
BY WorkerThreadsAssumption

LEMMA Versions == /\ MaxVersion \in Nat /\ 0 \in 0..MaxVersion /\ 1 \in 1..MaxVersion
                  /\ 1..MaxVersion \subseteq 0..MaxVersion
BY WorkerThreadsAssumption

\* Every routine but the last of init()'s works on one table.
LEMMA OnUsers == \A r \in Routines : r # "pki" => (On[r] = "users" <=> r \in Locked)
BY DEF Routines, On, Locked

LEMMA OnRange == \A r \in Routines : r # "pki" => On[r] \in Table
BY DEF Routines, On, Table

\* What init() prepends.
LEMMA InitRoutinesQueue == InitRoutines \in Seq(Routines) /\ Len(InitRoutines) = 4
BY DEF InitRoutines, Routines, On

\* What a request calls.
LEMMA CallsQueue == ASSUME NEW r \in DOMAIN Calls
                    PROVE  /\ Calls[r] \in Seq(Routines)
                           /\ Len(Calls[r]) \in 1..3
                           /\ Calls[r][Len(Calls[r])] # "pki"
<1>1. CASE r = "auth"
  BY <1>1 DEF Calls, Routines, On
<1>2. CASE r = "getOvpn"
  BY <1>2 DEF Calls, Routines, On
<1>3. CASE r = "getServers"
  BY <1>3 DEF Calls, Routines, On
<1>4. CASE r = "reload"
  BY <1>4 DEF Calls, Routines, On
<1> QED
  BY <1>1, <1>2, <1>3, <1>4 DEF Calls

\* A tail ends as the sequence does.
LEMMA TailLast == ASSUME NEW S, NEW s \in Seq(S), Len(s) > 0, Len(s) # 1
                  PROVE  Len(Tail(s)) > 0 /\ Tail(s)[Len(Tail(s))] = s[Len(s)]
<1>1. Len(Tail(s)) = Len(s) - 1
  OBVIOUS
<1>2. Len(s) \in Nat /\ Len(s) > 1
  OBVIOUS
<1>3. \A i \in 1..Len(s) - 1 : Tail(s)[i] = s[i + 1]
  OBVIOUS
<1>4. Len(s) - 1 \in 1..Len(s) - 1 /\ (Len(s) - 1) + 1 = Len(s)
  BY <1>2
<1> QED
  BY <1>1, <1>2, <1>3, <1>4

\* The current routine of a thread in a handler.
LEMMA RoutineIn == Queued => \A t \in Thread : pc[t] # "idle" => Routine(t) \in Routines
BY DEF Queued, Routine

\* A request that arrives puts a queue of the right kind before its thread.
LEMMA ReceiveQueued ==
  ASSUME NEW t \in Thread, Receive(t), Typed, Queued PROVE Queued'
<1>1. PICK r \in Offered : todo' = [todo EXCEPT ![t] = <<"lookup">> \o Calls[r]]
  BY DEF Receive
<1>2. /\ Calls[r] \in Seq(Routines) /\ Len(Calls[r]) \in 1..3
      /\ Calls[r][Len(Calls[r])] # "pki"
  BY CallsQueue, WorkerThreadsAssumption
<1>3. <<"lookup">> \in Seq(Routines)
  BY DEF Routines, On
<1> DEFINE q == <<"lookup">> \o Calls[r]
<1>4. q \in Seq(Routines)
  BY <1>2, <1>3
<1>5. Len(q) > 0 /\ q[Len(q)] # "pki"
  BY <1>2, <1>3
<1> QED
  BY <1>1, <1>4, <1>5 DEF Queued, Typed, Receive, Goto

\* The end of a routine leaves one, or ends the request.
LEMMA ReturnQueued ==
  ASSUME NEW t \in Thread, Return(t), Typed, Queued PROVE Queued'
<1>1. /\ todo' = [todo EXCEPT ![t] = Tail(todo[t])]
      /\ pc' = [pc EXCEPT ![t] = IF Len(todo[t]) = 1 THEN "idle" ELSE "begin"]
      /\ todo[t] \in Seq(Routines) /\ Len(todo[t]) > 0 /\ todo[t][Len(todo[t])] # "pki"
  BY DEF Return, Goto, Last, Queued, At
<1> DEFINE q == Tail(todo[t])
<1>2. q \in Seq(Routines)
  BY <1>1
<1>3. Len(todo[t]) # 1 => Len(q) > 0 /\ q[Len(q)] # "pki"
  BY <1>1, TailLast
<1>4. todo' \in [Thread -> Seq(Routines)]
  BY <1>1, <1>2 DEF Queued
<1> HIDE DEF q
<1>5. ASSUME NEW u \in Thread, pc'[u] # "idle"
      PROVE  Len(todo'[u]) > 0 /\ todo'[u][Len(todo'[u])] # "pki"
  <2>1. CASE u = t
    BY <1>1, <1>3, <1>5, <2>1 DEF Queued, Typed, q
  <2>2. CASE u # t
    BY <1>1, <1>5, <2>2 DEF Queued, Typed
  <2> QED
    BY <2>1, <2>2
<1> QED
  BY <1>4, <1>5 DEF Queued

-----------------------------------------------------------------------------
(* The invariant *)

\* It holds at a cold start and after the first request.
LEMMA InitIInv == Init \/ WarmInit => IInv
<1> SUFFICES ASSUME Init \/ WarmInit PROVE IInv
  OBVIOUS
<1> USE NullOutside DEF Init, WarmInit
<1>1. Typed
  BY DEF Typed, PcSet
<1>2. Queued
  <2>1. todo = [t \in Thread |-> <<>>] /\ pc = [t \in Thread |-> "idle"]
    OBVIOUS
  <2>2. <<>> \in Seq(Routines)
    OBVIOUS
  <2> QED
    BY <2>1, <2>2 DEF Queued
<1>3. OnTheWay
  BY DEF OnTheWay, Inner
<1>4. HoldsMutex
  BY DEF HoldsMutex, Inner
<1>5. OneMutex
  BY DEF OneMutex
<1>6. Stored
  <2>1. 0 \in 0..MaxVersion /\ 1 \in 0..MaxVersion /\ 1 \in 1..MaxVersion
    BY Versions
  <2>2. content \in [Table -> [Thread -> 0..MaxVersion]]
    BY <2>1
  <2>3. table \in [Table -> Thread \cup {Null}]
    OBVIOUS
  <2>4. buf \in [Thread -> 0..MaxVersion] /\ promised \in [Thread -> 0..MaxVersion]
    BY <2>1
  <2>5. /\ isInitialized \in BOOLEAN /\ obj \in [Thread -> Thread \cup {Null}]
        /\ file \in 1..MaxVersion /\ loaded \in 0..MaxVersion
    BY <2>1
  <2> QED
    BY <2>2, <2>3, <2>4, <2>5 DEF Stored
<1> QED
  BY <1>1, <1>2, <1>3, <1>4, <1>5, <1>6 DEF IInv

\* Every step of every thread keeps it.
LEMMA StepIInv == IInv /\ [Next]_vars => IInv'
<1> SUFFICES ASSUME IInv, [Next]_vars PROVE IInv'
  OBVIOUS
<1> USE NullOutside DEF IInv
<1>1. CASE Install
  <2> USE <1>1 DEF Install, shared, local, history
  <2>1. Typed' /\ Queued'
    BY DEF Typed, Queued
  <2>2. OnTheWay' /\ HoldsMutex' /\ OneMutex'
    BY DEF OnTheWay, HoldsMutex, OneMutex, Routine
  <2>3. Stored'
    BY WorkerThreadsAssumption DEF Stored
  <2> QED
    BY <2>1, <2>2, <2>3
<1>2. ASSUME NEW t \in Thread, Receive(t) PROVE IInv'
  <2> USE <1>2 DEF Receive, At, Goto, Routine, Typed, shared
  <2>1. Typed'
    BY DEF PcSet
  <2>2. Queued'
    BY ReceiveQueued
  <2>3. OnTheWay'
    BY DEF OnTheWay, Inner
  <2>4. HoldsMutex'
    BY DEF HoldsMutex, Inner
  <2>5. OneMutex'
    BY DEF OneMutex
  <2>6. Stored'
    BY DEF Stored
  <2> QED
    BY <2>1, <2>2, <2>3, <2>4, <2>5, <2>6
<1>3. ASSUME NEW t \in Thread, Return(t) PROVE IInv'
  <2> USE <1>3 DEF Return, At, Goto, Routine, Typed, Unlocked, Last
  <2>1. Typed'
    BY DEF PcSet
  <2>2. Queued'
    BY ReturnQueued
  <2>3. OnTheWay'
    BY DEF OnTheWay, Inner
  <2>4. HoldsMutex'
    BY DEF OnTheWay, HoldsMutex, Inner
  <2>5. OneMutex'
    BY DEF OneMutex
  <2>6. Stored'
    <3>1. content' \in [Table -> [Thread -> 0..MaxVersion]]
      <4>1. CASE Routine(t) \in Loads
        <5>1. On[Routine(t)] \in Table
          BY <4>1 DEF Loads, On, Table
        <5>2. content[On[Routine(t)]] \in [Thread -> 0..MaxVersion]
          BY <5>1 DEF Stored
        <5>3. [content[On[Routine(t)]] EXCEPT ![obj[t]] = buf[t]] \in [Thread -> 0..MaxVersion]
          BY <5>2 DEF Stored
        <5> QED
          BY <4>1, <5>1, <5>3 DEF Stored
      <4>2. CASE Routine(t) \notin Loads
        BY <4>2 DEF Stored
      <4> QED
        BY <4>1, <4>2
    <3>2. buf' \in [Thread -> 0..MaxVersion] /\ promised' \in [Thread -> 0..MaxVersion]
      BY Versions DEF Stored
    <3> QED
      BY <3>1, <3>2 DEF Stored
  <2> QED
    BY <2>1, <2>2, <2>3, <2>4, <2>5, <2>6
<1>4. ASSUME NEW t \in Thread, Gate(t) PROVE IInv'
  <2> USE <1>4 DEF Gate, At, Goto, Routine, Typed, OnTheWay, shared, history
  <2>1. Typed'
    BY DEF PcSet
  <2>2. Queued'
    BY DEF Queued
  <2>3. OnTheWay'
    BY DEF Inner
  <2>4. HoldsMutex'
    BY DEF HoldsMutex, Inner
  <2>5. OneMutex'
    BY DEF OneMutex
  <2>6. Stored'
    BY DEF Stored
  <2> QED
    BY <2>1, <2>2, <2>3, <2>4, <2>5, <2>6
<1>5. ASSUME NEW t \in Thread, Claim(t) PROVE IInv'
  <2> USE <1>5 DEF Claim, At, Goto, Routine, Typed, OnTheWay, shared, history
  <2>1. Typed'
    BY DEF PcSet
  <2>2. Queued'
    BY InitRoutinesQueue DEF Queued
  <2>3. OnTheWay'
    BY DEF Inner
  <2>4. HoldsMutex'
    BY DEF HoldsMutex, Inner
  <2>5. OneMutex'
    BY DEF OneMutex
  <2>6. Stored'
    BY DEF Stored
  <2> QED
    BY <2>1, <2>2, <2>3, <2>4, <2>5, <2>6
<1>6. ASSUME NEW t \in Thread, Pki(t) PROVE IInv'
  <2> USE <1>6 DEF Pki, At, Goto, Routine, Typed, OnTheWay, shared, history
  <2>1. Typed'
    BY DEF PcSet
  <2>2. Queued'
    BY DEF Queued
  <2>3. OnTheWay'
    BY DEF Inner
  <2>4. HoldsMutex'
    BY DEF HoldsMutex, Inner
  <2>5. OneMutex'
    BY DEF OneMutex
  <2>6. Stored'
    BY DEF Stored
  <2> QED
    BY <2>1, <2>2, <2>3, <2>4, <2>5, <2>6
<1>7. ASSUME NEW t \in Thread, Begin(t) PROVE IInv'
  <2> USE <1>7 DEF Begin, At, Goto, Routine, Typed, OnTheWay, shared, history
  <2>1. Typed'
    BY DEF PcSet
  <2>2. Queued'
    BY DEF Queued
  <2>3. OnTheWay'
    BY DEF Inner, Locked
  <2>4. HoldsMutex'
    BY DEF HoldsMutex, Inner
  <2>5. OneMutex'
    BY DEF OneMutex
  <2>6. Stored'
    BY DEF Stored
  <2> QED
    BY <2>1, <2>2, <2>3, <2>4, <2>5, <2>6
<1>8. ASSUME NEW t \in Thread, NewMutex(t) PROVE IInv'
  <2> USE <1>8 DEF NewMutex, At, Goto, Routine, Typed, OnTheWay, shared, history
  <2>1. Typed'
    BY DEF PcSet
  <2>2. Queued'
    BY DEF Queued
  <2>3. OnTheWay'
    BY DEF Inner
  <2>4. HoldsMutex'
    BY DEF HoldsMutex, Inner
  <2>5. OneMutex'
    BY DEF OneMutex
  <2>6. Stored'
    BY DEF Stored
  <2> QED
    BY <2>1, <2>2, <2>3, <2>4, <2>5, <2>6
<1>9. ASSUME NEW t \in Thread, GotMutex(t) PROVE IInv'
  <2> USE <1>9 DEF GotMutex, At, Goto, Routine, Typed, OnTheWay, shared, history
  <2>1. Typed'
    BY DEF PcSet
  <2>2. Queued'
    BY DEF Queued
  <2>3. OnTheWay'
    BY DEF Inner
  <2>4. HoldsMutex'
    BY DEF HoldsMutex, Inner
  <2>5. OneMutex'
    BY DEF OneMutex
  <2>6. Stored'
    BY DEF Stored
  <2> QED
    BY <2>1, <2>2, <2>3, <2>4, <2>5, <2>6
<1>10. ASSUME NEW t \in Thread, Lock(t) PROVE IInv'
  <2> USE <1>10 DEF Lock, At, Goto, Routine, Typed, OnTheWay, shared, history
  <2>1. Typed'
    BY DEF PcSet
  <2>2. Queued'
    BY DEF Queued
  <2>3. OnTheWay'
    BY DEF Inner, Locked
  <2>4. HoldsMutex'
    BY DEF HoldsMutex, Inner
  <2>5. OneMutex'
    BY DEF OneMutex
  <2>6. Stored'
    BY DEF Stored
  <2> QED
    BY <2>1, <2>2, <2>3, <2>4, <2>5, <2>6
<1>11. ASSUME NEW t \in Thread, Find(t) PROVE IInv'
  <2> USE <1>11 DEF Find, At, Goto, Routine, Typed, OnTheWay, shared, history
  <2>1. Typed'
    BY DEF PcSet
  <2>2. Queued'
    BY DEF Queued
  <2>3. OnTheWay'
    BY OnRange, RoutineIn DEF Inner, Stored
  <2>4. HoldsMutex'
    BY DEF HoldsMutex, Inner
  <2>5. OneMutex'
    BY DEF OneMutex
  <2>6. Stored'
    BY DEF Stored
  <2> QED
    BY <2>1, <2>2, <2>3, <2>4, <2>5, <2>6
<1>12. ASSUME NEW t \in Thread, NewTable(t) PROVE IInv'
  <2> USE <1>12 DEF NewTable, At, Goto, Routine, Typed, OnTheWay, shared, history
  <2>1. Typed'
    BY DEF PcSet
  <2>2. Queued'
    BY DEF Queued
  <2>3. OnTheWay'
    BY OnRange, RoutineIn DEF Inner, Stored
  <2>4. HoldsMutex'
    BY DEF HoldsMutex, Inner
  <2>5. OneMutex'
    BY DEF OneMutex
  <2>6. Stored'
    BY DEF Stored
  <2> QED
    BY <2>1, <2>2, <2>3, <2>4, <2>5, <2>6
<1>13. ASSUME NEW t \in Thread, Found(t) PROVE IInv'
  <2> USE <1>13 DEF Found, At, Goto, Routine, Typed, OnTheWay, shared, history
  <2>1. Typed'
    BY DEF PcSet
  <2>2. Queued'
    BY DEF Queued
  <2>3. OnTheWay'
    BY DEF Inner
  <2>4. HoldsMutex'
    BY DEF HoldsMutex, Inner
  <2>5. OneMutex'
    BY DEF OneMutex
  <2>6. Stored'
    <3>1. On[Routine(t)] \in Table
      BY OnRange, RoutineIn DEF Inner
    <3>2. table[On[Routine(t)]] \in Thread
      BY <3>1 DEF Stored
    <3>3. content[On[Routine(t)]][table[On[Routine(t)]]] \in 0..MaxVersion
      BY <3>1, <3>2 DEF Stored
    <3> DEFINE b == IF Routine(t) \in Loads THEN file
                    ELSE content[On[Routine(t)]][table[On[Routine(t)]]]
    <3>4. b \in 0..MaxVersion /\ buf' = [buf EXCEPT ![t] = b]
      BY <3>3, Versions DEF Stored
    <3>5. obj' = [obj EXCEPT ![t] = table[On[Routine(t)]]]
      OBVIOUS
    <3> HIDE DEF b
    <3>6. obj' \in [Thread -> Thread \cup {Null}]
      BY <3>2, <3>5 DEF Stored
    <3>7. buf' \in [Thread -> 0..MaxVersion]
      BY <3>4 DEF Stored
    <3>8. UNCHANGED <<isInitialized, table, content, file, loaded, promised>>
      OBVIOUS
    <3> QED
      BY <3>6, <3>7, <3>8 DEF Stored
  <2> QED
    BY <2>1, <2>2, <2>3, <2>4, <2>5, <2>6
<1>14. ASSUME NEW t \in Thread, Issued(t) PROVE IInv'
  <2> USE <1>14 DEF Issued, At, Goto, Routine, Typed, OnTheWay, shared, history
  <2>1. Typed'
    BY DEF PcSet
  <2>2. Queued'
    BY DEF Queued
  <2>3. OnTheWay'
    BY DEF Inner
  <2>4. HoldsMutex'
    BY DEF HoldsMutex, Inner
  <2>5. OneMutex'
    BY DEF OneMutex
  <2>6. Stored'
    BY DEF Stored
  <2> QED
    BY <2>1, <2>2, <2>3, <2>4, <2>5, <2>6
<1>15. CASE UNCHANGED vars
  BY <1>15 DEF vars, shared, local, history, Typed, Stored, Queued, OnTheWay, HoldsMutex,
               OneMutex, Routine
<1> QED
  BY <1>1, <1>2, <1>3, <1>4, <1>5, <1>6, <1>7, <1>8, <1>9, <1>10, <1>11, <1>12, <1>13, <1>14, <1>15
     DEF Next, Handler

\* Who is in the users table holds its mutex, and there is one.
LEMMA IInvExclusive == IInv => UsersExclusive
BY DEF IInv, Typed, HoldsMutex, OneMutex, Inner, UsersExclusive, InUsers, Locked

\* No two handlers are in the users table at once, whatever the number of
\* threads, unless the start-up made two mutexes.
THEOREM ColdExclusion == Spec => []UsersExclusive
<1>1. Init => IInv
  BY InitIInv
<1> QED
  BY <1>1, StepIInv, IInvExclusive, PTL DEF Spec

\* TypeOK of the runs, for any number of threads and versions.
THEOREM TypeCorrect == Spec => []TypeOK
<1>1. Init => IInv
  BY InitIInv
<1>2. IInv => TypeOK
  <2>1. IInv => \A t \in Thread : pc[t] # "idle" => todo[t] # <<>>
    BY DEF IInv, Queued
  <2> QED
    BY <2>1 DEF IInv, Typed, Stored, Queued, TypeOK
<1> QED
  BY <1>1, <1>2, StepIInv, PTL DEF Spec

-----------------------------------------------------------------------------
(* After the first request *)

\* Every pointer is set, none was set twice and nobody is about to set one.
Made == /\ ~doubled /\ mutex # Null
        /\ \A x \in Table : table[x] # Null
        /\ \A t \in Thread : pc[t] \notin {"newMutex", "newTable"}

LEMMA StepMade == IInv /\ Made /\ [Next]_vars => Made'
<1> SUFFICES ASSUME IInv, Made, [Next]_vars PROVE Made'
  OBVIOUS
<1> USE DEF Made, IInv, Typed
<1>1. ASSUME NEW t \in Thread, Begin(t) PROVE Made'
  BY <1>1 DEF Begin, At, Goto, shared, history
<1>2. ASSUME NEW t \in Thread, Find(t) PROVE Made'
  <2>1. On[Routine(t)] \in Table
    BY <1>2, OnRange, RoutineIn DEF Find, At, OnTheWay, Inner
  <2> QED
    BY <1>2, <2>1 DEF Find, At, Goto, shared, history
<1>3. ASSUME NEW t \in Thread, NewMutex(t) \/ NewTable(t) PROVE Made'
  BY <1>3 DEF NewMutex, NewTable, At
<1>4. ASSUME NEW t \in Thread, Receive(t) \/ Gate(t) \/ Claim(t) \/ Pki(t) PROVE Made'
  BY <1>4 DEF Receive, Gate, Claim, Pki, At, Goto, shared, history
<1>5. ASSUME NEW t \in Thread, GotMutex(t) \/ Lock(t) \/ Found(t) \/ Issued(t) \/ Return(t)
      PROVE  Made'
  BY <1>5 DEF GotMutex, Lock, Found, Issued, Return, At, Goto, shared, history
<1>6. CASE Install \/ UNCHANGED vars
  BY <1>6 DEF Install, vars, shared, local, history
<1> QED
  BY <1>1, <1>2, <1>3, <1>4, <1>5, <1>6 DEF Next, Handler

\* After a first request that had no company the exclusion has no exception.
THEOREM WarmExclusion == WarmSpec => [](UsersExclusive /\ ~doubled)
<1>1. WarmInit => IInv /\ Made
  <2>1. WarmInit => Made
    BY NullOutside DEF WarmInit, Made
  <2> QED
    BY <2>1, InitIInv
<1>2. IInv /\ Made => UsersExclusive /\ ~doubled
  BY IInvExclusive DEF Made
<1> QED
  BY <1>1, <1>2, StepIInv, StepMade, PTL DEF WarmSpec

-----------------------------------------------------------------------------
(* What a request sees *)

\* While each pointer was set once: the users table holds the last load, a load
\* that is about to store has read no older file, and a reader has the last load
\* in its hand for as long as it keeps the mutex.
Fresh ==
  /\ loaded <= file
  /\ \A t \in Thread : promised[t] <= loaded
  /\ table["users"] = Null => loaded = 0 /\ \A m \in Thread : content["users"][m] = 0
  /\ table["users"] # Null => content["users"][table["users"]] = loaded
  /\ \A t \in Thread : InUsers(t) =>
       /\ table["users"] # Null /\ obj[t] = table["users"]
       /\ Routine(t) = "loadUsers" => loaded <= buf[t] /\ buf[t] <= file
       /\ Routine(t) # "loadUsers" => buf[t] = loaded

LEMMA InitFresh == Init \/ WarmInit => Fresh
<1> SUFFICES ASSUME Init \/ WarmInit PROVE Fresh
  OBVIOUS
<1> USE NullOutside DEF Init, WarmInit, Table
<1>1. \A t \in Thread : ~InUsers(t)
  BY DEF InUsers
<1>2. table["users"] = Null => loaded = 0 /\ \A m \in Thread : content["users"][m] = 0
  OBVIOUS
<1>3. table["users"] # Null => content["users"][table["users"]] = loaded
  OBVIOUS
<1> QED
  BY <1>1, <1>2, <1>3 DEF Fresh

LEMMA StepFresh == IInv /\ (doubled \/ Fresh) /\ [Next]_vars => doubled' \/ Fresh'
<1> SUFFICES ASSUME IInv, Fresh, ~doubled, ~doubled', [Next]_vars PROVE Fresh'
  <2>1. doubled /\ [Next]_vars => doubled'
    BY DEF Next, Handler, vars, history, Install, Receive, Gate, Claim, Pki, Begin, NewMutex,
           GotMutex, Lock, Find, NewTable, Found, Issued, Return
  <2> QED
    BY <2>1
<1> USE NullOutside DEF IInv, Typed, Stored
<1>1. CASE Install
  BY <1>1 DEF Install, shared, local, history, Fresh, InUsers, Routine
<1>2. ASSUME NEW t \in Thread, Receive(t) PROVE Fresh'
  BY <1>2 DEF Receive, At, Goto, shared, Fresh, InUsers, Routine
<1>3. ASSUME NEW t \in Thread,
             Gate(t) \/ Claim(t) \/ Pki(t) \/ Begin(t) \/ GotMutex(t) \/ Lock(t) \/ Find(t)
      PROVE  Fresh'
  <2>1. /\ UNCHANGED <<table, content, file, obj, buf, history>>
        /\ \A u \in Thread : InUsers(u)' => InUsers(u) /\ Routine(u)' = Routine(u)
    <3> USE DEF At, Goto, shared, InUsers, Routine
    <3>1. CASE Gate(t)
      BY <3>1 DEF Gate
    <3>2. CASE Claim(t)
      BY <3>2 DEF Claim
    <3>3. CASE Pki(t)
      BY <3>3 DEF Pki
    <3>4. CASE Begin(t) \/ GotMutex(t)
      BY <3>4 DEF Begin, GotMutex
    <3>5. CASE Lock(t) \/ Find(t)
      BY <3>5 DEF Lock, Find
    <3> QED
      BY <1>3, <3>1, <3>2, <3>3, <3>4, <3>5
  <2> QED
    BY <2>1 DEF Fresh, history
<1>4. ASSUME NEW t \in Thread, NewMutex(t) PROVE Fresh'
  BY <1>4 DEF NewMutex, At, Goto, Fresh, InUsers, Routine
<1>5. ASSUME NEW t \in Thread, NewTable(t) PROVE Fresh'
  <2>1. /\ table[On[Routine(t)]] = Null /\ table' = [table EXCEPT ![On[Routine(t)]] = t]
        /\ UNCHANGED <<content, file, obj, buf, loaded, promised>>
    BY <1>5 DEF NewTable
  <2>2. \A u \in Thread : InUsers(u)' => InUsers(u) /\ Routine(u)' = Routine(u)
    BY <1>5 DEF NewTable, At, Goto, InUsers, Routine
  <2>3. CASE On[Routine(t)] = "users"
    BY <2>1, <2>2, <2>3 DEF Fresh, Table
  <2>4. CASE On[Routine(t)] # "users"
    BY <2>1, <2>2, <2>4 DEF Fresh, Table
  <2> QED
    BY <2>3, <2>4
<1>6. ASSUME NEW t \in Thread, Found(t) PROVE Fresh'
  <2>1. /\ UNCHANGED <<table, content, file, history>>
        /\ obj' = [obj EXCEPT ![t] = table[On[Routine(t)]]]
        /\ buf' = [buf EXCEPT ![t] = IF Routine(t) \in Loads THEN file
                                     ELSE content[On[Routine(t)]][table[On[Routine(t)]]]]
    BY <1>6 DEF Found, shared
  <2>2. \A u \in Thread : /\ Routine(u)' = Routine(u)
                          /\ u # t /\ InUsers(u)' => InUsers(u)
    BY <1>6 DEF Found, At, Goto, InUsers, Routine
  <2>3. table[On[Routine(t)]] # Null
    BY <1>6 DEF Found, At, OnTheWay
  <2>4. Routine(t) \in Locked => On[Routine(t)] = "users"
    BY DEF Locked, On
  <2>5. Routine(t) \in Locked => (Routine(t) \in Loads <=> Routine(t) = "loadUsers")
    BY DEF Locked, Loads
  <2>6. InUsers(t)' => Routine(t) \in Locked
    BY <2>2 DEF InUsers, Locked
  <2>7. ASSUME InUsers(t)'
        PROVE  /\ table["users"] # Null /\ obj'[t] = table["users"]
               /\ Routine(t) = "loadUsers" => buf'[t] = file
               /\ Routine(t) # "loadUsers" => buf'[t] = content["users"][table["users"]]
    BY <2>1, <2>3, <2>4, <2>5, <2>6, <2>7
  <2> QED
    BY <2>1, <2>2, <2>7 DEF Fresh, history
<1>7. ASSUME NEW t \in Thread, Issued(t) PROVE Fresh'
  BY <1>7 DEF Issued, At, Goto, shared, history, Fresh, InUsers, Routine
<1>8. ASSUME NEW t \in Thread, Return(t) PROVE Fresh'
  <2>1. /\ UNCHANGED <<table, file>>
        /\ obj' = [obj EXCEPT ![t] = Null] /\ buf' = [buf EXCEPT ![t] = 0]
        /\ \A u \in Thread : promised'[u] = promised[u] \/ promised'[u] = 0
    BY <1>8 DEF Return
  <2>2. /\ ~InUsers(t)'
        /\ \A u \in Thread : u # t /\ InUsers(u)' => InUsers(u) /\ Routine(u)' = Routine(u)
    <3>1. \A u \in Thread : u # t => pc'[u] = pc[u] /\ todo'[u] = todo[u]
      BY <1>8 DEF Return, Goto, Queued
    <3>2. pc'[t] \in {"idle", "begin"}
      BY <1>8 DEF Return, Goto
    <3> QED
      BY <3>1, <3>2 DEF InUsers, Routine
  <2>3. CASE Routine(t) = "loadUsers"
    <3>1. InUsers(t)
      BY <1>8, <2>3 DEF Return, At, InUsers
    <3>2. \A u \in Thread : u # t => ~InUsers(u)
      BY <3>1, IInvExclusive DEF UsersExclusive
    <3>3. loaded' = buf[t] /\ content' = [content EXCEPT !["users"][table["users"]] = buf[t]]
      <4>1. Routine(t) \in Loads /\ On[Routine(t)] = "users" /\ obj[t] = table["users"]
        BY <2>3, <3>1 DEF Loads, On, Fresh
      <4> QED
        BY <1>8, <2>3, <4>1 DEF Return
    <3>4. loaded <= buf[t] /\ buf[t] <= file /\ table["users"] \in Thread
      BY <2>3, <3>1 DEF Fresh, Table
    <3>5. content'["users"][table["users"]] = buf[t]
      BY <3>3, <3>4 DEF Table
    <3>6. \A u \in Thread : promised'[u] <= buf[t]
      BY <2>1, <3>4, Versions DEF Fresh
    <3> QED
      BY <2>1, <2>2, <3>2, <3>3, <3>4, <3>5, <3>6, NullOutside DEF Fresh
  <2>4. CASE Routine(t) # "loadUsers"
    <3>1. loaded' = loaded /\ content'["users"] = content["users"]
      <4>1. Routine(t) \in Loads => On[Routine(t)] \in Table \ {"users"}
        BY <2>4 DEF Loads, On, Table
      <4>2. content' = content \/ (Routine(t) \in Loads /\ content' =
              [content EXCEPT ![On[Routine(t)]][obj[t]] = buf[t]])
        BY <1>8 DEF Return
      <4>3. loaded' = loaded
        BY <1>8, <2>4 DEF Return
      <4> QED
        BY <4>1, <4>2, <4>3 DEF Table
    <3>2. \A u \in Thread : promised'[u] <= loaded
      BY <2>1, Versions DEF Fresh
    <3> QED
      BY <2>1, <2>2, <3>1, <3>2 DEF Fresh
  <2> QED
    BY <2>3, <2>4
<1>9. CASE UNCHANGED vars
  BY <1>9 DEF vars, shared, local, history, Fresh, InUsers, Routine
<1> QED
  BY <1>1, <1>2, <1>3, <1>4, <1>5, <1>6, <1>7, <1>8, <1>9 DEF Next, Handler

\* A request is decided on users no older than the last load before it came in,
\* for any number of threads, reloads and versions.
THEOREM RequestsSeeTheLastLoad == Spec => []UsersFresh
<1>1. Init => IInv /\ (doubled \/ Fresh)
  BY InitIInv, InitFresh
<1>2. IInv /\ (doubled \/ Fresh) /\ [Next]_vars => (IInv /\ (doubled \/ Fresh))'
  BY StepIInv, StepFresh
<1>3. IInv /\ (doubled \/ Fresh) => UsersFresh
  BY DEF IInv, Typed, Stored, Fresh, UsersFresh, InUsers, At
<1> QED
  BY <1>1, <1>2, <1>3, PTL DEF Spec

=============================================================================
