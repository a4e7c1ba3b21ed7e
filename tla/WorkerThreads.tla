---------------------------- MODULE WorkerThreads ----------------------------
(***************************************************************************)
(* The network threads of the worker inside the API's request handlers     *)
(* (worker/src/api).  nxweb runs the handlers in its network threads, one  *)
(* per processor, so any number of them are in onNxRequest() at a time.    *)
(*                                                                         *)
(* Every thread goes through a list of routines: the lookup of static      *)
(* requests, then what the request calls.  The thread that finds           *)
(* isInitialized unset runs init() first.  A routine works on one of the   *)
(* lazily created tables usersJson, serversJson and staticRequests; only   *)
(* the routines on usersJson take a mutex, which is lazily created too.    *)
(* A table is an object (named for the thread that created it) holding the *)
(* version of the file it was loaded from, 0 while it is empty.            *)
(***************************************************************************)
EXTENDS Naturals, Sequences, FiniteSets

CONSTANTS Thread,      \* the network threads
          Null,        \* a pointer not set yet, a mutex nobody holds
          Offered,     \* the kinds of request clients send
          MaxVersion   \* bound: versions of the files an operator installs

\* What a request calls after the lookup: c_auth, c_activateKey and
\* c_checkIfUserExists; c_getOvpnFile; c_getServers; m_reloadJsons.
Calls == [auth |-> <<"auth">>, getOvpn |-> <<"getOvpn">>, getServers |-> <<"getServers">>,
          reload |-> <<"loadUsers", "loadServers", "loadStatic">>]

ASSUME WorkerThreadsAssumption == /\ Null \notin Thread
                                  /\ Offered \subseteq DOMAIN Calls
                                  /\ MaxVersion \in Nat \ {0}

VARIABLES
  isInitialized, \* the static of onNxRequest()
  mutex,         \* s_usersJson_mutex
  holder,        \* of each mutex that was created, the thread that locked it
  table,         \* s_usersJson, s_serversJson, s_staticRequests
  content,       \* the version held by each object of each table
  file,          \* the version of the files on disk
  todo,          \* routines each thread still has to run, the current one first
  pc,            \* where each thread is in the current one
  mtx,           \* the mutex a thread was given by usersJsonMutex()
  obj,           \* the object a thread was given by usersJson() etc.
  buf,           \* the version a thread has read, from the file or the table
  loaded,        \* history: the version of the last loadUsersJson() to return
  promised,      \* history: loaded, when the request came in
  doubled        \* history: a pointer was set twice, by threads that both saw it null

shared  == <<isInitialized, mutex, holder, table, content>>
local   == <<todo, pc, mtx, obj, buf>>
history == <<loaded, promised, doubled>>
vars    == <<shared, file, local, history>>

Table == {"users", "servers", "static"}

\* The table of each routine, and whether the routine replaces its contents.
On == [loadUsers |-> "users", auth |-> "users", getOvpn |-> "users",
       loadServers |-> "servers", getServers |-> "servers",
       loadStatic |-> "static", lookup |-> "static"]
Loads == {"loadUsers", "loadServers", "loadStatic"}

Routines == DOMAIN On \cup {"pki"}

\* What init() runs.
InitRoutines == <<"loadServers", "loadUsers", "loadStatic", "pki">>

\* Where a thread can be in a routine; the last five are after the lock.
PcSet == {"idle", "gate", "claim", "begin", "newMutex", "gotMutex", "lock",
          "find", "newTable", "found", "issue", "use"}

Init == /\ isInitialized = FALSE
        /\ mutex = Null
        /\ holder = [t \in Thread |-> Null]
        /\ table = [x \in Table |-> Null]
        /\ content = [x \in Table |-> [t \in Thread |-> 0]]
        /\ file = 1
        /\ todo = [t \in Thread |-> <<>>]
        /\ pc = [t \in Thread |-> "idle"]
        /\ mtx = [t \in Thread |-> Null]
        /\ obj = [t \in Thread |-> Null]
        /\ buf = [t \in Thread |-> 0]
        /\ loaded = 0
        /\ promised = [t \in Thread |-> 0]
        /\ doubled = FALSE

-----------------------------------------------------------------------------
Goto(t, where) == pc' = [pc EXCEPT ![t] = where]
At(t, where)   == pc[t] = where
Routine(t)     == Head(todo[t])

\* The operator installs new files.
Install == /\ file < MaxVersion /\ file' = file + 1
           /\ UNCHANGED <<shared, local, history>>

\* nxweb calls onRequest().
Receive(t) ==
  /\ At(t, "idle")
  /\ \E r \in Offered : todo' = [todo EXCEPT ![t] = <<"lookup">> \o Calls[r]]
  /\ Goto(t, "gate")
  /\ promised' = [promised EXCEPT ![t] = loaded]
  /\ UNCHANGED <<shared, file, mtx, obj, buf, loaded, doubled>>

\* if (!isInitialized) ...
Gate(t) == /\ At(t, "gate")
           /\ Goto(t, IF isInitialized THEN "begin" ELSE "claim")
           /\ UNCHANGED <<shared, file, todo, mtx, obj, buf, history>>

\* ... isInitialized = true; init();
Claim(t) == /\ At(t, "claim")
            /\ isInitialized' = TRUE
            /\ todo' = [todo EXCEPT ![t] = InitRoutines \o @]
            /\ Goto(t, "begin")
            /\ UNCHANGED <<mutex, holder, table, content, file, mtx, obj, buf, history>>

\* The last of init()'s routines make the PKI and start the OpenVPN server.
Pki(t) == /\ At(t, "begin") /\ Routine(t) = "pki"
          /\ todo' = [todo EXCEPT ![t] = Tail(@)]
          /\ UNCHANGED <<shared, file, pc, mtx, obj, buf, history>>

\* Mutant: loadUsersJson() has no QMutexLocker.
LockOnlyReaders == {"auth", "getOvpn"}

\* The routines that start with a QMutexLocker.
Locked == {"auth", "getOvpn", "loadUsers"}

\* A routine starts, with usersJsonMutex() if it takes the mutex: the pointer
\* is tested,
Begin(t) ==
  /\ At(t, "begin") /\ Routine(t) # "pki"
  /\ Goto(t, IF Routine(t) \notin Locked THEN "find"
             ELSE IF mutex = Null THEN "newMutex" ELSE "gotMutex")
  /\ UNCHANGED <<shared, file, todo, mtx, obj, buf, history>>

\* set to a new mutex,
NewMutex(t) == /\ At(t, "newMutex") /\ Goto(t, "gotMutex")
               /\ mutex' = t
               /\ doubled' = (doubled \/ mutex # Null)
               /\ UNCHANGED <<isInitialized, holder, table, content, file, todo, mtx, obj,
                              buf, loaded, promised>>

\* and read again to be returned.
GotMutex(t) == /\ At(t, "gotMutex") /\ Goto(t, "lock")
               /\ mtx' = [mtx EXCEPT ![t] = mutex]
               /\ UNCHANGED <<shared, file, todo, obj, buf, history>>

Lock(t) == /\ At(t, "lock") /\ Goto(t, "find")
           /\ holder[mtx[t]] = Null
           /\ holder' = [holder EXCEPT ![mtx[t]] = t]
           /\ UNCHANGED <<isInitialized, mutex, table, content, file, todo, mtx, obj, buf,
                          history>>

\* usersJson(), serversJson(), staticRequests(): the same three steps.
Find(t) == /\ At(t, "find")
           /\ Goto(t, IF table[On[Routine(t)]] = Null THEN "newTable" ELSE "found")
           /\ UNCHANGED <<shared, file, todo, mtx, obj, buf, history>>

NewTable(t) == /\ At(t, "newTable") /\ Goto(t, "found")
               /\ table' = [table EXCEPT ![On[Routine(t)]] = t]
               /\ doubled' = (doubled \/ table[On[Routine(t)]] # Null)
               /\ UNCHANGED <<isInitialized, mutex, holder, content, file, todo, mtx, obj,
                              buf, loaded, promised>>

\* The table is at hand; a load has read the file, anything else the table.
Found(t) ==
  /\ At(t, "found") /\ Goto(t, IF Routine(t) = "getOvpn" THEN "issue" ELSE "use")
  /\ LET x == On[Routine(t)] IN
     /\ obj' = [obj EXCEPT ![t] = table[x]]
     /\ buf' = [buf EXCEPT ![t] = IF Routine(t) \in Loads THEN file
                                  ELSE content[x][table[x]]]
  /\ UNCHANGED <<shared, file, todo, mtx, history>>

\* c_getOvpnFile runs easyrsa and ovpn_getclient and waits for them.
Issued(t) == /\ At(t, "issue") /\ Goto(t, "use")
             /\ UNCHANGED <<shared, file, todo, mtx, obj, buf, history>>

\* Mutant: the request is over one routine too late.
LastButOne(t) == Len(todo[t]) = 0

\* The current routine is the last of the request.
Last(t) == Len(todo[t]) = 1

\* Mutant: the mutex is locked by hand and a return is taken without unlock().
NeverUnlocked(t) == holder

\* The destructor of the QMutexLocker.
Unlocked(t) == IF Routine(t) \in Locked THEN [holder EXCEPT ![mtx[t]] = Null] ELSE holder

\* A load fills the table; the routine returns and gives its mutex back.  The
\* request is answered after the last one.
Return(t) ==
  /\ At(t, "use")
  /\ content' = IF Routine(t) \in Loads
                THEN [content EXCEPT ![On[Routine(t)]][obj[t]] = buf[t]] ELSE content
  /\ loaded' = IF Routine(t) = "loadUsers" THEN buf[t] ELSE loaded
  /\ holder' = Unlocked(t)
  /\ todo' = [todo EXCEPT ![t] = Tail(@)]
  /\ Goto(t, IF Last(t) THEN "idle" ELSE "begin")
  /\ mtx' = [mtx EXCEPT ![t] = Null] /\ obj' = [obj EXCEPT ![t] = Null]
  /\ buf' = [buf EXCEPT ![t] = 0]
  /\ promised' = IF Last(t) THEN [promised EXCEPT ![t] = 0] ELSE promised
  /\ UNCHANGED <<isInitialized, mutex, table, file, doubled>>

Handler(t) == \/ Gate(t) \/ Claim(t) \/ Pki(t) \/ Begin(t) \/ NewMutex(t) \/ GotMutex(t)
              \/ Lock(t) \/ Find(t) \/ NewTable(t) \/ Found(t) \/ Issued(t)
              \/ Return(t)

Next == Install \/ \E t \in Thread : Receive(t) \/ Handler(t)

Spec == Init /\ [][Next]_vars

\* The worker after a first request that had no company: one mutex and one
\* object of each table, made and filled by one thread.
WarmInit == /\ isInitialized = TRUE
            /\ mutex \in Thread
            /\ holder = [t \in Thread |-> Null]
            /\ table = [x \in Table |-> mutex]
            /\ content = [x \in Table |-> [t \in Thread |-> IF t = mutex THEN 1 ELSE 0]]
            /\ file = 1
            /\ todo = [t \in Thread |-> <<>>]
            /\ pc = [t \in Thread |-> "idle"]
            /\ mtx = [t \in Thread |-> Null]
            /\ obj = [t \in Thread |-> Null]
            /\ buf = [t \in Thread |-> 0]
            /\ loaded = 1
            /\ promised = [t \in Thread |-> 0]
            /\ doubled = FALSE

WarmSpec == WarmInit /\ [][Next]_vars

\* Each network thread is scheduled.
FairSpec == Spec /\ \A t \in Thread : WF_vars(Handler(t))

-----------------------------------------------------------------------------
(* Properties *)

\* Every variable has its type, and a thread in a handler has a routine to run.
TypeOK ==
  /\ isInitialized \in BOOLEAN
  /\ mutex \in Thread \cup {Null}
  /\ holder \in [Thread -> Thread \cup {Null}]
  /\ table \in [Table -> Thread \cup {Null}]
  /\ content \in [Table -> [Thread -> 0..MaxVersion]]
  /\ file \in 1..MaxVersion
  /\ todo \in [Thread -> Seq(Routines)]
  /\ pc \in [Thread -> PcSet]
  /\ mtx \in [Thread -> Thread \cup {Null}]
  /\ obj \in [Thread -> Thread \cup {Null}]
  /\ buf \in [Thread -> 0..MaxVersion]
  /\ loaded \in 0..MaxVersion
  /\ promised \in [Thread -> 0..MaxVersion]
  /\ doubled \in BOOLEAN
  /\ \A t \in Thread : pc[t] # "idle" => todo[t] # <<>>

\* t works on the users table; u reads or replaces it too.
InUsers(t) == pc[t] \in {"issue", "use"} /\ Routine(t) \in {"auth", "getOvpn", "loadUsers"}

\* Two threads are never in usersJson at once: a QJsonObject is not made for it,
\* and loadUsersJson() assigns a new one while the others look a user up.  The
\* exception is the start-up race of usersJsonMutex(), two threads that both see
\* no mutex and lock one each.
UsersExclusive == \A t, u \in Thread : InUsers(t) /\ InUsers(u) /\ t # u => doubled

\* A request that came in after a loadUsersJson() was done is decided on the
\* users of that load or of a later one: neither the empty table that another
\* thread creates nor an older file, read before and stored after, replaces them.
UsersFresh == \A t \in Thread : At(t, "use") /\ Routine(t) \in {"auth", "getOvpn"}
                                  => buf[t] >= promised[t] \/ doubled

\* Every mutex that is locked is unlocked again: no routine that holds one locks
\* it a second time (QMutex is not recursive) or waits for what its holder needs.
UsersReleased == \A m \in Thread : holder[m] # Null ~> holder[m] = Null

=============================================================================
