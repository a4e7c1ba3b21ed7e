------------------------------ MODULE RunGuard ------------------------------
(***************************************************************************)
(* The single-instance guard of the client (publib/runguard.cpp), as       *)
(* main.cpp uses it: activate(), then tryToRun(), and release() from the   *)
(* destructor at exit.  The guard is a shared-memory segment (the lock     *)
(* itself is that the segment exists) and a system semaphore memLock that  *)
(* brackets each group of calls on the segment.                            *)
(*                                                                         *)
(* The segment is a kernel object: attached is the set of processes that   *)
(* have it mapped.  The last detach removes it.  A process that dies       *)
(* loses its mapping and its semaphore, but where segments outlive their   *)
(* processes (SegmentSurvives, the *nix case activate() is written for)    *)
(* the segment itself stays behind.                                        *)
(***************************************************************************)
EXTENDS Naturals

CONSTANTS Process,          \* the processes the user may start
          Nobody,           \* memLock is free
          SegmentSurvives   \* a segment outlives a crash of its last user

ASSUME RunGuardAssumption == /\ Nobody \notin Process
                             /\ SegmentSurvives \in BOOLEAN

VARIABLES pc,       \* where each process is in main()
          memLock,  \* the holder of the semaphore
          exists,   \* the segment is in the kernel
          attached, \* processes that have it mapped
          met       \* history: an instance ran at some time since p started

guardVars == <<pc, memLock, exists, attached, met>>

\* The groups of calls on the segment; each waits for memLock first.
Group == {"activate", "check", "create", "undo", "release"}
Off     == <<"main", "off">>
Running == <<"main", "running">>
Refused == <<"main", "refused">>
Pc      == {Off, Running, Refused} \cup (Group \X {"wait", "locked", "attached"})

GuardInit == /\ pc       = [p \in Process |-> Off]
             /\ memLock  = Nobody
             /\ exists   = FALSE
             /\ attached = {}
             /\ met      = [p \in Process |-> FALSE]

-----------------------------------------------------------------------------
Goto(p, where) == pc' = [pc EXCEPT ![p] = where]

\* Mutant: any detach removes the segment.
DetachRemoves(p) == attached' = attached \ {p} /\ exists' = FALSE

\* The kernel's side of a detach: the last one out removes the segment.
Detach(p) == /\ attached' = attached \ {p}
             /\ exists'   = (attached \ {p} # {})

\* Mutant: memLock has two permits, so two processes are inside at a time.
LockIgnored == TRUE

\* memLock is created with one permit.
LockFree == memLock = Nobody

\* Mutant: create() attaches to the segment when there is one.
CreateOrAttach == TRUE

\* QSharedMemory::create() succeeds.
CreateSucceeds == ~exists

\* q holds the segment as a running instance, or as one on its way out.
Holds(q) == q \in attached /\ pc[q][1] \in {"main", "release"}

\* The process is launched; met starts afresh.
Start(p) == /\ pc[p] = Off
            /\ Goto(p, <<"activate", "wait">>)
            /\ met' = [met EXCEPT ![p] = \E q \in Process : Holds(q)]
            /\ UNCHANGED <<memLock, exists, attached>>

\* memLock.acquire() of any group of calls.
Acquire(p, g) == /\ pc[p] = <<g, "wait">>
                 /\ LockFree
                 /\ memLock' = p
                 /\ Goto(p, <<g, "locked">>)
                 /\ UNCHANGED <<exists, attached, met>>

\* QSharedMemory fix(key); fix.attach()
ActivateAttach(p) == /\ pc[p] = <<"activate", "locked">>
                     /\ attached' = IF exists THEN attached \cup {p} ELSE attached
                     /\ Goto(p, <<"activate", "attached">>)
                     /\ UNCHANGED <<memLock, exists, met>>

\* fix goes out of scope, which detaches, and memLock is released.
ActivateDone(p) == /\ pc[p] = <<"activate", "attached">>
                   /\ IF p \in attached THEN Detach(p)
                                        ELSE UNCHANGED <<exists, attached>>
                   /\ memLock' = Nobody
                   /\ Goto(p, <<"check", "wait">>)
                   /\ UNCHANGED met

\* isAnotherRunning(): sharedMem.attach()
CheckAttach(p) == /\ pc[p] = <<"check", "locked">>
                  /\ attached' = IF exists THEN attached \cup {p} ELSE attached
                  /\ Goto(p, <<"check", "attached">>)
                  /\ UNCHANGED <<memLock, exists, met>>

\* ... and its result: an attach that worked means another instance.
CheckDone(p) == /\ pc[p] = <<"check", "attached">>
                /\ \/ /\ p \in attached
                      /\ Detach(p)
                      /\ Goto(p, Refused)
                   \/ /\ p \notin attached
                      /\ Goto(p, <<"create", "wait">>)
                      /\ UNCHANGED <<exists, attached>>
                /\ memLock' = Nobody
                /\ UNCHANGED met

\* sharedMem.create(): fails when the segment exists.
Create(p) == /\ pc[p] = <<"create", "locked">>
             /\ \/ /\ CreateSucceeds
                   /\ exists'   = TRUE
                   /\ attached' = attached \cup {p}
                   /\ Goto(p, Running)
                   /\ met' = [q \in Process |-> met[q] \/ q # p]
                \/ /\ ~CreateSucceeds
                   /\ Goto(p, <<"undo", "wait">>)
                   /\ UNCHANGED <<exists, attached, met>>
             /\ memLock' = Nobody

\* release(), after a failed create and in the destructor at exit.
Release(p, g) == /\ g \in {"undo", "release"}
                 /\ pc[p] = <<g, "locked">>
                 /\ IF p \in attached THEN Detach(p)
                                      ELSE UNCHANGED <<exists, attached>>
                 /\ memLock' = Nobody
                 /\ Goto(p, IF g = "undo" THEN Refused ELSE Off)
                 /\ UNCHANGED met

\* main() returns: the static RunGuard is destroyed.
Exit(p) == /\ pc[p] \in {Running, Refused}
           /\ Goto(p, <<"release", "wait">>)
           /\ UNCHANGED <<memLock, exists, attached, met>>

\* The process dies anywhere; the kernel takes its semaphore and mapping back.
Crash(p) == /\ pc[p] # Off
            /\ Goto(p, Off)
            /\ memLock'  = IF memLock = p THEN Nobody ELSE memLock
            /\ attached' = attached \ {p}
            /\ exists'   = (exists /\ (SegmentSurvives \/ attached \ {p} # {}))
            /\ UNCHANGED met

Step(p) == \/ Start(p)
           \/ \E g \in Group : Acquire(p, g) \/ Release(p, g)
           \/ ActivateAttach(p) \/ ActivateDone(p)
           \/ CheckAttach(p)    \/ CheckDone(p)
           \/ Create(p)
           \/ Exit(p)
           \/ Crash(p)

GuardNext == \E p \in Process : Step(p)

GuardSpec == GuardInit /\ [][GuardNext]_guardVars

-----------------------------------------------------------------------------
(* Properties *)

\* Every variable has its type; a mapping needs a segment to map.
GuardTypeOK == /\ pc \in [Process -> Pc]
               /\ memLock \in Process \cup {Nobody}
               /\ exists \in BOOLEAN
               /\ attached \in SUBSET Process
               /\ met \in [Process -> BOOLEAN]
               /\ attached # {} => exists

\* main.cpp:32: two instances of the client never run at the same time,
\* whatever starts, exits and crashes do to each other, and although
\* isAnotherRunning() gives memLock up before tryToRun() takes it again.
SingleInstance == \A p, q \in Process : pc[p] = Running /\ pc[q] = Running => p = q

\* A start is refused only because of an instance that really ran while it was
\* starting: neither a segment left behind by a crash nor the short attach of
\* another process that is itself only looking may turn the user away.
RefusedForCause == \A p \in Process : pc[p] = Refused => met[p]

\* The guard lets one instance run, and one whenever it can: all of the above.
GuardSound == GuardTypeOK /\ SingleInstance /\ RefusedForCause

=============================================================================
