-------------------------- MODULE ProcessesProofs --------------------------
(***************************************************************************)
(* Proofs about parts of MCStreams and MCTables, for every value of their  *)
(* constants: the client's single-instance guard, the launcher and daemon  *)
(* of nxweb, its proxy and its memory cache.                               *)
(***************************************************************************)
EXTENDS RunGuard, NxDaemon, NxProxy, NxCache, FunctionTheorems, FiniteSetTheorems,
        SequenceTheorems, TLAPS

-----------------------------------------------------------------------------
(* The guard: at most one instance of the client runs, and a start is      *)
(* refused only because of one, for any number of processes that start,    *)
(* exit and crash at any step.                                             *)

\* A running instance has the segment mapped, and is alone.
OneMaps == /\ \A p \in Process : pc[p] = Running => p \in attached
           /\ SingleInstance

GuardIInv == GuardTypeOK /\ OneMaps

\* Group by group, a process inside a group of calls has the semaphore.
Inside(p) == \E g \in Group : pc[p] = <<g, "locked">> \/ pc[p] = <<g, "attached">>

\* p is looking: its own attach is undone before it gives the semaphore back.
Looking(p) == pc[p] \in {<<"activate", "attached">>, <<"check", "attached">>}

LocksHeld == \A p \in Process : Inside(p) => memLock = p

\* Whoever has the segment mapped runs (or ran and is on its way out), or looks.
MappedFor == \A p \in Process : p \in attached => Holds(p) \/ Looking(p)

\* Nobody who was refused, or has not started, has it mapped.
IdleUnmapped == \A p \in Process : pc[p] \in {Off, Refused} => p \notin attached

\* A process that has met no instance since it started: there is none now, and
\* from the end of activate() on there is no segment either.
Unmet == \A p \in Process : pc[p] # Off /\ ~met[p] =>
           /\ \A q \in Process : q # p => ~Holds(q)
           /\ pc[p][1] \in {"check", "create"} => ~exists
           /\ pc[p] = <<"activate", "attached">> /\ p \notin attached => ~exists
           /\ pc[p][1] # "undo" /\ pc[p] # Refused

Cause == LocksHeld /\ MappedFor /\ IdleUnmapped /\ Unmet

-----------------------------------------------------------------------------
(* One instance *)

LEMMA InitIInv == GuardInit => GuardIInv
<1> SUFFICES ASSUME GuardInit PROVE GuardIInv
  OBVIOUS
<1>1. Off \in Pc /\ Off # Running
  BY DEF Pc, Off, Running
<1>2. pc = [p \in Process |-> Off]
  BY DEF GuardInit
<1>3. GuardTypeOK
  BY <1>1, <1>2 DEF GuardInit, GuardTypeOK
<1>4. OneMaps
  BY <1>1, <1>2 DEF GuardInit, OneMaps, SingleInstance
<1> QED
  BY <1>3, <1>4 DEF GuardIInv

LEMMA StepIInv == GuardIInv /\ [GuardNext]_guardVars => GuardIInv'
<1> SUFFICES ASSUME GuardIInv, [GuardNext]_guardVars PROVE GuardIInv'
  OBVIOUS
<1> USE DEF GuardIInv
<1>1. ASSUME NEW p \in Process, Start(p) PROVE GuardIInv'
  <2>1. GuardTypeOK'
    BY <1>1 DEF GuardTypeOK, Pc, Group, Start, Goto, Off, Running, Refused, Holds
  <2>2. OneMaps'
    BY <1>1 DEF GuardTypeOK, OneMaps, SingleInstance, Start, Goto, Off, Running
  <2> QED
    BY <2>1, <2>2
<1>2. ASSUME NEW p \in Process, NEW g \in Group, Acquire(p, g) PROVE GuardIInv'
  <2>1. GuardTypeOK'
    BY <1>2 DEF GuardTypeOK, Pc, Group, Acquire, Goto, Running, Off, Refused
  <2>2. OneMaps'
    BY <1>2 DEF GuardTypeOK, OneMaps, SingleInstance, Acquire, Goto, Running
  <2> QED
    BY <2>1, <2>2
<1>3. ASSUME NEW p \in Process, NEW g \in Group, Release(p, g) PROVE GuardIInv'
  <2>1. GuardTypeOK'
    BY <1>3 DEF GuardTypeOK, Pc, Group, Release, Detach, Goto, Off, Refused, Running
  <2>2. OneMaps'
    BY <1>3 DEF GuardTypeOK, OneMaps, SingleInstance, Release, Detach, Goto, Off, Refused, Running
  <2> QED
    BY <2>1, <2>2
<1>4. ASSUME NEW p \in Process, ActivateAttach(p) PROVE GuardIInv'
  <2>1. GuardTypeOK'
    BY <1>4 DEF GuardTypeOK, Pc, Group, ActivateAttach, Goto, Running, Off, Refused
  <2>2. OneMaps'
    BY <1>4 DEF GuardTypeOK, OneMaps, SingleInstance, ActivateAttach, Goto, Running
  <2> QED
    BY <2>1, <2>2
<1>5. ASSUME NEW p \in Process, ActivateDone(p) PROVE GuardIInv'
  <2>1. GuardTypeOK'
    BY <1>5 DEF GuardTypeOK, Pc, Group, ActivateDone, Detach, Goto, Running, Off, Refused
  <2>2. OneMaps'
    BY <1>5 DEF GuardTypeOK, OneMaps, SingleInstance, ActivateDone, Detach, Goto, Running
  <2> QED
    BY <2>1, <2>2
<1>6. ASSUME NEW p \in Process, CheckAttach(p) PROVE GuardIInv'
  <2>1. GuardTypeOK'
    BY <1>6 DEF GuardTypeOK, Pc, Group, CheckAttach, Goto, Running, Off, Refused
  <2>2. OneMaps'
    BY <1>6 DEF GuardTypeOK, OneMaps, SingleInstance, CheckAttach, Goto, Running
  <2> QED
    BY <2>1, <2>2
<1>7. ASSUME NEW p \in Process, CheckDone(p) PROVE GuardIInv'
  <2>1. GuardTypeOK'
    <3>1. \E w \in Pc : pc' = [pc EXCEPT ![p] = w]
      BY <1>7 DEF Pc, Group, CheckDone, Detach, Goto, Refused, Running
    <3>2. pc' \in [Process -> Pc]
      BY <3>1 DEF GuardTypeOK
    <3>3. /\ memLock' \in Process \cup {Nobody} /\ exists' \in BOOLEAN
          /\ attached' \in SUBSET Process
      BY <1>7 DEF GuardTypeOK, CheckDone, Detach, Refused, Running
    <3>4. met' \in [Process -> BOOLEAN]
      BY <1>7 DEF GuardTypeOK, CheckDone, Detach, Refused, Running
    <3>5. attached' # {} => exists'
      BY <1>7 DEF GuardTypeOK, CheckDone, Detach, Refused, Running
    <3> QED
      BY <3>2, <3>3, <3>4, <3>5 DEF GuardTypeOK
  <2>2. OneMaps'
    BY <1>7 DEF GuardTypeOK, OneMaps, SingleInstance, CheckDone, Detach, Goto, Refused, Running
  <2> QED
    BY <2>1, <2>2
<1>8. ASSUME NEW p \in Process, Create(p) PROVE GuardIInv'
  <2>1. GuardTypeOK'
    <3>1. \E w \in Pc : pc' = [pc EXCEPT ![p] = w]
      BY <1>8 DEF Pc, Group, Create, CreateSucceeds, Goto, Running
    <3>2. pc' \in [Process -> Pc]
      BY <3>1 DEF GuardTypeOK
    <3>3. /\ memLock' \in Process \cup {Nobody} /\ exists' \in BOOLEAN
          /\ attached' \in SUBSET Process
      BY <1>8 DEF GuardTypeOK, Create, CreateSucceeds, Running
    <3>4. met' \in [Process -> BOOLEAN]
      BY <1>8 DEF GuardTypeOK, Create, CreateSucceeds, Running
    <3>5. attached' # {} => exists'
      BY <1>8 DEF GuardTypeOK, Create, CreateSucceeds, Running
    <3> QED
      BY <3>2, <3>3, <3>4, <3>5 DEF GuardTypeOK
  <2>2. OneMaps'
    BY <1>8 DEF GuardTypeOK, OneMaps, SingleInstance, Create, CreateSucceeds, Goto, Running
  <2> QED
    BY <2>1, <2>2
<1>9. ASSUME NEW p \in Process, Exit(p) PROVE GuardIInv'
  <2>1. GuardTypeOK'
    BY <1>9 DEF GuardTypeOK, Pc, Group, Exit, Goto, Running, Refused, Off
  <2>2. OneMaps'
    BY <1>9 DEF GuardTypeOK, OneMaps, SingleInstance, Exit, Goto, Running, Refused
  <2> QED
    BY <2>1, <2>2
<1>10. ASSUME NEW p \in Process, Crash(p) PROVE GuardIInv'
  <2>1. GuardTypeOK'
    BY <1>10 DEF GuardTypeOK, Pc, Group, Crash, Goto, Off, Running, Refused
  <2>2. OneMaps'
    BY <1>10 DEF GuardTypeOK, OneMaps, SingleInstance, Crash, Goto, Off, Running
  <2> QED
    BY <2>1, <2>2
<1>11. CASE UNCHANGED guardVars
  BY <1>11 DEF guardVars, GuardTypeOK, OneMaps, SingleInstance
<1> QED
  BY <1>1, <1>2, <1>3, <1>4, <1>5, <1>6, <1>7, <1>8, <1>9, <1>10, <1>11 DEF GuardNext, Step

\* GuardTypeOK of the run, for any set of processes.
THEOREM TypeCorrect == GuardSpec => []GuardTypeOK
<1>1. GuardIInv => GuardTypeOK
  BY DEF GuardIInv
<1> QED
  BY <1>1, InitIInv, StepIInv, PTL DEF GuardSpec

\* Two instances never run at once.
THEOREM OneInstance == GuardSpec => []SingleInstance
<1>1. GuardIInv => SingleInstance
  BY DEF GuardIInv, OneMaps
<1> QED
  BY <1>1, InitIInv, StepIInv, PTL DEF GuardSpec

-----------------------------------------------------------------------------
(* Nobody is turned away without a cause *)

LEMMA InitCause == GuardInit => Cause
BY DEF GuardInit, Cause, LocksHeld, Inside, MappedFor, IdleUnmapped, Unmet, Group, Off

LEMMA StepCause == GuardIInv /\ Cause /\ [GuardNext]_guardVars => Cause'
<1> SUFFICES ASSUME GuardIInv, Cause, [GuardNext]_guardVars PROVE Cause'
  OBVIOUS
<1> USE RunGuardAssumption DEF GuardIInv, GuardTypeOK, Cause
<1>1. ASSUME NEW p \in Process, Start(p) PROVE Cause'
  <2> USE <1>1 DEF Start, Goto, Off, Running, Refused
  <2>1. LocksHeld'
    BY DEF LocksHeld, Inside, Group
  <2>2. MappedFor'
    BY DEF MappedFor, LocksHeld, Inside, Group, Holds, Looking, IdleUnmapped
  <2>3. IdleUnmapped'
    BY DEF IdleUnmapped, MappedFor, Holds, Looking
  <2>4. Unmet'
    BY DEF Unmet, MappedFor, IdleUnmapped, LocksHeld, Inside, Group, Holds, Looking, OneMaps
  <2> QED
    BY <2>1, <2>2, <2>3, <2>4
<1>2. ASSUME NEW p \in Process, NEW g \in Group, Acquire(p, g) PROVE Cause'
  <2> USE <1>2 DEF Acquire, Goto, Running, Off, Refused
  <2>1. LocksHeld'
    BY DEF LocksHeld, Inside, Group, LockFree
  <2>2. MappedFor'
    BY DEF MappedFor, LocksHeld, Inside, Group, Holds, Looking
  <2>3. IdleUnmapped'
    BY DEF IdleUnmapped, MappedFor, Holds, Looking
  <2>4. Unmet'
    BY DEF Unmet, MappedFor, IdleUnmapped, LocksHeld, Inside, Group, Holds, Looking, OneMaps
  <2> QED
    BY <2>1, <2>2, <2>3, <2>4
<1>3. ASSUME NEW p \in Process, NEW g \in Group, Release(p, g) PROVE Cause'
  <2> USE <1>3 DEF Release, Detach, Goto, Off, Refused, Running
  <2>1. LocksHeld'
    BY DEF LocksHeld, Inside, Group
  <2>2. MappedFor'
    BY DEF MappedFor, LocksHeld, Inside, Group, Holds, Looking
  <2>3. IdleUnmapped'
    BY DEF IdleUnmapped, MappedFor, Holds, Looking
  <2>4. Unmet'
    BY DEF Unmet, MappedFor, IdleUnmapped, LocksHeld, Inside, Group, Holds, Looking, OneMaps
  <2> QED
    BY <2>1, <2>2, <2>3, <2>4
<1>4. ASSUME NEW p \in Process, ActivateAttach(p) PROVE Cause'
  <2> USE <1>4 DEF ActivateAttach, Goto, Running, Off, Refused
  <2>1. LocksHeld'
    BY DEF LocksHeld, Inside, Group
  <2>2. MappedFor'
    BY DEF MappedFor, LocksHeld, Inside, Group, Holds, Looking
  <2>3. IdleUnmapped'
    BY DEF IdleUnmapped, MappedFor, Holds, Looking
  <2>4. Unmet'
    BY DEF Unmet, MappedFor, IdleUnmapped, LocksHeld, Inside, Group, Holds, Looking, OneMaps
  <2> QED
    BY <2>1, <2>2, <2>3, <2>4
<1>5. ASSUME NEW p \in Process, ActivateDone(p) PROVE Cause'
  <2> USE <1>5 DEF ActivateDone, Detach, Goto, Running, Off, Refused
  <2>1. LocksHeld'
    BY DEF LocksHeld, Inside, Group
  <2>2. MappedFor'
    BY DEF MappedFor, LocksHeld, Inside, Group, Holds, Looking
  <2>3. IdleUnmapped'
    BY DEF IdleUnmapped, MappedFor, Holds, Looking
  <2>4. Unmet'
    BY DEF Unmet, MappedFor, IdleUnmapped, LocksHeld, Inside, Group, Holds, Looking, OneMaps
  <2> QED
    BY <2>1, <2>2, <2>3, <2>4
<1>6. ASSUME NEW p \in Process, CheckAttach(p) PROVE Cause'
  <2> USE <1>6 DEF CheckAttach, Goto, Running, Off, Refused
  <2>1. LocksHeld'
    BY DEF LocksHeld, Inside, Group
  <2>2. MappedFor'
    BY DEF MappedFor, LocksHeld, Inside, Group, Holds, Looking
  <2>3. IdleUnmapped'
    BY DEF IdleUnmapped, MappedFor, Holds, Looking
  <2>4. Unmet'
    BY DEF Unmet, MappedFor, IdleUnmapped, LocksHeld, Inside, Group, Holds, Looking, OneMaps
  <2> QED
    BY <2>1, <2>2, <2>3, <2>4
<1>7. ASSUME NEW p \in Process, CheckDone(p) PROVE Cause'
  <2> USE <1>7 DEF CheckDone, Detach, Goto, Refused, Running, Off
  <2>1. LocksHeld'
    BY DEF LocksHeld, Inside, Group
  <2>2. MappedFor'
    BY DEF MappedFor, LocksHeld, Inside, Group, Holds, Looking
  <2>3. IdleUnmapped'
    BY DEF IdleUnmapped, MappedFor, Holds, Looking
  <2>4. Unmet'
    BY DEF Unmet, MappedFor, IdleUnmapped, LocksHeld, Inside, Group, Holds, Looking, OneMaps
  <2> QED
    BY <2>1, <2>2, <2>3, <2>4
<1>8. ASSUME NEW p \in Process, Create(p) PROVE Cause'
  <2> USE <1>8 DEF Create, CreateSucceeds, Goto, Running, Off, Refused
  <2>1. LocksHeld'
    BY DEF LocksHeld, Inside, Group
  <2>2. MappedFor'
    BY DEF MappedFor, LocksHeld, Inside, Group, Holds, Looking
  <2>3. IdleUnmapped'
    BY DEF IdleUnmapped, MappedFor, Holds, Looking
  <2>4. Unmet'
    <3>1. pc[p] = <<"create", "locked">>
      OBVIOUS
    <3>2. CASE exists
      <4>1. met[p]
        BY <3>1, <3>2 DEF Unmet
      <4>2. pc' = [pc EXCEPT ![p] = <<"undo", "wait">>] /\ UNCHANGED <<exists, attached, met>>
        BY <3>2
      <4>3. \A q \in Process : Holds(q)' => Holds(q)
        BY <3>1, <4>2 DEF Holds
      <4> QED
        BY <4>1, <4>2, <4>3 DEF Unmet
    <3>3. CASE ~exists
      <4>1. /\ pc' = [pc EXCEPT ![p] = Running] /\ attached' = attached \cup {p}
            /\ met' = [q \in Process |-> met[q] \/ q # p]
        BY <3>3
      <4>2. \A q \in Process : q # p /\ Holds(q)' => Holds(q)
        BY <4>1 DEF Holds
      <4>3. ~met'[p] => \A q \in Process : q # p => ~Holds(q)
        BY <3>1, <4>1 DEF Unmet
      <4>4. \A q \in Process : q # p => met'[q]
        BY <4>1
      <4> QED
        BY <4>1, <4>2, <4>3, <4>4 DEF Unmet
    <3> QED
      BY <3>2, <3>3
  <2> QED
    BY <2>1, <2>2, <2>3, <2>4
<1>9. ASSUME NEW p \in Process, Exit(p) PROVE Cause'
  <2> USE <1>9 DEF Exit, Goto, Running, Refused, Off
  <2>1. LocksHeld'
    BY DEF LocksHeld, Inside, Group
  <2>2. MappedFor'
    BY DEF MappedFor, LocksHeld, Inside, Group, Holds, Looking
  <2>3. IdleUnmapped'
    BY DEF IdleUnmapped, MappedFor, Holds, Looking
  <2>4. Unmet'
    BY DEF Unmet, MappedFor, IdleUnmapped, LocksHeld, Inside, Group, Holds, Looking, OneMaps
  <2> QED
    BY <2>1, <2>2, <2>3, <2>4
<1>10. ASSUME NEW p \in Process, Crash(p) PROVE Cause'
  <2> USE <1>10 DEF Crash, Goto, Off, Running, Refused
  <2>1. LocksHeld'
    BY DEF LocksHeld, Inside, Group
  <2>2. MappedFor'
    BY DEF MappedFor, LocksHeld, Inside, Group, Holds, Looking
  <2>3. IdleUnmapped'
    BY DEF IdleUnmapped, MappedFor, Holds, Looking
  <2>4. Unmet'
    BY DEF Unmet, MappedFor, IdleUnmapped, LocksHeld, Inside, Group, Holds, Looking, OneMaps
  <2> QED
    BY <2>1, <2>2, <2>3, <2>4
<1>11. CASE UNCHANGED guardVars
  BY <1>11 DEF guardVars, LocksHeld, Inside, MappedFor, Holds, Looking, IdleUnmapped, Unmet
<1> QED
  BY <1>1, <1>2, <1>3, <1>4, <1>5, <1>6, <1>7, <1>8, <1>9, <1>10, <1>11 DEF GuardNext, Step

\* A start is refused only when an instance ran while it was starting.
THEOREM RefusalsHaveACause == GuardSpec => []RefusedForCause
<1>1. GuardInit => GuardIInv /\ Cause
  BY InitIInv, InitCause
<1>2. GuardIInv /\ Cause => RefusedForCause
  BY DEF GuardIInv, GuardTypeOK, Cause, Unmet, RefusedForCause, Refused, Off
<1> QED
  BY <1>1, <1>2, StepIInv, StepCause, PTL DEF GuardSpec

\* The guard as the runs state it: one instance at a time, and nobody refused
\* without one, for any set of processes and either kind of segment.
THEOREM GuardIsSound == GuardSpec => []GuardSound
<1>1. GuardTypeOK /\ SingleInstance /\ RefusedForCause => GuardSound
  BY DEF GuardSound
<1> QED
  BY <1>1, TypeCorrect, OneInstance, RefusalsHaveACause, PTL

-----------------------------------------------------------------------------
(* The daemon.  What the file says is inductive with what the launcher has *)
(* done before; that a failed start does not come again rests on where a   *)
(* failure comes from, and a command's signal from a command.              *)

\* What is assumed of the constants.
DaemonBounds == MaxForks \in Nat /\ MaxCommands \in Nat /\ MaxFails \in Nat /\ Named \in BOOLEAN

\* A launcher that has forked has a server, and the file is there only from its
\* creation to its removal.
Forked == launcher \in {"create", "write", "wait"} => pid # 0
FileStands == launcher \in {"loop", "create", "gone"} => file = NoFile

\* A server fails by itself, or by a command that was given.
FailsForAReason == /\ child = "failed" => fails > 0 \/ commands > 0
                   /\ cmd # 0 => commands > 0

DaemonIInv == DaemonTypeOK /\ FileNames /\ Forked /\ FileStands /\ FailsForAReason

\* The daemon starts without server and file.
LEMMA DaemonInitOK == ASSUME DaemonBounds, DaemonInit PROVE DaemonIInv
BY DEF DaemonBounds, DaemonInit, DaemonIInv, DaemonTypeOK, FileNames, Forked, FileStands,
       FailsForAReason, NoFile, Empty

\* The steps of the launcher.
LEMMA LauncherOK == ASSUME DaemonBounds, DaemonIInv, Launcher PROVE DaemonIInv'
<1> USE DEF DaemonBounds, DaemonIInv, NoFile, Empty
<1>1. CASE Fork
  BY <1>1 DEF Fork, DaemonTypeOK, FileNames, Forked, FileStands, FailsForAReason
<1>2. CASE CreateFile
  BY <1>2 DEF CreateFile, DaemonTypeOK, FileNames, Forked, FileStands, FailsForAReason
<1>3. CASE WriteFile
  BY <1>3 DEF WriteFile, DaemonTypeOK, FileNames, Forked, FileStands, FailsForAReason
<1>4. CASE Wait
  BY <1>4 DEF Wait, DaemonTypeOK, FileNames, Forked, FileStands, FailsForAReason
<1>5. CASE Unlink
  BY <1>5 DEF Unlink, FileAfter, DaemonTypeOK, FileNames, Forked, FileStands, FailsForAReason
<1> QED
  BY <1>1, <1>2, <1>3, <1>4, <1>5 DEF Launcher

\* The steps of the server and of the command that stops it.
LEMMA ServerOK ==
  ASSUME DaemonBounds, DaemonIInv, Ready \/ NoStart \/ Dies \/ Drained \/ Alarm \/ Read \/ Kill
  PROVE  DaemonIInv'
<1> USE DEF DaemonBounds, DaemonIInv, NoFile, Empty
<1>1. CASE Ready \/ NoStart \/ Drained \/ Alarm
  BY <1>1 DEF Ready, NoStart, StartFails, Drained, Alarm, AlarmSet, Server,
              DaemonTypeOK, FileNames, Forked, FileStands, FailsForAReason
<1>2. CASE Dies
  BY <1>2 DEF Dies, Server, DaemonTypeOK, FileNames, Forked, FileStands, FailsForAReason
<1>3. CASE Read
  BY <1>3 DEF Read, DaemonTypeOK, FileNames, Forked, FileStands, FailsForAReason
<1>4. CASE Kill
  BY <1>4 DEF Kill, DaemonTypeOK, FileNames, Forked, FileStands, FailsForAReason
<1> QED
  BY <1>1, <1>2, <1>3, <1>4

\* The pid file names the last server while the launcher waits for it, and nothing
\* else before or after; and no server whose start failed is started again, for any
\* number of servers, commands and failures.
THEOREM DaemonIsSound ==
  ASSUME MaxForks \in Nat, MaxCommands \in Nat, MaxFails \in Nat, Named \in BOOLEAN
  PROVE  DaemonSpec => DaemonSound
<1>0. DaemonBounds
  BY DEF DaemonBounds
<1>1. DaemonInit => DaemonIInv
  BY <1>0, DaemonInitOK
<1>2. DaemonIInv /\ [DaemonNext]_daemonVars => DaemonIInv'
  <2>1. DaemonIInv /\ UNCHANGED daemonVars => DaemonIInv'
    BY DEF daemonVars, DaemonIInv, DaemonTypeOK, FileNames, Forked, FileStands, FailsForAReason
  <2> QED
    BY <1>0, <2>1, LauncherOK, ServerOK DEF DaemonNext
<1>3. DaemonIInv => DaemonTypeOK /\ FileNames
  BY DEF DaemonIInv
<1>4. DaemonIInv /\ [DaemonNext]_daemonVars
        => [launcher = "wait" /\ launcher' = "unlinkAgain" => fails > 0 \/ commands > 0]_daemonVars
  <2> SUFFICES ASSUME DaemonIInv, DaemonNext, launcher = "wait", launcher' = "unlinkAgain"
               PROVE  fails > 0 \/ commands > 0
    OBVIOUS
  <2>1. Wait
    BY DEF DaemonNext, Launcher, Fork, CreateFile, WriteFile, Unlink, Ready, NoStart, Dies,
           Drained, Alarm, Read, Kill, Server
  <2>2. child = "failed"
    BY <2>1 DEF Wait, Again
  <2> QED
    BY <2>2 DEF DaemonIInv, FailsForAReason
<1> QED
  BY <1>1, <1>2, <1>3, <1>4, PTL DEF DaemonSpec, DaemonSound, NotRespawned

-----------------------------------------------------------------------------
(* What is selected of a list: the members that are in a set, each once,   *)
(* in their order.                                                         *)

\* The places of the selected members: finitely many, all of them places of the list.
LEMMA PlacesFinite ==
  ASSUME NEW T, NEW q \in Seq(T), NEW S
  PROVE  /\ Places(q, S) \subseteq 1..Len(q)
         /\ IsFiniteSet(Places(q, S))
         /\ Cardinality(Places(q, S)) \in Nat
         /\ Cardinality(Places(q, S)) <= Len(q)
<1>1. Places(q, S) \subseteq 1..Len(q)
  BY DEF Places
<1>2. IsFiniteSet(1..Len(q)) /\ Cardinality(1..Len(q)) = Len(q)
  <2>1. Len(q) \in Nat
    OBVIOUS
  <2>2. 1 \in Int /\ Len(q) \in Int /\ (IF 1 > Len(q) THEN 0 ELSE Len(q) - 1 + 1) = Len(q)
    BY <2>1
  <2> QED
    BY <2>2, FS_Interval
<1> QED
  BY <1>1, <1>2, FS_Subset, FS_CardinalityType

\* Every number up to their count is the number of one of them, and the order of
\* the numbers is the order of the places.
LEMMA PlacesInOrder ==
  ASSUME NEW T, NEW q \in Seq(T), NEW S
  PROVE  LET n == Cardinality(Places(q, S))
         IN /\ \A k \in 1..n : Place(q, S, k) \in Places(q, S)
            /\ \A k, l \in 1..n : k < l => Place(q, S, k) < Place(q, S, l)
            /\ \A i \in Places(q, S) : \E k \in 1..n : Place(q, S, k) = i
<1> DEFINE at == Places(q, S)
           n == Cardinality(at)
           before(i) == {j \in at : j < i}
           rank == [i \in at |-> Cardinality(before(i)) + 1]
<1>1. at \subseteq 1..Len(q) /\ IsFiniteSet(at) /\ n \in Nat
  BY PlacesFinite
<1>2. \A i \in at : /\ IsFiniteSet(before(i))
                    /\ Cardinality(before(i)) \in Nat
                    /\ Cardinality(before(i)) < n
  <2> TAKE i \in at
  <2>1. before(i) \subseteq at /\ i \notin before(i)
    BY <1>1
  <2> HIDE DEF before
  <2>2. IsFiniteSet(before(i)) /\ Cardinality(before(i)) <= n /\ Cardinality(before(i)) # n
    BY <1>1, <2>1, FS_Subset
  <2>3. Cardinality(before(i)) \in Nat
    BY <2>2, FS_CardinalityType
  <2> QED
    BY <1>1, <2>2, <2>3
<1>3. \A i, j \in at : i < j => Cardinality(before(i)) < Cardinality(before(j))
  <2> SUFFICES ASSUME NEW i \in at, NEW j \in at, i < j
               PROVE  Cardinality(before(i)) < Cardinality(before(j))
    OBVIOUS
  <2>1. before(i) \subseteq before(j) /\ i \in before(j) /\ i \notin before(i)
    BY <1>1
  <2>2. IsFiniteSet(before(j)) /\ Cardinality(before(j)) \in Nat /\ Cardinality(before(i)) \in Nat
    BY <1>2
  <2> HIDE DEF before
  <2>3. Cardinality(before(i)) <= Cardinality(before(j)) /\ Cardinality(before(i)) # Cardinality(before(j))
    BY <2>1, <2>2, FS_Subset
  <2> QED
    BY <2>2, <2>3
<1> HIDE DEF before
<1>4. rank \in [at -> 1..n]
  BY <1>1, <1>2
<1>5. \A i, j \in at : rank[i] = rank[j] => i = j
  <2> SUFFICES ASSUME NEW i \in at, NEW j \in at, rank[i] = rank[j], i # j PROVE FALSE
    OBVIOUS
  <2>1. i < j \/ j < i
    BY <1>1
  <2> QED
    BY <1>2, <1>3, <2>1
<1>6. rank \in Injection(at, 1..n)
  BY <1>4, <1>5 DEF Injection, IsInjective
<1>7. IsFiniteSet(1..n) /\ Cardinality(1..n) = n
  BY <1>1, FS_Interval
<1>8. rank \in Surjection(at, 1..n)
  BY <1>6, <1>7, FS_Injection
<1>9. \A k \in 1..n : \E i \in at : Cardinality(before(i)) = k - 1
  <2> TAKE k \in 1..n
  <2>1. PICK i \in at : rank[i] = k
    BY <1>8 DEF Surjection
  <2> QED
    BY <1>1, <1>2, <2>1
<1>10. \A k \in 1..n : Place(q, S, k) \in at /\ Cardinality(before(Place(q, S, k))) = k - 1
  BY <1>9 DEF Place, before
<1>11. \A k, l \in 1..n : k < l => Place(q, S, k) < Place(q, S, l)
  <2> SUFFICES ASSUME NEW k \in 1..n, NEW l \in 1..n, k < l
               PROVE  Place(q, S, k) < Place(q, S, l)
    OBVIOUS
  <2> DEFINE i == Place(q, S, k)
             j == Place(q, S, l)
  <2>1. i \in at /\ j \in at /\ Cardinality(before(i)) = k - 1 /\ Cardinality(before(j)) = l - 1
    BY <1>10
  <2> HIDE DEF i, j
  <2>2. i \in Int /\ j \in Int /\ k - 1 < l - 1
    BY <1>1, <2>1
  <2>3. ~(j < i) /\ i # j
    BY <1>3, <2>1, <2>2
  <2> QED
    BY <2>2, <2>3 DEF i, j
<1>12. \A i \in at : \E k \in 1..n : Place(q, S, k) = i
  <2> TAKE i \in at
  <2> DEFINE k == Cardinality(before(i)) + 1
             j == Place(q, S, k)
  <2>1. k \in 1..n /\ k - 1 = Cardinality(before(i))
    BY <1>1, <1>2
  <2>2. j \in at /\ Cardinality(before(j)) = Cardinality(before(i))
    BY <1>10, <2>1
  <2> HIDE DEF j
  <2>3. ~(i < j) /\ ~(j < i) /\ i \in Int /\ j \in Int
    BY <1>1, <1>3, <1>2, <2>2
  <2>4. j = i
    BY <2>3
  <2> QED
    BY <2>1, <2>4 DEF j
<1> QED
  BY <1>10, <1>11, <1>12

\* What is selected is a list: at each place a member of the set, from its place in
\* the list it was selected from.
LEMMA SelectedSeq ==
  ASSUME NEW T, NEW q \in Seq(T), NEW S
  PROVE  /\ Selected(q, S) \in Seq(T)
         /\ Len(Selected(q, S)) = Cardinality(Places(q, S))
         /\ DOMAIN Selected(q, S) = 1..Cardinality(Places(q, S))
<1> DEFINE n == Cardinality(Places(q, S))
<1>1. n \in Nat
  BY PlacesFinite
<1>2. \A k \in 1..n : Place(q, S, k) \in Places(q, S)
  BY PlacesInOrder
<1>3. \A i \in Places(q, S) : q[i] \in T
  BY DEF Places
<1>4. Selected(q, S) \in [1..n -> T]
  BY <1>2, <1>3 DEF Selected
<1> HIDE DEF n
<1>5. Selected(q, S) \in Seq(T) /\ Len(Selected(q, S)) = n /\ DOMAIN Selected(q, S) = 1..n
  BY <1>1, <1>4
<1> QED
  BY <1>5 DEF n

\* Each of them comes from its place there, and is in the set.
LEMMA SelectedFrom ==
  ASSUME NEW T, NEW q \in Seq(T), NEW S, NEW k \in 1..Len(Selected(q, S))
  PROVE  /\ Place(q, S, k) \in 1..Len(q)
         /\ Selected(q, S)[k] = q[Place(q, S, k)]
         /\ Selected(q, S)[k] \in S
<1>1. k \in 1..Cardinality(Places(q, S))
  BY SelectedSeq
<1>2. Place(q, S, k) \in Places(q, S)
  BY <1>1, PlacesInOrder
<1> QED
  BY <1>1, <1>2 DEF Selected, Places

\* Their places are in their order.
LEMMA SelectedOrder ==
  ASSUME NEW T, NEW q \in Seq(T), NEW S,
         NEW k \in 1..Len(Selected(q, S)), NEW l \in 1..Len(Selected(q, S)), k < l
  PROVE  Place(q, S, k) < Place(q, S, l)
<1>1. k \in 1..Cardinality(Places(q, S)) /\ l \in 1..Cardinality(Places(q, S))
  BY SelectedSeq
<1> QED
  BY <1>1, PlacesInOrder

\* Every member of the list that is in the set is selected.
LEMMA SelectedAll ==
  ASSUME NEW T, NEW q \in Seq(T), NEW S, NEW i \in 1..Len(q), q[i] \in S
  PROVE  \E k \in 1..Len(Selected(q, S)) : Selected(q, S)[k] = q[i]
<1>1. i \in Places(q, S)
  BY DEF Places
<1>2. PICK k \in 1..Cardinality(Places(q, S)) : Place(q, S, k) = i
  BY <1>1, PlacesInOrder
<1>3. k \in 1..Len(Selected(q, S))
  BY SelectedSeq
<1>4. Selected(q, S)[k] = q[i]
  BY <1>2 DEF Selected
<1> QED
  BY <1>3, <1>4

\* A list without repetition stays one.
LEMMA SelectedOnce ==
  ASSUME NEW T, NEW q \in Seq(T), NEW S, \A i, j \in 1..Len(q) : q[i] = q[j] => i = j
  PROVE  \A k, l \in 1..Len(Selected(q, S)) : Selected(q, S)[k] = Selected(q, S)[l] => k = l
<1> DEFINE s == Selected(q, S)
<1>1. s \in Seq(T)
  BY SelectedSeq
<1>3. \A k \in 1..Len(s) : Place(q, S, k) \in 1..Len(q) /\ s[k] = q[Place(q, S, k)]
  BY SelectedFrom
<1>4. \A k, l \in 1..Len(s) : k < l => Place(q, S, k) < Place(q, S, l)
  BY SelectedOrder
<1> HIDE DEF s
<1>2. ASSUME NEW k \in 1..Len(s), NEW l \in 1..Len(s), s[k] = s[l] PROVE k = l
  <2> DEFINE i == Place(q, S, k)
             j == Place(q, S, l)
  <2>1. i \in 1..Len(q) /\ j \in 1..Len(q) /\ q[i] = q[j] /\ (k < l => i < j) /\ (l < k => j < i)
    BY <1>2, <1>3, <1>4
  <2> HIDE DEF i, j
  <2>2. i = j
    BY <2>1
  <2>3. ~(k < l) /\ ~(l < k)
    BY <2>1, <2>2
  <2>4. k \in Int /\ l \in Int
    BY <1>1
  <2> QED
    BY <2>3, <2>4
<1> QED
  BY <1>2 DEF s

\* The list without repetition has as many members as places.
LEMMA OnceCounted ==
  ASSUME NEW T, NEW q \in Seq(T), \A i, j \in 1..Len(q) : q[i] = q[j] => i = j
  PROVE  IsFiniteSet(ToSet(q)) /\ Cardinality(ToSet(q)) = Len(q)
<1>1. Len(q) \in Nat /\ DOMAIN q = 1..Len(q)
  OBVIOUS
<1>2. ToSet(q) = {q[i] : i \in 1..Len(q)}
  BY <1>1 DEF ToSet
<1>3. q \in Bijection(1..Len(q), ToSet(q))
  <2>1. q \in [1..Len(q) -> ToSet(q)]
    BY <1>1, <1>2
  <2> QED
    BY <1>2, <2>1 DEF Bijection, Injection, Surjection, IsInjective
<1>4. IsFiniteSet(1..Len(q)) /\ Cardinality(1..Len(q)) = Len(q)
  <2>1. 1 \in Int /\ Len(q) \in Int /\ (IF 1 > Len(q) THEN 0 ELSE Len(q) - 1 + 1) = Len(q)
    BY <1>1
  <2> QED
    BY <2>1, FS_Interval
<1> QED
  BY <1>3, <1>4, FS_Bijection DEF ExistsBijection

-----------------------------------------------------------------------------
(* The proxy: the pool holds idle connections, an answer has a backend to  *)
(* come from, and a body goes to one backend.  A message on its way says   *)
(* what its connection has done, so the queue is part of the invariant;    *)
(* that the buffer is empty when an answer begins needs the order of the   *)
(* messages, since a backend that refuses the body answers at once.        *)

\* A connection of the model.
Connection == [st : States, timer : {"none", "write", "100", "read", "keep"},
               sub : {"none", "req", "pool"}, begun : BOOLEAN, whole : BOOLEAN,
               done : BOOLEAN, kept : BOOLEAN, queued : BOOLEAN]

\* The data of a request.
Data == [b : Backend \cup {None}, retry : 0..RetryCount, timer : BOOLEAN, started : BOOLEAN,
         complete : BOOLEAN, error : BOOLEAN, buf : 0..Body, eof : BOOLEAN]

\* Connections cs with the pool p, when o serves the request.
Pooled(cs, p, o) ==
  /\ cs \in [Backend -> Connection]
  /\ p \in Seq(Backend)
  /\ \A b \in Backend : /\ cs[b].st = "none" <=> cs[b].sub = "none"
                        /\ cs[b].sub = "none" => cs[b] = Closed
                        /\ cs[b].sub = "req" <=> o = b
                        /\ cs[b].sub = "pool" => cs[b].st = "idle" /\ cs[b].done /\ cs[b].kept
                        /\ cs[b].sub = "pool" <=> \E i \in 1..Len(p) : p[i] = b
  /\ \A i, j \in 1..Len(p) : p[i] = p[j] => i = j

\* Each message of the queue q is one that its connection can have sent, and none
\* refuses a body after the answer.
Heralded(cs, e) ==
  /\ cs[e[1]].sub # "none"
  /\ e[2] = "response" => cs[e[1]].sub = "req" /\ cs[e[1]].st \in {"respBody", "idle"}
  /\ e[2] = "complete" => cs[e[1]].sub = "req" /\ cs[e[1]].st = "idle" /\ cs[e[1]].done
Queue(cs, q) ==
  /\ q \in Seq(Backend \X Messages)
  /\ \A i \in 1..Len(q) : Heralded(cs, q[i])
  /\ \A i, j \in 1..Len(q) :
       i < j /\ q[i][1] = q[j][1] /\ q[i][2] \in {"response", "complete"} => q[j][2] # "no100"

\* The request and its data.
Request(s, d) ==
  /\ s \in [st : {"idle", "body", "handling", "sending"}, left : 0..Body, body : BOOLEAN,
            ans : {"none", "backend", "error"}]
  /\ d \in Data
  /\ d.started <=> s.st = "sending" /\ d.b # None
  /\ s.st = "idle" => d = NoData
  /\ s.ans # "none" <=> s.st = "sending"
  /\ s.ans = "backend" => d.b # None
  /\ d.timer => d.b # None
  /\ d.buf + s.left <= Body
  /\ s.st = "body" => s.left # 0 /\ s.body
  /\ d.eof => s.st # "body"
  /\ ~s.body => d.buf = 0

RefusesBody(q, b) == \E i \in 1..Len(q) : q[i] = <<b, "no100">>

\* What is left of the body in the buffer they share does not meet the answer.
Emptied(s, d, cs, q) ==
  d.b # None =>
    /\ cs[d.b].st \in {"waiting", "bad", "respBody", "idle"} =>
         \/ d.buf = 0 /\ s.st # "body"
         \/ s.ans = "error"
         \/ RefusesBody(q, d.b)
    /\ d.complete => s.ans = "error" \/ (cs[d.b].st = "idle" /\ ~RefusesBody(q, d.b))
    /\ s.ans = "backend" => cs[d.b].st \in {"respBody", "idle"} /\ d.buf = 0

ProxyIInv == /\ asked \in 0..Requests
             /\ Pooled(bc, pool, rd.b)
             /\ Queue(bc, evq)
             /\ Request(srv, rd)
             /\ Emptied(srv, rd, bc, evq)

\* Messages at the end of a queue, one after the other.
LEMMA AppendsOne ==
  ASSUME NEW T, NEW s \in Seq(T), NEW x \in T
  PROVE  s \o <<x>> = Append(s, x)
OBVIOUS

LEMMA AppendsTwo ==
  ASSUME NEW T, NEW s \in Seq(T), NEW x \in T, NEW y \in T
  PROVE  s \o <<x, y>> = Append(Append(s, x), y)
OBVIOUS

\* In the beginning there is no connection and no request.
LEMMA InitProxy == ASSUME ProxyBounds, ProxyInit PROVE ProxyIInv
<1>1. bc = [b \in Backend |-> Closed] /\ Closed \in Connection
  BY DEF ProxyInit, Closed, Connection, States
<1>2. Pooled(bc, pool, rd.b)
  BY <1>1 DEF ProxyInit, Pooled, Closed, NoData, ProxyBounds
<1>3. Queue(bc, evq)
  BY DEF ProxyInit, Queue
<1>4. Request(srv, rd)
  BY DEF ProxyInit, Request, Idle, NoData, ProxyBounds, Data
<1>5. Emptied(srv, rd, bc, evq)
  BY DEF ProxyInit, Emptied, NoData
<1> QED
  BY <1>2, <1>3, <1>4, <1>5 DEF ProxyInit, ProxyIInv, ProxyBounds

\* A queue without the messages of b says of the others what it said.
LEMMA HeardQueue ==
  ASSUME NEW cs, NEW q, Queue(cs, q), NEW b \in Backend, NEW ds,
         \A x \in Backend \ {b} : ds[x] = cs[x]
  PROVE  /\ Queue(ds, Heard(q, b))
         /\ \A x \in Backend \ {b} : RefusesBody(Heard(q, b), x) <=> RefusesBody(q, x)
<1> DEFINE S == {e \in Backend \X Messages : e[1] # b}
           r == Selected(q, S)
<1>1. q \in Seq(Backend \X Messages)
  BY DEF Queue
<1>2. /\ r \in Seq(Backend \X Messages)
      /\ \A k \in 1..Len(r) : Place(q, S, k) \in 1..Len(q) /\ r[k] = q[Place(q, S, k)] /\ r[k] \in S
      /\ \A k, l \in 1..Len(r) : k < l => Place(q, S, k) < Place(q, S, l)
      /\ \A i \in 1..Len(q) : q[i] \in S => \E k \in 1..Len(r) : r[k] = q[i]
  <2> HIDE DEF S
  <2>1. r \in Seq(Backend \X Messages)
    BY <1>1, SelectedSeq
  <2>2. \A k \in 1..Len(r) : Place(q, S, k) \in 1..Len(q) /\ r[k] = q[Place(q, S, k)] /\ r[k] \in S
    BY <1>1, SelectedFrom
  <2>3. \A k, l \in 1..Len(r) : k < l => Place(q, S, k) < Place(q, S, l)
    BY <1>1, SelectedOrder
  <2>4. \A i \in 1..Len(q) : q[i] \in S => \E k \in 1..Len(r) : r[k] = q[i]
    BY <1>1, SelectedAll
  <2> QED
    BY <2>1, <2>2, <2>3, <2>4
<1>3. \A k \in 1..Len(r) : r[k][1] # b /\ r[k][1] \in Backend
  BY <1>2
<1> HIDE DEF r
<1>4. \A k \in 1..Len(r) : Heralded(ds, r[k])
  <2> TAKE k \in 1..Len(r)
  <2>1. Heralded(cs, r[k])
    BY <1>2 DEF Queue
  <2>2. r[k][1] \in Backend \ {b}
    BY <1>3
  <2> QED
    BY <2>1, <2>2 DEF Heralded
<1>5. \A k, l \in 1..Len(r) :
        k < l /\ r[k][1] = r[l][1] /\ r[k][2] \in {"response", "complete"} => r[l][2] # "no100"
  <2> SUFFICES ASSUME NEW k \in 1..Len(r), NEW l \in 1..Len(r),
                      k < l, r[k][1] = r[l][1], r[k][2] \in {"response", "complete"}
               PROVE  r[l][2] # "no100"
    OBVIOUS
  <2> DEFINE i == Place(q, S, k)
             j == Place(q, S, l)
  <2>1. i \in 1..Len(q) /\ j \in 1..Len(q) /\ i < j /\ r[k] = q[i] /\ r[l] = q[j]
    BY <1>2
  <2> HIDE DEF i, j
  <2> QED
    BY <2>1 DEF Queue
<1>6. Queue(ds, r)
  BY <1>2, <1>4, <1>5 DEF Queue
<1>7. ASSUME NEW x \in Backend \ {b} PROVE RefusesBody(r, x) <=> RefusesBody(q, x)
  <2>1. ASSUME RefusesBody(q, x) PROVE RefusesBody(r, x)
    <3>1. PICK i \in 1..Len(q) : q[i] = <<x, "no100">>
      BY <2>1 DEF RefusesBody
    <3>2. q[i] \in S
      BY <1>1, <3>1
    <3>3. PICK k \in 1..Len(r) : r[k] = q[i]
      BY <1>2, <3>2
    <3> QED
      BY <3>1, <3>3 DEF RefusesBody
  <2>2. ASSUME RefusesBody(r, x) PROVE RefusesBody(q, x)
    <3>1. PICK k \in 1..Len(r) : r[k] = <<x, "no100">>
      BY <2>2 DEF RefusesBody
    <3>2. Place(q, S, k) \in 1..Len(q) /\ q[Place(q, S, k)] = <<x, "no100">>
      BY <1>2, <3>1
    <3> HIDE DEF S
    <3> QED
      BY <3>2 DEF RefusesBody
  <2> QED
    BY <2>1, <2>2
<1> QED
  BY <1>6, <1>7 DEF r, Heard

\* A connection that is given back is in the pool or closed, and nobody asks for it.
LEMMA ReturnedPooled ==
  ASSUME NEW b \in Backend, Pooled(bc, pool, b), NEW closed \in BOOLEAN, ProxyBounds
  PROVE  Pooled(Returned(b, closed), PoolAfter(b, closed), None)
<1>1. bc \in [Backend -> Connection] /\ pool \in Seq(Backend) /\ None \notin Backend
  BY DEF Pooled, ProxyBounds
<1>2. CASE Keeps(b, closed)
  <2> DEFINE cs == [bc EXCEPT ![b].sub = "pool"]
             p == Append(pool, b)
  <2>1. Returned(b, closed) = cs /\ PoolAfter(b, closed) = p
    BY <1>2 DEF Returned, PoolAfter
  <2>2. cs \in [Backend -> Connection] /\ p \in Seq(Backend)
    BY <1>1 DEF Connection
  <2>3. bc[b].sub = "req" /\ \A i \in 1..Len(pool) : pool[i] # b
    BY DEF Pooled
  <2>4. Len(p) = Len(pool) + 1 /\ p[Len(p)] = b /\ \A i \in 1..Len(pool) : p[i] = pool[i]
    BY <1>1
  <2>5. /\ cs[b].st = bc[b].st /\ cs[b].sub = "pool" /\ cs[b].done = bc[b].done /\ cs[b].kept = bc[b].kept
        /\ \A x \in Backend \ {b} : cs[x] = bc[x]
    BY <1>1 DEF Connection
  <2>6. bc[b].done /\ bc[b].st = "idle" /\ bc[b].kept
    BY <1>2 DEF Keeps
  <2> HIDE DEF cs, p
  <2>7. \A i, j \in 1..Len(p) : p[i] = p[j] => i = j
    BY <1>1, <2>2, <2>3, <2>4 DEF Pooled
  <2>8. \A x \in Backend : cs[x].sub = "pool" <=> \E i \in 1..Len(p) : p[i] = x
    <3> TAKE x \in Backend
    <3>1. CASE x = b
      <4>1. Len(p) \in 1..Len(p)
        BY <1>1, <2>4
      <4> QED
        BY <2>4, <2>5, <3>1, <4>1
    <3>2. CASE x # b
      BY <1>1, <2>4, <2>5, <3>2 DEF Pooled
    <3> QED
      BY <3>1, <3>2
  <2>9. \A x \in Backend : /\ cs[x].st = "none" <=> cs[x].sub = "none"
                           /\ cs[x].sub = "none" => cs[x] = Closed
                           /\ cs[x].sub # "req"
                           /\ cs[x].sub = "pool" => cs[x].st = "idle" /\ cs[x].done /\ cs[x].kept
    <3> TAKE x \in Backend
    <3>1. CASE x = b
      BY <2>3, <2>5, <2>6, <3>1 DEF Pooled
    <3>2. CASE x # b
      BY <2>5, <3>2 DEF Pooled
    <3> QED
      BY <3>1, <3>2
  <2> QED
    BY <1>1, <2>1, <2>2, <2>7, <2>8, <2>9 DEF Pooled
<1>3. CASE ~Keeps(b, closed)
  <2> DEFINE cs == [bc EXCEPT ![b] = Closed]
  <2>1. Returned(b, closed) = cs /\ PoolAfter(b, closed) = pool
    BY <1>3 DEF Returned, PoolAfter
  <2>2. Closed \in Connection /\ Closed.st = "none" /\ Closed.sub = "none"
    BY DEF Closed, Connection, States
  <2>3. cs \in [Backend -> Connection] /\ cs[b] = Closed /\ \A x \in Backend \ {b} : cs[x] = bc[x]
    BY <1>1, <2>2
  <2>4. \A i \in 1..Len(pool) : pool[i] # b
    BY DEF Pooled
  <2> HIDE DEF cs
  <2>5. Pooled(cs, pool, None)
    BY <1>1, <2>2, <2>3, <2>4 DEF Pooled
  <2> QED
    BY <2>1, <2>5
<1> QED
  BY <1>2, <1>3

\* A request that is started has a connection, whose messages are all to come.
LEMMA StartedPooled ==
  ASSUME NEW cs, NEW p, NEW q, NEW data, Pooled(cs, p, None), Queue(cs, q), ProxyBounds,
         StartRequest(cs, p, q, data),
         data \in Data
  PROVE  /\ rd'.b \in Backend
         /\ rd' = [data EXCEPT !.b = rd'.b, !.timer = TRUE, !.started = FALSE, !.complete = FALSE,
                           !.error = FALSE, !.buf = 0, !.eof = FALSE]
         /\ Pooled(bc', pool', rd'.b)
         /\ Queue(bc', evq')
         /\ bc'[rd'.b].st \in {"headers", "connecting"}
<1> DEFINE fresh == {x \in Backend : cs[x].st = "none"}
           b == IF p # <<>> THEN Head(p) ELSE CHOOSE x \in fresh : TRUE
           c == [Closed EXCEPT !.st = IF cs[b].st = "idle" THEN "headers" ELSE "connecting",
                               !.timer = "write", !.sub = "req"]
<1>1. /\ p # <<>> \/ fresh # {}
      /\ bc' = Started(cs, b)
      /\ pool' = IF p # <<>> THEN Tail(p) ELSE p
      /\ evq' = Heard(q, b)
      /\ rd' = [data EXCEPT !.b = b, !.timer = TRUE, !.started = FALSE, !.complete = FALSE,
                           !.error = FALSE, !.buf = 0, !.eof = FALSE]
  BY DEF StartRequest
<1>2. cs \in [Backend -> Connection] /\ p \in Seq(Backend) /\ None \notin Backend
  BY DEF Pooled, ProxyBounds
<1>3. b \in Backend
  BY <1>1, <1>2
<1>4. c \in Connection /\ c.sub = "req" /\ c.st \in {"headers", "connecting"}
  BY DEF Closed, Connection, States
<1>5. bc' = [cs EXCEPT ![b] = c]
  BY <1>1, <1>2, <1>3 DEF Started
<1>6. bc' \in [Backend -> Connection] /\ bc'[b] = c /\ \A x \in Backend \ {b} : bc'[x] = cs[x]
  BY <1>2, <1>3, <1>4, <1>5
<1>7. rd'.b = b
  BY <1>1
<1> HIDE DEF c
<1>8. /\ pool' \in Seq(Backend)
      /\ \A i, j \in 1..Len(pool') : pool'[i] = pool'[j] => i = j
      /\ \A x \in Backend : (\E i \in 1..Len(pool') : pool'[i] = x) <=> cs[x].sub = "pool" /\ x # b
  <2>1. CASE p # <<>>
    <3>1. b = p[1] /\ pool' = Tail(p)
      BY <1>1, <1>2, <2>1
    <3> HIDE DEF b
    <3>2. pool' \in Seq(Backend) /\ Len(p) \in Nat /\ Len(pool') = Len(p) - 1 /\ Len(p) >= 1
      BY <1>2, <2>1, <3>1
    <3>3. \A i \in 1..Len(pool') : pool'[i] = p[i + 1]
      BY <1>2, <2>1, <3>1
    <3>7. \A i \in 1..Len(pool') : i + 1 \in 1..Len(p)
      BY <3>2
    <3>4. \A i, j \in 1..Len(p) : p[i] = p[j] => i = j
      BY DEF Pooled
    <3>5. \A i, j \in 1..Len(pool') : pool'[i] = pool'[j] => i = j
      <4> SUFFICES ASSUME NEW i \in 1..Len(pool'), NEW j \in 1..Len(pool'), pool'[i] = pool'[j] PROVE i = j
        OBVIOUS
      <4> DEFINE m == i + 1
                 n == j + 1
      <4>1. m \in 1..Len(p) /\ n \in 1..Len(p)
        BY <3>7
      <4>2. pool'[i] = p[m] /\ pool'[j] = p[n]
        BY <3>3
      <4> HIDE DEF m, n
      <4>3. m = n
        BY <3>4, <4>1, <4>2
      <4> QED
        BY <3>2, <4>3 DEF m, n
    <3>6. ASSUME NEW x \in Backend
          PROVE  (\E i \in 1..Len(pool') : pool'[i] = x) <=> cs[x].sub = "pool" /\ x # b
      <4>1. cs[x].sub = "pool" <=> \E i \in 1..Len(p) : p[i] = x
        BY DEF Pooled
      <4>2. ASSUME NEW i \in 1..Len(pool'), pool'[i] = x PROVE cs[x].sub = "pool" /\ x # b
        <5>1. i + 1 \in 1..Len(p) /\ p[i + 1] = x /\ 1 \in 1..Len(p) /\ i + 1 # 1
          BY <3>2, <3>3, <4>2
        <5>2. p[i + 1] # p[1]
          BY <3>4, <5>1
        <5> QED
          BY <3>1, <4>1, <5>1, <5>2
      <4>3. ASSUME cs[x].sub = "pool", x # b PROVE \E i \in 1..Len(pool') : pool'[i] = x
        <5>1. PICK j \in 1..Len(p) : p[j] = x
          BY <4>1, <4>3
        <5>2. j # 1
          BY <3>1, <4>3, <5>1
        <5>3. j - 1 \in 1..Len(pool') /\ pool'[j - 1] = p[(j - 1) + 1] /\ (j - 1) + 1 = j
          BY <3>2, <3>3, <5>1, <5>2
        <5> QED
          BY <5>1, <5>3
      <4> QED
        BY <4>2, <4>3
    <3> QED
      BY <3>2, <3>5, <3>6
  <2>2. CASE p = <<>>
    <3>1. cs[b].st = "none" /\ pool' = p
      BY <1>1, <2>2
    <3>2. cs[b].sub # "pool"
      BY <1>3, <3>1 DEF Pooled
    <3> HIDE DEF b
    <3> QED
      BY <1>2, <3>1, <3>2 DEF Pooled
  <2> QED
    BY <2>1, <2>2
<1>9. Pooled(bc', pool', b)
  <2> HIDE DEF b
  <2> QED
    BY <1>2, <1>3, <1>4, <1>6, <1>8 DEF Pooled
<1>10. Queue(bc', evq')
  <2> HIDE DEF b
  <2> QED
    BY <1>1, <1>3, <1>6, HeardQueue
<1> QED
  BY <1>1, <1>3, <1>4, <1>6, <1>7, <1>9, <1>10

\* The first message of the queue, and the queue without it.
LEMMA TailQueue ==
  ASSUME NEW cs, NEW q, Queue(cs, q), q # <<>>
  PROVE  /\ Queue(cs, Tail(q))
         /\ Head(q) \in Backend \X Messages
         /\ Heralded(cs, Head(q))
         /\ Head(q)[2] \in {"response", "complete"} => ~RefusesBody(q, Head(q)[1])
         /\ \A x \in Backend : /\ RefusesBody(Tail(q), x) => RefusesBody(q, x)
                               /\ RefusesBody(q, x) => RefusesBody(Tail(q), x) \/ Head(q) = <<x, "no100">>
<1>1. q \in Seq(Backend \X Messages)
  BY DEF Queue
<1> DEFINE r == Tail(q)
<1>2. /\ r \in Seq(Backend \X Messages) /\ Len(q) \in Nat /\ Len(q) >= 1
      /\ Len(r) = Len(q) - 1 /\ Head(q) = q[1] /\ q[1] \in Backend \X Messages
      /\ \A i \in 1..Len(r) : r[i] = q[i + 1]
  BY <1>1
<1> HIDE DEF r
<1>3. \A i \in 1..Len(r) : i + 1 \in 1..Len(q)
  BY <1>2
<1>4. 1 \in 1..Len(q)
  BY <1>2
<1>5. \A i \in 1..Len(r) : Heralded(cs, r[i])
  BY <1>2, <1>3 DEF Queue
<1>6. ASSUME NEW i \in 1..Len(r), NEW j \in 1..Len(r),
             i < j, r[i][1] = r[j][1], r[i][2] \in {"response", "complete"}
      PROVE  r[j][2] # "no100"
  <2>1. i + 1 \in 1..Len(q) /\ j + 1 \in 1..Len(q) /\ i + 1 < j + 1 /\ r[i] = q[i + 1] /\ r[j] = q[j + 1]
    BY <1>2, <1>3, <1>6
  <2> QED
    BY <1>6, <2>1 DEF Queue
<1>7. Queue(cs, r)
  BY <1>2, <1>5, <1>6 DEF Queue
<1>8. ASSUME q[1][2] \in {"response", "complete"}, RefusesBody(q, q[1][1]) PROVE FALSE
  <2>1. PICK i \in 1..Len(q) : q[i] = <<q[1][1], "no100">>
    BY <1>8 DEF RefusesBody
  <2>2. i # 1 /\ q[i][1] = q[1][1] /\ q[i][2] = "no100"
    BY <1>2, <1>8, <2>1
  <2>3. 1 < i
    BY <1>2, <2>2
  <2> QED
    BY <1>4, <1>8, <2>2, <2>3 DEF Queue
<1>9. ASSUME NEW x \in Backend
      PROVE  /\ RefusesBody(r, x) => RefusesBody(q, x)
             /\ RefusesBody(q, x) => RefusesBody(r, x) \/ q[1] = <<x, "no100">>
  <2>1. ASSUME RefusesBody(q, x), q[1] # <<x, "no100">> PROVE RefusesBody(r, x)
    <3>1. PICK i \in 1..Len(q) : q[i] = <<x, "no100">>
      BY <2>1 DEF RefusesBody
    <3>2. i # 1
      BY <2>1, <3>1
    <3>3. i - 1 \in 1..Len(r) /\ (i - 1) + 1 = i
      BY <1>2, <3>2
    <3>4. r[i - 1] = q[i]
      BY <1>2, <3>3
    <3> QED
      BY <3>1, <3>3, <3>4 DEF RefusesBody
  <2>2. ASSUME RefusesBody(r, x) PROVE RefusesBody(q, x)
    BY <1>2, <1>3, <2>2 DEF RefusesBody
  <2> QED
    BY <2>1, <2>2
<1> QED
  BY <1>2, <1>4, <1>7, <1>8, <1>9 DEF r, Queue

\* A message that its connection may send, at the end of the queue.
LEMMA AppendQueue ==
  ASSUME NEW cs, NEW q, Queue(cs, q), NEW b \in Backend, NEW m \in Messages, Heralded(cs, <<b, m>>),
         m = "no100" => cs[b].sub # "req" \/ cs[b].st \notin {"respBody", "idle"} \/
                        \A i \in 1..Len(q) : q[i][1] = b => q[i][2] \notin {"response", "complete"}
  PROVE  /\ Queue(cs, Append(q, <<b, m>>))
         /\ \A x \in Backend : RefusesBody(Append(q, <<b, m>>), x) <=> RefusesBody(q, x) \/ (x = b /\ m = "no100")
<1> DEFINE r == Append(q, <<b, m>>)
           n == Len(q)
<1>1. q \in Seq(Backend \X Messages) /\ n \in Nat
  BY DEF Queue
<1>2. /\ r \in Seq(Backend \X Messages) /\ Len(r) = n + 1 /\ r[n + 1] = <<b, m>>
      /\ \A i \in 1..n : r[i] = q[i]
  BY <1>1
<1> HIDE DEF r
<1>3. \A i \in 1..Len(r) : i \in 1..n \/ i = n + 1
  BY <1>1, <1>2
<1>4. \A i \in 1..Len(r) : Heralded(cs, r[i])
  BY <1>2, <1>3 DEF Queue
<1>5. ASSUME NEW i \in 1..Len(r), NEW j \in 1..Len(r),
             i < j, r[i][1] = r[j][1], r[i][2] \in {"response", "complete"}
      PROVE  r[j][2] # "no100"
  <2>1. i \in 1..n /\ r[i] = q[i]
    BY <1>1, <1>2, <1>3, <1>5
  <2>2. CASE j \in 1..n
    BY <1>2, <1>5, <2>1, <2>2 DEF Queue
  <2>3. CASE j = n + 1
    <3>1. q[i][1] = b /\ q[i][2] \in {"response", "complete"} /\ r[j][2] = m
      BY <1>2, <1>5, <2>1, <2>3
    <3>2. cs[b].sub = "req" /\ cs[b].st \in {"respBody", "idle"}
      BY <2>1, <3>1 DEF Queue, Heralded
    <3> QED
      BY <2>1, <3>1, <3>2
  <2> QED
    BY <1>3, <2>2, <2>3
<1>6. ASSUME NEW x \in Backend
      PROVE  RefusesBody(r, x) <=> RefusesBody(q, x) \/ (x = b /\ m = "no100")
  <2>1. n + 1 \in 1..Len(r) /\ \A i \in 1..n : i \in 1..Len(r)
    BY <1>1, <1>2
  <2>2. <<b, m>> = <<x, "no100">> <=> x = b /\ m = "no100"
    OBVIOUS
  <2> QED
    BY <1>2, <1>3, <2>1, <2>2 DEF RefusesBody
<1> QED
  BY <1>2, <1>4, <1>5, <1>6 DEF r, Queue

\* A connection that goes on keeps its promises.
LEMMA MovedQueue ==
  ASSUME NEW cs, NEW q, Queue(cs, q), NEW b \in Backend, NEW ds,
         \A x \in Backend \ {b} : ds[x] = cs[x],
         ds[b].sub = cs[b].sub,
         cs[b].st \in {"respBody", "idle"} => ds[b].st \in {"respBody", "idle"},
         cs[b].st = "idle" => ds[b].st = "idle",
         cs[b].done => ds[b].done
  PROVE  Queue(ds, q)
<1>1. q \in Seq(Backend \X Messages)
  BY DEF Queue
<1>2. \A i \in 1..Len(q) : Heralded(ds, q[i])
  <2> TAKE i \in 1..Len(q)
  <2>1. q[i][1] \in Backend
    BY <1>1
  <2>2. Heralded(cs, q[i])
    BY DEF Queue
  <2>3. CASE q[i][1] = b
    BY <2>2, <2>3 DEF Heralded
  <2>4. CASE q[i][1] # b
    BY <2>1, <2>2, <2>4 DEF Heralded
  <2> QED
    BY <2>3, <2>4
<1> QED
  BY <1>1, <1>2 DEF Queue

\* A connection that goes on stays where it is.
LEMMA MovedPooled ==
  ASSUME NEW b \in Backend, NEW c \in Connection, NEW o, Pooled(bc, pool, o),
         bc' = [bc EXCEPT ![b] = c], pool' = pool, bc[b].st # "none", c.st # "none", c.sub = bc[b].sub,
         c.sub = "pool" => c.st = "idle" /\ c.done /\ c.kept
  PROVE  Pooled(bc', pool', o) /\ bc'[b] = c /\ \A x \in Backend \ {b} : bc'[x] = bc[x]
<1>1. bc \in [Backend -> Connection] /\ pool \in Seq(Backend)
  BY DEF Pooled
<1>2. bc' \in [Backend -> Connection] /\ bc'[b] = c /\ \A x \in Backend \ {b} : bc'[x] = bc[x]
  BY <1>1
<1>3. bc[b].sub # "none"
  BY DEF Pooled
<1>4. \A x \in Backend : /\ bc'[x].st = "none" <=> bc'[x].sub = "none"
                         /\ bc'[x].sub = "none" => bc'[x] = Closed
                         /\ bc'[x].sub = bc[x].sub
                         /\ bc'[x].sub = "pool" => bc'[x].st = "idle" /\ bc'[x].done /\ bc'[x].kept
  <2> TAKE x \in Backend
  <2>1. CASE x = b
    BY <1>2, <1>3, <2>1
  <2>2. CASE x # b
    BY <1>2, <2>2 DEF Pooled
  <2> QED
    BY <2>1, <2>2
<1> QED
  BY <1>1, <1>2, <1>4 DEF Pooled

\* An idle connection that ends leaves the pool.
LEMMA DroppedPooled ==
  ASSUME NEW b \in Backend, NEW o, Pooled(bc, pool, o), bc[b].sub = "pool",
         bc' = [bc EXCEPT ![b] = Closed], pool' = Selected(pool, Backend \ {b})
  PROVE  Pooled(bc', pool', o) /\ o # b /\ \A x \in Backend \ {b} : bc'[x] = bc[x]
<1> DEFINE S == Backend \ {b}
<1>1. bc \in [Backend -> Connection] /\ pool \in Seq(Backend)
  BY DEF Pooled
<1>2. Closed \in Connection /\ Closed.st = "none" /\ Closed.sub = "none"
  BY DEF Closed, Connection, States
<1>3. bc' \in [Backend -> Connection] /\ bc'[b] = Closed /\ \A x \in Backend \ {b} : bc'[x] = bc[x]
  BY <1>1, <1>2
<1>4. /\ pool' \in Seq(Backend)
      /\ \A k \in 1..Len(pool') : Place(pool, S, k) \in 1..Len(pool) /\ pool'[k] = pool[Place(pool, S, k)] /\ pool'[k] \in S
      /\ \A i \in 1..Len(pool) : pool[i] \in S => \E k \in 1..Len(pool') : pool'[k] = pool[i]
  <2> DEFINE r == Selected(pool, S)
  <2> HIDE DEF S
  <2>1. r \in Seq(Backend)
    BY <1>1, SelectedSeq
  <2>2. \A k \in 1..Len(r) : Place(pool, S, k) \in 1..Len(pool) /\ r[k] = pool[Place(pool, S, k)] /\ r[k] \in S
    BY <1>1, SelectedFrom
  <2>3. \A i \in 1..Len(pool) : pool[i] \in S => \E k \in 1..Len(r) : r[k] = pool[i]
    BY <1>1, SelectedAll
  <2>4. pool' = r
    BY DEF S
  <2> HIDE DEF r
  <2> QED
    BY <2>1, <2>2, <2>3, <2>4
<1>5. \A k, l \in 1..Len(pool') : pool'[k] = pool'[l] => k = l
  <2>1. \A i, j \in 1..Len(pool) : pool[i] = pool[j] => i = j
    BY DEF Pooled
  <2> QED
    BY <1>1, <2>1, SelectedOnce
<1>6. \A x \in Backend : (\E i \in 1..Len(pool') : pool'[i] = x) <=> bc[x].sub = "pool" /\ x # b
  <2> TAKE x \in Backend
  <2>1. bc[x].sub = "pool" <=> \E i \in 1..Len(pool) : pool[i] = x
    BY DEF Pooled
  <2>2. ASSUME NEW k \in 1..Len(pool'), pool'[k] = x PROVE bc[x].sub = "pool" /\ x # b
    BY <1>4, <2>1, <2>2
  <2>3. ASSUME bc[x].sub = "pool", x # b PROVE \E k \in 1..Len(pool') : pool'[k] = x
    <3>1. PICK i \in 1..Len(pool) : pool[i] = x
      BY <2>1, <2>3
    <3>2. pool[i] \in S
      BY <2>3, <3>1
    <3> QED
      BY <1>4, <3>1, <3>2
  <2> QED
    BY <2>2, <2>3
<1>7. o # b
  BY DEF Pooled
<1>8. \A x \in Backend : bc'[x].sub = "pool" <=> bc[x].sub = "pool" /\ x # b
  BY <1>2, <1>3
<1>9. \A x \in Backend : /\ bc'[x].st = "none" <=> bc'[x].sub = "none"
                         /\ bc'[x].sub = "none" => bc'[x] = Closed
                         /\ bc'[x].sub = "req" <=> o = x
                         /\ bc'[x].sub = "pool" => bc'[x].st = "idle" /\ bc'[x].done /\ bc'[x].kept
  <2> TAKE x \in Backend
  <2>1. CASE x = b
    BY <1>2, <1>3, <1>7, <2>1
  <2>2. CASE x # b
    BY <1>3, <2>2 DEF Pooled
  <2> QED
    BY <2>1, <2>2
<1> HIDE DEF S
<1> QED
  BY <1>3, <1>4, <1>5, <1>6, <1>7, <1>8, <1>9 DEF Pooled

\* The request is over: its connection is given back, or it has none.
LEMMA EndStep ==
  ASSUME ProxyBounds, ProxyIInv, NEW q, Queue(bc, q), NEW closed \in BOOLEAN, asked' = asked,
         srv' = Idle, rd' = NoData,
         IF rd.b = None THEN bc' = bc /\ pool' = pool /\ evq' = q
         ELSE /\ bc' = Returned(rd.b, closed)
              /\ pool' = PoolAfter(rd.b, closed)
              /\ evq' = Heard(q, rd.b)
  PROVE  ProxyIInv'
<1>1. Pooled(bc, pool, rd.b) /\ rd.b \in Backend \cup {None} /\ asked' \in 0..Requests
  BY DEF ProxyIInv, Request, Data
<1>2. Request(srv', rd') /\ Emptied(srv', rd', bc', evq') /\ rd'.b = None
  BY DEF Request, Emptied, Idle, NoData, ProxyBounds, Data
<1>3. CASE rd.b = None
  BY <1>1, <1>2, <1>3 DEF ProxyIInv
<1>4. CASE rd.b # None
  <2>1. rd.b \in Backend
    BY <1>1, <1>4
  <2>2. Pooled(bc', pool', None)
    BY <1>1, <1>4, <2>1, ReturnedPooled
  <2>3. bc \in [Backend -> Connection]
    BY <1>1 DEF Pooled
  <2>4. \A x \in Backend \ {rd.b} : bc'[x] = bc[x]
    BY <1>4, <2>1, <2>3 DEF Returned
  <2>5. Queue(bc', evq')
    BY <1>4, <2>1, <2>4, HeardQueue
  <2> QED
    BY <1>1, <1>2, <2>2, <2>5 DEF ProxyIInv
<1> QED
  BY <1>3, <1>4

\* nxweb_http_proxy_request_finalize, whoever calls it.
LEMMA FinalizeStep ==
  ASSUME ProxyBounds, ProxyIInv, Finalize PROVE ProxyIInv'
<1>1. rd.error \in BOOLEAN /\ Queue(bc, evq)
  BY DEF ProxyIInv, Request, Data
<1> QED
  BY <1>1, EndStep DEF Finalize

\* fail_proxy_request, with the queue q that is left.
LEMMA FailStep ==
  ASSUME ProxyBounds, ProxyIInv, rd.b \in Backend, NEW q, Queue(bc, q), NEW failed \in BOOLEAN,
         Fail(q, failed), asked' = asked
  PROVE  ProxyIInv'
<1>1. rd.b # None
  BY DEF ProxyBounds
<1>2. CASE rd.started
  BY <1>1, <1>2, EndStep DEF Fail
<1>3. CASE ~rd.started
  <2>1. /\ srv' = [srv EXCEPT !.st = "sending", !.ans = "error"]
        /\ rd' = [rd EXCEPT !.started = TRUE, !.complete = TRUE, !.error = failed, !.timer = FALSE]
        /\ evq' = q /\ bc' = bc /\ pool' = pool
    BY <1>3 DEF Fail
  <2>2. Request(srv', rd') /\ rd'.b = rd.b /\ srv'.ans = "error"
    BY <1>1, <2>1 DEF ProxyIInv, Request, Data
  <2>3. Emptied(srv', rd', bc', evq')
    BY <2>2 DEF Emptied
  <2> QED
    BY <2>1, <2>2, <2>3 DEF ProxyIInv
<1> QED
  BY <1>2, <1>3

\* retry_proxy_request, with the queue q that is left.
LEMMA RetryStep ==
  ASSUME ProxyBounds, ProxyIInv, rd.b \in Backend, NEW q, Queue(bc, q), ~rd.started,
         rd.retry < RetryCount, Retry(q), asked' = asked
  PROVE  ProxyIInv'
<1> DEFINE cs == Returned(rd.b, TRUE)
           data == [rd EXCEPT !.retry = @ + 1]
<1>1. cs = [bc EXCEPT ![rd.b] = Closed] /\ PoolAfter(rd.b, TRUE) = pool
  BY DEF Returned, PoolAfter, Keeps
<1>2. Pooled(cs, pool, None)
  <2>1. Pooled(Returned(rd.b, TRUE), PoolAfter(rd.b, TRUE), None)
    BY ReturnedPooled DEF ProxyIInv
  <2> QED
    BY <1>1, <2>1
<1>3. Queue(cs, Heard(q, rd.b))
  <2>1. bc \in [Backend -> Connection]
    BY DEF ProxyIInv, Pooled
  <2>2. \A x \in Backend \ {rd.b} : cs[x] = bc[x]
    BY <1>1, <2>1
  <2> QED
    BY <2>2, HeardQueue
<1>4. /\ data \in Data
      /\ srv' = srv /\ srv.st # "sending" /\ srv.st # "idle" /\ rd.b # None
      /\ data.retry \in 0..RetryCount
  <2>1. rd.b # None
    BY DEF ProxyBounds
  <2>2. Request(srv, rd) /\ srv' = srv
    BY DEF ProxyIInv, Retry
  <2>3. srv.st # "sending" /\ srv.st # "idle"
    BY <2>1, <2>2 DEF Request, NoData
  <2>4. rd \in Data /\ rd.retry + 1 \in 0..RetryCount
    BY <2>2 DEF Request, Data, ProxyBounds
  <2>5. data \in Data /\ data.retry = rd.retry + 1
    BY <2>4 DEF Data
  <2> QED
    BY <2>1, <2>2, <2>3, <2>4, <2>5
<1>5. CASE StartRequest(cs, pool, Heard(q, rd.b), data)
  <2> HIDE DEF cs, data
  <2>1. /\ rd'.b \in Backend
        /\ rd' = [data EXCEPT !.b = rd'.b, !.timer = TRUE, !.started = FALSE, !.complete = FALSE,
                              !.error = FALSE, !.buf = 0, !.eof = FALSE]
        /\ Pooled(bc', pool', rd'.b)
        /\ Queue(bc', evq')
        /\ bc'[rd'.b].st \in {"headers", "connecting"}
    BY <1>2, <1>3, <1>4, <1>5, StartedPooled
  <2>2. /\ rd' \in Data
        /\ ~rd'.started /\ ~rd'.complete /\ rd'.buf = 0 /\ ~rd'.eof /\ rd'.b # None
    <3>1. rd'.b \in Backend \cup {None} /\ rd'.b # None
      BY <2>1 DEF ProxyBounds
    <3>2. data \in Data
      BY <1>4
    <3> DEFINE x == rd'.b
               e == rd'
    <3>3. e = [data EXCEPT !.b = x, !.timer = TRUE, !.started = FALSE, !.complete = FALSE,
                           !.error = FALSE, !.buf = 0, !.eof = FALSE]
      BY <2>1
    <3>4. x \in Backend \cup {None} /\ x # None
      BY <3>1
    <3> HIDE DEF x, e
    <3>5. e = [b |-> x, retry |-> data.retry, timer |-> TRUE, started |-> FALSE, complete |-> FALSE,
               error |-> FALSE, buf |-> 0, eof |-> FALSE]
      BY <3>2, <3>3 DEF Data
    <3>6. e \in Data /\ e.b = x /\ ~e.started /\ ~e.complete /\ e.buf = 0 /\ ~e.eof
      BY <1>4, <3>4, <3>5 DEF Data, ProxyBounds
    <3> QED
      BY <3>4, <3>6 DEF x, e
  <2>3. Request(srv', rd')
    BY <1>4, <2>2 DEF ProxyIInv, Request, ProxyBounds, Data
  <2>4. Emptied(srv', rd', bc', evq')
    BY <1>4, <2>1, <2>2, <2>3 DEF Emptied, Request
  <2> QED
    BY <2>1, <2>3, <2>4 DEF ProxyIInv
<1>6. CASE /\ pool = <<>>
           /\ rd' = [data EXCEPT !.b = None, !.timer = FALSE, !.started = FALSE,
                                   !.complete = FALSE, !.error = FALSE, !.buf = 0, !.eof = FALSE]
           /\ bc' = cs
           /\ pool' = pool
           /\ evq' = Heard(q, rd.b)
  <2> HIDE DEF cs, data
  <2>2. /\ rd' \in Data
        /\ ~rd'.started /\ ~rd'.complete /\ rd'.buf = 0 /\ ~rd'.eof /\ rd'.b = None /\ ~rd'.timer
    <3>2. data \in Data
      BY <1>4
    <3> DEFINE e == rd'
    <3>3. e = [data EXCEPT !.b = None, !.timer = FALSE, !.started = FALSE, !.complete = FALSE,
                           !.error = FALSE, !.buf = 0, !.eof = FALSE]
      BY <1>6
    <3> HIDE DEF e
    <3>4. None \in Backend \cup {None}
      OBVIOUS
    <3>5. e = [b |-> None, retry |-> data.retry, timer |-> FALSE, started |-> FALSE, complete |-> FALSE,
               error |-> FALSE, buf |-> 0, eof |-> FALSE]
      BY <3>2, <3>3 DEF Data
    <3>6. e \in Data /\ e.b = None /\ ~e.timer /\ ~e.started /\ ~e.complete /\ e.buf = 0 /\ ~e.eof
      BY <1>4, <3>4, <3>5 DEF Data, ProxyBounds
    <3> QED
      BY <3>6 DEF e
  <2>3. Request(srv', rd')
    BY <1>4, <2>2 DEF ProxyIInv, Request, ProxyBounds, Data
  <2> QED
    BY <1>2, <1>3, <1>6, <2>2, <2>3 DEF ProxyIInv, Emptied
<1> QED
  BY <1>5, <1>6 DEF Retry

\* A connection that goes on without a message keeps what is known of the buffer.
LEMMA TurnStep ==
  ASSUME ProxyIInv, NEW b \in Backend, NEW c \in Connection, NEW q, Turn(b, c, q),
         bc[b].st # "none", c.st # "none", c.sub = bc[b].sub,
         c.sub = "pool" => c.st = "idle" /\ c.done /\ c.kept,
         Queue([bc EXCEPT ![b] = c], q),
         \A x \in Backend \ {b} : RefusesBody(evq, x) <=> RefusesBody(q, x),
         b = rd.b =>
            /\ c.st \in {"waiting", "bad", "respBody", "idle"} =>
                 \/ /\ bc[b].st \in {"waiting", "bad", "respBody", "idle"}
                    /\ RefusesBody(evq, b) => RefusesBody(q, b)
                 \/ srv.st # "body" /\ rd.buf = 0
                 \/ RefusesBody(q, b)
            /\ bc[b].st = "idle" => c.st = "idle" /\ (RefusesBody(q, b) => RefusesBody(evq, b))
            /\ bc[b].st = "respBody" => c.st \in {"respBody", "idle"}
  PROVE  ProxyIInv'
<1>1. /\ bc' = [bc EXCEPT ![b] = c] /\ evq' = q
      /\ srv' = srv /\ rd' = rd /\ pool' = pool /\ asked' = asked
  BY DEF Turn
<1>2. Pooled(bc', pool', rd.b) /\ bc'[b] = c /\ \A x \in Backend \ {b} : bc'[x] = bc[x]
  BY <1>1, MovedPooled DEF ProxyIInv
<1>3. Request(srv', rd') /\ Queue(bc', evq') /\ asked' \in 0..Requests
  BY <1>1 DEF ProxyIInv
<1>4. Emptied(srv', rd', bc', evq')
  <2>1. SUFFICES ASSUME rd.b # None
                 PROVE  /\ bc'[rd.b].st \in {"waiting", "bad", "respBody", "idle"} =>
                             \/ rd.buf = 0 /\ srv.st # "body"
                             \/ srv.ans = "error"
                             \/ RefusesBody(q, rd.b)
                        /\ rd.complete => srv.ans = "error" \/ (bc'[rd.b].st = "idle" /\ ~RefusesBody(q, rd.b))
                        /\ srv.ans = "backend" => bc'[rd.b].st \in {"respBody", "idle"} /\ rd.buf = 0
    BY <1>1 DEF Emptied
  <2>2. rd.b \in Backend
    BY <2>1 DEF ProxyIInv, Request, Data
  <2>3. b # rd.b => (RefusesBody(evq, rd.b) <=> RefusesBody(q, rd.b))
    BY <2>2
  <2>4. CASE b = rd.b
    BY <1>2, <2>1, <2>3, <2>4 DEF ProxyIInv, Emptied
  <2>5. CASE b # rd.b
    BY <1>2, <2>1, <2>2, <2>3, <2>5 DEF ProxyIInv, Emptied
  <2> QED
    BY <2>4, <2>5
<1> QED
  BY <1>1, <1>2, <1>3, <1>4 DEF ProxyIInv

\* A request comes.
LEMMA AskStep ==
  ASSUME ProxyBounds, ProxyIInv, Ask PROVE ProxyIInv'
<1>1. srv.st = "idle" /\ rd = NoData /\ rd.b = None /\ asked' \in 0..Requests
  BY DEF ProxyIInv, Request, Ask, NoData, ProxyBounds
<1>2. Pooled(bc, pool, None) /\ Queue(bc, evq)
  BY <1>1 DEF ProxyIInv
<1>3. PICK body \in BOOLEAN :
        LET s == [st |-> IF body THEN "body" ELSE "handling",
                  left |-> IF body THEN Body ELSE 0, body |-> body, ans |-> "none"]
        IN \/ StartRequest(bc, pool, evq, NoData) /\ srv' = s
           \/ /\ pool = <<>>
              /\ srv' = [s EXCEPT !.st = "sending", !.ans = "error"]
              /\ rd' = NoData
              /\ UNCHANGED <<bc, pool, evq>>
  BY DEF Ask
<1> DEFINE s == [st |-> IF body THEN "body" ELSE "handling",
                 left |-> IF body THEN Body ELSE 0, body |-> body, ans |-> "none"]
<1>4. CASE StartRequest(bc, pool, evq, NoData) /\ srv' = s
  <2>1. NoData \in Data
    BY DEF NoData, Data, ProxyBounds
  <2>2. /\ rd'.b \in Backend
        /\ rd' = [NoData EXCEPT !.b = rd'.b, !.timer = TRUE, !.started = FALSE, !.complete = FALSE,
                                !.error = FALSE, !.buf = 0, !.eof = FALSE]
        /\ Pooled(bc', pool', rd'.b)
        /\ Queue(bc', evq')
        /\ bc'[rd'.b].st \in {"headers", "connecting"}
    BY <1>2, <1>4, <2>1, StartedPooled
  <2>3. rd' = [b |-> rd'.b, retry |-> 0, timer |-> TRUE, started |-> FALSE, complete |-> FALSE,
               error |-> FALSE, buf |-> 0, eof |-> FALSE]
    BY <2>2 DEF NoData
  <2>4. rd'.b # None
    BY <2>2 DEF ProxyBounds
  <2>8. 0 \in 0..Body /\ 0 \in 0..RetryCount /\ Body \in 0..Body
    BY DEF ProxyBounds
  <2>9. \A x \in Backend : [b |-> x, retry |-> 0, timer |-> TRUE, started |-> FALSE, complete |-> FALSE,
                             error |-> FALSE, buf |-> 0, eof |-> FALSE] \in Data
    BY <2>8 DEF Data
  <2>5. rd' \in Data /\ ~rd'.started /\ ~rd'.complete /\ rd'.buf = 0 /\ ~rd'.eof
    BY <2>2, <2>3, <2>9
  <2>6. Request(srv', rd')
    BY <1>4, <2>4, <2>5 DEF Request, ProxyBounds
  <2>7. Emptied(srv', rd', bc', evq')
    BY <1>4, <2>2, <2>5 DEF Emptied
  <2> QED
    BY <1>1, <2>2, <2>6, <2>7 DEF ProxyIInv
<1>5. CASE /\ pool = <<>>
           /\ srv' = [s EXCEPT !.st = "sending", !.ans = "error"]
           /\ rd' = NoData
           /\ UNCHANGED <<bc, pool, evq>>
  <2>2. 0 \in 0..Body /\ 0 \in 0..RetryCount /\ Body \in 0..Body
    BY DEF ProxyBounds
  <2>3. srv' = [st |-> "sending", left |-> IF body THEN Body ELSE 0, body |-> body, ans |-> "error"]
    BY <1>5
  <2>4. NoData \in Data
    BY <2>2 DEF NoData, Data
  <2>5. /\ rd'.b = None /\ ~rd'.started /\ ~rd'.timer /\ rd'.buf = 0 /\ ~rd'.eof /\ rd' \in Data
    BY <1>5, <2>4 DEF NoData
  <2>6. /\ srv'.st = "sending" /\ srv'.ans = "error" /\ srv'.left \in 0..Body
        /\ srv' \in [st : {"idle", "body", "handling", "sending"}, left : 0..Body, body : BOOLEAN,
                     ans : {"none", "backend", "error"}]
    BY <2>2, <2>3
  <2>1. Request(srv', rd') /\ Emptied(srv', rd', bc', evq') /\ rd'.b = None
    BY <2>5, <2>6 DEF Request, Emptied, ProxyBounds
  <2> QED
    BY <1>1, <1>2, <1>5, <2>1 DEF ProxyIInv
<1> QED
  BY <1>3, <1>4, <1>5

\* A unit of its body comes.
LEMMA ReadBodyStep ==
  ASSUME ProxyBounds, ProxyIInv, ReadBody PROVE ProxyIInv'
<1>1. /\ srv.st = "body" /\ rd.b # None /\ UNCHANGED <<bc, pool, evq, asked>>
      /\ srv' = [srv EXCEPT !.left = @ - 1, !.st = IF srv.left = 1 THEN "handling" ELSE @]
      /\ rd' = [rd EXCEPT !.buf = @ + 1, !.eof = srv.left = 1]
  BY DEF ReadBody
<1>2. Request(srv, rd)
  BY DEF ProxyIInv
<1>3. /\ srv'.left = srv.left - 1 /\ srv'.body = srv.body /\ srv'.ans = srv.ans
      /\ srv'.st = IF srv.left = 1 THEN "handling" ELSE "body"
      /\ srv.left \in 1..Body /\ srv.body
  BY <1>1, <1>2 DEF Request
<1>4. /\ rd'.b = rd.b /\ rd'.retry = rd.retry /\ rd'.timer = rd.timer /\ rd'.started = rd.started
      /\ rd'.complete = rd.complete /\ rd'.error = rd.error /\ rd'.buf = rd.buf + 1
      /\ rd'.eof = (srv.left = 1)
  BY <1>1, <1>2 DEF Request, Data
<1>5. srv' \in [st : {"idle", "body", "handling", "sending"}, left : 0..Body, body : BOOLEAN,
                ans : {"none", "backend", "error"}]
  <2>1. srv' = [st |-> srv'.st, left |-> srv.left - 1, body |-> srv.body, ans |-> srv.ans]
    BY <1>1, <1>2 DEF Request
  <2>2. srv.left - 1 \in 0..Body /\ srv'.st \in {"body", "handling"}
    BY <1>3 DEF ProxyBounds
  <2> QED
    BY <1>2, <2>1, <2>2 DEF Request
<1>6. rd' \in Data
  <2>1. rd' = [b |-> rd.b, retry |-> rd.retry, timer |-> rd.timer, started |-> rd.started,
               complete |-> rd.complete, error |-> rd.error, buf |-> rd.buf + 1, eof |-> srv.left = 1]
    BY <1>1, <1>2 DEF Request, Data
  <2>2. rd.buf + 1 \in 0..Body
    BY <1>2, <1>3 DEF Request, Data, ProxyBounds
  <2> QED
    BY <1>2, <2>1, <2>2 DEF Request, Data
<1>7. Request(srv', rd')
  BY <1>1, <1>2, <1>3, <1>4, <1>5, <1>6 DEF Request, Data, ProxyBounds
<1>8. srv.ans = "none"
  BY <1>1, <1>2 DEF Request
<1>9. Emptied(srv', rd', bc', evq')
  BY <1>1, <1>3, <1>4, <1>8 DEF Emptied, ProxyIInv
<1> QED
  BY <1>1, <1>4, <1>7, <1>9 DEF ProxyIInv

\* timer_backend_on_timeout.
LEMMA BackendTimeoutStep ==
  ASSUME ProxyBounds, ProxyIInv, BackendTimeout PROVE ProxyIInv'
<1>1. rd.timer /\ rd.b # None /\ rd.b \in Backend /\ Queue(bc, evq) /\ rd.error \in BOOLEAN
  BY DEF ProxyIInv, Request, BackendTimeout, Data
<1>2. asked' = asked
  BY DEF BackendTimeout
<1>3. CASE bc[rd.b].begun \/ rd.started
  <2>1. rd' = [rd EXCEPT !.timer = FALSE] /\ UNCHANGED <<srv, bc, pool, evq>>
    BY <1>3 DEF BackendTimeout
  <2>4. Request(srv, rd)
    BY DEF ProxyIInv
  <2>5. /\ rd' \in Data /\ rd'.b = rd.b /\ rd'.buf = rd.buf /\ rd'.complete = rd.complete
        /\ rd'.started = rd.started /\ rd'.eof = rd.eof /\ ~rd'.timer
    BY <2>1, <2>4 DEF Request, Data
  <2>6. srv.st # "idle"
    BY <1>1, <2>4 DEF Request, NoData
  <2>2. Request(srv', rd') /\ rd'.b = rd.b /\ rd'.buf = rd.buf /\ rd'.complete = rd.complete
    BY <1>1, <2>1, <2>4, <2>5, <2>6 DEF Request
  <2>3. Emptied(srv', rd', bc', evq')
    BY <2>1, <2>2 DEF ProxyIInv, Emptied
  <2> QED
    BY <1>2, <2>1, <2>2, <2>3 DEF ProxyIInv
<1>4. CASE ~(bc[rd.b].begun \/ rd.started) /\ rd.retry >= RetryCount
  BY <1>1, <1>2, <1>4, FailStep DEF BackendTimeout
<1>5. CASE ~(bc[rd.b].begun \/ rd.started) /\ ~(rd.retry >= RetryCount)
  <2>1. rd.retry < RetryCount
    BY <1>5 DEF ProxyIInv, Request, Data, ProxyBounds
  <2>2. Retry(evq)
    BY <1>5 DEF BackendTimeout
  <2> QED
    BY <1>1, <1>2, <1>5, <2>1, <2>2, RetryStep
<1> QED
  BY <1>3, <1>4, <1>5

\* The protocol of a connection: one lemma for each of its steps.
LEMMA ConnectedStep ==
  ASSUME ProxyBounds, ProxyIInv, NEW b \in Backend, Connected(b) PROVE ProxyIInv'
<1> DEFINE c == [bc[b] EXCEPT !.st = "headers"]
           cs == [bc EXCEPT ![b] = c]
<1>1. bc \in [Backend -> Connection] /\ bc[b].st = "connecting" /\ Turn(b, c, evq)
  BY DEF ProxyIInv, Pooled, Connected
<1>2. c \in Connection /\ c.st = "headers" /\ c.sub = bc[b].sub /\ c.done = bc[b].done
  BY <1>1 DEF Connection, States
<1>3. bc[b].sub # "pool"
  BY <1>1 DEF ProxyIInv, Pooled
<1> HIDE DEF c
<1>4. cs[b] = c /\ \A x \in Backend \ {b} : cs[x] = bc[x]
  BY <1>1
<1> HIDE DEF cs
<1>5. Queue(cs, evq)
  BY <1>1, <1>2, <1>4, MovedQueue DEF ProxyIInv
<1> QED
  BY <1>1, <1>2, <1>3, <1>5, TurnStep DEF cs

\* With no body to send the connection waits for the answer, and the buffer is empty.
LEMMA SendHeadersStep ==
  ASSUME ProxyBounds, ProxyIInv, NEW b \in Backend, SendHeaders(b) PROVE ProxyIInv'
<1> DEFINE c == IF srv.body THEN [bc[b] EXCEPT !.st = "wait100", !.timer = "100"]
                ELSE StartReceiving(bc[b])
           cs == [bc EXCEPT ![b] = c]
<1>1. bc \in [Backend -> Connection] /\ bc[b].st = "headers" /\ Turn(b, c, evq)
  BY DEF ProxyIInv, Pooled, SendHeaders
<1>2. /\ c \in Connection /\ c.st \in {"wait100", "waiting"} /\ c.sub = bc[b].sub /\ c.done = bc[b].done
      /\ c.st = "waiting" => ~srv.body
  BY <1>1 DEF Connection, States, StartReceiving
<1>3. bc[b].sub # "pool"
  BY <1>1 DEF ProxyIInv, Pooled
<1> HIDE DEF c
<1>4. cs[b] = c /\ \A x \in Backend \ {b} : cs[x] = bc[x]
  BY <1>1
<1> HIDE DEF cs
<1>5. Queue(cs, evq)
  BY <1>1, <1>2, <1>4, MovedQueue DEF ProxyIInv
<1>6. c.st = "waiting" => srv.st # "body" /\ rd.buf = 0
  BY <1>2 DEF ProxyIInv, Request
<1> QED
  BY <1>1, <1>2, <1>3, <1>5, <1>6, TurnStep DEF cs

\* A backend that answers in place of 100 Continue refuses the body first.
LEMMA ContinueStep ==
  ASSUME ProxyBounds, ProxyIInv, NEW b \in Backend, Continue(b) PROVE ProxyIInv'
<1>1. bc \in [Backend -> Connection] /\ bc[b].st = "wait100" /\ evq \in Seq(Backend \X Messages)
  BY DEF ProxyIInv, Pooled, Continue, Queue
<1>2. bc[b].sub = "req"
  <2>1. bc[b].sub \in {"none", "req", "pool"}
    BY <1>1 DEF Connection
  <2> QED
    BY <1>1, <2>1 DEF ProxyIInv, Pooled
<1>3. CASE Turn(b, [bc[b] EXCEPT !.st = "sendBody", !.timer = "write"], evq)
  <2> DEFINE c == [bc[b] EXCEPT !.st = "sendBody", !.timer = "write"]
             cs == [bc EXCEPT ![b] = c]
  <2>1. Turn(b, c, evq)
    BY <1>3
  <2>2. c \in Connection /\ c.st = "sendBody" /\ c.sub = bc[b].sub /\ c.done = bc[b].done
    BY <1>1 DEF Connection, States
  <2> HIDE DEF c
  <2>4. cs[b] = c /\ \A x \in Backend \ {b} : cs[x] = bc[x]
    BY <1>1
  <2> HIDE DEF cs
  <2>5. Queue(cs, evq)
    BY <1>1, <2>2, <2>4, MovedQueue DEF ProxyIInv
  <2> QED
    BY <1>1, <1>2, <2>1, <2>2, <2>5, TurnStep DEF cs
<1>4. CASE Turn(b, [bc[b] EXCEPT !.st = "respBody", !.timer = "read"],
                evq \o <<<<b, "no100">>, <<b, "response">>>>)
  <2> DEFINE c == [bc[b] EXCEPT !.st = "respBody", !.timer = "read"]
             cs == [bc EXCEPT ![b] = c]
             q == evq \o <<<<b, "no100">>, <<b, "response">>>>
             p == Append(evq, <<b, "no100">>)
  <2>1. Turn(b, c, q)
    BY <1>4
  <2>2. c \in Connection /\ c.st = "respBody" /\ c.sub = bc[b].sub /\ c.done = bc[b].done
    BY <1>1 DEF Connection, States
  <2> HIDE DEF c
  <2>4. cs[b] = c /\ \A x \in Backend \ {b} : cs[x] = bc[x]
    BY <1>1
  <2>5. Queue(cs, evq)
    <3> HIDE DEF cs
    <3> QED
      BY <1>1, <2>2, <2>4, MovedQueue DEF ProxyIInv
  <2>6. \A i \in 1..Len(evq) : evq[i][1] = b => evq[i][2] \notin {"response", "complete"}
    BY <1>1 DEF ProxyIInv, Queue, Heralded
  <2>7. {"no100", "response"} \subseteq Messages
    BY DEF Messages, Negative
  <2>8. Heralded(cs, <<b, "no100">>) /\ Heralded(cs, <<b, "response">>)
    BY <1>2, <2>2, <2>4 DEF Heralded
  <2>9. /\ Queue(cs, p)
        /\ \A x \in Backend : RefusesBody(p, x) <=> RefusesBody(evq, x) \/ x = b
    <3> HIDE DEF cs
    <3> QED
      BY <2>5, <2>6, <2>7, <2>8, AppendQueue
  <2>10. q = Append(p, <<b, "response">>)
    <3> DEFINE x == <<b, "no100">>
               y == <<b, "response">>
               T == Backend \X Messages
    <3>1. x \in T /\ y \in T /\ evq \in Seq(T)
      BY <1>1, <2>7
    <3>2. q = evq \o <<x, y>> /\ p = Append(evq, x)
      OBVIOUS
    <3> HIDE DEF x, y, T, p, q
    <3>3. evq \o <<x, y>> = Append(Append(evq, x), y)
      BY <3>1, AppendsTwo
    <3> QED
      BY <3>2, <3>3 DEF y
  <2> HIDE DEF p, q
  <2>11. /\ Queue(cs, q)
         /\ \A x \in Backend : RefusesBody(q, x) <=> RefusesBody(p, x)
    <3> HIDE DEF cs
    <3> QED
      BY <2>7, <2>8, <2>9, <2>10, AppendQueue
  <2>12. RefusesBody(q, b) /\ \A x \in Backend \ {b} : RefusesBody(q, x) <=> RefusesBody(evq, x)
    BY <2>9, <2>11
  <2> QED
    BY <1>1, <1>2, <2>1, <2>2, <2>11, <2>12, TurnStep
<1> QED
  BY <1>3, <1>4 DEF Continue

\* The last unit of the body leaves the buffer empty.
LEMMA SendBodyStep ==
  ASSUME ProxyBounds, ProxyIInv, NEW b \in Backend, SendBody(b) PROVE ProxyIInv'
<1> DEFINE c == IF LastUnit THEN StartReceiving([bc[b] EXCEPT !.begun = TRUE])
                ELSE [bc[b] EXCEPT !.begun = TRUE]
<1>1. /\ bc \in [Backend -> Connection] /\ bc[b].st = "sendBody" /\ rd.b = b /\ rd.b # None
      /\ bc' = [bc EXCEPT ![b] = c]
      /\ rd' = [rd EXCEPT !.buf = IF @ > 0 THEN @ - 1 ELSE 0]
      /\ UNCHANGED <<srv, pool, evq, asked>>
  BY DEF ProxyIInv, Pooled, SendBody, ProxyBounds
<1>2. /\ c \in Connection /\ c.sub = bc[b].sub /\ c.done = bc[b].done
      /\ c.st = IF LastUnit THEN "waiting" ELSE "sendBody"
  <2>1. bc[b] \in Connection
    BY <1>1
  <2>2. CASE LastUnit
    <3>1. c = [bc[b] EXCEPT !.begun = TRUE, !.st = "waiting", !.timer = "read"]
      BY <2>1, <2>2 DEF StartReceiving, Connection
    <3> QED
      BY <2>1, <2>2, <3>1 DEF Connection, States
  <2>3. CASE ~LastUnit
    <3>1. c = [bc[b] EXCEPT !.begun = TRUE]
      BY <2>3
    <3> QED
      BY <1>1, <2>1, <2>3, <3>1 DEF Connection, States
  <2> QED
    BY <2>2, <2>3
<1>3. bc[b].sub # "pool"
  BY <1>1 DEF ProxyIInv, Pooled
<1> HIDE DEF c
<1>4. Pooled(bc', pool', rd.b) /\ bc'[b] = c /\ \A x \in Backend \ {b} : bc'[x] = bc[x]
  BY <1>1, <1>2, <1>3, MovedPooled DEF ProxyIInv
<1>5. Queue(bc', evq')
  <2> DEFINE cs == bc'
  <2>1. cs[b] = c /\ \A x \in Backend \ {b} : cs[x] = bc[x]
    BY <1>4
  <2> HIDE DEF cs
  <2>2. Queue(cs, evq)
    BY <1>1, <1>2, <2>1, MovedQueue DEF ProxyIInv
  <2> QED
    BY <1>1, <2>2 DEF cs
<1>6. Request(srv, rd)
  BY DEF ProxyIInv
<1>7. /\ rd'.b = rd.b /\ rd'.retry = rd.retry /\ rd'.timer = rd.timer /\ rd'.started = rd.started
      /\ rd'.complete = rd.complete /\ rd'.error = rd.error /\ rd'.eof = rd.eof
      /\ rd'.buf = (IF rd.buf > 0 THEN rd.buf - 1 ELSE 0)
  BY <1>1, <1>6 DEF Request, Data
<1>8. rd'.buf \in 0..Body /\ rd'.buf <= rd.buf /\ (rd.buf \in {0, 1} => rd'.buf = 0)
  BY <1>6, <1>7 DEF Request, Data, ProxyBounds
<1>9. rd' \in Data
  <2>1. rd' = [b |-> rd.b, retry |-> rd.retry, timer |-> rd.timer, started |-> rd.started,
               complete |-> rd.complete, error |-> rd.error, buf |-> rd'.buf, eof |-> rd.eof]
    BY <1>1, <1>6 DEF Request, Data
  <2> QED
    BY <1>6, <1>8, <2>1 DEF Request, Data
<1>10. srv.st # "idle"
  BY <1>1, <1>6 DEF Request, NoData
<1>11. Request(srv', rd')
  <2>1. rd'.buf + srv.left <= Body
    BY <1>6, <1>8 DEF Request, Data, ProxyBounds
  <2>2. ~srv.body => rd'.buf = 0
    BY <1>6, <1>8 DEF Request
  <2> QED
    BY <1>1, <1>6, <1>7, <1>9, <1>10, <2>1, <2>2 DEF Request
<1>12. LastUnit => srv.st # "body" /\ rd'.buf = 0
  BY <1>6, <1>8 DEF Request, LastUnit
<1>13. Emptied(srv', rd', bc', evq')
  BY <1>1, <1>2, <1>4, <1>7, <1>12 DEF ProxyIInv, Emptied
<1> QED
  BY <1>1, <1>4, <1>5, <1>7, <1>11, <1>13 DEF ProxyIInv

\* A step of b that says m.
LEMMA SayStep ==
  ASSUME ProxyBounds, ProxyIInv, NEW b \in Backend, NEW c \in Connection, NEW m \in Messages, m # "no100",
         Turn(b, c, Append(evq, <<b, m>>)),
         bc[b].st # "none", c.st # "none", c.sub = bc[b].sub, bc[b].done => c.done,
         c.sub = "pool" => c.st = "idle" /\ c.done /\ c.kept,
         bc[b].st \in {"respBody", "idle"} => c.st \in {"respBody", "idle"},
         bc[b].st = "idle" => c.st = "idle",
         c.st \in {"waiting", "bad", "respBody", "idle"} => bc[b].st \in {"waiting", "bad", "respBody", "idle"},
         m = "response" => c.sub = "req" /\ c.st \in {"respBody", "idle"},
         m = "complete" => c.sub = "req" /\ c.st = "idle" /\ c.done
  PROVE  ProxyIInv'
<1> DEFINE cs == [bc EXCEPT ![b] = c]
           q == Append(evq, <<b, m>>)
<1>1. bc \in [Backend -> Connection]
  BY DEF ProxyIInv, Pooled
<1>2. cs[b] = c /\ \A x \in Backend \ {b} : cs[x] = bc[x]
  BY <1>1
<1>3. bc[b].sub # "none"
  BY DEF ProxyIInv, Pooled
<1>4. Heralded(cs, <<b, m>>)
  BY <1>2, <1>3 DEF Heralded
<1> HIDE DEF cs
<1>5. Queue(cs, evq)
  BY <1>2, MovedQueue DEF ProxyIInv
<1>6. /\ Queue(cs, q)
      /\ \A x \in Backend : RefusesBody(q, x) <=> RefusesBody(evq, x)
  BY <1>4, <1>5, AppendQueue
<1>7. Turn(b, c, q)
  OBVIOUS
<1> HIDE DEF q
<1> QED
  BY <1>6, <1>7, TurnStep DEF cs

\* The headers of an answer.
LEMMA RespondStep ==
  ASSUME ProxyBounds, ProxyIInv, NEW b \in Backend, Respond(b) PROVE ProxyIInv'
<1>1. bc \in [Backend -> Connection] /\ bc[b].st = "waiting"
  BY DEF ProxyIInv, Pooled, Respond
<1>2. bc[b].sub = "req"
  <2>1. bc[b].sub \in {"none", "req", "pool"}
    BY <1>1 DEF Connection
  <2> QED
    BY <1>1, <2>1 DEF ProxyIInv, Pooled
<1>3. "response" \in Messages /\ "bad" \in Messages
  BY DEF Messages, Negative
<1>4. \A m : Say(b, m) = Append(evq, <<b, m>>)
  BY <1>2 DEF Say
<1>5. CASE Turn(b, [bc[b] EXCEPT !.st = "respBody"], Say(b, "response"))
  <2> DEFINE c == [bc[b] EXCEPT !.st = "respBody"]
  <2>1. c \in Connection /\ c.st = "respBody" /\ c.sub = bc[b].sub /\ c.done = bc[b].done
    BY <1>1 DEF Connection, States
  <2>2. Turn(b, c, Append(evq, <<b, "response">>))
    BY <1>4, <1>5
  <2> HIDE DEF c
  <2> QED
    BY <1>1, <1>2, <1>3, <2>1, <2>2, SayStep
<1>6. CASE Turn(b, [bc[b] EXCEPT !.st = "respBody", !.whole = TRUE], Say(b, "response"))
  <2> DEFINE c == [bc[b] EXCEPT !.st = "respBody", !.whole = TRUE]
  <2>1. c \in Connection /\ c.st = "respBody" /\ c.sub = bc[b].sub /\ c.done = bc[b].done
    BY <1>1 DEF Connection, States
  <2>2. Turn(b, c, Append(evq, <<b, "response">>))
    BY <1>4, <1>6
  <2> HIDE DEF c
  <2> QED
    BY <1>1, <1>2, <1>3, <2>1, <2>2, SayStep
<1>7. CASE Turn(b, [bc[b] EXCEPT !.st = "bad", !.timer = "none"], Say(b, "bad"))
  <2> DEFINE c == [bc[b] EXCEPT !.st = "bad", !.timer = "none"]
  <2>1. c \in Connection /\ c.st = "bad" /\ c.sub = bc[b].sub /\ c.done = bc[b].done
    BY <1>1 DEF Connection, States
  <2>2. Turn(b, c, Append(evq, <<b, "bad">>))
    BY <1>4, <1>7
  <2> HIDE DEF c
  <2> QED
    BY <1>1, <1>2, <1>3, <2>1, <2>2, SayStep
<1> QED
  BY <1>5, <1>6, <1>7 DEF Respond

\* A timer of the connection.
LEMMA TimeoutStep ==
  ASSUME ProxyBounds, ProxyIInv, NEW b \in Backend, ProtoTimeout(b) PROVE ProxyIInv'
<1> DEFINE c == [bc[b] EXCEPT !.timer = "none"]
<1>1. bc \in [Backend -> Connection] /\ Turn(b, c, Say(b, "timeout"))
  BY DEF ProxyIInv, Pooled, ProtoTimeout
<1>2. /\ c \in Connection /\ c.st = bc[b].st /\ c.sub = bc[b].sub /\ c.done = bc[b].done
      /\ c.kept = bc[b].kept
  BY <1>1 DEF Connection
<1>3. "timeout" \in Messages
  BY DEF Messages, Negative
<1> HIDE DEF c
<1>4. CASE bc[b].sub # "none"
  <2>1. /\ bc[b].st # "none"
        /\ bc[b].sub = "pool" => bc[b].st = "idle" /\ bc[b].done /\ bc[b].kept
    BY <1>4 DEF ProxyIInv, Pooled
  <2>2. Turn(b, c, Append(evq, <<b, "timeout">>))
    BY <1>1, <1>4 DEF Say
  <2> QED
    BY <1>2, <1>3, <2>1, <2>2, SayStep
<1>5. CASE bc[b].sub = "none"
  BY <1>5 DEF ProtoTimeout, ProxyIInv, Pooled, Closed
<1> QED
  BY <1>4, <1>5

\* An error, which may wait for the end of the answer.
LEMMA ErrorStep ==
  ASSUME ProxyBounds, ProxyIInv, NEW b \in Backend, Error(b) PROVE ProxyIInv'
<1>1. bc \in [Backend -> Connection] /\ bc[b].st # "none"
  BY DEF ProxyIInv, Pooled, Error
<1>2. /\ bc[b].sub # "none"
      /\ bc[b].sub = "pool" => bc[b].st = "idle" /\ bc[b].done /\ bc[b].kept
  BY <1>1 DEF ProxyIInv, Pooled
<1>3. "error" \in Messages
  BY DEF Messages, Negative
<1>4. CASE Turn(b, [bc[b] EXCEPT !.queued = TRUE], evq)
  <2> DEFINE c == [bc[b] EXCEPT !.queued = TRUE]
             cs == [bc EXCEPT ![b] = c]
  <2>1. Turn(b, c, evq)
    BY <1>4
  <2>2. /\ c \in Connection /\ c.st = bc[b].st /\ c.sub = bc[b].sub /\ c.done = bc[b].done
        /\ c.kept = bc[b].kept
    BY <1>1 DEF Connection
  <2> HIDE DEF c
  <2>3. cs[b] = c /\ \A x \in Backend \ {b} : cs[x] = bc[x]
    BY <1>1
  <2> HIDE DEF cs
  <2>4. Queue(cs, evq)
    BY <2>2, <2>3, MovedQueue DEF ProxyIInv
  <2> QED
    BY <1>1, <1>2, <2>1, <2>2, <2>4, TurnStep DEF cs
<1>5. CASE Turn(b, bc[b], Say(b, "error"))
  <2> DEFINE c == bc[b]
  <2>1. c \in Connection
    BY <1>1
  <2>2. Turn(b, c, Append(evq, <<b, "error">>))
    BY <1>2, <1>5 DEF Say
  <2> QED
    BY <1>1, <1>2, <1>3, <2>1, <2>2, SayStep
<1> QED
  BY <1>4, <1>5 DEF Error

\* The end of the answer, and an error that waited for it.
LEMMA CompleteStep ==
  ASSUME ProxyBounds, ProxyIInv, NEW b \in Backend, Complete(b) PROVE ProxyIInv'
<1>1. bc \in [Backend -> Connection] /\ bc[b].st = "respBody"
  BY DEF ProxyIInv, Pooled, Complete
<1>2. bc[b].sub = "req"
  <2>1. bc[b].sub \in {"none", "req", "pool"}
    BY <1>1 DEF Connection
  <2> QED
    BY <1>1, <2>1 DEF ProxyIInv, Pooled
<1>3. "complete" \in Messages /\ "error" \in Messages
  BY DEF Messages, Negative
<1>4. PICK kept \in BOOLEAN :
        Turn(b, [bc[b] EXCEPT !.st = "idle", !.timer = "keep", !.done = TRUE, !.whole = TRUE,
                              !.kept = kept],
             IF bc[b].queued THEN Say(b, "complete") \o <<<<b, "error">>>> ELSE Say(b, "complete"))
  BY DEF Complete
<1> DEFINE c == [bc[b] EXCEPT !.st = "idle", !.timer = "keep", !.done = TRUE, !.whole = TRUE,
                              !.kept = kept]
           cs == [bc EXCEPT ![b] = c]
           x == <<b, "complete">>
           y == <<b, "error">>
           p == Append(evq, x)
           q == IF bc[b].queued THEN Append(p, y) ELSE p
<1>5. c \in Connection /\ c.st = "idle" /\ c.done /\ c.sub = bc[b].sub
  BY <1>1 DEF Connection, States
<1>6. evq \in Seq(Backend \X Messages) /\ x \in Backend \X Messages /\ y \in Backend \X Messages
  BY <1>3 DEF ProxyIInv, Queue
<1>7. Say(b, "complete") = p
  BY <1>2 DEF Say
<1>8. p \o <<y>> = Append(p, y)
  <2> HIDE DEF x, y
  <2>1. p \in Seq(Backend \X Messages)
    BY <1>6
  <2> HIDE DEF p
  <2> QED
    BY <1>6, <2>1, AppendsOne
<1>9. Turn(b, c, q)
  BY <1>4, <1>7, <1>8
<1> HIDE DEF c
<1>10. cs[b] = c /\ \A z \in Backend \ {b} : cs[z] = bc[z]
  BY <1>1
<1> HIDE DEF cs
<1>11. Queue(cs, evq)
  BY <1>1, <1>5, <1>10, MovedQueue DEF ProxyIInv
<1>12. Heralded(cs, x) /\ Heralded(cs, y)
  BY <1>2, <1>5, <1>10 DEF Heralded
<1>13. Queue(cs, p) /\ \A z \in Backend : RefusesBody(p, z) <=> RefusesBody(evq, z)
  BY <1>3, <1>11, <1>12, AppendQueue
<1> HIDE DEF p
<1>14. Queue(cs, Append(p, y)) /\ \A z \in Backend : RefusesBody(Append(p, y), z) <=> RefusesBody(p, z)
  BY <1>3, <1>12, <1>13, AppendQueue
<1>15. Queue(cs, q) /\ \A z \in Backend : RefusesBody(q, z) <=> RefusesBody(evq, z)
  BY <1>13, <1>14
<1> HIDE DEF q
<1> QED
  BY <1>1, <1>2, <1>5, <1>9, <1>15, TurnStep DEF cs

\* A message is delivered: to the request, or to the pool.
LEMMA DeliverStep ==
  ASSUME ProxyBounds, ProxyIInv, Deliver PROVE ProxyIInv'
<1> DEFINE b == Head(evq)[1]
           m == Head(evq)[2]
           q == Tail(evq)
<1>1. /\ evq # <<>> /\ asked' = asked
      /\ IF bc[b].sub = "pool" THEN OnIdle(b)
         ELSE \/ m = "response" /\ OnResponse
              \/ m = "complete" /\ OnComplete
              \/ m \in Negative /\ OnNegative
  BY DEF Deliver
<1>2. /\ Queue(bc, evq) /\ Pooled(bc, pool, rd.b) /\ Request(srv, rd) /\ asked' \in 0..Requests
      /\ Emptied(srv, rd, bc, evq)
  BY <1>1 DEF ProxyIInv
<1>3. /\ Queue(bc, q)
      /\ Head(evq) \in Backend \X Messages
      /\ Heralded(bc, Head(evq))
      /\ m \in {"response", "complete"} => ~RefusesBody(evq, b)
      /\ \A x \in Backend : /\ RefusesBody(q, x) => RefusesBody(evq, x)
                            /\ RefusesBody(evq, x) => RefusesBody(q, x) \/ Head(evq) = <<x, "no100">>
  BY <1>1, <1>2, TailQueue
<1>4. /\ b \in Backend /\ m \in Messages /\ b # None
      /\ bc[b].sub # "none"
      /\ m = "response" => bc[b].sub = "req" /\ bc[b].st \in {"respBody", "idle"}
      /\ m = "complete" => bc[b].sub = "req" /\ bc[b].st = "idle" /\ bc[b].done
      /\ \A x \in Backend : RefusesBody(evq, x) => RefusesBody(q, x) \/ (x = b /\ m = "no100")
  BY <1>3 DEF Heralded, ProxyBounds
<1> HIDE DEF b, m, q
<1>5. CASE bc[b].sub = "pool"
  <2>1. /\ bc' = [bc EXCEPT ![b] = Closed]
        /\ pool' = Selected(pool, Backend \ {b})
        /\ evq' = Heard(evq, b)
        /\ UNCHANGED <<srv, rd>>
    BY <1>1, <1>5 DEF OnIdle
  <2>2. Pooled(bc', pool', rd.b) /\ rd.b # b /\ \A x \in Backend \ {b} : bc'[x] = bc[x]
    BY <1>2, <1>4, <1>5, <2>1, DroppedPooled
  <2>3. Queue(bc', evq') /\ \A x \in Backend \ {b} : RefusesBody(evq', x) <=> RefusesBody(evq, x)
    <3> DEFINE ds == bc'
               h == Heard(evq, b)
    <3>1. \A x \in Backend \ {b} : ds[x] = bc[x]
      BY <2>2
    <3> HIDE DEF ds
    <3>2. Queue(ds, h)
      BY <1>2, <1>4, <3>1, HeardQueue
    <3>3. \A x \in Backend \ {b} : RefusesBody(h, x) <=> RefusesBody(evq, x)
      BY <1>2, <1>4, <3>1, HeardQueue
    <3>4. evq' = h
      BY <2>1
    <3> HIDE DEF h
    <3> QED
      BY <3>2, <3>3, <3>4 DEF ds
  <2>4. Emptied(srv', rd', bc', evq')
    <3>1. rd.b \in Backend \cup {None}
      BY <1>2 DEF Request, Data
    <3> QED
      BY <1>2, <2>1, <2>2, <2>3, <3>1 DEF Emptied
  <2> QED
    BY <1>2, <2>1, <2>2, <2>3, <2>4 DEF ProxyIInv
<1>6. ASSUME bc[b].sub # "pool" PROVE bc[b].sub = "req" /\ rd.b = b
  <2>1. bc[b].sub \in {"none", "req", "pool"}
    BY <1>2, <1>4 DEF Pooled, Connection
  <2> QED
    BY <1>2, <1>4, <1>6, <2>1 DEF Pooled
<1>7. CASE bc[b].sub # "pool" /\ m = "response" /\ OnResponse
  <2>1. /\ rd' = [rd EXCEPT !.timer = FALSE, !.started = TRUE]
        /\ srv' = IF srv.st = "sending" THEN srv ELSE [srv EXCEPT !.st = "sending", !.ans = "backend"]
        /\ evq' = q /\ bc' = bc /\ pool' = pool
    BY <1>7 DEF OnResponse, q
  <2>2. rd.b = b /\ bc[b].st \in {"respBody", "idle"} /\ ~RefusesBody(evq, b)
    BY <1>3, <1>4, <1>6, <1>7
  <2>3. /\ rd' \in Data /\ rd'.b = rd.b /\ rd'.buf = rd.buf /\ rd'.complete = rd.complete
        /\ rd'.started /\ rd'.eof = rd.eof /\ ~rd'.timer
    BY <1>2, <2>1 DEF Request, Data
  <2>4. srv.st # "idle"
    BY <1>2, <1>4, <2>2 DEF Request, NoData
  <2>5. srv.ans = "error" \/ (rd.buf = 0 /\ srv.st # "body")
    BY <1>2, <1>4, <2>2 DEF Emptied
  <2>6. Request(srv', rd')
    BY <1>2, <1>4, <2>1, <2>2, <2>3, <2>4 DEF Request
  <2>7. Emptied(srv', rd', bc', evq')
    <3>1. CASE srv.st = "sending"
      BY <1>2, <1>3, <1>4, <2>1, <2>2, <2>3, <2>5, <3>1 DEF Emptied
    <3>2. CASE srv.st # "sending"
      <4>1. srv.ans = "none" /\ srv'.st = "sending" /\ srv'.ans = "backend" /\ rd.buf = 0
        BY <1>2, <2>1, <2>5, <3>2 DEF Request
      <4> QED
        BY <1>2, <1>3, <1>4, <2>1, <2>2, <2>3, <4>1 DEF Emptied
    <3> QED
      BY <3>1, <3>2
  <2> QED
    BY <1>2, <1>3, <2>1, <2>3, <2>6, <2>7 DEF ProxyIInv
<1>8. CASE bc[b].sub # "pool" /\ m = "complete" /\ OnComplete
  <2>1. /\ rd' = [rd EXCEPT !.complete = TRUE]
        /\ evq' = q /\ bc' = bc /\ pool' = pool /\ srv' = srv
    BY <1>8 DEF OnComplete, q
  <2>2. rd.b = b /\ bc[b].st = "idle" /\ ~RefusesBody(evq, b)
    BY <1>3, <1>4, <1>6, <1>8
  <2>3. /\ rd' \in Data /\ rd'.b = rd.b /\ rd'.buf = rd.buf /\ rd'.timer = rd.timer
        /\ rd'.started = rd.started /\ rd'.eof = rd.eof
    BY <1>2, <2>1 DEF Request, Data
  <2>4. srv.st # "idle"
    BY <1>2, <1>4, <2>2 DEF Request, NoData
  <2>6. Request(srv', rd')
    BY <1>2, <1>4, <2>1, <2>2, <2>3, <2>4 DEF Request
  <2>7. Emptied(srv', rd', bc', evq')
    BY <1>2, <1>3, <1>4, <2>1, <2>2, <2>3 DEF Emptied
  <2> QED
    BY <1>2, <1>3, <2>1, <2>3, <2>6, <2>7 DEF ProxyIInv
<1>9. CASE bc[b].sub # "pool" /\ m \in Negative /\ OnNegative
  <2>1. rd.b = b
    BY <1>6, <1>9
  <2>2. CASE rd.complete
    <3>1. /\ rd' = [rd EXCEPT !.error = TRUE]
          /\ evq' = q /\ bc' = bc /\ pool' = pool /\ srv' = srv
      BY <1>9, <2>2 DEF OnNegative, q
    <3>2. /\ rd' \in Data /\ rd'.b = rd.b /\ rd'.buf = rd.buf /\ rd'.timer = rd.timer
          /\ rd'.started = rd.started /\ rd'.eof = rd.eof /\ rd'.complete = rd.complete
      BY <1>2, <3>1 DEF Request, Data
    <3>3. srv.st # "idle"
      BY <1>2, <1>4, <2>1 DEF Request, NoData
    <3>4. Request(srv', rd')
      BY <1>2, <1>4, <2>1, <3>1, <3>2, <3>3 DEF Request
    <3>5. srv.ans = "error" \/ ~RefusesBody(evq, b)
      BY <1>2, <1>4, <2>1, <2>2 DEF Emptied
    <3>6. Emptied(srv', rd', bc', evq')
      BY <1>2, <1>3, <1>4, <2>1, <3>1, <3>2, <3>5 DEF Emptied
    <3> QED
      BY <1>2, <1>3, <3>1, <3>2, <3>4, <3>6 DEF ProxyIInv
  <2>3. CASE ~rd.complete /\ (rd.started \/ ~MayRetry)
    <3>1. Fail(q, TRUE)
      BY <1>9, <2>3 DEF OnNegative, q
    <3> QED
      BY <1>1, <1>3, <1>4, <2>1, <3>1, FailStep
  <2>4. CASE ~rd.complete /\ ~(rd.started \/ ~MayRetry)
    <3>1. Retry(q) /\ rd.retry < RetryCount /\ ~rd.started
      BY <1>9, <2>4 DEF OnNegative, q, MayRetry
    <3> QED
      BY <1>1, <1>3, <1>4, <2>1, <3>1, RetryStep
  <2> QED
    BY <2>2, <2>3, <2>4
<1> QED
  BY <1>1, <1>5, <1>7, <1>8, <1>9

\* Every step keeps the invariant.
LEMMA StepProxy ==
  ASSUME ProxyBounds, ProxyIInv, [ProxyNext]_proxyVars PROVE ProxyIInv'
<1>1. CASE Ask
  BY <1>1, AskStep
<1>2. CASE ReadBody
  BY <1>2, ReadBodyStep
<1>3. CASE ClientEnds
  BY <1>3, FinalizeStep DEF ClientEnds
<1>4. CASE AnswerSent
  BY <1>4, FinalizeStep DEF AnswerSent
<1>5. CASE BackendTimeout
  BY <1>5, BackendTimeoutStep
<1>6. CASE Protocol
  <2>1. PICK b \in Backend : \/ Connected(b) \/ SendHeaders(b) \/ Continue(b) \/ SendBody(b)
                             \/ Respond(b) \/ Complete(b) \/ Error(b) \/ ProtoTimeout(b)
    BY <1>6 DEF Protocol
  <2> QED
    BY <2>1, ConnectedStep, SendHeadersStep, ContinueStep, SendBodyStep, RespondStep, CompleteStep,
       ErrorStep, TimeoutStep
<1>7. CASE Deliver
  BY <1>7, DeliverStep
<1>8. CASE UNCHANGED proxyVars
  BY <1>8 DEF proxyVars, ProxyIInv, Pooled, Queue, Heralded, Request, Emptied, RefusesBody
<1> QED
  BY <1>1, <1>2, <1>3, <1>4, <1>5, <1>6, <1>7, <1>8 DEF ProxyNext, Client

\* The invariant contains what is promised of every state.
LEMMA ProxyHolds ==
  ASSUME ProxyBounds, ProxyIInv PROVE ProxyTypeOK /\ PoolSound /\ AnswerHasSource
<1>1. Pooled(bc, pool, rd.b) /\ Queue(bc, evq) /\ Request(srv, rd) /\ Emptied(srv, rd, bc, evq)
  BY DEF ProxyIInv
<1>2. bc \in [Backend -> Connection] /\ rd.b \in Backend \cup {None} /\ pool \in Seq(Backend)
  BY <1>1 DEF Pooled, Request, Data
<1>3. ProxyTypeOK
  BY <1>1, <1>2 DEF ProxyIInv, ProxyTypeOK, Request, Data, Connection, Queue
<1>4. ToSet(pool) = {pool[i] : i \in 1..Len(pool)} /\ ToSet(pool) \subseteq Backend
  BY <1>2 DEF ToSet
<1>5. {b \in Backend : bc[b].sub = "pool"} = ToSet(pool)
  BY <1>1, <1>4 DEF Pooled
<1>6. Cardinality(ToSet(pool)) = Len(pool)
  BY <1>1, <1>2, OnceCounted DEF Pooled
<1>7. InUse = {rd.b} \ {None}
  BY <1>1, <1>2 DEF InUse, Pooled, ProxyBounds
<1>8. \A b \in ToSet(pool) : bc[b].st = "idle" /\ bc[b].done /\ bc[b].kept
  BY <1>1, <1>5 DEF Pooled
<1>9. \A e \in ToSet(evq) : Heralded(bc, e)
  <2>1. DOMAIN evq = 1..Len(evq)
    BY <1>1 DEF Queue
  <2> QED
    BY <1>1, <2>1 DEF Queue, ToSet
<1>10. PoolSound
  BY <1>5, <1>6, <1>7, <1>8, <1>9 DEF PoolSound, Heralded
<1>11. AnswerHasSource
  BY <1>1 DEF AnswerHasSource, Emptied, Request
<1> QED
  BY <1>3, <1>10, <1>11

\* A request is started again only before its body is on its way.
LEMMA RetriesUnbegun ==
  ASSUME ProxyBounds, ProxyIInv, [ProxyNext]_proxyVars, rd'.retry > rd.retry
  PROVE  ~bc[rd.b].begun
<1>1. rd \in Data /\ rd.retry \in Nat /\ NoData.retry = 0 /\ (rd.timer => rd.b # None)
  BY DEF ProxyIInv, Request, Data, NoData, ProxyBounds
<1>2. rd' # NoData
  BY <1>1
<1>3. CASE Ask
  <2>1. rd = NoData
    BY <1>3 DEF Ask, ProxyIInv, Request
  <2>2. ASSUME StartRequest(bc, pool, evq, NoData) PROVE FALSE
    <3>1. PICK x : rd' = [NoData EXCEPT !.b = x, !.timer = TRUE, !.started = FALSE, !.complete = FALSE,
                                       !.error = FALSE, !.buf = 0, !.eof = FALSE]
      BY <2>2 DEF StartRequest
    <3>2. rd'.retry = 0
      BY <3>1 DEF NoData
    <3> QED
      BY <1>1, <2>1, <3>2
  <2> QED
    BY <1>2, <1>3, <2>2 DEF Ask
<1>4. CASE ReadBody
  BY <1>1, <1>4 DEF ReadBody, Data
<1>5. CASE ClientEnds \/ AnswerSent
  BY <1>2, <1>5 DEF ClientEnds, AnswerSent, Finalize
<1>6. ASSUME NEW q, NEW f, Fail(q, f) PROVE FALSE
  <2>1. rd' = [rd EXCEPT !.started = TRUE, !.complete = TRUE, !.error = f, !.timer = FALSE]
    BY <1>2, <1>6 DEF Fail
  <2>2. rd'.retry = rd.retry
    BY <1>1, <2>1 DEF Data
  <2> QED
    BY <1>1, <2>2
<1>7. CASE BackendTimeout
  <2>1. CASE bc[rd.b].begun \/ rd.started
    <3>1. rd' = [rd EXCEPT !.timer = FALSE]
      BY <1>7, <2>1 DEF BackendTimeout
    <3>2. rd'.retry = rd.retry
      BY <1>1, <3>1 DEF Data
    <3> QED
      BY <1>1, <3>2
  <2> QED
    BY <2>1
<1>8. CASE Protocol
  <2>1. PICK b \in Backend : \/ Connected(b) \/ SendHeaders(b) \/ Continue(b) \/ SendBody(b)
                             \/ Respond(b) \/ Complete(b) \/ Error(b) \/ ProtoTimeout(b)
    BY <1>8 DEF Protocol
  <2>2. CASE SendBody(b)
    <3>1. rd' = [rd EXCEPT !.buf = IF @ > 0 THEN @ - 1 ELSE 0]
      BY <2>2 DEF SendBody
    <3>2. rd'.retry = rd.retry
      BY <1>1, <3>1 DEF Data
    <3> QED
      BY <1>1, <3>2
  <2>3. \A c, q : Turn(b, c, q) => rd' = rd
    BY DEF Turn
  <2>4. CASE ~SendBody(b)
    <3>1. rd' = rd
      BY <2>1, <2>3, <2>4 DEF Connected, SendHeaders, Continue, Respond, Complete, Error, ProtoTimeout
    <3> QED
      BY <1>1, <3>1
  <2> QED
    BY <2>2, <2>4
<1>9. CASE Deliver
  <2>1. CASE OnIdle(Head(evq)[1])
    BY <1>1, <2>1 DEF OnIdle
  <2>2. CASE OnResponse \/ OnComplete
    <3>1. \/ rd' = [rd EXCEPT !.timer = FALSE, !.started = TRUE]
          \/ rd' = [rd EXCEPT !.complete = TRUE]
      BY <2>2 DEF OnResponse, OnComplete
    <3>2. rd'.retry = rd.retry
      BY <1>1, <3>1 DEF Data
    <3> QED
      BY <1>1, <3>2
  <2>3. CASE OnNegative
    <3>1. rd' # [rd EXCEPT !.error = TRUE]
      BY <1>1 DEF Data
    <3> QED
      BY <1>6, <2>3, <3>1 DEF OnNegative, MayRetry
  <2> QED
    BY <1>9, <2>1, <2>2, <2>3 DEF Deliver
<1>10. CASE UNCHANGED proxyVars
  BY <1>1, <1>10 DEF proxyVars
<1> QED
  BY <1>3, <1>4, <1>5, <1>7, <1>8, <1>9, <1>10 DEF ProxyNext, Client

\* The proxy, for any number of backends, retries and requests.
THEOREM ProxyIsSound ==
  ASSUME ProxyBounds PROVE ProxySpec => ProxySound
<1>1. ProxyInit => ProxyIInv
  BY InitProxy
<1>2. ProxyIInv /\ [ProxyNext]_proxyVars => ProxyIInv'
  BY StepProxy
<1>3. ProxyIInv => ProxyTypeOK /\ PoolSound /\ AnswerHasSource
  BY ProxyHolds
<1>4. ProxyIInv /\ [ProxyNext]_proxyVars => [rd'.retry > rd.retry => ~bc[rd.b].begun]_proxyVars
  BY RetriesUnbegun
<1> QED
  BY <1>1, <1>2, <1>3, <1>4, PTL DEF ProxySpec, ProxySound, BodyOnce

-----------------------------------------------------------------------------
(* The memory cache.  Who finds, counts, fills and sends a record is       *)
(* inductive together; the bound on the list follows from counting what    *)
(* is freed when it is trimmed; that no stale file is served needs when    *)
(* the version after the one in the record was written.                    *)

\* What a record and a request can be.
Records == [live : BOOLEAN, key : Key \cup {Nil}, ver : 0..MaxVersions,
            content : 0..MaxVersions, expires : 0..MaxMoment + Cached, refs : Nat]
Queries == [pc : {"idle", "select", "try", "read", "insert", "sending"},
            key : Key \cup {Nil}, t : 0..MaxMoment, since : 0..MaxVersions,
            mtime : 0..MaxVersions, len : 0..MaxVersions, rec : Rec \cup {Nil},
            mem : BOOLEAN]

Once(l) == \A i, j \in 1..Len(l) : l[i] = l[j] => i = j
UsersOf(qs, x) == {r \in Query : qs[r].rec = x /\ qs[r].pc = "sending"}
FillingOf(qs, x) == \E r \in Query : qs[r].rec = x /\ qs[r].pc = "insert"

\* The table tb, the records m and the requests qs, when the records of the set L
\* are in the list: who finds, counts, fills and sends what.
CacheTyped(tb, L, m, qs) ==
  /\ m \in [Rec -> Records]
  /\ tb \in [Key -> Rec \cup {Nil}]
  /\ L \in SUBSET Rec
  /\ qs \in [Query -> Queries]
InTable(tb, L, m) ==
  /\ \A x \in Rec : x \in L <=> \E k \in Key : tb[k] = x
  /\ \A k \in Key : tb[k] # Nil => m[tb[k]].key = k
UsesCounted(m, qs) == \A x \in Rec : m[x].refs = Cardinality(UsersOf(qs, x))
LivesWhile(L, m, qs) ==
  \A x \in Rec : m[x].live <=> x \in L \/ UsersOf(qs, x) # {} \/ FillingOf(qs, x)
HoldsRecord(L, m, qs) ==
  \A r \in Query :
    /\ qs[r].pc # "idle" => qs[r].key \in Key
    /\ qs[r].rec # Nil => qs[r].pc \in {"insert", "sending"} /\ m[qs[r].rec].key = qs[r].key
    /\ qs[r].pc = "insert" => /\ qs[r].rec # Nil
                              /\ qs[r].rec \notin L
                              /\ \A q \in Query : qs[q].rec = qs[r].rec => q = r
CacheCore(tb, L, m, qs) == /\ CacheTyped(tb, L, m, qs)
                           /\ InTable(tb, L, m)
                           /\ UsesCounted(m, qs)
                           /\ LivesWhile(L, m, qs)
                           /\ HoldsRecord(L, m, qs)

\* The users of a record are finitely many requests.
LEMMA UsersFinite ==
  ASSUME CacheBounds, NEW qs, NEW x
  PROVE  /\ IsFiniteSet(UsersOf(qs, x))
         /\ Cardinality(UsersOf(qs, x)) \in 0..Cardinality(Query)
         /\ Cardinality(UsersOf(qs, x)) = 0 <=> UsersOf(qs, x) = {}
<1>1. UsersOf(qs, x) \in SUBSET Query
  BY DEF UsersOf
<1>2. IsFiniteSet(Query)
  BY DEF CacheBounds
<1> QED
  BY <1>1, <1>2, FS_Subset, FS_CardinalityType, FS_EmptySet

\* A request becomes a user of x, or is one no longer.
LEMMA UsersGain ==
  ASSUME CacheBounds, NEW qs, NEW qs2, NEW r \in Query, NEW x,
         \A s \in Query : s # r => qs2[s] = qs[s],
         qs2[r].rec = x, qs2[r].pc = "sending", qs[r].rec # x \/ qs[r].pc # "sending"
  PROVE  /\ UsersOf(qs2, x) # {}
         /\ Cardinality(UsersOf(qs2, x)) = Cardinality(UsersOf(qs, x)) + 1
<1> DEFINE U == UsersOf(qs, x)
           V == UsersOf(qs2, x)
<1>1. V = U \cup {r} /\ r \notin U
  BY DEF UsersOf
<1>2. IsFiniteSet(U)
  BY UsersFinite
<1> HIDE DEF U, V
<1>3. Cardinality(V) = Cardinality(U) + 1 /\ V # {}
  BY <1>1, <1>2, FS_AddElement
<1> QED
  BY <1>3 DEF U, V

\* A request is a user of x no longer.
LEMMA UsersLose ==
  ASSUME CacheBounds, NEW qs, NEW qs2, NEW r \in Query, NEW x,
         \A s \in Query : s # r => qs2[s] = qs[s],
         qs[r].rec = x, qs[r].pc = "sending", qs2[r].rec # x \/ qs2[r].pc # "sending"
  PROVE  /\ UsersOf(qs, x) # {}
         /\ Cardinality(UsersOf(qs2, x)) = Cardinality(UsersOf(qs, x)) - 1
<1> DEFINE U == UsersOf(qs, x)
           V == UsersOf(qs2, x)
<1>1. V = U \ {r} /\ r \in U
  BY DEF UsersOf
<1>2. IsFiniteSet(U)
  BY UsersFinite
<1> HIDE DEF U, V
<1>3. Cardinality(V) = Cardinality(U) - 1 /\ U # {}
  BY <1>1, <1>2, FS_RemoveElement
<1> QED
  BY <1>3 DEF U, V

\* A request without a record goes on without one.
LEMMA CoreMoves ==
  ASSUME CacheBounds, NEW tb, NEW L, NEW m, NEW qs, CacheCore(tb, L, m, qs),
         NEW r \in Query, qs[r].rec = Nil,
         NEW q \in Queries, q.rec = Nil, q.pc # "insert", q.pc # "idle" => q.key \in Key
  PROVE  CacheCore(tb, L, m, [qs EXCEPT ![r] = q])
<1> DEFINE qs2 == [qs EXCEPT ![r] = q]
<1>1. CacheTyped(tb, L, m, qs) /\ CacheTyped(tb, L, m, qs2)
  BY DEF CacheCore, CacheTyped
<1>2. Nil \notin Rec
  BY DEF CacheBounds
<1>3. \A x \in Rec : UsersOf(qs2, x) = UsersOf(qs, x)
  BY <1>1, <1>2 DEF CacheTyped, UsersOf
<1>4. \A x \in Rec : FillingOf(qs2, x) <=> FillingOf(qs, x)
  BY <1>1, <1>2 DEF CacheTyped, FillingOf
<1>5. UsesCounted(m, qs2) /\ LivesWhile(L, m, qs2)
  BY <1>3, <1>4 DEF CacheCore, UsesCounted, LivesWhile
<1>6. HoldsRecord(L, m, qs2)
  BY <1>1, <1>2 DEF CacheCore, HoldsRecord, CacheTyped
<1> QED
  BY <1>1, <1>5, <1>6 DEF CacheCore

\* A request without a record takes one of the list.
LEMMA CoreUses ==
  ASSUME CacheBounds, NEW tb, NEW L, NEW m, NEW qs, CacheCore(tb, L, m, qs),
         NEW r \in Query, qs[r].rec = Nil, NEW x \in L,
         NEW q \in Queries, q.rec = x, q.pc = "sending", q.key \in Key, q.key = m[x].key,
         NEW d \in Records, d.live = m[x].live, d.key = m[x].key, d.refs = m[x].refs + 1
  PROVE  CacheCore(tb, L, [m EXCEPT ![x] = d], [qs EXCEPT ![r] = q])
<1> DEFINE qs2 == [qs EXCEPT ![r] = q]
           m2 == [m EXCEPT ![x] = d]
<1>1. CacheTyped(tb, L, m, qs) /\ CacheTyped(tb, L, m2, qs2) /\ x \in Rec
  BY DEF CacheCore, CacheTyped
<1>2. Nil \notin Rec
  BY DEF CacheBounds
<1>3. \A y \in Rec : y # x => UsersOf(qs2, y) = UsersOf(qs, y)
  BY <1>1, <1>2 DEF CacheTyped, UsersOf
<1>4. UsersOf(qs2, x) # {} /\ Cardinality(UsersOf(qs2, x)) = Cardinality(UsersOf(qs, x)) + 1
  <2>1. qs[r].rec # x /\ qs2[r] = q /\ \A s \in Query : s # r => qs2[s] = qs[s]
    BY <1>1, <1>2 DEF CacheTyped
  <2> HIDE DEF qs2
  <2> QED
    BY <2>1, UsersGain
<1>5. \A y \in Rec : FillingOf(qs2, y) <=> FillingOf(qs, y)
  BY <1>1, <1>2 DEF CacheTyped, FillingOf
<1>6. \A y \in Rec : y # x => m2[y] = m[y]
  BY <1>1 DEF CacheTyped
<1>7. m2[x] = d
  BY <1>1 DEF CacheTyped
<1>8. \A y \in Rec : m2[y].key = m[y].key /\ m2[y].live = m[y].live
  BY <1>6, <1>7
<1>9. HoldsRecord(L, m2, qs2)
  BY <1>1, <1>2, <1>8 DEF CacheCore, HoldsRecord, CacheTyped, LivesWhile
<1> HIDE DEF qs2, m2
<1>10. UsesCounted(m2, qs2)
  BY <1>1, <1>3, <1>4, <1>6, <1>7 DEF CacheCore, UsesCounted
<1>11. LivesWhile(L, m2, qs2)
  BY <1>1, <1>3, <1>4, <1>5, <1>8 DEF CacheCore, LivesWhile
<1>12. InTable(tb, L, m2)
  BY <1>1, <1>8 DEF CacheCore, InTable, CacheTyped
<1> QED
  BY <1>1, <1>9, <1>10, <1>11, <1>12 DEF CacheCore, m2, qs2

\* The time until which a record is good changes.
LEMMA CoreTouches ==
  ASSUME NEW tb, NEW L, NEW m, NEW qs, CacheCore(tb, L, m, qs), NEW x \in Rec,
         NEW d \in Records, d.live = m[x].live, d.key = m[x].key, d.refs = m[x].refs
  PROVE  CacheCore(tb, L, [m EXCEPT ![x] = d], qs)
<1> DEFINE m2 == [m EXCEPT ![x] = d]
<1>1. CacheTyped(tb, L, m, qs) /\ CacheTyped(tb, L, m2, qs)
  BY DEF CacheCore, CacheTyped
<1>2. \A y \in Rec : m2[y].key = m[y].key /\ m2[y].live = m[y].live /\ m2[y].refs = m[y].refs
  BY <1>1 DEF CacheTyped
<1> HIDE DEF m2
<1>3. UsesCounted(m2, qs) /\ LivesWhile(L, m2, qs)
  BY <1>2 DEF CacheCore, UsesCounted, LivesWhile
<1>4. InTable(tb, L, m2)
  BY <1>1, <1>2 DEF CacheCore, InTable, CacheTyped
<1>5. HoldsRecord(L, m2, qs)
  <2>1. \A r \in Query : qs[r].rec \in Rec \cup {Nil}
    BY <1>1 DEF CacheTyped, Queries
  <2>2. \A r \in Query : qs[r].rec # Nil => m2[qs[r].rec].key = m[qs[r].rec].key
    BY <1>2, <2>1
  <2> QED
    BY <2>2 DEF CacheCore, HoldsRecord
<1> QED
  BY <1>1, <1>3, <1>4, <1>5 DEF CacheCore, m2

\* Records leave the list: those that nobody uses are free.
LEMMA CoreDrops ==
  ASSUME CacheBounds, NEW tb, NEW L, NEW m, NEW qs, CacheCore(tb, L, m, qs),
         NEW gone \in SUBSET L,
         NEW tb2 \in [Key -> Rec \cup {Nil}], NEW m2 \in [Rec -> Records],
         \A k \in Key : tb2[k] = IF tb[k] \in gone THEN Nil ELSE tb[k],
         \A x \in Rec : m2[x] = IF x \in gone /\ m[x].refs = 0 THEN Free ELSE m[x]
  PROVE  CacheCore(tb2, L \ gone, m2, qs)
<1> DEFINE L2 == L \ gone
<1>1. CacheTyped(tb, L, m, qs) /\ CacheTyped(tb2, L2, m2, qs) /\ gone \subseteq Rec /\ L2 \subseteq Rec
  BY DEF CacheCore, CacheTyped
<1>2. Nil \notin Rec
  BY DEF CacheBounds
<1>3. \A x \in Rec : m[x].refs = 0 <=> UsersOf(qs, x) = {}
  BY UsersFinite DEF CacheCore, UsesCounted
<1>4. \A x \in gone : ~FillingOf(qs, x)
  BY DEF CacheCore, HoldsRecord, FillingOf
<1>5. Free.refs = 0 /\ Free.live = FALSE
  BY DEF Free
<1>6. \A x \in Rec : x \in L2 <=> x \in L /\ x \notin gone
  OBVIOUS
<1>7. InTable(tb2, L2, m2)
  <2>1. \A x \in Rec : x \in L2 <=> \E k \in Key : tb2[k] = x
    BY <1>1, <1>2, <1>6 DEF CacheCore, InTable, CacheTyped
  <2>2. \A k \in Key : tb2[k] # Nil => m2[tb2[k]].key = k
    BY <1>1, <1>2 DEF CacheCore, InTable, CacheTyped
  <2> QED
    BY <2>1, <2>2 DEF InTable
<1>8. UsesCounted(m2, qs)
  BY <1>1, <1>5 DEF CacheCore, UsesCounted
<1>9. LivesWhile(L2, m2, qs)
  BY <1>1, <1>3, <1>4, <1>5, <1>6 DEF CacheCore, LivesWhile
<1>10. HoldsRecord(L2, m2, qs)
  <2>1. \A r \in Query : qs[r].rec \in Rec \cup {Nil}
    BY <1>1 DEF CacheTyped, Queries
  <2>2. ASSUME NEW r \in Query, qs[r].rec # Nil PROVE m2[qs[r].rec].key = m[qs[r].rec].key
    <3>1. CASE qs[r].pc = "sending"
      BY <1>3, <2>1, <2>2, <3>1 DEF UsersOf
    <3>2. CASE qs[r].pc = "insert"
      BY <1>4, <2>1, <2>2, <3>2 DEF FillingOf
    <3> QED
      BY <2>2, <3>1, <3>2 DEF CacheCore, HoldsRecord
  <2> QED
    BY <1>6, <2>2 DEF CacheCore, HoldsRecord
<1> QED
  BY <1>1, <1>7, <1>8, <1>9, <1>10 DEF CacheCore

\* A request takes free memory for a record, which only it has.
LEMMA CoreFills ==
  ASSUME CacheBounds, NEW tb, NEW L, NEW m, NEW qs, CacheCore(tb, L, m, qs),
         NEW r \in Query, qs[r].rec = Nil, NEW x \in Rec, ~m[x].live,
         NEW q \in Queries, q.rec = x, q.pc = "insert", q.key \in Key,
         NEW d \in Records, d.live, d.key = q.key, d.refs = 0
  PROVE  CacheCore(tb, L, [m EXCEPT ![x] = d], [qs EXCEPT ![r] = q])
<1> DEFINE qs2 == [qs EXCEPT ![r] = q]
           m2 == [m EXCEPT ![x] = d]
<1>1. CacheTyped(tb, L, m, qs) /\ CacheTyped(tb, L, m2, qs2)
  BY DEF CacheCore, CacheTyped
<1>2. Nil \notin Rec
  BY DEF CacheBounds
<1>3. x \notin L /\ UsersOf(qs, x) = {} /\ ~FillingOf(qs, x)
  BY DEF CacheCore, LivesWhile
<1>4. \A s \in Query : qs[s].rec # x
  BY <1>2, <1>3 DEF CacheCore, HoldsRecord, UsersOf, FillingOf
<1>5. \A y \in Rec : UsersOf(qs2, y) = UsersOf(qs, y)
  BY <1>1, <1>2 DEF CacheTyped, UsersOf
<1>6. \A y \in Rec : FillingOf(qs2, y) <=> FillingOf(qs, y) \/ y = x
  BY <1>1, <1>2 DEF CacheTyped, FillingOf
<1>7. m2[x] = d /\ \A y \in Rec : y # x => m2[y] = m[y]
  BY <1>1 DEF CacheTyped
<1>8. qs2[r] = q /\ \A s \in Query : s # r => qs2[s] = qs[s]
  BY <1>1 DEF CacheTyped
<1> HIDE DEF qs2, m2
<1>9. InTable(tb, L, m2)
  BY <1>1, <1>2, <1>3, <1>7 DEF CacheCore, InTable, CacheTyped
<1>10. UsesCounted(m2, qs2)
  BY <1>3, <1>5, <1>7, FS_EmptySet DEF CacheCore, UsesCounted
<1>11. LivesWhile(L, m2, qs2)
  BY <1>1, <1>5, <1>6, <1>7 DEF CacheCore, LivesWhile
<1>12. HoldsRecord(L, m2, qs2)
  <2>1. \A s \in Query : qs[s].rec \in Rec \cup {Nil}
    BY <1>1 DEF CacheTyped, Queries
  <2>2. \A s \in Query : qs[s].rec # Nil => m2[qs[s].rec] = m[qs[s].rec]
    BY <1>4, <1>7, <2>1
  <2> QED
    BY <1>2, <1>3, <1>4, <1>7, <1>8, <2>2 DEF CacheCore, HoldsRecord
<1> QED
  BY <1>1, <1>9, <1>10, <1>11, <1>12 DEF CacheCore, m2, qs2

\* It enters the record under a key that has none, and uses it.
LEMMA CoreEnters ==
  ASSUME CacheBounds, NEW tb, NEW L, NEW m, NEW qs, CacheCore(tb, L, m, qs),
         NEW r \in Query, qs[r].pc = "insert", NEW x \in Rec, qs[r].rec = x,
         tb[qs[r].key] = Nil,
         NEW q \in Queries, q.rec = x, q.pc = "sending", q.key = qs[r].key,
         NEW d \in Records, d.live = m[x].live, d.key = m[x].key, d.refs = 1
  PROVE  CacheCore([tb EXCEPT ![qs[r].key] = x], L \cup {x}, [m EXCEPT ![x] = d],
                   [qs EXCEPT ![r] = q])
<1> DEFINE k == qs[r].key
           tb2 == [tb EXCEPT ![k] = x]
           L2 == L \cup {x}
           qs2 == [qs EXCEPT ![r] = q]
           m2 == [m EXCEPT ![x] = d]
<1>1. CacheTyped(tb, L, m, qs) /\ CacheTyped(tb2, L2, m2, qs2)
  BY DEF CacheCore, CacheTyped
<1>2. Nil \notin Rec
  BY DEF CacheBounds
<1>3. x \notin L /\ k \in Key /\ m[x].key = k /\ \A s \in Query : s # r => qs[s].rec # x
  BY <1>2 DEF CacheCore, HoldsRecord
<1>4. m2[x] = d /\ \A y \in Rec : y # x => m2[y] = m[y]
  BY <1>1 DEF CacheTyped
<1>5. qs2[r] = q /\ \A s \in Query : s # r => qs2[s] = qs[s]
  BY <1>1 DEF CacheTyped
<1>6. tb2[k] = x /\ \A j \in Key : j # k => tb2[j] = tb[j]
  BY <1>1, <1>3 DEF CacheTyped
<1>7. UsersOf(qs, x) = {} /\ UsersOf(qs2, x) = {r}
  BY <1>3, <1>5 DEF UsersOf
<1>8. \A y \in Rec : y # x => UsersOf(qs2, y) = UsersOf(qs, y)
  BY <1>5 DEF UsersOf
<1>9. \A y \in Rec : y # x => (FillingOf(qs2, y) <=> FillingOf(qs, y))
  BY <1>5 DEF FillingOf
<1>10. FillingOf(qs, x)
  BY DEF FillingOf
<1> HIDE DEF qs2, m2, tb2, k, L2
<1>11. \A y \in Rec : y \in L2 <=> y \in L \/ y = x
  BY DEF L2
<1>12. InTable(tb2, L2, m2)
  <2>1. \A j \in Key : tb[j] # x
    BY <1>3 DEF CacheCore, InTable
  <2>2. \A y \in Rec : y \in L2 <=> \E j \in Key : tb2[j] = y
    <3> SUFFICES ASSUME NEW y \in Rec PROVE y \in L2 <=> \E j \in Key : tb2[j] = y
      OBVIOUS
    <3>1. CASE y = x
      BY <1>3, <1>6, <1>11, <3>1
    <3>2. CASE y # x
      <4>1. tb[k] # y
        BY <1>2 DEF k
      <4> QED
        BY <1>6, <1>11, <3>2, <4>1 DEF CacheCore, InTable
    <3> QED
      BY <3>1, <3>2
  <2>3. \A j \in Key : tb2[j] # Nil => m2[tb2[j]].key = j
    <3> SUFFICES ASSUME NEW j \in Key, tb2[j] # Nil PROVE m2[tb2[j]].key = j
      OBVIOUS
    <3>1. CASE j = k
      BY <1>3, <1>4, <1>6, <3>1
    <3>2. CASE j # k
      <4>1. tb[j] \in Rec /\ tb2[j] = tb[j] /\ tb[j] # x
        BY <1>1, <1>6, <2>1, <3>2 DEF CacheTyped
      <4> QED
        BY <1>4, <4>1 DEF CacheCore, InTable
    <3> QED
      BY <3>1, <3>2
  <2> QED
    BY <2>2, <2>3 DEF InTable
<1>13. UsesCounted(m2, qs2)
  <2>1. Cardinality({r}) = 1
    BY FS_Singleton
  <2> QED
    BY <1>4, <1>7, <1>8, <2>1 DEF CacheCore, UsesCounted
<1>14. LivesWhile(L2, m2, qs2)
  BY <1>4, <1>7, <1>8, <1>9, <1>10, <1>11 DEF CacheCore, LivesWhile
<1>15. HoldsRecord(L2, m2, qs2)
  <2>1. \A s \in Query : qs[s].rec \in Rec \cup {Nil}
    BY <1>1 DEF CacheTyped, Queries
  <2>2. \A s \in Query : s # r /\ qs[s].rec # Nil => m2[qs[s].rec] = m[qs[s].rec]
    BY <1>3, <1>4, <2>1
  <2>3. \A s \in Query : s # r /\ qs[s].rec # Nil => (qs[s].rec \in L2 <=> qs[s].rec \in L)
    BY <1>3, <1>11, <2>1
  <2> QED
    BY <1>2, <1>3, <1>4, <1>5, <2>2, <2>3 DEF CacheCore, HoldsRecord, k
<1> QED
  BY <1>1, <1>12, <1>13, <1>14, <1>15 DEF CacheCore, m2, qs2, tb2, L2, k

\* It gives the record it has filled back, for another has entered one.
LEMMA CoreAbandons ==
  ASSUME CacheBounds, NEW tb, NEW L, NEW m, NEW qs, CacheCore(tb, L, m, qs),
         NEW r \in Query, qs[r].pc = "insert", NEW x \in Rec, qs[r].rec = x,
         NEW q \in Queries, q.rec = Nil, q.pc = "idle"
  PROVE  CacheCore(tb, L, [m EXCEPT ![x] = Free], [qs EXCEPT ![r] = q])
<1> DEFINE qs2 == [qs EXCEPT ![r] = q]
           m2 == [m EXCEPT ![x] = Free]
<1>1. CacheTyped(tb, L, m, qs) /\ CacheTyped(tb, L, m2, qs2)
  <2>1. Free \in Records
    BY DEF CacheBounds, Free, Records
  <2> QED
    BY <2>1 DEF CacheCore, CacheTyped
<1>2. Nil \notin Rec
  BY DEF CacheBounds
<1>3. x \notin L /\ \A s \in Query : s # r => qs[s].rec # x
  BY <1>2 DEF CacheCore, HoldsRecord
<1>4. m2[x] = Free /\ \A y \in Rec : y # x => m2[y] = m[y]
  BY <1>1 DEF CacheTyped
<1>5. qs2[r] = q /\ \A s \in Query : s # r => qs2[s] = qs[s]
  BY <1>1 DEF CacheTyped
<1>6. \A y \in Rec : UsersOf(qs2, y) = UsersOf(qs, y)
  BY <1>2, <1>5 DEF UsersOf
<1>7. UsersOf(qs, x) = {} /\ ~FillingOf(qs2, x)
  BY <1>2, <1>3, <1>5 DEF UsersOf, FillingOf
<1>8. \A y \in Rec : y # x => (FillingOf(qs2, y) <=> FillingOf(qs, y))
  BY <1>5 DEF FillingOf
<1>9. Free.refs = 0 /\ Free.live = FALSE
  BY DEF Free
<1> HIDE DEF qs2, m2
<1>10. InTable(tb, L, m2)
  BY <1>1, <1>2, <1>3, <1>4 DEF CacheCore, InTable, CacheTyped
<1>11. UsesCounted(m2, qs2)
  BY <1>4, <1>6, <1>7, <1>9, FS_EmptySet DEF CacheCore, UsesCounted
<1>12. LivesWhile(L, m2, qs2)
  BY <1>3, <1>4, <1>6, <1>7, <1>8, <1>9 DEF CacheCore, LivesWhile
<1>13. HoldsRecord(L, m2, qs2)
  <2>1. \A s \in Query : qs[s].rec \in Rec \cup {Nil}
    BY <1>1 DEF CacheTyped, Queries
  <2>2. \A s \in Query : s # r /\ qs[s].rec # Nil => m2[qs[s].rec] = m[qs[s].rec]
    BY <1>3, <1>4, <2>1
  <2> QED
    BY <1>2, <1>3, <1>5, <2>2 DEF CacheCore, HoldsRecord
<1> QED
  BY <1>1, <1>10, <1>11, <1>12, <1>13 DEF CacheCore, m2, qs2

\* A request has used its record; the last use of one that is not in the list frees it.
LEMMA CoreLeaves ==
  ASSUME CacheBounds, NEW tb, NEW L, NEW m, NEW qs, CacheCore(tb, L, m, qs),
         NEW r \in Query, qs[r].pc = "sending", NEW x \in Rec, qs[r].rec = x,
         NEW q \in Queries, q.rec = Nil, q.pc = "idle",
         NEW d \in Records, d.refs = m[x].refs - 1,
         IF x \notin L /\ m[x].refs = 1 THEN d = Free
         ELSE d.live = m[x].live /\ d.key = m[x].key
  PROVE  CacheCore(tb, L, [m EXCEPT ![x] = d], [qs EXCEPT ![r] = q])
<1> DEFINE qs2 == [qs EXCEPT ![r] = q]
           m2 == [m EXCEPT ![x] = d]
<1>1. CacheTyped(tb, L, m, qs) /\ CacheTyped(tb, L, m2, qs2)
  BY DEF CacheCore, CacheTyped
<1>2. Nil \notin Rec
  BY DEF CacheBounds
<1>4. m2[x] = d /\ \A y \in Rec : y # x => m2[y] = m[y]
  BY <1>1 DEF CacheTyped
<1>5. qs2[r] = q /\ \A s \in Query : s # r => qs2[s] = qs[s]
  BY <1>1 DEF CacheTyped
<1>6. \A y \in Rec : y # x => UsersOf(qs2, y) = UsersOf(qs, y)
  BY <1>2, <1>5 DEF UsersOf
<1>7. UsersOf(qs, x) # {} /\ Cardinality(UsersOf(qs2, x)) = Cardinality(UsersOf(qs, x)) - 1
  <2>1. qs2[r].rec # x
    BY <1>2, <1>5
  <2> HIDE DEF qs2
  <2> QED
    BY <1>5, <2>1, UsersLose
<1>8. \A y \in Rec : FillingOf(qs2, y) <=> FillingOf(qs, y)
  BY <1>5 DEF FillingOf
<1>9. Free.live = FALSE
  BY DEF Free
<1>10. ~FillingOf(qs, x)
  BY <1>2 DEF CacheCore, HoldsRecord, FillingOf
<1> HIDE DEF qs2, m2
<1>11. UsesCounted(m2, qs2)
  BY <1>4, <1>6, <1>7 DEF CacheCore, UsesCounted
<1>12. m2[x].refs = 0 <=> UsersOf(qs2, x) = {}
  BY <1>11, UsersFinite DEF UsesCounted
<1>13. LivesWhile(L, m2, qs2)
  <2> SUFFICES ASSUME NEW y \in Rec
               PROVE m2[y].live <=> y \in L \/ UsersOf(qs2, y) # {} \/ FillingOf(qs2, y)
    BY DEF LivesWhile
  <2>1. CASE y # x
    BY <1>4, <1>6, <1>8, <2>1 DEF CacheCore, LivesWhile
  <2>2. CASE y = x /\ x \notin L /\ m[x].refs = 1
    BY <1>4, <1>8, <1>9, <1>10, <1>12, <2>2
  <2>3. CASE y = x /\ ~(x \notin L /\ m[x].refs = 1)
    <3>1. m[x].live
      BY <1>7 DEF CacheCore, LivesWhile
    <3>2. x \in L \/ m2[x].refs # 0
      <4>1. m[x].refs \in Nat
        BY <1>1 DEF CacheTyped, Records
      <4> QED
        BY <1>4, <2>3, <4>1
    <3> QED
      BY <1>4, <1>12, <2>3, <3>1, <3>2
  <2> QED
    BY <2>1, <2>2, <2>3
<1>14. \A s \in Query : s # r /\ qs[s].rec # Nil => m2[qs[s].rec].key = m[qs[s].rec].key
  <2> SUFFICES ASSUME NEW s \in Query, s # r, qs[s].rec # Nil
               PROVE m2[qs[s].rec].key = m[qs[s].rec].key
    OBVIOUS
  <2>1. qs[s].rec \in Rec
    BY <1>1 DEF CacheTyped, Queries
  <2>2. CASE qs[s].rec # x
    BY <1>4, <2>1, <2>2
  <2>3. CASE qs[s].rec = x
    <3>1. qs[s].pc = "sending"
      BY <1>2, <1>10, <2>3 DEF CacheCore, HoldsRecord, FillingOf
    <3>2. s \in UsersOf(qs2, x)
      BY <1>5, <2>3, <3>1 DEF UsersOf
    <3>3. m2[x].refs # 0
      BY <1>12, <3>2
    <3>4. ~(x \notin L /\ m[x].refs = 1)
      BY <1>4, <3>3
    <3> QED
      BY <1>4, <2>3, <3>4
  <2> QED
    BY <2>2, <2>3
<1>15. HoldsRecord(L, m2, qs2)
  BY <1>2, <1>5, <1>14 DEF CacheCore, HoldsRecord
<1>16. InTable(tb, L, m2)
  <2>1. \A k \in Key : tb[k] # Nil => m2[tb[k]].key = m[tb[k]].key
    BY <1>1, <1>2, <1>4 DEF CacheCore, CacheTyped, InTable
  <2> QED
    BY <2>1 DEF CacheCore, InTable
<1> QED
  BY <1>1, <1>11, <1>13, <1>15, <1>16 DEF CacheCore, m2, qs2

\* A list has its members at its places.
LEMMA MembersOfList ==
  ASSUME NEW T, NEW l \in Seq(T)
  PROVE  /\ ToSet(l) = {l[i] : i \in 1..Len(l)}
         /\ ToSet(l) \subseteq T
         /\ DOMAIN l = 1..Len(l)
         /\ Len(l) \in Nat
<1>1. DOMAIN l = 1..Len(l) /\ Len(l) \in Nat
  OBVIOUS
<1>2. ToSet(l) = {l[i] : i \in 1..Len(l)}
  BY <1>1 DEF ToSet
<1>3. \A i \in 1..Len(l) : l[i] \in T
  OBVIOUS
<1> QED
  BY <1>1, <1>2, <1>3

\* What is selected are the members that are in the set.
LEMMA SelectedMembers ==
  ASSUME NEW T, NEW l \in Seq(T), NEW S
  PROVE  ToSet(Selected(l, S)) = ToSet(l) \cap S
<1> DEFINE s == Selected(l, S)
<1>1. s \in Seq(T)
  BY SelectedSeq
<1>2. \A k \in 1..Len(s) : s[k] \in S /\ \E i \in 1..Len(l) : s[k] = l[i]
  BY SelectedFrom
<1>3. \A i \in 1..Len(l) : l[i] \in S => \E k \in 1..Len(s) : s[k] = l[i]
  BY SelectedAll
<1> HIDE DEF s
<1>4. ToSet(s) = {s[i] : i \in 1..Len(s)} /\ ToSet(l) = {l[i] : i \in 1..Len(l)}
  BY <1>1, MembersOfList
<1>5. ToSet(s) = ToSet(l) \cap S
  BY <1>2, <1>3, <1>4
<1> QED
  BY <1>5 DEF s

\* A list without repetition is as long as it has members.
LEMMA OnceAsLong ==
  ASSUME NEW T, NEW l \in Seq(T), NEW s \in Seq(T), Once(l), Once(s), ToSet(s) = ToSet(l)
  PROVE  Len(s) = Len(l)
<1>1. Cardinality(ToSet(s)) = Len(s)
  BY OnceCounted DEF Once
<1>2. Cardinality(ToSet(l)) = Len(l)
  BY OnceCounted DEF Once
<1> QED
  BY <1>1, <1>2

\* The list without x.
LEMMA WithoutList ==
  ASSUME NEW l \in Seq(Rec), Once(l), NEW x
  PROVE  /\ Without(l, x) \in Seq(Rec)
         /\ Once(Without(l, x))
         /\ ToSet(Without(l, x)) = ToSet(l) \ {x}
<1>1. Without(l, x) \in Seq(Rec)
  BY SelectedSeq DEF Without
<1>2. Once(Without(l, x))
  BY SelectedOnce DEF Without, Once
<1>3. ToSet(Without(l, x)) = ToSet(l) \cap (Rec \ {x})
  BY SelectedMembers DEF Without
<1>4. ToSet(l) \subseteq Rec
  BY MembersOfList
<1> QED
  BY <1>1, <1>2, <1>3, <1>4

\* The list with x at its head.
LEMMA HeadedList ==
  ASSUME NEW l \in Seq(Rec), Once(l), NEW x \in Rec, x \notin ToSet(l)
  PROVE  /\ <<x>> \o l \in Seq(Rec)
         /\ Once(<<x>> \o l)
         /\ ToSet(<<x>> \o l) = ToSet(l) \cup {x}
         /\ Len(<<x>> \o l) = Len(l) + 1
<1> DEFINE h == <<x>> \o l
<1>1. h \in Seq(Rec) /\ Len(h) = Len(l) + 1 /\ Len(l) \in Nat
  OBVIOUS
<1>2. h[1] = x
  OBVIOUS
<1>3. \A i \in 2..Len(h) : h[i] = l[i - 1]
  BY <1>1
<1> HIDE DEF h
<1>4. \A i \in 1..Len(l) : h[i + 1] = l[i]
  <2> TAKE i \in 1..Len(l)
  <2> DEFINE j == i + 1
  <2>1. j \in 2..Len(h) /\ j - 1 = i
    BY <1>1
  <2> HIDE DEF j
  <2>2. h[j] = l[i]
    BY <1>3, <2>1
  <2> QED
    BY <2>2 DEF j
<1>5. ToSet(h) = {h[i] : i \in 1..Len(h)} /\ ToSet(l) = {l[i] : i \in 1..Len(l)}
  BY <1>1, MembersOfList
<1>6. ToSet(h) = ToSet(l) \cup {x}
  <2>1. ASSUME NEW i \in 1..Len(h) PROVE h[i] \in ToSet(l) \cup {x}
    <3>1. CASE i = 1
      BY <1>2, <3>1
    <3>2. CASE i # 1
      <4> DEFINE j == i - 1
      <4>1. j \in 1..Len(l) /\ i \in 2..Len(h)
        BY <1>1, <3>2
      <4>2. h[i] = l[j]
        BY <1>3, <4>1
      <4> HIDE DEF j
      <4> QED
        BY <1>5, <4>1, <4>2
    <3> QED
      BY <3>1, <3>2
  <2>2. ASSUME NEW i \in 1..Len(l) PROVE l[i] \in ToSet(h)
    <3> DEFINE j == i + 1
    <3>1. j \in 1..Len(h) /\ h[j] = l[i]
      BY <1>1, <1>4
    <3> HIDE DEF j
    <3> QED
      BY <1>5, <3>1
  <2>3. x \in ToSet(h)
    <3>1. 1 \in 1..Len(h)
      BY <1>1
    <3> QED
      BY <1>2, <1>5, <3>1
  <2> QED
    BY <1>5, <2>1, <2>2, <2>3
<1>7. Once(h)
  <2> SUFFICES ASSUME NEW i \in 1..Len(h), NEW j \in 1..Len(h), h[i] = h[j] PROVE i = j
    BY DEF Once
  <2>1. \A n \in 2..Len(h) : n - 1 \in 1..Len(l) /\ h[n] = l[n - 1] /\ h[n] # x
    <3> TAKE n \in 2..Len(h)
    <3> DEFINE o == n - 1
    <3>1. o \in 1..Len(l)
      BY <1>1
    <3>2. h[n] = l[o]
      BY <1>3
    <3> HIDE DEF o
    <3>3. l[o] \in ToSet(l)
      BY <1>5, <3>1
    <3>4. h[n] # x
      BY <3>2, <3>3
    <3> QED
      BY <3>1, <3>2, <3>4 DEF o
  <2>2. CASE i = 1
    <3>1. j \notin 2..Len(h)
      BY <1>2, <2>1, <2>2
    <3> QED
      BY <1>1, <2>2, <3>1
  <2>3. CASE j = 1
    <3>1. i \notin 2..Len(h)
      BY <1>2, <2>1, <2>3
    <3> QED
      BY <1>1, <2>3, <3>1
  <2>4. CASE i # 1 /\ j # 1
    <3> DEFINE a == i - 1
               b == j - 1
    <3>1. i \in 2..Len(h) /\ j \in 2..Len(h)
      BY <1>1, <2>4
    <3>2. a \in 1..Len(l) /\ b \in 1..Len(l) /\ h[i] = l[a] /\ h[j] = l[b]
      BY <2>1, <3>1
    <3> HIDE DEF a, b
    <3>3. a = b
      BY <3>2 DEF Once
    <3> QED
      BY <1>1, <3>3 DEF a, b
  <2> QED
    BY <2>2, <2>3, <2>4
<1> QED
  BY <1>1, <1>6, <1>7 DEF h

\* A record of the list goes to its head.
LEMMA RelinkedList ==
  ASSUME NEW l \in Seq(Rec), Once(l), NEW x \in ToSet(l)
  PROVE  /\ <<x>> \o Without(l, x) \in Seq(Rec)
         /\ Once(<<x>> \o Without(l, x))
         /\ ToSet(<<x>> \o Without(l, x)) = ToSet(l)
         /\ Len(<<x>> \o Without(l, x)) = Len(l)
<1> DEFINE w == Without(l, x)
<1>1. w \in Seq(Rec) /\ Once(w) /\ ToSet(w) = ToSet(l) \ {x}
  BY WithoutList
<1>2. x \in Rec
  BY MembersOfList
<1> DEFINE h == <<x>> \o w
<1> HIDE DEF w
<1>3. h \in Seq(Rec) /\ Once(h) /\ ToSet(h) = ToSet(w) \cup {x}
  BY <1>1, <1>2, HeadedList
<1> HIDE DEF h
<1>4. ToSet(h) = ToSet(l)
  BY <1>1, <1>3
<1>5. Len(h) = Len(l)
  BY <1>3, <1>4, OnceAsLong
<1> QED
  BY <1>3, <1>4, <1>5 DEF h, w

\* The list from the tail.
LEMMA ReversedList ==
  ASSUME NEW T, NEW l \in Seq(T), Once(l)
  PROVE  Reverse(l) \in Seq(T) /\ Once(Reverse(l)) /\ ToSet(Reverse(l)) = ToSet(l)
<1> DEFINE v == Reverse(l)
<1>1. Len(l) \in Nat /\ DOMAIN l = 1..Len(l)
  OBVIOUS
<1>2. \A i \in 1..Len(l) : Len(l) - i + 1 \in 1..Len(l) /\ Len(l) - (Len(l) - i + 1) + 1 = i
  BY <1>1
<1>3. v = [i \in 1..Len(l) |-> l[Len(l) - i + 1]]
  BY DEF Reverse
<1>4. v \in Seq(T) /\ Len(v) = Len(l)
  <2>1. \A i \in 1..Len(l) : l[i] \in T
    OBVIOUS
  <2>2. v \in [1..Len(l) -> T]
    BY <1>2, <1>3, <2>1
  <2> HIDE DEF v
  <2> QED
    BY <1>1, <2>2
<1>5. \A i \in 1..Len(l) : v[i] = l[Len(l) - i + 1]
  BY <1>3
<1> HIDE DEF v
<1>6. Once(v)
  BY <1>1, <1>2, <1>4, <1>5 DEF Once
<1>7. ToSet(v) = {v[i] : i \in 1..Len(l)} /\ ToSet(l) = {l[i] : i \in 1..Len(l)}
  BY <1>4, MembersOfList
<1>8. \A i \in 1..Len(l) : \E j \in 1..Len(l) : v[j] = l[i]
  <2> TAKE i \in 1..Len(l)
  <2> DEFINE j == Len(l) - i + 1
  <2>1. j \in 1..Len(l) /\ Len(l) - j + 1 = i
    BY <1>2
  <2> HIDE DEF j
  <2>2. v[j] = l[i]
    BY <1>5, <2>1
  <2> QED
    BY <2>1, <2>2
<1>9. \A i \in 1..Len(l) : \E j \in 1..Len(l) : v[i] = l[j]
  BY <1>2, <1>5
<1>10. ToSet(v) = ToSet(l)
  BY <1>7, <1>8, <1>9
<1> QED
  BY <1>4, <1>6, <1>10 DEF v

\* The cache is larger than it may be only while every record is in use.
Limited(l, m) == Len(l) > MaxItems => \A x \in ToSet(l) : m[x].refs > 0

\* The first n members of a list without repetition are n.
LEMMA FirstMembers ==
  ASSUME NEW T, NEW l \in Seq(T), Once(l), NEW n \in 0..Len(l)
  PROVE  Cardinality({l[i] : i \in 1..n}) = n
<1> DEFINE s == [i \in 1..n |-> l[i]]
<1>1. Len(l) \in Nat /\ n \in Nat /\ \A i \in 1..n : i \in 1..Len(l)
  OBVIOUS
<1>2. \A i \in 1..Len(l) : l[i] \in T
  OBVIOUS
<1>3. s \in [1..n -> T] /\ \A i \in 1..n : s[i] = l[i]
  BY <1>1, <1>2
<1> HIDE DEF s
<1>4. s \in Seq(T) /\ Len(s) = n
  BY <1>1, <1>3
<1>5. \A i, j \in 1..Len(s) : s[i] = s[j] => i = j
  BY <1>1, <1>3, <1>4 DEF Once
<1>6. Cardinality(ToSet(s)) = n
  BY <1>4, <1>5, OnceCounted
<1>7. ToSet(s) = {s[i] : i \in 1..n}
  BY <1>4, MembersOfList
<1>8. ToSet(s) = {l[i] : i \in 1..n}
  BY <1>3, <1>7
<1> QED
  BY <1>6, <1>8

\* What cache_check_size frees is unused, and as much as is too much, if there is
\* as much; without it the list is one again.
LEMMA TrimmedList ==
  ASSUME CacheBounds, NEW l \in Seq(Rec), Once(l), NEW m \in [Rec -> Records],
         NEW gone, gone = Victims(l, m), NEW s, s = Selected(l, Rec \ gone)
  PROVE  /\ gone \subseteq ToSet(l)
         /\ \A x \in gone : m[x].refs = 0
         /\ s \in Seq(Rec) /\ Once(s) /\ ToSet(s) = ToSet(l) \ gone
         /\ Limited(s, m)
<1> DEFINE Z == {x \in Rec : m[x].refs = 0}
           u == Selected(Reverse(l), Z)
           over == Len(l) - MaxItems
<1>1. Len(l) \in Nat /\ MaxItems \in Nat /\ over \in Int /\ ToSet(l) \subseteq Rec
  BY MembersOfList DEF CacheBounds
<1>2. Reverse(l) \in Seq(Rec) /\ Once(Reverse(l)) /\ ToSet(Reverse(l)) = ToSet(l)
  BY ReversedList
<1>3. u \in Seq(Rec) /\ Once(u) /\ ToSet(u) = ToSet(l) \cap Z
  <2> DEFINE v == Reverse(l)
  <2>1. v \in Seq(Rec) /\ Once(v) /\ ToSet(v) = ToSet(l)
    BY <1>2
  <2> HIDE DEF v, Z
  <2>2. Selected(v, Z) \in Seq(Rec)
    BY <2>1, SelectedSeq
  <2>3. Once(Selected(v, Z))
    BY <2>1, SelectedOnce DEF Once
  <2>4. ToSet(Selected(v, Z)) = ToSet(v) \cap Z
    BY <2>1, SelectedMembers
  <2> QED
    BY <2>1, <2>2, <2>3, <2>4 DEF v
<1>4. gone = {u[i] : i \in {j \in DOMAIN u : j <= over}}
  BY DEF Victims
<1> HIDE DEF u, over
<1>5. Len(u) \in Nat /\ DOMAIN u = 1..Len(u) /\ ToSet(u) = {u[i] : i \in 1..Len(u)}
  BY <1>3, MembersOfList
<1>6. gone \subseteq ToSet(l) /\ gone \subseteq Z
  BY <1>3, <1>4, <1>5
<1>7. s \in Seq(Rec)
  BY SelectedSeq
<1>8. Once(s)
  BY SelectedOnce DEF Once
<1>9. ToSet(s) = ToSet(l) \ gone
  <2>1. ToSet(s) = ToSet(l) \cap (Rec \ gone)
    BY SelectedMembers
  <2> QED
    BY <1>1, <2>1
<1>10. Limited(s, m)
  <2>1. IsFiniteSet(ToSet(l)) /\ Cardinality(ToSet(l)) = Len(l)
    BY OnceCounted DEF Once
  <2>2. Cardinality(ToSet(s)) = Len(s)
    BY <1>7, <1>8, OnceCounted DEF Once
  <2>3. Cardinality(ToSet(s)) = Len(l) - Cardinality(gone)
    <3>1. ToSet(l) \cap gone = gone
      BY <1>6
    <3> QED
      BY <1>9, <2>1, <3>1, FS_Difference
  <2>4. CASE Len(u) <= over
    <3>1. gone = ToSet(u)
      BY <1>1, <1>4, <1>5, <2>4
    <3>2. \A x \in ToSet(s) : x \in Rec /\ m[x].refs # 0
      BY <1>1, <1>3, <1>9, <3>1
    <3>3. \A x \in Rec : m[x].refs \in Nat
      BY DEF Records
    <3>4. ASSUME NEW x \in ToSet(s) PROVE m[x].refs > 0
      <4>1. m[x].refs \in Nat /\ m[x].refs # 0
        BY <3>2, <3>3
      <4> QED
        BY <4>1
    <3> QED
      BY <3>4 DEF Limited
  <2>5. CASE over < Len(u) /\ over >= 0
    <3>1. over \in 0..Len(u)
      BY <1>1, <1>5, <2>5
    <3>2. {j \in DOMAIN u : j <= over} = 1..over
      BY <1>1, <1>5, <3>1
    <3>3. gone = {u[i] : i \in 1..over}
      BY <1>4, <3>2
    <3>4. Cardinality(gone) = over
      BY <1>3, <3>1, <3>3, FirstMembers
    <3>5. Len(s) = MaxItems
      BY <1>1, <2>2, <2>3, <3>4 DEF over
    <3> QED
      BY <1>1, <3>5 DEF Limited
  <2>6. CASE over < 0
    <3>1. gone = {}
      BY <1>1, <1>4, <1>5, <2>6
    <3>2. Len(s) = Len(l)
      BY <1>7, <1>8, <1>9, <3>1, OnceAsLong
    <3> QED
      BY <1>1, <2>6, <3>2 DEF Limited, over
  <2> QED
    BY <1>1, <1>5, <2>4, <2>5, <2>6
<1> QED
  BY <1>6, <1>7, <1>8, <1>9, <1>10

\* The version after v, if there is one, was written at time t or later.
Since(versions, v, t) ==
  v <= Len(versions) /\ (Len(versions) > v => versions[v + 1] >= t)

\* The versions bs of the files, at time c; the contents of the records m; what the
\* requests qs know of a file.
Dated(bs, c) ==
  /\ bs \in [Key -> Seq(0..MaxMoment)]
  /\ c \in 0..MaxMoment
  /\ \A k \in Key : /\ Len(bs[k]) \in 1..MaxVersions
                    /\ \A i \in 1..Len(bs[k]) : bs[k][i] <= c
                    /\ \A i, j \in 1..Len(bs[k]) : i <= j => bs[k][i] <= bs[k][j]
Holding(d, bs, c) ==
  /\ d.key \in Key
  /\ 1 <= d.ver /\ d.ver <= d.content
  /\ d.expires <= c + Cached
  /\ Since(bs[d.key], d.content, d.expires - Cached)
Contents(m, bs, c) == \A x \in Rec : m[x].live => Holding(m[x], bs, c)
Knowing(q, m, bs, c) ==
  /\ q.t <= c
  /\ q.pc \in {"try", "read", "insert"} => q.mtime > 0 /\ Since(bs[q.key], q.mtime, q.t)
  /\ q.mem => /\ q.pc = "sending"
              /\ q.rec # Nil
              /\ Since(bs[q.key], m[q.rec].content, q.t - Cached)
Stated(m, qs, bs, c) == \A r \in Query : Knowing(qs[r], m, bs, c)

CacheIInv == /\ CacheCore(table, ToSet(lru), rec, query)
             /\ lru \in Seq(Rec)
             /\ Once(lru)
             /\ Limited(lru, rec)
             /\ Dated(born, moment)
             /\ Contents(rec, born, moment)
             /\ Stated(rec, query, born, moment)

\* What holds of a version holds of a later one.
LEMMA SinceLater ==
  ASSUME CacheBounds, NEW bs, NEW c, Dated(bs, c), NEW k \in Key,
         NEW v \in Nat, NEW w \in Nat, NEW t \in Int,
         v <= w, w <= Len(bs[k]), Since(bs[k], v, t)
  PROVE  Since(bs[k], w, t)
<1> DEFINE n == Len(bs[k])
<1>1. n \in Nat
  BY DEF Dated
<1>2. CASE w = n
  BY <1>1, <1>2 DEF Since
<1>3. CASE w < n
  <2> DEFINE i == v + 1
             j == w + 1
  <2>1. i \in 1..n /\ j \in 1..n /\ i <= j
    BY <1>1, <1>3
  <2>2. bs[k][i] >= t
    BY <1>1, <1>3 DEF Since
  <2> HIDE DEF i, j
  <2>3. bs[k][i] <= bs[k][j]
    BY <2>1 DEF Dated
  <2>4. bs[k] \in Seq(0..MaxMoment) /\ MaxMoment \in Nat
    BY DEF Dated, CacheBounds
  <2>5. bs[k][i] \in 0..MaxMoment /\ bs[k][j] \in 0..MaxMoment
    <3> DEFINE h == bs[k]
               T == 0..MaxMoment
    <3>1. h \in Seq(T) /\ i \in 1..Len(h) /\ j \in 1..Len(h)
      BY <2>1, <2>4
    <3> HIDE DEF h, T
    <3>2. h[i] \in T /\ h[j] \in T
      BY <3>1
    <3> QED
      BY <3>2 DEF h, T
  <2> DEFINE y == bs[k][i]
             z == bs[k][j]
  <2>6. y \in Int /\ z \in Int /\ y >= t /\ y <= z
    BY <2>2, <2>3, <2>4, <2>5
  <2> HIDE DEF y, z
  <2>7. z >= t
    BY <2>6
  <2>8. bs[k][w + 1] >= t
    BY <2>7 DEF z, j
  <2> QED
    BY <2>8 DEF Since
<1> QED
  BY <1>1, <1>2, <1>3

\* Who sends a record keeps it alive.
LEMMA SendersLive ==
  ASSUME CacheBounds, NEW tb, NEW L, NEW m, NEW qs, CacheCore(tb, L, m, qs),
         NEW r \in Query, qs[r].pc = "sending", qs[r].rec # Nil
  PROVE  /\ qs[r].rec \in Rec
         /\ m[qs[r].rec].live
         /\ m[qs[r].rec].refs # 0
         /\ m[qs[r].rec].key = qs[r].key
         /\ qs[r].key \in Key
<1>1. qs[r].rec \in Rec
  BY DEF CacheCore, CacheTyped, Queries
<1>2. r \in UsersOf(qs, qs[r].rec)
  BY DEF UsersOf
<1>3. m[qs[r].rec].live
  BY <1>1, <1>2 DEF CacheCore, LivesWhile
<1>4. m[qs[r].rec].refs # 0
  BY <1>1, <1>2, UsersFinite DEF CacheCore, UsesCounted
<1> QED
  BY <1>1, <1>3, <1>4 DEF CacheCore, HoldsRecord

\* Records are freed or changed, but not what lives on holds.
LEMMA ContentsKept ==
  ASSUME NEW m, NEW m2, NEW bs, NEW c, Contents(m, bs, c),
         \A x \in Rec : m2[x].live =>
           \/ /\ m[x].live
              /\ m2[x].key = m[x].key /\ m2[x].ver = m[x].ver
              /\ m2[x].content = m[x].content /\ m2[x].expires = m[x].expires
           \/ Holding(m2[x], bs, c)
  PROVE  Contents(m2, bs, c)
BY DEF Contents, Holding

\* What others than r know of a record that lives on stays true.
LEMMA StatedKept ==
  ASSUME CacheBounds, NEW tb, NEW L, NEW m, NEW qs, CacheCore(tb, L, m, qs),
         NEW m2, NEW qs2, NEW bs, NEW c, Stated(m, qs, bs, c), NEW r \in Query,
         \A s \in Query : s # r => qs2[s] = qs[s],
         \A s \in Query : s # r /\ qs[s].pc = "sending" /\ qs[s].rec # Nil =>
           m2[qs[s].rec].content = m[qs[s].rec].content,
         Knowing(qs2[r], m2, bs, c)
  PROVE  Stated(m2, qs2, bs, c)
<1> SUFFICES ASSUME NEW s \in Query, s # r PROVE Knowing(qs2[s], m2, bs, c)
  BY DEF Stated
<1>1. Knowing(qs[s], m, bs, c) /\ qs2[s] = qs[s]
  BY DEF Stated
<1> QED
  BY <1>1 DEF Knowing

\* The end of an action that trims the cache.
LEMMA TrimStep ==
  ASSUME CacheBounds, NEW tb, NEW l \in Seq(Rec), Once(l), NEW m,
         CacheCore(tb, ToSet(l), m, query'), Trim(tb, l, m), UNCHANGED <<born, moment>>,
         Dated(born, moment), Contents(m, born, moment), Stated(m, query', born, moment)
  PROVE  CacheIInv'
<1> DEFINE gone == Victims(l, m)
           L == ToSet(l)
           qs == query'
<1>1. CacheTyped(tb, L, m, qs)
  BY DEF CacheCore
<1>2. m \in [Rec -> Records] /\ tb \in [Key -> Rec \cup {Nil}] /\ Nil \notin Rec
  BY <1>1 DEF CacheTyped, CacheBounds
<1>3. /\ table' = [k \in Key |-> IF tb[k] \in gone THEN Nil ELSE tb[k]]
      /\ lru' = Selected(l, Rec \ gone)
      /\ rec' = [x \in Rec |-> IF x \in gone THEN Free ELSE m[x]]
  BY DEF Trim
<1> HIDE DEF gone
<1>4. /\ gone \subseteq L
      /\ \A x \in gone : m[x].refs = 0
      /\ lru' \in Seq(Rec) /\ Once(lru') /\ ToSet(lru') = L \ gone
      /\ Limited(lru', m)
  BY <1>2, <1>3, TrimmedList DEF gone
<1> HIDE DEF L, qs
<1>5. Free \in Records
  BY DEF CacheBounds, Free, Records
<1>6. table' \in [Key -> Rec \cup {Nil}] /\ rec' \in [Rec -> Records]
  BY <1>2, <1>3, <1>5
<1>7. \A k \in Key : table'[k] = IF tb[k] \in gone THEN Nil ELSE tb[k]
  BY <1>3
<1>8. \A x \in Rec : rec'[x] = IF x \in gone /\ m[x].refs = 0 THEN Free ELSE m[x]
  BY <1>3, <1>4
<1>9. CacheCore(table', L \ gone, rec', qs)
  <2> DEFINE tb2 == table'
             m2 == rec'
  <2>1. tb2 \in [Key -> Rec \cup {Nil}] /\ m2 \in [Rec -> Records]
    BY <1>6
  <2>2. \A k \in Key : tb2[k] = IF tb[k] \in gone THEN Nil ELSE tb[k]
    BY <1>7
  <2>3. \A x \in Rec : m2[x] = IF x \in gone /\ m[x].refs = 0 THEN Free ELSE m[x]
    BY <1>8
  <2>4. CacheCore(tb, L, m, qs)
    BY DEF L, qs
  <2> HIDE DEF tb2, m2
  <2>5. gone \in SUBSET L
    BY <1>4
  <2>6. CacheCore(tb2, L \ gone, m2, qs)
    BY <2>1, <2>2, <2>3, <2>4, <2>5, CoreDrops, ZenonT(40)
  <2> QED
    BY <2>6 DEF tb2, m2
<1>10. CacheCore(table', ToSet(lru'), rec', query')
  BY <1>4, <1>9 DEF qs
<1>11. Limited(lru', rec')
  <2>1. \A x \in ToSet(lru') : x \in Rec /\ x \notin gone
    <3>1. ToSet(l) \subseteq Rec
      BY MembersOfList
    <3> QED
      BY <1>4, <3>1 DEF L
  <2>2. \A x \in ToSet(lru') : rec'[x] = m[x]
    BY <1>8, <2>1
  <2> QED
    BY <1>4, <2>2 DEF Limited
<1>12. Contents(rec', born, moment)
  <2>1. \A x \in Rec : rec'[x].live => rec'[x] = m[x]
    BY <1>8 DEF Free
  <2> QED
    BY <2>1 DEF Contents
<1>13. Stated(rec', query', born, moment)
  <2> SUFFICES ASSUME NEW r \in Query PROVE Knowing(query'[r], rec', born, moment)
    BY DEF Stated
  <2>1. Knowing(query'[r], m, born, moment)
    BY DEF Stated
  <2>2. CASE query'[r].mem
    <3>1. qs[r].pc = "sending" /\ qs[r].rec # Nil
      BY <2>1, <2>2 DEF Knowing, qs
    <3>2. CacheCore(tb, L, m, qs)
      BY DEF L, qs
    <3>3. qs[r].rec \in Rec /\ m[qs[r].rec].refs # 0
      BY <3>1, <3>2, SendersLive
    <3>4. rec'[query'[r].rec] = m[query'[r].rec]
      BY <1>8, <3>3 DEF qs
    <3> QED
      BY <2>1, <3>4 DEF Knowing
  <2>3. CASE ~query'[r].mem
    BY <2>1, <2>3 DEF Knowing
  <2> QED
    BY <2>2, <2>3
<1> QED
  BY <1>4, <1>10, <1>11, <1>12, <1>13 DEF CacheIInv

\* What the parts of the invariant say of the variables.
LEMMA CacheTypes ==
  ASSUME CacheIInv
  PROVE  /\ rec \in [Rec -> Records]
         /\ table \in [Key -> Rec \cup {Nil}]
         /\ query \in [Query -> Queries]
         /\ ToSet(lru) \subseteq Rec
         /\ \A r \in Query : query[r].rec # Nil => query[r].pc \in {"insert", "sending"}
         /\ \A r \in Query : query[r].pc # "idle" => query[r].key \in Key
         /\ moment \in 0..MaxMoment
         /\ born \in [Key -> Seq(0..MaxMoment)]
         /\ \A k \in Key : Len(born[k]) \in 1..MaxVersions
BY DEF CacheIInv, CacheCore, CacheTyped, HoldsRecord, Dated

\* What is found is in the list, alive, and known under its key.
LEMMA FoundLives ==
  ASSUME CacheBounds, CacheIInv, NEW k \in Key, table[k] # Nil
  PROVE  /\ table[k] \in Rec
         /\ table[k] \in ToSet(lru)
         /\ rec[table[k]].live
         /\ rec[table[k]].key = k
         /\ Holding(rec[table[k]], born, moment)
<1>1. table[k] \in Rec
  BY DEF CacheIInv, CacheCore, CacheTyped
<1>2. table[k] \in ToSet(lru) /\ rec[table[k]].key = k
  BY <1>1 DEF CacheIInv, CacheCore, InTable
<1>3. rec[table[k]].live
  BY <1>1, <1>2 DEF CacheIInv, CacheCore, LivesWhile
<1> QED
  BY <1>1, <1>2, <1>3 DEF CacheIInv, Contents

\* A request without a record goes on; the cache stays as it is.
LEMMA GoesOn ==
  ASSUME CacheBounds, CacheIInv, NEW r \in Query, query[r].rec = Nil,
         NEW q \in Queries, Becomes(r, q),
         q.rec = Nil, q.pc # "insert", q.pc # "idle" => q.key \in Key,
         Knowing(q, rec, born, moment),
         UNCHANGED <<born, moment, rec, table, lru>>
  PROVE  CacheIInv'
<1> DEFINE qs2 == [query EXCEPT ![r] = q]
           L == ToSet(lru)
<1>1. CacheCore(table, L, rec, query)
  BY DEF CacheIInv
<1>2. query' = qs2
  BY DEF Becomes
<1>3. qs2[r] = q /\ \A s \in Query : s # r => qs2[s] = query[s]
  BY CacheTypes
<1> HIDE DEF L
<1>4. CacheCore(table, L, rec, qs2)
  BY <1>1, CoreMoves
<1>5. Stated(rec, query, born, moment)
  BY DEF CacheIInv
<1> HIDE DEF qs2
<1>6. Knowing(qs2[r], rec, born, moment)
  BY <1>3
<1>7. Stated(rec, qs2, born, moment)
  BY <1>1, <1>3, <1>5, <1>6, StatedKept
<1> QED
  BY <1>2, <1>4, <1>7 DEF CacheIInv, L

\* nxweb_cache_try finds a record that is good, and r uses it or only asked for it.
LEMMA HitStep ==
  ASSUME CacheBounds, CacheIInv, NEW r \in Query, query[r].rec = Nil,
         NEW k \in Key, NEW x, x = table[k], x # Nil,
         NEW t \in 0..MaxMoment, t <= moment, NEW mtime,
         Revalidated(x, mtime) => Since(born[k], rec[x].content, t),
         NEW used \in BOOLEAN, Hit(x, t, mtime, used),
         NEW q \in Queries, Becomes(r, q), Knowing(q, rec, born, moment),
         used => q.pc = "sending" /\ q.rec = x /\ q.key = k,
         ~used => q.pc = "idle" /\ q.rec = Nil,
         UNCHANGED <<born, moment>>
  PROVE  CacheIInv'
<1> DEFINE E == Expires(x, t, mtime)
           n == IF used THEN rec[x].refs + 1 ELSE rec[x].refs
           d == [live |-> rec[x].live, key |-> rec[x].key, ver |-> rec[x].ver,
                 content |-> rec[x].content, expires |-> E, refs |-> n]
           L == ToSet(lru)
           qs2 == [query EXCEPT ![r] = q]
           m2 == [rec EXCEPT ![x] = d]
<1>1. /\ x \in Rec /\ x \in L /\ rec[x].live /\ rec[x].key = k
      /\ Holding(rec[x], born, moment)
  BY FoundLives
<1>2. /\ rec \in [Rec -> Records] /\ query \in [Query -> Queries] /\ moment \in 0..MaxMoment
      /\ born \in [Key -> Seq(0..MaxMoment)] /\ Cached \in Nat /\ MaxMoment \in Nat
  BY CacheTypes DEF CacheBounds
<1>3. rec[x] \in Records
  BY <1>1, <1>2
<1>4. E \in 0..MaxMoment + Cached /\ E <= moment + Cached /\ Since(born[k], rec[x].content, E - Cached)
  <2>1. CASE Revalidated(x, mtime)
    <3>1. E = t + Cached
      BY <2>1 DEF Expires
    <3>2. E - Cached = t
      BY <1>2, <3>1
    <3> HIDE DEF E
    <3> QED
      BY <1>2, <2>1, <3>1, <3>2
  <2>2. CASE ~Revalidated(x, mtime)
    <3>1. E = rec[x].expires
      BY <2>2 DEF Expires
    <3>2. rec[x].expires \in 0..MaxMoment + Cached
      BY <1>3 DEF Records
    <3> HIDE DEF E
    <3> QED
      BY <1>1, <3>1, <3>2 DEF Holding
  <2> QED
    BY <2>1, <2>2
<1>5. rec' = m2
  <2>1. rec' = [rec EXCEPT ![x].expires = E, ![x].refs = IF used THEN @ + 1 ELSE @]
    BY DEF Hit
  <2> HIDE DEF E
  <2>2. rec' \in [Rec -> Records] \/ DOMAIN rec' = Rec
    BY <1>2, <2>1
  <2>3. [[rec[x] EXCEPT !.expires = E] EXCEPT !.refs = n] = d
    <3> DEFINE e == [rec[x] EXCEPT !.expires = E]
    <3> HIDE DEF n
    <3>1. rec[x] = [live |-> rec[x].live, key |-> rec[x].key, ver |-> rec[x].ver,
                    content |-> rec[x].content, expires |-> rec[x].expires,
                    refs |-> rec[x].refs]
      BY <1>3 DEF Records
    <3>2. e = [live |-> rec[x].live, key |-> rec[x].key, ver |-> rec[x].ver,
               content |-> rec[x].content, expires |-> E, refs |-> rec[x].refs]
      BY <3>1
    <3> HIDE DEF e
    <3>3. [e EXCEPT !.refs = n] = d
      BY <3>2
    <3> QED
      BY <3>3 DEF e
  <2> QED
    BY <1>2, <2>1, <2>3, ZenonT(40) DEF Records
<1>6. d \in Records
  <2>1. n \in Nat
    BY <1>3 DEF Records
  <2> HIDE DEF E, n
  <2> QED
    BY <1>3, <1>4, <2>1 DEF Records
<1>7. lru' = <<x>> \o Without(lru, x) /\ table' = table
  BY DEF Hit, Relinked
<1>8. lru' \in Seq(Rec) /\ Once(lru') /\ ToSet(lru') = ToSet(lru) /\ Len(lru') = Len(lru)
  BY <1>1, <1>7, RelinkedList DEF CacheIInv
<1>9. CacheCore(table, L, rec, query) /\ Nil \notin Rec
  BY DEF CacheIInv, CacheBounds
<1>10. d.live = rec[x].live /\ d.key = rec[x].key /\ d.content = rec[x].content /\ d.ver = rec[x].ver
       /\ d.expires = E /\ d.refs = n
  OBVIOUS
<1>11. n = (IF used THEN rec[x].refs + 1 ELSE rec[x].refs)
  OBVIOUS
<1>12. query' = qs2
  BY DEF Becomes
<1>13. qs2[r] = q /\ \A s \in Query : s # r => qs2[s] = query[s]
  BY <1>2
<1>14. m2[x] = d /\ \A y \in Rec : y # x => m2[y] = rec[y]
  BY <1>1, <1>2
<1> HIDE DEF d, E, n, L
<1>15. CacheCore(table, L, m2, qs2)
  <2>1. CASE used
    <3>1. d.refs = rec[x].refs + 1
      BY <1>10, <1>11, <2>1
    <3>2. q.key \in Key /\ q.key = rec[x].key /\ q.rec = x /\ q.pc = "sending"
      BY <1>1, <2>1
    <3> QED
      BY <1>1, <1>6, <1>9, <1>10, <3>1, <3>2, CoreUses
  <2>2. CASE ~used
    <3>1. d.refs = rec[x].refs
      BY <1>10, <1>11, <2>2
    <3>2. CacheCore(table, L, m2, query)
      BY <1>1, <1>6, <1>9, <1>10, <3>1, CoreTouches
    <3>3. q.rec = Nil /\ q.pc # "insert" /\ q.pc = "idle"
      BY <2>2
    <3> HIDE DEF m2
    <3> QED
      BY <3>2, <3>3, CoreMoves
  <2> QED
    BY <2>1, <2>2
<1> HIDE DEF m2, qs2
<1>16. Limited(lru', m2)
  <2>1. Limited(lru, rec)
    BY DEF CacheIInv
  <2>2. \A y \in Rec : rec[y].refs > 0 => m2[y].refs > 0
    <3>1. rec[x].refs > 0 => n > 0
      <4>1. rec[x].refs \in Nat
        BY <1>3 DEF Records
      <4> QED
        BY <1>11, <4>1
    <3> QED
      BY <1>10, <1>14, <3>1
  <2>3. ToSet(lru) \subseteq Rec
    BY CacheTypes
  <2> QED
    BY <1>8, <2>1, <2>2, <2>3 DEF Limited
<1>17. Contents(m2, born, moment)
  <2>1. Holding(d, born, moment)
    BY <1>1, <1>4, <1>10 DEF Holding
  <2>2. Contents(rec, born, moment)
    BY DEF CacheIInv
  <2> QED
    BY <1>14, <2>1, <2>2 DEF Contents
<1>18. Stated(m2, qs2, born, moment)
  <2>1. \A y \in Rec : m2[y].content = rec[y].content
    BY <1>10, <1>14
  <2>2. \A s \in Query : query[s].rec \in Rec \cup {Nil}
    BY <1>2 DEF Queries
  <2>3. \A s \in Query : s # r /\ query[s].pc = "sending" /\ query[s].rec # Nil =>
          m2[query[s].rec].content = rec[query[s].rec].content
    BY <2>1, <2>2
  <2>4. q.rec \in Rec \cup {Nil}
    BY DEF Queries
  <2>5. Knowing(qs2[r], m2, born, moment)
    BY <1>13, <2>1, <2>4 DEF Knowing
  <2>6. Stated(rec, query, born, moment)
    BY DEF CacheIInv
  <2> QED
    BY <1>9, <1>13, <2>3, <2>5, <2>6, StatedKept
<1>19. CacheCore(table', ToSet(lru'), rec', query')
  BY <1>5, <1>7, <1>8, <1>12, <1>15 DEF L
<1>20. Dated(born, moment)
  BY DEF CacheIInv
<1> QED
  BY <1>5, <1>8, <1>12, <1>16, <1>17, <1>18, <1>19, <1>20 DEF CacheIInv

\* A fresh request for a key.
LEMMA FreshRequest ==
  ASSUME CacheBounds, CacheIInv, NEW k \in Key, NEW since \in 0..MaxVersions
  PROVE  /\ NoQuery \in Queries
         /\ NoQuery.rec = Nil /\ NoQuery.pc = "idle" /\ ~NoQuery.mem
         /\ Knowing(NoQuery, rec, born, moment)
<1>1. moment \in 0..MaxMoment /\ {MaxMoment, MaxVersions} \subseteq Nat
  BY CacheTypes DEF CacheBounds
<1> QED
  BY <1>1 DEF NoQuery, Queries, Knowing

\* A request comes: the cache is tried, and what it finds is used or only compared.
LEMMA TryCacheStep ==
  ASSUME CacheBounds, CacheIInv, NEW r \in Query, TryCache(r)
  PROVE  CacheIInv'
<1>1. query[r].pc = "idle" /\ query[r].rec = Nil /\ UNCHANGED <<born, moment>>
  BY CacheTypes DEF TryCache
<1> PICK k \in Key, since \in 0..MaxVersions :
       LET x == table[k]
           q == [NoQuery EXCEPT !.key = k, !.t = moment, !.since = since]
       IN /\ since <= Version(k)
          /\ \/ /\ x # Nil
                /\ IF since # 0 /\ rec[x].ver <= since
                   THEN Hit(x, moment, 0, FALSE) /\ Becomes(r, NoQuery)
                   ELSE /\ Hit(x, moment, 0, TRUE)
                        /\ Becomes(r, [q EXCEPT !.pc = "sending", !.len = rec[x].ver, !.rec = x,
                                             !.mem = TRUE])
             \/ /\ x # Nil => moment > rec[x].expires
                /\ Becomes(r, [q EXCEPT !.pc = "select"])
                /\ UNCHANGED <<rec, table, lru>>
  BY DEF TryCache
<1> DEFINE x == table[k]
           q == [NoQuery EXCEPT !.key = k, !.t = moment, !.since = since]
<1>2. moment \in 0..MaxMoment /\ {MaxMoment, MaxVersions} \subseteq Nat
  BY CacheTypes DEF CacheBounds
<1>4. /\ NoQuery \in Queries
      /\ NoQuery.rec = Nil /\ NoQuery.pc = "idle" /\ ~NoQuery.mem
      /\ Knowing(NoQuery, rec, born, moment)
  BY FreshRequest
<1>8. q = [NoQuery EXCEPT !.key = k, !.t = moment, !.since = since]
  OBVIOUS
<1> HIDE DEF q
<1>3. q \in Queries /\ q.rec = Nil /\ q.key = k /\ q.t = moment /\ ~q.mem
  BY <1>2, <1>4, <1>8 DEF Queries
<1>5. CASE x # Nil /\ (since # 0 /\ rec[x].ver <= since) /\ Hit(x, moment, 0, FALSE) /\ Becomes(r, NoQuery)
  <2>1. x \in Rec /\ Holding(rec[x], born, moment)
    BY <1>5, FoundLives
  <2>2. ~Revalidated(x, 0)
    <3>1. rec[x].ver \in Nat
      BY <2>1, CacheTypes DEF Records
    <3> QED
      BY <2>1, <3>1 DEF Revalidated, Holding
  <2> HIDE DEF x
  <2>3. x = table[k]
    BY DEF x
  <2>4. moment <= moment /\ 0 \in {0} /\ FALSE \in BOOLEAN
    BY <1>2
  <2> QED
    BY <1>1, <1>2, <1>4, <1>5, <2>2, <2>3, <2>4, HitStep
<1>6. CASE x # Nil /\ Hit(x, moment, 0, TRUE)
           /\ Becomes(r, [q EXCEPT !.pc = "sending", !.len = rec[x].ver, !.rec = x, !.mem = TRUE])
  <2> DEFINE p == [q EXCEPT !.pc = "sending", !.len = rec[x].ver, !.rec = x, !.mem = TRUE]
  <2>1. x \in Rec /\ Holding(rec[x], born, moment) /\ rec[x].key = k
    BY <1>6, FoundLives
  <2>2. rec[x] \in Records
    BY <2>1, CacheTypes
  <2>3. ~Revalidated(x, 0)
    <3>1. rec[x].ver \in Nat
      BY <2>2 DEF Records
    <3> QED
      BY <2>1, <3>1 DEF Revalidated, Holding
  <2>4. moment <= rec[x].expires
    BY <1>6, <2>3 DEF Hit, Expires
  <2>5. Since(born[k], rec[x].content, moment - Cached)
    <3>1. Since(born[k], rec[x].content, rec[x].expires - Cached)
      BY <2>1 DEF Holding
    <3>2. rec[x].expires \in Int /\ Cached \in Int /\ moment \in Int /\ rec[x].content \in Nat
      BY <1>2, <2>2 DEF Records, CacheBounds
    <3>3. CASE Len(born[k]) > rec[x].content
      <4> DEFINE i == rec[x].content + 1
      <4>1. born[k] \in Seq(0..MaxMoment)
        BY CacheTypes
      <4>6. Len(born[k]) \in Nat
        BY <4>1
      <4>2. i \in 1..Len(born[k])
        <5> DEFINE u == rec[x].content
                   n == Len(born[k])
        <5>1. u \in Nat /\ n \in Nat /\ n > u
          BY <3>2, <3>3, <4>6
        <5> HIDE DEF u, n
        <5>2. u + 1 \in 1..n
          BY <5>1
        <5> QED
          BY <5>2 DEF u, n
      <4>3. born[k][i] \in Int
        <5> HIDE DEF i
        <5>1. born[k][i] \in 0..MaxMoment
          BY <4>1, <4>2
        <5> QED
          BY <1>2, <5>1
      <4>4. born[k][i] >= rec[x].expires - Cached
        BY <3>1, <3>3 DEF Since
      <4> HIDE DEF i
      <4>5. born[k][i] >= moment - Cached
        BY <2>4, <3>2, <4>3, <4>4
      <4> QED
        BY <3>1, <4>5 DEF Since, i
    <3>4. CASE ~(Len(born[k]) > rec[x].content)
      BY <3>1, <3>4 DEF Since
    <3> QED
      BY <3>3, <3>4
  <2>7. rec[x].ver \in 0..MaxVersions
    BY <2>2 DEF Records
  <2>6. p = [q EXCEPT !.pc = "sending", !.len = rec[x].ver, !.rec = x, !.mem = TRUE]
    OBVIOUS
  <2>10. Becomes(r, p) /\ Hit(x, moment, 0, TRUE) /\ x # Nil
    BY <1>6
  <2> HIDE DEF p, x
  <2>8. p \in Queries
    BY <1>3, <2>1, <2>6, <2>7 DEF Queries
  <2>9. p.pc = "sending" /\ p.rec = x /\ p.key = k /\ p.t = moment /\ p.mem = TRUE
    BY <1>3, <2>6 DEF Queries
  <2>11. Knowing(p, rec, born, moment)
    <3>1. x # Nil
      BY <1>6
    <3> QED
      BY <1>2, <2>5, <2>9, <3>1 DEF Knowing
  <2>12. x = table[k] /\ moment <= moment /\ TRUE \in BOOLEAN
    BY <1>2 DEF x
  <2> QED
    BY <1>1, <1>2, <2>3, <2>8, <2>9, <2>10, <2>11, <2>12, HitStep
<1>7. CASE Becomes(r, [q EXCEPT !.pc = "select"]) /\ UNCHANGED <<rec, table, lru>>
  <2> DEFINE p == [q EXCEPT !.pc = "select"]
  <2>1. p = [q EXCEPT !.pc = "select"]
    OBVIOUS
  <2>4. Becomes(r, p) /\ UNCHANGED <<born, moment, rec, table, lru>>
    BY <1>1, <1>7
  <2> HIDE DEF p
  <2>2. p \in Queries
    BY <1>3, <2>1 DEF Queries
  <2>3. p.pc = "select" /\ p.rec = Nil /\ p.key = k /\ p.t = moment /\ ~p.mem
    BY <1>3, <2>1 DEF Queries
  <2>5. Knowing(p, rec, born, moment)
    BY <1>2, <2>3 DEF Knowing
  <2>6. p.pc # "insert" /\ p.key \in Key
    BY <2>3
  <2> QED
    BY <1>1, <2>2, <2>3, <2>4, <2>5, <2>6, GoesOn
<1> QED
  BY <1>5, <1>6, <1>7 DEF q

\* The file is looked at: the request is over, or goes on with what stat() said.
LEMMA SelectStep ==
  ASSUME CacheBounds, CacheIInv, NEW r \in Query, Select(r)
  PROVE  CacheIInv'
<1> DEFINE a == query[r]
           v == Version(a.key)
           w == IF Len(lru) < MaxItems + Slack THEN "try" ELSE "sending"
           b == [a EXCEPT !.mtime = v, !.len = v]
           p == [b EXCEPT !.pc = w]
<1>1. a.pc = "select" /\ a.rec = Nil /\ a.key \in Key /\ a \in Queries
  BY CacheTypes DEF Select
<1>2. UNCHANGED <<born, moment, rec, table, lru>>
  BY DEF Select
<1>3. Becomes(r, NoQuery) \/ Becomes(r, p)
  BY DEF Select
<1>4. v = Len(born[a.key]) /\ v \in 1..MaxVersions /\ MaxVersions \in Nat
  BY <1>1, CacheTypes DEF Version, CacheBounds
<1>5. CASE Becomes(r, NoQuery)
  <2>1. /\ NoQuery \in Queries
        /\ NoQuery.rec = Nil /\ NoQuery.pc = "idle"
        /\ Knowing(NoQuery, rec, born, moment)
    <3>1. 0 \in 0..MaxVersions
      BY <1>4
    <3> QED
      BY <1>1, <3>1, FreshRequest
  <2>2. NoQuery.pc # "insert"
    BY <2>1
  <2> QED
    BY <1>1, <1>2, <1>5, <2>1, <2>2, GoesOn
<1>6. CASE Becomes(r, p)
  <2>1. Knowing(a, rec, born, moment)
    BY DEF CacheIInv, Stated
  <2>2. a.t <= moment /\ ~a.mem
    <3>1. a.mem \in BOOLEAN
      BY <1>1 DEF Queries
    <3> QED
      BY <1>1, <2>1, <3>1 DEF Knowing
  <2>3. b = [a EXCEPT !.mtime = v, !.len = v]
    OBVIOUS
  <2>7. w \in {"try", "sending"}
    BY DEF w
  <2>5. p = [b EXCEPT !.pc = w]
    OBVIOUS
  <2> HIDE DEF a, b, p, v, w
  <2>6. /\ b \in Queries
        /\ b.key = a.key /\ b.t = a.t /\ b.mtime = v /\ b.rec = a.rec /\ ~b.mem
    <3>1. v \in 0..MaxVersions
      BY <1>4
    <3>2. a \in Queries /\ a.pc = "select"
      BY <1>1
    <3> QED
      BY <2>2, <2>3, <3>1, <3>2 DEF Queries
  <2>9. p \in Queries
    BY <2>5, <2>6, <2>7 DEF Queries
  <2>8. p.pc = w /\ p.key = a.key /\ p.t = a.t /\ p.mtime = v /\ p.rec = a.rec /\ ~p.mem
    BY <2>5, <2>6 DEF Queries
  <2>10. Since(born[p.key], p.mtime, p.t) /\ p.mtime > 0
    BY <1>4, <2>8 DEF Since
  <2>11. Knowing(p, rec, born, moment)
    BY <2>2, <2>8, <2>10 DEF Knowing
  <2>12. p.rec = Nil /\ p.pc # "insert" /\ p.key \in Key
    BY <1>1, <2>7, <2>8
  <2>13. query[r].rec = Nil
    BY <1>1 DEF a
  <2> QED
    BY <1>2, <1>6, <2>9, <2>11, <2>12, <2>13, GoesOn
<1> QED
  BY <1>3, <1>5, <1>6

\* The record of a key leaves the list, and is free if nobody uses it.
LEMMA CoreDropsOne ==
  ASSUME CacheBounds, NEW tb, NEW L, NEW m, NEW qs, CacheCore(tb, L, m, qs),
         NEW k \in Key, NEW x, x = tb[k], x # Nil,
         NEW tb2, tb2 = [tb EXCEPT ![k] = Nil],
         NEW m2, m2 = IF m[x].refs = 0 THEN [m EXCEPT ![x] = Free] ELSE m
  PROVE  CacheCore(tb2, L \ {x}, m2, qs)
<1> DEFINE gone == {x}
<1>1. /\ m \in [Rec -> Records] /\ tb \in [Key -> Rec \cup {Nil}]
      /\ x \in Rec /\ x \in L /\ m[x].key = k
  BY DEF CacheCore, CacheTyped, InTable
<1>2. Free \in Records
  BY DEF CacheBounds, Free, Records
<1>3. tb2 \in [Key -> Rec \cup {Nil}] /\ m2 \in [Rec -> Records]
  BY <1>1, <1>2
<1>4. \A j \in Key : tb2[j] = IF tb[j] \in gone THEN Nil ELSE tb[j]
  <2> TAKE j \in Key
  <2>1. CASE j = k
    BY <1>1, <2>1
  <2>2. CASE j # k
    <3>1. tb[j] # x
      BY <1>1, <2>2 DEF CacheCore, InTable
    <3> QED
      BY <1>1, <2>2, <3>1
  <2> QED
    BY <2>1, <2>2
<1>5. \A y \in Rec : m2[y] = IF y \in gone /\ m[y].refs = 0 THEN Free ELSE m[y]
  BY <1>1
<1>6. gone \in SUBSET L
  BY <1>1
<1> HIDE DEF gone
<1>7. CacheCore(tb2, L \ gone, m2, qs)
  BY <1>3, <1>4, <1>5, <1>6, CoreDrops
<1> QED
  BY <1>7 DEF gone

\* What is too old leaves the list, and r goes on to read the file.
LEMMA DropStep ==
  ASSUME CacheBounds, CacheIInv, NEW r \in Query, query[r].rec = Nil,
         NEW k \in Key, NEW x, x = table[k], x # Nil, Drop(k, x),
         NEW q \in Queries, Becomes(r, q), q.rec = Nil, q.pc # "insert", q.key \in Key,
         Knowing(q, rec, born, moment), UNCHANGED <<born, moment>>
  PROVE  CacheIInv'
<1> DEFINE L == ToSet(lru)
           gone == {x}
           qs2 == [query EXCEPT ![r] = q]
<1>1. x \in Rec /\ x \in L /\ rec[x].live /\ rec[x].key = k
  BY FoundLives
<1>2. /\ rec \in [Rec -> Records] /\ query \in [Query -> Queries]
      /\ table \in [Key -> Rec \cup {Nil}] /\ L \subseteq Rec /\ Nil \notin Rec
  BY CacheTypes DEF CacheBounds
<1>3. CacheCore(table, L, rec, query)
  BY DEF CacheIInv
<1>5. /\ table' = [table EXCEPT ![k] = Nil]
      /\ lru' = Without(lru, x)
      /\ rec' = IF rec[x].refs = 0 THEN [rec EXCEPT ![x] = Free] ELSE rec
  BY DEF Drop, MayFree
<1>8. \A y \in Rec : rec'[y] = IF y \in gone /\ rec[y].refs = 0 THEN Free ELSE rec[y]
  BY <1>1, <1>2, <1>5
<1>9. CacheCore(table', L \ gone, rec', query)
  <2>1. x = table[k] /\ x # Nil
    OBVIOUS
  <2> HIDE DEF L
  <2> QED
    BY <1>3, <1>5, <2>1, CoreDropsOne
<1>10. query' = qs2 /\ qs2[r] = q /\ \A s \in Query : s # r => qs2[s] = query[s]
  BY <1>2 DEF Becomes
<1> HIDE DEF qs2
<1>11. CacheCore(table', L \ gone, rec', qs2)
  <2> DEFINE tb2 == table'
             m2 == rec'
             L2 == L \ gone
  <2>1. CacheCore(tb2, L2, m2, query)
    BY <1>9
  <2> HIDE DEF tb2, m2, L2
  <2>2. CacheCore(tb2, L2, m2, [query EXCEPT ![r] = q])
    BY <2>1, CoreMoves
  <2> QED
    BY <2>2 DEF tb2, m2, L2, qs2
<1>12. lru' \in Seq(Rec) /\ Once(lru') /\ ToSet(lru') = L \ gone /\ Len(lru') <= Len(lru)
  <2>1. lru \in Seq(Rec) /\ Once(lru)
    BY DEF CacheIInv
  <2>2. Len(Without(lru, x)) <= Len(lru)
    <3>1. Len(Selected(lru, Rec \ {x})) = Cardinality(Places(lru, Rec \ {x}))
      BY <2>1, SelectedSeq
    <3>2. Cardinality(Places(lru, Rec \ {x})) <= Len(lru)
      BY <2>1, PlacesFinite
    <3> QED
      BY <3>1, <3>2 DEF Without
  <2> QED
    BY <1>5, <2>1, <2>2, WithoutList
<1>13. Limited(lru', rec')
  <2>1. Limited(lru, rec)
    BY DEF CacheIInv
  <2>2. \A y \in ToSet(lru') : y \in Rec /\ y \in L /\ rec'[y] = rec[y]
    BY <1>2, <1>8, <1>12
  <2>3. Len(lru') > MaxItems => Len(lru) > MaxItems
    <3>1. lru \in Seq(Rec) /\ MaxItems \in Nat
      BY DEF CacheIInv, CacheBounds
    <3>2. Len(lru) \in Nat /\ Len(lru') \in Nat
      BY <1>12, <3>1
    <3> QED
      BY <1>12, <3>1, <3>2
  <2> QED
    BY <2>1, <2>2, <2>3 DEF Limited
<1>14. Contents(rec', born, moment)
  <2>1. \A y \in Rec : rec'[y].live => rec'[y] = rec[y]
    BY <1>8 DEF Free
  <2>2. Contents(rec, born, moment)
    BY DEF CacheIInv
  <2> QED
    BY <2>1, <2>2 DEF Contents
<1>15. Stated(rec', qs2, born, moment)
  <2> DEFINE m2 == rec'
  <2>1. \A s \in Query : s # r /\ query[s].pc = "sending" /\ query[s].rec # Nil =>
          m2[query[s].rec].content = rec[query[s].rec].content
    BY <1>3, <1>8, SendersLive
  <2>2. Knowing(qs2[r], m2, born, moment)
    <3>1. ~q.mem
      <4>1. q.mem \in BOOLEAN
        BY DEF Queries
      <4> QED
        BY <4>1 DEF Knowing
    <3> QED
      BY <1>10, <3>1 DEF Knowing
  <2>3. Stated(rec, query, born, moment)
    BY DEF CacheIInv
  <2> HIDE DEF m2, L
  <2>4. Stated(m2, qs2, born, moment)
    BY <1>3, <1>10, <2>1, <2>2, <2>3, StatedKept
  <2> QED
    BY <2>4 DEF m2
<1>16. Dated(born, moment)
  BY DEF CacheIInv
<1> QED
  BY <1>10, <1>11, <1>12, <1>13, <1>14, <1>15, <1>16 DEF CacheIInv

\* The cache is tried again, for what stat() said.
LEMMA StoreTryStep ==
  ASSUME CacheBounds, CacheIInv, NEW r \in Query, StoreTry(r)
  PROVE  CacheIInv'
<1> DEFINE a == query[r]
           k == a.key
           x == table[k]
           t == a.t
           hit == [a EXCEPT !.pc = "sending", !.len = rec[x].ver, !.rec = x]
           miss == [a EXCEPT !.pc = "read"]
<1>1. a.pc = "try" /\ a.rec = Nil /\ k \in Key /\ a \in Queries
  BY CacheTypes DEF StoreTry
<1>2. UNCHANGED <<born, moment>>
  BY DEF StoreTry
<1>3. \/ x # Nil /\ Hit(x, t, a.mtime, TRUE) /\ Becomes(r, hit)
      \/ x # Nil /\ Drop(k, x) /\ Becomes(r, miss)
      \/ Becomes(r, miss) /\ UNCHANGED <<rec, table, lru>>
  BY DEF StoreTry
<1>4. Knowing(a, rec, born, moment)
  BY DEF CacheIInv, Stated
<1>5. a.t <= moment /\ ~a.mem /\ a.mtime > 0 /\ Since(born[k], a.mtime, t)
  <2>1. a.mem \in BOOLEAN
    BY <1>1 DEF Queries
  <2> QED
    BY <1>1, <1>4, <2>1 DEF Knowing
<1>6. miss = [a EXCEPT !.pc = "read"] /\ hit = [a EXCEPT !.pc = "sending", !.len = rec[x].ver, !.rec = x]
  OBVIOUS
<1>7. x \in Rec \cup {Nil} /\ query[r].rec = Nil /\ x = table[k] /\ t = a.t
  BY <1>1, CacheTypes
<1> HIDE DEF miss, hit, x, a
<1>8. /\ miss \in Queries
      /\ miss.pc = "read" /\ miss.rec = Nil /\ miss.key = k
      /\ miss.t = t /\ miss.mtime = a.mtime /\ ~miss.mem
  BY <1>1, <1>5, <1>6 DEF Queries
<1>9. Knowing(miss, rec, born, moment)
  BY <1>5, <1>8 DEF Knowing
<1>10. miss.pc # "insert" /\ miss.key \in Key
  BY <1>1, <1>8
<1>11. CASE x # Nil /\ Hit(x, t, a.mtime, TRUE) /\ Becomes(r, hit)
  <2>1. x \in Rec /\ Holding(rec[x], born, moment) /\ rec[x].key = k
    BY <1>1, <1>7, <1>11, FoundLives
  <2>2. rec[x] \in Records
    BY <2>1, CacheTypes
  <2>3. rec[x].ver \in 0..MaxVersions /\ rec[x].content \in Nat
    BY <2>2 DEF Records, CacheBounds
  <2>4. hit \in Queries
    BY <1>1, <1>6, <2>1, <2>3 DEF Queries
  <2>5. hit.pc = "sending" /\ hit.rec = x /\ hit.key = k /\ hit.t = t /\ ~hit.mem
    BY <1>1, <1>5, <1>6 DEF Queries
  <2>6. Knowing(hit, rec, born, moment)
    BY <1>5, <2>5 DEF Knowing
  <2>7. t \in 0..MaxMoment /\ a.mtime \in Nat
    BY <1>1 DEF Queries, CacheBounds
  <2>8. Revalidated(x, a.mtime) => Since(born[k], rec[x].content, t)
    <3> SUFFICES ASSUME Revalidated(x, a.mtime) PROVE Since(born[k], rec[x].content, t)
      OBVIOUS
    <3>1. a.mtime <= rec[x].content
      BY <2>1 DEF Revalidated, Holding
    <3>2. rec[x].content <= Len(born[k])
      BY <2>1 DEF Holding, Since
    <3>3. Dated(born, moment)
      BY DEF CacheIInv
    <3>4. t \in Int
      BY <2>7
    <3> HIDE DEF k, t
    <3> QED
      BY <1>1, <1>5, <2>3, <2>7, <3>1, <3>2, <3>3, <3>4, SinceLater
  <2>9. t <= moment /\ TRUE \in BOOLEAN
    BY <1>5
  <2> HIDE DEF k, t
  <2> QED
    BY <1>1, <1>2, <1>7, <1>11, <2>4, <2>5, <2>6, <2>7, <2>8, <2>9, HitStep
<1>12. CASE x # Nil /\ Drop(k, x) /\ Becomes(r, miss)
  <2> HIDE DEF k, t
  <2> QED
    BY <1>1, <1>2, <1>7, <1>8, <1>9, <1>10, <1>12, DropStep
<1>13. CASE Becomes(r, miss) /\ UNCHANGED <<rec, table, lru>>
  <2>1. UNCHANGED <<born, moment, rec, table, lru>>
    BY <1>2, <1>13
  <2> HIDE DEF k, t
  <2> QED
    BY <1>7, <1>8, <1>9, <1>10, <1>13, <2>1, GoesOn
<1> QED
  BY <1>3, <1>11, <1>12, <1>13

\* The file is read into a record that was free.
LEMMA StoreReadStep ==
  ASSUME CacheBounds, CacheIInv, NEW r \in Query, StoreRead(r)
  PROVE  CacheIInv'
<1> DEFINE a == query[r]
           k == a.key
           unused == {y \in Rec : ~rec[y].live}
           x == CHOOSE y \in unused : TRUE
           d == [live |-> TRUE, key |-> k, ver |-> a.mtime, content |-> Version(k),
                 expires |-> ExpiresAt(a.t), refs |-> 0]
           q == [a EXCEPT !.pc = "insert", !.rec = x]
           p == [a EXCEPT !.pc = "sending"]
           L == ToSet(lru)
<1>1. a.pc = "read" /\ a.rec = Nil /\ k \in Key /\ a \in Queries
  BY CacheTypes DEF StoreRead
<1>2. UNCHANGED <<born, moment, table, lru>>
  BY DEF StoreRead
<1>3. \/ unused # {} /\ rec' = [rec EXCEPT ![x] = d] /\ Becomes(r, q)
      \/ Becomes(r, p) /\ UNCHANGED rec
  BY DEF StoreRead
<1>4. Knowing(a, rec, born, moment)
  BY DEF CacheIInv, Stated
<1>5. a.t <= moment /\ ~a.mem /\ a.mtime > 0 /\ Since(born[k], a.mtime, a.t)
  <2>1. a.mem \in BOOLEAN
    BY <1>1 DEF Queries
  <2> QED
    BY <1>1, <1>4, <2>1 DEF Knowing
<1>6. /\ rec \in [Rec -> Records] /\ query \in [Query -> Queries]
      /\ Version(k) \in 1..MaxVersions /\ Version(k) = Len(born[k])
      /\ moment \in 0..MaxMoment /\ Cached \in Nat /\ MaxMoment \in Nat /\ MaxVersions \in Nat
      /\ Nil \notin Rec
  BY <1>1, CacheTypes DEF Version, CacheBounds
<1>7. p = [a EXCEPT !.pc = "sending"] /\ q = [a EXCEPT !.pc = "insert", !.rec = x] /\ query[r].rec = Nil
  BY <1>1
<1>8. a.t \in 0..MaxMoment /\ a.mtime \in 0..MaxVersions
  BY <1>1 DEF Queries
<1> HIDE DEF x, q, p, a
<1>9. CASE unused # {} /\ rec' = [rec EXCEPT ![x] = d] /\ Becomes(r, q)
  <2>1. x \in Rec /\ ~rec[x].live
    BY <1>9 DEF x
  <2>2. q \in Queries
    BY <1>1, <1>7, <2>1 DEF Queries
  <2>3. /\ q.rec = x /\ q.pc = "insert" /\ q.key = k /\ q.t = a.t /\ q.mtime = a.mtime
        /\ ~q.mem
    BY <1>1, <1>5, <1>7 DEF Queries
  <2>4. d \in Records
    <3>1. ExpiresAt(a.t) \in 0..MaxMoment + Cached
      BY <1>6, <1>8 DEF ExpiresAt
    <3>2. Version(k) \in 0..MaxVersions
      BY <1>6
    <3> QED
      BY <1>1, <1>8, <3>1, <3>2 DEF Records
  <2>5. /\ d.live /\ d.key = k /\ d.ver = a.mtime /\ d.content = Version(k)
        /\ d.expires = ExpiresAt(a.t) /\ d.refs = 0
    OBVIOUS
  <2> HIDE DEF d, k, L
  <2>6. CacheCore(table, L, rec, query)
    BY DEF CacheIInv, L
  <2> DEFINE qs2 == [query EXCEPT ![r] = q]
             m2 == [rec EXCEPT ![x] = d]
  <2>7. CacheCore(table, L, m2, qs2)
    <3>1. q.key \in Key /\ d.key = q.key
      BY <1>1, <2>3, <2>5
    <3> QED
      BY <1>7, <2>1, <2>2, <2>3, <2>4, <2>5, <2>6, <3>1, CoreFills
  <2>8. rec' = m2 /\ query' = qs2
    BY <1>9 DEF Becomes
  <2>9. qs2[r] = q /\ \A s \in Query : s # r => qs2[s] = query[s]
    BY <1>6
  <2>10. m2[x] = d /\ \A y \in Rec : y # x => m2[y] = rec[y]
    BY <1>6, <2>1
  <2> HIDE DEF qs2, m2
  <2>11. Limited(lru, m2)
    <3>1. x \notin L /\ L \subseteq Rec
      BY <2>1, <2>6 DEF CacheCore, CacheTyped, LivesWhile
    <3>2. Limited(lru, rec)
      BY DEF CacheIInv
    <3> QED
      BY <2>10, <3>1, <3>2 DEF Limited, L
  <2>12. Contents(m2, born, moment)
    <3>1. Holding(d, born, moment)
      <4>1. a.mtime <= Version(k)
        BY <1>5, <1>6 DEF Since
      <4>2. ExpiresAt(a.t) <= moment + Cached
        BY <1>5, <1>6, <1>8 DEF ExpiresAt
      <4>3. Since(born[d.key], d.content, d.expires - Cached)
        BY <1>6, <2>5 DEF Since
      <4>4. 1 <= a.mtime
        BY <1>5, <1>8
      <4> QED
        BY <1>1, <2>5, <4>1, <4>2, <4>3, <4>4 DEF Holding
    <3>2. Contents(rec, born, moment)
      BY DEF CacheIInv
    <3> QED
      BY <2>10, <3>1, <3>2 DEF Contents
  <2>13. Stated(m2, qs2, born, moment)
    <3>1. \A s \in Query : s # r /\ query[s].pc = "sending" /\ query[s].rec # Nil =>
            m2[query[s].rec].content = rec[query[s].rec].content
      BY <2>1, <2>6, <2>10, SendersLive
    <3>2. Knowing(qs2[r], m2, born, moment)
      BY <1>5, <2>3, <2>9 DEF Knowing
    <3>3. Stated(rec, query, born, moment)
      BY DEF CacheIInv
    <3> QED
      BY <2>6, <2>9, <3>1, <3>2, <3>3, StatedKept
  <2> QED
    BY <1>2, <2>7, <2>8, <2>11, <2>12, <2>13 DEF CacheIInv, L
<1>10. CASE Becomes(r, p) /\ UNCHANGED rec
  <2>1. p \in Queries
    BY <1>1, <1>7 DEF Queries
  <2>2. p.rec = Nil /\ p.pc = "sending" /\ p.key = k /\ p.t = a.t /\ ~p.mem
    BY <1>1, <1>5, <1>7 DEF Queries
  <2>3. Knowing(p, rec, born, moment)
    BY <1>5, <2>2 DEF Knowing
  <2>4. p.pc # "insert" /\ p.key \in Key /\ UNCHANGED <<born, moment, rec, table, lru>>
    BY <1>1, <1>2, <1>10, <2>2
  <2> QED
    BY <1>7, <1>10, <2>1, <2>2, <2>3, <2>4, GoesOn
<1> QED
  BY <1>3, <1>9, <1>10

\* The record is entered, or freed for the one that another thread has entered.
LEMMA StoreInsertStep ==
  ASSUME CacheBounds, CacheIInv, NEW r \in Query, StoreInsert(r)
  PROVE  CacheIInv'
<1> DEFINE a == query[r]
           k == a.key
           x == a.rec
           other == table[k]
           L == ToSet(lru)
           q == [a EXCEPT !.pc = "sending"]
           p == [a EXCEPT !.pc = "sending", !.rec = other, !.len = rec[other].ver]
<1>1. /\ rec \in [Rec -> Records] /\ query \in [Query -> Queries] /\ Nil \notin Rec
      /\ table \in [Key -> Rec \cup {Nil}]
  BY CacheTypes DEF CacheBounds
<1>2. CacheCore(table, L, rec, query)
  BY DEF CacheIInv
<1>3. /\ a.pc = "insert" /\ k \in Key /\ a \in Queries /\ x \in Rec /\ x \notin L
      /\ rec[x].key = k
  <2>1. a.pc = "insert"
    BY DEF StoreInsert
  <2>2. k \in Key /\ a \in Queries
    BY <2>1, CacheTypes
  <2>3. x # Nil /\ x \notin L /\ rec[x].key = k
    BY <1>2, <2>1 DEF CacheCore, HoldsRecord
  <2>4. x \in Rec
    BY <2>2, <2>3 DEF Queries
  <2> QED
    BY <2>1, <2>2, <2>3, <2>4
<1>4. rec[x].live /\ Holding(rec[x], born, moment)
  <2>1. FillingOf(query, x)
    BY <1>3 DEF FillingOf
  <2>2. rec[x].live
    BY <1>2, <1>3, <2>1 DEF CacheCore, LivesWhile
  <2> QED
    BY <1>3, <2>2 DEF CacheIInv, Contents
<1>5. UNCHANGED <<born, moment>>
  BY DEF StoreInsert
<1>6. IF other = Nil
      THEN /\ Trim([table EXCEPT ![k] = x], <<x>> \o lru, [rec EXCEPT ![x].refs = 1])
           /\ Becomes(r, q)
      ELSE /\ rec' = [rec EXCEPT ![x] = Free, ![other].refs = @ + 1]
           /\ Becomes(r, p)
           /\ UNCHANGED <<table, lru>>
  BY DEF StoreInsert
<1>7. a.t <= moment /\ ~a.mem
  <2>1. a.mem \in BOOLEAN
    BY <1>3 DEF Queries
  <2>2. Knowing(a, rec, born, moment)
    BY DEF CacheIInv, Stated
  <2> QED
    BY <1>3, <2>1, <2>2 DEF Knowing
<1>8. /\ q = [a EXCEPT !.pc = "sending"]
      /\ p = [a EXCEPT !.pc = "sending", !.rec = other, !.len = rec[other].ver]
      /\ query[r] = a
  OBVIOUS
<1>9. Contents(rec, born, moment) /\ Stated(rec, query, born, moment) /\ Dated(born, moment)
      /\ lru \in Seq(Rec) /\ Once(lru) /\ Limited(lru, rec)
  BY DEF CacheIInv
<1>10. CASE other = Nil
  <2> DEFINE d == [live |-> rec[x].live, key |-> rec[x].key, ver |-> rec[x].ver,
                   content |-> rec[x].content, expires |-> rec[x].expires, refs |-> 1]
             m == [rec EXCEPT ![x] = d]
             tb == [table EXCEPT ![k] = x]
             l == <<x>> \o lru
             qs2 == [query EXCEPT ![r] = q]
  <2>1. d \in Records
    BY <1>1, <1>3 DEF Records
  <2>2. [rec EXCEPT ![x].refs = 1] = m
    <3>1. rec[x] \in Records
      BY <1>1, <1>3
    <3>2. rec[x] = [live |-> rec[x].live, key |-> rec[x].key, ver |-> rec[x].ver,
                    content |-> rec[x].content, expires |-> rec[x].expires,
                    refs |-> rec[x].refs]
      BY <3>1 DEF Records
    <3>3. [rec[x] EXCEPT !.refs = 1] = d
      BY <3>2
    <3> QED
      BY <1>1, <3>3
  <2>3. /\ d.live = rec[x].live /\ d.key = rec[x].key /\ d.ver = rec[x].ver
        /\ d.content = rec[x].content /\ d.expires = rec[x].expires /\ d.refs = 1
    OBVIOUS
  <2>4. Trim(tb, l, m) /\ query' = qs2
    BY <1>6, <1>10, <2>2 DEF Becomes
  <2>5. m[x] = d /\ \A y \in Rec : y # x => m[y] = rec[y]
    BY <1>1, <1>3
  <2>6. qs2[r] = q /\ \A s \in Query : s # r => qs2[s] = query[s]
    BY <1>1
  <2> HIDE DEF a, q, d, L
  <2>7. q \in Queries /\ q.rec = x /\ q.pc = "sending" /\ q.key = k /\ q.t = a.t /\ ~q.mem
    BY <1>3, <1>7, <1>8 DEF Queries
  <2>8. CacheCore(tb, L \cup {x}, m, qs2)
    <3>1. query[r].pc = "insert" /\ query[r].rec = x /\ table[query[r].key] = Nil /\ query[r].key = k
      BY <1>3, <1>8, <1>10
    <3> HIDE DEF x
    <3>2. CacheCore([table EXCEPT ![query[r].key] = x], L \cup {x}, [rec EXCEPT ![x] = d],
                    [query EXCEPT ![r] = q])
      BY <1>2, <1>3, <2>1, <2>3, <2>7, <3>1, CoreEnters
    <3> QED
      BY <3>1, <3>2
  <2>9. l \in Seq(Rec) /\ Once(l) /\ ToSet(l) = L \cup {x}
    <3>1. x \in Rec /\ x \notin ToSet(lru)
      BY <1>3 DEF L
    <3> HIDE DEF x
    <3> QED
      BY <1>9, <3>1, HeadedList DEF L
  <2> HIDE DEF m, tb, l, qs2
  <2>10. CacheCore(tb, ToSet(l), m, query')
    BY <2>4, <2>8, <2>9
  <2>11. Contents(m, born, moment)
    <3>1. \A y \in Rec : m[y].live => /\ rec[y].live
              /\ m[y].key = rec[y].key /\ m[y].ver = rec[y].ver
              /\ m[y].content = rec[y].content /\ m[y].expires = rec[y].expires
      BY <2>3, <2>5
    <3> QED
      BY <1>9, <3>1, ContentsKept
  <2>12. Stated(m, query', born, moment)
    <3>1. \A y \in Rec : m[y].content = rec[y].content
      BY <2>3, <2>5
    <3>2. \A s \in Query : query[s].rec \in Rec \cup {Nil}
      BY <1>1 DEF Queries
    <3>3. \A s \in Query : s # r /\ query[s].pc = "sending" /\ query[s].rec # Nil =>
            m[query[s].rec].content = rec[query[s].rec].content
      BY <3>1, <3>2
    <3>4. Knowing(qs2[r], m, born, moment)
      BY <1>7, <2>6, <2>7 DEF Knowing
    <3>5. Stated(m, qs2, born, moment)
      BY <1>2, <1>9, <2>6, <3>3, <3>4, StatedKept
    <3> QED
      BY <2>4, <3>5
  <2> QED
    BY <1>5, <1>9, <2>4, <2>9, <2>10, <2>11, <2>12, TrimStep
<1>11. CASE other # Nil
  <2> DEFINE d == [live |-> rec[other].live, key |-> rec[other].key, ver |-> rec[other].ver,
                   content |-> rec[other].content, expires |-> rec[other].expires,
                   refs |-> rec[other].refs + 1]
             m1 == [rec EXCEPT ![x] = Free]
             m2 == [m1 EXCEPT ![other] = d]
             qs1 == [query EXCEPT ![r] = NoQuery]
             qs2 == [qs1 EXCEPT ![r] = p]
  <2>1. /\ other \in Rec /\ other \in L /\ rec[other].key = k
        /\ Holding(rec[other], born, moment)
    BY <1>3, <1>11, FoundLives
  <2>2. other # x
    BY <1>3, <2>1
  <2>3. rec[other] \in Records
    BY <1>1, <2>1
  <2>4. d \in Records
    BY <2>3 DEF Records
  <2>5. rec' = [rec EXCEPT ![x] = Free, ![other].refs = @ + 1] /\ UNCHANGED <<table, lru>>
    BY <1>6, <1>11
  <2>6. rec' = m2
    <3>1. rec[other] = [live |-> rec[other].live, key |-> rec[other].key, ver |-> rec[other].ver,
                        content |-> rec[other].content, expires |-> rec[other].expires,
                        refs |-> rec[other].refs]
      BY <2>3 DEF Records
    <3>2. [rec[other] EXCEPT !.refs = rec[other].refs + 1] = d
      BY <3>1
    <3> QED
      BY <1>1, <1>3, <2>1, <2>2, <2>5, <3>2
  <2>7. query' = qs2
    BY <1>1, <1>6, <1>11 DEF Becomes
  <2>8. /\ d.live = rec[other].live /\ d.key = rec[other].key /\ d.ver = rec[other].ver
        /\ d.content = rec[other].content /\ d.expires = rec[other].expires
        /\ d.refs = rec[other].refs + 1
    OBVIOUS
  <2>9. m1[x] = Free /\ \A y \in Rec : y # x => m1[y] = rec[y]
    BY <1>1, <1>3
  <2>10. m2[other] = d /\ m2[x] = Free /\ \A y \in Rec : y # x /\ y # other => m2[y] = rec[y]
    BY <1>1, <1>3, <2>1, <2>2
  <2>11. qs1[r] = NoQuery /\ qs2[r] = p /\ \A s \in Query : s # r => qs2[s] = query[s]
    BY <1>1
  <2>12. NoQuery \in Queries /\ NoQuery.rec = Nil /\ NoQuery.pc = "idle"
    <3>1. 0 \in 0..MaxVersions
      BY DEF CacheBounds
    <3> QED
      BY <1>3, <3>1, FreshRequest
  <2>13. rec[other].ver \in 0..MaxVersions
    BY <2>3 DEF Records
  <2> HIDE DEF a, d, L, other
  <2>14. p \in Queries /\ p.rec = other /\ p.pc = "sending" /\ p.key = k /\ p.t = a.t /\ ~p.mem
    <3> HIDE DEF p
    <3> QED
      BY <1>3, <1>7, <1>8, <2>1, <2>13 DEF Queries
  <2> HIDE DEF p, x
  <2>15. CacheCore(table, L, m1, qs1)
    <3>1. query[r].pc = "insert" /\ query[r].rec = x
      BY <1>3, <1>8 DEF x
    <3> QED
      BY <1>2, <1>3, <2>12, <3>1, CoreAbandons
  <2> HIDE DEF m1, qs1
  <2>16. CacheCore(table, L, m2, qs2)
    <3>1. qs1[r].rec = Nil
      BY <2>11, <2>12
    <3>2. m1[other] = rec[other]
      BY <2>1, <2>2, <2>9
    <3>3. p.key \in Key /\ p.key = m1[other].key
      BY <1>3, <2>1, <2>14, <3>2
    <3>4. d.live = m1[other].live /\ d.key = m1[other].key /\ d.refs = m1[other].refs + 1
      BY <2>8, <3>2
    <3> QED
      BY <2>1, <2>4, <2>14, <2>15, <3>1, <3>3, <3>4, CoreUses
  <2> HIDE DEF m2, qs2
  <2>17. Limited(lru, m2)
    <3>1. x \notin ToSet(lru) /\ ToSet(lru) \subseteq Rec
      BY <1>3, CacheTypes DEF L
    <3>2. rec[other].refs > 0 => d.refs > 0
      <4>1. rec[other].refs \in Nat
        BY <2>3 DEF Records
      <4> QED
        BY <2>8, <4>1
    <3>3. \A y \in ToSet(lru) : rec[y].refs > 0 => m2[y].refs > 0
      BY <2>10, <3>1, <3>2
    <3> QED
      BY <1>9, <3>3 DEF Limited
  <2>18. Contents(m2, born, moment)
    <3>1. ~Free.live
      BY DEF Free
    <3>2. \A y \in Rec : m2[y].live => /\ rec[y].live
              /\ m2[y].key = rec[y].key /\ m2[y].ver = rec[y].ver
              /\ m2[y].content = rec[y].content /\ m2[y].expires = rec[y].expires
      BY <2>8, <2>10, <3>1
    <3> QED
      BY <1>9, <3>2, ContentsKept
  <2>19. Stated(m2, qs2, born, moment)
    <3>1. \A s \in Query : s # r /\ query[s].pc = "sending" /\ query[s].rec # Nil =>
            m2[query[s].rec].content = rec[query[s].rec].content
      <4> SUFFICES ASSUME NEW s \in Query, s # r, query[s].pc = "sending", query[s].rec # Nil
                   PROVE m2[query[s].rec].content = rec[query[s].rec].content
        OBVIOUS
      <4>1. query[s].rec \in Rec
        BY <1>2, SendersLive
      <4>2. query[s].rec # x
        <5>1. query[r].pc = "insert" /\ query[r].rec = x
          BY <1>3, <1>8 DEF x
        <5> QED
          BY <1>2, <5>1 DEF CacheCore, HoldsRecord
      <4> QED
        BY <2>8, <2>10, <4>1, <4>2
    <3>2. Knowing(qs2[r], m2, born, moment)
      BY <1>7, <2>11, <2>14 DEF Knowing
    <3> QED
      BY <1>2, <1>9, <2>11, <3>1, <3>2, StatedKept
  <2> QED
    BY <1>5, <1>9, <2>5, <2>6, <2>7, <2>16, <2>17, <2>18, <2>19 DEF CacheIInv, L
<1> QED
  BY <1>10, <1>11

\* The answer of r ends, its record is freed or one use less, and the cache trimmed.
LEMMA EndTrimStep ==
  ASSUME CacheBounds, CacheIInv, NEW r \in Query, query[r].pc = "sending", NEW x \in Rec,
         NEW tb, NEW l \in Seq(Rec), Once(l), NEW m,
         \A y \in Rec : y # x => m[y] = rec[y],
         \/ m[x] = Free
         \/ /\ m[x].live = rec[x].live /\ m[x].key = rec[x].key /\ m[x].ver = rec[x].ver
            /\ m[x].content = rec[x].content /\ m[x].expires = rec[x].expires,
         Becomes(r, NoQuery), CacheCore(tb, ToSet(l), m, query'), Trim(tb, l, m),
         UNCHANGED <<born, moment>>
  PROVE  CacheIInv'
<1> DEFINE qs2 == query'
           L == ToSet(lru)
<1>1. query \in [Query -> Queries] /\ query[r].key \in Key
  BY CacheTypes
<1>2. qs2[r] = NoQuery /\ \A s \in Query : s # r => qs2[s] = query[s]
  BY <1>1 DEF Becomes
<1>3. Knowing(NoQuery, rec, born, moment) /\ ~NoQuery.mem
  <2>1. 0 \in 0..MaxVersions
    BY DEF CacheBounds
  <2> QED
    BY <1>1, <2>1, FreshRequest
<1>4. ~Free.live
  BY DEF Free
<1>5. Contents(m, born, moment)
  <2>1. Contents(rec, born, moment)
    BY DEF CacheIInv
  <2>2. \A y \in Rec : m[y].live => /\ rec[y].live
            /\ m[y].key = rec[y].key /\ m[y].ver = rec[y].ver
            /\ m[y].content = rec[y].content /\ m[y].expires = rec[y].expires
    BY <1>4
  <2> QED
    BY <2>1, <2>2, ContentsKept
<1> HIDE DEF qs2, L
<1>6. Stated(m, qs2, born, moment)
  <2>1. CacheCore(table, L, rec, query) /\ Stated(rec, query, born, moment)
    BY DEF CacheIInv, L
  <2>2. \A s \in Query : s # r /\ query[s].pc = "sending" /\ query[s].rec # Nil =>
          m[query[s].rec].content = rec[query[s].rec].content
    <3> SUFFICES ASSUME NEW s \in Query, s # r, query[s].pc = "sending", query[s].rec # Nil
                 PROVE m[query[s].rec].content = rec[query[s].rec].content
      OBVIOUS
    <3> DEFINE S == ToSet(l)
    <3>1. CacheCore(tb, S, m, qs2) /\ qs2[s] = query[s]
      BY <1>2 DEF qs2
    <3> HIDE DEF S
    <3>2. query[s].rec \in Rec /\ m[query[s].rec].live
      BY <3>1, SendersLive
    <3> QED
      BY <1>4, <3>2
  <2>3. Knowing(qs2[r], m, born, moment)
    BY <1>2, <1>3 DEF Knowing
  <2> QED
    BY <1>2, <2>1, <2>2, <2>3, StatedKept
<1>7. Dated(born, moment)
  BY DEF CacheIInv
<1>8. Stated(m, query', born, moment)
  BY <1>6 DEF qs2
<1> QED
  BY <1>5, <1>7, <1>8, TrimStep

\* An answer that was sent from a record ends: cache_rec_unref.
LEMMA UnrefStep ==
  ASSUME CacheBounds, CacheIInv, NEW r \in Query, query[r].pc = "sending",
         NEW x, x = query[r].rec, x # Nil, Unref(x), Becomes(r, NoQuery),
         UNCHANGED <<born, moment>>
  PROVE  CacheIInv'
<1> DEFINE L == ToSet(lru)
           k == rec[x].key
           d == [live |-> rec[x].live, key |-> rec[x].key, ver |-> rec[x].ver,
                 content |-> rec[x].content, expires |-> rec[x].expires,
                 refs |-> rec[x].refs - 1]
           m == [rec EXCEPT ![x] = d]
           m2 == [m EXCEPT ![x] = Free]
           qs2 == [query EXCEPT ![r] = NoQuery]
           tb == IF table[k] = x THEN [table EXCEPT ![k] = Nil] ELSE table
<1>1. /\ rec \in [Rec -> Records] /\ query \in [Query -> Queries] /\ Nil \notin Rec
      /\ table \in [Key -> Rec \cup {Nil}]
  BY CacheTypes DEF CacheBounds
<1>2. CacheCore(table, L, rec, query) /\ lru \in Seq(Rec) /\ Once(lru)
  BY DEF CacheIInv
<1>3. x \in Rec /\ rec[x].refs # 0 /\ k \in Key
  <2> HIDE DEF L
  <2> QED
    BY <1>2, SendersLive
<1>4. rec[x] \in Records
  BY <1>1, <1>3
<1>5. d \in Records /\ rec[x].refs \in Nat
  <2>1. rec[x].refs \in Nat
    BY <1>4 DEF Records
  <2>2. rec[x].refs - 1 \in Nat
    BY <1>3, <2>1
  <2> QED
    BY <1>4, <2>1, <2>2 DEF Records
<1>6. [rec EXCEPT ![x].refs = @ - 1] = m
  <2>1. rec[x] = [live |-> rec[x].live, key |-> rec[x].key, ver |-> rec[x].ver,
                  content |-> rec[x].content, expires |-> rec[x].expires,
                  refs |-> rec[x].refs]
    BY <1>4 DEF Records
  <2>2. [rec[x] EXCEPT !.refs = rec[x].refs - 1] = d
    BY <2>1
  <2> QED
    BY <1>1, <1>3, <2>2
<1>7. /\ d.live = rec[x].live /\ d.key = rec[x].key /\ d.ver = rec[x].ver
      /\ d.content = rec[x].content /\ d.expires = rec[x].expires
      /\ d.refs = rec[x].refs - 1
  OBVIOUS
<1>8. m[x] = d /\ \A y \in Rec : y # x => m[y] = rec[y]
  BY <1>1, <1>3
<1>9. m2[x] = Free /\ \A y \in Rec : y # x => m2[y] = rec[y]
  BY <1>1, <1>3
<1>10. m2 = [rec EXCEPT ![x] = Free]
  BY <1>1, <1>3
<1>11. IF m[x].refs = 0 /\ Ends(x, moment) THEN Trim(tb, Without(lru, x), m2)
       ELSE Trim(table, lru, m)
  BY <1>6 DEF Unref
<1>12. query' = qs2
  BY DEF Becomes
<1>13. NoQuery \in Queries /\ NoQuery.rec = Nil /\ NoQuery.pc = "idle"
  <2>1. 0 \in 0..MaxVersions
    BY DEF CacheBounds
  <2> QED
    BY <1>3, <2>1, FreshRequest
<1>14. tb = IF table[k] = x THEN [table EXCEPT ![k] = Nil] ELSE table
  OBVIOUS
<1>15. (\E j \in Key : table[j] = x) <=> x \in L
  BY <1>2, <1>3 DEF CacheCore, InTable
<1>16. table[k] = x <=> x \in L
  BY <1>1, <1>2, <1>3, <1>15 DEF CacheCore, InTable
<1> HIDE DEF d, k, L, tb
<1>17. ~(x \notin L /\ rec[x].refs = 1) => CacheCore(table, L, m, qs2)
  <2>1. query[r].rec = x /\ d \in Records
    BY <1>5
  <2>2. /\ query[r].pc = "sending"
        /\ d.refs = rec[x].refs - 1 /\ d.live = rec[x].live /\ d.key = rec[x].key
    BY <1>7
  <2> QED
    BY <1>2, <1>3, <1>13, <2>1, <2>2, CoreLeaves
<1>18. CASE m[x].refs = 0 /\ Ends(x, moment)
  <2>1. Trim(tb, Without(lru, x), m2)
    BY <1>11, <1>18
  <2>2. Without(lru, x) \in Seq(Rec) /\ Once(Without(lru, x)) /\ ToSet(Without(lru, x)) = L \ {x}
    BY <1>2, WithoutList DEF L
  <2>3. rec[x].refs = 1
    BY <1>5, <1>7, <1>8, <1>18
  <2>4. CacheCore(tb, L \ {x}, m2, qs2)
    <3>1. CASE x \in L
      <4>1. CacheCore(table, L, m, qs2)
        BY <1>17, <3>1
      <4>2. x = table[k] /\ tb = [table EXCEPT ![k] = Nil]
        BY <1>14, <1>16, <3>1
      <4>3. m2 = IF m[x].refs = 0 THEN [m EXCEPT ![x] = Free] ELSE m
        BY <1>18
      <4> HIDE DEF m, m2, qs2
      <4> QED
        BY <1>3, <4>1, <4>2, <4>3, CoreDropsOne
    <3>2. CASE x \notin L
      <4>1. tb = table /\ L \ {x} = L
        BY <1>14, <1>16, <3>2
      <4>2. Free \in Records /\ Free.refs = 0
        BY DEF CacheBounds, Free, Records
      <4>3. query[r].rec = x /\ query[r].pc = "sending" /\ Free.refs = rec[x].refs - 1
        BY <2>3, <4>2
      <4>4. CacheCore(table, L, [rec EXCEPT ![x] = Free], qs2)
        BY <1>2, <1>3, <1>13, <2>3, <3>2, <4>2, <4>3, CoreLeaves
      <4> QED
        BY <1>10, <4>1, <4>4
    <3> QED
      BY <3>1, <3>2
  <2> HIDE DEF m, m2, qs2
  <2>5. CacheCore(tb, ToSet(Without(lru, x)), m2, query')
    BY <1>12, <2>2, <2>4
  <2> DEFINE l == Without(lru, x)
  <2>6. /\ l \in Seq(Rec) /\ Once(l) /\ CacheCore(tb, ToSet(l), m2, query') /\ Trim(tb, l, m2)
        /\ UNCHANGED <<born, moment>>
    BY <2>1, <2>2, <2>5
  <2>7. (\A y \in Rec : y # x => m2[y] = rec[y]) /\ m2[x] = Free
    BY <1>9
  <2> HIDE DEF l
  <2> QED
    BY <1>3, <2>6, <2>7, EndTrimStep
<1>19. CASE ~(m[x].refs = 0 /\ Ends(x, moment))
  <2>1. Trim(table, lru, m)
    BY <1>11, <1>19
  <2>2. ~(x \notin L /\ rec[x].refs = 1)
    BY <1>7, <1>8, <1>19 DEF Ends, Linked, L
  <2>3. CacheCore(table, L, m, qs2)
    BY <1>17, <2>2
  <2>4. CacheCore(table, ToSet(lru), m, query')
    BY <1>12, <2>3 DEF L
  <2>5. \A y \in Rec : y # x => m[y] = rec[y]
    BY <1>8
  <2>6. /\ m[x].live = rec[x].live /\ m[x].key = rec[x].key /\ m[x].ver = rec[x].ver
        /\ m[x].content = rec[x].content /\ m[x].expires = rec[x].expires
    BY <1>7, <1>8
  <2> HIDE DEF m, m2, qs2
  <2> QED
    BY <1>2, <1>3, <2>1, <2>4, <2>5, <2>6, EndTrimStep
<1> QED
  BY <1>18, <1>19

\* An answer ends, whether it was sent from a record or not.
LEMMA EndQueryStep ==
  ASSUME CacheBounds, CacheIInv, NEW r \in Query, EndQuery(r)
  PROVE  CacheIInv'
<1>1. query[r].pc = "sending" /\ Becomes(r, NoQuery) /\ UNCHANGED <<born, moment>>
  BY DEF EndQuery
<1>2. query[r].key \in Key /\ 0 \in 0..MaxVersions
  BY <1>1, CacheTypes DEF CacheBounds
<1>3. CASE query[r].rec = Nil
  <2>1. UNCHANGED <<born, moment, rec, table, lru>>
    BY <1>1, <1>3 DEF EndQuery
  <2>2. NoQuery \in Queries /\ NoQuery.rec = Nil /\ NoQuery.pc = "idle"
        /\ Knowing(NoQuery, rec, born, moment)
    BY <1>2, FreshRequest
  <2>3. NoQuery.pc # "insert"
    BY <2>2
  <2> QED
    BY <1>1, <1>3, <2>1, <2>2, <2>3, GoesOn
<1>4. CASE query[r].rec # Nil
  <2>1. Unref(query[r].rec)
    BY <1>4 DEF EndQuery
  <2> QED
    BY <1>1, <1>4, <2>1, UnrefStep
<1> QED
  BY <1>3, <1>4

\* Time passes: what was true at a time stays true later.
LEMMA MomentStep ==
  ASSUME CacheBounds, CacheIInv, MomentPasses
  PROVE  CacheIInv'
<1>1. /\ moment' = moment + 1 /\ moment' \in 0..MaxMoment /\ moment \in 0..MaxMoment
      /\ MaxMoment \in Nat /\ Cached \in Nat
      /\ UNCHANGED <<born, rec, table, lru, query>>
  BY CacheTypes DEF MomentPasses, CacheBounds
<1>2. /\ Dated(born, moment) /\ Contents(rec, born, moment) /\ Stated(rec, query, born, moment)
      /\ lru \in Seq(Rec) /\ Once(lru) /\ Limited(lru, rec)
      /\ CacheCore(table, ToSet(lru), rec, query)
  BY DEF CacheIInv
<1>3. Dated(born, moment')
  <2>1. \A k \in Key : \A i \in 1..Len(born[k]) : born[k][i] \in 0..MaxMoment
    BY CacheTypes
  <2>2. \A k \in Key : \A i \in 1..Len(born[k]) : born[k][i] <= moment'
    <3> SUFFICES ASSUME NEW k \in Key, NEW i \in 1..Len(born[k]) PROVE born[k][i] <= moment'
      OBVIOUS
    <3>1. born[k][i] \in 0..MaxMoment /\ born[k][i] <= moment
      BY <1>2, <2>1 DEF Dated
    <3> DEFINE n == born[k][i]
    <3> HIDE DEF n
    <3>2. n \in 0..MaxMoment /\ n <= moment => n <= moment'
      BY <1>1
    <3> QED
      BY <3>1, <3>2 DEF n
  <2> QED
    BY <1>1, <1>2, <2>2 DEF Dated
<1>4. Contents(rec, born, moment')
  <2> SUFFICES ASSUME NEW x \in Rec, rec[x].live PROVE Holding(rec[x], born, moment')
    BY DEF Contents
  <2>1. Holding(rec[x], born, moment)
    BY <1>2 DEF Contents
  <2>2. rec[x].expires \in 0..MaxMoment + Cached
    BY CacheTypes DEF Records
  <2>3. rec[x].expires <= moment' + Cached
    BY <1>1, <2>1, <2>2 DEF Holding
  <2> QED
    BY <2>1, <2>3 DEF Holding
<1>5. Stated(rec, query, born, moment')
  <2> SUFFICES ASSUME NEW r \in Query PROVE Knowing(query[r], rec, born, moment')
    BY DEF Stated
  <2>1. Knowing(query[r], rec, born, moment)
    BY <1>2 DEF Stated
  <2>2. query[r].t \in 0..MaxMoment
    BY CacheTypes DEF Queries
  <2>3. query[r].t <= moment'
    BY <1>1, <2>1, <2>2 DEF Knowing
  <2> QED
    BY <2>1, <2>3 DEF Knowing
<1> QED
  BY <1>1, <1>2, <1>3, <1>4, <1>5 DEF CacheIInv

\* A file is written: what was so of its versions still is, since the new one is of
\* now.
LEMMA SinceWritten ==
  ASSUME NEW h \in Seq(Nat), NEW c \in Nat, NEW v \in Nat, NEW t \in Int,
         Since(h, v, t), t <= c
  PROVE  Since(Append(h, c), v, t)
<1>1. Len(Append(h, c)) = Len(h) + 1 /\ Append(h, c)[Len(h) + 1] = c /\ Len(h) \in Nat
  OBVIOUS
<1>2. \A i \in 1..Len(h) : Append(h, c)[i] = h[i]
  OBVIOUS
<1>3. CASE v = Len(h)
  BY <1>1, <1>3 DEF Since
<1>4. CASE v # Len(h)
  <2>1. v < Len(h)
    BY <1>1, <1>4 DEF Since
  <2> DEFINE j == v + 1
  <2>2. j \in 1..Len(h)
    BY <1>1, <2>1
  <2>3. h[j] >= t
    BY <2>1 DEF Since
  <2> HIDE DEF j
  <2>4. Append(h, c)[j] >= t
    BY <1>2, <2>2, <2>3
  <2> QED
    BY <1>1, <2>1, <2>4 DEF Since, j
<1> QED
  BY <1>3, <1>4

\* A file is written.
LEMMA WriteStep ==
  ASSUME CacheBounds, CacheIInv, NEW k \in Key, Write(k)
  PROVE  CacheIInv'
<1> DEFINE h == born[k]
           bs == [born EXCEPT ![k] = Append(h, moment)]
<1>1. born' = bs /\ UNCHANGED <<moment, rec, table, lru, query>> /\ Len(h) < MaxVersions
  BY DEF Write, Version
<1>2. /\ Dated(born, moment) /\ Contents(rec, born, moment) /\ Stated(rec, query, born, moment)
      /\ lru \in Seq(Rec) /\ Once(lru) /\ Limited(lru, rec)
      /\ CacheCore(table, ToSet(lru), rec, query)
  BY DEF CacheIInv
<1>3. /\ born \in [Key -> Seq(0..MaxMoment)] /\ h \in Seq(0..MaxMoment)
      /\ moment \in 0..MaxMoment /\ Len(h) \in 1..MaxVersions
      /\ MaxMoment \in Nat /\ MaxVersions \in Nat /\ Cached \in Nat
      /\ rec \in [Rec -> Records] /\ query \in [Query -> Queries]
  BY CacheTypes DEF CacheBounds
<1>4. bs[k] = Append(h, moment) /\ \A j \in Key : j # k => bs[j] = born[j]
  BY <1>3
<1>5. \A j \in Key : born[j] \in Seq(Nat)
  BY <1>3
<1> HIDE DEF bs
<1>6. \A j \in Key, v \in Nat, t \in Int : Since(born[j], v, t) /\ t <= moment => Since(bs[j], v, t)
  <2> SUFFICES ASSUME NEW j \in Key, NEW v \in Nat, NEW t \in Int, Since(born[j], v, t), t <= moment
               PROVE Since(bs[j], v, t)
    OBVIOUS
  <2>1. CASE j # k
    BY <1>4, <2>1
  <2>2. CASE j = k
    <3>1. h \in Seq(Nat) /\ moment \in Nat /\ Since(h, v, t) /\ t <= moment
      BY <1>3, <1>5, <2>2
    <3> HIDE DEF h
    <3>2. Since(Append(h, moment), v, t)
      BY <3>1, SinceWritten
    <3> QED
      BY <1>4, <2>2, <3>2
  <2> QED
    BY <2>1, <2>2
<1>7. Dated(bs, moment)
  <2> DEFINE g == Append(h, moment)
  <2>1. /\ g \in Seq(0..MaxMoment) /\ Len(g) = Len(h) + 1
        /\ g[Len(h) + 1] = moment /\ \A i \in 1..Len(h) : g[i] = h[i]
    BY <1>3
  <2>2. /\ \A i \in 1..Len(h) : h[i] <= moment
        /\ \A i, j \in 1..Len(h) : i <= j => h[i] <= h[j]
    BY <1>2 DEF Dated
  <2>3. bs \in [Key -> Seq(0..MaxMoment)]
    BY <1>3, <2>1 DEF bs
  <2> HIDE DEF g, h
  <2>4. Len(g) \in 1..MaxVersions
    BY <1>1, <1>3, <2>1 
  <2>5. \A i \in 1..Len(g) : i \in 1..Len(h) \/ i = Len(h) + 1
    BY <1>3, <2>1
  <2>6. \A i \in 1..Len(g) : g[i] <= moment
    <3> SUFFICES ASSUME NEW i \in 1..Len(g) PROVE g[i] <= moment
      OBVIOUS
    <3>1. CASE i = Len(h) + 1
      BY <1>3, <2>1, <3>1
    <3>2. CASE i \in 1..Len(h)
      BY <2>1, <2>2, <3>2
    <3> QED
      BY <2>5, <3>1, <3>2
  <2>7. \A i, j \in 1..Len(g) : i <= j => g[i] <= g[j]
    <3> SUFFICES ASSUME NEW i \in 1..Len(g), NEW j \in 1..Len(g), i <= j PROVE g[i] <= g[j]
      OBVIOUS
    <3>1. CASE j = Len(h) + 1
      BY <2>1, <2>6, <3>1
    <3>2. CASE j \in 1..Len(h)
      <4>1. i \in 1..Len(h)
        BY <1>3, <3>2
      <4> QED
        BY <2>1, <2>2, <3>2, <4>1
    <3> QED
      BY <2>5, <3>1, <3>2
  <2>8. bs[k] = g
    BY <1>4 DEF g, h
  <2> QED
    BY <1>2, <1>4, <2>3, <2>4, <2>6, <2>7, <2>8, <1>3 DEF Dated
<1>8. Contents(rec, bs, moment)
  <2> SUFFICES ASSUME NEW x \in Rec, rec[x].live PROVE Holding(rec[x], bs, moment)
    BY DEF Contents
  <2>1. Holding(rec[x], born, moment)
    BY <1>2 DEF Contents
  <2>2. rec[x] \in Records
    BY <1>3
  <2>3. rec[x].expires \in 0..MaxMoment + Cached /\ rec[x].content \in Nat
    BY <1>3, <2>2 DEF Records
  <2>4. rec[x].expires - Cached \in Int /\ rec[x].expires - Cached <= moment
    BY <1>3, <2>1, <2>3 DEF Holding
  <2>5. Since(bs[rec[x].key], rec[x].content, rec[x].expires - Cached)
    BY <1>6, <2>1, <2>3, <2>4 DEF Holding
  <2> QED
    BY <2>1, <2>5 DEF Holding
<1>9. Stated(rec, query, bs, moment)
  <2> SUFFICES ASSUME NEW r \in Query PROVE Knowing(query[r], rec, bs, moment)
    BY DEF Stated
  <2> DEFINE a == query[r]
  <2>1. Knowing(a, rec, born, moment) /\ a \in Queries
    BY <1>2, <1>3 DEF Stated
  <2>2. a.t \in Int /\ a.t - Cached \in Int /\ a.t - Cached <= moment /\ a.t <= moment /\ a.mtime \in Nat
    <3>1. a.t \in 0..MaxMoment /\ a.mtime \in 0..MaxVersions
      BY <2>1 DEF Queries
    <3>2. a.t <= moment
      BY <2>1 DEF Knowing
    <3> DEFINE u == a.t
               v == a.mtime
    <3>3. u \in 0..MaxMoment /\ v \in 0..MaxVersions /\ u <= moment
      BY <3>1, <3>2
    <3> HIDE DEF u, v
    <3>4. u \in Int /\ u - Cached \in Int /\ u - Cached <= moment /\ u <= moment /\ v \in Nat
      BY <1>3, <3>3
    <3> QED
      BY <3>4 DEF u, v
  <2>3. a.pc # "idle" => a.key \in Key
    BY CacheTypes
  <2>4. a.rec \in Rec => rec[a.rec].content \in Nat
    BY <1>3 DEF Records
  <2>5. a.rec \in Rec \cup {Nil}
    BY <2>1 DEF Queries
  <2> HIDE DEF a
  <2>6. a.pc \in {"try", "read", "insert"} => a.mtime > 0 /\ Since(bs[a.key], a.mtime, a.t)
    <3> SUFFICES ASSUME a.pc \in {"try", "read", "insert"}
                 PROVE a.mtime > 0 /\ Since(bs[a.key], a.mtime, a.t)
      OBVIOUS
    <3>1. a.key \in Key /\ a.mtime > 0 /\ Since(born[a.key], a.mtime, a.t)
      BY <2>1, <2>3 DEF Knowing
    <3> QED
      BY <1>6, <2>2, <3>1
  <2>7. a.mem => /\ a.pc = "sending" /\ a.rec # Nil
                 /\ Since(bs[a.key], rec[a.rec].content, a.t - Cached)
    <3> SUFFICES ASSUME a.mem
                 PROVE /\ a.pc = "sending" /\ a.rec # Nil
                       /\ Since(bs[a.key], rec[a.rec].content, a.t - Cached)
      OBVIOUS
    <3>1. a.pc = "sending" /\ a.rec # Nil /\ Since(born[a.key], rec[a.rec].content, a.t - Cached)
      BY <2>1 DEF Knowing
    <3>2. a.key \in Key /\ rec[a.rec].content \in Nat
      BY <2>3, <2>4, <2>5, <3>1
    <3> QED
      BY <1>6, <2>2, <3>1, <3>2
  <2>8. a.t <= moment
    BY <2>2
  <2>9. Knowing(a, rec, bs, moment)
    BY <2>6, <2>7, <2>8 DEF Knowing
  <2> QED
    BY <2>9 DEF a
<1> QED
  BY <1>1, <1>2, <1>7, <1>8, <1>9 DEF CacheIInv

\* In the beginning nothing is found or asked for, and each file has one version.
LEMMA CacheInitOK ==
  ASSUME CacheBounds, CacheInit
  PROVE  CacheIInv
<1>1. /\ born = [k \in Key |-> <<0>>] /\ moment = 0
      /\ rec = [x \in Rec |-> Free] /\ table = [k \in Key |-> Nil]
      /\ lru = <<>> /\ query = [r \in Query |-> NoQuery]
  BY DEF CacheInit
<1>2. /\ {MaxItems, Slack, Cached, MaxMoment} \subseteq Nat
      /\ MaxVersions \in Nat \ {0} /\ Nil \notin Rec
  BY DEF CacheBounds
<1>3. /\ Free \in Records /\ ~Free.live /\ Free.refs = 0
  BY <1>2 DEF Free, Records
<1>4. NoQuery \in Queries /\ NoQuery.rec = Nil /\ NoQuery.pc = "idle" /\ ~NoQuery.mem /\ NoQuery.t = 0
  BY <1>2 DEF NoQuery, Queries
<1>5. lru \in Seq(Rec) /\ Len(lru) = 0 /\ ToSet(lru) = {}
  BY <1>1 DEF ToSet
<1>6. Once(lru) /\ Limited(lru, rec)
  BY <1>2, <1>5 DEF Once, Limited
<1>7. CacheCore(table, {}, rec, query)
  <2>1. CacheTyped(table, {}, rec, query)
    BY <1>1, <1>3, <1>4 DEF CacheTyped
  <2>2. InTable(table, {}, rec)
    BY <1>1, <1>2 DEF InTable
  <2>3. \A x \in Rec : UsersOf(query, x) = {} /\ ~FillingOf(query, x)
    BY <1>1, <1>2, <1>4 DEF UsersOf, FillingOf
  <2>4. UsesCounted(rec, query)
    BY <1>1, <1>3, <2>3, UsersFinite DEF UsesCounted
  <2>5. LivesWhile({}, rec, query)
    BY <1>1, <1>3, <2>3 DEF LivesWhile
  <2>6. HoldsRecord({}, rec, query)
    BY <1>1, <1>4 DEF HoldsRecord
  <2> QED
    BY <2>1, <2>2, <2>4, <2>5, <2>6 DEF CacheCore
<1>8. Dated(born, moment)
  <2>1. 0 \in 0..MaxMoment /\ 1 \in 1..MaxVersions
    BY <1>2
  <2>2. <<0>> \in Seq(0..MaxMoment) /\ Len(<<0>>) = 1 /\ \A i \in 1..1 : <<0>>[i] = 0
    BY <2>1
  <2> DEFINE h == <<0>>
  <2>3. \A k \in Key : born[k] = h
    BY <1>1
  <2>4. h \in Seq(0..MaxMoment) /\ Len(h) = 1 /\ \A i \in 1..1 : h[i] = 0
    BY <2>2
  <2>5. born \in [Key -> Seq(0..MaxMoment)]
    BY <1>1, <2>2
  <2> HIDE DEF h
  <2>6. \A k \in Key : Len(born[k]) \in 1..MaxVersions
    BY <2>1, <2>3, <2>4
  <2>7. \A k \in Key : \A i \in 1..Len(born[k]) : born[k][i] = 0
    BY <2>3, <2>4
  <2>8. \A k \in Key : \A i \in 1..Len(born[k]) : born[k][i] <= moment
    BY <1>1, <2>7
  <2>9. \A k \in Key : \A i, j \in 1..Len(born[k]) : i <= j => born[k][i] <= born[k][j]
    BY <2>7
  <2> QED
    BY <1>1, <2>1, <2>5, <2>6, <2>8, <2>9 DEF Dated
<1>9. Contents(rec, born, moment)
  BY <1>1, <1>3 DEF Contents
<1>10. Stated(rec, query, born, moment)
  BY <1>1, <1>4 DEF Stated, Knowing
<1> QED
  BY <1>5, <1>6, <1>7, <1>8, <1>9, <1>10 DEF CacheIInv

\* Each action keeps the invariant of the cache, and so does a step of others.
LEMMA CacheStep ==
  ASSUME CacheBounds, CacheIInv, [CacheNext]_cacheVars
  PROVE  CacheIInv'
<1>1. ASSUME NEW r \in Query, HandleQuery(r) PROVE CacheIInv'
  BY <1>1, TryCacheStep, SelectStep, StoreTryStep, StoreReadStep, StoreInsertStep, EndQueryStep
     DEF HandleQuery
<1>2. CASE World
  BY <1>2, MomentStep, WriteStep DEF World
<1>3. CASE UNCHANGED cacheVars
  BY <1>3 DEF cacheVars, CacheIInv
<1> QED
  BY <1>1, <1>2, <1>3 DEF CacheNext

\* What the invariant says of the cache: the property that the runs check.
LEMMA CacheHolds ==
  ASSUME CacheBounds, CacheIInv
  PROVE  CacheSound
<1>1. CacheCore(table, ToSet(lru), rec, query) /\ lru \in Seq(Rec) /\ Once(lru) /\ Nil \notin Rec
  BY DEF CacheIInv, CacheBounds
<1>2. \A x \in Rec : Users(x) = UsersOf(query, x) /\ (Filling(x) <=> FillingOf(query, x))
  BY DEF Users, UsersOf, Filling, FillingOf
<1>3. RefsExact
  BY <1>1, <1>2 DEF RefsExact, CacheCore, UsesCounted, LivesWhile, Linked
<1>4. CacheTypeOK
  <2>1. \A x \in Rec : rec[x].refs \in 0..Cardinality(Query)
    BY <1>1, UsersFinite DEF CacheCore, UsesCounted
  <2>2. rec \in [Rec -> [live : BOOLEAN, key : Key \cup {Nil}, ver : 0..MaxVersions,
                         content : 0..MaxVersions, expires : 0..MaxMoment + Cached,
                         refs : 0..Cardinality(Query)]]
    <3>1. rec \in [Rec -> Records]
      BY CacheTypes
    <3>2. \A x \in Rec : rec[x] \in [live : BOOLEAN, key : Key \cup {Nil}, ver : 0..MaxVersions,
                         content : 0..MaxVersions, expires : 0..MaxMoment + Cached,
                         refs : 0..Cardinality(Query)]
      BY <2>1, <3>1 DEF Records
    <3> QED
      BY <3>1, <3>2
  <2>3. query \in [Query -> Queries] /\ table \in [Key -> Rec \cup {Nil}]
        /\ born \in [Key -> Seq(0..MaxMoment)] /\ moment \in 0..MaxMoment
    BY CacheTypes
  <2> QED
    BY <1>1, <2>2, <2>3 DEF CacheTypeOK, Queries
<1>5. TableIsList
  <2>1. {table[k] : k \in Key} \ {Nil} = ToSet(lru)
    <3>1. table \in [Key -> Rec \cup {Nil}] /\ ToSet(lru) \subseteq Rec
      BY CacheTypes
    <3>2. \A x \in Rec : x \in ToSet(lru) <=> \E k \in Key : table[k] = x
      BY <1>1 DEF CacheCore, InTable
    <3> QED
      BY <1>1, <3>1, <3>2
  <2>2. Cardinality(ToSet(lru)) = Len(lru)
    BY <1>1, OnceCounted DEF Once
  <2>3. \A k \in Key : table[k] # Nil => rec[table[k]].key = k
    BY <1>1 DEF CacheCore, InTable
  <2> QED
    BY <2>1, <2>2, <2>3 DEF TableIsList
<1>6. Bounded
  BY DEF CacheIInv, Limited, Bounded
<1>7. FreshEnough
  <2> SUFFICES ASSUME NEW r \in Query, query[r].mem,
                      Version(query[r].key) > rec[query[r].rec].content
               PROVE born[query[r].key][rec[query[r].rec].content + 1] + Cached >= query[r].t
    BY DEF FreshEnough
  <2> DEFINE k == query[r].key
             v == rec[query[r].rec].content
             b == born[k][v + 1]
             t == query[r].t
  <2>1. Knowing(query[r], rec, born, moment)
    BY DEF CacheIInv, Stated
  <2>2. query[r].pc = "sending" /\ query[r].rec # Nil /\ Since(born[k], v, t - Cached)
    BY <2>1 DEF Knowing
  <2>3. b >= t - Cached
    BY <2>2 DEF Since, Version
  <2>4. t \in 0..MaxMoment /\ MaxMoment \in Nat /\ Cached \in Nat
    BY CacheTypes DEF Queries, CacheBounds
  <2>5. k \in Key /\ query[r].rec \in Rec
    BY <2>2, CacheTypes DEF Queries
  <2>6. b \in Int
    <3>1. born[k] \in Seq(0..MaxMoment)
      BY <2>5, CacheTypes
    <3>2. v \in Nat
      BY <2>5, CacheTypes DEF Records, CacheBounds
    <3>3. Len(born[k]) \in Nat /\ Len(born[k]) > v
      BY <3>1 DEF Version
    <3> DEFINE i == v + 1
    <3>4. i \in 1..Len(born[k])
      BY <3>2, <3>3
    <3> HIDE DEF i
    <3>5. born[k][i] \in 0..MaxMoment
      BY <3>1, <3>4
    <3> QED
      BY <2>4, <3>5 DEF i
  <2> HIDE DEF b, t
  <2>7. b + Cached >= t
    BY <2>3, <2>4, <2>6
  <2> QED
    BY <2>7 DEF b, t
<1> QED
  BY <1>3, <1>4, <1>5, <1>6, <1>7 DEF CacheSound

\* The memory cache: whatever the threads do to it between each other's steps,
\* no answer is sent from memory that was freed, no record is lost, the table is the
\* list, its size is bounded, and no stale file is served.
THEOREM CacheIsSound ==
  ASSUME CacheBounds
  PROVE  CacheSpec => []CacheSound
<1>1. CacheInit => CacheIInv
  BY CacheInitOK
<1>2. CacheIInv /\ [CacheNext]_cacheVars => CacheIInv'
  BY CacheStep
<1>3. CacheIInv => CacheSound
  BY CacheHolds
<1> QED
  BY <1>1, <1>2, <1>3, PTL DEF CacheSpec
=============================================================================
