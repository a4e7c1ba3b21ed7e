------------------------------ MODULE TapSetup ------------------------------
(***************************************************************************)
(* The TAP adapters of the VPN client on Windows (tapcontroller_win.cpp):  *)
(* TapController::checkAndSetup() before a connection.  It drives an       *)
(* external tool, one process per command: it lists the adapters, restarts *)
(* each one, and if none works removes those that do not and installs the  *)
(* driver.  A command may not start or may be refused, and the user may    *)
(* change an adapter between two commands.                                 *)
(***************************************************************************)
EXTENDS Naturals, Sequences, FiniteSets

CONSTANTS
  Dev,         \* instances of the adapter the system can have
  MaxFails,    \* commands that do not start or are refused
  MaxTouched   \* changes somebody else makes

VARIABLES
  dev,         \* each instance: absent, broken (no driver), disabled or running
  pc,          \* idle, or what is done next
  phase,       \* the loop checkAndSetup or setupDriver is in
  todo,        \* the rest of the list the loop goes through
  usable,      \* isAnyAvailableTap
  ret,         \* what checkAndSetup returned
  fails, touches,
  before,      \* the instances that ran when checkAndSetup was called
  passed,      \* the instances that passed their last check
  stuck        \* the instances a command failed for or somebody else changed

tapsVars == <<dev, pc, phase, todo, usable, ret, fails, touches, before, passed, stuck>>

Here == {d \in Dev : dev[d] # "absent"}
RunningTaps == {d \in Dev : dev[d] = "running"}
d0 == Head(todo)

\* The tool lists each instance that is there once, in an order of its own.
Orders(D) ==
  {s \in [1..Cardinality(D) -> D] : \A d \in D : \E i \in 1..Cardinality(D) : s[i] = d}

\* A command works, or it fails and somebody may notice which instance it was for.
Works == UNCHANGED <<fails, stuck>>
Fails(D) == fails < MaxFails /\ fails' = fails + 1 /\ stuck' = stuck \cup D
-----------------------------------------------------------------------------
TapsInit ==
  /\ dev \in [Dev -> {"absent", "broken", "disabled", "running"}]
  /\ pc = "idle" /\ phase = "check" /\ todo = <<>> /\ usable = FALSE /\ ret = FALSE
  /\ fails = 0 /\ touches = 0 /\ before = {} /\ passed = {} /\ stuck = {}

SetupReturns(r) ==
  /\ pc' = "returned" /\ ret' = r
  /\ UNCHANGED <<dev, phase, todo, usable, touches, before, passed>>

\* checkAndSetup(): without an openvpn.exe that starts nothing is tried.
CheckAndSetup ==
  /\ pc = "idle"
  /\ \/ /\ Works
        /\ pc' = "list" /\ before' = RunningTaps
        /\ UNCHANGED <<dev, phase, todo, usable, ret, touches, passed>>
     \/ Fails({}) /\ SetupReturns(FALSE)

\* getTapList(): an empty list also when the tool does not start.
List ==
  /\ pc = "list"
  /\ \/ Works /\ todo' \in Orders(Here)
     \/ Fails(Here) /\ todo' = <<>>
  /\ pc' = IF phase \in {"left", "final"} THEN "decide" ELSE "next"
  /\ UNCHANGED <<dev, phase, usable, ret, touches, before, passed>>

\* The loops of checkAndSetup and setupDriver go on with the next instance, or end.
CheckNext ==
  /\ pc = "next" /\ todo # <<>>
  /\ pc' = "nodes"
  /\ UNCHANGED <<dev, phase, todo, usable, ret, fails, touches, before, passed, stuck>>

\* Mutant: the list is enough.
AnyListed == usable \/ Here # {}
AnyUsable == usable

LoopEnds ==
  /\ pc = "next" /\ todo = <<>>
  /\ \/ phase = "check" /\ AnyUsable /\ SetupReturns(TRUE) /\ UNCHANGED <<fails, stuck>>
     \/ /\ ~(phase = "check" /\ AnyUsable)
        /\ phase' = (CASE phase = "check" -> "clean" [] phase = "clean" -> "left"
                       [] phase = "clean2" -> "final")
        /\ pc' = "list"
        /\ UNCHANGED <<dev, todo, usable, ret, fails, touches, before, passed, stuck>>

\* setupDriver(): an instance that is still listed will do; the first time the driver is
\* installed when there is none.
Decide ==
  /\ pc = "decide"
  /\ \/ todo # <<>> /\ SetupReturns(TRUE) /\ UNCHANGED <<fails, stuck>>
     \/ todo = <<>> /\ phase = "final" /\ SetupReturns(FALSE) /\ UNCHANGED <<fails, stuck>>
     \/ /\ todo = <<>> /\ phase = "left" /\ pc' = "install"
        /\ UNCHANGED <<dev, phase, todo, usable, ret, fails, touches, before, passed, stuck>>

\* What the installer leaves is not looked at before the next list.
Install ==
  /\ pc = "install"
  /\ \/ /\ Works /\ pc' = "list" /\ phase' = "clean2"
        /\ \/ \E d \in Dev \ Here, s \in {"broken", "disabled", "running"} : dev' = [dev EXCEPT ![d] = s]
           \/ UNCHANGED dev
        /\ UNCHANGED <<todo, usable, ret, touches, before, passed>>
     \/ Fails({}) /\ SetupReturns(FALSE)
-----------------------------------------------------------------------------
\* checkDriver(tap): the commands in their order; the first that fails ends it, and in
\* setupDriver the instance is removed then.
\* Mutant: the check of setupDriver removes what it has checked.
AlwaysRemoves(ok) == phase # "check"
Removes(ok) == phase # "check" /\ ~ok

CheckOver(ok) ==
  /\ passed' = IF ok THEN passed \cup {d0} ELSE passed \ {d0}
  /\ usable' = (usable \/ (phase = "check" /\ ok))
  /\ IF Removes(ok) THEN pc' = "remove" /\ todo' = todo
     ELSE pc' = "next" /\ todo' = Tail(todo)

CheckGoes(next) == pc' = next /\ UNCHANGED <<todo, usable, passed>>

\* "drivernodes" and "driverfiles".
Look ==
  /\ pc \in {"nodes", "files"}
  /\ \/ /\ Works
        /\ IF dev[d0] \in {"absent", "broken"} THEN CheckOver(FALSE)
           ELSE CheckGoes(IF pc = "nodes" THEN "files" ELSE "status")
     \/ Fails({d0}) /\ CheckOver(FALSE)
  /\ UNCHANGED <<dev, phase, ret, touches, before>>

\* "status": an adapter that runs is restarted before it is used.
Status ==
  /\ pc = "status"
  /\ \/ /\ Works
        /\ CASE dev[d0] = "running"  -> CheckGoes("disable")
             [] dev[d0] = "disabled" -> CheckGoes("enable")
             [] OTHER                -> CheckOver(FALSE)
     \/ Fails({d0}) /\ CheckOver(FALSE)
  /\ UNCHANGED <<dev, phase, ret, touches, before>>

Present == dev[d0] \in {"disabled", "running"}

\* disableTapAdapter()
Disable ==
  /\ pc = "disable"
  /\ \/ /\ Works
        /\ IF Present THEN CheckGoes("enable") /\ dev' = [dev EXCEPT ![d0] = "disabled"]
           ELSE CheckOver(FALSE) /\ UNCHANGED dev
     \/ Fails({d0}) /\ CheckOver(FALSE) /\ UNCHANGED dev
  /\ UNCHANGED <<phase, ret, touches, before>>

\* Mutant: it is enabled when it is used.
LeftDisabled(s) == s
EnabledFrom(s) == "running"

\* enableTapAdapter()
Enable ==
  /\ pc = "enable"
  /\ \/ /\ Works
        /\ IF Present THEN CheckGoes("again") /\ dev' = [dev EXCEPT ![d0] = EnabledFrom(@)]
           ELSE CheckOver(FALSE) /\ UNCHANGED dev
     \/ Fails({d0}) /\ CheckOver(FALSE) /\ UNCHANGED dev
  /\ UNCHANGED <<phase, ret, touches, before>>

\* "status" once more.
CheckAgain ==
  /\ pc = "again"
  /\ \/ Works /\ CheckOver(dev[d0] = "running")
     \/ Fails({d0}) /\ CheckOver(FALSE)
  /\ UNCHANGED <<dev, phase, ret, touches, before>>

\* removeDriver(tap): its result is not used.
RemoveDriver ==
  /\ pc = "remove" /\ pc' = "next" /\ todo' = Tail(todo)
  /\ \/ Works /\ dev' = [dev EXCEPT ![d0] = "absent"]
     \/ Fails({d0}) /\ UNCHANGED dev
  /\ UNCHANGED <<phase, usable, ret, touches, before, passed>>

\* Somebody plugs, unplugs, enables or disables an adapter meanwhile.
Touch ==
  /\ pc # "idle" /\ pc # "returned" /\ touches < MaxTouched /\ touches' = touches + 1
  /\ \E d \in Dev, s \in {"absent", "disabled", "running"} :
       s # dev[d] /\ dev' = [dev EXCEPT ![d] = s] /\ stuck' = stuck \cup {d}
  /\ UNCHANGED <<pc, phase, todo, usable, ret, fails, before, passed>>

\* The next connection.
CallAgain ==
  /\ pc = "returned" /\ pc' = "idle" /\ phase' = "check" /\ todo' = <<>> /\ usable' = FALSE
  /\ ret' = FALSE /\ before' = {} /\ passed' = {} /\ stuck' = {}
  /\ UNCHANGED <<dev, fails, touches>>

TapsNext ==
  \/ CheckAndSetup \/ List \/ CheckNext \/ LoopEnds \/ Decide \/ Install \/ Look \/ Status
  \/ Disable \/ Enable \/ CheckAgain \/ RemoveDriver \/ Touch \/ CallAgain

TapsSpec == TapsInit /\ [][TapsNext]_tapsVars
-----------------------------------------------------------------------------
\* When checkAndSetup says that an adapter is ready, one runs, unless during the call a
\* command failed or somebody changed an adapter: setupDriver ends with a list, and an
\* adapter that could not be removed is in it (tapcontroller_win.cpp:102-140, 301-342).
Ready == (pc = "returned" /\ ret) => RunningTaps # {} \/ stuck # {}

\* An adapter that ran before the call runs after it, although each check stops and
\* starts it, unless a command for it failed or somebody changed it
\* (tapcontroller_win.cpp:180-227).
RunsAgain == pc = "returned" => before \subseteq RunningTaps \cup stuck

\* No adapter that has just passed its check is removed (tapcontroller_win.cpp:305-309).
KeepsGood == [][pc = "remove" => d0 \notin passed]_tapsVars

\* setupDriver() ends with an adapter that can be used, or says that there is
\* none, has left none disabled, and has never removed one that works.
TapsSound == [](Ready /\ RunsAgain) /\ KeepsGood
=============================================================================
