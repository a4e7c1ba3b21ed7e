----------------------------- MODULE NxDaemon ------------------------------
(***************************************************************************)
(* The daemon of nxweb: the launcher that starts the server again when it  *)
(* fails, the file that holds the server's process id, and the command     *)
(* that stops the daemon (lib/daemon.c, lib/main_stub.c, lib/http_server.c *)
(* for what the server does with signals).                                 *)
(*                                                                         *)
(* Processes interleave at system calls.  Process ids are numbered in the  *)
(* order of fork() and never used again.                                   *)
(***************************************************************************)
EXTENDS Naturals

CONSTANTS MaxForks,    \* bound: servers started
          MaxCommands, \* bound: commands given
          MaxFails,    \* bound: servers that fail
          Named        \* whether a pid file is named with -p

VARIABLES
  launcher, \* where nxweb_run_daemon is
  pid,      \* the last server
  child,    \* and its state
  file,     \* the pid file: what is read from it, or "none"
  cmd,      \* the command: the process it will signal
  commands, \* commands so far
  fails     \* failures so far

daemonVars == <<launcher, pid, child, file, cmd, commands, fails>>

NoFile == 0     \* there is none
Empty == MaxForks + 1    \* created and not written yet

DaemonInit == /\ launcher = "loop"
              /\ pid = 0
              /\ child = "none"
              /\ file = NoFile
              /\ cmd = 0
              /\ commands = 0
              /\ fails = 0

-----------------------------------------------------------------------------
\* The launcher: nxweb_run_daemon and nxweb_relauncher.
Fork == /\ launcher = "loop"
        /\ pid < MaxForks
        /\ launcher' = IF Named THEN "create" ELSE "wait"
        /\ pid' = pid + 1
        /\ child' = "starting"
        /\ UNCHANGED <<file, cmd, commands, fails>>
CreateFile == /\ launcher = "create"
              /\ launcher' = "write"
              /\ file' = Empty
              /\ UNCHANGED <<pid, child, cmd, commands, fails>>
WriteFile == /\ launcher = "write"
             /\ launcher' = "wait"
             /\ file' = pid
             /\ UNCHANGED <<pid, child, cmd, commands, fails>>

\* waitpid() returns, with the exit status 0 or another end; then the file goes
\* and the launcher ends or starts again in two seconds.
\* Mutant: an end by a signal counts as an exit.
OnlyExits(end) == FALSE
Again(end) == end = "failed"
Wait == /\ launcher = "wait"
        /\ child \in {"done", "failed"}
        /\ launcher' = IF Again(child) THEN "unlinkAgain" ELSE "unlink"
        /\ child' = "none"
        /\ UNCHANGED <<pid, file, cmd, commands, fails>>
\* Mutant: the file stays while the launcher sleeps.
KeptFile(l) == IF l = "unlink" THEN NoFile ELSE file
FileAfter(l) == NoFile
Unlink == /\ launcher \in {"unlink", "unlinkAgain"}
          /\ launcher' = IF launcher = "unlink" THEN "gone" ELSE "loop"
          /\ file' = FileAfter(launcher)
          /\ UNCHANGED <<pid, child, cmd, commands, fails>>

-----------------------------------------------------------------------------
\* The server: nxweb_run and its signals.
Server(c) == child' = c /\ UNCHANGED <<launcher, pid, file, cmd, commands>>
Ready == child = "starting" /\ Server("running") /\ UNCHANGED fails
\* A start that fails is made to look like a normal exit; or the server dies.
\* Mutant: it ends as a failure.
Failure == "failed"
StartFails == "done"
NoStart == child = "starting" /\ Server(StartFails) /\ UNCHANGED fails
Dies == /\ child \in {"starting", "running", "stopping"}
        /\ fails < MaxFails
        /\ Server("failed")
        /\ fails' = fails + 1
Drained == child = "stopping" /\ Server("done") /\ UNCHANGED fails

\* on_sigterm sets an alarm, in case some connections do not close.
\* Mutant: no alarm.
NoAlarm == FALSE
AlarmSet == child = "stopping"
Alarm == AlarmSet /\ Server("done") /\ UNCHANGED fails

-----------------------------------------------------------------------------
\* nxweb_shutdown_daemon: the file is read, and SIGTERM sent to who is in it.
\* Without -p the command looks for nxweb.pid, which the daemon does not write.
Read == /\ cmd = 0
        /\ commands < MaxCommands
        /\ cmd' = IF file \in {NoFile, Empty} THEN 0 ELSE file
        /\ commands' = commands + 1
        /\ UNCHANGED <<launcher, pid, child, file, fails>>

\* A server that has not come to its handlers may be killed by the signal.
Kill == /\ cmd # 0
        /\ cmd' = 0
        /\ IF cmd # pid THEN UNCHANGED <<child, fails>>
           ELSE \/ child \in {"starting", "running"} /\ child' = "stopping" /\ UNCHANGED fails
                \/ child = "starting" /\ child' = "failed" /\ UNCHANGED fails
                \/ child \notin {"starting", "running"} /\ UNCHANGED <<child, fails>>
        /\ UNCHANGED <<launcher, pid, file, commands>>

Launcher == \/ Fork
            \/ CreateFile
            \/ WriteFile
            \/ Wait
            \/ Unlink
DaemonNext == \/ Launcher
              \/ Ready
              \/ NoStart
              \/ Dies
              \/ Drained
              \/ Alarm
              \/ Read
              \/ Kill

\* The launcher goes on, a started server becomes ready or ends, the alarm comes,
\* and a command that has read the file sends its signal.
Fairness == /\ WF_daemonVars(Launcher)
            /\ WF_daemonVars(Ready)
            /\ WF_daemonVars(Alarm)
            /\ WF_daemonVars(Kill)
DaemonSpec == DaemonInit /\ [][DaemonNext]_daemonVars
FairDaemonSpec == DaemonSpec /\ Fairness

-----------------------------------------------------------------------------
\* Properties.

DaemonTypeOK == /\ launcher \in {"loop", "create", "write", "wait", "unlink", "unlinkAgain", "gone"}
                /\ pid \in 0..MaxForks
                /\ child \in {"none", "starting", "running", "stopping", "done", "failed"}
                /\ file \in {NoFile, Empty} \cup 1..MaxForks
                /\ cmd \in 0..MaxForks
                /\ commands \in 0..MaxCommands
                /\ fails \in 0..MaxFails

\* The file never names a server before the last one, and names the last one for as
\* long as the launcher waits for it: who reads it then signals that server.
FileNames == /\ file \notin {NoFile, Empty} => file = pid
             /\ launcher = "wait" /\ Named => file = pid
             /\ launcher \in {"loop", "gone"} => file = NoFile

\* A server that fails is followed by another one, unless a fault of the start
\* ends the daemon: MaxForks bounds this only after MaxFails and MaxCommands.
Relaunched == child = "failed" /\ pid < MaxForks ~> child = "starting"

\* A server that is told to stop stops, whatever its connections do, and takes the
\* launcher with it, unless it fails while it stops.
Stops == child = "stopping" ~> launcher = "gone" \/ child = "failed"

\* A start that fails does not come again ("simulate normal exit so nxweb is not
\* respawned"): what is started again was running, or was killed.
NotRespawned == [][launcher = "wait" /\ launcher' = "unlinkAgain" => fails > 0 \/ commands > 0]_daemonVars

\* The pid file names the server that runs, or none, and no server whose start
\* failed is started again.
DaemonSound == [](DaemonTypeOK /\ FileNames) /\ NotRespawned

\* "pid file (default: none or nxweb.pid for daemon)": the command that stops the
\* daemon finds the server that the launcher waits for.
CommandFinds == [][commands' > commands /\ launcher = "wait" => cmd' # 0]_daemonVars
=============================================================================
