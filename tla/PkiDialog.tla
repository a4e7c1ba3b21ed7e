------------------------------- MODULE PkiDialog -------------------------------
(***************************************************************************)
(* The dialogs of the worker with easy-rsa (entity.cpp: ovpn_initpki,      *)
(* docker_requests.cpp: d_addUser, d_getUser) as init() and c_getOvpnFile  *)
(* (client_requests.cpp) hold them.  A thread waits for a prompt, writes a *)
(* line, and goes on to the next prompt.  It sees a prompt only if one     *)
(* read returns the whole of its text, it looks at its buffer only when    *)
(* new output arrives, and after a number of waits it writes all the same. *)
(*                                                                         *)
(* The process is external: it prints texts and reads a line at each       *)
(* prompt, one program after another; a program that ends takes along what *)
(* it has read ahead.  It may stop or end anywhere.                        *)
(***************************************************************************)
EXTENDS Naturals, Sequences

CONSTANTS Threads,  \* network threads
          First,    \* the one that runs init()
          None      \* no password; no thread

ASSUME PkiAssumption == First \in Threads /\ None \notin Threads

\* Mutant: the passphrase is not entered again.
NotAgain == <<[marker |-> "new", secret |-> TRUE], [marker |-> "name", secret |-> FALSE],
              [marker |-> "config", secret |-> TRUE], [marker |-> "pass", secret |-> TRUE]>>

\* Mutant: an empty line for the password of the CA.
EmptyLine == <<[marker |-> "pass", secret |-> FALSE]>>

\* What a thread waits for and what it writes then, stage by stage.
InitPki == <<[marker |-> "new", secret |-> TRUE], [marker |-> "again", secret |-> TRUE],
             [marker |-> "name", secret |-> FALSE], [marker |-> "config", secret |-> TRUE],
             [marker |-> "pass", secret |-> TRUE]>>
AddUser == <<[marker |-> "pass", secret |-> TRUE]>>
GetUser == <<[marker |-> "end", secret |-> FALSE]>>
Stages  == [initpki |-> InitPki, adduser |-> AddUser, getuser |-> GetUser]

\* What the process prints; at a prompt it reads the line written for a marker, and last
\* says that its program ends then.
Text(name)               == [name |-> name, for |-> "", last |-> FALSE]
Prompt(name, for, last)  == [name |-> name, for |-> for, last |-> last]
Scripts ==
  [initpki |-> <<Prompt("new", "new", FALSE), Prompt("again", "again", TRUE),
                 Prompt("name", "name", TRUE),
                 Text("config"), Prompt("pass", "config", TRUE),
                 Text("config"), Prompt("pass", "pass", TRUE)>>,
   adduser |-> <<Text("config"), Prompt("pass", "pass", TRUE)>>,
   getuser |-> <<Text("body"), Text("end")>>,
   unknown |-> <<Text("unable")>>]

\* output.contains(): "Re-Enter New CA Key Passphrase:" contains "Enter New CA Key Passphrase:",
\* and "Unable to find" ends d_getUser's wait too.
Contains(text, marker) == \/ text = marker
                          \/ text = "again" /\ marker = "new"
                          \/ text = "unable" /\ marker = "end"

VARIABLES
  pc,      \* where each thread is
  todo,    \* the dialogs it has before it, the first one running
  stage,   \* the stage of the running dialog
  holder,  \* the thread that has the users mutex
  caPw,    \* s_caPassword, named after the thread that made it
  step,    \* the text the thread's process prints next
  reads,   \* its process waits at a prompt
  out,     \* what it has printed and nobody has read
  fresh,   \* some of that has not been announced by a wait yet
  stdin,   \* lines written and not read
  known,   \* the password its process was told first
  ca,      \* the password of the CA, None before there is one
  certs,   \* threads whose user has a certificate
  answer,  \* what c_getOvpnFile gets from d_getUser
  hurt,    \* history: threads whose process was late or died, or that read half a text
  missed,  \* history: threads that gave up a prompt that had been printed
  misread, \* history: threads whose process read a line meant for another prompt
  doubled, \* history: two threads were about to make a password
  early    \* history: threads that added a user before there was a CA

thread  == <<pc, todo, stage>>
process == <<step, reads, out, fresh, stdin, known>>
results == <<ca, certs, answer>>
history == <<hurt, missed, misread, doubled, early>>
vars    == <<thread, holder, caPw, process, results, history>>

Ended == 99  \* step of a process that has ended

Init == /\ pc = [t \in Threads |-> IF t = First THEN "begin" ELSE "request"]
        /\ todo = [t \in Threads |-> IF t = First THEN <<"initpki", "adduser", "getuser">>
                                                  ELSE <<"adduser", "getuser">>]
        /\ stage = [t \in Threads |-> 1]
        /\ holder = None /\ caPw = None
        /\ step = [t \in Threads |-> Ended] /\ reads = [t \in Threads |-> FALSE]
        /\ out = [t \in Threads |-> <<>>] /\ fresh = [t \in Threads |-> FALSE]
        /\ stdin = [t \in Threads |-> <<>>] /\ known = [t \in Threads |-> None]
        /\ ca = None /\ certs = {} /\ answer = [t \in Threads |-> "none"]
        /\ hurt = {} /\ missed = {} /\ misread = {} /\ doubled = FALSE /\ early = {}

Dialog(t) == Head(todo[t])
Stage(t)  == Stages[Dialog(t)][stage[t]]
Script(t) == Scripts[IF Dialog(t) = "getuser" /\ t \notin certs THEN "unknown" ELSE Dialog(t)]
Goto(t, where) == pc' = [pc EXCEPT ![t] = where]

-----------------------------------------------------------------------------
(* A thread *)

\* c_getOvpnFile takes the users mutex for the whole of its work.
Request(t) == /\ pc[t] = "request" /\ holder = None
              /\ holder' = t
              /\ Goto(t, "begin")
              /\ UNCHANGED <<todo, stage, caPw, process, results, history>>

\* p.start(); a process that does not start is one that ends at once.
Begin(t) == /\ pc[t] = "begin"
            /\ step' = [step EXCEPT ![t] = 1] /\ reads' = [reads EXCEPT ![t] = FALSE]
            /\ out' = [out EXCEPT ![t] = <<>>] /\ fresh' = [fresh EXCEPT ![t] = FALSE]
            /\ stdin' = [stdin EXCEPT ![t] = <<>>] /\ known' = [known EXCEPT ![t] = None]
            /\ stage' = [stage EXCEPT ![t] = 1]
            /\ early' = IF Dialog(t) = "adduser" /\ ca = None THEN early \cup {t} ELSE early
            /\ Goto(t, "wait")
            /\ UNCHANGED <<todo, holder, caPw, results, hurt, missed, misread, doubled>>

\* Mutant: only the first text of a read is looked at.
SeenFirst(t, n, torn) == ~torn /\ Contains(out[t][1].name, Stage(t).marker)

\* The marker is in one of the first n texts; a torn last one is not recognised.
Seen(t, n, torn) ==
  \E i \in 1..(IF torn THEN n - 1 ELSE n) : Contains(out[t][i].name, Stage(t).marker)

\* New output: readAll(), of which the last text may be only half there yet.
Read(t, n, torn) ==
  /\ pc[t] = "wait" /\ fresh[t]
  /\ out' = [out EXCEPT ![t] = SubSeq(@, n + 1, Len(@))]
  /\ fresh' = [fresh EXCEPT ![t] = n < Len(out[t])]
  /\ hurt' = IF torn THEN hurt \cup {t} ELSE hurt
  /\ Goto(t, IF ~Seen(t, n, torn) THEN "wait" ELSE IF Dialog(t) = "getuser" THEN "got" ELSE "pause")
  /\ UNCHANGED <<todo, stage, holder, caPw, step, reads, stdin, known, results,
                 missed, misread, doubled, early>>

\* The process waits for a line.
Asks(t) == reads[t] /\ stdin[t] = <<>>

\* The 100 ms after a marker; what is printed meanwhile stays in the buffer, announced.
\* By then the process has come to its next prompt, or it is late.
Pause(t) == /\ pc[t] = "pause"
            /\ fresh' = [fresh EXCEPT ![t] = FALSE]
            /\ hurt' = IF Asks(t) THEN hurt ELSE hurt \cup {t}
            /\ Goto(t, "write")
            /\ UNCHANGED <<todo, stage, holder, caPw, step, reads, out, stdin, known, results,
                           missed, misread, doubled, early>>

\* Mutant: a thread that has not seen its prompt waits for ever.
NeverOver(t) == FALSE

\* All the waits of a stage are over.
WaitsOver(t) == ~fresh[t]

GiveUp(t) == /\ pc[t] = "wait" /\ WaitsOver(t)
             /\ IF Asks(t) /\ t \notin hurt
                THEN missed' = missed \cup {t} /\ UNCHANGED hurt
                ELSE hurt' = hurt \cup {t} /\ UNCHANGED missed
             /\ Goto(t, IF Dialog(t) = "getuser" THEN "got" ELSE "write")
             /\ UNCHANGED <<todo, stage, holder, caPw, process, results, misread, doubled, early>>

\* The line of a stage, and on to the next or to the end.
Send(t, secret) ==
  /\ stdin' = [stdin EXCEPT ![t] = IF step[t] = Ended THEN @
                                   ELSE Append(@, [for |-> Stage(t).marker, secret |-> secret])]
  /\ stage' = [stage EXCEPT ![t] = @ + 1]
  /\ Goto(t, IF stage[t] < Len(Stages[Dialog(t)]) THEN "wait" ELSE "finish")
  /\ UNCHANGED <<todo, holder, step, reads, out, fresh, known, results, hurt, missed, misread, early>>

\* Mutant: each thread has a password of its own.
OwnPw(t) == caPw # t

\* s_caPassword == NULL
NoPw(t) == caPw = None

Write(t) == /\ pc[t] = "write"
            /\ ~Stage(t).secret \/ ~NoPw(t)
            /\ Send(t, IF Stage(t).secret THEN caPw ELSE None)
            /\ UNCHANGED <<caPw, doubled>>

\* caPassword() tests the pointer ...
FindNoPw(t) == /\ pc[t] = "write" /\ Stage(t).secret /\ NoPw(t)
               /\ Goto(t, "make")
               /\ UNCHANGED <<todo, stage, holder, caPw, process, results, history>>

\* ... and sets it.
MakePw(t) == /\ pc[t] = "make"
             /\ caPw' = t
             /\ doubled' = (doubled \/ \E u \in Threads \ {t} : pc[u] = "make")
             /\ Send(t, t)

\* d_getUser: what was read is the configuration, whole or not, or nothing.
Got(t) == /\ pc[t] = "got"
          /\ answer' = [answer EXCEPT ![t] = IF t \notin certs THEN "none"
                                             ELSE IF t \in hurt THEN "part" ELSE "whole"]
          /\ Goto(t, "finish")
          /\ UNCHANGED <<todo, stage, holder, caPw, process, ca, certs, history>>

\* waitForFinished(): 30 seconds, after which the process is killed.
Finish(t) == /\ pc[t] = "finish"
             /\ hurt' = IF step[t] = Ended THEN hurt ELSE hurt \cup {t}
             /\ Goto(t, "next")
             /\ step' = [step EXCEPT ![t] = Ended] /\ reads' = [reads EXCEPT ![t] = FALSE]
             /\ UNCHANGED <<todo, stage, holder, caPw, out, fresh, stdin, known, results,
                            missed, misread, doubled, early>>

\* Mutant: the request ends with the user that was added.
OverWhenAdded(t) == Dialog(t) = "adduser"

\* d_getUser is the last.
Over(t) == Len(todo[t]) = 1

\* The next dialog, or the end of the request; init() is followed by the thread's request.
NextDialog(t) ==
  /\ pc[t] = "next"
  /\ todo' = [todo EXCEPT ![t] = Tail(@)]
  /\ \/ Over(t) /\ holder' = None /\ Goto(t, "done")
     \/ Dialog(t) = "initpki" /\ UNCHANGED holder /\ Goto(t, "request")
     \/ Dialog(t) = "adduser" /\ ~Over(t) /\ UNCHANGED holder /\ Goto(t, "begin")
  /\ UNCHANGED <<stage, caPw, process, results, history>>

Thread(t) == \/ Request(t) \/ Begin(t) \/ Pause(t) \/ GiveUp(t) \/ Write(t) \/ FindNoPw(t)
             \/ MakePw(t) \/ Got(t) \/ Finish(t) \/ NextDialog(t)
             \/ \E n \in 1..Len(out[t]), torn \in BOOLEAN : Read(t, n, torn)

-----------------------------------------------------------------------------
(* The process *)

\* The next text.
Prints(t) == /\ step[t] # Ended /\ ~reads[t]
             /\ LET text == Script(t)[step[t]] IN
                /\ out' = [out EXCEPT ![t] = Append(@, text)]
                /\ fresh' = [fresh EXCEPT ![t] = TRUE]
                /\ reads' = [reads EXCEPT ![t] = text.for # ""]
                /\ step' = [step EXCEPT ![t] = IF text.for # "" THEN @
                                               ELSE IF @ = Len(Script(t)) THEN Ended ELSE @ + 1]
             /\ UNCHANGED <<thread, holder, caPw, stdin, known, results, history>>

\* What a line does at a prompt: whether the process goes on after it.
Accepts(t, text, line) ==
  CASE text.name = "new"   -> line.secret # None
    [] text.name = "again" -> line.secret = known[t]
    [] text.name = "name"  -> TRUE
    [] OTHER               -> ca # None /\ line.secret = ca

\* The process reads a line; a program that ends may take the rest with it.
ReadLine(t) ==
  LET text == Script(t)[step[t]]
      line == Head(stdin[t])
      ends == step[t] = Len(Script(t)) \/ ~Accepts(t, text, line)
  IN  /\ reads[t] /\ stdin[t] # <<>>
      /\ reads' = [reads EXCEPT ![t] = FALSE]
      /\ stdin' \in {[stdin EXCEPT ![t] = rest] : rest \in {Tail(stdin[t])} \cup (IF text.last THEN {<<>>} ELSE {})}
      /\ step' = [step EXCEPT ![t] = IF ends THEN Ended ELSE @ + 1]
      /\ known' = [known EXCEPT ![t] = IF text.name = "new" THEN line.secret ELSE @]
      /\ ca' = IF text.name = "name" THEN known[t] ELSE ca
      /\ certs' = IF Dialog(t) = "adduser" /\ Accepts(t, text, line) THEN certs \cup {t} ELSE certs
      /\ misread' = IF line.for # text.for THEN misread \cup {t} ELSE misread
      /\ UNCHANGED <<thread, holder, caPw, out, fresh, answer, hurt, missed, doubled, early>>

\* It ends in the middle.
Dies(t) == /\ step[t] # Ended
           /\ step' = [step EXCEPT ![t] = Ended] /\ reads' = [reads EXCEPT ![t] = FALSE]
           /\ hurt' = hurt \cup {t}
           /\ UNCHANGED <<thread, holder, caPw, out, fresh, stdin, known, results,
                          missed, misread, doubled, early>>

Process(t) == Prints(t) \/ ReadLine(t) \/ Dies(t)

Next == \E t \in Threads : Thread(t) \/ Process(t)

Spec     == Init /\ [][Next]_vars
FairSpec == Spec /\ \A t \in Threads : WF_vars(Thread(t))

-----------------------------------------------------------------------------
(* Properties *)

TypeOK == /\ pc \in [Threads -> {"request", "begin", "wait", "pause", "write", "make", "got",
                                 "finish", "next", "done"}]
          /\ \A t \in Threads : pc[t] = "done" <=> todo[t] = <<>>
          /\ holder \in Threads \cup {None}
          /\ caPw \in Threads \cup {None} /\ ca \in Threads \cup {None}
          /\ certs \cup hurt \cup missed \cup misread \cup early \subseteq Threads
          /\ answer \in [Threads -> {"none", "part", "whole"}]

\* Each prompt reads the line that was written for it, unless the process was late or died,
\* or a read had cut a prompt in two: then a line may be written before its prompt, and be
\* lost or answer another one.
AnswersFit == misread \subseteq hurt

\* No thread sits out a wait for a prompt that has been printed and read as a whole, although
\* what is announced in a pause is not looked at until there is more.
PromptsSeen == missed = {}

\* The password that a later request answers with is the one the CA was made with, unless
\* two threads of a cold worker have made one each.
OnePassword == ca # None /\ ~doubled => ca = caPw

\* A request that was made with the CA in place, and whose processes were in time, ends with
\* a certificate and the whole of the configuration.
Issues == \A t \in Threads : pc[t] = "done" /\ t \notin hurt \cup early /\ ~doubled
                               => t \in certs /\ answer[t] = "whole"

\* The dialogs with easy-rsa stay in step, and what they make fits together: all
\* of the above.
DialogSound == TypeOK /\ AnswersFit /\ PromptsSeen /\ OnePassword /\ Issues

\* A dialog ends whatever easy-rsa does, so that the users mutex is given back: this is
\* what WorkerThreads assumes of a request that issues a configuration.
DialogsEnd == \A t \in Threads : <>(pc[t] = "done")

=============================================================================
