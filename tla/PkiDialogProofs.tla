--------------------------- MODULE PkiDialogProofs ---------------------------
(***************************************************************************)
(* The dialogs with easy-rsa stay in step: THEOREM DialogIsSound, that     *)
(* DialogSound is an invariant of PkiDialog.  Nothing is assumed of the    *)
(* processes but PkiAssumption.                                            *)
(*                                                                         *)
(* The inductive invariant IInv says where the process of a thread may be  *)
(* while the thread is at a stage (InStep): it prints what the thread      *)
(* waits for, or it has the thread's line before it, or it has ended; that *)
(* unless two threads made a password there is one (Passwords); and what a *)
(* thread has got when it comes to the end of a dialog (Served).           *)
(***************************************************************************)
EXTENDS PkiDialog, TLAPS

-----------------------------------------------------------------------------
(* The dialogs and their scripts *)

Dialogs == {"initpki", "adduser", "getuser"}
Talks   == {"initpki", "adduser"}
Markers == {"new", "again", "name", "config", "pass", "end"}
Texts   == Markers \cup {"body", "unable"}

\* A stage, a text and a line as records.
Wait    == [marker : Markers, secret : BOOLEAN]
Printed == [name : Texts, for : Markers \cup {""}, last : BOOLEAN]
Line    == [for : Markers, secret : Threads \cup {None}]

\* How many stages a dialog has; where its process starts to print for a stage, prints what
\* the thread waits for, and asks for the line.
Last(d)     == IF d = "initpki" THEN 5 ELSE 1
From(d, k)  == IF d = "adduser" THEN 1 ELSE IF k <= 4 THEN k ELSE 6
Mark(d, k)  == IF d = "adduser" THEN 2 ELSE IF k <= 4 THEN k ELSE 7
Asked(d, k) == IF d = "adduser" THEN 2 ELSE IF k <= 3 THEN k ELSE IF k = 4 THEN 5 ELSE 7

LEMMA StagesOf ==
  /\ DOMAIN Stages = Dialogs
  /\ \A d \in Dialogs : /\ Last(d) \in Nat \ {0} /\ Len(Stages[d]) = Last(d)
                        /\ \A k \in 1..Last(d) : Stages[d][k] \in Wait
  /\ \A k \in 1..Last("adduser") : Stages["adduser"][k].secret
<1>1. /\ Stages["initpki"] = InitPki /\ Stages["adduser"] = AddUser
      /\ Stages["getuser"] = GetUser /\ DOMAIN Stages = Dialogs
  BY DEF Stages, Dialogs
<1>2. Len(InitPki) = 5 /\ \A k \in 1..5 : InitPki[k] \in Wait
  BY DEF InitPki, Wait, Markers
<1>3. /\ Len(AddUser) = 1 /\ Len(GetUser) = 1
      /\ \A k \in 1..1 : AddUser[k] \in Wait /\ GetUser[k] \in Wait /\ AddUser[k].secret
  BY DEF AddUser, GetUser, Wait, Markers
<1>. QED  BY <1>1, <1>2, <1>3 DEF Last, Dialogs

\* The scripts, text by text.
LEMMA PromptOf ==
  \A n \in Texts, m \in Markers : Prompt(n, m, TRUE) \in Printed /\ Prompt(n, m, FALSE) \in Printed
BY DEF Prompt, Printed

LEMMA TextOf ==
  /\ \A n \in Texts : Text(n) \in Printed
  /\ \A n : Text(n).name = n /\ Text(n).for = ""
BY DEF Text, Printed

LEMMA InitPkiScript ==
  LET s == Scripts["initpki"] IN
  /\ Len(s) = 7 /\ \A j \in 1..7 : s[j] \in Printed
  /\ s[1].name = "new" /\ s[1].for = "new"
  /\ s[2].name = "again" /\ s[2].for = "again"
  /\ s[3].name = "name" /\ s[3].for = "name"
  /\ s[4].name = "config" /\ s[4].for = ""
  /\ s[5].name = "pass" /\ s[5].for = "config"
  /\ s[6].name = "config" /\ s[6].for = ""
  /\ s[7].name = "pass" /\ s[7].for = "pass"
<1> DEFINE s == Scripts["initpki"]
<1>1. s = <<Prompt("new", "new", FALSE), Prompt("again", "again", TRUE),
            Prompt("name", "name", TRUE),
            Text("config"), Prompt("pass", "config", TRUE),
            Text("config"), Prompt("pass", "pass", TRUE)>>
  BY DEF Scripts
<1> HIDE DEF s
<1>2. /\ Len(s) = 7
      /\ s[1] = Prompt("new", "new", FALSE) /\ s[2] = Prompt("again", "again", TRUE)
      /\ s[3] = Prompt("name", "name", TRUE) /\ s[4] = Text("config")
      /\ s[5] = Prompt("pass", "config", TRUE) /\ s[6] = Text("config")
      /\ s[7] = Prompt("pass", "pass", TRUE)
  BY <1>1
<1>3. /\ "new" \in Texts /\ "again" \in Texts /\ "name" \in Texts /\ "config" \in Texts
      /\ "pass" \in Texts /\ "new" \in Markers /\ "again" \in Markers /\ "name" \in Markers
      /\ "config" \in Markers /\ "pass" \in Markers
  BY DEF Texts, Markers
<1>4. /\ Prompt("new", "new", FALSE) \in Printed /\ Prompt("again", "again", TRUE) \in Printed
      /\ Prompt("name", "name", TRUE) \in Printed /\ Prompt("pass", "config", TRUE) \in Printed
      /\ Prompt("pass", "pass", TRUE) \in Printed /\ Text("config") \in Printed
  BY <1>3, PromptOf, TextOf
<1>5. /\ s[1].name = "new" /\ s[1].for = "new"
      /\ s[2].name = "again" /\ s[2].for = "again"
      /\ s[3].name = "name" /\ s[3].for = "name"
      /\ s[5].name = "pass" /\ s[5].for = "config"
      /\ s[7].name = "pass" /\ s[7].for = "pass"
  BY <1>2 DEF Prompt
<1>7. s[4].name = "config" /\ s[4].for = "" /\ s[6].name = "config" /\ s[6].for = ""
  BY <1>2, TextOf
<1>6. \A j \in 1..7 : s[j] \in Printed
  <2>1. 1..7 = {1, 2, 3, 4, 5, 6, 7}
    OBVIOUS
  <2>. QED  BY <2>1, <1>2, <1>4
<1>. QED  BY <1>2, <1>5, <1>6, <1>7 DEF s

LEMMA OtherScripts ==
  LET a == Scripts["adduser"]  g == Scripts["getuser"]  u == Scripts["unknown"] IN
  /\ Len(a) = 2 /\ Len(g) = 2 /\ Len(u) = 1
  /\ a[1] \in Printed /\ a[1].name = "config" /\ a[1].for = ""
  /\ a[2] \in Printed /\ a[2].name = "pass" /\ a[2].for = "pass"
  /\ g[1] \in Printed /\ g[1].for = "" /\ g[2] \in Printed /\ g[2].for = ""
  /\ u[1] \in Printed /\ u[1].for = ""
<1> DEFINE a == Scripts["adduser"]  g == Scripts["getuser"]  u == Scripts["unknown"]
<1>1. a = <<Text("config"), Prompt("pass", "pass", TRUE)>>
  BY DEF Scripts
<1>2. g = <<Text("body"), Text("end")>> /\ u = <<Text("unable")>>
  BY DEF Scripts
<1> HIDE DEF a, g, u
<1>3. /\ Len(a) = 2 /\ a[1] = Text("config") /\ a[2] = Prompt("pass", "pass", TRUE)
      /\ Len(g) = 2 /\ g[1] = Text("body") /\ g[2] = Text("end")
      /\ Len(u) = 1 /\ u[1] = Text("unable")
  BY <1>1, <1>2
<1>4. /\ "body" \in Texts /\ "end" \in Texts /\ "unable" \in Texts /\ "config" \in Texts
      /\ "pass" \in Texts /\ "pass" \in Markers
  BY DEF Texts, Markers
<1>5. /\ Text("config") \in Printed /\ Prompt("pass", "pass", TRUE) \in Printed
      /\ Text("body") \in Printed /\ Text("end") \in Printed /\ Text("unable") \in Printed
  BY <1>4, PromptOf, TextOf
<1>6. a[2].name = "pass" /\ a[2].for = "pass"
  BY <1>3 DEF Prompt
<1>7. /\ a[1].name = "config" /\ a[1].for = ""
      /\ g[1].for = "" /\ g[2].for = "" /\ u[1].for = ""
  BY <1>3, TextOf
<1>. QED  BY <1>3, <1>5, <1>6, <1>7 DEF a, g, u

\* How the stages of a dialog and the script of its process fit each other.
LEMMA Fit ==
  ASSUME NEW d \in Talks, NEW k \in 1..Last(d)
  PROVE  /\ From(d, k) \in Nat /\ Mark(d, k) \in Nat /\ Asked(d, k) \in Nat
         /\ 1 <= From(d, k) /\ From(d, k) <= Mark(d, k) /\ Mark(d, k) <= Asked(d, k)
         /\ Asked(d, k) <= Len(Scripts[d])
         /\ From(d, 1) = 1
         /\ k = Last(d) => Asked(d, k) = Len(Scripts[d])
         /\ k < Last(d) => Asked(d, k) < Len(Scripts[d]) /\ From(d, k + 1) = Asked(d, k) + 1
         /\ Scripts[d][Asked(d, k)].for = Stages[d][k].marker
         /\ Contains(Scripts[d][Mark(d, k)].name, Stages[d][k].marker)
         /\ \A j \in From(d, k)..Asked(d, k) : Scripts[d][j].for # "" <=> j = Asked(d, k)
<1>1. CASE d = "adduser"
  <2>1. k = 1
    BY <1>1 DEF Last
  <2>2. Stages[d] = AddUser
    BY <1>1 DEF Stages
  <2>3. Len(Scripts[d]) = 2 /\ Scripts[d][1].for = "" /\ Scripts[d][2].for = "pass"
        /\ Scripts[d][2].name = "pass"
    BY <1>1, OtherScripts
  <2>4. Stages[d][1].marker = "pass"
    BY <2>2 DEF AddUser
  <2>5. Last(d) = 1 /\ From(d, k) = 1 /\ From(d, 1) = 1 /\ Mark(d, k) = 2 /\ Asked(d, k) = 2
    BY <1>1 DEF Last, From, Mark, Asked
  <2>6. 1..2 = {1, 2}
    OBVIOUS
  <2>7. /\ 1 \in Nat /\ 2 \in Nat /\ "pass" # ""
        /\ \A j \in 1..2 : Scripts[d][j].for # "" <=> j = 2
    BY <2>3, <2>6
  <2>8. Contains(Scripts[d][2].name, Stages[d][1].marker)
    BY <2>3, <2>4 DEF Contains
  <2>9. /\ From(d, k) \in Nat /\ Mark(d, k) \in Nat /\ Asked(d, k) \in Nat
        /\ 1 <= From(d, k) /\ From(d, k) <= Mark(d, k) /\ Mark(d, k) <= Asked(d, k)
        /\ Asked(d, k) = 2 /\ From(d, k) = 1 /\ k = Last(d) /\ ~(k < Last(d))
    BY <2>1, <2>5
  <2>. QED  BY <2>1, <2>3, <2>4, <2>5, <2>7, <2>8, <2>9
<1>2. CASE d = "initpki"
  <2>1. k \in 1..5 /\ Last(d) = 5
    BY <1>2 DEF Last
  <2>2. Stages[d] = InitPki
    BY <1>2 DEF Stages
  <2>3. /\ Stages[d][1].marker = "new" /\ Stages[d][2].marker = "again"
        /\ Stages[d][3].marker = "name" /\ Stages[d][4].marker = "config"
        /\ Stages[d][5].marker = "pass"
    BY <2>2 DEF InitPki
  <2>4. d # "adduser"
    BY <1>2
  <2> DEFINE s == Scripts[d]
  <2>5. /\ Len(s) = 7 /\ s[1].name = "new" /\ s[1].for = "new"
        /\ s[2].name = "again" /\ s[2].for = "again"
        /\ s[3].name = "name" /\ s[3].for = "name"
        /\ s[4].name = "config" /\ s[4].for = "" /\ s[5].name = "pass" /\ s[5].for = "config"
        /\ s[6].for = "" /\ s[7].name = "pass" /\ s[7].for = "pass"
    BY <1>2, InitPkiScript
  <2> HIDE DEF s
  <2>6. /\ From(d, k) \in Nat /\ Mark(d, k) \in Nat /\ Asked(d, k) \in Nat
        /\ 1 <= From(d, k) /\ From(d, k) <= Mark(d, k) /\ Mark(d, k) <= Asked(d, k)
        /\ Asked(d, k) <= 7 /\ From(d, 1) = 1 /\ (k = 5 => Asked(d, k) = 7)
        /\ (k < 5 => Asked(d, k) < 7 /\ From(d, k + 1) = Asked(d, k) + 1)
    BY <2>1, <2>4 DEF From, Mark, Asked
  <2> DEFINE Good == /\ s[Asked(d, k)].for = Stages[d][k].marker
                     /\ Contains(s[Mark(d, k)].name, Stages[d][k].marker)
                     /\ \A j \in From(d, k)..Asked(d, k) : s[j].for # "" <=> j = Asked(d, k)
  <2>a. ASSUME k = 1 PROVE Good
    <3>1. From(d, k) = 1 /\ Mark(d, k) = 1 /\ Asked(d, k) = 1
      BY <2>a, <2>4 DEF From, Mark, Asked
    <3>2. 1..1 = {1}
      OBVIOUS
    <3>. QED  BY <3>1, <3>2, <2>a, <2>3, <2>5 DEF Contains
  <2>b. ASSUME k = 2 PROVE Good
    <3>1. From(d, k) = 2 /\ Mark(d, k) = 2 /\ Asked(d, k) = 2
      BY <2>b, <2>4 DEF From, Mark, Asked
    <3>2. 2..2 = {2}
      OBVIOUS
    <3>. QED  BY <3>1, <3>2, <2>b, <2>3, <2>5 DEF Contains
  <2>c. ASSUME k = 3 PROVE Good
    <3>1. From(d, k) = 3 /\ Mark(d, k) = 3 /\ Asked(d, k) = 3
      BY <2>c, <2>4 DEF From, Mark, Asked
    <3>2. 3..3 = {3}
      OBVIOUS
    <3>. QED  BY <3>1, <3>2, <2>c, <2>3, <2>5 DEF Contains
  <2>d. ASSUME k = 4 PROVE Good
    <3>1. From(d, k) = 4 /\ Mark(d, k) = 4 /\ Asked(d, k) = 5
      BY <2>d, <2>4 DEF From, Mark, Asked
    <3>2. 4..5 = {4, 5}
      OBVIOUS
    <3>. QED  BY <3>1, <3>2, <2>d, <2>3, <2>5 DEF Contains
  <2>e. ASSUME k = 5 PROVE Good
    <3>1. From(d, k) = 6 /\ Mark(d, k) = 7 /\ Asked(d, k) = 7
      BY <2>e, <2>4 DEF From, Mark, Asked
    <3>2. 6..7 = {6, 7}
      OBVIOUS
    <3>. QED  BY <3>1, <3>2, <2>e, <2>3, <2>5 DEF Contains
  <2>7. k = 1 \/ k = 2 \/ k = 3 \/ k = 4 \/ k = 5
    BY <2>1
  <2>8. Good
    BY <2>7, <2>a, <2>b, <2>c, <2>d, <2>e
  <2>9. /\ Asked(d, k) <= Len(s) /\ (k = Last(d) => Asked(d, k) = Len(s))
        /\ k < Last(d) => Asked(d, k) < Len(s) /\ From(d, k + 1) = Asked(d, k) + 1
    BY <2>1, <2>5, <2>6
  <2>. QED  BY <2>6, <2>8, <2>9 DEF s
<1>. QED  BY <1>1, <1>2 DEF Talks

\* What the proofs need of the texts themselves.
LEMMA ScriptTexts ==
  /\ \A d \in Talks : \A j \in 1..Len(Scripts[d]) : Scripts[d][j] \in Printed
  /\ \A d \in {"getuser", "unknown"} : \A j \in 1..Len(Scripts[d]) :
       Scripts[d][j] \in Printed /\ Scripts[d][j].for = ""
  /\ \A d \in Talks \cup {"getuser", "unknown"} : Len(Scripts[d]) \in 1..7
  /\ Len(Scripts["initpki"]) = 7 /\ Len(Scripts["adduser"]) = 2
  /\ \A j \in 1..7 : /\ Scripts["initpki"][j].name = "new" <=> j = 1
                     /\ Scripts["initpki"][j].name = "name" <=> j = 3
  /\ Scripts["adduser"][1].for = ""
  /\ \A j \in 1..2 : Scripts["adduser"][j].name \notin {"new", "again", "name"}
<1>1. 1..7 = {1, 2, 3, 4, 5, 6, 7} /\ 1..2 = {1, 2} /\ 1..1 = {1}
  OBVIOUS
<1>2. Len(Scripts["initpki"]) = 7 /\ \A j \in 1..7 : Scripts["initpki"][j] \in Printed
  BY InitPkiScript
<1>3. \A j \in 1..7 : /\ Scripts["initpki"][j].name = "new" <=> j = 1
                      /\ Scripts["initpki"][j].name = "name" <=> j = 3
  BY <1>1, InitPkiScript
<1>4. /\ Len(Scripts["adduser"]) = 2 /\ \A j \in 1..2 : Scripts["adduser"][j] \in Printed
      /\ Scripts["adduser"][1].for = ""
      /\ \A j \in 1..2 : Scripts["adduser"][j].name \notin {"new", "again", "name"}
  BY <1>1, OtherScripts
<1>5. /\ Len(Scripts["getuser"]) = 2 /\ Len(Scripts["unknown"]) = 1
      /\ \A j \in 1..2 : Scripts["getuser"][j] \in Printed /\ Scripts["getuser"][j].for = ""
      /\ \A j \in 1..1 : Scripts["unknown"][j] \in Printed /\ Scripts["unknown"][j].for = ""
  BY <1>1, OtherScripts
<1>6. \A d \in Talks : \A j \in 1..Len(Scripts[d]) : Scripts[d][j] \in Printed
  BY <1>2, <1>4 DEF Talks
<1>7. \A d \in {"getuser", "unknown"} : \A j \in 1..Len(Scripts[d]) :
        Scripts[d][j] \in Printed /\ Scripts[d][j].for = ""
  BY <1>5
<1>8. \A d \in Talks \cup {"getuser", "unknown"} : Len(Scripts[d]) \in 1..7
  <2>1. 7 \in 1..7 /\ 2 \in 1..7 /\ 1 \in 1..7
    OBVIOUS
  <2>2. /\ Len(Scripts["initpki"]) \in 1..7 /\ Len(Scripts["adduser"]) \in 1..7
        /\ Len(Scripts["getuser"]) \in 1..7 /\ Len(Scripts["unknown"]) \in 1..7
    BY <2>1, <1>2, <1>4, <1>5
  <2>. QED  BY <2>2 DEF Talks
<1>. QED  BY <1>2, <1>3, <1>4, <1>6, <1>7, <1>8

-----------------------------------------------------------------------------
(* Types *)

Works  == {"wait", "pause", "write", "make", "got", "finish"}
Places == Works \cup {"request", "begin", "next", "done"}
Todo   == {<<"initpki", "adduser", "getuser">>, <<"adduser", "getuser">>, <<"getuser">>, <<>>}

Typed ==
  /\ pc \in [Threads -> Places] /\ todo \in [Threads -> Todo] /\ stage \in [Threads -> Nat]
  /\ holder \in Threads \cup {None} /\ caPw \in Threads \cup {None} /\ ca \in Threads \cup {None}
  /\ step \in [Threads -> Nat] /\ reads \in [Threads -> BOOLEAN] /\ fresh \in [Threads -> BOOLEAN]
  /\ out \in [Threads -> Seq(Printed)] /\ stdin \in [Threads -> Seq(Line)]
  /\ known \in [Threads -> Threads \cup {None}]
  /\ certs \subseteq Threads /\ hurt \subseteq Threads /\ missed \subseteq Threads
  /\ misread \subseteq Threads /\ early \subseteq Threads /\ doubled \in BOOLEAN
  /\ answer \in [Threads -> {"none", "part", "whole"}]

\* Where a thread is, what it has before it and where its process is fit each other.
Placed(t) ==
  /\ pc[t] = "done" <=> todo[t] = <<>>
  /\ pc[t] = "request" => todo[t] = <<"adduser", "getuser">>
  /\ pc[t] \in Works => stage[t] \in 1..(Last(Dialog(t)) + 1)
  /\ pc[t] \in Works \ {"finish"} => stage[t] <= Last(Dialog(t))
  /\ pc[t] \in {"pause", "write", "make"} => Dialog(t) \in Talks
  /\ pc[t] = "got" => Dialog(t) = "getuser"
  /\ pc[t] = "finish" => stage[t] = Last(Dialog(t)) + 1 \/ Dialog(t) = "getuser"
  /\ pc[t] = "make" => Stage(t).secret
  /\ pc[t] \notin Works => step[t] = Ended
  /\ step[t] # Ended => step[t] \in 1..Len(Script(t))
  /\ step[t] = Ended => ~reads[t]
  /\ reads[t] => Script(t)[step[t]].for # ""

LEMMA Todos ==
  ASSUME NEW s \in Todo
  PROVE  /\ s # <<>> => Head(s) \in Dialogs /\ Tail(s) \in Todo /\ Len(s) \in Nat \ {0}
         /\ s # <<>> => (Len(s) = 1 <=> Head(s) = "getuser") /\ (Tail(s) = <<>> <=> Len(s) = 1)
         /\ s # <<>> => (Head(s) = "initpki" <=> Tail(s) = <<"adduser", "getuser">>)
         /\ s # <<>> => (Head(s) = "adduser" <=> Tail(s) = <<"getuser">>)
<1>1. CASE s = <<"initpki", "adduser", "getuser">>
  <2>1. Head(s) = "initpki" /\ Tail(s) = <<"adduser", "getuser">> /\ Len(s) = 3
    BY <1>1
  <2>. QED  BY <1>1, <2>1 DEF Todo, Dialogs
<1>2. CASE s = <<"adduser", "getuser">>
  <2>1. Head(s) = "adduser" /\ Tail(s) = <<"getuser">> /\ Len(s) = 2
    BY <1>2
  <2>. QED  BY <1>2, <2>1 DEF Todo, Dialogs
<1>3. CASE s = <<"getuser">>
  <2>1. Head(s) = "getuser" /\ Tail(s) = <<>> /\ Len(s) = 1
    BY <1>3
  <2>. QED  BY <1>3, <2>1 DEF Todo, Dialogs
<1>. QED  BY <1>1, <1>2, <1>3 DEF Todo

\* The dialog of a thread at work, its stages and its script.
LEMMA DialogOf ==
  ASSUME Typed, NEW t \in Threads, todo[t] # <<>>
  PROVE  /\ Dialog(t) \in Dialogs /\ Last(Dialog(t)) \in Nat \ {0}
         /\ Len(Stages[Dialog(t)]) = Last(Dialog(t))
         /\ stage[t] \in 1..Last(Dialog(t)) => Stage(t) \in Wait
         /\ stage[t] \in 1..Last(Dialog(t)) /\ Dialog(t) = "adduser" => Stage(t).secret
         /\ Len(Script(t)) \in 1..7
         /\ \A j \in 1..Len(Script(t)) : Script(t)[j] \in Printed
         /\ Dialog(t) \in Talks => Script(t) = Scripts[Dialog(t)]
         /\ Dialog(t) = "getuser" => \A j \in 1..Len(Script(t)) : Script(t)[j].for = ""
<1>1. todo[t] \in Todo /\ Dialog(t) \in Dialogs
  BY Todos DEF Typed, Dialog
<1>2. /\ Last(Dialog(t)) \in Nat \ {0} /\ Len(Stages[Dialog(t)]) = Last(Dialog(t))
      /\ stage[t] \in 1..Last(Dialog(t)) => Stage(t) \in Wait
      /\ stage[t] \in 1..Last(Dialog(t)) /\ Dialog(t) = "adduser" => Stage(t).secret
  BY <1>1, StagesOf DEF Stage
<1>3. CASE Dialog(t) \in Talks
  <2>1. Script(t) = Scripts[Dialog(t)] /\ Dialog(t) # "getuser"
    BY <1>3 DEF Script, Talks
  <2>. QED  BY <1>1, <1>2, <1>3, <2>1, ScriptTexts
<1>4. CASE Dialog(t) = "getuser"
  <2>1. PICK d \in {"getuser", "unknown"} : Script(t) = Scripts[d]
    BY <1>4 DEF Script
  <2>2. Dialog(t) \notin Talks
    BY <1>4 DEF Talks
  <2>3. /\ Len(Scripts[d]) \in 1..7
        /\ \A j \in 1..Len(Scripts[d]) : Scripts[d][j] \in Printed /\ Scripts[d][j].for = ""
    BY <2>1, ScriptTexts
  <2>. QED  BY <1>1, <1>2, <1>4, <2>1, <2>2, <2>3
<1>. QED  BY <1>1, <1>3, <1>4 DEF Dialogs, Talks

\* While a thread stays in its dialog.
LEMMA Stays ==
  ASSUME NEW t, todo'[t] = todo[t]
  PROVE  /\ Dialog(t)' = Dialog(t)
         /\ stage'[t] = stage[t] => Stage(t)' = Stage(t)
         /\ (t \in certs' <=> t \in certs) \/ Dialog(t) # "getuser" => Script(t)' = Script(t)
BY DEF Dialog, Stage, Script

LEMMA InitTyped == Init => Typed /\ \A t \in Threads : Placed(t)
<1> SUFFICES ASSUME Init  PROVE Typed /\ \A t \in Threads : Placed(t)
  OBVIOUS
<1>1. Typed
  <2>1. /\ todo \in [Threads -> Todo] /\ pc \in [Threads -> Places]
        /\ stage \in [Threads -> Nat] /\ step \in [Threads -> Nat]
    BY DEF Init, Todo, Places, Ended
  <2>2. <<>> \in Seq(Printed) /\ <<>> \in Seq(Line)
    OBVIOUS
  <2>3. out \in [Threads -> Seq(Printed)] /\ stdin \in [Threads -> Seq(Line)]
    BY <2>2 DEF Init
  <2>. QED  BY <2>1, <2>3 DEF Init, Typed
<1>2. ASSUME NEW t \in Threads  PROVE Placed(t)
  <2>1. /\ pc[t] = "begin" \/ (pc[t] = "request" /\ todo[t] = <<"adduser", "getuser">>)
        /\ todo[t] \in {<<"initpki", "adduser", "getuser">>, <<"adduser", "getuser">>}
        /\ step[t] = Ended /\ reads[t] = FALSE
    BY DEF Init
  <2>2. todo[t] # <<>>
    BY <2>1
  <2>. QED  BY <2>1, <2>2 DEF Placed, Works
<1>. QED  BY <1>1, <1>2

\* A thread goes from one place to another.
LEMMA RequestTyped ==
  ASSUME Typed, NEW t \in Threads, Placed(t), Request(t)
  PROVE  Typed' /\ Placed(t)'
<1>1. pc' = [pc EXCEPT ![t] = "begin"] /\ holder' = t
      /\ UNCHANGED <<todo, stage, caPw, step, reads, out, fresh, stdin, known, ca, certs, answer,
                     hurt, missed, misread, doubled, early>>
  BY DEF Request, Goto, process, results, history
<1>2. Typed'
  BY <1>1 DEF Typed, Places
<1>3. pc[t] = "request" /\ pc'[t] = "begin"
  BY <1>1 DEF Typed, Request
<1>4. todo[t] # <<>>
  BY <1>3 DEF Placed
<1>. QED  BY <1>1, <1>2, <1>3, <1>4, Stays DEF Placed, Works

LEMMA BeginTyped ==
  ASSUME Typed, NEW t \in Threads, Placed(t), Begin(t)
  PROVE  Typed' /\ Placed(t)'
<1>1. pc' = [pc EXCEPT ![t] = "wait"] /\ UNCHANGED <<todo, holder, caPw, ca, certs, answer, hurt,
                                                     missed, misread, doubled>>
  BY DEF Begin, Goto, results
<1>2. <<>> \in Seq(Printed) /\ <<>> \in Seq(Line)
  OBVIOUS
<1>3. /\ pc' \in [Threads -> Places] /\ stage' \in [Threads -> Nat] /\ step' \in [Threads -> Nat]
      /\ reads' \in [Threads -> BOOLEAN] /\ fresh' \in [Threads -> BOOLEAN]
      /\ known' \in [Threads -> Threads \cup {None}] /\ early' \subseteq Threads
  BY <1>1 DEF Begin, Typed, Places, Works
<1>4. out' \in [Threads -> Seq(Printed)] /\ stdin' \in [Threads -> Seq(Line)]
  BY <1>2 DEF Begin, Typed
<1>5. Typed'
  BY <1>1, <1>3, <1>4 DEF Typed
<1>6. /\ pc[t] = "begin" /\ pc'[t] = "wait" /\ stage'[t] = 1 /\ step'[t] = 1 /\ reads'[t] = FALSE
      /\ todo'[t] = todo[t]
  BY <1>1 DEF Begin, Typed
<1>7. todo[t] # <<>>
  BY <1>6 DEF Placed
<1>8. /\ Last(Dialog(t)) \in Nat \ {0} /\ Len(Script(t)) \in 1..7
      /\ Dialog(t)' = Dialog(t) /\ Script(t)' = Script(t)
  BY <1>1, <1>6, <1>7, DialogOf, Stays
<1>9. 1 \in 1..(Last(Dialog(t)) + 1) /\ 1 <= Last(Dialog(t)) /\ 1 \in 1..Len(Script(t))
  <2>1. /\ \A x \in Nat \ {0} : 1 \in 1..(x + 1) /\ 1 <= x
        /\ \A x \in 1..7 : 1 \in 1..x
    OBVIOUS
  <2>. QED  BY <1>8, <2>1
<1>. QED  BY <1>1, <1>5, <1>6, <1>7, <1>8, <1>9 DEF Placed, Works

LEMMA ReadTyped ==
  ASSUME Typed, NEW t \in Threads, Placed(t), NEW n \in 1..Len(out[t]), NEW torn \in BOOLEAN,
         Read(t, n, torn)
  PROVE  Typed' /\ Placed(t)'
<1>1. /\ UNCHANGED <<todo, stage, holder, caPw, step, reads, stdin, known, ca, certs, answer,
                     missed, misread, doubled, early>>
      /\ pc[t] = "wait" /\ hurt' \subseteq Threads
  BY DEF Read, results, Typed
<1>2. PICK p \in {"wait", "got", "pause"} :
        /\ pc' = [pc EXCEPT ![t] = p] /\ (p = "got" <=> Dialog(t) = "getuser" /\ p # "wait")
  BY DEF Read, Goto
<1>3. out[t] \in Seq(Printed) /\ n \in 1..Len(out[t])
  BY DEF Typed
<1>4. SubSeq(out[t], n + 1, Len(out[t])) \in Seq(Printed)
  BY <1>3
<1>5. out' \in [Threads -> Seq(Printed)] /\ fresh' \in [Threads -> BOOLEAN]
  BY SMTT(30), <1>4 DEF Read, Typed
<1>6. Typed'
  BY <1>1, <1>2, <1>5 DEF Typed, Places, Works
<1>7. todo[t] # <<>> /\ todo'[t] = todo[t] /\ stage'[t] = stage[t] /\ pc'[t] = p
  BY <1>1, <1>2 DEF Placed, Typed
<1>8. /\ Dialog(t)' = Dialog(t) /\ Script(t)' = Script(t) /\ Stage(t)' = Stage(t)
      /\ Dialog(t) \in Dialogs
  BY <1>1, <1>7, DialogOf, Stays
<1>9. p = "pause" => Dialog(t) \in Talks
  BY <1>2, <1>8 DEF Dialogs, Talks
<1>. QED  BY <1>1, <1>2, <1>6, <1>7, <1>8, <1>9 DEF Placed, Works

LEMMA MoveTyped ==
  ASSUME Typed, NEW t \in Threads, Placed(t), Pause(t) \/ GiveUp(t) \/ FindNoPw(t) \/ Got(t)
  PROVE  Typed' /\ Placed(t)'
<1>1. /\ UNCHANGED <<todo, stage, holder, caPw, step, reads, out, stdin, known, ca, certs,
                     misread, doubled, early>>
      /\ hurt' \subseteq Threads /\ missed' \subseteq Threads
      /\ fresh' \in [Threads -> BOOLEAN] /\ answer' \in [Threads -> {"none", "part", "whole"}]
  BY DEF Pause, GiveUp, FindNoPw, Got, process, results, history, Typed
<1>2. PICK p \in {"write", "got", "make", "finish"} :
        /\ pc' = [pc EXCEPT ![t] = p]
        /\ \/ pc[t] = "pause" /\ p = "write"
           \/ pc[t] = "wait" /\ p = (IF Dialog(t) = "getuser" THEN "got" ELSE "write")
           \/ pc[t] = "write" /\ p = "make" /\ Stage(t).secret
           \/ pc[t] = "got" /\ p = "finish"
  BY DEF Pause, GiveUp, FindNoPw, Got, Goto
<1>3. Typed'
  BY <1>1, <1>2 DEF Typed, Places, Works
<1>4. todo[t] # <<>> /\ todo'[t] = todo[t] /\ stage'[t] = stage[t] /\ pc'[t] = p
  BY <1>1, <1>2 DEF Placed, Typed
<1>5. /\ Dialog(t)' = Dialog(t) /\ Script(t)' = Script(t) /\ Stage(t)' = Stage(t)
      /\ Dialog(t) \in Dialogs
  BY <1>1, <1>4, DialogOf, Stays
<1>6. Dialog(t) # "getuser" <=> Dialog(t) \in Talks
  BY <1>5 DEF Dialogs, Talks
<1>. QED  BY <1>1, <1>2, <1>3, <1>4, <1>5, <1>6 DEF Placed, Works

LEMMA SendTyped ==
  ASSUME Typed, NEW t \in Threads, Placed(t), pc[t] \in {"write", "make"},
         NEW s \in Threads \cup {None}, Send(t, s), caPw' \in Threads \cup {None},
         doubled' \in BOOLEAN
  PROVE  Typed' /\ Placed(t)'
<1>1. /\ UNCHANGED <<todo, holder, step, reads, out, fresh, known, ca, certs, answer, hurt, missed,
                     misread, early>>
      /\ stage' = [stage EXCEPT ![t] = @ + 1]
      /\ pc' = [pc EXCEPT ![t] = IF stage[t] < Len(Stages[Dialog(t)]) THEN "wait" ELSE "finish"]
  BY DEF Send, Goto, results
<1>2. todo[t] # <<>> /\ Dialog(t) \in Talks /\ stage[t] \in 1..Last(Dialog(t))
  <2>1. /\ todo[t] # <<>> /\ Dialog(t) \in Talks /\ stage[t] \in 1..(Last(Dialog(t)) + 1)
        /\ stage[t] <= Last(Dialog(t))
    BY DEF Placed, Works
  <2>2. Last(Dialog(t)) \in Nat
    BY <2>1, DialogOf
  <2>. QED  BY <2>1, <2>2
<1>3. Len(Stages[Dialog(t)]) = Last(Dialog(t)) /\ Stage(t) \in Wait /\ Last(Dialog(t)) \in Nat
  BY <1>2, DialogOf
<1>4. [for |-> Stage(t).marker, secret |-> s] \in Line
  BY <1>3 DEF Wait, Line
<1>5. stdin' \in [Threads -> Seq(Line)]
  <2> DEFINE l == [for |-> Stage(t).marker, secret |-> s]
  <2>1. stdin' = [stdin EXCEPT ![t] = IF step[t] = Ended THEN @ ELSE Append(@, l)]
    BY DEF Send
  <2>2. l \in Line
    BY <1>4
  <2> HIDE DEF l
  <2>. QED  BY <2>1, <2>2 DEF Typed
<1>6. Typed'
  <2>1. pc' \in [Threads -> Places] /\ stage' \in [Threads -> Nat]
    <3>1. PICK p \in {"wait", "finish"} : pc' = [pc EXCEPT ![t] = p]
      BY <1>1
    <3>2. \A k \in Nat : k + 1 \in Nat
      OBVIOUS
    <3>. QED  BY <1>1, <3>1, <3>2 DEF Typed, Places, Works
  <2>. QED  BY <1>1, <1>5, <2>1 DEF Typed
<1>7. /\ todo'[t] = todo[t] /\ stage'[t] = stage[t] + 1
      /\ pc'[t] = IF stage[t] < Last(Dialog(t)) THEN "wait" ELSE "finish"
  BY <1>1, <1>3 DEF Typed
<1>8. Dialog(t)' = Dialog(t) /\ Script(t)' = Script(t)
  BY <1>1, <1>7, Stays
<1>9. /\ stage'[t] \in 1..(Last(Dialog(t)) + 1)
      /\ pc'[t] = "wait" => stage'[t] <= Last(Dialog(t))
      /\ pc'[t] = "finish" => stage'[t] = Last(Dialog(t)) + 1
      /\ pc'[t] \in {"wait", "finish"}
  BY <1>2, <1>3, <1>7
<1>. QED  BY <1>1, <1>2, <1>6, <1>7, <1>8, <1>9 DEF Placed, Works

LEMMA WriteTyped ==
  ASSUME Typed, NEW t \in Threads, Placed(t), Write(t) \/ MakePw(t)
  PROVE  Typed' /\ Placed(t)'
<1>1. PICK s \in Threads \cup {None} : Send(t, s)
  BY DEF Write, MakePw, Typed
<1>2. /\ pc[t] \in {"write", "make"} /\ caPw' \in Threads \cup {None}
  BY DEF Write, MakePw, Typed
<1>3. doubled' \in BOOLEAN
  BY DEF Write, MakePw, Typed
<1>. QED  BY <1>1, <1>2, <1>3, SendTyped

LEMMA FinishTyped ==
  ASSUME Typed, NEW t \in Threads, Placed(t), Finish(t)
  PROVE  Typed' /\ Placed(t)'
<1>1. /\ UNCHANGED <<todo, stage, holder, caPw, out, fresh, stdin, known, ca, certs, answer,
                     missed, misread, doubled, early>>
      /\ pc[t] = "finish" /\ pc' = [pc EXCEPT ![t] = "next"] /\ hurt' \subseteq Threads
      /\ step' = [step EXCEPT ![t] = Ended] /\ reads' = [reads EXCEPT ![t] = FALSE]
  BY DEF Finish, Goto, results, Typed
<1>2. Typed'
  BY <1>1 DEF Typed, Places, Ended
<1>3. /\ pc'[t] = "next" /\ todo'[t] = todo[t] /\ step'[t] = Ended /\ reads'[t] = FALSE
      /\ todo[t] # <<>>
  BY <1>1 DEF Typed, Placed
<1>. QED  BY <1>2, <1>3 DEF Placed, Works

LEMMA NextDialogTyped ==
  ASSUME Typed, NEW t \in Threads, Placed(t), NextDialog(t)
  PROVE  Typed' /\ Placed(t)'
<1>1. /\ UNCHANGED <<stage, caPw, step, reads, out, fresh, stdin, known, ca, certs, answer, hurt,
                     missed, misread, doubled, early>>
      /\ pc[t] = "next" /\ todo' = [todo EXCEPT ![t] = Tail(@)]
      /\ holder' \in Threads \cup {None}
  BY DEF NextDialog, process, results, history, Typed
<1>2. todo[t] \in Todo /\ todo[t] # <<>>
  BY <1>1 DEF Typed, Placed
<1>3. todo'[t] = Tail(todo[t]) /\ Tail(todo[t]) \in Todo
  BY <1>1, <1>2, Todos DEF Typed
<1>4. PICK p \in {"done", "request", "begin"} :
        /\ pc' = [pc EXCEPT ![t] = p]
        /\ p = "done" <=> Over(t)
        /\ p = "request" <=> Dialog(t) = "initpki"
  <2>1. Over(t) <=> Dialog(t) = "getuser"
    BY <1>2, Todos DEF Over, Dialog
  <2>. QED  BY <2>1 DEF NextDialog, Goto
<1>5. Typed'
  BY <1>1, <1>3, <1>4 DEF Typed, Places
<1>6. /\ pc'[t] = p /\ step'[t] = Ended /\ reads'[t] = FALSE
      /\ p = "done" <=> todo'[t] = <<>>
      /\ p = "request" => todo'[t] = <<"adduser", "getuser">>
  <2>1. pc'[t] = p /\ step'[t] = Ended /\ reads'[t] = FALSE
    BY <1>1, <1>4 DEF Typed, Placed, Works
  <2>2. Tail(todo[t]) = <<>> <=> Over(t)
    BY <1>2, Todos DEF Over
  <2>3. Dialog(t) = "initpki" => Tail(todo[t]) = <<"adduser", "getuser">>
    BY <1>2, Todos DEF Dialog
  <2>. QED  BY <2>1, <2>2, <2>3, <1>3, <1>4
<1>. QED  BY <1>4, <1>5, <1>6 DEF Placed, Works

\* A process goes on only inside a dialog.
LEMMA AtWork ==
  ASSUME Typed, NEW t \in Threads, Placed(t), step[t] # Ended
  PROVE  /\ pc[t] \in Works /\ todo[t] # <<>> /\ Dialog(t) \in Dialogs
         /\ step[t] \in 1..Len(Script(t)) /\ Len(Script(t)) \in 1..7
         /\ Script(t)[step[t]] \in Printed
         /\ Dialog(t) \in Talks => Script(t) = Scripts[Dialog(t)]
         /\ Dialog(t) = "getuser" => Script(t)[step[t]].for = ""
         /\ stage[t] \in 1..(Last(Dialog(t)) + 1)
<1>1. pc[t] \in Works /\ todo[t] # <<>> /\ step[t] \in 1..Len(Script(t))
  BY DEF Placed, Works
<1>2. stage[t] \in 1..(Last(Dialog(t)) + 1)
  BY <1>1 DEF Placed
<1>. QED  BY <1>1, <1>2, DialogOf

LEMMA PrintsTyped ==
  ASSUME Typed, NEW t \in Threads, Placed(t), Prints(t)
  PROVE  Typed' /\ Placed(t)'
<1> DEFINE text == Script(t)[step[t]]
<1>1. /\ UNCHANGED <<pc, todo, stage, holder, caPw, stdin, known, ca, certs, answer, hurt,
                     missed, misread, doubled, early>>
      /\ step[t] # Ended /\ ~reads[t]
      /\ out' = [out EXCEPT ![t] = Append(@, text)] /\ fresh' = [fresh EXCEPT ![t] = TRUE]
      /\ reads' = [reads EXCEPT ![t] = text.for # ""]
      /\ step' = [step EXCEPT ![t] = IF text.for # "" THEN @
                                     ELSE IF @ = Len(Script(t)) THEN Ended ELSE @ + 1]
  BY DEF Prints, thread, results, history
<1>2. text \in Printed /\ step[t] \in 1..Len(Script(t)) /\ Len(Script(t)) \in 1..7
  BY <1>1, AtWork
<1>3. out' \in [Threads -> Seq(Printed)]
  <2>1. \A q \in Seq(Printed) : Append(q, text) \in Seq(Printed)
    BY <1>2
  <2>2. Append(out[t], text) \in Seq(Printed)
    BY <2>1 DEF Typed
  <2>. QED  BY <1>1, <2>2 DEF Typed
<1>4. fresh' \in [Threads -> BOOLEAN]
  BY <1>1 DEF Typed
<1>5. PICK s \in Nat, b \in BOOLEAN :
        /\ step' = [step EXCEPT ![t] = s] /\ reads' = [reads EXCEPT ![t] = b]
        /\ s # Ended => s \in 1..Len(Script(t))
        /\ s = Ended => b = FALSE
        /\ b = TRUE => Script(t)[s].for # ""
  <2>1. step[t] # 99 /\ step[t] \in Nat
    BY <1>1 DEF Ended, Typed
  <2>2. CASE text.for # ""
    <3>1. step' = [step EXCEPT ![t] = step[t]] /\ reads' = [reads EXCEPT ![t] = TRUE]
      BY <1>1, <2>2
    <3>. QED  BY <1>2, <2>1, <2>2, <3>1 DEF Ended
  <2>3. CASE text.for = "" /\ step[t] = Len(Script(t))
    <3>1. step' = [step EXCEPT ![t] = Ended] /\ reads' = [reads EXCEPT ![t] = FALSE]
      BY <1>1, <2>3
    <3>. QED  BY <3>1 DEF Ended
  <2>4. CASE text.for = "" /\ step[t] # Len(Script(t))
    <3>1. step' = [step EXCEPT ![t] = step[t] + 1] /\ reads' = [reads EXCEPT ![t] = FALSE]
      BY <1>1, <2>4
    <3>2. \A x \in 1..7 : \A y \in 1..x : y # x =>
            y + 1 \in Nat /\ y + 1 \in 1..x /\ y + 1 # 99
      OBVIOUS
    <3>3. /\ step[t] + 1 \in Nat /\ step[t] + 1 \in 1..Len(Script(t))
          /\ step[t] + 1 # Ended
      <4> DEFINE m == Len(Script(t))
      <4>1. m \in 1..7 /\ step[t] \in 1..m /\ step[t] # m
        BY <1>2, <2>4
      <4> HIDE DEF m
      <4>2. step[t] + 1 \in Nat /\ step[t] + 1 \in 1..m /\ step[t] + 1 # 99
        BY <4>1, <3>2
      <4>. QED  BY <4>2 DEF m, Ended
    <3>. QED  BY <3>1, <3>2, <3>3
  <2>. QED  BY <2>2, <2>3, <2>4
<1> HIDE DEF text
<1>6. Typed'
  <2>1. step' \in [Threads -> Nat] /\ reads' \in [Threads -> BOOLEAN]
    BY <1>5 DEF Typed
  <2>. QED  BY <1>1, <1>3, <1>4, <2>1 DEF Typed
<1>7. /\ pc'[t] = pc[t] /\ todo'[t] = todo[t] /\ stage'[t] = stage[t] /\ step'[t] = s
      /\ reads'[t] = b
      /\ Dialog(t)' = Dialog(t) /\ Stage(t)' = Stage(t) /\ Script(t)' = Script(t)
      /\ pc[t] \in Works
  BY <1>1, <1>5, Stays, AtWork DEF Typed
<1>. QED  BY <1>5, <1>6, <1>7 DEF Placed

LEMMA ReadLineTyped ==
  ASSUME Typed, NEW t \in Threads, Placed(t), ReadLine(t)
  PROVE  Typed' /\ Placed(t)'
<1> DEFINE text == Script(t)[step[t]]
           line == Head(stdin[t])
<1>1. /\ UNCHANGED <<pc, todo, stage, holder, caPw, out, fresh, answer, hurt, missed, doubled,
                     early>>
      /\ reads[t] /\ stdin[t] # <<>> /\ reads' = [reads EXCEPT ![t] = FALSE]
      /\ ca' = (IF text.name = "name" THEN known[t] ELSE ca)
      /\ certs' \subseteq Threads /\ misread' \subseteq Threads
      /\ Dialog(t) # "adduser" => certs' = certs
      /\ known' = [known EXCEPT ![t] = IF text.name = "new" THEN line.secret ELSE @]
  BY DEF ReadLine, thread, Typed
<1>2. step[t] # Ended
  BY <1>1 DEF Placed
<1>3. step[t] \in 1..Len(Script(t)) /\ Len(Script(t)) \in 1..7 /\ pc[t] \in Works
  BY <1>2, AtWork
<1>4. stdin[t] \in Seq(Line) /\ line \in Line /\ Tail(stdin[t]) \in Seq(Line) /\ <<>> \in Seq(Line)
  BY <1>1 DEF Typed
<1>5. known' \in [Threads -> Threads \cup {None}] /\ ca' \in Threads \cup {None}
  <2>1. line.secret \in Threads \cup {None}
    BY <1>4 DEF Line
  <2> HIDE DEF line, text
  <2>. QED  BY <1>1, <2>1 DEF Typed
<1>6. stdin' \in [Threads -> Seq(Line)]
  <2>1. PICK r \in {Tail(stdin[t]), <<>>} : stdin' = [stdin EXCEPT ![t] = r]
    BY DEF ReadLine
  <2>. QED  BY <1>4, <2>1 DEF Typed
<1>7. PICK s \in Nat : /\ step' = [step EXCEPT ![t] = s]
                       /\ s = Ended \/ (step[t] # Len(Script(t)) /\ s = step[t] + 1)
  <2>1. \/ step' = [step EXCEPT ![t] = Ended]
        \/ step[t] # Len(Script(t)) /\ step' = [step EXCEPT ![t] = step[t] + 1]
    BY DEF ReadLine
  <2>2. Ended \in Nat /\ step[t] + 1 \in Nat
    BY SMTT(30) DEF Ended, Typed
  <2>. QED  BY <2>1, <2>2
<1> HIDE DEF text, line
<1>8. Typed'
  BY <1>1, <1>5, <1>6, <1>7 DEF Typed
<1>9. /\ pc'[t] = pc[t] /\ todo'[t] = todo[t] /\ stage'[t] = stage[t] /\ step'[t] = s
      /\ reads'[t] = FALSE
      /\ Dialog(t)' = Dialog(t) /\ Stage(t)' = Stage(t) /\ Script(t)' = Script(t)
  <2>1. /\ pc'[t] = pc[t] /\ todo'[t] = todo[t] /\ stage'[t] = stage[t] /\ step'[t] = s
        /\ reads'[t] = FALSE
    BY <1>1, <1>7 DEF Typed
  <2>. QED  BY <1>1, <2>1, Stays
<1>10. s # Ended => s \in 1..Len(Script(t))
  BY <1>3, <1>7
<1>. QED  BY <1>3, <1>8, <1>9, <1>10 DEF Placed

LEMMA DiesTyped ==
  ASSUME Typed, NEW t \in Threads, Placed(t), Dies(t)
  PROVE  Typed' /\ Placed(t)'
<1>1. /\ UNCHANGED <<pc, todo, stage, holder, caPw, out, fresh, stdin, known, ca, certs, answer,
                     missed, misread, doubled, early>>
      /\ step[t] # Ended /\ hurt' \subseteq Threads
      /\ step' = [step EXCEPT ![t] = Ended] /\ reads' = [reads EXCEPT ![t] = FALSE]
  BY DEF Dies, thread, results, Typed
<1>2. Typed'
  BY <1>1 DEF Typed, Ended
<1>3. /\ pc'[t] = pc[t] /\ todo'[t] = todo[t] /\ stage'[t] = stage[t] /\ step'[t] = Ended
      /\ reads'[t] = FALSE
      /\ Dialog(t)' = Dialog(t) /\ Stage(t)' = Stage(t) /\ Script(t)' = Script(t)
  BY <1>1, Stays DEF Typed
<1>. QED  BY <1>2, <1>3 DEF Placed

\* What a step of one thread or of its process leaves alone.
Same(u) ==
  /\ pc'[u] = pc[u] /\ todo'[u] = todo[u] /\ stage'[u] = stage[u] /\ step'[u] = step[u]
  /\ reads'[u] = reads[u] /\ out'[u] = out[u] /\ fresh'[u] = fresh[u] /\ stdin'[u] = stdin[u]
  /\ known'[u] = known[u] /\ answer'[u] = answer[u]
  /\ u \in certs' <=> u \in certs
  /\ u \in hurt' <=> u \in hurt
  /\ u \in early' <=> u \in early

LEMMA Elsewhere ==
  ASSUME Typed, NEW t \in Threads, NEW u \in Threads \ {t}, Thread(t) \/ Process(t)
  PROVE  Same(u)
<1>1. CASE Request(t)
  BY <1>1 DEF Typed, Request, Goto, process, results, history, Same
<1>2. CASE Begin(t)
  BY <1>2 DEF Typed, Begin, Goto, results, Same
<1>3. CASE \E n \in 1..Len(out[t]), torn \in BOOLEAN : Read(t, n, torn)
  BY <1>3 DEF Typed, Read, Goto, results, Same
<1>4. CASE Pause(t)
  BY <1>4 DEF Typed, Pause, Goto, results, Same
<1>5. CASE GiveUp(t)
  BY <1>5 DEF Typed, GiveUp, Goto, process, results, Same
<1>6. CASE Write(t)
  BY <1>6 DEF Typed, Write, Send, Goto, results, Same
<1>7. CASE MakePw(t)
  BY <1>7 DEF Typed, MakePw, Send, Goto, results, Same
<1>8. CASE FindNoPw(t)
  BY <1>8 DEF Typed, FindNoPw, Goto, process, results, history, Same
<1>9. CASE Got(t)
  BY <1>9 DEF Typed, Got, Goto, process, history, Same
<1>10. CASE Finish(t)
  BY <1>10 DEF Typed, Finish, Goto, results, Same
<1>11. CASE NextDialog(t)
  BY <1>11 DEF Typed, NextDialog, Goto, process, results, history, Same
<1>12. CASE Prints(t)
  BY <1>12 DEF Typed, Prints, thread, results, history, Same
<1>13. CASE ReadLine(t)
  <2>1. /\ UNCHANGED <<pc, todo, stage, out, fresh, answer, hurt, early>>
        /\ reads'[u] = reads[u] /\ (u \in certs' <=> u \in certs)
    BY <1>13 DEF ReadLine, thread, Typed
  <2>2. \E r : stdin' = [stdin EXCEPT ![t] = r]
    BY <1>13 DEF ReadLine
  <2>3. \E r : step' = [step EXCEPT ![t] = r]
    BY <1>13 DEF ReadLine
  <2>4. \E r : known' = [known EXCEPT ![t] = r]
    BY <1>13 DEF ReadLine
  <2>. QED  BY <2>1, <2>2, <2>3, <2>4 DEF Same, Typed
<1>14. CASE Dies(t)
  BY <1>14 DEF Typed, Dies, thread, results, Same
<1>. QED  BY <1>1, <1>2, <1>3, <1>4, <1>5, <1>6, <1>7, <1>8, <1>9, <1>10, <1>11, <1>12,
             <1>13, <1>14 DEF Thread, Process

LEMMA ElsewherePlaced ==
  ASSUME NEW u, Same(u), Placed(u)
  PROVE  /\ Placed(u)'
         /\ Dialog(u)' = Dialog(u) /\ Stage(u)' = Stage(u) /\ Script(u)' = Script(u)
<1>1. Dialog(u)' = Dialog(u) /\ Stage(u)' = Stage(u) /\ Script(u)' = Script(u)
  BY Stays DEF Same
<1>. QED  BY <1>1 DEF Same, Placed

LEMMA StepTyped ==
  ASSUME Typed, NEW t \in Threads, Placed(t), Thread(t) \/ Process(t)
  PROVE  Typed' /\ Placed(t)'
<1>1. CASE \E n \in 1..Len(out[t]), torn \in BOOLEAN : Read(t, n, torn)
  BY <1>1, ReadTyped
<1>2. CASE Process(t)
  BY <1>2, PrintsTyped, ReadLineTyped, DiesTyped DEF Process
<1>3. CASE Thread(t) /\ ~\E n \in 1..Len(out[t]), torn \in BOOLEAN : Read(t, n, torn)
  BY <1>3, RequestTyped, BeginTyped, MoveTyped, WriteTyped, FinishTyped, NextDialogTyped
     DEF Thread
<1>. QED  BY <1>1, <1>2, <1>3

AllPlaced == \A t \in Threads : Placed(t)

LEMMA NextTyped == Typed /\ AllPlaced /\ [Next]_vars => Typed' /\ AllPlaced'
<1> SUFFICES ASSUME Typed, AllPlaced, [Next]_vars  PROVE Typed' /\ AllPlaced'
  OBVIOUS
<1>1. CASE UNCHANGED vars
  <2>1. UNCHANGED <<pc, todo, stage, holder, caPw, step, reads, out, fresh, stdin, known, ca, certs,
                    answer, hurt, missed, misread, doubled, early>>
    BY <1>1 DEF vars, thread, process, results, history
  <2>2. \A u \in Threads : Same(u)
    BY <2>1 DEF Same
  <2>. QED  BY <2>1, <2>2, ElsewherePlaced DEF Typed, AllPlaced
<1>2. ASSUME NEW t \in Threads, Thread(t) \/ Process(t)  PROVE Typed' /\ AllPlaced'
  <2>1. Typed' /\ Placed(t)'
    BY <1>2, StepTyped DEF AllPlaced
  <2>2. \A u \in Threads \ {t} : Placed(u)'
    BY <1>2, Elsewhere, ElsewherePlaced DEF AllPlaced
  <2>. QED  BY <2>1, <2>2 DEF AllPlaced
<1>. QED  BY <1>1, <1>2 DEF Next

-----------------------------------------------------------------------------
(* Passwords *)

\* Every line of q has its password in S.
Secrets(q, S) == \A i \in DOMAIN q : q[i].secret \in S

LEMMA SecretsOf ==
  ASSUME NEW q \in Seq(Line), NEW S, Secrets(q, S)
  PROVE  /\ Secrets(<<>>, S)
         /\ q # <<>> => Secrets(Tail(q), S) /\ Head(q).secret \in S
         /\ \A l \in Line : l.secret \in S => Secrets(Append(q, l), S)
<1>1. Secrets(<<>>, S)
  BY DEF Secrets
<1>2. ASSUME q # <<>>  PROVE Secrets(Tail(q), S) /\ Head(q).secret \in S
  <2>1. /\ Head(q) = q[1] /\ 1 \in DOMAIN q
        /\ \A i \in DOMAIN Tail(q) : i + 1 \in DOMAIN q /\ Tail(q)[i] = q[i + 1]
    BY <1>2
  <2>. QED  BY <2>1 DEF Secrets
<1>3. ASSUME NEW l \in Line, l.secret \in S  PROVE Secrets(Append(q, l), S)
  <2>1. \A i \in DOMAIN Append(q, l) :
          (i \in DOMAIN q /\ Append(q, l)[i] = q[i]) \/ Append(q, l)[i] = l
    OBVIOUS
  <2>. QED  BY <1>3, <2>1 DEF Secrets
<1>. QED  BY <1>1, <1>2, <1>3

\* easy-rsa has been told a password before it makes a CA; the dialog that adds a user
\* writes passwords only, and knows when it began without a CA.
Kept(t) ==
  /\ pc[t] \in Works /\ Dialog(t) = "initpki" /\ step[t] \in 2..7 => known[t] # None
  /\ pc[t] \in Works /\ Dialog(t) = "adduser" => Secrets(stdin[t], Threads)
  /\ pc[t] \in Works /\ Dialog(t) = "adduser" /\ t \notin early => ca # None

\* Unless two were made, there is one password: whatever was written, told or used is that.
Passwords ==
  ~doubled => /\ ca \in {None, caPw}
              /\ \A t \in Threads :
                   /\ known[t] \in {None, caPw}
                   /\ Secrets(stdin[t], {None, caPw})
                   /\ pc[t] = "make" => caPw = None

\* The process tells the CA's password to nobody: only the name makes a CA, with the
\* password it was told, and only the first prompt is told one.
LEMMA ReadsPassword ==
  ASSUME Typed, NEW t \in Threads, Placed(t), Kept(t), ReadLine(t)
  PROVE  /\ UNCHANGED <<pc, todo, stage, caPw, doubled, early, hurt>>
         /\ ca' \in {ca, known[t]} /\ (ca # None => ca' # None)
         /\ \E s \in {known[t], Head(stdin[t]).secret} : known' = [known EXCEPT ![t] = s]
         /\ \E r \in {Tail(stdin[t]), <<>>} : stdin' = [stdin EXCEPT ![t] = r]
         /\ stdin[t] # <<>>
         /\ Dialog(t) = "initpki" /\ step'[t] \in 2..7 => known'[t] # None
<1> DEFINE text == Script(t)[step[t]]
           line == Head(stdin[t])
<1>1. /\ UNCHANGED <<pc, todo, stage, caPw, doubled, early, hurt>> /\ reads[t] /\ stdin[t] # <<>>
      /\ ca' = (IF text.name = "name" THEN known[t] ELSE ca)
      /\ known' = [known EXCEPT ![t] = IF text.name = "new" THEN line.secret ELSE @]
      /\ \E r \in {Tail(stdin[t]), <<>>} : stdin' = [stdin EXCEPT ![t] = r]
  BY DEF ReadLine, thread
<1>2. step[t] # Ended
  BY <1>1 DEF Placed
<1>3. /\ pc[t] \in Works /\ Dialog(t) \in Dialogs /\ step[t] \in 1..Len(Script(t))
      /\ Dialog(t) \in Talks /\ Script(t) = Scripts[Dialog(t)]
  <2>1. text.for # ""
    BY <1>1 DEF Placed
  <2>2. Dialog(t) # "getuser"
    BY <1>2, <2>1, AtWork
  <2>. QED  BY <1>2, <2>2, AtWork DEF Dialogs, Talks
<1>4. \/ step'[t] = Ended
      \/ step'[t] = step[t] + 1 /\ Accepts(t, text, line)
  BY DEF ReadLine, Typed
<1> DEFINE Good == /\ ca' \in {ca, known[t]} /\ (ca # None => ca' # None)
                   /\ Dialog(t) = "initpki" /\ step'[t] \in 2..7 => known'[t] # None
<1>5. ASSUME Dialog(t) = "initpki"  PROVE Good
  <2>1. /\ step[t] \in 1..7 /\ (text.name = "new" <=> step[t] = 1)
        /\ text.name = "name" <=> step[t] = 3
    BY ZenonT(40), <1>3, <1>5, ScriptTexts
  <2>2. CASE step[t] = 1
    <3>1. known'[t] = line.secret /\ ca' = ca
      BY <1>1, <2>1, <2>2 DEF Typed
    <3>2. step'[t] = Ended \/ line.secret # None
      BY <1>4, <2>1, <2>2 DEF Accepts
    <3>3. Ended \notin 2..7
      BY DEF Ended
    <3>. QED  BY <3>1, <3>2, <3>3
  <2>3. CASE step[t] # 1
    <3>1. known'[t] = known[t] /\ known[t] # None
      BY <1>1, <1>3, <1>5, <2>1, <2>3 DEF Typed, Kept
    <3>. QED  BY <1>1, <2>1, <2>3, <3>1
  <2>. QED  BY <2>2, <2>3
<1>6. ASSUME Dialog(t) = "adduser"  PROVE Good
  <2>1. text.name # "new" /\ text.name # "name"
    BY ZenonT(40), <1>3, <1>6, ScriptTexts
  <2>. QED  BY <1>1, <1>6, <2>1
<1>7. \E s \in {known[t], line.secret} : known' = [known EXCEPT ![t] = s]
  BY <1>1
<1>. QED  BY <1>1, <1>3, <1>5, <1>6, <1>7 DEF Talks

\* A line that a thread writes.
LEMMA SendsPassword ==
  ASSUME Typed, NEW t \in Threads, Placed(t), Write(t) \/ MakePw(t)
  PROVE  /\ UNCHANGED <<todo, step, known, ca, early>> /\ pc[t] \in {"write", "make"}
         /\ pc'[t] \in {"wait", "finish"}
         /\ \E l \in Line :
              /\ l.secret \in {None, caPw'} /\ l.for = Stage(t).marker
              /\ Dialog(t) = "adduser" => l.secret \in Threads
              /\ stdin' = [stdin EXCEPT ![t] = IF step[t] = Ended THEN @ ELSE Append(@, l)]
<1>1. PICK s \in Threads \cup {None} :
        Send(t, s) /\ s \in {None, caPw'} /\ (Stage(t).secret => s # None)
  <2>1. CASE Write(t)
    BY <2>1 DEF Write, NoPw, Typed
  <2>2. CASE MakePw(t)
    BY <2>2, PkiAssumption DEF MakePw
  <2>. QED  BY <2>1, <2>2
<1>2. pc[t] \in {"write", "make"}
  BY DEF Write, MakePw
<1>3. stage[t] \in 1..Last(Dialog(t)) /\ todo[t] # <<>>
  <2>1. /\ todo[t] # <<>> /\ stage[t] \in 1..(Last(Dialog(t)) + 1) /\ stage[t] <= Last(Dialog(t))
    BY <1>2 DEF Placed, Works
  <2>2. Last(Dialog(t)) \in Nat
    BY <2>1, DialogOf
  <2>. QED  BY <2>1, <2>2
<1>4. Stage(t) \in Wait /\ (Dialog(t) = "adduser" => Stage(t).secret)
  BY <1>3, DialogOf
<1> DEFINE l == [for |-> Stage(t).marker, secret |-> s]
<1>5. l \in Line /\ l.secret = s /\ l.for = Stage(t).marker
  BY <1>4 DEF Wait, Line
<1>6. /\ UNCHANGED <<todo, step, known, ca, early>>
      /\ stdin' = [stdin EXCEPT ![t] = IF step[t] = Ended THEN @ ELSE Append(@, l)]
      /\ pc' = [pc EXCEPT ![t] = IF stage[t] < Len(Stages[Dialog(t)]) THEN "wait" ELSE "finish"]
  BY <1>1 DEF Send, Goto, results
<1>7. pc'[t] \in {"wait", "finish"}
  BY <1>6 DEF Typed
<1> HIDE DEF l
<1>. QED  BY <1>1, <1>2, <1>4, <1>5, <1>6, <1>7

LEMMA InitPasswords == Init => Passwords /\ \A t \in Threads : Kept(t)
<1> SUFFICES ASSUME Init  PROVE Passwords /\ \A t \in Threads : Kept(t)
  OBVIOUS
<1>1. \A t \in Threads : /\ pc[t] \notin Works /\ pc[t] # "make" /\ known[t] = None
                         /\ Secrets(stdin[t], {None, caPw})
  <2> SUFFICES ASSUME NEW t \in Threads
               PROVE  /\ pc[t] \notin Works /\ pc[t] # "make" /\ known[t] = None
                      /\ Secrets(stdin[t], {None, caPw})
    OBVIOUS
  <2>1. pc[t] \in {"begin", "request"} /\ known[t] = None /\ stdin[t] = <<>>
    BY DEF Init
  <2>2. Secrets(<<>>, {None, caPw})
    BY DEF Secrets
  <2>. QED  BY <2>1, <2>2 DEF Works
<1>. QED  BY <1>1 DEF Init, Kept, Passwords

\* Most steps write nothing and tell nothing.
Silent(t) == UNCHANGED <<caPw, ca, doubled, known, stdin>>

LEMMA SilentSteps ==
  ASSUME Typed, NEW t \in Threads, Placed(t), Kept(t),
         Request(t) \/ Pause(t) \/ GiveUp(t) \/ FindNoPw(t) \/ Got(t) \/ Finish(t)
           \/ NextDialog(t) \/ Prints(t) \/ Dies(t)
           \/ \E n \in 1..Len(out[t]), torn \in BOOLEAN : Read(t, n, torn)
  PROVE  Silent(t) /\ Kept(t)' /\ (pc'[t] = "make" => pc[t] = "make" \/ caPw = None)
<1>1. CASE \/ Pause(t) \/ GiveUp(t) \/ FindNoPw(t) \/ Got(t)
           \/ \E n \in 1..Len(out[t]), torn \in BOOLEAN : Read(t, n, torn)
  <2>1. /\ Silent(t) /\ UNCHANGED <<todo, step, early>> /\ pc[t] \in Works
        /\ pc'[t] = "make" => caPw = None
    BY <1>1 DEF Pause, GiveUp, FindNoPw, Got, Read, Silent, process, results, history, Works, Goto,
       NoPw, Typed
  <2>. QED  BY <2>1, Stays DEF Kept, Silent
<1>2. CASE Request(t) \/ Finish(t) \/ NextDialog(t)
  <2>1. Silent(t) /\ pc'[t] \notin Works
    BY <1>2 DEF Request, Finish, NextDialog, Silent, process, results, history, Goto, Typed, Works
  <2>. QED  BY <2>1 DEF Kept, Works
<1>3. CASE Prints(t)
  <2>1. /\ Silent(t) /\ UNCHANGED <<pc, todo, stage, early>> /\ step[t] # Ended
        /\ \/ step'[t] \in {step[t], Ended}
           \/ step'[t] = step[t] + 1 /\ Script(t)[step[t]].for = ""
    BY <1>3 DEF Prints, Silent, thread, results, history, Typed
  <2>2. /\ step[t] \in 1..Len(Script(t))
        /\ Dialog(t) \in Talks => Script(t) = Scripts[Dialog(t)]
    BY <2>1, AtWork
  <2>3. ASSUME Dialog(t) = "initpki", step'[t] \in 2..7  PROVE step[t] \in 2..7
    <3>1. step[t] \in 1..7
      BY <2>2, <2>3, ScriptTexts DEF Talks
    <3>2. ASSUME step[t] = 1  PROVE FALSE
      <4>1. Script(t)[1].for = "new"
        BY <2>2, <2>3, InitPkiScript DEF Talks
      <4>2. "new" # ""
        OBVIOUS
      <4>3. step'[t] \in {step[t], Ended}
        BY <2>1, <3>2, <4>1, <4>2
      <4>4. 1 \notin 2..7 /\ Ended \notin 2..7
        BY DEF Ended
      <4>. QED  BY <2>3, <3>2, <4>3, <4>4
    <3>. QED  BY <3>1, <3>2
  <2>. QED  BY <2>1, <2>3, Stays DEF Kept, Silent
<1>4. CASE Dies(t)
  <2>1. /\ Silent(t) /\ UNCHANGED <<pc, todo, stage, early>> /\ step'[t] = Ended
    BY <1>4 DEF Dies, Silent, thread, results, Typed
  <2>2. Ended \notin 2..7
    BY DEF Ended
  <2>. QED  BY <2>1, <2>2, Stays DEF Kept, Silent
<1>. QED  BY <1>1, <1>2, <1>3, <1>4

LEMMA BeginKept ==
  ASSUME Typed, NEW t \in Threads, Placed(t), Begin(t)
  PROVE  /\ Kept(t)' /\ UNCHANGED <<caPw, ca, doubled>> /\ pc'[t] # "make"
         /\ known' = [known EXCEPT ![t] = None] /\ stdin' = [stdin EXCEPT ![t] = <<>>]
<1>1. /\ UNCHANGED <<caPw, ca, doubled, todo>> /\ pc'[t] = "wait" /\ step'[t] = 1
      /\ known' = [known EXCEPT ![t] = None] /\ stdin' = [stdin EXCEPT ![t] = <<>>]
      /\ stdin'[t] = <<>>
      /\ Dialog(t) = "adduser" /\ ca = None => t \in early'
  BY DEF Begin, Goto, results, Typed
<1>2. Secrets(stdin'[t], Threads)
  BY <1>1 DEF Secrets
<1>. QED  BY <1>1, <1>2, Stays DEF Kept

LEMMA SendKept ==
  ASSUME Typed, NEW t \in Threads, Placed(t), Kept(t), Write(t) \/ MakePw(t)
  PROVE  Kept(t)'
<1>1. /\ UNCHANGED <<todo, step, known, ca, early>> /\ pc[t] \in Works
  BY SendsPassword DEF Works
<1>2. Dialog(t) = "adduser" /\ Secrets(stdin[t], Threads) => Secrets(stdin'[t], Threads)
  <2>1. PICK l \in Line :
          /\ Dialog(t) = "adduser" => l.secret \in Threads
          /\ stdin' = [stdin EXCEPT ![t] = IF step[t] = Ended THEN @ ELSE Append(@, l)]
    BY SendsPassword
  <2>2. stdin'[t] \in {stdin[t], Append(stdin[t], l)} /\ stdin[t] \in Seq(Line)
    BY <2>1 DEF Typed
  <2>. QED  BY <2>1, <2>2, SecretsOf
<1>. QED  BY <1>1, <1>2, Stays DEF Kept

LEMMA ReadLineKept ==
  ASSUME Typed, NEW t \in Threads, Placed(t), Kept(t), ReadLine(t)
  PROVE  Kept(t)'
<1>1. /\ UNCHANGED <<pc, todo, early>> /\ (ca # None => ca' # None)
      /\ Dialog(t) = "initpki" /\ step'[t] \in 2..7 => known'[t] # None
      /\ stdin[t] # <<>>
  BY ReadsPassword
<1>2. Secrets(stdin[t], Threads) => Secrets(stdin'[t], Threads)
  <2>1. PICK r \in {Tail(stdin[t]), <<>>} : stdin' = [stdin EXCEPT ![t] = r]
    BY ReadsPassword
  <2>2. stdin'[t] \in {Tail(stdin[t]), <<>>} /\ stdin[t] \in Seq(Line)
    BY <2>1 DEF Typed
  <2>3. Secrets(<<>>, Threads)
    BY DEF Secrets
  <2>4. Secrets(stdin[t], Threads) => Secrets(Tail(stdin[t]), Threads)
    BY <1>1, <2>2, SecretsOf
  <2>. QED  BY <2>2, <2>3, <2>4
<1>. QED  BY <1>1, <1>2, Stays DEF Kept

LEMMA StepKept ==
  ASSUME Typed, NEW t \in Threads, Placed(t), Kept(t), Thread(t) \/ Process(t)
  PROVE  Kept(t)' /\ (ca # None => ca' # None)
<1>1. CASE Begin(t)
  BY <1>1, BeginKept
<1>2. CASE Write(t) \/ MakePw(t)
  BY <1>2, SendKept, SendsPassword
<1>3. CASE ReadLine(t)
  BY <1>3, ReadLineKept, ReadsPassword
<1>. QED  BY <1>1, <1>2, <1>3, SilentSteps DEF Thread, Process, Silent

LEMMA ElsewhereKept ==
  ASSUME NEW u, Same(u), Kept(u), ca # None => ca' # None
  PROVE  Kept(u)'
BY Stays DEF Same, Kept


AllKept == \A t \in Threads : Kept(t)

LEMMA MorePasswords ==
  ASSUME NEW q, NEW S, NEW T, S \subseteq T, Secrets(q, S)
  PROVE  Secrets(q, T)
BY DEF Secrets

\* Where a thread that has written leaves the lines.
LEMMA SentSecrets ==
  ASSUME Typed, NEW t \in Threads, Placed(t), Write(t) \/ MakePw(t), NEW S,
         None \in S, caPw' \in S, \A u \in Threads : Secrets(stdin[u], S)
  PROVE  \A u \in Threads : Secrets(stdin'[u], S)
<1>1. PICK l \in Line :
        /\ l.secret \in {None, caPw'}
        /\ stdin' = [stdin EXCEPT ![t] = IF step[t] = Ended THEN @ ELSE Append(@, l)]
  BY SendsPassword
<1>2. stdin'[t] \in {stdin[t], Append(stdin[t], l)} /\ stdin[t] \in Seq(Line)
  BY <1>1 DEF Typed
<1>3. Secrets(stdin'[t], S)
  BY <1>1, <1>2, SecretsOf
<1>4. \A u \in Threads \ {t} : stdin'[u] = stdin[u]
  BY Elsewhere DEF Thread, Same
<1>. QED  BY <1>3, <1>4

LEMMA PasswordsStep ==
  ASSUME Typed, AllPlaced, AllKept, Passwords, NEW t \in Threads, Thread(t) \/ Process(t)
  PROVE  Passwords'
<1> DEFINE S == {None, caPw}
<1>0. \A u \in Threads \ {t} : Same(u)
  BY Elsewhere
<1>p. Placed(t) /\ Kept(t)
  BY DEF AllPlaced, AllKept
<1> DEFINE Goal == /\ ca' \in {None, caPw'}
                   /\ \A u \in Threads : /\ known'[u] \in {None, caPw'}
                                         /\ Secrets(stdin'[u], {None, caPw'})
                                         /\ pc'[u] = "make" => caPw' = None
<1>1. ASSUME MakePw(t), ~doubled'  PROVE Goal
  <2>1. /\ ~doubled /\ pc[t] = "make" /\ caPw' = t /\ \A u \in Threads \ {t} : pc[u] # "make"
    BY <1>1 DEF MakePw
  <2>2. /\ caPw = None /\ ca = None
        /\ \A u \in Threads : known[u] = None /\ Secrets(stdin[u], {None})
    BY <2>1 DEF Passwords
  <2>3. UNCHANGED <<known, ca>> /\ pc'[t] \in {"wait", "finish"}
    BY <1>1, <1>p, SendsPassword
  <2>4. \A u \in Threads : Secrets(stdin[u], {None, caPw'})
    BY <2>2, MorePasswords
  <2>5. \A u \in Threads : Secrets(stdin'[u], {None, caPw'})
    BY <1>1, <1>p, <2>4, SentSecrets
  <2>6. \A u \in Threads : pc'[u] # "make"
    BY <1>0, <2>1, <2>3 DEF Same
  <2>. QED  BY <2>2, <2>3, <2>5, <2>6
<1>2. ASSUME Write(t), ~doubled'  PROVE Goal
  <2>1. caPw' = caPw /\ ~doubled
    BY <1>2 DEF Write
  <2>2. /\ ca \in S /\ \A u \in Threads : known[u] \in S /\ Secrets(stdin[u], S)
        /\ \A u \in Threads : pc[u] = "make" => caPw = None
    BY <2>1 DEF Passwords
  <2>3. UNCHANGED <<known, ca>> /\ pc'[t] \in {"wait", "finish"}
    BY <1>2, <1>p, SendsPassword
  <2>4. \A u \in Threads : Secrets(stdin'[u], S)
    BY <1>2, <1>p, <2>1, <2>2, SentSecrets
  <2>5. \A u \in Threads : pc'[u] = "make" => caPw = None
    BY <1>0, <2>2, <2>3 DEF Same
  <2>. QED  BY <2>1, <2>2, <2>3, <2>4, <2>5
<1>3. ASSUME ReadLine(t), ~doubled'  PROVE Goal
  <2>1. /\ UNCHANGED <<pc, caPw, doubled>> /\ ca' \in {ca, known[t]} /\ stdin[t] # <<>>
    BY <1>3, <1>p, ReadsPassword
  <2>2. /\ ca \in S /\ \A u \in Threads : known[u] \in S /\ Secrets(stdin[u], S)
        /\ \A u \in Threads : pc[u] = "make" => caPw = None
    BY <1>3, <2>1 DEF Passwords
  <2>3. Secrets(<<>>, S) /\ Secrets(Tail(stdin[t]), S) /\ Head(stdin[t]).secret \in S
    <3>1. stdin[t] \in Seq(Line) /\ Secrets(stdin[t], S)
      BY <2>2 DEF Typed
    <3>. HIDE DEF S
    <3>. QED  BY <2>1, <3>1, SecretsOf
  <2>4. known'[t] \in S
    <3>1. PICK s \in {known[t], Head(stdin[t]).secret} : known' = [known EXCEPT ![t] = s]
      BY <1>3, <1>p, ReadsPassword
    <3>. QED  BY <2>2, <2>3, <3>1 DEF Typed
  <2>5. Secrets(stdin'[t], S)
    <3>1. PICK r \in {Tail(stdin[t]), <<>>} : stdin' = [stdin EXCEPT ![t] = r]
      BY <1>3, <1>p, ReadsPassword
    <3>. QED  BY <2>3, <3>1 DEF Typed
  <2>6. \A u \in Threads : known'[u] \in S /\ Secrets(stdin'[u], S)
    BY <1>0, <2>2, <2>4, <2>5 DEF Same
  <2>. QED  BY <2>1, <2>2, <2>6
<1>4. ASSUME Begin(t), ~doubled'  PROVE Goal
  <2>1. /\ UNCHANGED <<caPw, ca, doubled>> /\ pc'[t] # "make"
        /\ known' = [known EXCEPT ![t] = None] /\ stdin' = [stdin EXCEPT ![t] = <<>>]
    BY <1>4, <1>p, BeginKept
  <2>2. /\ ca \in S /\ \A u \in Threads : known[u] \in S /\ Secrets(stdin[u], S)
        /\ \A u \in Threads : pc[u] = "make" => caPw = None
    BY <1>4, <2>1 DEF Passwords
  <2>3. known'[t] = None /\ stdin'[t] = <<>> /\ Secrets(<<>>, S)
    BY <2>1 DEF Typed, Secrets
  <2>4. \A u \in Threads : /\ known'[u] \in S /\ Secrets(stdin'[u], S)
                           /\ pc'[u] = "make" => caPw = None
    BY <1>0, <2>1, <2>2, <2>3 DEF Same
  <2>. QED  BY <2>1, <2>2, <2>4
<1>5. ASSUME Silent(t), pc'[t] = "make" => pc[t] = "make" \/ caPw = None, ~doubled'  PROVE Goal
  <2>1. UNCHANGED <<caPw, ca, doubled, known, stdin>>
    BY <1>5 DEF Silent
  <2>2. /\ ca \in S /\ \A u \in Threads : known[u] \in S /\ Secrets(stdin[u], S)
        /\ \A u \in Threads : pc[u] = "make" => caPw = None
    BY <1>5, <2>1 DEF Passwords
  <2>3. \A u \in Threads : pc'[u] = "make" => caPw = None
    BY <1>0, <1>5, <2>2 DEF Same
  <2>. QED  BY <2>1, <2>2, <2>3
<1>6. \/ MakePw(t) \/ Write(t) \/ ReadLine(t) \/ Begin(t)
      \/ Silent(t) /\ (pc'[t] = "make" => pc[t] = "make" \/ caPw = None)
  BY <1>p, SilentSteps DEF Thread, Process
<1>7. ~doubled' => Goal
  BY <1>1, <1>2, <1>3, <1>4, <1>5, <1>6
<1>. QED  BY <1>7 DEF Passwords

-----------------------------------------------------------------------------
(* A thread and its process in step *)

\* What the thread waits for has been printed.
Shown(t) == \/ step[t] > Mark(Dialog(t), stage[t])
            \/ step[t] = Mark(Dialog(t), stage[t]) /\ reads[t]
Found(t) == \E i \in DOMAIN out[t] : Contains(out[t][i].name, Stage(t).marker)

\* The thread has written its line, and its process has not read it yet ...
Ahead(t) == /\ pc[t] \in {"wait", "finish"} /\ stage[t] > 1
            /\ step[t] = Asked(Dialog(t), stage[t] - 1) /\ reads[t]
            /\ \E l \in Line : /\ stdin[t] = <<l>>
                               /\ l.for = Stages[Dialog(t)][stage[t] - 1].marker
            /\ pc[t] = "wait" => ~fresh[t]

\* ... or the process prints what the thread waits for, which the thread has yet to read ...
Here(t) == /\ pc[t] \in {"wait", "pause", "write", "make"} /\ stdin[t] = <<>>
           /\ step[t] \in From(Dialog(t), stage[t])..Asked(Dialog(t), stage[t])
           /\ pc[t] = "wait" /\ Shown(t) => fresh[t] /\ Found(t)
           /\ pc[t] \in {"write", "make"} => reads[t] /\ ~fresh[t]

\* ... or it has refused a password, or come to its end.
Stopped(t) == /\ step[t] = Ended /\ pc[t] \in {"wait", "pause", "finish"}
              /\ Dialog(t) = "adduser" => pc[t] = "finish"

InStep(t) == t \notin hurt /\ pc[t] \in Works /\ Dialog(t) \in Talks
               => Ahead(t) \/ Here(t) \/ Stopped(t)

\* The stage of a thread that is to write.
LEMMA StageOf ==
  ASSUME Typed, NEW t \in Threads, Placed(t), pc[t] \in {"wait", "pause", "write", "make"},
         Dialog(t) \in Talks
  PROVE  /\ todo[t] # <<>> /\ stage[t] \in 1..Last(Dialog(t)) /\ stage[t] \in Nat
         /\ Last(Dialog(t)) \in Nat /\ Len(Stages[Dialog(t)]) = Last(Dialog(t))
         /\ Script(t) = Scripts[Dialog(t)] /\ Len(Script(t)) \in 1..7
<1>1. /\ todo[t] # <<>> /\ stage[t] \in 1..(Last(Dialog(t)) + 1) /\ stage[t] <= Last(Dialog(t))
  BY DEF Placed, Works
<1>2. /\ Last(Dialog(t)) \in Nat /\ Len(Stages[Dialog(t)]) = Last(Dialog(t))
      /\ Script(t) = Scripts[Dialog(t)] /\ Len(Script(t)) \in 1..7
  BY <1>1, DialogOf
<1>. QED  BY <1>1, <1>2

\* A process that is at a stage and reads is at the stage's question.
LEMMA AtQuestion ==
  ASSUME Typed, NEW t \in Threads, Placed(t), Dialog(t) \in Talks, Here(t)
  PROVE  /\ step[t] # Ended
         /\ reads[t] => step[t] = Asked(Dialog(t), stage[t]) /\ Shown(t)
<1> DEFINE d == Dialog(t)  k == stage[t]
<1>1. /\ k \in 1..Last(d) /\ Script(t) = Scripts[d] /\ Len(Scripts[d]) \in 1..7
  BY StageOf DEF Here
<1>2. step[t] \in From(d, k)..Asked(d, k) /\ step[t] \in Nat
  BY DEF Here, Typed
<1>3. /\ Mark(d, k) \in Nat /\ Asked(d, k) \in Nat /\ Mark(d, k) <= Asked(d, k)
      /\ Asked(d, k) <= Len(Scripts[d]) /\ From(d, k) \in Nat
  BY <1>1, Fit
<1>4. \A j \in From(d, k)..Asked(d, k) : Scripts[d][j].for # "" <=> j = Asked(d, k)
  BY <1>1, Fit
<1>5. step[t] # Ended
  <2> DEFINE n == Len(Scripts[d])  a == Asked(d, k)
  <2>1. n \in 1..7 /\ a \in Nat /\ a <= n /\ step[t] \in Nat /\ step[t] <= a
    BY <1>1, <1>2, <1>3
  <2> HIDE DEF n, a
  <2>2. step[t] # 99
    BY <2>1
  <2>. QED  BY <2>2 DEF Ended
<1>6. ASSUME reads[t]  PROVE step[t] = Asked(d, k) /\ Shown(t)
  <2>1. Script(t)[step[t]].for # ""
    BY <1>6 DEF Placed
  <2>2. step[t] = Asked(d, k)
    BY <1>1, <1>2, <1>4, <2>1
  <2>3. step[t] > Mark(d, k) \/ step[t] = Mark(d, k)
    BY <1>2, <1>3, <2>2
  <2>. QED  BY <1>6, <2>2, <2>3 DEF Shown
<1>. QED  BY <1>5, <1>6

LEMMA BeginInStep ==
  ASSUME Typed, NEW t \in Threads, Placed(t), Begin(t)
  PROVE  InStep(t)'
<1>1. /\ UNCHANGED <<todo, hurt>> /\ pc[t] = "begin" /\ pc'[t] = "wait" /\ stage'[t] = 1
      /\ step'[t] = 1 /\ reads'[t] = FALSE /\ stdin'[t] = <<>>
  BY DEF Begin, Goto, results, Typed
<1>2. Dialog(t)' = Dialog(t)
  BY <1>1, Stays
<1>3. ASSUME Dialog(t) \in Talks  PROVE Here(t)'
  <2>1. 1 \in 1..Last(Dialog(t))
    BY <1>3 DEF Talks, Last
  <2>2. /\ From(Dialog(t), 1) = 1 /\ Mark(Dialog(t), 1) \in Nat /\ Asked(Dialog(t), 1) \in Nat
        /\ 1 <= Mark(Dialog(t), 1) /\ Mark(Dialog(t), 1) <= Asked(Dialog(t), 1)
    BY <1>3, <2>1, Fit
  <2>3. 1 \in From(Dialog(t), 1)..Asked(Dialog(t), 1) /\ ~(1 > Mark(Dialog(t), 1))
    BY <2>2
  <2>4. ~Shown(t)'
    BY <1>1, <1>2, <2>3 DEF Shown
  <2>. QED  BY <1>1, <1>2, <2>3, <2>4 DEF Here
<1>. QED  BY <1>2, <1>3 DEF InStep

LEMMA ReadInStep ==
  ASSUME Typed, NEW t \in Threads, Placed(t), InStep(t), NEW n \in 1..Len(out[t]),
         NEW torn \in BOOLEAN, Read(t, n, torn)
  PROVE  InStep(t)'
<1>1. /\ UNCHANGED <<todo, stage, step, reads, stdin, certs>> /\ pc[t] = "wait" /\ fresh[t]
      /\ hurt \subseteq hurt'
  BY DEF Read, results
<1>2. Dialog(t)' = Dialog(t) /\ Stage(t)' = Stage(t)
  BY <1>1, Stays
<1> SUFFICES ASSUME t \notin hurt', Dialog(t) \in Talks
             PROVE  Here(t)' \/ Stopped(t)'
  BY <1>2 DEF InStep
<1>3. torn = FALSE
  BY DEF Read, Typed
<1>4. /\ out'[t] = SubSeq(out[t], n + 1, Len(out[t])) /\ fresh'[t] = (n < Len(out[t]))
      /\ pc'[t] = IF ~Seen(t, n, torn) THEN "wait" ELSE "pause"
  BY DEF Read, Goto, Typed, Talks
<1>5. CASE Stopped(t)
  BY <1>1, <1>2, <1>4, <1>5 DEF Stopped
<1>6. CASE Here(t)
  <2>1. /\ stdin'[t] = <<>>
        /\ step'[t] \in From(Dialog(t)', stage'[t])..Asked(Dialog(t)', stage'[t])
    BY <1>1, <1>2, <1>6 DEF Here
  <2>2. ASSUME Shown(t)', pc'[t] = "wait"  PROVE fresh'[t] /\ Found(t)'
    <3>1. Shown(t)
      BY <1>1, <1>2, <2>2 DEF Shown
    <3>2. PICK i \in DOMAIN out[t] : Contains(out[t][i].name, Stage(t).marker)
      BY <1>1, <1>6, <3>1 DEF Here, Found
    <3>3. ~Seen(t, n, torn)
      BY <1>4, <2>2
    <3>4. i \notin 1..n
      BY <1>3, <3>2, <3>3 DEF Seen
    <3>5. out[t] \in Seq(Printed)
      BY DEF Typed
    <3>6. /\ i \in 1..Len(out[t]) /\ n < Len(out[t]) /\ i - n \in DOMAIN out'[t]
          /\ out'[t][i - n] = out[t][i]
      BY <1>4, <3>2, <3>4, <3>5
    <3>. QED  BY <1>2, <1>4, <3>2, <3>6 DEF Found
  <2>3. pc'[t] \in {"wait", "pause"}
    BY <1>4
  <2>. QED  BY <2>1, <2>2, <2>3 DEF Here
<1>7. Here(t) \/ Stopped(t)
  BY <1>1 DEF InStep, Ahead, Works
<1>. QED  BY <1>5, <1>6, <1>7

LEMMA PauseInStep ==
  ASSUME Typed, NEW t \in Threads, Placed(t), InStep(t), Pause(t) \/ FindNoPw(t)
  PROVE  InStep(t)'
<1>1. /\ UNCHANGED <<todo, stage, step, reads, stdin, out, certs>> /\ hurt \subseteq hurt'
      /\ pc[t] \in {"pause", "write"} /\ pc'[t] \in {"write", "make"}
  BY DEF Pause, FindNoPw, Goto, process, results, history, Typed
<1>2. Dialog(t)' = Dialog(t) /\ Stage(t)' = Stage(t)
  BY <1>1, Stays
<1> SUFFICES ASSUME t \notin hurt', Dialog(t) \in Talks
             PROVE  Here(t)'
  BY <1>2 DEF InStep
<1>3. Here(t) \/ Stopped(t)
  BY <1>1 DEF InStep, Ahead, Works
<1>4. reads[t] /\ ~fresh'[t] /\ Here(t)
  <2>1. CASE Pause(t)
    <3>1. Asks(t) /\ fresh'[t] = FALSE
      BY <2>1 DEF Pause, Typed
    <3>. QED  BY <1>3, <3>1 DEF Asks, Stopped, Placed
  <2>2. CASE FindNoPw(t)
    <3>1. fresh' = fresh /\ pc[t] = "write"
      BY <2>2 DEF FindNoPw, process
    <3>. QED  BY <1>3, <3>1 DEF Here, Stopped
  <2>. QED  BY <2>1, <2>2
<1>. QED  BY <1>1, <1>2, <1>4 DEF Here

\* A thread whose process is in time never gives up.
LEMMA GiveUpHurts ==
  ASSUME Typed, NEW t \in Threads, Placed(t), InStep(t), GiveUp(t)
  PROVE  t \in hurt' /\ missed' = missed
<1>1. pc[t] = "wait" /\ ~fresh[t]
  BY DEF GiveUp, WaitsOver
<1>2. ASSUME Asks(t), t \notin hurt  PROVE FALSE
  <2>1. reads[t] /\ stdin[t] = <<>>
    BY <1>2 DEF Asks
  <2>2. step[t] # Ended /\ Script(t)[step[t]].for # ""
    BY <2>1 DEF Placed
  <2>3. Dialog(t) \in Talks
    BY <2>2, AtWork DEF Dialogs, Talks
  <2>4. ~Ahead(t)
    <3>1. \A l \in Line : <<l>> # <<>>
      OBVIOUS
    <3>. QED  BY <2>1, <3>1 DEF Ahead
  <2>5. Here(t)
    BY <1>1, <1>2, <2>2, <2>3, <2>4 DEF InStep, Stopped, Works
  <2>6. Shown(t)
    BY <2>1, <2>3, <2>5, AtQuestion
  <2>. QED  BY <1>1, <2>5, <2>6 DEF Here
<1>. QED  BY <1>2 DEF GiveUp

LEMMA WriteInStep ==
  ASSUME Typed, NEW t \in Threads, Placed(t), InStep(t), Write(t) \/ MakePw(t)
  PROVE  InStep(t)'
<1> DEFINE d == Dialog(t)  k == stage[t]
<1>1. /\ UNCHANGED <<todo, step, reads, fresh, hurt>> /\ pc[t] \in {"write", "make"}
      /\ pc' = [pc EXCEPT ![t] = IF k < Len(Stages[d]) THEN "wait" ELSE "finish"]
      /\ stage' = [stage EXCEPT ![t] = @ + 1]
  BY DEF Write, MakePw, Send, Goto
<1>2. Dialog(t)' = d
  BY <1>1, Stays
<1> SUFFICES ASSUME t \notin hurt, d \in Talks
             PROVE  Ahead(t)'
  BY <1>1, <1>2 DEF InStep
<1>3. Here(t) /\ reads[t] /\ ~fresh[t]
  BY <1>1 DEF InStep, Ahead, Here, Stopped, Works
<1>4. step[t] # Ended /\ step[t] = Asked(d, k)
  BY <1>3, AtQuestion
<1>5. PICK l \in Line :
        /\ l.for = Stage(t).marker
        /\ stdin' = [stdin EXCEPT ![t] = IF step[t] = Ended THEN @ ELSE Append(@, l)]
  BY SendsPassword
<1>6. stdin'[t] = <<l>> /\ l.for = Stages[d][k].marker
  <2>1. stdin'[t] = Append(stdin[t], l) /\ stdin[t] = <<>>
    BY <1>3, <1>4, <1>5 DEF Typed, Here
  <2>. QED  BY <1>5, <2>1 DEF Stage
<1>7. k \in 1..Last(d) /\ Last(d) \in Nat
  BY <1>1, StageOf
<1>8. stage'[t] > 1 /\ stage'[t] - 1 = k /\ pc'[t] \in {"wait", "finish"}
  <2>1. stage'[t] = k + 1 /\ pc'[t] \in {"wait", "finish"}
    BY <1>1 DEF Typed
  <2>. QED  BY <1>7, <2>1
<1>9. step'[t] = Asked(Dialog(t)', stage'[t] - 1) /\ reads'[t] /\ ~fresh'[t]
  BY <1>1, <1>2, <1>3, <1>4, <1>8
<1>10. \E x \in Line : stdin'[t] = <<x>> /\ x.for = Stages[Dialog(t)'][stage'[t] - 1].marker
  BY <1>2, <1>6, <1>8
<1>. QED  BY <1>8, <1>9, <1>10 DEF Ahead

LEMMA AppendOf ==
  ASSUME NEW q \in Seq(Printed), NEW x \in Printed
  PROVE  /\ Len(q) + 1 \in DOMAIN Append(q, x) /\ Append(q, x)[Len(q) + 1] = x
         /\ \A i \in DOMAIN q : i \in DOMAIN Append(q, x) /\ Append(q, x)[i] = q[i]
OBVIOUS

LEMMA PrintsInStep ==
  ASSUME Typed, NEW t \in Threads, Placed(t), InStep(t), Prints(t)
  PROVE  InStep(t)'
<1> DEFINE d == Dialog(t)  k == stage[t]  text == Script(t)[step[t]]
<1>1. /\ UNCHANGED <<pc, todo, stage, stdin, hurt, certs>> /\ step[t] # Ended /\ ~reads[t]
      /\ out'[t] = Append(out[t], text) /\ fresh'[t] = TRUE
      /\ reads'[t] = (text.for # "")
      /\ step'[t] = IF text.for # "" THEN step[t]
                    ELSE IF step[t] = Len(Script(t)) THEN Ended ELSE step[t] + 1
  BY DEF Prints, thread, results, history, Typed
<1>2. Dialog(t)' = d /\ Stage(t)' = Stage(t)
  BY <1>1, Stays
<1> SUFFICES ASSUME t \notin hurt, d \in Talks, pc[t] \in Works
             PROVE  Here(t)'
  BY <1>1, <1>2 DEF InStep
<1>3. Here(t)
  BY <1>1 DEF InStep, Ahead, Stopped
<1>4. k \in 1..Last(d) /\ Script(t) = Scripts[d] /\ Len(Scripts[d]) \in 1..7
  BY <1>3, StageOf DEF Here
<1> DEFINE F == From(d, k)  M == Mark(d, k)  A == Asked(d, k)  n == Len(Scripts[d])
<1>a. /\ F \in Nat /\ M \in Nat /\ A \in Nat /\ F <= M /\ M <= A /\ A <= n
      /\ Contains(Scripts[d][M].name, Stages[d][k].marker)
      /\ \A j \in F..A : Scripts[d][j].for # "" <=> j = A
  BY <1>4, Fit
<1>b. n \in Nat
  <2>1. \A x \in 1..7 : x \in Nat
    OBVIOUS
  <2>. QED  BY <1>4, <2>1
<1>5. F \in Nat /\ M \in Nat /\ A \in Nat /\ F <= M /\ M <= A /\ A <= n /\ n \in Nat
  BY <1>a, <1>b
<1>6. step[t] \in F..A /\ step[t] \in Nat
  BY <1>3 DEF Here, Typed
<1>7. text.for # "" <=> step[t] = A
  BY <1>4, <1>a, <1>6
<1>8. /\ step'[t] \in F..A
      /\ step'[t] > M \/ (step'[t] = M /\ reads'[t]) => step[t] >= M
  <2>1. CASE step[t] = A
    <3>1. step'[t] = A
      BY <1>1, <1>7, <2>1
    <3> HIDE DEF F, M, A
    <3>. QED  BY <1>5, <1>6, <2>1, <3>1
  <2>2. CASE step[t] # A
    <3>1. text.for = "" /\ ~reads'[t]
      BY <1>1, <1>7, <2>2
    <3>2. step[t] < n
      <4> HIDE DEF F, M, A, n
      <4>. QED  BY <1>5, <1>6, <2>2
    <3>3. step'[t] = step[t] + 1
      <4>1. step[t] # Len(Script(t))
        <5>1. Len(Script(t)) = n
          BY <1>4
        <5> HIDE DEF n
        <5>. QED  BY <1>5, <1>6, <3>2, <5>1
      <4>. QED  BY <1>1, <3>1, <4>1
    <3>4. step[t] + 1 \in F..A /\ (step[t] + 1 > M => step[t] >= M)
      <4> HIDE DEF F, M, A, n
      <4>. QED  BY <1>5, <1>6, <2>2
    <3>. QED  BY <3>1, <3>3, <3>4
  <2>. QED  BY <2>1, <2>2
<1>9. ASSUME pc'[t] = "wait", Shown(t)'  PROVE fresh'[t] /\ Found(t)'
  <2>1. step[t] > M \/ step[t] = M
    <3>1. step'[t] > M \/ (step'[t] = M /\ reads'[t])
      BY <1>1, <1>2, <1>9 DEF Shown
    <3>2. step[t] >= M
      BY <1>8, <3>1
    <3> HIDE DEF M
    <3>. QED  BY <1>5, <1>6, <3>2
  <2>2. out[t] \in Seq(Printed) /\ text \in Printed
    BY <1>1, AtWork DEF Typed
  <2> HIDE DEF text
  <2>3. /\ Len(out[t]) + 1 \in DOMAIN out'[t] /\ out'[t][Len(out[t]) + 1] = text
        /\ \A i \in DOMAIN out[t] : i \in DOMAIN out'[t] /\ out'[t][i] = out[t][i]
    <3>1. out'[t] = Append(out[t], text)
      BY <1>1
    <3>2. /\ Len(out[t]) + 1 \in DOMAIN Append(out[t], text)
          /\ Append(out[t], text)[Len(out[t]) + 1] = text
          /\ \A i \in DOMAIN out[t] : /\ i \in DOMAIN Append(out[t], text)
                                     /\ Append(out[t], text)[i] = out[t][i]
      BY <2>2, AppendOf
    <3>. QED  BY <3>1, <3>2
  <2>4. CASE step[t] > M
    <3>1. Found(t)
      BY <1>1, <1>3, <1>9, <2>4 DEF Here, Shown
    <3>. QED  BY <1>1, <1>2, <2>3, <3>1 DEF Found
  <2>5. CASE step[t] = M
    <3>1. text = Scripts[d][M] /\ Stage(t) = Stages[d][k]
      BY <1>4, <2>5 DEF text, Stage
    <3>2. Contains(text.name, Stage(t).marker)
      BY <1>a, <3>1
    <3>. QED  BY <1>1, <1>2, <2>3, <3>2 DEF Found
  <2>. QED  BY <2>1, <2>4, <2>5
<1>10. /\ pc'[t] \in {"wait", "pause", "write", "make"} /\ stdin'[t] = <<>>
       /\ pc'[t] \notin {"write", "make"}
  BY <1>1, <1>3 DEF Here
<1>11. step'[t] \in From(Dialog(t)', stage'[t])..Asked(Dialog(t)', stage'[t])
  BY <1>1, <1>2, <1>8
<1>. QED  BY <1>9, <1>10, <1>11 DEF Here

\* The process of a thread that is in step reads the line that was meant for its question.
LEMMA ReadLineInStep ==
  ASSUME Typed, NEW t \in Threads, Placed(t), InStep(t), ReadLine(t), t \notin hurt
  PROVE  InStep(t)' /\ misread' = misread
<1> DEFINE d == Dialog(t)  k == stage[t]  text == Script(t)[step[t]]  line == Head(stdin[t])
<1>1. /\ UNCHANGED <<pc, todo, stage, fresh, out, hurt>> /\ reads[t] /\ stdin[t] # <<>>
      /\ reads'[t] = FALSE
      /\ misread' = IF line.for # text.for THEN misread \cup {t} ELSE misread
  BY DEF ReadLine, thread, Typed
<1>2. Dialog(t)' = d
  BY <1>1, Stays
<1>3. /\ step[t] # Ended /\ pc[t] \in Works /\ text.for # "" /\ d \in Talks
      /\ Script(t) = Scripts[d] /\ todo[t] # <<>>
  <2>1. step[t] # Ended /\ text.for # ""
    BY <1>1 DEF Placed
  <2>2. d \in Talks
    BY <2>1, AtWork DEF Dialogs, Talks
  <2>. QED  BY <2>1, <2>2, AtWork
<1>4. Ahead(t)
  BY <1>1, <1>3 DEF InStep, Here, Stopped
<1>5. /\ k \in 1..(Last(d) + 1) /\ (pc[t] = "wait" => k <= Last(d))
      /\ pc[t] = "finish" => k = Last(d) + 1
  BY <1>3, <1>4 DEF Placed, Works, Talks, Ahead
<1>6. Last(d) \in Nat
  BY <1>3, DialogOf
<1>7. k - 1 \in 1..Last(d)
  <2>1. k > 1 /\ k \in Nat
    BY <1>4 DEF Ahead, Typed
  <2>. QED  BY <1>5, <1>6, <2>1
<1>8. /\ step[t] = Asked(d, k - 1) /\ Scripts[d][Asked(d, k - 1)].for = Stages[d][k - 1].marker
      /\ k - 1 = Last(d) => Asked(d, k - 1) = Len(Scripts[d])
      /\ k - 1 < Last(d) => From(d, (k - 1) + 1) = Asked(d, k - 1) + 1
  <2>1. step[t] = Asked(d, k - 1)
    BY <1>4 DEF Ahead
  <2>2. \A j \in 1..Last(d) :
          /\ Scripts[d][Asked(d, j)].for = Stages[d][j].marker
          /\ j = Last(d) => Asked(d, j) = Len(Scripts[d])
          /\ j < Last(d) => From(d, j + 1) = Asked(d, j) + 1
    BY <1>3, Fit
  <2>. QED  BY <1>7, <2>1, <2>2
<1>9. /\ line.for = text.for /\ Tail(stdin[t]) = <<>>
  <2>1. PICK l \in Line : stdin[t] = <<l>> /\ l.for = Stages[d][k - 1].marker
    BY <1>4 DEF Ahead
  <2>2. Head(stdin[t]) = l /\ Tail(stdin[t]) = <<>>
    BY <2>1
  <2>. QED  BY <1>3, <1>8, <2>1, <2>2
<1>10. stdin'[t] = <<>>
  <2>1. PICK r \in {Tail(stdin[t]), <<>>} : stdin' = [stdin EXCEPT ![t] = r]
    BY DEF ReadLine
  <2>. QED  BY <1>9, <2>1 DEF Typed
<1>11. \/ step'[t] = Ended
       \/ step'[t] = step[t] + 1 /\ step[t] # Len(Script(t))
  <2>1. PICK e \in BOOLEAN : /\ step' = [step EXCEPT ![t] = IF e THEN Ended ELSE @ + 1]
                             /\ step[t] = Len(Script(t)) => e
    BY DEF ReadLine
  <2>. QED  BY <2>1 DEF Typed
<1>12. CASE step'[t] = Ended
  <2>1. d = "adduser" => pc[t] = "finish"
    <3>1. ASSUME d = "adduser", pc[t] = "wait"  PROVE FALSE
      <4>1. Last(d) = 1
        BY <3>1 DEF Last
      <4>. QED  BY <1>5, <1>7, <3>1, <4>1
    <3>. QED  BY <1>4, <3>1 DEF Ahead
  <2>2. Stopped(t)'
    BY <1>1, <1>2, <1>4, <1>12, <2>1 DEF Stopped, Ahead
  <2>. QED  BY <1>1, <1>9, <2>2 DEF InStep
<1>13. CASE step'[t] = step[t] + 1 /\ step[t] # Len(Script(t))
  <2>1. k - 1 # Last(d)
    BY <1>3, <1>8, <1>13
  <2>2. /\ pc[t] = "wait" /\ k \in 1..Last(d) /\ k - 1 < Last(d) /\ (k - 1) + 1 = k
    <3>1. pc[t] = "wait" \/ pc[t] = "finish"
      BY <1>4 DEF Ahead
    <3>. QED  BY <1>5, <1>6, <1>7, <2>1, <3>1
  <2>3. step'[t] = From(d, k)
    BY <1>8, <1>13, <2>2
  <2>4. /\ From(d, k) \in Nat /\ Mark(d, k) \in Nat /\ Asked(d, k) \in Nat
        /\ From(d, k) <= Mark(d, k) /\ Mark(d, k) <= Asked(d, k)
    BY <1>3, <2>2, Fit
  <2>5. step'[t] \in From(d, k)..Asked(d, k) /\ ~(step'[t] > Mark(d, k))
    BY <2>3, <2>4
  <2>6. ~Shown(t)'
    BY <1>1, <1>2, <2>5 DEF Shown
  <2>7. Here(t)'
    BY <1>1, <1>2, <1>10, <2>2, <2>5, <2>6 DEF Here
  <2>. QED  BY <1>1, <1>9, <2>7 DEF InStep
<1>. QED  BY <1>11, <1>12, <1>13

\* A thread stays in step, as long as its process is in time.
AllInStep == \A t \in Threads : InStep(t)

LEMMA StepInStep ==
  ASSUME Typed, NEW t \in Threads, Placed(t), InStep(t), Thread(t) \/ Process(t)
  PROVE  /\ InStep(t)' /\ hurt \subseteq hurt'
         /\ missed' = missed /\ misread' \subseteq misread \cup hurt'
<1>1. CASE Request(t)
  BY <1>1 DEF Request, Goto, Typed, process, results, history, InStep, Works
<1>2. CASE Begin(t)
  BY <1>2, BeginInStep DEF Begin
<1>3. CASE \E n \in 1..Len(out[t]), torn \in BOOLEAN : Read(t, n, torn)
  <2>1. PICK n \in 1..Len(out[t]), torn \in BOOLEAN : Read(t, n, torn)
    BY <1>3
  <2>2. InStep(t)'
    BY <2>1, ReadInStep
  <2>. QED  BY <2>1, <2>2 DEF Read
<1>4. CASE Pause(t) \/ FindNoPw(t)
  BY <1>4, PauseInStep DEF Pause, FindNoPw, history
<1>5. CASE GiveUp(t)
  <2>1. t \in hurt' /\ missed' = missed
    BY <1>5, GiveUpHurts
  <2>. QED  BY <1>5, <2>1 DEF GiveUp, InStep
<1>6. CASE Write(t) \/ MakePw(t)
  BY <1>6, WriteInStep DEF Write, MakePw, Send
<1>7. CASE Got(t)
  <2>1. UNCHANGED todo /\ Dialog(t) = "getuser"
    BY <1>7 DEF Got, Placed
  <2>2. Dialog(t)' \notin Talks
    BY <2>1, Stays DEF Talks
  <2>. QED  BY <1>7, <2>2 DEF Got, history, InStep
<1>8. CASE Finish(t)
  <2>1. pc'[t] = "next"
    BY <1>8 DEF Finish, Goto, Typed
  <2>. QED  BY <1>8, <2>1 DEF Finish, InStep, Works
<1>9. CASE NextDialog(t)
  <2>1. pc'[t] \in {"done", "request", "begin"}
    BY <1>9 DEF NextDialog, Goto, Typed
  <2>. QED  BY <1>9, <2>1 DEF NextDialog, history, InStep, Works
<1>10. CASE Prints(t)
  BY <1>10, PrintsInStep DEF Prints, history
<1>11. CASE ReadLine(t)
  <2>1. CASE t \in hurt
    <3>1. hurt' = hurt /\ missed' = missed /\ misread' \subseteq misread \cup {t}
      BY <1>11 DEF ReadLine
    <3>. QED  BY <2>1, <3>1 DEF InStep
  <2>2. CASE t \notin hurt
    BY <1>11, <2>2, ReadLineInStep DEF ReadLine
  <2>. QED  BY <2>1, <2>2
<1>12. CASE Dies(t)
  BY <1>12 DEF Dies, InStep
<1>. QED  BY <1>1, <1>2, <1>3, <1>4, <1>5, <1>6, <1>7, <1>8, <1>9, <1>10, <1>11, <1>12
          DEF Thread, Process

LEMMA ElsewhereInStep ==
  ASSUME NEW u, Same(u), Placed(u), InStep(u)
  PROVE  InStep(u)'
<1>1. Dialog(u)' = Dialog(u) /\ Stage(u)' = Stage(u)
  BY ElsewherePlaced
<1>2. /\ Ahead(u)' <=> Ahead(u)
      /\ Stopped(u)' <=> Stopped(u)
  BY <1>1 DEF Same, Ahead, Stopped
<1>3. /\ Shown(u)' <=> Shown(u)
      /\ Found(u)' <=> Found(u)
  BY <1>1 DEF Same, Shown, Found
<1>4. Here(u)' <=> Here(u)
  BY <1>1, <1>3 DEF Same, Here
<1>. QED  BY <1>1, <1>2, <1>4 DEF Same, InStep

-----------------------------------------------------------------------------
(* Certificates *)

\* What a thread that began with a CA in place, and whose processes were in time, has got.
Served(t) ==
  t \notin hurt \cup early /\ ~doubled =>
    /\ pc[t] = "finish" /\ step[t] = Ended /\ Dialog(t) = "adduser" => t \in certs
    /\ pc[t] = "next" /\ Dialog(t) = "adduser" => t \in certs
    /\ todo[t] \in {<<"getuser">>, <<>>} => t \in certs
    /\ pc[t] \in {"finish", "next"} /\ Dialog(t) = "getuser" => answer[t] = "whole"
    /\ pc[t] = "done" => answer[t] = "whole"

\* What is never taken back.
LEMMA Grows ==
  ASSUME Typed, NEW t \in Threads, Placed(t), Kept(t), InStep(t), Thread(t) \/ Process(t)
  PROVE  /\ hurt \subseteq hurt' /\ early \subseteq early' /\ certs \subseteq certs'
         /\ doubled => doubled'
<1>1. hurt \subseteq hurt'
  BY StepInStep
<1>2. CASE Begin(t)
  BY <1>1, <1>2 DEF Begin, results
<1>3. CASE Write(t)
  BY <1>1, <1>3 DEF Write, Send, results
<1>4. CASE MakePw(t)
  BY <1>1, <1>4 DEF MakePw, Send, results
<1>5. CASE ReadLine(t)
  BY <1>1, <1>5 DEF ReadLine
<1>6. CASE \E n \in 1..Len(out[t]), torn \in BOOLEAN : Read(t, n, torn)
  BY <1>1, <1>6 DEF Read, results
<1>7. CASE Request(t) \/ FindNoPw(t) \/ Got(t) \/ NextDialog(t) \/ Prints(t)
  <2>1. UNCHANGED <<early, certs, doubled>>
    <3>1. Request(t) => UNCHANGED <<early, certs, doubled>>
      BY DEF Request, results, history
    <3>2. FindNoPw(t) => UNCHANGED <<early, certs, doubled>>
      BY DEF FindNoPw, results, history
    <3>3. Got(t) => UNCHANGED <<early, certs, doubled>>
      BY DEF Got, history
    <3>4. NextDialog(t) => UNCHANGED <<early, certs, doubled>>
      BY DEF NextDialog, results, history
    <3>5. Prints(t) => UNCHANGED <<early, certs, doubled>>
      BY DEF Prints, results, history
    <3>. QED  BY <1>7, <3>1, <3>2, <3>3, <3>4, <3>5
  <2>. QED  BY <1>1, <2>1
<1>8. CASE Pause(t) \/ GiveUp(t) \/ Finish(t) \/ Dies(t)
  BY <1>1, <1>8 DEF Pause, GiveUp, Finish, Dies, results
<1>. QED  BY <1>2, <1>3, <1>4, <1>5, <1>6, <1>7, <1>8 DEF Thread, Process

\* The dialog before the last dialog.
LEMMA TodoOf ==
  ASSUME NEW s \in Todo, s # <<>>
  PROVE  /\ Head(s) = "getuser" => s = <<"getuser">> /\ Tail(s) = <<>>
         /\ Head(s) = "initpki" => Tail(s) \notin {<<"getuser">>, <<>>}
         /\ s = <<"getuser">> => Head(s) = "getuser"
<1>1. CASE s = <<"initpki", "adduser", "getuser">>
  BY <1>1
<1>2. CASE s = <<"adduser", "getuser">>
  BY <1>2
<1>3. CASE s = <<"getuser">>
  BY <1>3
<1>. QED  BY <1>1, <1>2, <1>3 DEF Todo

\* A process that is in step to the end of a dialog waits for the thread's last line.
LEMMA MovesServed ==
  ASSUME Typed, NEW t \in Threads, Placed(t), Kept(t), InStep(t), Served(t),
         \/ Request(t) \/ Begin(t) \/ Pause(t) \/ GiveUp(t) \/ FindNoPw(t) \/ Write(t) \/ MakePw(t)
         \/ Prints(t) \/ Dies(t)
         \/ \E n \in 1..Len(out[t]), torn \in BOOLEAN : Read(t, n, torn)
  PROVE  Served(t)'
<1>1. /\ hurt \subseteq hurt' /\ early \subseteq early' /\ certs \subseteq certs'
      /\ doubled => doubled'
  BY Grows DEF Thread, Process
<1> SUFFICES ASSUME t \notin hurt', t \notin early', ~doubled'  PROVE Served(t)'
  BY DEF Served
<1>2. CASE \/ Request(t) \/ Begin(t) \/ Pause(t) \/ GiveUp(t) \/ FindNoPw(t)
           \/ \E n \in 1..Len(out[t]), torn \in BOOLEAN : Read(t, n, torn)
  <2>1. UNCHANGED todo /\ pc'[t] \notin {"finish", "next", "done"}
    BY <1>2 DEF Request, Begin, Pause, GiveUp, FindNoPw, Read, Goto, Typed
  <2>. QED  BY <1>1, <2>1 DEF Served
<1>3. CASE Write(t) \/ MakePw(t)
  <2>1. /\ UNCHANGED <<todo, step>> /\ pc[t] \in {"write", "make"} /\ pc'[t] \in {"wait", "finish"}
    BY <1>3, SendsPassword
  <2>2. Dialog(t) \in Talks /\ Dialog(t)' = Dialog(t)
    BY <2>1, Stays DEF Placed
  <2>3. Here(t)
    BY <1>1, <2>1, <2>2 DEF InStep, Ahead, Stopped, Works
  <2>4. step'[t] # Ended
    BY <2>1, <2>2, <2>3, AtQuestion
  <2>. QED  BY <1>1, <2>1, <2>2, <2>4 DEF Served, Talks
<1>4. CASE Prints(t)
  <2>1. /\ UNCHANGED <<pc, todo, answer>> /\ step[t] # Ended /\ ~reads[t]
    BY <1>4 DEF Prints, thread, results
  <2>2. Dialog(t)' = Dialog(t) /\ pc[t] \in Works
    BY <2>1, Stays, AtWork
  <2>3. Dialog(t) = "adduser" => pc[t] # "finish"
    BY <1>1, <2>1, <2>2 DEF InStep, Ahead, Here, Stopped, Talks
  <2>. QED  BY <1>1, <2>1, <2>2, <2>3 DEF Served
<1>5. CASE Dies(t)
  BY <1>5 DEF Dies
<1>. QED  BY <1>2, <1>3, <1>4, <1>5

LEMMA EndsServed ==
  ASSUME Typed, NEW t \in Threads, Placed(t), Kept(t), InStep(t), Served(t),
         Got(t) \/ Finish(t) \/ NextDialog(t)
  PROVE  Served(t)'
<1>1. /\ hurt \subseteq hurt' /\ early \subseteq early' /\ certs \subseteq certs'
      /\ doubled => doubled'
  BY Grows DEF Thread
<1> SUFFICES ASSUME t \notin hurt', t \notin early', ~doubled'  PROVE Served(t)'
  BY DEF Served
<1>0. todo[t] # <<>> /\ todo[t] \in Todo
  <2>1. pc[t] # "done"
    BY DEF Got, Finish, NextDialog
  <2>. QED  BY <2>1 DEF Placed, Typed
<1>2. CASE Got(t)
  <2>1. UNCHANGED <<todo, certs, hurt>> /\ pc'[t] = "finish" /\ Dialog(t) = "getuser"
    BY <1>2 DEF Got, Goto, history, Typed, Placed
  <2>2. Dialog(t)' = "getuser" /\ t \in certs
    BY <1>0, <1>1, <2>1, Stays, TodoOf DEF Served, Dialog
  <2>3. answer'[t] = "whole"
    BY <1>2, <2>1, <2>2 DEF Got, Typed
  <2>. QED  BY <2>1, <2>2, <2>3 DEF Served
<1>3. CASE Finish(t)
  <2>1. /\ UNCHANGED <<todo, certs, answer>> /\ pc[t] = "finish" /\ pc'[t] = "next"
        /\ step[t] = Ended
    BY <1>3 DEF Finish, Goto, results, Typed
  <2>2. Dialog(t)' = Dialog(t)
    BY <2>1, Stays
  <2>. QED  BY <1>1, <2>1, <2>2 DEF Served
<1>4. CASE NextDialog(t)
  <2>1. /\ UNCHANGED <<certs, answer>> /\ pc[t] = "next" /\ todo'[t] = Tail(todo[t])
        /\ \/ Over(t) /\ pc'[t] = "done"
           \/ Dialog(t) = "initpki" /\ pc'[t] = "request"
           \/ Dialog(t) = "adduser" /\ pc'[t] = "begin"
    BY <1>4 DEF NextDialog, Goto, results, Typed
  <2>2. CASE Over(t) /\ pc'[t] = "done"
    <3>1. Dialog(t) = "getuser"
      BY <1>0, <2>2, Todos DEF Over, Dialog
    <3>2. todo[t] = <<"getuser">>
      BY <1>0, <3>1, TodoOf DEF Dialog
    <3>3. t \in certs /\ answer[t] = "whole"
      BY <1>1, <2>1, <3>1, <3>2 DEF Served
    <3>. QED  BY <2>1, <2>2, <3>3 DEF Served
  <2>3. CASE Dialog(t) = "initpki" /\ pc'[t] = "request"
    <3>1. todo'[t] \notin {<<"getuser">>, <<>>}
      BY <1>0, <2>1, <2>3, TodoOf DEF Dialog
    <3>. QED  BY <2>3, <3>1 DEF Served
  <2>4. CASE Dialog(t) = "adduser" /\ pc'[t] = "begin"
    BY <1>1, <2>1, <2>4 DEF Served
  <2>. QED  BY <2>1, <2>2, <2>3, <2>4
<1>. QED  BY <1>2, <1>3, <1>4

\* The CA takes the password of a thread that adds a user in step.
LEMMA ReadLineServed ==
  ASSUME Typed, Passwords, NEW t \in Threads, Placed(t), Kept(t), InStep(t), Served(t), ReadLine(t)
  PROVE  Served(t)'
<1> DEFINE text == Script(t)[step[t]]  line == Head(stdin[t])
<1>1. /\ hurt \subseteq hurt' /\ early \subseteq early' /\ certs \subseteq certs'
      /\ doubled => doubled'
  BY Grows DEF Process
<1>2. /\ UNCHANGED <<pc, todo, answer>> /\ reads[t] /\ stdin[t] # <<>>
      /\ certs' = IF Dialog(t) = "adduser" /\ Accepts(t, text, line) THEN certs \cup {t} ELSE certs
  BY DEF ReadLine, thread
<1> SUFFICES ASSUME t \notin hurt', t \notin early', ~doubled'  PROVE Served(t)'
  BY DEF Served
<1>3. Dialog(t)' = Dialog(t) /\ step[t] # Ended /\ pc[t] \in Works
  <2>1. step[t] # Ended
    BY <1>2 DEF Placed
  <2>. QED  BY <1>2, <2>1, Stays, AtWork
<1>4. ASSUME Dialog(t) = "adduser"  PROVE t \in certs'
  <2>1. /\ Secrets(stdin[t], Threads) /\ Secrets(stdin[t], {None, caPw}) /\ ca # None
        /\ ca \in {None, caPw} /\ stdin[t] \in Seq(Line)
    BY <1>1, <1>3, <1>4 DEF Kept, Passwords, Typed
  <2>2. line.secret \in Threads /\ line.secret \in {None, caPw}
    BY <1>2, <2>1, SecretsOf
  <2>3. line.secret = ca
    BY <2>1, <2>2, PkiAssumption
  <2>4. text.name \notin {"new", "again", "name"}
    <3>1. step[t] \in 1..2 /\ Script(t) = Scripts["adduser"]
      <4>1. Dialog(t) \in Talks
        BY <1>4 DEF Talks
      <4>2. step[t] \in 1..Len(Script(t)) /\ Script(t) = Scripts[Dialog(t)]
        BY <1>3, <4>1, AtWork
      <4>. QED  BY <1>4, <4>2, ScriptTexts
    <3>. QED  BY <3>1, ScriptTexts
  <2>5. Accepts(t, text, line)
    BY <2>1, <2>3, <2>4 DEF Accepts
  <2>. QED  BY <1>2, <1>4, <2>5
<1>. QED  BY <1>1, <1>2, <1>3, <1>4 DEF Served, Works

LEMMA StepServed ==
  ASSUME Typed, Passwords, NEW t \in Threads, Placed(t), Kept(t), InStep(t), Served(t),
         Thread(t) \/ Process(t)
  PROVE  Served(t)'
BY MovesServed, EndsServed, ReadLineServed DEF Thread, Process

LEMMA ElsewhereServed ==
  ASSUME NEW u, Same(u), Placed(u), Served(u), doubled => doubled'
  PROVE  Served(u)'
BY ElsewherePlaced DEF Same, Served

-----------------------------------------------------------------------------
(* The inductive invariant *)

IInv == /\ Typed /\ AllPlaced /\ AllKept /\ Passwords /\ AllInStep
        /\ \A t \in Threads : Served(t)
        /\ missed = {} /\ misread \subseteq hurt

LEMMA InitIInv == Init => IInv
<1> SUFFICES ASSUME Init  PROVE IInv
  OBVIOUS
<1>1. Typed /\ AllPlaced /\ Passwords /\ AllKept
  BY InitTyped, InitPasswords DEF AllPlaced, AllKept
<1>2. ASSUME NEW t \in Threads  PROVE InStep(t) /\ Served(t)
  <2>1. /\ pc[t] \in {"begin", "request"}
        /\ todo[t] \in {<<"initpki", "adduser", "getuser">>, <<"adduser", "getuser">>}
    BY DEF Init
  <2>2. todo[t] \notin {<<"getuser">>, <<>>}
    BY <2>1
  <2>. QED  BY <2>1, <2>2 DEF InStep, Served, Works
<1>3. missed = {} /\ misread \subseteq hurt
  BY DEF Init
<1>. QED  BY <1>1, <1>2, <1>3 DEF IInv, AllInStep

LEMMA NextIInv == IInv /\ [Next]_vars => IInv'
<1> SUFFICES ASSUME IInv, [Next]_vars  PROVE IInv'
  OBVIOUS
<1>0. Typed' /\ AllPlaced'
  BY NextTyped DEF IInv
<1>1. CASE UNCHANGED vars
  <2>1. UNCHANGED <<pc, todo, stage, holder, caPw, step, reads, out, fresh, stdin, known, ca, certs,
                    answer, hurt, missed, misread, doubled, early>>
    BY <1>1 DEF vars, thread, process, results, history
  <2>2. \A u \in Threads : Same(u) /\ Placed(u)
    BY <2>1 DEF Same, IInv, AllPlaced
  <2>3. \A u \in Threads : Kept(u)' /\ InStep(u)' /\ Served(u)'
    BY <2>1, <2>2, ElsewhereKept, ElsewhereInStep, ElsewhereServed DEF IInv, AllKept, AllInStep
  <2>4. Passwords'
    BY <2>1 DEF IInv, Passwords
  <2>. QED  BY <1>0, <2>1, <2>3, <2>4 DEF IInv, AllKept, AllInStep
<1>2. ASSUME NEW t \in Threads, Thread(t) \/ Process(t)  PROVE IInv'
  <2>1. /\ Typed /\ Passwords /\ \A u \in Threads : /\ Placed(u) /\ Kept(u) /\ InStep(u)
                                                    /\ Served(u)
    BY DEF IInv, AllPlaced, AllKept, AllInStep
  <2>2. Passwords'
    BY <1>2, PasswordsStep DEF IInv
  <2>3. Kept(t)' /\ (ca # None => ca' # None)
    BY <1>2, <2>1, StepKept
  <2>4. /\ InStep(t)' /\ hurt \subseteq hurt'
        /\ missed' = missed /\ misread' \subseteq misread \cup hurt'
    BY <1>2, <2>1, StepInStep
  <2>5. Served(t)' /\ (doubled => doubled')
    BY <1>2, <2>1, StepServed, Grows
  <2>6. ASSUME NEW u \in Threads \ {t}  PROVE Kept(u)' /\ InStep(u)' /\ Served(u)'
    BY <1>2, <2>1, <2>3, <2>5, Elsewhere, ElsewhereKept, ElsewhereInStep, ElsewhereServed
  <2>7. \A u \in Threads : Kept(u)' /\ InStep(u)' /\ Served(u)'
    BY <2>3, <2>4, <2>5, <2>6
  <2>8. missed' = {} /\ misread' \subseteq hurt'
    BY <2>4 DEF IInv
  <2>. QED  BY <1>0, <2>2, <2>7, <2>8 DEF IInv, AllKept, AllInStep
<1>. QED  BY <1>1, <1>2 DEF Next

LEMMA InvariantHolds == Spec => []IInv
<1>1. Init => IInv
  BY InitIInv
<1>2. IInv /\ [Next]_vars => IInv'
  BY NextIInv
<1>. QED  BY <1>1, <1>2, PTL DEF Spec

LEMMA IInvTypes == IInv => TypeOK
<1> SUFFICES ASSUME IInv  PROVE TypeOK
  OBVIOUS
<1>1. Typed /\ \A t \in Threads : pc[t] = "done" <=> todo[t] = <<>>
  BY DEF IInv, AllPlaced, Placed
<1>. QED  BY <1>1 DEF Typed, TypeOK, Places, Works

LEMMA IInvSound == IInv => DialogSound
<1> SUFFICES ASSUME IInv  PROVE DialogSound
  OBVIOUS
<1>1. TypeOK
  BY IInvTypes
<1>2. OnePassword
  BY DEF IInv, Passwords, OnePassword
<1>3. ASSUME NEW t \in Threads, pc[t] = "done", t \notin hurt \cup early, ~doubled
      PROVE  t \in certs /\ answer[t] = "whole"
  <2>1. Served(t) /\ todo[t] = <<>>
    BY <1>3 DEF IInv, AllPlaced, Placed
  <2>. QED  BY <1>3, <2>1 DEF Served
<1>4. Issues
  BY <1>3 DEF Issues
<1>. QED  BY <1>1, <1>2, <1>4 DEF IInv, DialogSound, AnswersFit, PromptsSeen

\* The dialogs with easy-rsa stay in step, whatever the other threads and the process do: a
\* prompt reads the line written for it unless the process was late or died or a read cut a
\* text in two (AnswersFit), no printed prompt is sat out (PromptsSeen), the CA keeps the
\* password later requests answer with unless two threads made one each (OnePassword), and
\* a request with the CA in place and a process in time gets a certificate and the whole
\* configuration (Issues).
THEOREM DialogIsSound == Spec => []DialogSound
<1>1. IInv => DialogSound
  BY IInvSound
<1>. QED  BY <1>1, InvariantHolds, PTL

=============================================================================
