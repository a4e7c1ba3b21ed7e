--------------------------------- MODULE Keys ---------------------------------
(***************************************************************************)
(* What the client requests of the worker decide (api/client_requests.cpp) *)
(* about a key: c_auth, c_checkIfUserExists, c_getOvpnFile, c_activateKey. *)
(* They run one at a time, under the users mutex (module WorkerThreads),   *)
(* and none of them stores anything, so each is an operator on the table   *)
(* of users and the time.  A user's "valid" is a time in seconds, or       *)
(* "add_N", which as a number is 0.  The clock counts half seconds: a      *)
(* QDateTime has milliseconds, toTime_t() drops them.                      *)
(***************************************************************************)
EXTENDS Integers, Sequences, FiniteSets

CONSTANTS Ids,       \* keys; "free" is never a user's
          MaxUsers,  \* bound: users in the table
          MaxValid,  \* bound: seconds a key is valid to
          MaxDays,   \* bound: days a new key adds
          MaxClock   \* bound: half seconds the clock runs

Modes == {"basic", "pro", "premium"}
Valid == [add : {FALSE}, n : 0..MaxValid] \cup [add : {TRUE}, n : 0..MaxDays]
User  == [id : Ids, valid : Valid, mode : Modes]

VARIABLES users,  \* usersJson()->value("users")
          clock,  \* QDateTime::currentDateTimeUtc()
          given   \* history: keys whose activation has answered with days added

keysVars == <<users, clock, given>>

-----------------------------------------------------------------------------
Indices(t, id) == {i \in DOMAIN t : t[i].id = id}

Smallest(S) == CHOOSE i \in S : \A j \in S : i <= j
Largest(S)  == CHOOSE i \in S : \A j \in S : i >= j

\* toUInt() of "valid"
Seconds(user) == IF user.valid.add THEN 0 ELSE user.valid.n

\* toTime_t()
Whole(t) == t \div 2

\* fromTime_t(valid) > currentDateTimeUtc()
Running(user, t) == 2 * Seconds(user) > t

\* c_checkIfUserExists
UserExists(tab, id) == IF Indices(tab, id) # {} THEN "1" ELSE "0"

\* c_auth: the first user with the key decides.
Auth(tab, id, t) ==
  LET found == Indices(tab, id)
  IN  IF found = {} THEN "AUTH_KEY_NOT_FOUND"
      ELSE IF Running(tab[Smallest(found)], t) THEN "AUTH_SUCCESS" ELSE "AUTH_KEY_EXPIRED"

\* Mutant: any user with the key will do.
AnyUser(tab, id, t) == Indices(tab, id) # {}

\* c_getOvpnFile issues a configuration: some user with the key is valid.
GetsOvpn(tab, id, t) == \E i \in Indices(tab, id) : Running(tab[i], t)

\* A mode is no worse than the one it replaces; no mode is replaced by none.
AllowToAddDays(oldMode, newMode) ==
  \/ oldMode = "basic"
  \/ oldMode = "pro" /\ newMode \in {"pro", "premium"}
  \/ oldMode = "premium" /\ newMode = "premium"

\* Mutant: in the second in which it ends a key is given up by the activation.
ExpiredAtEnd(user, t) == Seconds(user) < Whole(t) + 2

\* A key in use is refused when its last second is over.
Expired(user, t) == Seconds(user) < Whole(t)

\* c_activateKey of the key new by a client that has old, "free" if none: the last user with
\* the key decides.  days is what the answer says about days to add; the sum of them and
\* the old time is computed and discarded (line 297), and the new user stays in a local copy of
\* the table (line 303).
Activate(tab, new, old, t) ==
  LET found == Indices(tab, new)
      olds  == IF old = "free" THEN {} ELSE Indices(tab, old)
      user  == tab[Largest(found)]
      had   == tab[Largest(olds)]
      from  == IF olds # {} /\ Running(had, t) THEN Seconds(had) ELSE Whole(t)
      adds  == user.valid.add /\ user.valid.n > 0
               /\ olds # {} /\ AllowToAddDays(had.mode, user.mode)
  IN  CASE found = {}                                -> [response |-> "ACTIVATION_KEY_NOT_FOUND"]
        [] found # {} /\ ~user.valid.add /\ Expired(user, t) -> [response |-> "ACTIVATION_KEY_EXPIRED"]
        [] OTHER -> [response |-> "ACTIVATION_SUCCESS", added |-> adds, mode |-> user.mode,
                     valid |-> IF user.valid.add THEN from ELSE user.valid.n]

\* The table an activation leaves: usersJson() is not written.
Activated(tab, new, old, t) == tab

-----------------------------------------------------------------------------
Tables == UNION {[1..n -> User] : n \in 0..MaxUsers}

KeysInit == users \in Tables /\ clock = 0 /\ given = {}

ClockTick == clock < MaxClock /\ clock' = clock + 1 /\ UNCHANGED <<users, given>>

\* A client asks for an activation, the only request that means to change the table.
ActivateKey(new, old) ==
  LET answer == Activate(users, new, old, clock)
  IN  /\ answer.response = "ACTIVATION_SUCCESS"
      /\ users' = Activated(users, new, old, clock)
      /\ given' = IF answer.added THEN given \cup {new} ELSE given
      /\ UNCHANGED clock

KeysNext == ClockTick \/ \E new \in Ids, old \in Ids \cup {"free"} : ActivateKey(new, old)

KeysSpec == KeysInit /\ [][KeysNext]_keysVars

-----------------------------------------------------------------------------
(* Properties *)

UniqueIds == \A id \in Ids : Cardinality(Indices(users, id)) <= 1

\* The two requests of a login agree: a client that is let in gets its configuration, and one
\* that is told its key is unknown or over does not, provided no key is in the table twice.
AuthMeansOvpn ==
  \A id \in Ids :
    /\ Auth(users, id, clock) = "AUTH_SUCCESS" => GetsOvpn(users, id, clock)
    /\ UniqueIds /\ GetsOvpn(users, id, clock) => Auth(users, id, clock) = "AUTH_SUCCESS"

\* A key in use that c_activateKey accepts is accepted by c_auth at that time, but for the
\* second in which it ends: c_activateKey compares whole seconds and lets them be equal.
\* A key it refuses c_auth refuses too.
ActivationAgrees ==
  UniqueIds =>
    \A u \in {users[i] : i \in {i \in DOMAIN users : ~users[i].valid.add}}, old \in Ids \cup {"free"} :
      LET auth == Auth(users, u.id, clock)
      IN  CASE Activate(users, u.id, old, clock).response = "ACTIVATION_SUCCESS" ->
                 auth = "AUTH_SUCCESS" \/ u.valid.n = Whole(clock)
            [] OTHER -> auth = "AUTH_KEY_EXPIRED"

\* The requests of the worker agree on whether a key is valid: c_auth with
\* c_getOvpnFile at every time, and an activation with c_auth except for the
\* second in which the key ends.
KeysSound == AuthMeansOvpn /\ ActivationAgrees

\* "save new user as we added days": a key whose activation has added days is a key in use.
ActivationSaved ==
  UniqueIds => \A id \in given : ~users[Largest(Indices(users, id))].valid.add

=============================================================================
