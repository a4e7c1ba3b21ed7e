------------------------------ MODULE MCTables ------------------------------
(***************************************************************************)
(* The tables, files, messages and ciphers of the client and of the worker *)
(* on small instances.  The parts share nothing: a behaviour chooses one   *)
(* of them at its beginning, and the others stay as they are.              *)
(*                                                                         *)
(* The block cipher is an instance that carries its cases; the other parts *)
(* are extended, and their constants are in the configuration.             *)
(***************************************************************************)
EXTENDS Routes, Keys, NxCache, NxFileCache, NxMessages, Envelope, TapSetup, TLC

\* Known results for AES-256: FIPS-197 C.3 and SP 800-38A F.1.5; and the key of
\* cryptofuck.h with a block, for which none is published.
Fips == [key |-> <<0, 1, 2, 3, 4, 5, 6, 7, 8, 9, 10, 11, 12, 13, 14, 15, 16, 17, 18,
                   19, 20, 21, 22, 23, 24, 25, 26, 27, 28, 29, 30, 31>>,
         plain |-> <<0, 17, 34, 51, 68, 85, 102, 119, 136, 153, 170, 187, 204, 221,
                     238, 255>>,
         cipher |-> <<142, 162, 183, 202, 81, 103, 69, 191, 234, 252, 73, 144, 75,
                      73, 96, 137>>]
Sp == [key |-> <<96, 61, 235, 16, 21, 202, 113, 190, 43, 115, 174, 240, 133, 125,
                 119, 129, 31, 53, 44, 7, 59, 97, 8, 215, 45, 152, 16, 163, 9, 20,
                 223, 244>>,
       plain |-> <<107, 193, 190, 226, 46, 64, 159, 150, 233, 61, 126, 17, 115, 147,
                   23, 42>>,
       cipher |-> <<243, 238, 209, 189, 181, 210, 160, 60, 6, 75, 90, 126, 61, 177,
                    129, 248>>]
Own == [key |-> <<126, 112, 67, 93, 5, 6, 7, 8, 9, 10, 11, 12, 13, 14, 15, 9, 31,
                  53, 44, 7, 59, 97, 8, 215, 45, 152, 16, 163, 9, 20, 223, 244>>,
        plain |-> Fips.plain, cipher |-> <<>>]
AesCases == {Fips, Sp, Own}

VARIABLE part     \* the part that this behaviour is about

\* The block cipher.
VARIABLES aCase, aKeys, aS, aDone, aRound, aTrail
A == INSTANCE Aes
  WITH Cases <- AesCases, case <- aCase, keys <- aKeys, s <- aS, done <- aDone,
       round <- aRound, trail <- aTrail
aesVars == <<aCase, aKeys, aS, aDone, aRound, aTrail>>

-----------------------------------------------------------------------------
Parts == {"routes", "keys", "cache", "files", "messages", "taps", "envelope", "aes"}

\* A part that is idle has no state, or stays in one initial state.
Nothing == "idle"
aesIdle == aCase = Nothing /\ aKeys = Nothing /\ aS = Nothing /\ aDone = Nothing /\
           aRound = Nothing /\ aTrail = Nothing

TablesInit ==
  /\ part \in Parts
  /\ RoutesInit /\ FilesInit /\ CacheInit /\ MessagesInit /\ EnvelopeInit
  /\ KeysInit /\ (part # "keys" => users = <<>>)
  /\ TapsInit /\ (part # "taps" => Here = {})
  /\ IF part = "aes" THEN A!Init ELSE aesIdle

\* The part p makes a step and the others none.
Only(p) ==
  /\ part = p
  /\ UNCHANGED part
  /\ IF p = "routes" THEN TRUE ELSE UNCHANGED routesVars
  /\ IF p = "keys" THEN TRUE ELSE UNCHANGED keysVars
  /\ IF p = "cache" THEN TRUE ELSE UNCHANGED cacheVars
  /\ IF p = "files" THEN TRUE ELSE UNCHANGED filesVars
  /\ IF p = "messages" THEN TRUE ELSE UNCHANGED messagesVars
  /\ IF p = "taps" THEN TRUE ELSE UNCHANGED tapsVars
  /\ IF p = "envelope" THEN TRUE ELSE UNCHANGED envelopeVars
  /\ IF p = "aes" THEN TRUE ELSE UNCHANGED aesVars

TablesNext ==
  \/ Only("routes") /\ RoutesNext
  \/ Only("keys") /\ KeysNext
  \/ Only("cache") /\ CacheNext
  \/ Only("files") /\ FilesNext
  \/ Only("messages") /\ MessagesNext
  \/ Only("taps") /\ TapsNext
  \/ Only("envelope") /\ EnvelopeNext
  \/ Only("aes") /\ A!Next

TablesVars == <<part, routesVars, keysVars, cacheVars, filesVars, messagesVars,
                tapsVars, envelopeVars, aesVars>>
TablesSpec == TablesInit /\ [][TablesNext]_TablesVars
-----------------------------------------------------------------------------
(* Properties: those of the modules, where their comments say what they are. *)

\* The block cipher is AES-256, and what it enciphers it deciphers.
CipherSound == part = "aes" => A!Standard /\ A!Undoes
====================
