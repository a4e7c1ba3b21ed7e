------------------------------ MODULE NxCache ------------------------------
(***************************************************************************)
(* The memory cache of nxweb (lib/cache.c) under the handler that serves   *)
(* files (lib/modules/sendfile.c): records shared by the network threads,  *)
(* counted by the answers that are being sent from them.                   *)
(*                                                                         *)
(* A file is its version, which is its modification time, and its content  *)
(* and length are those of a version.  A request runs in one callback of   *)
(* its thread, so the loop's time stands still for it, while the other     *)
(* threads, the clock and the files go on.                                 *)
(***************************************************************************)
EXTENDS Integers, Sequences, FiniteSets, SequencesExt, Selected

CONSTANTS Key,       \* paths
          Rec,       \* memory for records
          Query,     \* requests under way, each of a thread of its own
          Nil,
          MaxItems,  \* NXWEB_MAX_CACHED_ITEMS
          Slack,     \* what may be stored beyond it while all are in use (16)
          Cached,    \* NXWEB_DEFAULT_CACHED_TIME
          MaxMoment, \* bound: the clock
          MaxVersions \* bound: versions of a file

ASSUME CacheBounds ==
  /\ {MaxItems, Slack, Cached, MaxMoment} \subseteq Nat
  /\ MaxVersions \in Nat \ {0}
  /\ IsFiniteSet(Query)
  /\ Nil \notin Rec \cup Key

VARIABLES
  born,   \* the times the versions of each file were written
  moment, \* the clock
  rec,    \* nxweb_cache_rec of the memory that is allocated
  table,  \* _nxweb_cache
  lru,    \* the list, head first
  query   \* the requests

cacheVars == <<born, moment, rec, table, lru, query>>

Free == [live |-> FALSE, key |-> Nil, ver |-> 0, content |-> 0, expires |-> 0, refs |-> 0]

\* rec is req_data; since is the client's If-Modified-Since; mtime is what
\* stat() said (sendfile_end too), len the length that the answer announces;
\* mem says that the content comes from memory.
NoQuery == [pc |-> "idle", key |-> Nil, t |-> 0, since |-> 0, mtime |-> 0, len |-> 0,
            rec |-> Nil, mem |-> FALSE]

CacheInit ==
  /\ born = [k \in Key |-> <<0>>]
  /\ moment = 0
  /\ rec = [x \in Rec |-> Free]
  /\ table = [k \in Key |-> Nil]
  /\ lru = <<>>
  /\ query = [r \in Query |-> NoQuery]

Version(k) == Len(born[k])
Without(l, x) == Selected(l, Rec \ {x})
Linked(x) == x \in ToSet(lru)
Becomes(r, q) == query' = [query EXCEPT ![r] = q]

-----------------------------------------------------------------------------
\* The cache: what is done while its mutex is held.

\* cache_check_size of table tb, list l and records m: from the tail, records
\* that nobody uses are freed until the number is right.
\* Mutant: it stops at the first record in use.
TailOnly(l, m) == IF Len(l) > MaxItems /\ m[Last(l)].refs = 0 THEN {Last(l)} ELSE {}
Victims(l, m) ==
  LET unused == Selected(Reverse(l), {x \in Rec : m[x].refs = 0})
  IN {unused[i] : i \in {j \in DOMAIN unused : j <= Len(l) - MaxItems}}
Trim(tb, l, m) ==
  LET gone == Victims(l, m)
  IN /\ table' = [k \in Key |-> IF tb[k] \in gone THEN Nil ELSE tb[k]]
     /\ lru' = Selected(l, Rec \ gone)
     /\ rec' = [x \in Rec |-> IF x \in gone THEN Free ELSE m[x]]

\* nxweb_cache_try finds x, still good at time t or just revalidated: it goes
\* to the head of the list.
\* Mutant: by a newer file as well.
Newer(x, mtime) == rec[x].ver <= mtime
Revalidated(x, mtime) == rec[x].ver = mtime
\* Mutant: it is put there and stays where it was.
LinkedTwice(x) == <<x>> \o lru
Relinked(x) == <<x>> \o Without(lru, x)
Expires(x, t, mtime) == IF Revalidated(x, mtime) THEN t + Cached ELSE rec[x].expires
Hit(x, t, mtime, used) ==
  /\ t <= Expires(x, t, mtime)
  /\ rec' = [rec EXCEPT ![x].expires = Expires(x, t, mtime), ![x].refs = IF used THEN @ + 1 ELSE @]
  /\ lru' = Relinked(x)
  /\ UNCHANGED table

\* It finds x too old: x is no longer found, and freed unless it is in use.
\* Mutant: in use or not.
FreeAnyway(x) == TRUE
MayFree(x) == rec[x].refs = 0
Drop(k, x) ==
  /\ table' = [table EXCEPT ![k] = Nil]
  /\ lru' = Without(lru, x)
  /\ rec' = IF MayFree(x) THEN [rec EXCEPT ![x] = Free] ELSE rec

\* cache_rec_unref: the last use of a record that is too old, or no longer
\* found, frees it.
\* Mutant: only of one that is still found.
OnlyFound(x, t) == t > rec[x].expires /\ Linked(x)
Ends(x, t) == t > rec[x].expires \/ ~Linked(x)
Unref(x) ==
  LET m == [rec EXCEPT ![x].refs = @ - 1]
      k == rec[x].key
  IN IF m[x].refs = 0 /\ Ends(x, moment)
     THEN Trim(IF table[k] = x THEN [table EXCEPT ![k] = Nil] ELSE table, Without(lru, x),
               [m EXCEPT ![x] = Free])
     ELSE Trim(table, lru, m)

-----------------------------------------------------------------------------
\* A request for a file.

\* nxweb_select_handler: the cache is tried before the file.
TryCache(r) ==
  /\ query[r].pc = "idle"
  /\ \E k \in Key, since \in 0..MaxVersions :
       LET x == table[k]
           q == [NoQuery EXCEPT !.key = k, !.t = moment, !.since = since]
       IN /\ since <= Version(k)
          /\ \/ /\ x # Nil
                /\ IF since # 0 /\ rec[x].ver <= since
                   THEN Hit(x, moment, 0, FALSE) /\ Becomes(r, NoQuery)
                   ELSE /\ Hit(x, moment, 0, TRUE)
                        /\ Becomes(r, [q EXCEPT !.pc = "sending", !.len = rec[x].ver, !.rec = x,
                                             !.mem = TRUE])
             \/ /\ x # Nil => moment > rec[x].expires
                /\ Becomes(r, [q EXCEPT !.pc = "select"])
                /\ UNCHANGED <<rec, table, lru>>
  /\ UNCHANGED <<born, moment>>

\* sendfile_on_select and the first half of nxweb_cache_store_response, which
\* asks for the number of records without the mutex.
Select(r) ==
  /\ query[r].pc = "select"
  /\ LET v == Version(query[r].key)
         q == [query[r] EXCEPT !.mtime = v, !.len = v]
     IN Becomes(r, IF query[r].since # 0 /\ v <= query[r].since THEN NoQuery
                ELSE [q EXCEPT !.pc = IF Len(lru) < MaxItems + Slack THEN "try" ELSE "sending"])
  /\ UNCHANGED <<born, moment, rec, table, lru>>

\* nxweb_cache_store_response tries the cache again, for what stat() said.
StoreTry(r) ==
  /\ query[r].pc = "try"
  /\ LET x == table[query[r].key]
         t == query[r].t
     IN \/ /\ x # Nil
           /\ Hit(x, t, query[r].mtime, TRUE)
           /\ Becomes(r, [query[r] EXCEPT !.pc = "sending", !.len = rec[x].ver, !.rec = x])
        \/ /\ x # Nil
           /\ t > Expires(x, t, query[r].mtime)
           /\ Drop(query[r].key, x)
           /\ Becomes(r, [query[r] EXCEPT !.pc = "read"])
        \/ /\ x = Nil
           /\ Becomes(r, [query[r] EXCEPT !.pc = "read"])
           /\ UNCHANGED <<rec, table, lru>>
  /\ UNCHANGED <<born, moment>>

\* It reads the file into a new record; one that has got shorter is an error.
ExpiresAt(t) == t + Cached
StoreRead(r) ==
  /\ query[r].pc = "read"
  /\ \/ LET unused == {y \in Rec : ~rec[y].live}
            x == CHOOSE y \in unused : TRUE
            k == query[r].key
        IN /\ unused # {}
           /\ rec' = [rec EXCEPT ![x] = [live |-> TRUE, key |-> k, ver |-> query[r].mtime,
                                         content |-> Version(k), expires |-> ExpiresAt(query[r].t),
                                         refs |-> 0]]
           /\ Becomes(r, [query[r] EXCEPT !.pc = "insert", !.rec = x])
     \/ /\ Version(query[r].key) > query[r].mtime
        /\ Becomes(r, [query[r] EXCEPT !.pc = "sending"])
        /\ UNCHANGED rec
  /\ UNCHANGED <<born, moment, table, lru>>

\* It enters the record, or takes the one that another thread has entered.
StoreInsert(r) ==
  /\ query[r].pc = "insert"
  /\ LET k == query[r].key
         x == query[r].rec
         other == table[k]
     IN IF other = Nil
        THEN /\ Trim([table EXCEPT ![k] = x], <<x>> \o lru, [rec EXCEPT ![x].refs = 1])
             /\ Becomes(r, [query[r] EXCEPT !.pc = "sending"])
        ELSE /\ rec' = [rec EXCEPT ![x] = Free, ![other].refs = @ + 1]
             /\ Becomes(r, [query[r] EXCEPT !.pc = "sending", !.rec = other, !.len = rec[other].ver])
             /\ UNCHANGED <<table, lru>>
  /\ UNCHANGED <<born, moment>>

\* The answer is sent, or its connection ends: req_finalize.
EndQuery(r) ==
  /\ query[r].pc = "sending"
  /\ IF query[r].rec = Nil THEN UNCHANGED <<rec, table, lru>> ELSE Unref(query[r].rec)
  /\ Becomes(r, NoQuery)
  /\ UNCHANGED <<born, moment>>

MomentPasses ==
  /\ moment < MaxMoment
  /\ moment' = moment + 1
  /\ UNCHANGED <<born, rec, table, lru, query>>
Write(k) ==
  /\ Version(k) < MaxVersions
  /\ born' = [born EXCEPT ![k] = Append(@, moment)]
  /\ UNCHANGED <<moment, rec, table, lru, query>>

HandleQuery(r) == \/ TryCache(r)
                  \/ Select(r)
                  \/ StoreTry(r)
                  \/ StoreRead(r)
                  \/ StoreInsert(r)
                  \/ EndQuery(r)
World == MomentPasses \/ \E k \in Key : Write(k)
CacheNext == (\E r \in Query : HandleQuery(r)) \/ World
CacheSpec == CacheInit /\ [][CacheNext]_cacheVars

-----------------------------------------------------------------------------
\* Properties.

CacheTypeOK ==
  /\ born \in [Key -> Seq(0..MaxMoment)]
  /\ moment \in 0..MaxMoment
  /\ rec \in [Rec -> [live : BOOLEAN, key : Key \cup {Nil}, ver : 0..MaxVersions,
                      content : 0..MaxVersions, expires : 0..MaxMoment + Cached,
                      refs : 0..Cardinality(Query)]]
  /\ table \in [Key -> Rec \cup {Nil}]
  /\ lru \in Seq(Rec)
  /\ query \in [Query -> [pc : {"idle", "select", "try", "read", "insert", "sending"},
                        key : Key \cup {Nil}, t : 0..MaxMoment, since : 0..MaxVersions,
                        mtime : 0..MaxVersions, len : 0..MaxVersions, rec : Rec \cup {Nil},
                        mem : BOOLEAN]]

\* Memory that an answer is sent from is never freed, and no record is lost:
\* the count is the number of answers, and what is neither found nor counted
\* nor being filled is free.
Users(x) == {r \in Query : query[r].rec = x /\ query[r].pc = "sending"}
Filling(x) == \E r \in Query : query[r].rec = x /\ query[r].pc = "insert"
RefsExact ==
  \A x \in Rec : /\ rec[x].refs = Cardinality(Users(x))
                 /\ rec[x].live <=> Linked(x) \/ Users(x) # {} \/ Filling(x)

\* The table and the list hold the same records, each once and under its key.
TableIsList ==
  /\ {table[k] : k \in Key} \ {Nil} = ToSet(lru)
  /\ Cardinality(ToSet(lru)) = Len(lru)
  /\ \A k \in Key : table[k] # Nil => rec[table[k]].key = k

\* The cache is larger than it may be only while every record is in use.
Bounded == Len(lru) > MaxItems => \A x \in ToSet(lru) : rec[x].refs > 0

\* A request that is answered from memory gets what the file held at most
\* NXWEB_DEFAULT_CACHED_TIME before it came, however often the record was
\* revalidated and whoever filled it.
FreshEnough ==
  \A r \in Query : LET k == query[r].key
                       c == rec[query[r].rec].content
                   IN query[r].mem /\ Version(k) > c => born[k][c + 1] + Cached >= query[r].t

\* The length that an answer announces is that of the part of the file it
\* sends, as nxd_http_server_proto_setup_content_out asserts.
LengthIsRange == \A r \in Query : query[r].pc = "sending" /\ ~query[r].mem => query[r].len = query[r].mtime

\* The memory cache of nxweb: no answer is sent from memory that was freed, no
\* record is lost, the table is the list, its size is bounded, and a stale file
\* is not served.
CacheSound == CacheTypeOK /\ RefsExact /\ TableIsList /\ Bounded /\ FreshEnough
=============================================================================
