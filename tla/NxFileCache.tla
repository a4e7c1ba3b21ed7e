---------------------------- MODULE NxFileCache ----------------------------
(***************************************************************************)
(* The file cache of nxweb for one key                                     *)
(* (lib/filters/file_cache_filter.c): answers of a backend are written to  *)
(* <key>.nxc.tmp while they pass, and become <key>.nxc when they have      *)
(* passed whole; an old file is revalidated, or served when the backend    *)
(* fails.                                                                  *)
(*                                                                         *)
(* Network threads interleave at the calls to the file system.  A file     *)
(* that is open stays what it is when its name goes, so who has opened the *)
(* cached one keeps its version.                                           *)
(***************************************************************************)
EXTENDS Integers, FiniteSets

CONSTANTS Req,        \* requests under way
          Units,      \* units of content that an answer passes in
          Life,       \* the lifetime that the backend may give an answer
          MaxTime,    \* bound: the clock
          MaxVersion, \* bound: versions of the content
          Crashes     \* bound: how often the server is killed

VARIABLES
  back,    \* the version that the backend has
  now,     \* the clock
  cache,   \* <key>.nxc: version, units, and its mtime, which is when it expires
  tmp,     \* <key>.nxc.tmp
  req,     \* the requests
  killed

filesVars == <<back, now, cache, tmp, req, killed>>

\* held is the version of the cached file that is open; reval is
\* revalidation_mode; status, ver, life and store are the answer's: whether it
\* comes with a lifetime (one without may have the file's), and whether it can be
\* stored; exp is expires_time; out is what the client gets.
Quiet == [pc |-> "idle", held |-> 0, reval |-> FALSE, status |-> 0, ver |-> 0, life |-> FALSE,
          store |-> FALSE, exp |-> 0, sent |-> 0, out |-> "none"]
NoFile == [ver |-> 0, units |-> 0, exp |-> 0]
Exists(f) == f.ver # 0

FilesInit == /\ back = 1
             /\ now = 0
             /\ cache = NoFile
             /\ tmp = NoFile
             /\ req = [r \in Req |-> Quiet]
             /\ killed = 0

Goes(r, q) == req' = [req EXCEPT ![r] = q]
Rest == UNCHANGED <<back, now, killed>>

-----------------------------------------------------------------------------
\* _nxweb_fc_serve_from_cache: nothing cached, an old file to revalidate, or one
\* that is served.
Old(f) == f.exp < now
Ask(r) ==
  /\ req[r].pc = "idle"
  /\ Goes(r, IF ~Exists(cache) THEN [Quiet EXCEPT !.pc = "asked"]
             ELSE IF Old(cache) THEN [Quiet EXCEPT !.pc = "asked", !.held = cache.ver, !.reval = TRUE]
             ELSE [Quiet EXCEPT !.pc = "sent", !.held = cache.ver, !.ver = cache.ver, !.out = "cached"])
  /\ Rest /\ UNCHANGED <<cache, tmp>>

\* The backend answers: 304 to the version it still has, 200, or an error (also
\* the proxy's own, when there is no backend).
Unchanged(q, life) == [q EXCEPT !.pc = "answered", !.status = 304, !.life = life]
Fresh(q, life, store) == [q EXCEPT !.pc = "answered", !.status = 200, !.ver = back, !.life = life,
                                   !.store = store]
Failed(q) == [q EXCEPT !.pc = "answered", !.status = 500]
Respond(r) ==
  /\ req[r].pc = "asked"
  /\ \/ /\ req[r].reval /\ req[r].held = back
        /\ \E life \in BOOLEAN : Goes(r, Unchanged(req[r], life))
     \/ \E life, store \in BOOLEAN : Goes(r, Fresh(req[r], life, store))
     \/ Goes(r, Failed(req[r]))
  /\ Rest /\ UNCHANGED <<cache, tmp>>

\* _nxweb_fc_revalidate: the cached file is served for 304, with the new
\* lifetime for whatever file has the name now, and for an error.
NotModified(r) ==
  /\ req[r].pc = "answered" /\ req[r].reval /\ req[r].status = 304
  /\ Goes(r, [req[r] EXCEPT !.pc = "sent", !.ver = req[r].held, !.out = "cached"])
  /\ cache' = IF req[r].life /\ Exists(cache) THEN [cache EXCEPT !.exp = now + Life] ELSE cache
  /\ Rest /\ UNCHANGED tmp
\* Mutant: only for an answer that says the file is good.
OnlyGood(q) == FALSE
ServesOld(q) == q.reval /\ q.status = 500
ServeOld(r) ==
  /\ req[r].pc = "answered" /\ ServesOld(req[r])
  /\ Goes(r, [req[r] EXCEPT !.pc = "sent", !.ver = req[r].held, !.out = "cached"])
  /\ Rest /\ UNCHANGED <<cache, tmp>>

\* _nxweb_fc_store and fc_store_begin: a new answer is written to the temporary
\* file, unless there is one, or as it is.
\* Mutant: O_EXCL is forgotten.
AlwaysCreates == TRUE
Creates == ~Exists(tmp)
Stores(r) == /\ req[r].status = 200
             /\ req[r].store
             /\ ~(req[r].reval /\ req[r].held = req[r].ver)
Pass(r) ==
  /\ req[r].pc = "answered"
  /\ req[r].status = 200 \/ (req[r].status = 500 /\ ~ServesOld(req[r]))
  /\ IF Stores(r) /\ Creates
     THEN /\ tmp' = [ver |-> req[r].ver, units |-> 0, exp |-> 0]
          /\ Goes(r, [req[r] EXCEPT !.pc = "storing", !.out = "new",
                                    !.exp = IF req[r].life THEN now + Life ELSE now - 5])
     ELSE /\ Goes(r, [req[r] EXCEPT !.pc = "sent",
                                    !.out = IF req[r].status = 200 THEN "new" ELSE "error"])
          /\ UNCHANGED tmp
  /\ Rest /\ UNCHANGED cache

\* fc_data_in_write_or_sendfile: what the client takes is appended; when that
\* fails, the file is given up.
\* Mutant: a unit beyond the end as well.
BeyondEnd(q) == q.sent <= Units
HasMore(q) == q.sent < Units
AppendUnit(r) ==
  /\ req[r].pc = "storing"
  /\ HasMore(req[r])
  /\ \/ /\ Goes(r, [req[r] EXCEPT !.sent = @ + 1])
        /\ tmp' = [tmp EXCEPT !.units = @ + 1]
     \/ /\ Goes(r, [req[r] EXCEPT !.pc = "sent", !.sent = 0])
        /\ tmp' = NoFile
  /\ Rest /\ UNCHANGED cache

\* fc_store_close, at the end of the stream when all is written: the times are
\* set, and the name is moved by unlink, link, unlink.
\* Mutant: the end counts, whatever the client has taken.
AtEnd(q) == TRUE
AllPassed(q) == q.sent = Units
Close(r) ==
  /\ req[r].pc = "storing"
  /\ AllPassed(req[r])
  /\ Goes(r, [req[r] EXCEPT !.pc = "closing", !.sent = 0])
  /\ tmp' = [tmp EXCEPT !.exp = req[r].exp]
  /\ cache' = NoFile
  /\ Rest
Link(r) ==
  /\ req[r].pc = "closing"
  /\ Goes(r, [req[r] EXCEPT !.pc = "linked"])
  /\ cache' = IF Exists(cache) THEN cache ELSE tmp
  /\ Rest /\ UNCHANGED tmp
Unlink(r) ==
  /\ req[r].pc = "linked"
  /\ Goes(r, [req[r] EXCEPT !.pc = "sent"])
  /\ tmp' = NoFile
  /\ Rest /\ UNCHANGED cache

\* _nxweb_fc_finalize: the answer is sent, or the connection has ended, which
\* ends the writing of the file.
\* Mutant: the file is closed and stays.
KeepsFile(pc) == FALSE
RemovesFile(pc) == pc = "storing"
Finalize(r) ==
  /\ req[r].pc \in {"asked", "answered", "storing", "sent"}
  /\ tmp' = IF RemovesFile(req[r].pc) THEN NoFile ELSE tmp
  /\ Goes(r, Quiet)
  /\ Rest /\ UNCHANGED cache

-----------------------------------------------------------------------------
\* The server is killed: the files stay as they are.
Kill == /\ killed < Crashes
        /\ killed' = killed + 1
        /\ req' = [r \in Req |-> Quiet]
        /\ UNCHANGED <<back, now, cache, tmp>>
Changes == back < MaxVersion /\ back' = back + 1 /\ UNCHANGED <<now, cache, tmp, req, killed>>
Tick == now < MaxTime /\ now' = now + 1 /\ UNCHANGED <<back, cache, tmp, req, killed>>

Handle(r) == \/ Ask(r)
             \/ NotModified(r)
             \/ ServeOld(r)
             \/ Pass(r)
             \/ AppendUnit(r)
             \/ Close(r)
             \/ Link(r)
             \/ Unlink(r)
             \/ Finalize(r)
FilesNext == \/ \E r \in Req : Handle(r)
             \/ \E r \in Req : Respond(r)
             \/ Kill
             \/ Changes
             \/ Tick
FilesSpec == FilesInit /\ [][FilesNext]_filesVars

-----------------------------------------------------------------------------
\* Properties.

Files == [ver : 0..MaxVersion, units : 0..Units, exp : -5..MaxTime + Life]
FilesTypeOK ==
  /\ back \in 1..MaxVersion
  /\ now \in 0..MaxTime
  /\ cache \in Files
  /\ tmp \in Files
  /\ req \in [Req -> [pc : {"idle", "asked", "answered", "storing", "closing", "linked", "sent"},
                      held : 0..MaxVersion, reval : BOOLEAN, status : {0, 200, 304, 500},
                      ver : 0..MaxVersion, life : BOOLEAN, store : BOOLEAN, exp : -5..MaxTime + Life,
                      sent : 0..Units, out : {"none", "cached", "new", "error"}]]
  /\ killed \in 0..Crashes

\* What has the name of the cached file is whole, whatever connections end, writes
\* fail, or the server is killed at any call.
CacheWhole == Exists(cache) => cache.units = Units

\* One request writes the temporary file, and what is in it is what this one has
\* passed on.
Writers == {r \in Req : req[r].pc \in {"storing", "closing", "linked"}}
OneWriter ==
  /\ Cardinality(Writers) <= 1
  /\ \A r \in Writers : tmp.ver = req[r].ver /\ (req[r].pc = "storing" => tmp.units = req[r].sent)

\* Unless the server was killed, a temporary file has a writer, so that the key
\* can be cached again when it is gone.
TmpOwned == Exists(tmp) /\ killed = 0 => Writers # {}

\* "Cached content can be served when backend is unavailable": who asks with
\* something cached never gets the backend's error.
StaleOnError == \A r \in Req : req[r].held # 0 => req[r].out # "error"

\* A cached file is whole whatever dies, one request writes it, its temporary
\* file is cleaned up, and a backend that fails is covered by what is cached.
FilesSound == FilesTypeOK /\ CacheWhole /\ OneWriter /\ TmpOwned /\ StaleOnError
=============================================================================
