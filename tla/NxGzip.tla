------------------------------- MODULE NxGzip -------------------------------
(***************************************************************************)
(* The gzip filter of nxweb (lib/filters/gzip_filter.c): it stands between *)
(* the stream of an answer's body and the client, compresses what it is    *)
(* given into a ring buffer (nxd_rbuffer) and passes on what is in it.     *)
(* Nothing waits: a full ring makes the input not ready, an empty one the  *)
(* output, and each is made ready again by the other side.  That a pair of *)
(* streams is served whenever both ends are ready is the event loop's part *)
(* (module NxConn).                                                        *)
(*                                                                         *)
(* zlib is external: it takes units of the body, makes bytes of them (the  *)
(* unit's number, once or twice, and 0 for the end) and keeps what there   *)
(* is no room for.  It stops before the end of its input only for want of  *)
(* room.                                                                   *)
(***************************************************************************)
EXTENDS Integers, Sequences, FiniteSets, SequencesExt

CONSTANTS Size,    \* bound: units of a body
          Room     \* bytes of the ring buffer (16384)

ASSUME GzipBounds == Size \in Nat /\ Room \in Nat \ {0}

VARIABLES
  body,      \* units of the body
  here,      \* of them, those that the body's stream has so far
  all,       \* it has the end, too
  taken,     \* of them, those that the filter has taken
  pending,   \* bytes that zlib keeps
  ended,     \* deflateEnd was called on the stream
  misused,   \* deflate was called after that
  ring,      \* the bytes of the buffer, by position
  read, write, lastWrite, eof,      \* of the nxd_rbuffer
  inReady, outReady,                \* data_in.ready, data_out.ready
  client,    \* the client's stream is ready
  received,  \* what the client has got
  over,      \* with its end
  produced   \* all bytes zlib has made (for the properties)

buffer == <<ring, read, write, lastWrite, eof>>
gzipVars == <<body, here, all, taken, pending, ended, misused, buffer, inReady,
              outReady, client, received, over, produced>>

-----------------------------------------------------------------------------
\* nxd_rbuffer: how many bytes lie in one piece from read, or are free in one
\* piece from write.
IsEmpty == read = write /\ ~lastWrite
IsFull == read = write /\ lastWrite
Readable == IF IsEmpty THEN 0 ELSE IF write > read THEN write - read ELSE Room - read
Writable == IF IsFull THEN 0 ELSE IF read > write THEN read - write ELSE Room - write

\* Mutant: the end comes with any piece.
EndInAnyPiece == eof

\* The end goes with the last piece.
EndNow == eof /\ (Readable = 0 \/ write > read \/ write = 0)

\* What is in the ring, oldest first.
Around(p) == IF p < Room THEN p ELSE p - Room
Held == IF IsFull THEN Room ELSE IF write >= read THEN write - read ELSE write - read + Room
Content == [i \in 1..Held |-> ring[Around(read + i - 1)]]

\* nxd_rbuffer_write after n of the bytes were put at write, and nxd_rbuffer_read
\* of k.
Put(bytes, n) ==
  /\ ring' = [i \in 0..(Room - 1) |->
                IF i >= write /\ i < write + n THEN bytes[i - write + 1] ELSE ring[i]]
  /\ write' = Around(write + n)
  /\ lastWrite' = (lastWrite \/ n > 0)
  /\ UNCHANGED read
Take(k) ==
  /\ read' = Around(read + k)
  /\ lastWrite' = (lastWrite /\ k = 0)
  /\ UNCHANGED <<ring, write>>

-----------------------------------------------------------------------------
\* gzip_do_filter has put the filter before the body's stream: an obuffer or a
\* file's, which has all of it, or a response's, which is filled.
GzipInit ==
  /\ body \in 0..Size
  /\ \/ here = body /\ all = TRUE
     \/ here = 0 /\ all = FALSE
  /\ taken = 0 /\ pending = <<>> /\ ended = FALSE /\ misused = FALSE
  /\ ring = [i \in 0..(Room - 1) |-> -1]
  /\ read = 0 /\ write = 0 /\ lastWrite = FALSE /\ eof = FALSE
  /\ inReady = TRUE /\ outReady = FALSE
  /\ client \in BOOLEAN
  /\ received = <<>> /\ over = FALSE /\ produced = <<>>

\* The body's stream gets more, or its end; it is ready as long as it has either.
BodyArrives ==
  /\ ~all
  /\ here' \in here..body
  /\ all' \in {b \in BOOLEAN : b => here' = body}
  /\ here' # here \/ all'
  /\ UNCHANGED <<body, taken, pending, ended, misused, buffer, inReady, outReady, client,
                 received, over, produced>>

SourceReady == here > taken \/ all

\* zlib's bytes for the units from a to b, when those in twice give two: how many they
\* are up to unit u, and each is of the unit after those that end before it.
BytesUpTo(u, a, twice) == u - a + 1 + Cardinality({v \in twice : v <= u})
Deflated(a, b, twice) ==
  [i \in 1..BytesUpTo(b, a, twice) |-> a + Cardinality({u \in a..b : BytesUpTo(u, a, twice) < i})]
Bytes(a, b) == {Deflated(a, b, twice) : twice \in SUBSET (a..b)}

\* Asked to finish, zlib makes the end, once.
Trailed == produced # <<>> /\ Last(produced) = 0
Trailer(finish) == IF finish /\ ~Trailed THEN <<0>> ELSE <<>>

\* Mutant: the input's end is the output's.
EndsWithInput(finish, rest) == finish

\* Z_STREAM_END: asked to finish, zlib has nothing left.
StreamEnd(finish, rest) == finish /\ rest = <<>>

\* gzip_data_in_write: as much of the body as there is room for the result of;
\* the stream is finished with the body's last unit, or with no unit, and when
\* all of the result is in the ring.
DataIn ==
  /\ ~over /\ inReady /\ SourceReady
  /\ IF Writable = 0
     THEN /\ inReady' = FALSE /\ outReady' = TRUE
          /\ UNCHANGED <<taken, pending, ended, misused, buffer, produced>>
     ELSE \E upto \in taken..here : \E new \in Bytes(taken + 1, upto) :
          LET finish == all /\ upto = here
              bytes == pending \o new \o Trailer(finish)
              n == IF Len(bytes) < Writable THEN Len(bytes) ELSE Writable
              rest == SubSeq(bytes, n + 1, Len(bytes))
              end == StreamEnd(finish, rest)
          IN /\ upto < here => n = Writable
             /\ produced' = produced \o new \o Trailer(finish)
             /\ taken' = upto /\ pending' = rest
             /\ misused' = (misused \/ ended)
             /\ Put(bytes, n)
             /\ inReady' = ~(end \/ (n > 0 /\ write' = read))
             /\ outReady' = (outReady \/ n > 0 \/ end)
             /\ eof' = (eof \/ end) /\ ended' = (ended \/ end)
  /\ UNCHANGED <<body, here, all, client, received, over>>

\* Mutant: reading always asks for more.
AsksAlways == TRUE

\* Mutant: it asks for more only when the ring was full.
AsksWhenFull == ~eof /\ IsFull /\ read = 0

\* nxd_rbuffer_read asks for more unless there is an end.
Asks == ~eof

\* gzip_data_out_do_write: the next piece; the client takes k bytes of it, and
\* is not ready when it did not take all.
DataOut ==
  /\ ~over /\ outReady /\ client
  /\ IF Readable = 0 /\ ~EndNow
     THEN /\ outReady' = FALSE
          /\ UNCHANGED <<buffer, inReady, client, received, over>>
     ELSE \E k \in 0..Readable, still \in BOOLEAN :
          /\ k < Readable => ~still
          /\ Readable > 0 => k > 0
          /\ received' = received \o [i \in 1..k |-> ring[read + i - 1]]
          /\ Take(k)
          /\ inReady' = (inReady \/ (k > 0 /\ Asks))
          /\ outReady' = ~(k > 0 /\ read' = write /\ ~eof)
          /\ client' = still
          /\ over' = (EndNow /\ k = Readable)
          /\ UNCHANGED eof
  /\ UNCHANGED <<body, here, all, taken, pending, ended, misused, produced>>

\* The client can take more.
ClientReady ==
  /\ ~over /\ ~client
  /\ client' = TRUE
  /\ UNCHANGED <<body, here, all, taken, pending, ended, misused, buffer, inReady, outReady,
                 received, over, produced>>

Streams == DataIn \/ DataOut
GzipNext == BodyArrives \/ Streams \/ ClientReady

GzipSpec == GzipInit /\ [][GzipNext]_gzipVars

\* The loop serves ready streams; the body arrives and the client reads.
FairGzipSpec == /\ GzipSpec
                /\ WF_gzipVars(DataIn) /\ WF_gzipVars(DataOut)
                /\ WF_gzipVars(BodyArrives) /\ WF_gzipVars(ClientReady)

-----------------------------------------------------------------------------
\* What zlib made is with the client, in the ring or still with zlib, each byte
\* once and in order, wherever the ring wraps and however the two sides take
\* turns; and the client is told the end when it has all of it, the end of the
\* compressed stream included.
NothingLost ==
  /\ produced = received \o Content \o pending
  /\ over => received = produced /\ taken = body /\ received # <<>> /\ Last(received) = 0

\* deflate is not called on a stream that was closed: the body's stream stays
\* ready after its end and its data_in must not be (gzip_filter.c:255-260,
\* nxd_buffer.c:186).
NotAfterEnd == ~misused

\* The client gets the end: neither side waits for the other for ever.
GzipEnds == <>over

\* What the filter passes on is its input compressed, whole and closed once.
GzipSound == NothingLost /\ NotAfterEnd
=============================================================================
