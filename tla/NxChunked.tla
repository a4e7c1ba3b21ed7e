------------------------------ MODULE NxChunked ------------------------------
(***************************************************************************)
(* Chunked bodies in nxweb: the encoder of lib/http_utils.c as the server  *)
(* drives it when it sends content of unknown length                       *)
(* (resp_body_in_write_or_sendfile in lib/nxd_http_server_proto.c), and    *)
(* the decoder that works in place on whatever a read returned, which a    *)
(* proxy uses for its backend's answers.                                   *)
(*                                                                         *)
(* The wire is a sequence of bytes, here numbers: CR, LF, digits (below    *)
(* Base) and data, each byte of which differs so that order shows.  Pieces *)
(* of it are sent and received that end anywhere, in a chunk's header too. *)
(***************************************************************************)
EXTENDS Integers, Sequences, FiniteSets, SequencesExt

CONSTANTS Base,    \* 16
          Digits,  \* 4: digits of a chunk's size
          MaxChunk,\* 0xffff: bytes of a chunk
          Units,   \* bound: bytes of the content
          Rooms,   \* what the socket may take in one call
          Reads    \* what a read may return

VARIABLES
  enc,      \* nxweb_chunked_encoder_state
  avail,    \* bytes of the content the source has and that are not sent
  made,     \* bytes the source has had so far
  eof,      \* and it has no more
  complete, \* the response is
  wire,     \* bytes on their way
  dec,      \* nxweb_chunked_decoder_state
  got,      \* what the reader has got
  result,   \* of the decoder: 0, 1 (the end) or -1 (an error)
  passed    \* all the wire has carried

vars == <<enc, avail, made, eof, complete, wire, dec, got, result, passed>>

CR == -1
LF == -2
CRLF == <<CR, LF>>
Datum(i) == Base + i
Header == 4 + Digits   \* sizeof(buf)
RECURSIVE Power(_, _)
Power(b, n) == IF n = 0 THEN 1 ELSE b * Power(b, n - 1)
\* uint_to_hex_string_zeropad
Hex(n) == [i \in 1..Digits |-> (n \div Power(Base, Digits - i)) % Base]
From(seq, n) == SubSeq(seq, n + 1, Len(seq))
Least(a, b) == IF a < b THEN a ELSE b

-----------------------------------------------------------------------------
\* The encoder.

EncoderInit == [final |-> FALSE, prepared |-> FALSE, size |-> 0, pos |-> 2,
                buf |-> CRLF \o Hex(0) \o CRLF, bad |-> FALSE]

\* The data of its chunk that was not sent.
\* Mutant: all of the chunk's.
AllOfIt(e) == e.size
Left(e) == e.size - (e.pos - Header)

\* _nxweb_encode_chunked_stream: of the bytes offered the number that belong to
\* the current chunk, and what has to be sent before them.  bad: an assertion.
Send(e, chunk, bytes) == [enc |-> e, chunk |-> chunk, send |-> bytes]
EncodeStream(e, offered, end) ==
  CASE e.final -> Send([e EXCEPT !.bad = @ \/ ~end], offered, From(SubSeq(e.buf, 1, 7), e.pos))
    [] ~e.final /\ e.pos <= 2 /\ ~e.prepared /\ offered = 0 /\ end ->
         LET f == [e EXCEPT !.final = TRUE, !.buf = CRLF \o <<0>> \o CRLF \o CRLF]
         IN Send(f, 0, From(f.buf, e.pos))
    [] ~e.final /\ e.pos <= 2 /\ ~e.prepared /\ offered = 0 /\ ~end ->
         Send(e, 0, From(CRLF, e.pos))
    [] ~e.final /\ e.pos <= 2 /\ ~e.prepared /\ offered > 0 ->
         LET n == Least(offered, MaxChunk)
             f == [e EXCEPT !.size = n, !.prepared = TRUE, !.buf = CRLF \o Hex(n) \o CRLF]
         IN Send(f, n, From(f.buf, e.pos))
    [] ~e.final /\ e.pos < Header /\ (e.pos > 2 \/ e.prepared) ->
         Send([e EXCEPT !.bad = @ \/ offered < e.size], Least(offered, e.size), From(e.buf, e.pos))
    [] ~e.final /\ e.pos >= Header ->
         Send([e EXCEPT !.bad = @ \/ offered < Left(e)], Least(offered, Left(e)), <<>>)

\* _nxweb_encode_chunked_advance
ChunkOver(e) == e.pos = Header + e.size
Advance(e, n) ==
  LET f == [e EXCEPT !.pos = @ + n]
  IN IF n > 0 /\ ChunkOver(f) THEN [f EXCEPT !.pos = 0, !.prepared = FALSE] ELSE f

IsComplete(e) == e.final /\ e.pos = 7

Init == /\ enc = EncoderInit
        /\ avail = 0 /\ made = 0 /\ eof = FALSE
        /\ complete = FALSE
        /\ wire = <<>> /\ passed = <<>>
        /\ dec \in [st : {"SIZE"}, left : {0}, final : {FALSE}, monitor : BOOLEAN]
        /\ got = <<>> /\ result = 0

\* More of the content, or its end.
Produce == /\ ~eof
           /\ \E n \in 0..(Units - made), end \in BOOLEAN :
                /\ n > 0 \/ end
                /\ avail' = avail + n
                /\ made' = made + n
                /\ eof' = end
           /\ UNCHANGED <<enc, complete, wire, dec, got, result, passed>>

\* resp_body_in_write_or_sendfile, when the socket has room for r bytes: the
\* header, the data, and what follows a chunk, the end if this was all.  Each
\* is sent only after the one before was.  A write may have nothing to say.
\* Mutant: the end follows whatever was offered.
EndsAlways(chunk) == eof
EndFollows(chunk) == eof /\ chunk = avail
Write(r) ==
  \E h \in {EncodeStream(enc, avail, eof)} :
    LET k1 == Least(Len(h.send), r)
        skip1 == k1 < Len(h.send)
        k2 == IF skip1 THEN 0 ELSE Least(h.chunk, r - k1)
        skip2 == skip1 \/ k2 < h.chunk
    IN \E e \in {Advance(Advance(h.enc, k1), k2)} :
         \E t \in {EncodeStream(e, 0, EndFollows(h.chunk))} :
           LET k3 == IF skip2 THEN 0 ELSE Least(Len(t.send), r - k1 - k2)
               bytes == SubSeq(h.send, 1, k1)
                          \o [i \in 1..k2 |-> Datum(made - avail + i)]
                          \o SubSeq(t.send, 1, k3)
           IN /\ enc' = IF skip2 THEN e ELSE Advance(t.enc, k3)
              /\ avail' = avail - k2
              /\ wire' = wire \o bytes
              /\ passed' = passed \o bytes
              /\ complete' = (eof /\ k2 = avail /\ IsComplete(enc'))

\* Mutant: a write without data is skipped, as it is when nothing is encoded.
SizeOnly == avail > 0
Writes == TRUE
Sender == /\ ~complete
          /\ Writes
          /\ \E r \in Rooms : Write(r)
          /\ UNCHANGED <<made, eof, dec, got, result>>

-----------------------------------------------------------------------------
\* The decoder, _nxweb_decode_chunked_stream: over the bytes buf, with the
\* offsets p (next to look at), d (end of what is decoded) and end.

Digit(c) == c \in 0..(Base - 1)
PassOver(x) == [x EXCEPT !.dc.st = "CR1", !.dc.left = 0, !.p = @ + x.dc.left, !.d = x.p + x.dc.left]

\* Mutant: what is decoded is not moved together.
LeavesGap(x) == x
Joined(x) == [x EXCEPT !.buf = SubSeq(x.buf, 1, x.d) \o SubSeq(x.buf, x.p + 1, x.end),
                       !.end = x.end - (x.p - x.d), !.p = x.d]

Stop(x, ret, len) == [x EXCEPT !.ret = ret, !.len = IF x.dc.monitor THEN x.len ELSE len]
Fail(x) == [x EXCEPT !.ret = -1]
Go(x, st) == [x EXCEPT !.dc.st = st, !.p = @ + 1]

RECURSIVE Decode(_)
Decode(x) ==
  IF x.p >= x.end THEN Stop(x, 0, x.d)
  ELSE LET c == x.buf[x.p + 1]
       IN CASE x.dc.st = "DATA" /\ x.end - x.p >= x.dc.left -> Decode(PassOver(x))
            [] x.dc.st = "DATA" /\ x.end - x.p < x.dc.left ->
                 Stop([x EXCEPT !.dc.left = @ - (x.end - x.p)], 0, x.end)
            [] x.dc.st = "CR1" -> IF c # CR THEN Fail(x) ELSE Decode(Go(x, "LF1"))
            [] x.dc.st = "LF1" -> IF c # LF THEN Fail(x)
                                  ELSE IF x.dc.final THEN Stop(x, 1, x.d) ELSE Decode(Go(x, "SIZE"))
            [] x.dc.st = "SIZE" ->
                 IF c = CR THEN Decode(Go([x EXCEPT !.dc.final = x.dc.left = 0], "LF2"))
                 ELSE IF Digit(c) THEN Decode(Go([x EXCEPT !.dc.left = @ * Base + c], "SIZE"))
                 ELSE Fail(x)
            [] x.dc.st = "LF2" ->
                 IF c # LF THEN Fail(x)
                 ELSE Decode(IF x.dc.monitor THEN Go(x, "DATA") ELSE Joined(Go(x, "DATA")))

\* A read of n bytes and what the decoder makes of them; the reader gets the
\* bytes it leaves (req_body_out_read, resp_body_out_read).
Receive(n) ==
  \E x \in {Decode([buf |-> SubSeq(wire, 1, n), p |-> 0, d |-> 0, end |-> n, len |-> n, ret |-> 0, dc |-> dec])} :
    /\ dec' = x.dc
    /\ got' = got \o SubSeq(x.buf, 1, x.len)
    /\ result' = x.ret
    /\ wire' = From(wire, n)
Receiver == /\ result = 0
            /\ \E n \in Reads : n <= Len(wire) /\ Receive(n)
            /\ UNCHANGED <<enc, avail, made, eof, complete, passed>>

Next == Produce \/ Sender \/ Receiver

Spec == Init /\ [][Next]_vars

\* The source ends, the socket takes something again and again, and so does the
\* reader.
FairSpec == /\ Spec
            /\ WF_vars(Produce)
            /\ WF_vars(Sender /\ passed' # passed)
            /\ WF_vars(Receiver)

-----------------------------------------------------------------------------
\* Properties.

\* The assertions of _nxweb_encode_chunked_stream: what was announced in a
\* chunk's header is still offered when the rest of it is sent, and a final
\* chunk is followed by nothing but the end.
EncoderSound == /\ ~enc.bad
                /\ enc.pos <= IF enc.final THEN 7 ELSE Header + enc.size

\* Whatever the pieces in which it was sent and received, what the reader gets
\* is the content, in order and nothing else, and the decoder says that it is
\* over when all of it was sent and received, never before.
Content(n) == [i \in 1..n |-> Datum(i)]
RoundTrip ==
  /\ result # -1
  /\ IF dec.monitor THEN got \o wire = passed ELSE IsPrefix(got, Content(made))
  /\ result = 1 => /\ eof /\ complete /\ wire = <<>>
                   /\ dec.monitor \/ got = Content(made)

\* The end arrives: a final chunk that was cut short is completed by later
\* writes.
EndArrives == <>(result = 1)
=============================================================================
