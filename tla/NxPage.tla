------------------------------- MODULE NxPage -------------------------------
(***************************************************************************)
(* A page put together from parts: the SSI filter of nxweb cuts a page     *)
(* that arrives piece by piece (lib/filters/ssi_filter.c), every part is a *)
(* node of a composite stream (lib/http_subrequest.c), and the streamer    *)
(* under it (lib/nxd_streamer.c) passes one node after the other on to the *)
(* client, which takes what it can.                                        *)
(*                                                                         *)
(* A page is a sequence of parts: "text" (one unit), "bad" (a directive    *)
(* nobody understands) and "include" (both two units: a directive may      *)
(* arrive cut in the middle), and "open", a directive that is never        *)
(* closed, last if at all.  The content of an include comes from a         *)
(* subrequest, whenever and in whatever portions that delivers it.         *)
(***************************************************************************)
EXTENDS Naturals, Sequences, FiniteSets, SequencesExt

CONSTANTS Parts,   \* bound: parts of a page
          Chunk,   \* bound: units of the page that arrive at once
          Answer   \* bound: units a subrequest answers with

VARIABLES
  doc,      \* the page
  fed,      \* units of it the filter has been given
  closed,   \* the filter has seen the end of it, and closed the stream
  nodes,    \* the nodes of the composite stream, in order
  cur,      \* the streamer's current node, 0 if there is none
  forced,   \* force_eof
  outReady, \* data_out.ready
  linked,   \* the streams whose event waits in the loop: 0 is data_out
  ready,    \* the client's stream is ready
  out,      \* units the client has got, each as <<part, number>>
  over      \* "no", "ending" (the client has a piece of the end), "eof" (all of
            \* it), "cut" (the connection is closed)

vars == <<doc, fed, closed, nodes, cur, forced, outReady, linked, ready, out, over>>

-----------------------------------------------------------------------------
\* Where the parts of a page end, in units.
Directives == {"bad", "include"}
UpTo(d, p) == p + Cardinality({i \in 1..p : d[i] \in Directives})
Docs == {d \in UNION {[1..n -> Directives \cup {"text", "open"}] : n \in 0..Parts} :
           \A i \in 1..Len(d) : d[i] = "open" => i = Len(d)}

\* A node: the last of the parts it holds; is data_in connected; the units its
\* source can deliver now, how many it had in all, and whether that is all.
Node(part, connected, units, end) ==
  [part |-> part, connected |-> connected, has |-> units, got |-> Len(units), end |-> end,
   ready |-> FALSE, complete |-> FALSE, final |-> FALSE]
NodeIds == 1..Len(nodes)

\* The stream of a node's source, an obuffer or a response; it stays ready when
\* all is delivered, to say so again.
SourceReady(n) == n.connected /\ (n.has # <<>> \/ n.end)

Init == /\ doc \in Docs
        /\ fed = 0 /\ closed = FALSE
        /\ nodes = <<>> /\ cur = 0
        /\ forced = FALSE /\ outReady = FALSE
        /\ linked = {}
        /\ ready \in BOOLEAN
        /\ out = <<>> /\ over = "no"

-----------------------------------------------------------------------------
\* The filter (parse_text, parse_directive).

\* Text before a directive is a node, and so is what the directive stands for;
\* an error is text.
Text(a, b) == IF a > b THEN <<>> ELSE <<Node(b, TRUE, [k \in 1..(b - a + 1) |-> <<a + k - 1, 1>>], TRUE)>>
Directive(p) == IF doc[p] = "include" THEN Node(p, FALSE, <<>>, FALSE) ELSE Text(p, p)[1]
CutOff == IF nodes = <<>> THEN 0 ELSE Last(nodes).part
NewNodes(upto) ==
  LET found == {p \in (CutOff + 1)..Len(doc) : doc[p] \in Directives /\ UpTo(doc, p) <= upto}
      start(p) == p - Cardinality({q \in (CutOff + 1)..(p - 1) : \A r \in q..(p - 1) : r \notin found})
  IN FlattenSeq([p \in 1..Len(doc) |->
       IF p \in found THEN Append(Text(start(p), p - 1), Directive(p)) ELSE <<>>])

\* nxd_streamer_add_node: whether the first of some new nodes starts at once.
\* Mutant: it does whenever the streamer runs.
StartsAlways(new) == new # <<>>
Starts(new) == new # <<>> /\ (cur = 0 \/ nodes[cur].complete)

\* nxd_streamer_close: whether the end must be written though all nodes are.
\* Mutant: only that of an empty stream.
ForcedIfEmpty(all) == all = <<>>
Forced(all) == all = <<>> \/ Last(all).complete

\* ssi_buffer_data_in_write: some of the page arrives, all of its directives
\* are found; with the end of it, the rest is text.
Feed ==
  /\ ~closed
  /\ \E k \in 0..Chunk, end \in BOOLEAN :
       LET upto == fed + k
           parsed == nodes \o NewNodes(upto)
           cut == IF parsed = <<>> THEN 0 ELSE Last(parsed).part
           all == parsed \o (IF end THEN Text(cut + 1, Len(doc)) ELSE <<>>)
           first == Len(nodes) + 1
           starts == Starts(SubSeq(all, first, Len(all)))
       IN /\ upto <= UpTo(doc, Len(doc))
          /\ end => upto = UpTo(doc, Len(doc))
          /\ k = 0 => end
          /\ fed' = upto
          /\ closed' = end
          /\ nodes' = [i \in 1..Len(all) |->
                         [all[i] EXCEPT !.final = end /\ i = Len(all), !.ready = @ \/ (starts /\ i = first)]]
          /\ cur' = IF starts THEN first ELSE cur
          /\ forced' = (end /\ Forced(all))
          /\ outReady' = (outReady \/ forced')
          /\ linked' = linked \cup (IF starts /\ SourceReady(all[first]) THEN {first} ELSE {})
                              \cup (IF ~outReady /\ forced' /\ ready THEN {0} ELSE {})
  /\ UNCHANGED <<doc, ready, out, over>>

-----------------------------------------------------------------------------
\* The subrequests.

\* Node i after its source has got n more units, the last with the end.
Fill(i, n, end) ==
  /\ nodes' = [nodes EXCEPT ![i].connected = TRUE, ![i].end = end, ![i].got = @ + n,
                            ![i].has = @ \o [k \in 1..n |-> <<nodes[i].part, nodes[i].got + k>>]]
  /\ linked' = IF nodes[i].ready /\ SourceReady(nodes'[i]) THEN linked \cup {i} ELSE linked
  /\ UNCHANGED <<doc, fed, closed, cur, forced, outReady, ready, out, over>>

\* on_response_ready: the answer, of which some may be there, or an error's
\* text, or nothing at all.
Respond(i) == ~nodes[i].connected /\ \E n \in 0..Answer, end \in BOOLEAN : Fill(i, n, end)

\* More of an answer, or its end.
More(i) == /\ nodes[i].connected
           /\ ~nodes[i].end
           /\ \E n \in 0..(Answer - nodes[i].got), end \in BOOLEAN :
                (n > 0 \/ end) /\ Fill(i, n, end)

\* A subrequest fails when its answer has begun: so does the page.
Fail(i) == /\ nodes[i].connected
           /\ ~nodes[i].end
           /\ over' = "cut"
           /\ UNCHANGED <<doc, fed, closed, nodes, cur, forced, outReady, linked, ready, out>>

-----------------------------------------------------------------------------
\* The streamer.

\* streamer_data_in_write: what node i has is written on; pulled if that comes
\* from data_out, which then looks whether more will come.  Only the current
\* node is, and the client takes k units; if it does not stay ready, data_out
\* waits for it.  With its last unit a node is complete, also when there was
\* none and the client did not take it, and the next one starts; the end of the
\* last one is the page's, which a client may not take at once.
\* Mutant: every node ends the page.
Ends(n) == TRUE
EndsPage(n) == n.final
Write(i, pulled) ==
  \E k \in 0..Len(nodes[i].has), still \in BOOLEAN :
    LET n == nodes[i]
        left == SubSeq(n.has, k + 1, Len(n.has))
        done == i = cur /\ n.end /\ left = <<>>
        toNext == done /\ ~n.final /\ i < Len(nodes)
        pauses == done /\ ~n.final /\ i = Len(nodes)
        empty == pulled /\ left = <<>> /\ ~n.end
        waits == i = cur /\ ~still
    IN /\ IF i = cur /\ ready THEN still => left = <<>> ELSE k = 0 /\ still = ready
       /\ i = cur /\ ready /\ n.has # <<>> => k > 0
       /\ nodes' = [j \in NodeIds |->
            IF j = i THEN [n EXCEPT !.has = left, !.complete = @ \/ done,
                                    !.ready = empty \/ (i = cur /\ still /\ ~pauses)]
            ELSE IF toNext /\ j = i + 1 THEN [nodes[j] EXCEPT !.ready = TRUE]
            ELSE nodes[j]]
       /\ cur' = IF toNext THEN i + 1 ELSE cur
       /\ outReady' = (~pauses /\ ~empty /\ (outReady \/ waits))
       /\ ready' = still
       /\ out' = out \o SubSeq(n.has, 1, k)
       /\ over' = IF ~(done /\ EndsPage(n) /\ ready) THEN over
                   ELSE IF still \/ over = "ending" THEN "eof" ELSE "ending"
       /\ linked' = {j \in linked : CASE j = 0 /\ pulled -> outReady' /\ still
                                      [] j = i /\ ~pulled -> nodes'[i].ready /\ SourceReady(nodes'[i])
                                      [] OTHER -> TRUE}
                    \cup {j \in NodeIds : toNext /\ j = i + 1 /\ SourceReady(nodes[j])}

\* The event of node i: as long as both ends are ready, in as many writes as
\* that takes.
Deliver(i) ==
  /\ i \in linked
  /\ IF nodes[i].ready /\ SourceReady(nodes[i])
     THEN Write(i, FALSE) /\ UNCHANGED <<doc, fed, closed, forced>>
     ELSE linked' = linked \ {i} /\ UNCHANGED <<doc, fed, closed, nodes, cur, forced, outReady, ready, out, over>>

\* The event of data_out, streamer_data_out_do_write: the end of an empty page,
\* which is written once; what the current node has; or nothing.
DeliverOut ==
  /\ 0 \in linked
  /\ IF ~outReady \/ ~ready
     THEN linked' = linked \ {0} /\ UNCHANGED <<nodes, cur, outReady, ready, out, over>>
     ELSE IF cur = 0
     THEN /\ outReady' = FALSE
          /\ linked' = linked \ {0}
          /\ \/ over' = "eof" /\ UNCHANGED ready
             \/ ready' = FALSE /\ UNCHANGED over
          /\ UNCHANGED <<nodes, cur, out>>
     ELSE IF SourceReady(nodes[cur]) THEN Write(cur, TRUE)
     ELSE /\ outReady' = FALSE
          /\ linked' = linked \ {0}
          /\ nodes' = [nodes EXCEPT ![cur].ready = @ \/ nodes[cur].connected]
          /\ UNCHANGED <<cur, ready, out, over>>
  /\ UNCHANGED <<doc, fed, closed, forced>>

\* The client can take more.
ClientReady == /\ ~ready
               /\ ready' = TRUE
               /\ linked' = IF outReady THEN linked \cup {0} ELSE linked
               /\ UNCHANGED <<doc, fed, closed, nodes, cur, forced, outReady, out, over>>

Streamer == DeliverOut \/ \E i \in NodeIds : Deliver(i)
Subrequests == \E i \in NodeIds : Respond(i) \/ More(i)

Open == over \in {"no", "ending"}
Next == Open /\ (Feed \/ Streamer \/ Subrequests \/ ClientReady \/ \E i \in NodeIds : Fail(i))

Spec == Init /\ [][Next]_vars

\* The loop delivers its events, the page arrives, every subrequest answers and
\* the client goes on reading.
Fairness == /\ WF_vars(Open /\ Streamer)
            /\ WF_vars(Open /\ Feed)
            /\ \A i \in 1..(2 * Parts) : WF_vars(Open /\ i \in NodeIds /\ (Respond(i) \/ More(i)))
            /\ WF_vars(Open /\ ClientReady)
FairSpec == Spec /\ Fairness

-----------------------------------------------------------------------------
\* Properties.

\* The streamer's current node is one of the stream's, the nodes before it are
\* complete and those after it are not; only the last one is final; and the
\* event of data_out never finds a streamer that has nothing to say (the
\* assertion in streamer_data_out_do_write).
TypeOK ==
  /\ cur \in 0..Len(nodes)
  /\ outReady /\ cur = 0 => forced
  /\ linked \subseteq 0..Len(nodes)
  /\ \A i \in NodeIds : /\ i < cur => nodes[i].complete
                        /\ i > cur => ~nodes[i].complete
                        /\ nodes[i].final => closed /\ i = Len(nodes)
                        /\ nodes[i].complete => nodes[i].has = <<>> /\ nodes[i].end

\* What the page should be so far: its parts in their order, every include by
\* what its subrequest has delivered, as far as the first that is not whole.
IncludeOf(p) == {i \in NodeIds : nodes[i].part = p}
Content(p) == IF doc[p] # "include" THEN <<<<p, 1>>>>
              ELSE FlattenSeq([i \in NodeIds |-> IF nodes[i].part # p THEN <<>> ELSE
                     [k \in 1..nodes[i].got |-> <<p, k>>]])
IsWhole(p) == doc[p] # "include" \/ \E i \in IncludeOf(p) : nodes[i].end
Page == FlattenSeq([p \in 1..Len(doc) |->
          IF \A q \in 1..(p - 1) : IsWhole(q) THEN Content(p) ELSE <<>>])

\* However the page was cut on its way in, and in whatever order the
\* subrequests answered, the client gets it in order, nothing twice and
\* nothing missing (streamer_data_in_write against the current node).
InOrder == IsPrefix(out, Page)

\* The client is told the end only when it has all of the page, and the page is
\* all there is (final and NXEF_EOF in nxd_streamer.c).
EndsWhole ==
  over = "eof" => /\ closed
                  /\ \A p \in 1..Len(doc) : IsWhole(p)
                  /\ out = Page

\* If the subrequests answer and the client reads, the page ends, also when its
\* last node was written before the filter knew that it is the last
\* (nxd_streamer_close).  Only the end of an empty page may be lost: a client
\* that does not take it at once is not told again.
PageEnds == doc # <<>> ~> ~Open
=============================================================================
