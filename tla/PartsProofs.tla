---------------------------- MODULE PartsProofs ----------------------------
(***************************************************************************)
(* Proofs about parts of MCTables and MCStreams, for every value of their  *)
(* constants: the routes and custom sites of the client, the file cache,   *)
(* the HTTP messages and the gzip filter of nxweb, the keys and the        *)
(* encrypted envelope of the worker, the client's fetches and its network  *)
(* adapters.                                                               *)
(***************************************************************************)
EXTENDS Routes, NxFileCache, NxMessages, Keys, Envelope, TapSetup, ApiHttp, NxGzip,
        FiniteSetTheorems, SequenceTheorems, WellFoundedInduction, TLAPS

-----------------------------------------------------------------------------
(* The routes: Router's list, the settings and the routing table stay in   *)
(* step.  Two of the invariants are not inductive: a row that is saved and *)
(* not in the table is one that others deleted, and a site that is not in  *)
(* the settings is not remembered with an address.                         *)

\* The table has its type, and Router's rows are rows of it.
TableOK(x) == x \in Table /\ x.ours \subseteq x.rows

\* What is remembered of a row: Accounted, and a saved row is ours unless it was taken.
Kept(x) == /\ x.ours \subseteq x.saved \cup x.lost
           /\ x.saved \subseteq x.ours \cup x.taken

\* A site that is not in the settings is remembered with no address.
Forgotten == \A s \in Sites \ customSites : added[s] = NoIp

RoutesIInv == /\ RoutesTypeOK /\ Kept(rt) /\ Forgotten
              /\ IpsHaveSites /\ SitesHaveIps /\ ConnectedRoutes

\* What is assumed of the constants.
RoutesBounds == NoIp \notin Ips /\ MaxCalls \in Nat /\ MaxTimers \in Nat

-----------------------------------------------------------------------------
(* The calls of Router *)

\* clearSavedRoutes() keeps the books, whatever it fails to delete.
LEMMA ClearKeeps ==
  ASSUME NEW x, TableOK(x), Kept(x), NEW y \in Clear(x)
  PROVE  TableOK(y) /\ Kept(y)
<1>1. CASE y = x
  BY <1>1
<1>2. CASE y \in Cleared(x)
  <2>1. PICK kept \in SUBSET (x.saved \cap x.rows) :
          y = [x EXCEPT !.rows = (@ \ x.saved) \cup kept,
                        !.ours = (@ \ x.saved) \cup (@ \cap kept),
                        !.saved = {}, !.taken = {},
                        !.lost = (@ \ x.saved) \cup (x.ours \cap kept)]
    BY <1>2 DEF Cleared
  <2>2. /\ y.rows = (x.rows \ x.saved) \cup kept
        /\ y.ours = (x.ours \ x.saved) \cup (x.ours \cap kept)
        /\ y.saved = {} /\ y.taken = {}
        /\ y.lost = (x.lost \ x.saved) \cup (x.ours \cap kept)
    BY <2>1 DEF TableOK, Table
  <2>3. y \in Table
    BY <2>1 DEF TableOK, Table
  <2>4. y.ours \subseteq y.rows
    BY <2>2 DEF TableOK
  <2>5. Kept(y)
    BY <2>2 DEF Kept
  <2> QED
    BY <2>3, <2>4, <2>5 DEF TableOK
<1> QED
  BY <1>1, <1>2 DEF Clear

\* "route delete" takes rows away and tells of those that were saved.
LEMMA DeleteKeeps ==
  ASSUME NEW x, TableOK(x), Kept(x), NEW ips, NEW y \in Delete(ips, x)
  PROVE  /\ TableOK(y) /\ Kept(y)
         /\ \A r \in x.rows : r.ip \notin ips => r \in y.rows
         /\ y.failed = x.failed
<1>1. CASE y = x
  BY <1>1
<1>2. CASE y # x
  <2> DEFINE gone == {r \in x.rows : r.ip \in ips}
  <2>1. y = [x EXCEPT !.rows = @ \ gone, !.ours = @ \ gone, !.lost = @ \ gone,
                      !.taken = @ \cup (gone \cap x.saved)]
    BY <1>2 DEF Delete
  <2>2. gone \subseteq Row
    BY DEF TableOK, Table
  <2> HIDE DEF gone
  <2>3. /\ y.rows = x.rows \ gone /\ y.ours = x.ours \ gone /\ y.lost = x.lost \ gone
        /\ y.taken = x.taken \cup (gone \cap x.saved) /\ y.saved = x.saved
        /\ y.failed = x.failed
    BY <2>1 DEF TableOK, Table
  <2>4. y \in Table
    BY <2>1, <2>2 DEF TableOK, Table
  <2>5. TableOK(y) /\ Kept(y)
    BY <2>3, <2>4 DEF TableOK, Kept
  <2>6. \A r \in x.rows : r.ip \notin ips => r \in y.rows
    BY <2>3 DEF gone
  <2> QED
    BY <2>3, <2>5, <2>6
<1> QED
  BY <1>1, <1>2

\* routeAddList() makes a row for each address, or knows one, or fails.
LEMMA AddKeeps ==
  ASSUME NEW x, TableOK(x), Kept(x), NEW g \in Gates, NEW ips \in SUBSET Ips,
         NEW y \in AddList(g, ips, x)
  PROVE  /\ TableOK(y) /\ Kept(y)
         /\ x.rows \subseteq y.rows
         /\ \A ip \in ips : [ip |-> ip, gate |-> g] \in y.rows \/ ip \in y.failed
         /\ \A ip \in x.failed \ ips : ip \in y.failed
<1> DEFINE wanted == [ip : ips, gate : {g}]
           FailedOf(made) == (x.failed \ ips) \cup {r.ip : r \in wanted \ (made \cup x.rows)}
<1>1. PICK made \in SUBSET (wanted \ x.rows) :
        y = [x EXCEPT !.rows = @ \cup made, !.ours = @ \cup made, !.saved = @ \cup made,
                      !.taken = @ \ made, !.failed = FailedOf(made)]
  BY DEF AddList, Remembers
<1>2. made \subseteq Row /\ made \cap x.rows = {}
  BY DEF Row
<1>3. FailedOf(made) \in SUBSET Ips
  BY DEF TableOK, Table
<1> HIDE DEF FailedOf
<1>4. /\ y.rows = x.rows \cup made /\ y.ours = x.ours \cup made
      /\ y.saved = x.saved \cup made /\ y.taken = x.taken \ made
      /\ y.lost = x.lost /\ y.failed = FailedOf(made)
  BY <1>1 DEF TableOK, Table
<1>5. y \in Table
  BY <1>1, <1>2, <1>3 DEF TableOK, Table
<1>6. TableOK(y) /\ Kept(y)
  BY <1>4, <1>5 DEF TableOK, Kept
<1>7. ASSUME NEW ip \in ips, [ip |-> ip, gate |-> g] \notin y.rows
      PROVE  ip \in y.failed
  <2>1. /\ [ip |-> ip, gate |-> g] \in wanted \ (made \cup x.rows)
        /\ [ip |-> ip, gate |-> g].ip = ip
    BY <1>4, <1>7
  <2> QED
    BY <2>1, <1>4 DEF FailedOf
<1>8. \A ip \in x.failed \ ips : ip \in y.failed
  BY <1>4 DEF FailedOf
<1> QED
  BY <1>4, <1>6, <1>7, <1>8

-----------------------------------------------------------------------------
(* The steps *)

\* Initially nothing is connected, saved or routed.
LEMMA RoutesInitOK == ASSUME RoutesBounds, RoutesInit PROVE RoutesIInv
<1>1. RoutesTypeOK
  <2>1. rt \in Table /\ rt.ours \subseteq rt.rows
    BY DEF RoutesInit, Table
  <2>2. calls \in Seq(Call) /\ Len(calls) <= MaxCalls
    BY DEF RoutesInit, RoutesBounds
  <2> QED
    <3>1. timers \in 0..MaxTimers /\ added \in [Sites -> Ips \cup {NoIp}]
      BY DEF RoutesInit, RoutesBounds
    <3>2. connected \in BOOLEAN
      BY DEF RoutesInit
    <3> QED
      BY <2>1, <2>2, <3>1, <3>2 DEF RoutesInit, RoutesTypeOK
<1> QED
  BY <1>1 DEF RoutesInit, RoutesIInv, Kept, Forgotten, IpsHaveSites, SitesHaveIps, ConnectedRoutes

\* The session changes the table, and nothing of the custom sites.
LEMMA SessionSteps == ASSUME RoutesBounds, RoutesIInv, Session PROVE RoutesIInv'
<1>1. TableOK(rt) /\ Kept(rt)
  BY DEF RoutesIInv, RoutesTypeOK, TableOK
<1>2. UNCHANGED custom
  BY DEF Session, OnConnect, RouteTimer, OnDisconnect, OnMessage
<1>3. /\ TableOK(rt') /\ Kept(rt')
      /\ connected' \in BOOLEAN /\ gate' \in Gates /\ timers' \in 0..MaxTimers
      /\ ConnectedRoutes'
  <2>1. CASE OnConnect
    <3>1. timers' \in 1..MaxTimers
      BY <2>1 DEF OnConnect, RoutesIInv, RoutesTypeOK, RoutesBounds
    <3> QED
      BY <1>1, <2>1, <3>1 DEF OnConnect, ConnectedRoutes, RoutesIInv, RoutesTypeOK
  <2>2. CASE RouteTimer
    <3>1. PICK x \in Clear(rt) : \E y \in Delete(DnsIps, x) : rt' \in AddList(gate, customIps, y)
      BY <2>2 DEF RouteTimer
    <3>2. PICK y \in Delete(DnsIps, x) : rt' \in AddList(gate, customIps, y)
      BY <3>1
    <3>3. TableOK(x) /\ Kept(x)
      BY <1>1, ClearKeeps
    <3>4. TableOK(y) /\ Kept(y)
      BY <3>3, DeleteKeeps
    <3>5. gate \in Gates /\ customIps \in SUBSET Ips
      BY DEF RoutesIInv, RoutesTypeOK
    <3>6. /\ TableOK(rt') /\ Kept(rt')
          /\ \A ip \in customIps : [ip |-> ip, gate |-> gate] \in rt'.rows \/ ip \in rt'.failed
      BY <3>2, <3>4, <3>5, AddKeeps
    <3>7. timers' \in 0..MaxTimers
      BY <2>2 DEF RouteTimer, RoutesIInv, RoutesTypeOK, RoutesBounds
    <3> QED
      BY <3>6, <3>7, <1>2, <2>2 DEF RouteTimer, RoutesIInv, RoutesTypeOK, ConnectedRoutes, custom
  <2>3. CASE OnDisconnect
    BY <1>1, <2>3, ClearKeeps DEF OnDisconnect, RoutesIInv, RoutesTypeOK, ConnectedRoutes
  <2>4. CASE OnMessage
    BY <1>1, <2>4 DEF OnMessage, RoutesIInv, RoutesTypeOK, ConnectedRoutes
  <2> QED
    BY <2>1, <2>2, <2>3, <2>4 DEF Session
<1>4. RoutesTypeOK'
  BY <1>2, <1>3 DEF RoutesIInv, RoutesTypeOK, TableOK, custom
<1>5. Forgotten' /\ IpsHaveSites' /\ SitesHaveIps'
  BY <1>2 DEF RoutesIInv, Forgotten, IpsHaveSites, SitesHaveIps, custom
<1> QED
  BY <1>3, <1>4, <1>5 DEF RoutesIInv

\* A click and its end change the settings and the table together.
LEMMA CustomSteps == ASSUME RoutesBounds, RoutesIInv, Custom PROVE RoutesIInv'
<1>1. TableOK(rt) /\ Kept(rt) /\ UNCHANGED session
  BY DEF RoutesIInv, RoutesTypeOK, TableOK, Custom, AddClick, AddDone, DeleteClick, DeleteDone
<1>2. gate \in Gates
  BY DEF RoutesIInv, RoutesTypeOK
<1>3. ASSUME NEW s \in Sites, AddClick(s) PROVE RoutesIInv'
  <2>1. calls' \in Seq(Call) /\ Len(calls') = Len(calls) + 1
    <3>1. calls' = <<[op |-> "add", site |-> s]>> \o calls /\ calls \in Seq(Call)
      BY <1>3 DEF AddClick, RoutesIInv, RoutesTypeOK
    <3>2. [op |-> "add", site |-> s] \in Call
      BY DEF Call
    <3> QED
      BY <3>1, <3>2
  <2>2. RoutesTypeOK'
    BY <1>1, <1>3, <2>1 DEF AddClick, RoutesIInv, RoutesTypeOK, session, RoutesBounds
  <2> QED
    BY <1>1, <1>3, <2>2 DEF AddClick, RoutesIInv, RoutesTypeOK, Kept, Forgotten, IpsHaveSites,
         SitesHaveIps, ConnectedRoutes, session
<1>4. ASSUME NEW s \in Sites, DeleteClick(s) PROVE RoutesIInv'
  <2>1. calls' \in Seq(Call) /\ Len(calls') = Len(calls) + 1
    <3>1. calls' = <<[op |-> "delete", site |-> s]>> \o calls /\ calls \in Seq(Call)
      BY <1>4 DEF DeleteClick, RoutesIInv, RoutesTypeOK
    <3>2. [op |-> "delete", site |-> s] \in Call
      BY DEF Call
    <3> QED
      BY <3>1, <3>2
  <2>2. RoutesTypeOK'
    BY <1>1, <1>4, <2>1 DEF DeleteClick, RoutesIInv, RoutesTypeOK, session, RoutesBounds
  <2> QED
    BY <1>1, <1>4, <2>2 DEF DeleteClick, RoutesIInv, RoutesTypeOK, Kept, Forgotten, IpsHaveSites,
         SitesHaveIps, ConnectedRoutes, session
<1>5. ASSUME NEW s \in Sites, NEW ip \in Ips \cup {NoIp}, AddDone(s, ip) PROVE RoutesIInv'
  <2>1. /\ calls' = Tail(calls) /\ calls # <<>>
        /\ shown' = customSites /\ customSites' = customSites
        /\ customIps' = IF New(ip) THEN customIps \cup {ip} ELSE customIps
        /\ added' = [added EXCEPT ![s] = IF s \in customSites THEN ip ELSE NoIp]
        /\ drifted' = drifted \cup (IF s \notin customSites THEN {ip}
                                    ELSE IF added[s] # ip THEN {added[s]} ELSE {})
    BY <1>5 DEF AddDone, Saves, Waits
  <2>2. New(ip) => ip \in Ips
    BY DEF New
  <2>3. /\ TableOK(rt') /\ Kept(rt')
        /\ \A r \in rt.rows : r \in rt'.rows
        /\ \A i \in Ips \ {ip} : i \in rt.failed => i \in rt'.failed
        /\ New(ip) /\ connected => [ip |-> ip, gate |-> gate] \in rt'.rows \/ ip \in rt'.failed
        /\ ~New(ip) => rt' = rt
    <3>1. CASE New(ip) /\ connected
      <4>1. rt' \in AddList(gate, {ip}, rt) /\ {ip} \in SUBSET Ips
        BY <1>5, <2>2, <3>1 DEF AddDone, RoutesNow
      <4> QED
        BY <1>1, <1>2, <4>1, <3>1, AddKeeps
    <3>2. CASE ~(New(ip) /\ connected)
      BY <1>1, <1>5, <3>2 DEF AddDone, RoutesNow
    <3> QED
      BY <3>1, <3>2
  <2>4. calls' \in Seq(Call) /\ Len(calls') <= MaxCalls
    BY <2>1 DEF RoutesIInv, RoutesTypeOK, RoutesBounds
  <2>5. RoutesTypeOK'
    BY <1>1, <2>1, <2>2, <2>3, <2>4 DEF RoutesIInv, RoutesTypeOK, TableOK, session
  <2>6. Forgotten'
    BY <2>1 DEF RoutesIInv, RoutesTypeOK, Forgotten
  <2>7. IpsHaveSites'
    BY <2>1 DEF RoutesIInv, RoutesTypeOK, IpsHaveSites
  <2>8. SitesHaveIps'
    BY <2>1 DEF RoutesIInv, RoutesTypeOK, SitesHaveIps, New
  <2>9. ConnectedRoutes'
    <3> SUFFICES ASSUME connected', timers' = 0, NEW i \in customIps'
                 PROVE  [ip |-> i, gate |-> gate'] \in rt'.rows \/ i \in rt'.failed
      BY DEF ConnectedRoutes
    <3>0. connected /\ timers = 0 /\ gate' = gate
      BY <1>1 DEF session
    <3>1. CASE i \in customIps
      <4>1. [ip |-> i, gate |-> gate] \in rt.rows \/ i \in rt.failed
        BY <3>0, <3>1 DEF RoutesIInv, ConnectedRoutes
      <4>2. i \in Ips /\ (New(ip) => i # ip)
        BY <3>1 DEF RoutesIInv, RoutesTypeOK, New
      <4> QED
        BY <2>3, <3>0, <4>1, <4>2
    <3>2. CASE i \notin customIps
      <4>1. i = ip /\ New(ip)
        BY <2>1, <3>2
      <4> QED
        BY <2>3, <3>0, <4>1
    <3> QED
      BY <3>1, <3>2
  <2> QED
    BY <2>3, <2>5, <2>6, <2>7, <2>8, <2>9 DEF RoutesIInv
<1>6. ASSUME NEW s \in Sites, NEW ip \in Ips \cup {NoIp}, DeleteDone(s, ip) PROVE RoutesIInv'
  <2>1. /\ calls' = Tail(calls) /\ calls # <<>>
        /\ customSites' = customSites \ {s} /\ shown' = customSites \ {s}
        /\ customIps' = customIps \ {ip}
        /\ added' = [added EXCEPT ![s] = NoIp]
        /\ drifted' = drifted \cup (IF added[s] # ip THEN {added[s], ip} ELSE {})
                              \cup {added[t] : t \in {t \in Sites \ {s} : added[t] = ip}}
    BY <1>6 DEF DeleteDone, WithoutIp, Waits
  <2>2. /\ TableOK(rt') /\ Kept(rt')
        /\ \A r \in rt.rows : r.ip # ip => r \in rt'.rows
        /\ rt'.failed = rt.failed
    <3>1. CASE ip = NoIp
      BY <1>1, <1>6, <3>1 DEF DeleteDone
    <3>2. CASE ip # NoIp
      <4>1. rt' \in Delete({ip}, rt)
        BY <1>6, <3>2 DEF DeleteDone
      <4> QED
        BY <1>1, <4>1, DeleteKeeps
    <3> QED
      BY <3>1, <3>2
  <2>3. calls' \in Seq(Call) /\ Len(calls') <= MaxCalls
    BY <2>1 DEF RoutesIInv, RoutesTypeOK, RoutesBounds
  <2>4. RoutesTypeOK'
    BY <1>1, <2>1, <2>2, <2>3 DEF RoutesIInv, RoutesTypeOK, TableOK, session
  <2>5. Forgotten'
    BY <2>1 DEF RoutesIInv, RoutesTypeOK, Forgotten
  <2>6. IpsHaveSites'
    BY <2>1 DEF RoutesIInv, RoutesTypeOK, IpsHaveSites
  <2>7. SitesHaveIps'
    <3> SUFFICES ASSUME NEW t \in customSites'
                 PROVE  added'[t] \in customIps' \cup drifted' \cup {NoIp}
      BY DEF SitesHaveIps
    <3>1. t \in Sites \ {s} /\ t \in customSites /\ added'[t] = added[t]
      BY <2>1 DEF RoutesIInv, RoutesTypeOK
    <3>2. CASE added[t] = ip
      BY <2>1, <3>1, <3>2
    <3>3. CASE added[t] # ip
      BY <2>1, <3>1, <3>3 DEF RoutesIInv, SitesHaveIps
    <3> QED
      BY <3>2, <3>3
  <2>8. ConnectedRoutes'
    <3> SUFFICES ASSUME connected', timers' = 0, NEW i \in customIps'
                 PROVE  [ip |-> i, gate |-> gate'] \in rt'.rows \/ i \in rt'.failed
      BY DEF ConnectedRoutes
    <3>1. connected /\ timers = 0 /\ gate' = gate /\ i \in customIps /\ i # ip
      BY <1>1, <2>1 DEF session
    <3>2. [ip |-> i, gate |-> gate] \in rt.rows \/ i \in rt.failed
      BY <3>1 DEF RoutesIInv, ConnectedRoutes
    <3>3. [ip |-> i, gate |-> gate].ip # ip
      BY <3>1
    <3> QED
      BY <2>2, <3>1, <3>2, <3>3
  <2> QED
    BY <2>2, <2>4, <2>5, <2>6, <2>7, <2>8 DEF RoutesIInv
<1> QED
  BY <1>3, <1>4, <1>5, <1>6 DEF Custom

\* Rows of others come and go, and the program may die.
LEMMA SystemSteps == ASSUME RoutesBounds, RoutesIInv, System PROVE RoutesIInv'
<1>1. TableOK(rt) /\ Kept(rt)
  BY DEF RoutesIInv, RoutesTypeOK, TableOK
<1>2. CASE ForeignRow
  <2>1. PICK r \in Row \ rt.rows : /\ rt' = [rt EXCEPT !.rows = @ \cup {r}]
                                   /\ UNCHANGED <<session, custom>>
    BY <1>2 DEF ForeignRow
  <2>2. /\ rt'.rows = rt.rows \cup {r} /\ rt'.ours = rt.ours /\ rt'.saved = rt.saved
        /\ rt'.lost = rt.lost /\ rt'.taken = rt.taken /\ rt'.failed = rt.failed
    BY <1>1, <2>1 DEF TableOK, Table
  <2>3. TableOK(rt') /\ Kept(rt')
    BY <1>1, <2>1, <2>2 DEF TableOK, Table, Kept
  <2> QED
    BY <2>1, <2>2, <2>3 DEF RoutesIInv, RoutesTypeOK, TableOK, Forgotten, IpsHaveSites, SitesHaveIps,
         ConnectedRoutes, session, custom
<1>3. CASE TunnelGone
  <2>1. /\ rt' = [rt EXCEPT !.rows = {}, !.ours = {}, !.lost = {}, !.taken = @ \cup rt.saved]
        /\ ~connected /\ UNCHANGED <<session, custom>>
    BY <1>3 DEF TunnelGone
  <2>2. /\ rt'.rows = {} /\ rt'.ours = {} /\ rt'.saved = rt.saved
        /\ rt'.lost = {} /\ rt'.taken = rt.taken \cup rt.saved
    BY <1>1, <2>1 DEF TableOK, Table
  <2>3. TableOK(rt') /\ Kept(rt')
    BY <1>1, <2>1, <2>2 DEF TableOK, Table, Kept
  <2> QED
    BY <2>1, <2>3 DEF RoutesIInv, RoutesTypeOK, TableOK, Forgotten, IpsHaveSites, SitesHaveIps,
         ConnectedRoutes, session, custom
<1>4. CASE Crash
  <2>1. /\ rt' = [rt EXCEPT !.saved = {}, !.taken = {}, !.lost = @ \cup rt.ours]
        /\ connected' = FALSE /\ timers' = 0 /\ calls' = <<>> /\ shown' = customSites
        /\ UNCHANGED <<gate, customSites, customIps, added, drifted>>
    BY <1>4 DEF Crash
  <2>2. /\ rt'.rows = rt.rows /\ rt'.ours = rt.ours /\ rt'.saved = {}
        /\ rt'.lost = rt.lost \cup rt.ours /\ rt'.taken = {}
    BY <1>1, <2>1 DEF TableOK, Table
  <2>3. TableOK(rt') /\ Kept(rt')
    BY <1>1, <2>1, <2>2 DEF TableOK, Table, Kept
  <2>4. RoutesTypeOK'
    <3>1. calls' \in Seq(Call) /\ Len(calls') <= MaxCalls
      BY <2>1 DEF RoutesBounds
    <3>2. timers' \in 0..MaxTimers
      BY <2>1 DEF RoutesBounds
    <3>3. connected' \in BOOLEAN
      BY <2>1
    <3> QED
      BY <2>1, <2>3, <3>1, <3>2, <3>3 DEF RoutesIInv, RoutesTypeOK, TableOK
  <2> QED
    BY <2>1, <2>3, <2>4 DEF RoutesIInv, Forgotten, IpsHaveSites, SitesHaveIps, ConnectedRoutes
<1> QED
  BY <1>2, <1>3, <1>4 DEF System

-----------------------------------------------------------------------------
\* Router's list, the settings and the routing table stay in step: what it made is
\* remembered, what it removes is its own, and every saved address is routed, for any
\* set of sites, addresses and gateways.
THEOREM RoutesAreSound ==
  ASSUME NoIp \notin Ips, MaxCalls \in Nat, MaxTimers \in Nat
  PROVE  RoutesSpec => []RoutesSound
<1>0. RoutesBounds
  BY DEF RoutesBounds
<1>1. RoutesIInv /\ [RoutesNext]_routesVars => RoutesIInv'
  <2> SUFFICES ASSUME RoutesIInv, [RoutesNext]_routesVars PROVE RoutesIInv'
    OBVIOUS
  <2>1. CASE UNCHANGED routesVars
    BY <2>1 DEF RoutesIInv, RoutesTypeOK, Kept, Forgotten, IpsHaveSites, SitesHaveIps, ConnectedRoutes,
         routesVars, session, custom
  <2> QED
    BY <1>0, <2>1, SessionSteps, CustomSteps, SystemSteps DEF RoutesNext
<1>2. RoutesIInv => RoutesSound
  BY DEF RoutesSound, RoutesIInv, Kept, Accounted, SavedIsOurs
<1>3. RoutesInit => RoutesIInv
  BY <1>0, RoutesInitOK
<1> QED
  BY <1>1, <1>2, <1>3, PTL DEF RoutesSpec

-----------------------------------------------------------------------------
(* The file cache.  That the cached file is whole is not inductive: the    *)
(* file that gets its name is the temporary one, so that this must be what *)
(* its one writer has passed on, from its creation with O_EXCL to its      *)
(* unlink.                                                                 *)

\* What is assumed of the constants.
FilesBounds == /\ Units \in Nat /\ Life \in Nat /\ MaxTime \in Nat /\ Crashes \in Nat
               /\ MaxVersion \in Nat \ {0}

Writes(r) == req[r].pc \in {"storing", "closing", "linked"}

\* A writer's temporary file is there, with what it has passed on.
WriterHasTmp ==
  \A r \in Req : Writes(r) =>
    /\ tmp.ver = req[r].ver /\ Exists(tmp)
    /\ req[r].pc = "storing" => tmp.units = req[r].sent
    /\ req[r].pc # "storing" => tmp.units = Units

\* There is one writer at most.
Alone == \A r, q \in Req : Writes(r) /\ Writes(q) => r = q

\* A temporary file without a writer is one that a kill has left.
Owned == Exists(tmp) /\ killed = 0 => \E r \in Req : Writes(r)

\* Who has opened an old file and has no answer yet asked about it; and an answer
\* of 200 has a version.
Asked == \A r \in Req :
           /\ req[r].held # 0 => req[r].out # "error"
           /\ req[r].held # 0 /\ req[r].pc \in {"asked", "answered"} => req[r].reval
           /\ req[r].pc = "answered" /\ req[r].status = 200 => req[r].ver # 0
           /\ req[r].pc \in {"idle", "asked", "answered"} => req[r].sent = 0

FilesIInv == FilesTypeOK /\ CacheWhole /\ WriterHasTmp /\ Alone /\ Owned /\ Asked

\* The type of a request, by the sets of its fields' values.
Places == {"idle", "asked", "answered", "storing", "closing", "linked", "sent"}
Versions == 0..MaxVersion
Statuses == {0, 200, 304, 500}
Times == -5..MaxTime + Life
Counts == 0..Units
Outs == {"none", "cached", "new", "error"}
ReqType == [pc : Places, held : Versions, reval : BOOLEAN, status : Statuses, ver : Versions,
            life : BOOLEAN, store : BOOLEAN, exp : Times, sent : Counts, out : Outs]

-----------------------------------------------------------------------------
(* Steps *)

\* The records of a request and of a file.
LEMMA Members ==
  ASSUME FilesBounds
  PROVE  /\ "idle" \in Places /\ "asked" \in Places /\ "answered" \in Places
         /\ "storing" \in Places /\ "closing" \in Places /\ "linked" \in Places
         /\ "sent" \in Places
         /\ "none" \in Outs /\ "cached" \in Outs /\ "new" \in Outs /\ "error" \in Outs
         /\ 0 \in Statuses /\ 200 \in Statuses /\ 304 \in Statuses /\ 500 \in Statuses
         /\ 0 \in Versions /\ 0 \in Times /\ 0 \in Counts
BY DEF FilesBounds, Places, Outs, Statuses, Versions, Times, Counts

LEMMA QuietType == ASSUME FilesBounds PROVE Quiet \in ReqType /\ NoFile \in Files /\ ~Exists(NoFile)
<1>1. Quiet \in ReqType
  BY Members DEF Quiet, ReqType
<1>2. NoFile \in Files /\ ~Exists(NoFile)
  BY DEF FilesBounds, NoFile, Files, Exists
<1> QED
  BY <1>1, <1>2

\* The type invariant in these terms.
LEMMA Typed ==
  FilesTypeOK <=> /\ back \in 1..MaxVersion /\ now \in 0..MaxTime /\ killed \in 0..Crashes
             /\ cache \in Files /\ tmp \in Files /\ req \in [Req -> ReqType]
BY DEF FilesTypeOK, ReqType, Places, Versions, Statuses, Times, Counts, Outs

LEMMA TypedNext ==
  ASSUME back' \in 1..MaxVersion, now' \in 0..MaxTime, killed' \in 0..Crashes,
         cache' \in Files, tmp' \in Files, req' \in [Req -> ReqType]
  PROVE  FilesTypeOK'
BY DEF FilesTypeOK, ReqType, Places, Versions, Statuses, Times, Counts, Outs

\* A request that goes elsewhere leaves the others where they are.
LEMMA GoesOn ==
  ASSUME FilesTypeOK, NEW r \in Req, NEW q \in ReqType, Goes(r, q)
  PROVE  /\ req' \in [Req -> ReqType]
         /\ req'[r] = q /\ \A p \in Req \ {r} : req'[p] = req[p]
BY Typed DEF Goes

\* A request that is no writer, before or after, and no file is touched but the
\* cached one, which stays whole.
LEMMA NoWriter ==
  ASSUME FilesBounds, FilesIInv, NEW r \in Req, NEW q \in ReqType, Goes(r, q), Rest,
         ~Writes(r), q.pc \notin {"storing", "closing", "linked"}, tmp' = tmp,
         cache' \in Files, CacheWhole',
         q.held # 0 => q.out # "error",
         q.held # 0 /\ q.pc \in {"asked", "answered"} => q.reval,
         q.pc = "answered" /\ q.status = 200 => q.ver # 0,
         q.pc \in {"idle", "asked", "answered"} => q.sent = 0
  PROVE  FilesIInv'
<1>1. /\ req' \in [Req -> ReqType]
      /\ req'[r] = q /\ \A p \in Req \ {r} : req'[p] = req[p]
  BY GoesOn DEF FilesIInv
<1>2. FilesTypeOK'
  BY Typed, TypedNext, <1>1 DEF FilesIInv, Rest
<1>3. \A p \in Req : Writes(p)' => Writes(p) /\ req'[p] = req[p]
  BY <1>1 DEF Writes
<1>4. \A p \in Req : Writes(p) => Writes(p)'
  BY <1>1 DEF Writes
<1>5. WriterHasTmp' /\ Alone' /\ Owned'
  BY <1>3, <1>4 DEF FilesIInv, WriterHasTmp, Alone, Owned, Rest, Exists
<1>6. Asked'
  BY <1>1 DEF FilesIInv, Asked
<1> QED
  BY <1>2, <1>5, <1>6 DEF FilesIInv

\* The one writer goes on with its temporary file.
LEMMA WriterGoes ==
  ASSUME FilesBounds, FilesIInv, NEW r \in Req, NEW q \in ReqType, Goes(r, q), Rest,
         Writes(r), q.pc \in {"storing", "closing", "linked"}, tmp' \in Files,
         cache' \in Files, CacheWhole',
         tmp'.ver = q.ver, tmp'.ver # 0,
         q.pc = "storing" => tmp'.units = q.sent,
         q.pc # "storing" => tmp'.units = Units,
         q.held = req[r].held, q.out = req[r].out
  PROVE  FilesIInv'
<1>1. /\ req' \in [Req -> ReqType]
      /\ req'[r] = q /\ \A p \in Req \ {r} : req'[p] = req[p]
  BY GoesOn DEF FilesIInv
<1>2. FilesTypeOK'
  BY Typed, TypedNext, <1>1 DEF FilesIInv, Rest
<1>3. \A p \in Req : Writes(p)' => p = r
  BY <1>1 DEF Writes, FilesIInv, Alone
<1>4. Writes(r)'
  BY <1>1 DEF Writes
<1>5. WriterHasTmp' /\ Alone' /\ Owned'
  BY <1>1, <1>3, <1>4 DEF WriterHasTmp, Alone, Owned, Exists
<1>6. Asked'
  BY <1>1 DEF FilesIInv, Asked
<1> QED
  BY <1>2, <1>5, <1>6 DEF FilesIInv

\* The one writer gives its temporary file up.
LEMMA WriterEnds ==
  ASSUME FilesBounds, FilesIInv, NEW r \in Req, NEW q \in ReqType, Goes(r, q), Rest,
         Writes(r), q.pc \in {"sent", "idle"}, tmp' = NoFile, cache' = cache,
         q.held # 0 => q.out # "error", q.pc = "idle" => q.sent = 0
  PROVE  FilesIInv'
<1>1. /\ req' \in [Req -> ReqType]
      /\ req'[r] = q /\ \A p \in Req \ {r} : req'[p] = req[p]
  BY GoesOn DEF FilesIInv
<1>2. FilesTypeOK'
  BY Typed, TypedNext, <1>1, QuietType DEF FilesIInv, Rest
<1>3. \A p \in Req : ~Writes(p)'
  BY <1>1 DEF Writes, FilesIInv, Alone
<1>4. WriterHasTmp' /\ Alone' /\ Owned' /\ CacheWhole'
  BY <1>3, QuietType DEF FilesIInv, WriterHasTmp, Alone, Owned, CacheWhole, Exists
<1>5. Asked'
  BY <1>1 DEF FilesIInv, Asked
<1> QED
  BY <1>2, <1>4, <1>5 DEF FilesIInv

-----------------------------------------------------------------------------
LEMMA FilesInitOK == ASSUME FilesBounds, FilesInit PROVE FilesIInv
<1>1. req = [r \in Req |-> Quiet] /\ \A r \in Req : req[r] = Quiet
  BY DEF FilesInit
<1>2. FilesTypeOK
  BY Typed, <1>1, QuietType DEF FilesInit, FilesBounds
<1> QED
  BY <1>1, <1>2, QuietType
     DEF FilesInit, FilesIInv, CacheWhole, WriterHasTmp, Alone, Owned, Asked, Writes, Quiet

LEMMA AskOK == ASSUME FilesBounds, FilesIInv, NEW r \in Req, Ask(r) PROVE FilesIInv'
<1> DEFINE q == IF ~Exists(cache) THEN [Quiet EXCEPT !.pc = "asked"]
             ELSE IF Old(cache) THEN [Quiet EXCEPT !.pc = "asked", !.held = cache.ver, !.reval = TRUE]
             ELSE [Quiet EXCEPT !.pc = "sent", !.held = cache.ver, !.ver = cache.ver, !.out = "cached"]
<1>1. cache.ver \in Versions
  BY DEF FilesIInv, FilesTypeOK, Files, Versions
<1>2. q \in ReqType
  <2>1. CASE ~Exists(cache)
    BY Members, <2>1, QuietType DEF ReqType
  <2>2. CASE Exists(cache) /\ Old(cache)
    BY Members, <1>1, <2>2, QuietType DEF ReqType
  <2>3. CASE Exists(cache) /\ ~Old(cache)
    BY Members, <1>1, <2>3, QuietType DEF ReqType
  <2> QED
    BY <2>1, <2>2, <2>3
<1>3. /\ q.pc \in {"asked", "sent"} /\ q.out # "error"
      /\ q.held # 0 /\ q.pc \in {"asked", "answered"} => q.reval
      /\ q.sent = 0
  BY DEF Quiet
<1>4. Goes(r, q) /\ Rest /\ ~Writes(r) /\ tmp' = tmp /\ cache' = cache
  BY DEF Ask, Writes
<1>5. cache' \in Files /\ CacheWhole'
  BY <1>4 DEF FilesIInv, FilesTypeOK, CacheWhole
<1> HIDE DEF q
<1> QED
  BY <1>2, <1>3, <1>4, <1>5, NoWriter

\* The backend's answers.
LEMMA UnchangedType ==
  ASSUME FilesBounds, NEW s \in ReqType, NEW life \in BOOLEAN
  PROVE  LET q == Unchanged(s, life)
         IN  /\ q \in ReqType /\ q.pc = "answered" /\ q.status # 200 /\ q.held = s.held
             /\ q.out = s.out /\ q.reval = s.reval /\ q.sent = s.sent
<1> DEFINE q == Unchanged(s, life)
<1>1. ASSUME NEW y \in Places, NEW x \in Statuses
      PROVE  [s EXCEPT !.pc = y, !.status = x, !.life = life] \in ReqType
  BY DEF ReqType
<1>2. q \in ReqType
  BY <1>1, Members DEF Unchanged
<1>3. q.pc = "answered" /\ q.status = 304 /\ q.held = s.held /\ q.out = s.out /\ q.sent = s.sent
  BY DEF Unchanged, ReqType
<1>4. q.reval = s.reval
  BY DEF Unchanged, ReqType
<1> QED
  BY <1>2, <1>3, <1>4

LEMMA FreshType ==
  ASSUME FilesBounds, NEW s \in ReqType, NEW life \in BOOLEAN, NEW store \in BOOLEAN, back \in Versions
  PROVE  LET q == Fresh(s, life, store)
         IN  /\ q \in ReqType /\ q.pc = "answered" /\ q.ver = back /\ q.held = s.held
             /\ q.out = s.out /\ q.reval = s.reval /\ q.sent = s.sent
<1> DEFINE q == Fresh(s, life, store)
<1>1. ASSUME NEW y \in Places, NEW x \in Statuses, NEW v \in Versions
      PROVE  [s EXCEPT !.pc = y, !.status = x, !.ver = v, !.life = life, !.store = store] \in ReqType
  BY DEF ReqType
<1>2. q \in ReqType
  BY ZenonT(40), <1>1, Members DEF Fresh
<1>3. q.pc = "answered" /\ q.ver = back /\ q.held = s.held /\ q.out = s.out /\ q.sent = s.sent
  BY DEF Fresh, ReqType
<1>4. q.reval = s.reval
  BY DEF Fresh, ReqType
<1> QED
  BY <1>2, <1>3, <1>4

LEMMA FailedType ==
  ASSUME FilesBounds, NEW s \in ReqType
  PROVE  LET q == Failed(s)
         IN  /\ q \in ReqType /\ q.pc = "answered" /\ q.status # 200 /\ q.held = s.held
             /\ q.out = s.out /\ q.reval = s.reval /\ q.sent = s.sent
<1> DEFINE q == Failed(s)
<1>1. ASSUME NEW y \in Places, NEW x \in Statuses
      PROVE  [s EXCEPT !.pc = y, !.status = x] \in ReqType
  BY DEF ReqType
<1>2. q \in ReqType
  BY ZenonT(40), <1>1, Members DEF Failed
<1>3. q.pc = "answered" /\ q.status = 500 /\ q.held = s.held /\ q.out = s.out /\ q.sent = s.sent
  BY DEF Failed, ReqType
<1>4. q.reval = s.reval
  BY DEF Failed, ReqType
<1> QED
  BY <1>2, <1>3, <1>4

\* An answer changes neither what is open nor what was asked.
LEMMA AnsweredOK ==
  ASSUME FilesBounds, FilesIInv, NEW r \in Req, NEW q \in ReqType, Goes(r, q), Rest,
         req[r].pc = "asked", tmp' = tmp, cache' = cache, q.pc = "answered",
         q.held = req[r].held, q.out = req[r].out, q.reval = req[r].reval,
         q.sent = req[r].sent, q.status = 200 => q.ver # 0
  PROVE  FilesIInv'
<1>1. /\ q.held # 0 => q.out # "error"
      /\ q.held # 0 => q.reval
      /\ q.sent = 0
  BY DEF FilesIInv, Asked
<1>2. cache' \in Files /\ CacheWhole' /\ ~Writes(r)
  BY DEF FilesIInv, FilesTypeOK, CacheWhole, Writes
<1> QED
  BY <1>1, <1>2, NoWriter

LEMMA RespondOK == ASSUME FilesBounds, FilesIInv, NEW r \in Req, Respond(r) PROVE FilesIInv'
<1>1. req[r] \in ReqType /\ back \in Versions /\ back # 0
  BY Typed DEF FilesIInv, FilesBounds, Versions
<1>2. req[r].pc = "asked" /\ Rest /\ tmp' = tmp /\ cache' = cache
  BY DEF Respond
<1>3. CASE \E life \in BOOLEAN : Goes(r, Unchanged(req[r], life))
  BY <1>1, <1>2, <1>3, UnchangedType, AnsweredOK
<1>4. CASE \E life, store \in BOOLEAN : Goes(r, Fresh(req[r], life, store))
  BY <1>1, <1>2, <1>4, FreshType, AnsweredOK
<1>5. CASE Goes(r, Failed(req[r]))
  BY <1>1, <1>2, <1>5, FailedType, AnsweredOK
<1> QED
  BY <1>3, <1>4, <1>5 DEF Respond

\* The cached file is served, with its lifetime renewed or not.
LEMMA CachedOK ==
  ASSUME FilesBounds, FilesIInv, NEW r \in Req, NotModified(r) \/ ServeOld(r)
  PROVE  FilesIInv'
<1> DEFINE q == [req[r] EXCEPT !.pc = "sent", !.ver = req[r].held, !.out = "cached"]
<1>1. req[r] \in ReqType /\ now + Life \in -5..MaxTime + Life
  BY Typed DEF FilesIInv, FilesBounds
<1>2. q \in ReqType /\ q.pc = "sent" /\ q.out = "cached"
  BY ZenonT(40), Members, <1>1 DEF ReqType
<1>3. Goes(r, q) /\ Rest /\ ~Writes(r) /\ tmp' = tmp
  BY DEF NotModified, ServeOld, Writes
<1>4. cache' = cache \/ cache' = [cache EXCEPT !.exp = now + Life]
  BY DEF NotModified, ServeOld
<1>5. cache' \in Files /\ CacheWhole'
  BY <1>1, <1>4 DEF FilesIInv, FilesTypeOK, Files, CacheWhole, Exists
<1> HIDE DEF q
<1> QED
  BY <1>2, <1>3, <1>5, NoWriter

\* A new answer passes: who can create the temporary file becomes its writer.
LEMMA PassOK == ASSUME FilesBounds, FilesIInv, NEW r \in Req, Pass(r) PROVE FilesIInv'
<1>1. req[r] \in ReqType /\ req[r].pc = "answered"
  BY Typed DEF FilesIInv, Pass
<1>2. CASE Stores(r) /\ Creates
  <2> DEFINE q == [req[r] EXCEPT !.pc = "storing", !.out = "new",
                                 !.exp = IF req[r].life THEN now + Life ELSE now - 5]
  <2>1. /\ tmp' = [ver |-> req[r].ver, units |-> 0, exp |-> 0]
        /\ Goes(r, q) /\ Rest /\ cache' = cache
    BY <1>2 DEF Pass
  <2>2. now + Life \in Times /\ now - 5 \in Times
    BY DEF FilesIInv, FilesTypeOK, FilesBounds, Times
  <2>3. q \in ReqType
    <3>1. CASE req[r].life
      BY ZenonT(40), Members, <1>1, <2>2, <3>1 DEF ReqType
    <3>2. CASE ~req[r].life
      BY ZenonT(40), Members, <1>1, <2>2, <3>2 DEF ReqType
    <3> QED
      BY <3>1, <3>2
  <2>4. /\ q.pc = "storing" /\ q.out = "new" /\ q.ver = req[r].ver /\ q.sent = req[r].sent
    BY Members, <1>1 DEF ReqType
  <2>5. req[r].ver # 0 /\ req[r].ver \in 0..MaxVersion
    BY <1>1, <1>2 DEF Stores, FilesIInv, Asked, ReqType, Versions
  <2>6. \A p \in Req : ~Writes(p)
    BY <1>2 DEF Creates, FilesIInv, WriterHasTmp
  <2> HIDE DEF q
  <2>7. /\ req' \in [Req -> ReqType]
        /\ req'[r] = q /\ \A p \in Req \ {r} : req'[p] = req[p]
    BY <2>1, <2>3, GoesOn DEF FilesIInv
  <2>8. FilesTypeOK'
    <3>1. tmp' \in Files
      BY <2>1, <2>5 DEF Files, FilesBounds
    <3> QED
      BY Typed, TypedNext, <2>1, <2>7, <3>1 DEF FilesIInv, Rest
  <2>9. req[r].sent = 0
    BY <1>1 DEF FilesIInv, Asked
  <2>10. \A p \in Req : Writes(p)' <=> p = r
    BY <2>4, <2>6, <2>7 DEF Writes
  <2>11. WriterHasTmp' /\ Alone' /\ Owned' /\ CacheWhole'
    BY <2>1, <2>4, <2>5, <2>7, <2>9, <2>10
       DEF WriterHasTmp, Alone, Owned, Exists, FilesIInv, CacheWhole
  <2>12. Asked'
    BY <2>4, <2>7 DEF FilesIInv, Asked
  <2> QED
    BY <2>8, <2>11, <2>12 DEF FilesIInv
<1>3. CASE ~(Stores(r) /\ Creates)
  <2> DEFINE q == [req[r] EXCEPT !.pc = "sent",
                                 !.out = IF req[r].status = 200 THEN "new" ELSE "error"]
  <2>1. Goes(r, q) /\ Rest /\ tmp' = tmp /\ cache' = cache
    BY <1>3 DEF Pass
  <2>2. q \in ReqType
    <3>1. CASE req[r].status = 200
      BY Members, <1>1, <3>1 DEF ReqType
    <3>2. CASE req[r].status # 200
      BY ZenonT(40), Members, <1>1, <3>2 DEF ReqType
    <3> QED
      BY <3>1, <3>2
  <2>3. /\ q.pc = "sent" /\ q.held = req[r].held
        /\ q.out = IF req[r].status = 200 THEN "new" ELSE "error"
    BY Members, <1>1 DEF ReqType
  <2>4. req[r].held # 0 => req[r].reval
    BY <1>1 DEF FilesIInv, Asked
  <2>5. q.held # 0 => q.out # "error"
    BY <2>3, <2>4 DEF Pass, ServesOld
  <2>6. cache' \in Files /\ CacheWhole' /\ ~Writes(r)
    BY <1>1, <2>1 DEF FilesIInv, FilesTypeOK, CacheWhole, Writes
  <2> HIDE DEF q
  <2> QED
    BY <2>1, <2>2, <2>3, <2>5, <2>6, NoWriter
<1> QED
  BY <1>2, <1>3

LEMMA AppendOK == ASSUME FilesBounds, FilesIInv, NEW r \in Req, AppendUnit(r) PROVE FilesIInv'
<1>1. /\ req[r] \in ReqType /\ req[r].pc = "storing" /\ Writes(r) /\ tmp \in Files
      /\ Rest /\ cache' = cache
  BY Typed DEF FilesIInv, AppendUnit, Writes
<1>2. /\ tmp.ver = req[r].ver /\ tmp.ver # 0 /\ tmp.units = req[r].sent
      /\ (req[r].held # 0 => req[r].out # "error")
  BY <1>1 DEF FilesIInv, WriterHasTmp, Exists, Asked
<1>3. req[r].sent + 1 \in Counts
  BY <1>1 DEF AppendUnit, HasMore, ReqType, Counts, FilesBounds
<1>4. cache' \in Files /\ CacheWhole'
  BY <1>1 DEF FilesIInv, FilesTypeOK, CacheWhole
<1>5. CASE /\ Goes(r, [req[r] EXCEPT !.sent = @ + 1])
           /\ tmp' = [tmp EXCEPT !.units = @ + 1]
  <2> DEFINE q == [req[r] EXCEPT !.sent = @ + 1]
  <2>1. q \in ReqType
    BY Members, <1>1, <1>3 DEF ReqType
  <2>2. /\ q.pc = "storing" /\ q.sent = req[r].sent + 1 /\ q.ver = req[r].ver
        /\ q.held = req[r].held /\ q.out = req[r].out
    BY Members, <1>1 DEF ReqType
  <2>3. tmp' \in Files /\ tmp'.ver = tmp.ver /\ tmp'.units = tmp.units + 1
    BY <1>1, <1>2, <1>3, <1>5 DEF Files, Counts
  <2>4. Goes(r, q)
    BY <1>5
  <2> HIDE DEF q
  <2> QED
    BY <1>1, <1>2, <1>4, <2>1, <2>2, <2>3, <2>4, WriterGoes
<1>6. CASE /\ Goes(r, [req[r] EXCEPT !.pc = "sent", !.sent = 0])
           /\ tmp' = NoFile
  <2> DEFINE q == [req[r] EXCEPT !.pc = "sent", !.sent = 0]
  <2>1. q \in ReqType
    BY ZenonT(40), Members, <1>1 DEF ReqType
  <2>2. q.pc = "sent" /\ q.held = req[r].held /\ q.out = req[r].out
    BY Members, <1>1 DEF ReqType
  <2>3. Goes(r, q)
    BY <1>6
  <2> HIDE DEF q
  <2> QED
    BY <1>1, <1>2, <1>6, <2>1, <2>2, <2>3, WriterEnds
<1> QED
  BY <1>5, <1>6 DEF AppendUnit

\* The three calls that move the name.
LEMMA CloseOK == ASSUME FilesBounds, FilesIInv, NEW r \in Req, Close(r) PROVE FilesIInv'
<1> DEFINE q == [req[r] EXCEPT !.pc = "closing", !.sent = 0]
<1>1. /\ req[r] \in ReqType /\ req[r].pc = "storing" /\ Writes(r) /\ tmp \in Files
      /\ Rest /\ Goes(r, q) /\ tmp' = [tmp EXCEPT !.exp = req[r].exp] /\ cache' = NoFile
  BY Typed DEF FilesIInv, Close, Writes
<1>2. tmp.ver = req[r].ver /\ tmp.ver # 0 /\ tmp.units = Units
  BY <1>1 DEF FilesIInv, WriterHasTmp, Exists, Close, AllPassed
<1>3. q \in ReqType
  BY ZenonT(40), Members, <1>1 DEF ReqType
<1>4. /\ q.pc = "closing" /\ q.ver = req[r].ver /\ q.held = req[r].held /\ q.out = req[r].out
  BY Members, <1>1 DEF ReqType
<1>5. tmp' \in Files /\ tmp'.ver = tmp.ver /\ tmp'.units = tmp.units
  BY <1>1 DEF Files, ReqType, Times
<1>6. cache' \in Files /\ CacheWhole'
  BY <1>1, QuietType DEF CacheWhole
<1> HIDE DEF q
<1> QED
  BY <1>1, <1>2, <1>3, <1>4, <1>5, <1>6, WriterGoes

LEMMA LinkOK == ASSUME FilesBounds, FilesIInv, NEW r \in Req, Link(r) PROVE FilesIInv'
<1> DEFINE q == [req[r] EXCEPT !.pc = "linked"]
<1>1. /\ req[r] \in ReqType /\ req[r].pc = "closing" /\ Writes(r) /\ tmp \in Files
      /\ Rest /\ Goes(r, q) /\ tmp' = tmp /\ cache' = IF Exists(cache) THEN cache ELSE tmp
  BY Typed DEF FilesIInv, Link, Writes
<1>2. tmp.ver = req[r].ver /\ tmp.ver # 0 /\ tmp.units = Units
  BY <1>1 DEF FilesIInv, WriterHasTmp, Exists
<1>3. q \in ReqType
  BY Members, <1>1 DEF ReqType
<1>4. /\ q.pc = "linked" /\ q.ver = req[r].ver /\ q.held = req[r].held /\ q.out = req[r].out
  BY Members, <1>1 DEF ReqType
<1>5. cache' \in Files /\ CacheWhole'
  BY <1>1, <1>2 DEF FilesIInv, FilesTypeOK, CacheWhole
<1> HIDE DEF q
<1> QED
  BY <1>1, <1>2, <1>3, <1>4, <1>5, WriterGoes

LEMMA UnlinkOK == ASSUME FilesBounds, FilesIInv, NEW r \in Req, Unlink(r) PROVE FilesIInv'
<1> DEFINE q == [req[r] EXCEPT !.pc = "sent"]
<1>1. /\ req[r] \in ReqType /\ req[r].pc = "linked" /\ Writes(r)
      /\ Rest /\ Goes(r, q) /\ tmp' = NoFile /\ cache' = cache
  BY Typed DEF FilesIInv, Unlink, Writes
<1>2. q \in ReqType /\ q.pc = "sent" /\ q.held = req[r].held /\ q.out = req[r].out
  BY Members, <1>1 DEF ReqType
<1>3. q.held # 0 => q.out # "error"
  BY <1>2 DEF FilesIInv, Asked
<1> HIDE DEF q
<1> QED
  BY <1>1, <1>2, <1>3, WriterEnds

\* A request ends anywhere but in those calls.
LEMMA FinalizeOK == ASSUME FilesBounds, FilesIInv, NEW r \in Req, Finalize(r) PROVE FilesIInv'
<1>1. Goes(r, Quiet) /\ Rest /\ cache' = cache /\ Quiet \in ReqType
  BY QuietType DEF Finalize
<1>2. Quiet.pc = "idle" /\ Quiet.held = 0 /\ Quiet.sent = 0
  BY DEF Quiet
<1>3. CASE req[r].pc = "storing"
  <2>1. Writes(r) /\ tmp' = NoFile
    BY <1>3 DEF Finalize, RemovesFile, Writes
  <2> QED
    BY <1>1, <1>2, <2>1, WriterEnds
<1>4. CASE req[r].pc # "storing"
  <2>1. ~Writes(r) /\ tmp' = tmp /\ cache' \in Files /\ CacheWhole'
    BY <1>1, <1>4 DEF Finalize, RemovesFile, Writes, FilesIInv, FilesTypeOK, CacheWhole
  <2> QED
    BY <1>1, <1>2, <2>1, NoWriter
<1> QED
  BY <1>3, <1>4

\* A kill leaves the files, and everything else the requests.
LEMMA WorldOK == ASSUME FilesBounds, FilesIInv, Kill \/ Changes \/ Tick \/ UNCHANGED filesVars PROVE FilesIInv'
<1>1. CASE Kill
  <2>1. /\ req' = [r \in Req |-> Quiet] /\ UNCHANGED <<back, now, cache, tmp>>
        /\ killed' = killed + 1 /\ killed' \in 0..Crashes
    BY <1>1 DEF Kill, FilesIInv, FilesTypeOK, FilesBounds
  <2>2. \A r \in Req : req'[r] = Quiet
    BY <2>1
  <2>3. FilesTypeOK'
    BY Typed, TypedNext, <2>1, QuietType DEF FilesIInv
  <2>4. killed' # 0
    BY <2>1 DEF FilesIInv, FilesTypeOK, FilesBounds
  <2> QED
    BY <2>1, <2>2, <2>3, <2>4 DEF FilesIInv, CacheWhole, WriterHasTmp, Alone, Owned, Asked, Writes,
         Quiet, Exists
<1>2. CASE Changes \/ Tick \/ UNCHANGED filesVars
  <2>1. UNCHANGED <<cache, tmp, req, killed>>
    BY <1>2 DEF Changes, Tick, filesVars
  <2>2. back' \in 1..MaxVersion /\ now' \in 0..MaxTime
    BY <1>2 DEF Changes, Tick, filesVars, FilesIInv, FilesTypeOK, FilesBounds
  <2>3. FilesTypeOK'
    BY <2>1, <2>2 DEF FilesIInv, FilesTypeOK
  <2> QED
    BY <2>1, <2>3 DEF FilesIInv, CacheWhole, WriterHasTmp, Alone, Owned, Asked, Writes, Exists
<1> QED
  BY <1>1, <1>2

-----------------------------------------------------------------------------
\* One writer at most, as a number.
LEMMA AtMostOne == ASSUME Alone PROVE Cardinality(Writers) <= 1
<1>1. CASE Writers = {}
  BY <1>1, FS_EmptySet
<1>2. CASE Writers # {}
  <2>1. PICK r \in Writers : TRUE
    BY <1>2
  <2>2. Writers = {r}
    BY <2>1 DEF Writers, Alone, Writes
  <2> QED
    BY <2>2, FS_Singleton
<1> QED
  BY <1>1, <1>2

\* The cached file is whole, one request writes the temporary one, which has no other
\* origin than a kill without it, and the backend's errors are covered by what is cached,
\* for any set of requests, any length of answers and any number of kills.
THEOREM FilesAreSound ==
  ASSUME Units \in Nat, Life \in Nat, MaxTime \in Nat, Crashes \in Nat,
         MaxVersion \in Nat \ {0}
  PROVE  FilesSpec => []FilesSound
<1>0. FilesBounds
  BY DEF FilesBounds
<1>1. FilesInit => FilesIInv
  BY <1>0, FilesInitOK
<1>2. FilesIInv /\ [FilesNext]_filesVars => FilesIInv'
  <2> SUFFICES ASSUME FilesIInv, [FilesNext]_filesVars PROVE FilesIInv'
    OBVIOUS
  <2> QED
    BY <1>0, AskOK, RespondOK, CachedOK, PassOK, AppendOK, CloseOK, LinkOK, UnlinkOK, FinalizeOK,
       WorldOK DEF FilesNext, Handle
<1>3. FilesIInv => FilesSound
  BY AtMostOne DEF FilesSound, FilesIInv, WriterHasTmp, Owned, Asked, OneWriter, TmpOwned, StaleOnError, Writers,
     Writes
<1> QED
  BY <1>1, <1>2, <1>3, PTL DEF FilesSpec

-----------------------------------------------------------------------------
(* The keys.  No request writes the table, so what has to be shown is that *)
(* the first user with a key, the last one and any of them are the same.   *)

\* The table is one of users and the clock a time.
KeysTyped == users \in Tables /\ clock \in Nat

\* What is assumed of the constants.
KeysBounds == MaxUsers \in Nat /\ MaxValid \in Nat /\ MaxDays \in Nat /\ MaxClock \in Nat

\* A table has finitely many users, and each has seconds that are a number.
LEMMA UsersOfTable ==
  ASSUME NEW tab \in Tables, KeysBounds
  PROVE  \E n \in Nat : DOMAIN tab = 1..n /\ \A i \in 1..n : tab[i] \in User
<1>1. PICK n \in 0..MaxUsers : tab \in [1..n -> User]
  BY DEF Tables
<1> QED
  BY <1>1 DEF KeysBounds

LEMMA FieldsOfValid ==
  ASSUME NEW A, NEW N, NEW v \in [add : A, n : N]
  PROVE  v.add \in A /\ v.n \in N
OBVIOUS

LEMMA SecondsOfUser ==
  ASSUME NEW user \in User, KeysBounds
  PROVE  /\ user.valid.add \in BOOLEAN /\ user.valid.n \in Nat
         /\ Seconds(user) \in Nat
         /\ ~user.valid.add => Seconds(user) = user.valid.n
<1> DEFINE InUse == [add : {FALSE}, n : 0..MaxValid]
           Adding == [add : {TRUE}, n : 0..MaxDays]
<1>1. user.valid \in InUse \/ user.valid \in Adding
  BY DEF User, Valid
<1>2. ASSUME NEW v \in InUse PROVE v.add = FALSE /\ v.n \in Nat
  <2>1. v.add \in {FALSE} /\ v.n \in 0..MaxValid
    BY FieldsOfValid, Zenon
  <2>2. 0..MaxValid \subseteq Nat
    BY DEF KeysBounds
  <2>3. v.n \in Nat
    BY <2>1, <2>2
  <2>4. v.add = FALSE
    BY <2>1, Zenon
  <2> QED
    BY <2>3, <2>4
<1>3. ASSUME NEW v \in Adding PROVE v.add = TRUE /\ v.n \in Nat
  <2>1. v.add \in {TRUE} /\ v.n \in 0..MaxDays
    BY FieldsOfValid, Zenon
  <2>2. 0..MaxDays \subseteq Nat
    BY DEF KeysBounds
  <2>3. v.n \in Nat
    BY <2>1, <2>2
  <2>4. v.add = TRUE
    BY <2>1, Zenon
  <2> QED
    BY <2>3, <2>4
<1>4. CASE user.valid \in InUse
  <2>1. user.valid.add = FALSE /\ user.valid.n \in Nat
    BY <1>2, <1>4
  <2> QED
    BY <2>1 DEF Seconds
<1>5. CASE user.valid \in Adding
  <2>1. user.valid.add = TRUE /\ user.valid.n \in Nat
    BY <1>3, <1>5
  <2> QED
    BY <2>1 DEF Seconds
<1> QED
  BY <1>1, <1>4, <1>5

\* The first user with a key is one of those with it.
LEMMA FirstHasKey ==
  ASSUME NEW tab \in Tables, NEW id, KeysBounds, Indices(tab, id) # {}
  PROVE  Smallest(Indices(tab, id)) \in Indices(tab, id)
<1>1. PICK n \in Nat : DOMAIN tab = 1..n
  BY UsersOfTable
<1>2. Indices(tab, id) \subseteq Nat
  BY <1>1 DEF Indices
<1>3. \E i \in Indices(tab, id) : \A j \in Indices(tab, id) : i <= j
  <2>1. PICK i \in Indices(tab, id) : \A j \in Indices(tab, id) : <<j, i>> \notin OpToRel(<, Nat)
    BY <1>2, NatLessThanWellFounded, WFMin
  <2>2. \A j \in Indices(tab, id) : ~(j < i)
    BY <1>2, <2>1 DEF OpToRel
  <2> QED
    BY <1>2, <2>2
<1> QED
  BY <1>3 DEF Smallest

\* A key that is in the table once is found there by the first and by the last.
LEMMA OnlyOne ==
  ASSUME NEW tab \in Tables, NEW id, KeysBounds, Cardinality(Indices(tab, id)) <= 1,
         NEW i \in Indices(tab, id)
  PROVE  /\ Indices(tab, id) = {i}
         /\ Smallest(Indices(tab, id)) = i
         /\ Largest(Indices(tab, id)) = i
<1>1. PICK n \in Nat : DOMAIN tab = 1..n
  BY UsersOfTable
<1>2. IsFiniteSet(Indices(tab, id)) /\ i \in Nat
  <2>1. IsFiniteSet(1..n)
    BY FS_Interval
  <2>2. Indices(tab, id) \subseteq 1..n
    BY <1>1 DEF Indices
  <2> QED
    BY <2>1, <2>2, FS_Subset
<1>3. Indices(tab, id) = {i}
  <2>1. SUFFICES ASSUME NEW j \in Indices(tab, id), j # i PROVE FALSE
    OBVIOUS
  <2>2. IsFiniteSet({i, j}) /\ Cardinality({i, j}) = 2
    <3>1. IsFiniteSet({i}) /\ Cardinality({i}) = 1
      BY FS_Singleton
    <3>2. IsFiniteSet({i} \cup {j}) /\ Cardinality({i} \cup {j}) = Cardinality({i}) + 1
      BY <2>1, <3>1, FS_AddElement
    <3>3. {i, j} = {i} \cup {j}
      OBVIOUS
    <3> QED
      BY <3>1, <3>2, <3>3
  <2>3. Cardinality({i, j}) <= Cardinality(Indices(tab, id))
    BY <1>2, FS_Subset, {i, j} \subseteq Indices(tab, id)
  <2>4. Cardinality(Indices(tab, id)) \in Nat
    BY <1>2, FS_CardinalityType
  <2> QED
    BY <2>2, <2>3, <2>4
<1>4. \A j \in {i} : i <= j /\ i >= j
  BY <1>2
<1> QED
  BY <1>3, <1>4 DEF Smallest, Largest

\* The requests of a login agree.
LEMMA LoginsAgree == ASSUME KeysBounds, KeysTyped PROVE AuthMeansOvpn
<1> SUFFICES ASSUME NEW id \in Ids
             PROVE  /\ Auth(users, id, clock) = "AUTH_SUCCESS" => GetsOvpn(users, id, clock)
                    /\ (UniqueIds /\ GetsOvpn(users, id, clock) => Auth(users, id, clock) = "AUTH_SUCCESS")
  BY DEF AuthMeansOvpn
<1> DEFINE found == Indices(users, id)
<1>1. ASSUME Auth(users, id, clock) = "AUTH_SUCCESS" PROVE GetsOvpn(users, id, clock)
  <2>1. found # {}
    BY <1>1 DEF Auth
  <2>2. Running(users[Smallest(found)], clock)
    BY <1>1, <2>1 DEF Auth
  <2>3. Smallest(found) \in found
    BY <2>1, FirstHasKey DEF KeysTyped
  <2> QED
    BY <2>2, <2>3 DEF GetsOvpn
<1>2. ASSUME UniqueIds, GetsOvpn(users, id, clock) PROVE Auth(users, id, clock) = "AUTH_SUCCESS"
  <2>1. PICK i \in found : Running(users[i], clock)
    BY <1>2 DEF GetsOvpn
  <2>2. Smallest(found) = i /\ found # {}
    BY <1>2, <2>1, OnlyOne DEF KeysTyped, UniqueIds
  <2> QED
    BY <2>1, <2>2 DEF Auth
<1> QED
  BY <1>1, <1>2

\* An activation agrees with a login.
LEMMA ActivationsAgree == ASSUME KeysBounds, KeysTyped PROVE ActivationAgrees
<1> SUFFICES ASSUME UniqueIds, NEW i \in DOMAIN users, ~users[i].valid.add,
                    NEW old \in Ids \cup {"free"}
             PROVE  CASE Activate(users, users[i].id, old, clock).response = "ACTIVATION_SUCCESS" ->
                           Auth(users, users[i].id, clock) = "AUTH_SUCCESS" \/ users[i].valid.n = Whole(clock)
                      [] OTHER -> Auth(users, users[i].id, clock) = "AUTH_KEY_EXPIRED"
  BY DEF ActivationAgrees
<1> DEFINE u == users[i]
           found == Indices(users, u.id)
<1>1. u \in User /\ u.id \in Ids /\ u.valid.n \in Nat /\ Seconds(u) = u.valid.n
  BY UsersOfTable, SecondsOfUser DEF KeysTyped, User
<1>2. i \in found
  BY DEF Indices
<1>3. found # {} /\ Smallest(found) = i /\ Largest(found) = i
  BY <1>1, <1>2, OnlyOne DEF KeysTyped, UniqueIds
<1>4. Auth(users, u.id, clock) = IF Running(u, clock) THEN "AUTH_SUCCESS" ELSE "AUTH_KEY_EXPIRED"
  BY <1>3 DEF Auth
<1>5. Activate(users, u.id, old, clock).response
        = IF Expired(u, clock) THEN "ACTIVATION_KEY_EXPIRED" ELSE "ACTIVATION_SUCCESS"
  <2>1. CASE Expired(u, clock)
    BY <1>3, <2>1 DEF Activate
  <2>2. CASE ~Expired(u, clock)
    BY <1>3, <2>2 DEF Activate
  <2> QED
    BY <2>1, <2>2
<1>6. /\ Running(u, clock) <=> 2 * u.valid.n > clock
      /\ Expired(u, clock) <=> u.valid.n < clock \div 2
      /\ Whole(clock) = clock \div 2
  BY <1>1 DEF Running, Expired, Whole
<1>7. clock \in Nat
  BY DEF KeysTyped
<1>8. CASE Expired(u, clock)
  <2>1. ~Running(u, clock)
    BY <1>1, <1>6, <1>7, <1>8
  <2> QED
    BY <1>4, <1>5, <1>8, <2>1
<1>9. CASE ~Expired(u, clock)
  <2>1. Running(u, clock) \/ u.valid.n = Whole(clock)
    BY <1>1, <1>6, <1>7, <1>9
  <2> QED
    BY <1>4, <1>5, <1>9, <2>1
<1> QED
  BY <1>8, <1>9

\* The requests of the worker agree on whether a key is valid, for any table of
\* users, keys and times.
THEOREM KeysAgree ==
  ASSUME MaxUsers \in Nat, MaxValid \in Nat, MaxDays \in Nat, MaxClock \in Nat
  PROVE  KeysSpec => []KeysSound
<1>0. KeysBounds
  BY DEF KeysBounds
<1>1. KeysInit => KeysTyped
  BY DEF KeysInit, KeysTyped
<1>2. KeysTyped /\ [KeysNext]_keysVars => KeysTyped'
  BY DEF KeysTyped, KeysNext, ClockTick, ActivateKey, Activated, keysVars
<1>3. KeysTyped => KeysSound
  BY <1>0, LoginsAgree, ActivationsAgree DEF KeysSound
<1> QED
  BY <1>1, <1>2, <1>3, PTL DEF KeysSpec

-----------------------------------------------------------------------------
(* The fetches.  Managers are numbered, so that those that are to go are   *)
(* earlier than the present one; and a loop that was told to quit has its  *)
(* own reason.                                                             *)

\* A call of GET_SYNC.
Haves == {"none", "part", "all"}
FetchCalls == [manager : Nat, have : Haves, finished : BOOLEAN, failed : BOOLEAN,
          reply : BOOLEAN, timedOut : BOOLEAN, quit : BOOLEAN]

\* A loop is told to quit by its own timer or the end of its own request, which is an
\* error unless all has come.
QuitsForAReason(c) == /\ c.quit => c.timedOut \/ c.finished
                      /\ c.finished /\ c.have # "all" => c.failed

\* Managers are numbered as they are made: those to be deleted and those of earlier
\* calls are no later than the present one, whose replies are there.
FetchTyped == /\ manager \in Nat
              /\ dying \subseteq Nat \X Nat
              /\ stack \in Seq(FetchCalls)
Numbered == /\ \A d \in dying : d[1] < manager
            /\ \A i \in Frames : /\ stack[i].manager <= manager
                                 /\ stack[i].manager = manager => stack[i].reply
Quits == \A i \in Frames : QuitsForAReason(stack[i])

FetchIInv == FetchTyped /\ Numbered /\ Quits /\ ShortForAReason

LEMMA FetchCallType ==
  ASSUME NEW m \in Nat
  PROVE  /\ FetchCall(m) \in FetchCalls /\ QuitsForAReason(FetchCall(m))
         /\ FetchCall(m).manager = m /\ FetchCall(m).reply
BY DEF FetchCall, FetchCalls, Haves, QuitsForAReason

\* Nothing has been fetched.
LEMMA FetchInitOK == FetchInit => FetchIInv
BY DEF FetchInit, FetchIInv, FetchTyped, Numbered, Quits, ShortForAReason, Frames, Level

\* A step that changes the calls one by one.
LEMMA FramesChange ==
  ASSUME FetchTyped, Numbered, Quits,
         UNCHANGED <<manager, last>>, dying' \subseteq dying,
         stack' \in Seq(FetchCalls), Len(stack') = Len(stack),
         \A i \in Frames : /\ stack'[i].manager = stack[i].manager
                           /\ stack[i].manager = manager => stack'[i].reply
                           /\ QuitsForAReason(stack'[i]),
         ShortForAReason
  PROVE  FetchIInv'
<1>1. Frames' = Frames
  BY DEF Frames, Level
<1>2. FetchTyped'
  BY DEF FetchTyped
<1>3. Numbered'
  BY <1>1 DEF Numbered
<1>4. Quits'
  BY <1>1 DEF Quits, QuitsForAReason
<1>5. ShortForAReason'
  BY DEF ShortForAReason
<1> QED
  BY <1>2, <1>3, <1>4, <1>5 DEF FetchIInv

\* A call begins.
LEMMA ConnectOK == ASSUME FetchIInv, Connect PROVE FetchIInv'
<1>1. /\ manager \in Nat /\ stack \in Seq(FetchCalls) /\ stack' = Append(stack, FetchCall(manager))
      /\ FetchCall(manager) \in FetchCalls
  BY FetchCallType DEF FetchIInv, FetchTyped, Connect
<1> DEFINE c == FetchCall(manager)
<1>2. QuitsForAReason(c) /\ c.manager = manager /\ c.reply
  BY <1>1, FetchCallType
<1> HIDE DEF c
<1>3. /\ stack' \in Seq(FetchCalls) /\ Len(stack') = Len(stack) + 1
      /\ \A i \in 1..Len(stack) : stack'[i] = stack[i]
      /\ stack'[Len(stack) + 1] = c
  BY <1>1, AppendProperties DEF c
<1>4. \A i \in Frames' : (i \in Frames /\ stack'[i] = stack[i]) \/ stack'[i] = c
  BY <1>3, LenProperties, <1>1 DEF Frames, Level
<1>5. FetchTyped'
  BY <1>3 DEF FetchIInv, FetchTyped, Connect
<1>6. Numbered'
  <2>1. manager' = manager /\ dying' = dying
    BY DEF Connect
  <2>2. ASSUME NEW i \in Frames'
        PROVE  stack'[i].manager <= manager /\ (stack'[i].manager = manager => stack'[i].reply)
    <3>1. CASE i \in Frames /\ stack'[i] = stack[i]
      BY <3>1 DEF FetchIInv, Numbered
    <3>2. CASE stack'[i] = c
      BY <1>1, <1>2, <3>2
    <3> QED
      BY <1>4, <3>1, <3>2
  <2> QED
    BY <2>1, <2>2 DEF FetchIInv, Numbered
<1>7. Quits'
  BY <1>2, <1>4 DEF FetchIInv, Quits, QuitsForAReason
<1>8. ShortForAReason'
  BY DEF FetchIInv, ShortForAReason, Connect
<1> QED
  BY <1>5, <1>6, <1>7, <1>8 DEF FetchIInv

\* Something of the answer to the call i comes in.
LEMMA ArriveOK == ASSUME FetchIInv, NEW i \in Frames, Arrive(i) PROVE FetchIInv'
<1>1. PICK h \in Progress[stack[i].have] : stack' = [stack EXCEPT ![i].have = h]
  BY DEF Arrive
<1>2. /\ stack \in Seq(FetchCalls) /\ i \in 1..Len(stack) /\ stack[i] \in FetchCalls
      /\ \A j \in Frames : j \in 1..Len(stack) /\ stack[j] \in FetchCalls
  BY ElementOfSeq DEF FetchIInv, FetchTyped, Frames, Level
<1>3. h \in Haves
  <2>1. stack[i].have \in {"none", "part", "all"}
    BY <1>2 DEF FetchCalls, Haves
  <2> QED
    BY <2>1 DEF Progress, Haves
<1> DEFINE c == [stack[i] EXCEPT !.have = h]
<1>4. /\ c \in FetchCalls /\ c.manager = stack[i].manager /\ c.reply = stack[i].reply
      /\ c.quit = stack[i].quit /\ c.timedOut = stack[i].timedOut
      /\ c.finished = stack[i].finished
  BY <1>2, <1>3 DEF FetchCalls
<1>5. ~stack[i].finished
  BY DEF Arrive, Unanswered
<1>6. QuitsForAReason(c)
  BY <1>4, <1>5 DEF FetchIInv, Quits, QuitsForAReason
<1>7. stack' = [stack EXCEPT ![i] = c]
  BY <1>1
<1> HIDE DEF c
<1>8. stack' \in Seq(FetchCalls) /\ Len(stack') = Len(stack)
  BY <1>2, <1>4, <1>7, ExceptSeq
<1>9. \A j \in Frames : stack'[j] = IF j = i THEN c ELSE stack[j]
  BY <1>2, <1>7, ExceptSeq DEF Frames, Level
<1> QED
  BY <1>4, <1>6, <1>8, <1>9, FramesChange DEF FetchIInv, Numbered, Quits, Arrive

\* The request of the call i ends, and the manager tells all calls.
LEMMA FinishOK == ASSUME FetchIInv, NEW i \in Frames, Finish(i) PROVE FetchIInv'
<1> DEFINE After(j) == [stack[j] EXCEPT !.quit = @ \/ OwnReply(i, j),
                                        !.finished = @ \/ i = j,
                                        !.failed = @ \/ (i = j /\ stack[i].have # "all")]
<1>1. stack' = [j \in Frames |-> After(j)]
  BY DEF Finish
<1>2. /\ stack \in Seq(FetchCalls) /\ Len(stack) \in Nat
      /\ \A j \in Frames : j \in 1..Len(stack) /\ stack[j] \in FetchCalls
  BY ElementOfSeq, LenProperties DEF FetchIInv, FetchTyped, Frames, Level
<1>3. ASSUME NEW j \in Frames
      PROVE  /\ After(j) \in FetchCalls /\ After(j).manager = stack[j].manager
             /\ After(j).reply = stack[j].reply
             /\ QuitsForAReason(After(j))
  <2>1. /\ After(j) \in FetchCalls /\ After(j).manager = stack[j].manager
        /\ After(j).reply = stack[j].reply /\ After(j).have = stack[j].have
        /\ After(j).timedOut = stack[j].timedOut
        /\ After(j).quit = (stack[j].quit \/ i = j)
        /\ After(j).finished = (stack[j].finished \/ i = j)
        /\ After(j).failed = (stack[j].failed \/ (i = j /\ stack[i].have # "all"))
    BY <1>2 DEF FetchCalls, OwnReply
  <2>2. QuitsForAReason(stack[j])
    BY DEF FetchIInv, Quits
  <2> QED
    BY <2>1, <2>2 DEF QuitsForAReason
<1> HIDE DEF After
<1>4. stack' \in Seq(FetchCalls) /\ Len(stack') = Len(stack)
  BY <1>1, <1>2, <1>3, IsASeq DEF Frames, Level
<1>5. \A j \in Frames : stack'[j] = After(j)
  BY <1>1
<1>6. \A j \in Frames : /\ stack'[j].manager = stack[j].manager
                        /\ stack[j].manager = manager => stack'[j].reply
                        /\ QuitsForAReason(stack'[j])
  BY <1>3, <1>5 DEF FetchIInv, Numbered
<1>7. UNCHANGED <<manager, last>> /\ dying' \subseteq dying
  BY DEF Finish
<1> QED
  BY <1>4, <1>6, <1>7, FramesChange DEF FetchIInv

\* The time of the call i is over.
LEMMA TimeoutOK == ASSUME FetchIInv, NEW i \in Frames, Timeout(i) PROVE FetchIInv'
<1>1. /\ stack \in Seq(FetchCalls) /\ i \in 1..Len(stack) /\ stack[i] \in FetchCalls
      /\ \A j \in Frames : j \in 1..Len(stack) /\ stack[j] \in FetchCalls
  BY ElementOfSeq DEF FetchIInv, FetchTyped, Frames, Level
<1> DEFINE c == [stack[i] EXCEPT !.timedOut = TRUE, !.quit = TRUE]
<1>2. /\ c \in FetchCalls /\ c.manager = stack[i].manager /\ c.reply = stack[i].reply
      /\ c.have = stack[i].have /\ c.failed = stack[i].failed
      /\ c.timedOut = TRUE /\ c.finished = stack[i].finished
  BY <1>1 DEF FetchCalls
<1>3. QuitsForAReason(c)
  BY <1>2 DEF FetchIInv, Quits, QuitsForAReason
<1>4. stack' = [stack EXCEPT ![i] = c]
  BY <1>1 DEF Timeout
<1> HIDE DEF c
<1>5. stack' \in Seq(FetchCalls) /\ Len(stack') = Len(stack)
  BY <1>1, <1>2, <1>4, ExceptSeq
<1>6. \A j \in Frames : stack'[j] = IF j = i THEN c ELSE stack[j]
  BY <1>1, <1>4, ExceptSeq DEF Frames, Level
<1>7. \A j \in Frames : /\ stack'[j].manager = stack[j].manager
                        /\ stack[j].manager = manager => stack'[j].reply
                        /\ QuitsForAReason(stack'[j])
  BY <1>2, <1>3, <1>6 DEF FetchIInv, Numbered, Quits
<1>8. UNCHANGED <<manager, last>> /\ dying' \subseteq dying
  BY DEF Timeout
<1> QED
  BY <1>5, <1>7, <1>8, FramesChange DEF FetchIInv

\* A manager is deleted with its replies.
LEMMA DeleteOK == ASSUME FetchIInv, NEW d \in dying, DeleteManager(d) PROVE FetchIInv'
<1> DEFINE After(j) == [stack[j] EXCEPT !.reply = @ /\ stack[j].manager # d[1]]
<1>1. stack' = [j \in Frames |-> After(j)]
  BY DEF DeleteManager
<1>2. /\ stack \in Seq(FetchCalls) /\ Len(stack) \in Nat
      /\ \A j \in Frames : j \in 1..Len(stack) /\ stack[j] \in FetchCalls
      /\ d[1] # manager
  BY ElementOfSeq, LenProperties DEF FetchIInv, FetchTyped, Frames, Level, Numbered
<1>3. ASSUME NEW j \in Frames
      PROVE  /\ After(j) \in FetchCalls /\ After(j).manager = stack[j].manager
             /\ stack[j].manager = manager => After(j).reply
             /\ QuitsForAReason(After(j))
  <2>1. /\ After(j) \in FetchCalls /\ After(j).manager = stack[j].manager
        /\ After(j).reply = (stack[j].reply /\ stack[j].manager # d[1])
        /\ After(j).have = stack[j].have /\ After(j).timedOut = stack[j].timedOut
        /\ After(j).quit = stack[j].quit /\ After(j).finished = stack[j].finished
        /\ After(j).failed = stack[j].failed
    BY <1>2 DEF FetchCalls
  <2>2. QuitsForAReason(stack[j]) /\ (stack[j].manager = manager => stack[j].reply)
    BY DEF FetchIInv, Quits, Numbered
  <2> QED
    BY <1>2, <2>1, <2>2 DEF QuitsForAReason
<1> HIDE DEF After
<1>4. stack' \in Seq(FetchCalls) /\ Len(stack') = Len(stack)
  BY <1>1, <1>2, <1>3, IsASeq DEF Frames, Level
<1>5. \A j \in Frames : stack'[j] = After(j)
  BY <1>1
<1> QED
  BY <1>3, <1>4, <1>5, FramesChange DEF FetchIInv, DeleteManager

\* What Return does: the result is the last call's, without an answer if it has none.
LEMMA ReturnIs ==
  ASSUME FetchIInv, Return
  PROVE  /\ stack \in Seq(FetchCalls) /\ Level \in Frames /\ stack[Level].quit
         /\ last'.call = stack[Level]
         /\ last'.conn = "" <=> ReadAll(stack[Level]) = "none"
         /\ IF last'.conn = ""
            THEN dying' = dying \cup {<<manager, Level - 1>>} /\ manager' = manager + 1
            ELSE UNCHANGED <<dying, manager>>
         /\ stack' = SubSeq(stack, 1, Level - 1)
<1>1. PICK conn \in Connections(ReadAll(stack[Level])) :
        /\ last' = [call |-> stack[Level], conn |-> conn]
        /\ IF Resets(conn)
           THEN /\ dying' = dying \cup {<<manager, Level - 1>>}
                /\ manager' = NewManager
           ELSE UNCHANGED <<dying, manager>>
  BY DEF Return
<1>2. last'.call = stack[Level] /\ last'.conn = conn
  BY <1>1
<1>3. stack \in Seq(FetchCalls) /\ Level \in Frames /\ stack[Level].quit
  BY LenProperties DEF FetchIInv, FetchTyped, Return, Level, Frames
<1>4. conn = "" <=> ReadAll(stack[Level]) = "none"
  BY DEF Connections
<1> QED
  BY <1>1, <1>2, <1>3, <1>4 DEF Resets, NewManager, Return

\* The innermost call returns.
LEMMA ReturnOK == ASSUME FetchIInv, Return PROVE FetchIInv'
<1>1. /\ stack \in Seq(FetchCalls) /\ Level \in Frames /\ Level \in Nat /\ Level >= 1
      /\ stack[Level] \in FetchCalls /\ manager \in Nat
  <2>1. stack \in Seq(FetchCalls) /\ Level \in 1..Len(stack) /\ manager \in Nat
    BY ReturnIs DEF Frames, Level, FetchIInv, FetchTyped
  <2>2. Len(stack) \in Nat /\ stack[Level] \in FetchCalls
    BY <2>1, LenProperties, ElementOfSeq
  <2> QED
    BY <2>1, <2>2 DEF Frames, Level
<1>2. /\ stack' \in Seq(FetchCalls) /\ Len(stack') = Level - 1
      /\ \A j \in 1..(Level - 1) : stack'[j] = stack[j]
  <2> DEFINE n == Level - 1
  <2>1. stack' = SubSeq(stack, 1, n)
    BY ReturnIs
  <2>2. n \in Nat /\ n \in 0..Len(stack) /\ n <= Len(stack)
    BY <1>1 DEF Level
  <2> HIDE DEF n
  <2>3. /\ SubSeq(stack, 1, n) \in Seq(FetchCalls) /\ Len(SubSeq(stack, 1, n)) = n
        /\ \A j \in 1..n : SubSeq(stack, 1, n)[j] = stack[j]
    BY <1>1, <2>2, LenProperties
  <2> QED
    BY <2>1, <2>3 DEF n
<1>3. Frames' \subseteq Frames /\ \A j \in Frames' : stack'[j] = stack[j]
  BY <1>1, <1>2 DEF Frames, Level
<1>4. FetchTyped'
  <2>1. \/ manager' = manager /\ dying' = dying
        \/ manager' = manager + 1 /\ dying' = dying \cup {<<manager, Level - 1>>}
    BY ReturnIs
  <2>2. manager + 1 \in Nat /\ Level - 1 \in Nat
    BY <1>1
  <2>3. manager' \in Nat /\ dying' \subseteq Nat \X Nat
    BY <1>1, <2>1, <2>2 DEF FetchIInv, FetchTyped
  <2> QED
    BY <1>2, <2>3 DEF FetchTyped
<1>5. manager' = manager \/ manager' = manager + 1
  BY ReturnIs
<1>6. Numbered'
  <2>1. ASSUME NEW d \in dying' PROVE d[1] < manager'
    <3>1. CASE d \in dying
      <4>1. d[1] < manager /\ d[1] \in Nat
        BY <3>1 DEF FetchIInv, FetchTyped, Numbered
      <4> QED
        BY <1>1, <1>5, <4>1
    <3>2. CASE d \notin dying
      <4>1. d = <<manager, Level - 1>> /\ manager' = manager + 1
        BY <3>2, <2>1, ReturnIs
      <4> QED
        BY <1>1, <4>1
    <3> QED
      BY <3>1, <3>2
  <2>2. ASSUME NEW j \in Frames'
        PROVE  stack'[j].manager <= manager' /\ (stack'[j].manager = manager' => stack'[j].reply)
    <3>1. /\ stack[j].manager <= manager
          /\ stack[j].manager = manager => stack[j].reply
      BY <1>3 DEF FetchIInv, Numbered
    <3>2. stack[j].manager \in Nat
      <4>1. j \in 1..Len(stack)
        BY <1>3 DEF Frames, Level
      <4>2. stack[j] \in FetchCalls
        BY <1>1, <4>1, ElementOfSeq
      <4> QED
        BY <4>2 DEF FetchCalls
    <3>3. stack'[j] = stack[j]
      BY <1>3
    <3>4. CASE manager' = manager
      BY <3>1, <3>3, <3>4
    <3>5. CASE manager' = manager + 1
      BY <1>1, <3>1, <3>2, <3>3, <3>5
    <3> QED
      BY <1>5, <3>4, <3>5
  <2> QED
    BY <2>1, <2>2 DEF Numbered
<1>7. Quits'
  BY <1>3 DEF FetchIInv, Quits, QuitsForAReason
<1>8. ShortForAReason'
  <2>1. QuitsForAReason(stack[Level]) /\ stack[Level].quit
    BY <1>1, ReturnIs DEF FetchIInv, Quits
  <2>2. last'.call = stack[Level]
    BY ReturnIs
  <2> QED
    BY <2>1, <2>2 DEF ShortForAReason, QuitsForAReason
<1> QED
  BY <1>4, <1>6, <1>7, <1>8 DEF FetchIInv

\* A fetch that came back with less than the answer had its time, an error or its
\* manager taken away, calls use a manager that stays, and one that the server answers
\* on is kept; for any depth and number of nested calls.
THEOREM FetchIsSound == FetchSpec => FetchSound
<1>1. FetchInit => FetchIInv
  BY FetchInitOK
<1>2. FetchIInv /\ [FetchNext]_fetchVars => FetchIInv'
  <2>1. FetchIInv /\ UNCHANGED fetchVars => FetchIInv'
    BY DEF fetchVars, FetchIInv, FetchTyped, Numbered, Quits, QuitsForAReason, ShortForAReason,
           Frames, Level
  <2> QED
    BY <2>1, ConnectOK, ArriveOK, FinishOK, TimeoutOK, DeleteOK, ReturnOK DEF FetchNext, Loop
<1>3. FetchIInv => ShortForAReason /\ ManagerStays
  <2> SUFFICES ASSUME FetchIInv PROVE ManagerStays
    BY DEF FetchIInv
  <2>1. \A d \in dying : d[1] # manager
    BY DEF FetchIInv, FetchTyped, Numbered
  <2> QED
    BY <2>1 DEF ManagerStays, FetchIInv, Numbered
<1>4. FetchIInv /\ [FetchNext]_fetchVars
        => [Return => (manager' # manager <=> last'.call.have = "none" \/ ~last'.call.reply)]_fetchVars
  <2> SUFFICES ASSUME FetchIInv, Return
               PROVE  manager' # manager <=> last'.call.have = "none" \/ ~last'.call.reply
    OBVIOUS
  <2>1. last'.call = stack[Level] /\ (manager' # manager <=> ReadAll(stack[Level]) = "none")
    <3>1. manager \in Nat
      BY DEF FetchIInv, FetchTyped
    <3>2. manager + 1 # manager
      BY <3>1
    <3> QED
      BY <3>2, ReturnIs
  <2>2. stack[Level].reply \in BOOLEAN
    <3>1. stack \in Seq(FetchCalls) /\ Level \in 1..Len(stack)
      BY ReturnIs DEF Frames, Level
    <3>2. stack[Level] \in FetchCalls
      BY <3>1, ElementOfSeq
    <3> QED
      BY <3>2 DEF FetchCalls
  <2>3. ReadAll(stack[Level]) = "none" <=> stack[Level].have = "none" \/ ~stack[Level].reply
    BY <2>2 DEF ReadAll
  <2> QED
    BY <2>1, <2>3
<1> QED
  BY <1>1, <1>2, <1>3, <1>4, PTL DEF FetchSpec, FetchSound, ResetOnSilence
-----------------------------------------------------------------------------
(* The adapters.  What the last check of an adapter says is not known by   *)
(* looking at it: an adapter is running, or stuck, or still in the list.   *)

\* What the variables are, and where setupDriver can be.
Loops == {"check", "clean", "clean2"}
Checks == {"nodes", "files", "status", "disable", "enable", "again"}
TapsTyped ==
  /\ dev \in [Dev -> {"absent", "broken", "disabled", "running"}]
  /\ todo \in Seq(Dev)
  /\ pc \in {"idle", "list", "next", "decide", "install", "remove", "returned"} \cup Checks
  /\ phase \in Loops \cup {"left", "final"}
  /\ pc \in Checks \cup {"remove"} => todo # <<>>
  /\ pc \in Checks \cup {"remove", "next"} => phase \in Loops
  /\ pc = "remove" => phase # "check"
  /\ pc \in {"decide", "install"} => phase \notin Loops

\* d is still in the list.
IsLeft(d) == \E i \in 1..Len(todo) : todo[i] = d

\* An adapter that ran runs, or it is the one that is stopped to be started, which only
\* happens to one that can be.
Runs == \A d \in before : d \in RunningTaps \cup stuck \/ (pc = "enable" /\ d = d0)
Stopped == pc = "enable" => dev[d0] = "disabled" \/ d0 \in stuck
Useless == pc = "remove" => d0 \notin passed /\ (d0 \in before => d0 \in stuck)

\* What checkAndSetup and setupDriver know when they return TRUE.
Found == phase = "check" /\ usable => stuck # {} \/ RunningTaps # {} \/ pc = "enable"
Cleaned ==
  /\ phase \in {"clean", "clean2"} /\ pc \notin {"list", "returned"} =>
       \A d \in Here : d \in RunningTaps \cup stuck \/ IsLeft(d)
  /\ phase \in {"left", "final"} => Here \subseteq RunningTaps \cup stuck
Listed == pc = "decide" /\ todo # <<>> => Here # {} \/ stuck # {}

TapsIInv == /\ TapsTyped /\ Runs /\ Stopped /\ Useless /\ Found /\ Cleaned /\ Listed
            /\ Ready

-----------------------------------------------------------------------------
\* What the next instance of the list is, and the rest.
LEMMA RestOfList ==
  ASSUME todo \in Seq(Dev), todo # <<>>
  PROVE  /\ d0 \in Dev /\ Tail(todo) \in Seq(Dev)
         /\ \A d : IsLeft(d) => d = d0 \/ \E i \in 1..Len(Tail(todo)) : Tail(todo)[i] = d
<1>1. d0 \in Dev /\ Tail(todo) \in Seq(Dev)
  BY DEF d0
<1>2. Len(todo) \in Nat /\ Len(Tail(todo)) = Len(todo) - 1 /\ d0 = todo[1]
  BY DEF d0
<1>3. ASSUME NEW d, NEW i \in 1..Len(todo), todo[i] = d, d # d0
      PROVE  \E j \in 1..Len(Tail(todo)) : Tail(todo)[j] = d
  <2>1. i # 1 /\ i - 1 \in 1..Len(Tail(todo))
    BY <1>2, <1>3
  <2>2. Tail(todo)[i - 1] = todo[i]
    BY <2>1, <1>2
  <2> QED
    BY <2>1, <2>2, <1>3
<1> QED
  BY <1>1, <1>3 DEF IsLeft

LEMMA TapsInitOK == TapsInit => TapsIInv
BY DEF TapsInit, TapsIInv, TapsTyped, Loops, Checks, Runs, Stopped, Useless, Found,
       Cleaned, Listed, Ready

\* The check of an adapter is over: it passed and runs, or it did not run, or it was
\* stuck in between.
LEMMA CheckOverOK ==
  ASSUME TapsIInv, NEW ok \in BOOLEAN, pc \in Checks, CheckOver(ok),
         UNCHANGED <<dev, phase, ret, before>>, stuck \subseteq stuck',
         ok => dev[d0] = "running",
         ~ok => d0 \in stuck' \/ (pc # "enable" /\ dev[d0] # "running")
  PROVE  TapsIInv'
<1> USE DEF TapsIInv
<1>0. todo # <<>> /\ todo \in Seq(Dev) /\ d0 \in Dev /\ phase \in Loops
  BY RestOfList DEF TapsTyped
<1>1. CASE Removes(ok)
  <2>1. pc' = "remove" /\ todo' = todo /\ d0' = d0 /\ ~ok /\ phase # "check" /\ passed' = passed \ {d0}
    BY <1>1 DEF CheckOver, Removes, d0
  <2>2. TapsTyped'
    BY <2>1, <1>0 DEF TapsTyped, Loops, Checks
  <2>3. RunningTaps' = RunningTaps /\ Here' = Here /\ \A d : IsLeft(d)' = IsLeft(d)
    BY <2>1 DEF RunningTaps, Here, IsLeft
  <2>4. d0 \in before => d0 \in stuck'
    BY <2>1 DEF Runs, RunningTaps
  <2>5. Runs'
    BY <2>3, <2>4 DEF Runs
  <2>6. Stopped' /\ Useless' /\ Listed' /\ Found' /\ Ready'
    BY <2>1, <2>4 DEF Stopped, Useless, Listed, Found, Ready
  <2>7. Cleaned'
    BY <2>1, <2>3, <1>0 DEF Cleaned, Loops, Checks
  <2> QED
    BY <2>2, <2>5, <2>6, <2>7
<1>2. CASE ~Removes(ok)
  <2>1. pc' = "next" /\ todo' = Tail(todo) /\ (phase # "check" => ok)
    BY <1>2 DEF CheckOver, Removes
  <2>2. TapsTyped'
    BY <2>1, <1>0, RestOfList DEF TapsTyped, Loops, Checks
  <2>3. RunningTaps' = RunningTaps /\ Here' = Here
    BY DEF RunningTaps, Here
  <2>4. Runs'
    <3>1. \A d \in before : d \in RunningTaps' \cup stuck' \/ (pc = "enable" /\ d = d0)
      BY <2>3 DEF Runs
    <3>2. CASE ok
      BY <1>0, <2>3, <3>1, <3>2 DEF Runs, RunningTaps
    <3>3. CASE ~ok
      BY <3>1, <3>3 DEF Runs
    <3> QED
      BY <3>2, <3>3
  <2>5. Stopped' /\ Useless' /\ Listed' /\ Ready'
    BY <2>1 DEF Stopped, Useless, Listed, Ready
  <2>6. Found'
    <3>1. CASE ok
      BY <3>1, <1>0, <2>3 DEF Found, RunningTaps
    <3>2. CASE ~ok
      BY <3>2, <2>3 DEF Found, CheckOver
    <3> QED
      BY <3>1, <3>2
  <2>7. Cleaned'
    <3>1. \A d : IsLeft(d) => d = d0 \/ IsLeft(d)'
      BY <2>1, <1>0, RestOfList DEF IsLeft
    <3>2. phase # "check" => d0 \in RunningTaps
      BY <2>1, <1>0 DEF RunningTaps
    <3> QED
      BY <2>1, <2>3, <3>1, <3>2, <1>0 DEF Cleaned, Loops, Checks
  <2> QED
    BY <2>2, <2>4, <2>5, <2>6, <2>7
<1> QED
  BY <1>1, <1>2

\* The check goes on with another command, and the adapter is as it was.
LEMMA CheckGoesOK ==
  ASSUME TapsIInv, NEW next \in Checks, pc \in Checks, pc # "enable",
         CheckGoes(next), UNCHANGED <<dev, phase, ret, before, stuck>>,
         next = "enable" => dev[d0] = "disabled"
  PROVE  TapsIInv'
<1> USE DEF TapsIInv
<1>1. d0' = d0 /\ pc' = next /\ RunningTaps' = RunningTaps /\ Here' = Here /\ \A d : IsLeft(d)' = IsLeft(d)
  BY DEF CheckGoes, d0, RunningTaps, Here, IsLeft
<1>2. TapsTyped'
  BY DEF TapsTyped, CheckGoes, Checks
<1>3. Runs' /\ Stopped' /\ Useless' /\ Found' /\ Listed' /\ Ready'
  BY <1>1 DEF Runs, Stopped, Useless, Found, Listed, Ready, CheckGoes, Checks
<1>4. Cleaned'
  BY <1>1 DEF Cleaned, CheckGoes, Checks
<1> QED
  BY <1>2, <1>3, <1>4

LEMMA LookOK == ASSUME TapsIInv, Look \/ Status \/ CheckAgain PROVE TapsIInv'
<1> USE DEF Works, Fails
<1>1. CASE Look
  <2>0. pc \in Checks /\ pc # "enable" /\ "files" \in Checks /\ "status" \in Checks
    BY <1>1 DEF Look, Checks
  <2>1. CASE Works /\ dev[d0] \in {"absent", "broken"} /\ CheckOver(FALSE)
    BY <1>1, <2>0, <2>1, CheckOverOK DEF Look
  <2>2. CASE Works /\ CheckGoes(IF pc = "nodes" THEN "files" ELSE "status")
    BY <1>1, <2>0, <2>2, CheckGoesOK DEF Look
  <2>3. CASE Fails({d0}) /\ CheckOver(FALSE)
    BY <1>1, <2>0, <2>3, CheckOverOK DEF Look
  <2> QED
    BY <1>1, <2>1, <2>2, <2>3 DEF Look
<1>2. CASE Status
  <2>0. pc \in Checks /\ pc # "enable" /\ "disable" \in Checks /\ "enable" \in Checks
    BY <1>2 DEF Status, Checks
  <2>1. CASE Works /\ dev[d0] # "running" /\ CheckOver(FALSE)
    BY <1>2, <2>0, <2>1, CheckOverOK DEF Status
  <2>2. CASE Works /\ dev[d0] = "running" /\ CheckGoes("disable")
    BY <1>2, <2>0, <2>2, CheckGoesOK DEF Status
  <2>3. CASE Works /\ dev[d0] = "disabled" /\ CheckGoes("enable")
    BY <1>2, <2>0, <2>3, CheckGoesOK DEF Status
  <2>4. CASE Fails({d0}) /\ CheckOver(FALSE)
    BY <1>2, <2>0, <2>4, CheckOverOK DEF Status
  <2> QED
    BY <1>2, <2>1, <2>2, <2>3, <2>4 DEF Status
<1>3. CASE CheckAgain
  <2>0. pc \in Checks /\ pc # "enable"
    BY <1>3 DEF CheckAgain, Checks
  <2>1. CASE Works /\ CheckOver(dev[d0] = "running")
    <3> DEFINE ok == dev[d0] = "running"
    <3>1. ok \in BOOLEAN /\ CheckOver(ok)
      BY <2>1
    <3> QED
      BY <1>3, <2>0, <2>1, <3>1, CheckOverOK DEF CheckAgain
  <2>2. CASE Fails({d0}) /\ CheckOver(FALSE)
    BY <1>3, <2>0, <2>2, CheckOverOK DEF CheckAgain
  <2> QED
    BY <1>3, <2>1, <2>2 DEF CheckAgain
<1> QED
  BY <1>1, <1>2, <1>3

\* An adapter is stopped, and started again.
LEMMA DisableOK == ASSUME TapsIInv, Disable PROVE TapsIInv'
<1>0. pc = "disable" /\ pc \in Checks /\ pc # "enable"
  BY DEF Disable, Checks
<1>1. CASE Works /\ Present /\ CheckGoes("enable") /\ dev' = [dev EXCEPT ![d0] = "disabled"]
  <2> USE DEF TapsIInv
  <2>0. d0 \in Dev /\ dev \in [Dev -> {"absent", "broken", "disabled", "running"}]
    BY <1>0, RestOfList DEF TapsTyped
  <2>1. pc' = "enable" /\ todo' = todo /\ d0' = d0 /\ dev'[d0] = "disabled" /\ stuck' = stuck
        /\ UNCHANGED <<phase, usable, ret, before, passed>> /\ \A d : IsLeft(d)' = IsLeft(d)
    BY <1>1, <2>0 DEF CheckGoes, d0, Works, Disable, IsLeft
  <2>2. TapsTyped'
    BY <2>1, <2>0, <1>0, <1>1 DEF TapsTyped, Checks
  <2>3. \A d \in Dev : d # d0 => dev'[d] = dev[d]
    BY <1>1, <2>0
  <2>4. /\ \A d \in RunningTaps : d = d0 \/ d \in RunningTaps'
        /\ Here' = Here
    BY <2>0, <2>1, <2>3, <1>1 DEF RunningTaps, Here, Present
  <2>5. Runs' /\ Stopped' /\ Useless' /\ Found' /\ Listed' /\ Ready'
    BY <2>1, <2>4, <1>0 DEF Runs, Stopped, Useless, Found, Listed, Ready
  <2>6. Cleaned'
    <3>1. IsLeft(d0) /\ phase \in Loops
      BY <1>0 DEF IsLeft, d0, TapsTyped
    <3> QED
      BY <2>1, <2>4, <1>0, <3>1 DEF Cleaned, Loops
  <2> QED
    BY <2>2, <2>5, <2>6
<1>2. CASE Works /\ ~Present /\ CheckOver(FALSE) /\ UNCHANGED dev
  BY <1>0, <1>2, CheckOverOK DEF Works, Present, Disable
<1>3. CASE Fails({d0}) /\ CheckOver(FALSE) /\ UNCHANGED dev
  BY <1>0, <1>3, CheckOverOK DEF Fails, Disable
<1> QED
  BY <1>1, <1>2, <1>3 DEF Disable

LEMMA EnableOK == ASSUME TapsIInv, Enable PROVE TapsIInv'
<1>0. pc = "enable" /\ pc \in Checks
  BY DEF Enable, Checks
<1>1. CASE Works /\ Present /\ CheckGoes("again") /\ dev' = [dev EXCEPT ![d0] = EnabledFrom(@)]
  <2> USE DEF TapsIInv
  <2>0. d0 \in Dev /\ dev \in [Dev -> {"absent", "broken", "disabled", "running"}]
    BY <1>0, RestOfList DEF TapsTyped
  <2>1. pc' = "again" /\ todo' = todo /\ d0' = d0 /\ dev'[d0] = "running" /\ stuck' = stuck
        /\ UNCHANGED <<phase, usable, ret, before, passed>> /\ \A d : IsLeft(d)' = IsLeft(d)
    BY <1>1, <2>0 DEF CheckGoes, d0, Works, Enable, EnabledFrom, IsLeft
  <2>2. TapsTyped'
    BY <2>1, <2>0, <1>0, <1>1 DEF TapsTyped, Checks, EnabledFrom
  <2>3. \A d \in Dev : d # d0 => dev'[d] = dev[d]
    BY <1>1, <2>0
  <2>4. /\ RunningTaps' = RunningTaps \cup {d0}
        /\ Here' = Here
    BY <2>0, <2>1, <2>3, <1>1 DEF RunningTaps, Here, Present
  <2>5. Runs' /\ Stopped' /\ Useless' /\ Found' /\ Listed' /\ Ready'
    BY <2>1, <2>4, <1>0 DEF Runs, Stopped, Useless, Found, Listed, Ready
  <2>6. Cleaned'
    BY <2>1, <2>4, <1>0 DEF Cleaned
  <2> QED
    BY <2>2, <2>5, <2>6
<1>2. CASE Works /\ ~Present /\ CheckOver(FALSE) /\ UNCHANGED dev
  <2>1. d0 \in stuck
    BY <1>0, <1>2 DEF Present, TapsIInv, Stopped
  <2> QED
    BY <1>0, <1>2, <2>1, CheckOverOK DEF Works, Enable
<1>3. CASE Fails({d0}) /\ CheckOver(FALSE) /\ UNCHANGED dev
  BY <1>0, <1>3, CheckOverOK DEF Fails, Enable
<1> QED
  BY <1>1, <1>2, <1>3 DEF Enable

LEMMA RemoveOK == ASSUME TapsIInv, RemoveDriver PROVE TapsIInv'
<1> USE DEF TapsIInv
<1>0. /\ pc = "remove" /\ todo # <<>> /\ todo \in Seq(Dev) /\ d0 \in Dev
      /\ dev \in [Dev -> {"absent", "broken", "disabled", "running"}]
      /\ phase \in {"clean", "clean2"}
  BY RestOfList DEF TapsTyped, RemoveDriver, Checks, Loops
<1>1. pc' = "next" /\ todo' = Tail(todo) /\ UNCHANGED <<phase, usable, ret, before, passed>>
  BY DEF RemoveDriver
<1>2. /\ stuck \subseteq stuck' /\ dev' \in [Dev -> {"absent", "broken", "disabled", "running"}]
      /\ \A d \in Dev : d # d0 => dev'[d] = dev[d]
      /\ dev'[d0] = "absent" \/ (d0 \in stuck' /\ dev'[d0] = dev[d0])
  <2>1. CASE Works /\ dev' = [dev EXCEPT ![d0] = "absent"]
    BY <2>1, <1>0 DEF Works
  <2>2. CASE Fails({d0}) /\ UNCHANGED dev
    BY <2>2, <1>0 DEF Fails
  <2> QED
    BY <2>1, <2>2 DEF RemoveDriver
<1>3. /\ \A d \in RunningTaps : d = d0 \/ d \in RunningTaps'
      /\ \A d \in Here' : d \in Here /\ (d = d0 => d \in stuck')
  BY <1>0, <1>2 DEF RunningTaps, Here
<1>4. TapsTyped'
  BY <1>0, <1>1, <1>2, RestOfList DEF TapsTyped, Checks, Loops
<1>5. Runs' /\ Stopped' /\ Useless' /\ Found' /\ Listed' /\ Ready'
  BY <1>0, <1>1, <1>2, <1>3 DEF Runs, Stopped, Useless, Found, Listed, Ready
<1>6. Cleaned'
  <2>1. \A d : IsLeft(d) => d = d0 \/ IsLeft(d)'
    BY <1>0, <1>1, RestOfList DEF IsLeft
  <2> QED
    BY <1>0, <1>1, <1>2, <1>3, <2>1 DEF Cleaned
<1> QED
  BY <1>4, <1>5, <1>6

-----------------------------------------------------------------------------
\* The call begins, lists, goes round and ends.
LEMMA OrdersOK ==
  ASSUME IsFiniteSet(Dev), NEW D \in SUBSET Dev, NEW s \in Orders(D)
  PROVE  /\ s \in Seq(Dev)
         /\ \A d \in D : \E i \in 1..Len(s) : s[i] = d
         /\ s # <<>> => D # {}
<1>1. Cardinality(D) \in Nat
  BY FS_Subset, FS_CardinalityType
<1>2. s \in [1..Cardinality(D) -> D]
  BY DEF Orders
<1>3. s \in Seq(D) /\ Len(s) = Cardinality(D)
  BY <1>1, <1>2, LenProperties
<1>4. s \in Seq(Dev)
  BY <1>3
<1>5. s # <<>> => D # {}
  BY <1>3
<1> QED
  BY <1>3, <1>4, <1>5 DEF Orders

\* Nothing of the adapters changes, and the call is at another place.
LEMMA CallOK == ASSUME TapsIInv, CheckAndSetup \/ CheckNext \/ CallAgain PROVE TapsIInv'
<1> USE DEF TapsIInv
<1>1. CASE CheckAndSetup
  <2>1. RunningTaps' = RunningTaps /\ Here' = Here /\ \A d : IsLeft(d)' = IsLeft(d)
    BY <1>1 DEF CheckAndSetup, SetupReturns, IsLeft, RunningTaps, Here
  <2>2. stuck \subseteq stuck' /\ UNCHANGED <<dev, phase, todo, usable, passed>>
        /\ \/ pc' = "list" /\ before' = RunningTaps /\ UNCHANGED ret
           \/ pc' = "returned" /\ ret' = FALSE /\ UNCHANGED before
    BY <1>1 DEF CheckAndSetup, SetupReturns, Works, Fails
  <2>3. TapsTyped'
    BY <2>2 DEF TapsTyped, Checks
  <2>4. Runs' /\ Stopped' /\ Useless' /\ Found' /\ Listed' /\ Ready'
    BY <1>1, <2>1, <2>2 DEF Runs, Stopped, Useless, Found, Listed, Ready, CheckAndSetup
  <2>5. Cleaned'
    BY <1>1, <2>1, <2>2 DEF Cleaned, CheckAndSetup
  <2> QED
    BY <2>3, <2>4, <2>5
<1>2. CASE CheckNext
  <2>1. RunningTaps' = RunningTaps /\ Here' = Here /\ (\A d : IsLeft(d)' = IsLeft(d)) /\ d0' = d0
    BY <1>2 DEF CheckNext, IsLeft, RunningTaps, Here, d0
  <2>2. TapsTyped'
    BY <1>2 DEF TapsTyped, Checks, CheckNext
  <2>3. Runs' /\ Stopped' /\ Useless' /\ Found' /\ Listed' /\ Ready'
    BY <1>2, <2>1 DEF Runs, Stopped, Useless, Found, Listed, Ready, CheckNext
  <2>4. Cleaned'
    BY <1>2, <2>1 DEF Cleaned, CheckNext
  <2> QED
    BY <2>2, <2>3, <2>4
<1>3. CASE CallAgain
  BY <1>3 DEF CallAgain, TapsTyped, Loops, Checks, Runs, Stopped, Useless, Found, Cleaned,
              Listed, Ready
<1> QED
  BY <1>1, <1>2, <1>3

LEMMA ListOK == ASSUME IsFiniteSet(Dev), TapsIInv, List PROVE TapsIInv'
<1> USE DEF TapsIInv
<1>1. /\ pc = "list" /\ stuck \subseteq stuck' /\ UNCHANGED <<dev, phase, usable, ret, before, passed>>
      /\ pc' = IF phase \in {"left", "final"} THEN "decide" ELSE "next"
      /\ RunningTaps' = RunningTaps /\ Here' = Here
  BY DEF List, Works, Fails, RunningTaps, Here
<1>2. /\ todo' \in Seq(Dev) /\ (todo' # <<>> => Here # {})
      /\ \A d \in Here : d \in stuck' \/ IsLeft(d)'
  <2>1. CASE Works /\ todo' \in Orders(Here)
    <3>1. Here \in SUBSET Dev /\ todo' \in Orders(Here)
      BY <2>1 DEF Here
    <3>2. /\ todo' \in Seq(Dev) /\ (todo' # <<>> => Here # {})
          /\ \A d \in Here : \E i \in 1..Len(todo') : todo'[i] = d
      BY <3>1, OrdersOK
    <3> QED
      BY <3>2 DEF IsLeft
  <2>2. CASE Fails(Here) /\ todo' = <<>>
    BY <2>2 DEF Fails
  <2> QED
    BY <2>1, <2>2 DEF List
<1>3. TapsTyped'
  BY <1>1, <1>2 DEF TapsTyped, Checks, Loops
<1>4. Runs' /\ Stopped' /\ Useless' /\ Found' /\ Listed' /\ Ready'
  BY <1>1, <1>2 DEF Runs, Stopped, Useless, Found, Listed, Ready
<1>5. Cleaned'
  BY <1>1, <1>2 DEF Cleaned
<1> QED
  BY <1>3, <1>4, <1>5

\* A call that returns an answer that is right.
LEMMA ReturnsOK ==
  ASSUME TapsIInv, NEW r \in BOOLEAN, SetupReturns(r), stuck \subseteq stuck', pc # "enable",
         r => RunningTaps # {} \/ stuck # {}
  PROVE  TapsIInv'
<1> USE DEF TapsIInv
<1>1. RunningTaps' = RunningTaps /\ Here' = Here
  BY DEF SetupReturns, RunningTaps, Here
<1>2. TapsTyped'
  BY DEF TapsTyped, SetupReturns, Checks
<1>3. Runs' /\ Stopped' /\ Useless' /\ Found' /\ Listed' /\ Ready'
  BY <1>1 DEF Runs, Stopped, Useless, Found, Listed, Ready, SetupReturns
<1>4. Cleaned'
  BY <1>1 DEF Cleaned, SetupReturns
<1> QED
  BY <1>2, <1>3, <1>4

LEMMA LoopEndsOK == ASSUME TapsIInv, LoopEnds PROVE TapsIInv'
<1>1. CASE phase = "check" /\ AnyUsable /\ SetupReturns(TRUE) /\ UNCHANGED <<fails, stuck>>
  BY <1>1, ReturnsOK DEF LoopEnds, TapsIInv, Found, AnyUsable
<1>2. CASE ~(phase = "check" /\ AnyUsable)
  <2> USE DEF TapsIInv
  <2>0. /\ pc = "next" /\ todo = <<>> /\ phase \in Loops
        /\ phase' = (CASE phase = "check" -> "clean" [] phase = "clean" -> "left"
                       [] phase = "clean2" -> "final")
        /\ pc' = "list" /\ UNCHANGED <<dev, todo, usable, ret, before, passed, stuck>>
    BY <1>2 DEF LoopEnds, TapsTyped
  <2>1. RunningTaps' = RunningTaps /\ Here' = Here /\ \A d : ~IsLeft(d)
    BY <2>0 DEF RunningTaps, Here, IsLeft
  <2>2. phase' \in {"clean", "left", "final"} /\ (phase' # "clean" => phase \in {"clean", "clean2"})
    BY <2>0 DEF Loops
  <2>3. TapsTyped'
    BY <2>0, <2>2 DEF TapsTyped, Checks, Loops
  <2>4. Runs' /\ Stopped' /\ Useless' /\ Found' /\ Listed' /\ Ready'
    BY <2>0, <2>1, <2>2 DEF Runs, Stopped, Useless, Found, Listed, Ready
  <2>5. Cleaned'
    BY <2>0, <2>1, <2>2 DEF Cleaned
  <2> QED
    BY <2>3, <2>4, <2>5
<1> QED
  BY <1>1, <1>2 DEF LoopEnds

LEMMA DecideOK == ASSUME TapsIInv, Decide PROVE TapsIInv'
<1>1. CASE todo # <<>> /\ SetupReturns(TRUE) /\ UNCHANGED <<fails, stuck>>
  <2>1. RunningTaps # {} \/ stuck # {}
    BY <1>1 DEF Decide, TapsIInv, Listed, Cleaned, TapsTyped, Loops
  <2> QED
    BY <1>1, <2>1, ReturnsOK DEF Decide
<1>2. CASE SetupReturns(FALSE) /\ UNCHANGED <<fails, stuck>>
  BY <1>2, ReturnsOK DEF Decide
<1>3. CASE /\ todo = <<>> /\ phase = "left" /\ pc' = "install"
           /\ UNCHANGED <<dev, phase, todo, usable, ret, fails, touches, before, passed, stuck>>
  <2> USE DEF TapsIInv
  <2>1. pc = "decide" /\ RunningTaps' = RunningTaps /\ Here' = Here /\ \A d : IsLeft(d)' = IsLeft(d)
    BY <1>3 DEF Decide, RunningTaps, Here, IsLeft
  <2>2. TapsTyped'
    BY <1>3, <2>1 DEF TapsTyped, Checks
  <2>3. Runs' /\ Stopped' /\ Useless' /\ Found' /\ Listed' /\ Ready' /\ Cleaned'
    BY <1>3, <2>1 DEF Runs, Stopped, Useless, Found, Listed, Ready, Cleaned
  <2> QED
    BY <2>2, <2>3
<1> QED
  BY <1>1, <1>2, <1>3 DEF Decide

LEMMA InstallOK == ASSUME TapsIInv, Install PROVE TapsIInv'
<1>1. CASE Fails({}) /\ SetupReturns(FALSE)
  BY <1>1, ReturnsOK DEF Install, Fails
<1>2. CASE /\ Works /\ pc' = "list" /\ phase' = "clean2"
           /\ \/ \E d \in Dev \ Here, s \in {"broken", "disabled", "running"} :
                   dev' = [dev EXCEPT ![d] = s]
              \/ UNCHANGED dev
           /\ UNCHANGED <<todo, usable, ret, touches, before, passed>>
  <2> USE DEF TapsIInv
  <2>1. /\ dev' \in [Dev -> {"absent", "broken", "disabled", "running"}]
        /\ \A d \in Here : dev'[d] = dev[d]
    BY <1>2 DEF TapsTyped, Here
  <2>2. RunningTaps \subseteq RunningTaps'
    BY <2>1 DEF RunningTaps, Here
  <2>3. TapsTyped'
    BY <1>2, <2>1 DEF TapsTyped, Checks, Loops
  <2>4. Runs' /\ Stopped' /\ Useless' /\ Found' /\ Listed' /\ Ready' /\ Cleaned'
    BY <1>2, <2>2 DEF Runs, Stopped, Useless, Found, Listed, Ready, Cleaned, Install, Works
  <2> QED
    BY <2>3, <2>4
<1> QED
  BY <1>1, <1>2 DEF Install

\* What somebody else changes is stuck.
LEMMA TouchOK == ASSUME TapsIInv, Touch PROVE TapsIInv'
<1> USE DEF TapsIInv
<1>1. PICK d \in Dev, s \in {"absent", "disabled", "running"} :
        s # dev[d] /\ dev' = [dev EXCEPT ![d] = s] /\ stuck' = stuck \cup {d}
  BY DEF Touch
<1>2. /\ dev' \in [Dev -> {"absent", "broken", "disabled", "running"}]
      /\ \A e \in Dev : e # d => dev'[e] = dev[e]
  BY <1>1 DEF TapsTyped
<1>3. /\ UNCHANGED <<pc, phase, todo, usable, ret, before, passed>> /\ d0' = d0
      /\ pc # "returned" /\ \A e : IsLeft(e)' = IsLeft(e)
  BY DEF Touch, d0, IsLeft
<1>4. /\ \A e \in RunningTaps : e \in RunningTaps' \cup stuck'
      /\ \A e \in Here' : e \in Here \/ e \in stuck'
      /\ stuck' # {} /\ stuck \subseteq stuck'
  BY <1>1, <1>2 DEF RunningTaps, Here
<1>5. TapsTyped'
  BY <1>2, <1>3 DEF TapsTyped
<1>6. Runs' /\ Useless' /\ Found' /\ Listed' /\ Ready'
  BY <1>3, <1>4 DEF Runs, Useless, Found, Listed, Ready
<1>7. Stopped'
  <2>1. pc = "enable" => d0 \in Dev
    BY RestOfList DEF TapsTyped, Checks
  <2> QED
    BY <1>1, <1>2, <1>3, <2>1 DEF Stopped
<1>8. Cleaned'
  BY <1>3, <1>4 DEF Cleaned
<1> QED
  BY <1>5, <1>6, <1>7, <1>8

-----------------------------------------------------------------------------
\* TapsSound of the run: an adapter that checkAndSetup says is ready runs, what ran runs
\* again and what works is not removed, unless a command failed for it or somebody
\* changed it; for any adapters and any number of failures.
THEOREM TapsAreSound == ASSUME IsFiniteSet(Dev) PROVE TapsSpec => TapsSound
<1>1. TapsInit => TapsIInv
  BY TapsInitOK
<1>2. TapsIInv /\ [TapsNext]_tapsVars => TapsIInv'
  <2> SUFFICES ASSUME TapsIInv, [TapsNext]_tapsVars PROVE TapsIInv'
    OBVIOUS
  <2>1. CASE UNCHANGED tapsVars
    BY <2>1 DEF tapsVars, TapsIInv, TapsTyped, Runs, Stopped, Useless, Found, Cleaned,
                Listed, Ready, RunningTaps, Here, IsLeft, d0
  <2> QED
    BY <2>1, CallOK, ListOK, LoopEndsOK, DecideOK, InstallOK, LookOK, DisableOK, EnableOK,
       RemoveOK, TouchOK DEF TapsNext
<1>3. TapsIInv => Ready /\ RunsAgain /\ (pc = "remove" => d0 \notin passed)
  BY DEF TapsIInv, Runs, RunsAgain, Useless
<1>4. TapsIInv => [pc = "remove" => d0 \notin passed]_tapsVars
  BY <1>3
<1> QED
  BY <1>1, <1>2, <1>3, <1>4, PTL DEF TapsSpec, TapsSound, KeepsGood

-----------------------------------------------------------------------------
(* HTTP messages.  The message on its way is described by what its reader  *)
(* would make of it: a request on its way to a server is parsed to the one *)
(* the client made, an answer on its way to the one that was served, or to *)
(* "not modified" when the client's copy is good.  The headers are written *)
(* one after another; a lemma says what four groups of them are together,  *)
(* and the others what the two parsers make of what the writers wrote.     *)

\* The data are a body of n units, and the reader knows its length or its coding.
Framed(r, data, n) ==
  /\ r.length = IF r.chunked THEN -1 ELSE n
  /\ data = Body(n, r.chunked)

\* The request r is the one the client made, unless it is refused.
RequestFields == {"bad", "head", "method", "http11", "keep_alive", "length", "chunked", "expect",
                  "since", "extra"}
ReadsAsked(r) ==
  /\ DOMAIN r = RequestFields
  /\ {r.bad, r.head, r.chunked, r.keep_alive} \subseteq BOOLEAN
  /\ r.head = (asked.head /\ ~r.bad)
  /\ r.since = asked.since
  /\ r.method = "HEAD" => r.bad
  /\ r.extra \cap OfRequest = {}
AskedTyped ==
  at # "idle" => asked.head \in BOOLEAN /\ asked.since \in Nat /\ asked.body \in Nat

\* The message on its way to a server is the request, and what was read of it is.
OnItsWay ==
  /\ at = "front" => LET r == ParseRequest(wire)
                     IN ReadsAsked(r) /\ Framed(r, wire.data, asked.body)
  /\ at = "forward" => Framed(request, wire.data, asked.body)
  /\ at = "backend" => LET r == ParseRequest(wire)
                       IN /\ ReadsAsked(r) /\ ~r.bad
                          /\ Framed(r, wire.data, asked.body)
Known ==
  /\ at \notin {"idle", "front"} =>
       /\ ReadsAsked(request)
       /\ request.bad => at \in {"reply", "read", "done"}
  /\ at \in {"handler", "back"} =>
       /\ seen.head = asked.head /\ seen.since = asked.since /\ seen.body = asked.body
       /\ proxied => ~seen.bad /\ seen.keep \in BOOLEAN
  /\ at \in {"forward", "backend", "back"} => proxied
  /\ proxied \in BOOLEAN

\* An answer that can be written: its length is that of its content, unless only its
\* headers were asked for, when a relayed one has none.
AnswerFields == {"status", "http11", "keep_alive", "modified", "length", "chunked", "body",
                 "extra", "raw"}
WellFormed(p, head) ==
  /\ DOMAIN p = AnswerFields
  /\ {p.keep_alive, p.chunked, p.raw} \subseteq BOOLEAN
  /\ p.modified \in Nat /\ p.body \in Nat /\ p.length \in Int /\ p.length >= -1
  /\ p.chunked <=> p.length < 0
  /\ ~head /\ ~p.chunked => p.length = p.body
  /\ p.raw => p.status = 302 /\ p.length = 0 /\ p.body = 0
  /\ p.status = 302 => p.modified = 0 /\ (p.raw \/ "Location" \in p.extra)
Good(since, p) == since # 0 /\ p.modified \in 1..since

\* The answer p is the one that was served, or says that the client's copy is good.
Fits(p, r) ==
  /\ WellFormed(p, r.head)
  /\ p.modified = served.modified
  /\ \/ p.status = served.status /\ (~r.head => p.body = served.body)
     \/ Good(r.since, served) /\ p.status = 304 /\ (~r.head => p.body = 0)
Answers ==
  /\ at \in {"back", "reply", "read", "done"} =>
       /\ WellFormed(served, FALSE)
       /\ served.status = 304 => served.body = 0
  /\ at = "back" => wire = Send(seen, served)
  /\ at \in {"reply", "read"} => /\ Fits(resp, request)
                                 /\ request.bad => ~resp.keep_alive /\ served.modified = 0
  /\ at = "read" => wire = Send(request, resp)

\* What the connections hold.
Clean == {Closed, <<>>}
Emptied ==
  /\ left = [client |-> left.client, backend |-> left.backend]
  /\ {left.client, left.backend} \subseteq Clean
  /\ at \in {"forward", "backend", "handler", "back"} => left.client = <<>>
  /\ at = "reply" /\ ~request.bad => left.client = <<>>
  /\ at \in {"handler", "back"} /\ proxied => left.backend = <<>>
  /\ at = "read" /\ resp.keep_alive => left.client = <<>>

MessagesIInv == /\ AskedTyped /\ OnItsWay /\ Known /\ Answers /\ Emptied
                /\ OneOfEach /\ (at = "done" => SameAnswer)

\* Which headers there are when a header, or headers, are written after others.
LEMMA Headers ==
  ASSUME NEW f, NEW c \in BOOLEAN, NEW name, NEW value
  PROVE  /\ DOMAIN If(c, name, value) = IF c THEN {name} ELSE {}
         /\ c => If(c, name, value)[name] = value
BY DEF If

\* Headers written after others: those there were stay as they are.
LEMMA Joined ==
  ASSUME NEW f, NEW g
  PROVE  /\ DOMAIN (f ++ g) = DOMAIN f \cup DOMAIN g
         /\ \A n \in DOMAIN f : (f ++ g)[n] = f[n]
         /\ \A n \in DOMAIN g \ DOMAIN f : (f ++ g)[n] = g[n]
BY DEF ++

\* Four headers, or groups of headers, of different names, and what they are together.
Apart(a, b, c, d) ==
  /\ \A n \in DOMAIN a : n \notin DOMAIN b /\ n \notin DOMAIN c /\ n \notin DOMAIN d
  /\ \A n \in DOMAIN b : n \notin DOMAIN c /\ n \notin DOMAIN d
  /\ \A n \in DOMAIN c : n \notin DOMAIN d
Together(own, a, b, c, d) ==
  /\ DOMAIN own = DOMAIN a \cup DOMAIN b \cup DOMAIN c \cup DOMAIN d
  /\ \A n \in DOMAIN a : own[n] = a[n]
  /\ \A n \in DOMAIN b : own[n] = b[n]
  /\ \A n \in DOMAIN c : own[n] = c[n]
  /\ \A n \in DOMAIN d : own[n] = d[n]

\* Four groups of headers of different names together are all of them, each with its value.
LEMMA FourJoined ==
  ASSUME NEW a, NEW b, NEW c, NEW d, Apart(a, b, c, d)
  PROVE  Together(a ++ b ++ c ++ d, a, b, c, d)
<1> DEFINE own == a ++ b ++ c ++ d
           u == a ++ b
           v == u ++ c
           w == v ++ d
<1>1. own = w
  OBVIOUS
<1> HIDE DEF own
<1>2. /\ DOMAIN u = DOMAIN a \cup DOMAIN b
      /\ \A n \in DOMAIN a : u[n] = a[n]
      /\ \A n \in DOMAIN b \ DOMAIN a : u[n] = b[n]
  BY ONLY Joined
<1> HIDE DEF u
<1>3. /\ DOMAIN v = DOMAIN u \cup DOMAIN c
      /\ \A n \in DOMAIN u : v[n] = u[n]
      /\ \A n \in DOMAIN c \ DOMAIN u : v[n] = c[n]
  BY ONLY Joined
<1> HIDE DEF v
<1>4. /\ DOMAIN w = DOMAIN v \cup DOMAIN d
      /\ \A n \in DOMAIN v : w[n] = v[n]
      /\ \A n \in DOMAIN d \ DOMAIN v : w[n] = d[n]
  BY ONLY Joined
<1> HIDE DEF w
<1>5. \A n \in DOMAIN a : n \in DOMAIN u /\ n \in DOMAIN v
  BY <1>2, <1>3
<1>6. \A n \in DOMAIN b : n \in DOMAIN u /\ n \in DOMAIN v /\ n \notin DOMAIN a
  BY <1>2, <1>3 DEF Apart
<1>7. \A n \in DOMAIN c : n \in DOMAIN v /\ n \notin DOMAIN u
  BY <1>2, <1>3 DEF Apart
<1>8. \A n \in DOMAIN d : n \notin DOMAIN v
  BY <1>2, <1>3 DEF Apart
<1>9. DOMAIN own = DOMAIN a \cup DOMAIN b \cup DOMAIN c \cup DOMAIN d
  BY <1>1, <1>2, <1>3, <1>4
<1>10. \A n \in DOMAIN a : own[n] = a[n]
  BY <1>1, <1>2, <1>3, <1>4, <1>5
<1>11. \A n \in DOMAIN b : own[n] = b[n]
  BY <1>1, <1>2, <1>3, <1>4, <1>6
<1>12. \A n \in DOMAIN c : own[n] = c[n]
  BY <1>1, <1>3, <1>4, <1>7
<1>13. \A n \in DOMAIN d : own[n] = d[n]
  BY <1>1, <1>4, <1>8
<1> QED
  BY <1>9, <1>10, <1>11, <1>12, <1>13 DEF own, Together

\* A body of n units, with the end of the chunked coding or not.
LEMMA BodyUnits ==
  ASSUME NEW n \in Nat, NEW chunked \in BOOLEAN
  PROVE  /\ Body(n, chunked) \in Seq({Unit, End})
         /\ Len(Body(n, chunked)) = IF chunked THEN n + 1 ELSE n
         /\ chunked => Body(n, chunked)[n + 1] = End
<1> DEFINE T == {Unit, End}
           u == [i \in 1..n |-> Unit]
<1>1. u \in Seq(T) /\ Len(u) = n
  OBVIOUS
<1>2. End \in T
  OBVIOUS
<1>3. CASE chunked
  <2>1. Body(n, chunked) = u \o <<End>>
    BY <1>3 DEF Body
  <2> HIDE DEF u, T
  <2> DEFINE x == End
  <2>3. x \in T
    BY <1>2
  <2> HIDE DEF x
  <2>2. u \o <<x>> \in Seq(T) /\ Len(u \o <<x>>) = n + 1 /\ (u \o <<x>>)[n + 1] = x
    BY <1>1, <2>3
  <2> QED
    BY <1>3, <2>1, <2>2 DEF T, x
<1>4. CASE ~chunked
  <2>1. Body(n, chunked) = u \o <<>>
    BY <1>4 DEF Body
  <2> HIDE DEF u, T
  <2>2. u \o <<>> = u
    BY <1>1
  <2> QED
    BY <1>1, <1>4, <2>1, <2>2 DEF T
<1> QED
  BY <1>3, <1>4

\* The headers of an answer.
LEMMA AnswerHeaders ==
  ASSUME NEW p, p.length \in Int, NEW own, own = ResponseHeaders(p).own,
         NEW cl, cl = ((p.length # 0 \/ ~MustNotHaveBody(p.status)) /\ p.length >= 0)
  PROVE  /\ DOMAIN own \subseteq {"Connection", "Last-Modified", "Content-Length", "Transfer-Encoding"}
         /\ "Connection" \in DOMAIN own
         /\ own["Connection"] = IF p.keep_alive THEN "keep-alive" ELSE "close"
         /\ "Last-Modified" \in DOMAIN own <=> p.modified # 0
         /\ p.modified # 0 => own["Last-Modified"] = p.modified
         /\ "Content-Length" \in DOMAIN own <=> cl
         /\ cl => own["Content-Length"] = p.length
         /\ "Transfer-Encoding" \in DOMAIN own <=> p.length < 0
         /\ p.length < 0 => own["Transfer-Encoding"] = "chunked"
<1> DEFINE v == IF p.keep_alive THEN "keep-alive" ELSE "close"
           te == p.length < 0
           lm == p.modified # 0
           hc == If(TRUE, "Connection", v)
           hm == If(lm, "Last-Modified", p.modified)
           hl == If(cl, "Content-Length", p.length)
           ht == If(te, "Transfer-Encoding", "chunked")
           t == hc ++ hm ++ hl ++ ht
<1>1. own = t
  BY DEF ResponseHeaders
<1>2. DOMAIN hc = {"Connection"} /\ hc["Connection"] = v
  BY DEF If
<1>3. DOMAIN hm = (IF lm THEN {"Last-Modified"} ELSE {}) /\ (lm => hm["Last-Modified"] = p.modified)
  BY DEF If
<1>4. DOMAIN hl = (IF cl THEN {"Content-Length"} ELSE {}) /\ (cl => hl["Content-Length"] = p.length)
  BY DEF If
<1>5. DOMAIN ht = (IF te THEN {"Transfer-Encoding"} ELSE {}) /\ (te => ht["Transfer-Encoding"] = "chunked")
  BY DEF If
<1> HIDE DEF hc, hm, hl, ht, v
<1>6. Apart(hc, hm, hl, ht)
  BY ONLY <1>2, <1>3, <1>4, <1>5 DEF Apart
<1>7. Together(t, hc, hm, hl, ht)
  BY ONLY <1>6, FourJoined
<1> HIDE DEF t
<1> QED
  BY ONLY <1>1, <1>2, <1>3, <1>4, <1>5, <1>7 DEF v, Together

\* The headers of a request that the server passes on.
LEMMA RequestOwn ==
  ASSUME NEW r, r.length \in Int, NEW own, own = RequestHeaders(r).own
  PROVE  /\ "Host" \in DOMAIN own /\ "Connection" \in DOMAIN own
         /\ own["Connection"] = IF r.keep_alive THEN "keep-alive" ELSE "close"
         /\ "If-Modified-Since" \in DOMAIN own <=> r.since # 0
         /\ r.since # 0 => own["If-Modified-Since"] = r.since
         /\ "Content-Length" \in DOMAIN own <=> r.length > 0
         /\ r.length > 0 => own["Content-Length"] = r.length
         /\ "Transfer-Encoding" \in DOMAIN own <=> r.length < 0
         /\ r.length < 0 => own["Transfer-Encoding"] = "chunked"
         /\ DOMAIN own \subseteq OfRequest
<1> DEFINE v == IF r.keep_alive THEN "keep-alive" ELSE "close"
           e == r.expect
           s == r.since # 0
           cl == r.length > 0
           te == r.length < 0
           hh == If(TRUE, "Host", "host")
           hc == If(TRUE, "Connection", v)
           hs == If(s, "If-Modified-Since", r.since)
           he == If(e, "Expect", "100-continue")
           hl == If(cl, "Content-Length", r.length)
           ht == If(te, "Transfer-Encoding", "chunked")
           hf == hl ++ ht
           u == hh ++ hc ++ hs ++ he
           t == u ++ hf
<1>1. own = t
  BY DEF RequestHeaders, Framing
<1>2. DOMAIN hh = {"Host"}
  BY DEF If
<1>3. DOMAIN hc = {"Connection"} /\ hc["Connection"] = v
  BY DEF If
<1>4. DOMAIN hs = (IF s THEN {"If-Modified-Since"} ELSE {}) /\ (s => hs["If-Modified-Since"] = r.since)
  BY DEF If
<1>5. DOMAIN he \subseteq {"Expect"}
  BY DEF If
<1>6. DOMAIN hl = (IF cl THEN {"Content-Length"} ELSE {}) /\ (cl => hl["Content-Length"] = r.length)
  BY DEF If
<1>7. DOMAIN ht = (IF te THEN {"Transfer-Encoding"} ELSE {}) /\ (te => ht["Transfer-Encoding"] = "chunked")
  BY DEF If
<1> HIDE DEF hh, hc, hs, he, hl, ht, v
<1>8. /\ DOMAIN hf = DOMAIN hl \cup DOMAIN ht
      /\ \A n \in DOMAIN hl : hf[n] = hl[n]
      /\ \A n \in DOMAIN ht \ DOMAIN hl : hf[n] = ht[n]
  BY ONLY Joined
<1> HIDE DEF hf
<1>9. Apart(hh, hc, hs, he)
  BY ONLY <1>2, <1>3, <1>4, <1>5 DEF Apart
<1>10. Together(u, hh, hc, hs, he)
  BY ONLY <1>9, FourJoined
<1> HIDE DEF u
<1>11. /\ DOMAIN t = DOMAIN u \cup DOMAIN hf
       /\ \A n \in DOMAIN u : t[n] = u[n]
       /\ \A n \in DOMAIN hf \ DOMAIN u : t[n] = hf[n]
  BY ONLY Joined
<1> HIDE DEF t
<1>12. /\ DOMAIN own = {"Host", "Connection"} \cup (IF s THEN {"If-Modified-Since"} ELSE {})
                       \cup DOMAIN he \cup (IF cl THEN {"Content-Length"} ELSE {})
                       \cup (IF te THEN {"Transfer-Encoding"} ELSE {})
  BY ONLY <1>1, <1>2, <1>3, <1>4, <1>6, <1>7, <1>8, <1>10, <1>11 DEF Together
<1>13. own["Connection"] = v
  BY ONLY <1>1, <1>3, <1>10, <1>11 DEF Together
<1>14. s => own["If-Modified-Since"] = r.since
  BY ONLY <1>1, <1>4, <1>10, <1>11 DEF Together
<1>15. cl => own["Content-Length"] = r.length
  BY ONLY <1>1, <1>2, <1>3, <1>4, <1>5, <1>6, <1>8, <1>10, <1>11 DEF Together
<1>16. te => own["Transfer-Encoding"] = "chunked"
  BY ONLY <1>1, <1>2, <1>3, <1>4, <1>5, <1>6, <1>7, <1>8, <1>10, <1>11 DEF Together
<1> QED
  BY <1>5, <1>12, <1>13, <1>14, <1>15, <1>16 DEF OfRequest, v

\* The headers of the client's request.
LEMMA ClientOwn ==
  ASSUME NEW c, c.host \in BOOLEAN, c.n \in Nat, NEW own, own = ClientRequest(c).own
  PROVE  /\ "Host" \in DOMAIN own <=> c.host
         /\ "Connection" \in DOMAIN own => own["Connection"] = c.conn
         /\ "If-Modified-Since" \in DOMAIN own <=> c.since # 0
         /\ c.since # 0 => own["If-Modified-Since"] = c.since
         /\ "Content-Length" \in DOMAIN own <=> (c.n > 0 /\ c.coding # "chunked")
         /\ c.n > 0 /\ c.coding # "chunked" => own["Content-Length"] = c.n
         /\ "Transfer-Encoding" \in DOMAIN own <=> c.coding # "length"
         /\ c.coding # "length" => own["Transfer-Encoding"] = "chunked"
         /\ DOMAIN own \subseteq OfRequest
<1> DEFINE k == c.conn # "none"
           s == c.since # 0
           sent == c.n > 0 /\ c.coding # "chunked"
           te == c.coding # "length"
           hh == If(c.host, "Host", "host")
           hc == If(k, "Connection", c.conn)
           hs == If(s, "If-Modified-Since", c.since)
           hl == If(sent, "Content-Length", c.n)
           ht == If(te, "Transfer-Encoding", "chunked")
           u == hh ++ hc ++ hs ++ hl
           t == u ++ ht
<1>1. own = t
  BY DEF ClientRequest
<1>2. DOMAIN hh = IF c.host THEN {"Host"} ELSE {}
  BY DEF If
<1>3. DOMAIN hc = (IF k THEN {"Connection"} ELSE {}) /\ (k => hc["Connection"] = c.conn)
  BY DEF If
<1>4. DOMAIN hs = (IF s THEN {"If-Modified-Since"} ELSE {}) /\ (s => hs["If-Modified-Since"] = c.since)
  BY DEF If
<1>5. DOMAIN hl = (IF sent THEN {"Content-Length"} ELSE {}) /\ (sent => hl["Content-Length"] = c.n)
  BY DEF If
<1>6. DOMAIN ht = (IF te THEN {"Transfer-Encoding"} ELSE {}) /\ (te => ht["Transfer-Encoding"] = "chunked")
  BY DEF If
<1> HIDE DEF hh, hc, hs, hl, ht
<1>7. Apart(hh, hc, hs, hl)
  BY ONLY <1>2, <1>3, <1>4, <1>5 DEF Apart
<1>8. Together(u, hh, hc, hs, hl)
  BY ONLY <1>7, FourJoined
<1> HIDE DEF u
<1>9. /\ DOMAIN t = DOMAIN u \cup DOMAIN ht
      /\ \A m \in DOMAIN u : t[m] = u[m]
      /\ \A m \in DOMAIN ht \ DOMAIN u : t[m] = ht[m]
  BY ONLY Joined
<1> HIDE DEF t
<1>10. /\ DOMAIN own = (IF c.host THEN {"Host"} ELSE {}) \cup (IF k THEN {"Connection"} ELSE {})
                       \cup (IF s THEN {"If-Modified-Since"} ELSE {})
                       \cup (IF sent THEN {"Content-Length"} ELSE {})
                       \cup (IF te THEN {"Transfer-Encoding"} ELSE {})
  BY ONLY <1>1, <1>2, <1>3, <1>4, <1>5, <1>6, <1>8, <1>9 DEF Together
<1>11. k => own["Connection"] = c.conn
  BY ONLY <1>1, <1>3, <1>8, <1>9 DEF Together
<1>12. s => own["If-Modified-Since"] = c.since
  BY ONLY <1>1, <1>4, <1>8, <1>9 DEF Together
<1>13. sent => own["Content-Length"] = c.n
  BY ONLY <1>1, <1>5, <1>8, <1>9 DEF Together
<1>14. te => own["Transfer-Encoding"] = "chunked"
  BY ONLY <1>1, <1>2, <1>3, <1>4, <1>5, <1>6, <1>8, <1>9 DEF Together
<1> QED
  BY ONLY <1>10, <1>11, <1>12, <1>13, <1>14 DEF OfRequest

\* The request the server reads is the one the client wrote; it is refused without "Host".
LEMMA ReadsClient ==
  ASSUME NEW c \in ClientChoices, c.n \in Nat, c.n = 0 => c.coding # "both",
         NEW w, w = ClientRequest(c),
         NEW r, r = ParseRequest(w)
  PROVE  /\ DOMAIN r = RequestFields
         /\ {r.bad, r.head, r.chunked, r.keep_alive} \subseteq BOOLEAN
         /\ r.head = ((c.method = "HEAD") /\ ~r.bad)
         /\ r.since = c.since
         /\ r.method = "HEAD" => r.bad
         /\ r.extra \cap OfRequest = {}
         /\ Framed(r, w.data, c.n)
         /\ w.extra \cap DOMAIN w.own = {}
<1>1. /\ c.host \in BOOLEAN /\ c.http11 \in BOOLEAN /\ c.since \in Nat
      /\ c.extra \in {{}, {"X", "Server"}}
  BY DEF ClientChoices
<1> DEFINE sent == c.n > 0 /\ c.coding # "chunked"
           own == ClientRequest(c).own
<1>2. own = ClientRequest(c).own
  OBVIOUS
<1>3. /\ w.own = own /\ w.method = c.method /\ w.http11 = c.http11 /\ w.extra = c.extra
      /\ w.data = Body(c.n, c.coding # "length")
  BY DEF ClientRequest
<1> HIDE DEF own
<1>4. /\ "Host" \in DOMAIN own <=> c.host
      /\ "Connection" \in DOMAIN own => own["Connection"] = c.conn
      /\ "If-Modified-Since" \in DOMAIN own <=> c.since # 0
      /\ c.since # 0 => own["If-Modified-Since"] = c.since
      /\ "Content-Length" \in DOMAIN own <=> sent
      /\ sent => own["Content-Length"] = c.n
      /\ "Transfer-Encoding" \in DOMAIN own <=> c.coding # "length"
      /\ c.coding # "length" => own["Transfer-Encoding"] = "chunked"
      /\ DOMAIN own \subseteq OfRequest
  BY <1>1, <1>2, ClientOwn
<1>5. /\ DOMAIN r = RequestFields /\ r.bad = ~c.host /\ r.head = (c.method = "HEAD" /\ c.host)
      /\ r.method = IF r.head THEN "GET" ELSE c.method
      /\ r.keep_alive = IF "Connection" \in DOMAIN own THEN own["Connection"] = "keep-alive" ELSE c.http11
      /\ r.extra = c.extra \ OfRequest
  BY <1>1, <1>4, <1>3 DEF ParseRequest, RequestFields
<1>6. r.since = c.since
  BY <1>1, <1>4, <1>3 DEF ParseRequest, Get
<1>7. r.chunked = (c.coding # "length")
  BY <1>1, <1>4, <1>3 DEF ParseRequest, Get
<1>8. r.length = IF c.coding # "length" THEN -1 ELSE c.n
  BY <1>1, <1>4, <1>3 DEF ParseRequest, Get, LengthOf
<1>9. w.extra \cap DOMAIN w.own = {}
  BY <1>1, <1>4, <1>3 DEF OfRequest
<1>10. Framed(r, w.data, c.n)
  BY <1>3, <1>7, <1>8 DEF Framed
<1>11. r.extra \cap OfRequest = {}
  BY <1>5
<1>12. {r.bad, r.head, r.chunked, r.keep_alive} \subseteq BOOLEAN
  BY <1>1, <1>5, <1>7
<1> QED
  BY <1>5, <1>6, <1>9, <1>10, <1>11, <1>12

Passed(s, data) == [RequestHeaders(ProxyRequest(s)) EXCEPT !.data = data]

\* The request the second server reads is the one that the first one passed on.
LEMMA ReadsProxy ==
  ASSUME NEW s, DOMAIN s = RequestFields, {s.bad, s.head, s.chunked} \subseteq BOOLEAN, ~s.bad,
         s.since \in Nat, s.method # "HEAD", s.extra \cap OfRequest = {},
         s.length \in Int, s.chunked <=> s.length < 0, s.length >= -1,
         NEW data, NEW w, w = Passed(s, data),
         NEW r, r = ParseRequest(w)
  PROVE  /\ DOMAIN r = RequestFields
         /\ {r.bad, r.head, r.chunked, r.keep_alive} \subseteq BOOLEAN
         /\ r.head = s.head /\ ~r.bad /\ r.since = s.since /\ r.method # "HEAD"
         /\ r.extra \cap OfRequest = {}
         /\ r.chunked = s.chunked /\ r.length = s.length
         /\ w.data = data /\ w.extra \cap DOMAIN w.own = {}
<1> DEFINE p == ProxyRequest(s)
           own == RequestHeaders(p).own
<1>1. /\ p.length = s.length /\ p.keep_alive = TRUE /\ p.since = s.since /\ p.head = s.head
      /\ p.method = s.method /\ p.extra = s.extra /\ p.http11 = TRUE
  BY DEF ProxyRequest, RequestFields
<1>2. p.length \in Int
  BY <1>1
<1> HIDE DEF p
<1>3. /\ w.own = own /\ w.method = (IF p.head THEN "HEAD" ELSE p.method) /\ w.extra = p.extra
      /\ w.data = data
  BY DEF RequestHeaders, Passed, p
<1> HIDE DEF own
<1>4. own = RequestHeaders(p).own
  BY DEF own
<1>5. /\ "Host" \in DOMAIN own /\ "Connection" \in DOMAIN own
      /\ own["Connection"] = IF p.keep_alive THEN "keep-alive" ELSE "close"
      /\ "If-Modified-Since" \in DOMAIN own <=> p.since # 0
      /\ p.since # 0 => own["If-Modified-Since"] = p.since
      /\ "Content-Length" \in DOMAIN own <=> p.length > 0
      /\ p.length > 0 => own["Content-Length"] = p.length
      /\ "Transfer-Encoding" \in DOMAIN own <=> p.length < 0
      /\ p.length < 0 => own["Transfer-Encoding"] = "chunked"
      /\ DOMAIN own \subseteq OfRequest
  BY ONLY <1>2, <1>4, RequestOwn
<1>6. /\ DOMAIN r = RequestFields /\ ~r.bad /\ r.bad \in BOOLEAN
      /\ r.head = s.head /\ r.method # "HEAD" /\ r.keep_alive = TRUE
      /\ r.extra \cap OfRequest = {}
  BY <1>1, <1>3, <1>5 DEF ParseRequest, RequestFields
<1>7. r.since = s.since
  BY <1>1, <1>3, <1>5 DEF ParseRequest, Get
<1>8. r.chunked = s.chunked
  BY <1>1, <1>3, <1>5 DEF ParseRequest, Get
<1>9. r.length = s.length
  BY <1>1, <1>3, <1>5 DEF ParseRequest, Get, LengthOf
<1>10. w.extra \cap DOMAIN w.own = {}
  BY <1>1, <1>3, <1>5
<1> QED
  BY <1>3, <1>6, <1>7, <1>8, <1>9, <1>10

\* A request that is framed has all its body read, and nothing is left of it.
LEMMA FramedRead ==
  ASSUME NEW r, NEW data, NEW n \in Nat, r.chunked \in BOOLEAN, Framed(r, data, n)
  PROVE  BodyRead(r, data) = n /\ [i \in 1..Unread(r, data) |-> Unit] = <<>>
<1>1. r.length = (IF r.chunked THEN -1 ELSE n) /\ Len(data) = (IF r.chunked THEN n + 1 ELSE n)
  BY BodyUnits DEF Framed
<1>2. BodyRead(r, data) = n
  BY <1>1 DEF BodyRead
<1>3. Unread(r, data) = 0
  BY <1>1, <1>2 DEF Unread
<1>4. [i \in 1..0 |-> Unit] = <<>>
  OBVIOUS
<1> QED
  BY <1>2, <1>3, <1>4

\* What the other end makes of the headers of an answer: its length too, except when it
\* has none and the connection is closed.
ReadAs(q, p) ==
  /\ q.status = p.status /\ q.modified = p.modified
  /\ q.keep_alive = p.keep_alive /\ q.chunked = p.chunked
  /\ \/ q.length = p.length
     \/ p.length = 0 /\ q.length = -1 /\ ~p.keep_alive
  /\ p.status = 302 => "Location" \in q.extra

Written(p, data) ==
  [IF p.raw THEN RedirectHeaders(p) ELSE ResponseHeaders(p) EXCEPT !.data = data]

\* The headers of an answer are read as they were written.
LEMMA ReadsWritten ==
  ASSUME NEW h \in BOOLEAN, NEW p, WellFormed(p, h), NEW data,
         NEW w, w = Written(p, data),
         NEW q, q = ParseResponse(w)
  PROVE  w.data = data /\ w.extra \cap DOMAIN w.own = {} /\ ReadAs(q, p)
<1>1. /\ p.raw \in BOOLEAN /\ p.keep_alive \in BOOLEAN /\ p.chunked \in BOOLEAN
      /\ p.length \in Int /\ p.length >= -1
      /\ p.chunked <=> p.length < 0
      /\ p.raw => p.status = 302 /\ p.length = 0
      /\ p.status = 302 => p.modified = 0 /\ (p.raw \/ "Location" \in p.extra)
  BY DEF WellFormed
<1>2. CASE p.raw
  <2> DEFINE own == RedirectHeaders(p).own
             v == IF p.keep_alive THEN "keep-alive" ELSE "close"
             hc == If(TRUE, "Connection", v)
             hl == If(TRUE, "Content-Length", 0)
  <2>1. w.own = own /\ w.extra = {"Location"} /\ w.status = p.status /\ w.data = data
    BY <1>2 DEF RedirectHeaders, Written
  <2>2. own = hc ++ hl
    BY DEF RedirectHeaders
  <2>3. DOMAIN hc = {"Connection"} /\ hc["Connection"] = v
    BY DEF If
  <2>4. DOMAIN hl = {"Content-Length"} /\ hl["Content-Length"] = 0
    BY DEF If
  <2> HIDE DEF own, hc, hl
  <2>5. /\ DOMAIN (hc ++ hl) = DOMAIN hc \cup DOMAIN hl
        /\ \A n \in DOMAIN hc : (hc ++ hl)[n] = hc[n]
        /\ \A n \in DOMAIN hl \ DOMAIN hc : (hc ++ hl)[n] = hl[n]
    BY ONLY Joined
  <2>6. DOMAIN own = {"Connection", "Content-Length"}
    BY ONLY <2>2, <2>3, <2>4, <2>5
  <2>7. own["Connection"] = v /\ own["Content-Length"] = 0
    BY ONLY <2>2, <2>3, <2>4, <2>5
  <2>8. q.status = p.status /\ q.keep_alive = p.keep_alive /\ "Location" \in q.extra
    BY <1>1, <2>1, <2>6, <2>7 DEF ParseResponse, OfResponse
  <2>9. q.modified = p.modified
    BY <1>1, <1>2, <2>1, <2>6 DEF ParseResponse, Get
  <2>10. q.chunked = p.chunked
    BY <1>1, <1>2, <2>1, <2>6 DEF ParseResponse, Get
  <2>11. q.length = p.length
    BY <1>1, <1>2, <2>1, <2>6, <2>7 DEF ParseResponse, Get
  <2>12. w.extra \cap DOMAIN w.own = {}
    BY <2>1, <2>6
  <2> QED
    BY <2>1, <2>8, <2>9, <2>10, <2>11, <2>12 DEF ReadAs
<1>3. CASE ~p.raw
  <2> DEFINE own == ResponseHeaders(p).own
             cl == (p.length # 0 \/ ~MustNotHaveBody(p.status)) /\ p.length >= 0
  <2>1. w.own = own /\ w.extra = Filtered(p.extra) /\ w.status = p.status /\ w.data = data
    BY <1>3 DEF ResponseHeaders, Written
  <2>2. own = ResponseHeaders(p).own
    OBVIOUS
  <2> HIDE DEF own
  <2>3. /\ DOMAIN own \subseteq {"Connection", "Last-Modified", "Content-Length", "Transfer-Encoding"}
        /\ "Connection" \in DOMAIN own
        /\ own["Connection"] = IF p.keep_alive THEN "keep-alive" ELSE "close"
        /\ "Last-Modified" \in DOMAIN own <=> p.modified # 0
        /\ p.modified # 0 => own["Last-Modified"] = p.modified
        /\ "Content-Length" \in DOMAIN own <=> cl
        /\ cl => own["Content-Length"] = p.length
        /\ "Transfer-Encoding" \in DOMAIN own <=> p.length < 0
        /\ p.length < 0 => own["Transfer-Encoding"] = "chunked"
    BY <1>1, <2>2, AnswerHeaders, ZenonT(30)
  <2>8. /\ q.status = p.status /\ q.keep_alive = p.keep_alive
        /\ p.status = 302 => "Location" \in q.extra
    BY <1>1, <1>3, <2>1, <2>3 DEF ParseResponse, OfResponse, Filtered
  <2>9. q.modified = p.modified
    BY <1>1, <2>1, <2>3 DEF ParseResponse, Get
  <2>10. q.chunked = p.chunked
    BY <1>1, <2>1, <2>3 DEF ParseResponse, Get
  <2>11. q.length = p.length \/ (p.length = 0 /\ q.length = -1 /\ ~p.keep_alive)
    <3>1. q.length = IF q.chunked THEN -1
                     ELSE IF "Content-Length" \in DOMAIN own THEN own["Content-Length"]
                     ELSE IF q.keep_alive THEN 0 ELSE -1
      BY <2>1 DEF ParseResponse, Unspecified
    <3>2. CASE p.length < 0
      BY <1>1, <2>3, <2>10, <3>1, <3>2 DEF ParseResponse, Get
    <3>3. CASE cl
      BY <1>1, <2>3, <2>10, <3>1, <3>3
    <3>4. CASE ~cl /\ p.length >= 0
      BY <1>1, <2>3, <2>8, <2>10, <3>1, <3>4
    <3> QED
      BY <1>1, <3>2, <3>3, <3>4
  <2>12. w.extra \cap DOMAIN w.own = {}
    BY <2>1, <2>3 DEF Filtered
  <2> QED
    BY <2>1, <2>8, <2>9, <2>10, <2>11, <2>12 DEF ReadAs
<1> QED
  BY <1>1, <1>2, <1>3

\* What the other end makes of the data behind them.
LEMMA ReadsData ==
  ASSUME NEW h \in BOOLEAN, NEW p, WellFormed(p, h), NEW q, ReadAs(q, p),
         NEW data, data = IF p.length # 0 /\ ~h THEN Body(p.body, p.chunked) ELSE <<>>
  PROVE  /\ DataUnits(q, data) = IF h THEN 0 ELSE p.body
         /\ ~h => Complete(q, data)
         /\ \A k \in LeftBehind(q, data) : k = Closed \/ (k = <<>> /\ q.keep_alive)
         /\ ~h /\ q.length >= 0 => q.length = p.body
<1>1. /\ p.keep_alive \in BOOLEAN /\ p.chunked \in BOOLEAN /\ p.length \in Int /\ p.body \in Nat
      /\ p.chunked <=> p.length < 0
      /\ ~h /\ ~p.chunked => p.length = p.body
  BY DEF WellFormed
<1>2. /\ q.keep_alive = p.keep_alive /\ q.chunked = p.chunked
      /\ q.length = p.length \/ (p.length = 0 /\ q.length = -1 /\ ~p.keep_alive)
  BY DEF ReadAs
<1>3. CASE h \/ p.length = 0
  <2>1. data = <<>> /\ Len(data) = 0
    BY <1>3
  <2>2. Pieces(q, data) = 0
    BY <1>1, <1>2, <2>1 DEF Pieces
  <2>3. ~(q.chunked /\ Complete(q, data))
    BY <2>1 DEF Complete
  <2>4. DataUnits(q, data) = 0
    BY <2>2, <2>3 DEF DataUnits
  <2>5. ~h => p.body = 0 /\ ~p.chunked
    BY <1>1, <1>3
  <2>6. ~h => Complete(q, data)
    BY <1>1, <1>2, <1>3, <2>1, <2>5 DEF Complete
  <2>7. SubSeq(data, Pieces(q, data) + 1, Len(data)) = <<>>
    BY <2>1, <2>2
  <2>8. \A k \in LeftBehind(q, data) : k = Closed \/ (k = <<>> /\ q.keep_alive)
    BY <2>7 DEF LeftBehind, Keeps
  <2> QED
    BY <1>1, <1>2, <1>3, <2>4, <2>5, <2>6, <2>8
<1>4. CASE ~h /\ p.length # 0
  <2>1. data = Body(p.body, p.chunked)
    BY <1>4
  <2>2. /\ data \in Seq({Unit, End}) /\ Len(data) = (IF p.chunked THEN p.body + 1 ELSE p.body)
        /\ p.chunked => data[p.body + 1] = End
    BY <1>1, <2>1, BodyUnits, ZenonT(30)
  <2>3. q.length = p.length
    BY <1>2, <1>4
  <2>4. Pieces(q, data) = Len(data)
    BY <1>1, <1>4, <2>2, <2>3 DEF Pieces
  <2>5. Complete(q, data)
    <3>1. CASE p.chunked
      <4>1. Len(data) = p.body + 1 /\ data[Len(data)] = End
        BY <2>2, <3>1
      <4>2. data # <<>>
        BY <1>1, <4>1
      <4> QED
        BY <1>2, <3>1, <4>1, <4>2 DEF Complete
    <3>2. CASE ~p.chunked
      BY <1>1, <1>2, <1>4, <2>2, <2>3, <3>2 DEF Complete
    <3> QED
      BY <1>1, <3>1, <3>2
  <2>6. DataUnits(q, data) = p.body
    BY <1>1, <1>2, <2>2, <2>4, <2>5 DEF DataUnits
  <2>7. SubSeq(data, Pieces(q, data) + 1, Len(data)) = <<>>
    BY <2>2, <2>4
  <2>8. \A k \in LeftBehind(q, data) : k = Closed \/ (k = <<>> /\ q.keep_alive)
    BY <2>7 DEF LeftBehind, Keeps
  <2> QED
    BY <1>1, <1>4, <2>3, <2>5, <2>6, <2>8
<1> QED
  BY <1>3, <1>4

\* What is not sent again when the client has it.
LEMMA IfModifiedAnswer ==
  ASSUME NEW r, r.head \in BOOLEAN, r.since \in Nat, NEW p, WellFormed(p, r.head),
         NEW pp, pp = IfModified(r, p)
  PROVE  /\ WellFormed(pp, r.head)
         /\ pp.modified = p.modified /\ pp.keep_alive = p.keep_alive
         /\ IF Good(r.since, p) /\ p.status # 304 THEN pp.status = 304 /\ pp.body = 0 ELSE pp = p
<1>1. CASE Good(r.since, p) /\ p.status # 304
  <2>1. pp = [p EXCEPT !.status = 304, !.length = 0, !.chunked = FALSE, !.body = 0]
    BY <1>1 DEF IfModified, Good, WellFormed
  <2>2. ~p.raw
    BY <1>1 DEF Good, WellFormed
  <2>3. /\ DOMAIN pp = AnswerFields /\ pp.status = 304 /\ pp.length = 0 /\ pp.chunked = FALSE
        /\ pp.body = 0 /\ pp.keep_alive = p.keep_alive /\ pp.raw = p.raw
        /\ pp.modified = p.modified
    BY <2>1 DEF WellFormed, AnswerFields
  <2>4. {pp.keep_alive, pp.chunked, pp.raw} \subseteq BOOLEAN /\ pp.modified \in Nat
    <3>1. p.keep_alive \in BOOLEAN /\ p.raw \in BOOLEAN /\ p.modified \in Nat
      BY DEF WellFormed
    <3> QED
      BY <2>3, <3>1
  <2> QED
    BY <1>1, <2>2, <2>3, <2>4 DEF WellFormed
<1>2. CASE ~(Good(r.since, p) /\ p.status # 304)
  <2>1. pp = p
    BY <1>2 DEF IfModified, Good, WellFormed
  <2> QED
    BY <1>2, <2>1
<1> QED
  BY <1>1, <1>2

\* An answer that is written and read: the other end has the answer and its data, or that
\* its copy is good, and what it leaves in the connection is nothing.
Conveyed(r, p, q, data) ==
  /\ q.modified = p.modified /\ q.keep_alive = p.keep_alive
  /\ q.status = IF Good(r.since, p) THEN 304 ELSE p.status
  /\ ~r.head => DataUnits(q, data) = IF Good(r.since, p) /\ p.status # 304 THEN 0 ELSE p.body
  /\ r.head => DataUnits(q, data) = 0
  /\ DataUnits(q, data) \in Nat
  /\ ~r.head => Complete(q, data)
  /\ \A k \in LeftBehind(q, data) : k = Closed \/ (k = <<>> /\ p.keep_alive)
  /\ q.length \in Int /\ q.length >= -1
  /\ ~r.head /\ q.length >= 0 => q.length = DataUnits(q, data)
  /\ q.status = 302 => q.modified = 0 /\ "Location" \in q.extra

\* Whatever the answer, a reader of what Send writes is told what the answer says.
LEMMA ReadsAnswer ==
  ASSUME NEW r, r.head \in BOOLEAN, r.since \in Nat, NEW p, WellFormed(p, r.head),
         NEW w, w = Send(r, p), NEW q, q = ParseResponse(w)
  PROVE  w.extra \cap DOMAIN w.own = {} /\ Conveyed(r, p, q, w.data)
<1> DEFINE pp == IfModified(r, p)
           data == IF HasBody(r, pp) THEN Body(pp.body, pp.chunked) ELSE <<>>
<1>1. /\ WellFormed(pp, r.head)
      /\ pp.modified = p.modified /\ pp.keep_alive = p.keep_alive
      /\ IF Good(r.since, p) /\ p.status # 304 THEN pp.status = 304 /\ pp.body = 0 ELSE pp = p
  BY IfModifiedAnswer
<1>2. w = Written(pp, data)
  BY DEF Send, Written
<1>3. data = IF pp.length # 0 /\ ~r.head THEN Body(pp.body, pp.chunked) ELSE <<>>
  BY DEF HasBody
<1> HIDE DEF pp, data
<1>4. w.data = data /\ w.extra \cap DOMAIN w.own = {} /\ ReadAs(q, pp)
  BY ONLY r.head \in BOOLEAN, q = ParseResponse(w), <1>1, <1>2, ReadsWritten
<1>5. /\ DataUnits(q, data) = IF r.head THEN 0 ELSE pp.body
      /\ ~r.head => Complete(q, data)
      /\ \A k \in LeftBehind(q, data) : k = Closed \/ (k = <<>> /\ q.keep_alive)
      /\ ~r.head /\ q.length >= 0 => q.length = pp.body
  BY <1>1, <1>3, <1>4, ReadsData
<1>6. /\ pp.body \in Nat /\ pp.length \in Int /\ pp.length >= -1 /\ pp.keep_alive \in BOOLEAN
      /\ pp.status = 302 => pp.modified = 0
  BY <1>1 DEF WellFormed
<1>7. /\ q.status = pp.status /\ q.modified = pp.modified /\ q.keep_alive = pp.keep_alive
      /\ q.length = pp.length \/ q.length = -1
      /\ pp.status = 302 => "Location" \in q.extra
  BY <1>4 DEF ReadAs
<1>8. q.status = IF Good(r.since, p) THEN 304 ELSE p.status
  BY <1>1, <1>7
<1> QED
  BY <1>1, <1>4, <1>5, <1>6, <1>7, <1>8 DEF Conveyed

\* The invariant holds before the first request.
LEMMA MessagesInitially ==
  MessagesInit => MessagesIInv
<1> SUFFICES ASSUME MessagesInit PROVE MessagesIInv
  OBVIOUS
<1>1. at = "idle" /\ proxied = FALSE /\ wire = NoMessage
  BY DEF MessagesInit
<1>2. left = [client |-> Closed, backend |-> Closed]
  BY DEF MessagesInit
<1>3. AskedTyped /\ OnItsWay /\ Known /\ Answers /\ OneOfEach
  BY <1>1 DEF AskedTyped, OnItsWay, Known, Answers, OneOfEach
<1>4. Emptied
  BY <1>1, <1>2 DEF Emptied, Clean
<1> QED
  BY <1>1, <1>3, <1>4 DEF MessagesIInv

\* What the client writes is read as it meant it (_nxweb_parse_http_request).
LEMMA ClientAsksStep ==
  ASSUME BodyBound, MessagesIInv, ClientAsks
  PROVE  MessagesIInv'
<1>1. PICK c \in ClientChoices :
        /\ c.n = 0 => c.coding # "both"
        /\ c.method # "POST" => c.n = 0 /\ c.coding = "length"
        /\ asked' = [head |-> c.method = "HEAD", since |-> c.since, body |-> c.n]
        /\ wire' = ClientRequest(c)
  BY DEF ClientAsks
<1>2. /\ at = "idle" /\ at' = "front" /\ left' = left /\ proxied' = proxied
  BY DEF ClientAsks
<1>3. c.n \in Nat /\ c.since \in Nat
  BY DEF BodyBound, ClientChoices
<1> DEFINE w == wire'
           r == ParseRequest(w)
<1>4. r = ParseRequest(w) /\ w = ClientRequest(c) /\ (c.n = 0 => c.coding # "both")
  BY <1>1
<1> HIDE DEF r, w
<1>5. /\ DOMAIN r = RequestFields
      /\ {r.bad, r.head, r.chunked, r.keep_alive} \subseteq BOOLEAN
      /\ r.head = ((c.method = "HEAD") /\ ~r.bad)
      /\ r.since = c.since
      /\ r.method = "HEAD" => r.bad
      /\ r.extra \cap OfRequest = {}
      /\ Framed(r, w.data, c.n)
      /\ w.extra \cap DOMAIN w.own = {}
  BY ONLY <1>3, <1>4, ReadsClient
<1>6. asked'.head = (c.method = "HEAD") /\ asked'.since = c.since /\ asked'.body = c.n
  BY <1>1
<1>7. AskedTyped'
  BY <1>3, <1>6 DEF AskedTyped
<1>8. ReadsAsked(ParseRequest(wire))' /\ Framed(ParseRequest(wire), wire.data, asked.body)'
  BY <1>5, <1>6 DEF ReadsAsked, r, w
<1>9. OnItsWay'
  BY <1>2, <1>8 DEF OnItsWay
<1>10. Known' /\ Answers' /\ Emptied'
  BY <1>2 DEF MessagesIInv, Known, Answers, Emptied
<1>11. OneOfEach'
  BY <1>5 DEF OneOfEach, w
<1> QED
  BY <1>2, <1>7, <1>9, <1>10, <1>11 DEF MessagesIInv

\* The first server reads the request whole, or refuses it and closes.
LEMMA ReceiveStep ==
  ASSUME BodyBound, MessagesIInv, Receive
  PROVE  MessagesIInv'
<1>1. PICK p \in BOOLEAN :
        /\ proxied' = (p /\ ~request'.bad)
        /\ at' = IF request'.bad THEN "reply" ELSE IF p THEN "forward" ELSE "handler"
        /\ resp' = IF request'.bad THEN BadRequest ELSE resp
        /\ served' = IF request'.bad THEN BadRequest ELSE served
        /\ seen' = IF p \/ request'.bad THEN seen
                   ELSE [head |-> request'.head, since |-> request'.since,
                         body |-> BodyRead(request', wire.data)]
        /\ left' = [left EXCEPT !.client =
                      IF request'.bad THEN @ ELSE [i \in 1..Unread(request', wire.data) |-> Unit]]
  BY Zenon DEF Receive
<1>2. at = "front" /\ request' = ParseRequest(wire) /\ wire' = wire /\ asked' = asked
  BY DEF Receive
<1>3. ReadsAsked(request)' /\ Framed(request', wire.data, asked.body)
  BY <1>2 DEF MessagesIInv, OnItsWay, ReadsAsked, Framed
<1>4. asked.head \in BOOLEAN /\ asked.since \in Nat /\ asked.body \in Nat
  BY <1>2 DEF MessagesIInv, AskedTyped
<1>5. /\ {request'.bad, request'.head, request'.chunked} \subseteq BOOLEAN
      /\ request'.head = (asked.head /\ ~request'.bad) /\ request'.since = asked.since
  BY <1>2, <1>3 DEF ReadsAsked
<1>6. /\ BodyRead(request', wire.data) = asked.body
      /\ [i \in 1..Unread(request', wire.data) |-> Unit] = <<>>
  BY <1>3, <1>4, <1>5, FramedRead
<1>7. AskedTyped'
  BY <1>2, <1>4 DEF AskedTyped
<1>8. OnItsWay'
  BY <1>1, <1>2, <1>3 DEF OnItsWay
<1>9. Known'
  <2>1. request'.bad => at' = "reply" /\ ~proxied'
    BY <1>1, <1>5
  <2>2. at' \in {"handler", "back"} =>
          seen'.head = asked.head /\ seen'.since = asked.since /\ seen'.body = asked.body /\ ~proxied'
    <3>1. CASE p \/ request'.bad
      BY <1>1, <1>5, <3>1
    <3>2. CASE ~p /\ ~request'.bad
      <4>1. seen' = [head |-> request'.head, since |-> request'.since,
                     body |-> BodyRead(request', wire.data)] /\ ~proxied'
        BY <1>1, <3>2
      <4> QED
        BY <1>4, <1>5, <1>6, <3>2, <4>1
    <3> QED
      BY <3>1, <3>2
  <2>3. at' \in {"forward", "backend", "back"} => proxied'
    BY <1>1, <1>5
  <2> QED
    BY <1>1, <1>2, <1>3, <1>5, <2>1, <2>2, <2>3 DEF Known
<1>10. Answers'
  <2>1. CASE request'.bad
    <3>1. resp' = BadRequest /\ served' = BadRequest /\ at' = "reply" /\ request'.head = FALSE
      BY <1>1, <1>4, <1>5, <2>1
    <3>2. WellFormed(BadRequest, FALSE) /\ BadRequest.status = 400 /\ BadRequest.modified = 0
          /\ BadRequest.keep_alive = FALSE
      BY DEF WellFormed, BadRequest, AnswerFields, BodyBound
    <3>3. WellFormed(served', FALSE) /\ served'.status # 304
      BY <3>1, <3>2 DEF WellFormed
    <3>4. Fits(resp, request)'
      BY <3>1, <3>2 DEF Fits
    <3> QED
      BY <3>1, <3>2, <3>3, <3>4 DEF Answers
  <2>2. CASE ~request'.bad
    BY <1>1, <2>2 DEF Answers
  <2> QED
    BY <1>5, <2>1, <2>2
<1>11. Emptied'
  <2>1. left = [client |-> left.client, backend |-> left.backend] /\ {left.client, left.backend} \subseteq Clean
    BY DEF MessagesIInv, Emptied
  <2>2. left'.backend = left.backend /\ left'.client = IF request'.bad THEN left.client ELSE <<>>
    BY <1>1, <1>6, <2>1
  <2>3. left' = [client |-> left'.client, backend |-> left'.backend]
    BY <1>1, <2>1
  <2> QED
    BY <1>1, <1>5, <2>1, <2>2, <2>3 DEF Emptied, Clean
<1>12. OneOfEach'
  BY <1>2 DEF MessagesIInv, OneOfEach
<1> QED
  BY <1>1, <1>7, <1>8, <1>9, <1>10, <1>11, <1>12 DEF MessagesIInv

\* The request the proxy writes is read as the one it read (start_proxy_request).
LEMMA ForwardStep ==
  ASSUME BodyBound, MessagesIInv, Forward
  PROVE  MessagesIInv'
<1>1. /\ at = "forward" /\ at' = "backend"
      /\ wire' = [RequestHeaders(ProxyRequest(request)) EXCEPT !.data = wire.data]
      /\ UNCHANGED <<proxied, asked, request, seen, resp, served, got, left>>
  BY DEF Forward
<1>2. /\ ReadsAsked(request) /\ ~request.bad /\ Framed(request, wire.data, asked.body) /\ proxied = TRUE
  BY <1>1 DEF MessagesIInv, Known, OnItsWay
<1>3. asked.head \in BOOLEAN /\ asked.since \in Nat /\ asked.body \in Nat
  BY <1>1 DEF MessagesIInv, AskedTyped
<1>4. /\ DOMAIN request = RequestFields /\ {request.bad, request.head, request.chunked} \subseteq BOOLEAN
      /\ request.since \in Nat /\ request.method # "HEAD" /\ request.extra \cap OfRequest = {}
      /\ request.length = (IF request.chunked THEN -1 ELSE asked.body)
      /\ request.length \in Int /\ (request.chunked <=> request.length < 0) /\ request.length >= -1
      /\ request.head = asked.head /\ request.since = asked.since
      /\ wire.data = Body(asked.body, request.chunked)
  BY <1>2, <1>3 DEF ReadsAsked, Framed
<1> DEFINE data == wire.data
           w == wire'
           r == ParseRequest(w)
<1>5. w = Passed(request, data) /\ r = ParseRequest(w)
  BY <1>1 DEF Passed
<1> HIDE DEF data, w, r
<1>6. /\ DOMAIN r = RequestFields
      /\ {r.bad, r.head, r.chunked, r.keep_alive} \subseteq BOOLEAN
      /\ r.head = request.head /\ ~r.bad /\ r.since = request.since /\ r.method # "HEAD"
      /\ r.extra \cap OfRequest = {}
      /\ r.chunked = request.chunked /\ r.length = request.length
      /\ w.data = data /\ w.extra \cap DOMAIN w.own = {}
  BY ONLY <1>2, <1>3, <1>4, <1>5, ReadsProxy
<1>7. ReadsAsked(ParseRequest(wire))'
  BY <1>1, <1>3, <1>4, <1>6 DEF ReadsAsked, r, w
<1>8. Framed(ParseRequest(wire), wire.data, asked.body)'
  BY <1>1, <1>4, <1>6 DEF Framed, r, w, data
<1>9. OnItsWay'
  BY <1>1, <1>6, <1>7, <1>8 DEF OnItsWay, r, w
<1>10. AskedTyped'
  BY <1>1, <1>3 DEF AskedTyped
<1>11. Known'
  BY <1>1, <1>2 DEF Known, ReadsAsked
<1>12. Answers' /\ Emptied'
  BY <1>1 DEF MessagesIInv, Answers, Emptied
<1>13. OneOfEach'
  BY <1>6 DEF OneOfEach, w
<1> QED
  BY <1>1, <1>9, <1>10, <1>11, <1>12, <1>13 DEF MessagesIInv

\* The second server reads it whole.
LEMMA BackendReceiveStep ==
  ASSUME BodyBound, MessagesIInv, BackendReceive
  PROVE  MessagesIInv'
<1> DEFINE r == ParseRequest(wire)
<1>1. /\ at = "backend" /\ at' = "handler"
      /\ seen' = [head |-> r.head, since |-> r.since, bad |-> r.bad,
                  body |-> BodyRead(r, wire.data), keep |-> r.keep_alive]
      /\ left' = [left EXCEPT !.backend = [i \in 1..Unread(r, wire.data) |-> Unit]]
      /\ UNCHANGED <<proxied, wire, asked, request, resp, served, got>>
  BY DEF BackendReceive
<1>2. /\ ReadsAsked(r) /\ ~r.bad /\ Framed(r, wire.data, asked.body) /\ proxied = TRUE
      /\ ReadsAsked(request) /\ ~request.bad
  BY <1>1 DEF MessagesIInv, OnItsWay, Known
<1>3. asked.head \in BOOLEAN /\ asked.since \in Nat /\ asked.body \in Nat
  BY <1>1 DEF MessagesIInv, AskedTyped
<1> HIDE DEF r
<1>4. r.chunked \in BOOLEAN /\ r.keep_alive \in BOOLEAN /\ r.head = asked.head /\ r.since = asked.since
  BY <1>2, <1>3 DEF ReadsAsked
<1>5. BodyRead(r, wire.data) = asked.body /\ [i \in 1..Unread(r, wire.data) |-> Unit] = <<>>
  BY <1>2, <1>3, <1>4, FramedRead
<1>6. left = [client |-> left.client, backend |-> left.backend] /\ left.client = <<>>
  BY <1>1 DEF MessagesIInv, Emptied
<1>7. left'.client = <<>> /\ left'.backend = <<>> /\ left' = [client |-> left'.client, backend |-> left'.backend]
  BY <1>1, <1>5, <1>6
<1>8. Emptied'
  BY <1>1, <1>7 DEF Emptied, Clean
<1>9. seen'.head = asked.head /\ seen'.since = asked.since /\ seen'.body = asked.body
      /\ ~seen'.bad /\ seen'.keep \in BOOLEAN
  BY <1>1, <1>2, <1>4, <1>5
<1>10. Known'
  BY <1>1, <1>2, <1>9 DEF Known, ReadsAsked
<1>11. AskedTyped' /\ OnItsWay' /\ Answers'
  BY <1>1, <1>3 DEF AskedTyped, OnItsWay, Answers
<1>12. OneOfEach'
  BY <1>1 DEF MessagesIInv, OneOfEach
<1> QED
  BY <1>1, <1>8, <1>10, <1>11, <1>12 DEF MessagesIInv

\* An answer that can be written after any request can be written after HEAD.
LEMMA AlsoAfterHead ==
  ASSUME NEW p, WellFormed(p, FALSE), NEW head \in BOOLEAN
  PROVE  WellFormed(p, head)
BY DEF WellFormed

\* The answer of a handler can be written, by either server.
LEMMA HandlerAnswersStep ==
  ASSUME BodyBound, MessagesIInv, HandlerAnswers
  PROVE  MessagesIInv'
<1>1. PICK status \in {200, 204, 302, 304, 404}, n \in 0..MaxBody, auto \in BOOLEAN,
           close \in BOOLEAN, modified \in {0, 1, 3}, extra \in {{}, {"X", "Content-Length"}} :
        /\ MustNotHaveBody(status) \/ status = 302 => n = 0 /\ ~auto
        /\ status = 302 => modified = 0
        /\ served' = [status |-> status, http11 |-> proxied \/ request.http11,
                      keep_alive |-> ~close /\ (IF proxied THEN seen.keep ELSE request.keep_alive),
                      modified |-> modified, chunked |-> auto, body |-> n,
                      length |-> IF auto THEN -1 ELSE n, extra |-> extra, raw |-> status = 302]
        /\ at' = IF proxied THEN "back" ELSE "reply"
        /\ IF proxied THEN resp' = resp /\ wire' = Send(seen, served')
           ELSE resp' = served' /\ wire' = wire
  BY DEF HandlerAnswers
<1>2. at = "handler" /\ UNCHANGED <<proxied, asked, request, seen, got, left>>
  BY DEF HandlerAnswers
<1>3. n \in Nat /\ modified \in Nat
  BY DEF BodyBound
<1>4. asked.head \in BOOLEAN /\ asked.since \in Nat /\ asked.body \in Nat
  BY <1>2 DEF MessagesIInv, AskedTyped
<1>5. /\ ReadsAsked(request) /\ ~request.bad /\ proxied \in BOOLEAN
      /\ seen.head = asked.head /\ seen.since = asked.since /\ seen.body = asked.body
      /\ proxied => ~seen.bad /\ seen.keep \in BOOLEAN
  BY <1>2 DEF MessagesIInv, Known
<1>6. request.keep_alive \in BOOLEAN /\ request.head = asked.head /\ request.since = asked.since
  BY <1>4, <1>5 DEF ReadsAsked
<1> DEFINE p == served'
<1>7. /\ DOMAIN p = AnswerFields /\ p.status = status /\ p.modified = modified /\ p.chunked = auto
      /\ p.body = n /\ p.length = (IF auto THEN -1 ELSE n)
      /\ p.keep_alive = (~close /\ (IF proxied THEN seen.keep ELSE request.keep_alive))
      /\ p.raw = (status = 302)
  BY <1>1 DEF AnswerFields
<1> HIDE DEF p
<1>8. {p.keep_alive, p.chunked, p.raw} \subseteq BOOLEAN
  BY <1>5, <1>6, <1>7
<1>9. status = 302 \/ status = 304 => n = 0 /\ ~auto
  BY <1>1 DEF MustNotHaveBody
<1>10. WellFormed(p, FALSE) /\ (p.status = 304 => p.body = 0)
  <2>1. p.modified \in Nat /\ p.body \in Nat /\ p.length \in Int /\ p.length >= -1
        /\ (p.chunked <=> p.length < 0) /\ (~p.chunked => p.length = p.body)
    BY <1>3, <1>7
  <2>2. (p.raw => p.status = 302 /\ p.length = 0 /\ p.body = 0)
        /\ (p.status = 302 => p.modified = 0 /\ p.raw)
        /\ (p.status = 304 => p.body = 0)
    <3>1. (p.raw <=> status = 302) /\ p.status = status /\ p.body = n /\ p.modified = modified
          /\ (~auto => p.length = n)
      BY <1>7
    <3>2. status = 302 => modified = 0 /\ n = 0 /\ ~auto
      BY <1>1, <1>9
    <3>3. status = 304 => n = 0
      BY <1>9
    <3> QED
      BY <3>1, <3>2, <3>3
  <2> QED
    BY <1>7, <1>8, <2>1, <2>2 DEF WellFormed
<1>11. WellFormed(p, request.head) /\ WellFormed(p, seen.head)
  BY <1>4, <1>5, <1>6, <1>10, AlsoAfterHead
<1>12. AskedTyped'
  BY <1>2, <1>4 DEF AskedTyped
<1>13. Known'
  BY <1>1, <1>2, <1>5 DEF Known, ReadsAsked
<1>14. OnItsWay' /\ at' \in {"back", "reply"}
  BY <1>1, <1>2 DEF OnItsWay
<1>15. at' = "reply" => Fits(resp, request)'
  <2>1. at' = "reply" => resp' = p
    BY <1>1 DEF p
  <2>2. served' = p /\ request' = request
    BY <1>2 DEF p
  <2> HIDE DEF p
  <2> QED
    BY <1>11, <2>1, <2>2 DEF Fits
<1>16. Answers'
  <2>1. served' = p
    BY DEF p
  <2>2. WellFormed(served', FALSE) /\ (served'.status = 304 => served'.body = 0)
    BY <1>10, <2>1
  <2>3. at' = "back" => wire' = Send(seen', served')
    BY <1>1, <1>2
  <2> QED
    BY <1>2, <1>5, <1>14, <1>15, <2>2, <2>3 DEF Answers
<1>17. Emptied'
  BY <1>1, <1>2, <1>5 DEF MessagesIInv, Emptied
<1>18. OneOfEach'
  <2>1. CASE proxied
    <3>1. wire' = Send(seen, p)
      BY <1>1, <2>1 DEF p
    <3>2. seen.head \in BOOLEAN /\ seen.since \in Nat
      BY <1>4, <1>5
    <3>3. wire'.extra \cap DOMAIN wire'.own = {}
      BY <1>11, <3>1, <3>2, ReadsAnswer
    <3> QED
      BY <3>3 DEF OneOfEach
  <2>2. CASE ~proxied
    BY <1>1, <2>2 DEF MessagesIInv, OneOfEach
  <2> QED
    BY <1>5, <2>1, <2>2
<1> QED
  BY <1>12, <1>13, <1>14, <1>16, <1>17, <1>18 DEF MessagesIInv

\* The answer the proxy takes over is the handler's, or says that the client's copy is good.
LEMMA RelayStep ==
  ASSUME BodyBound, MessagesIInv, Relay
  PROVE  MessagesIInv'
<1> DEFINE q == ParseResponse(wire)
           units == DataUnits(q, wire.data)
           p == resp'
<1>1. /\ at = "back" /\ at' = "reply"
      /\ p = [status |-> q.status, http11 |-> request.http11, keep_alive |-> request.keep_alive,
              modified |-> q.modified, length |-> q.length, chunked |-> q.length < 0,
              body |-> units, extra |-> q.extra, raw |-> FALSE]
      /\ UNCHANGED <<proxied, wire, asked, request, seen, served, got>>
  BY DEF Relay
<1>2. PICK k \in LeftBehind(q, wire.data) :
        left' = [left EXCEPT !.backend = IF k = Closed THEN k ELSE @ \o k]
  BY DEF Relay
<1>3. asked.head \in BOOLEAN /\ asked.since \in Nat /\ asked.body \in Nat
  BY <1>1 DEF MessagesIInv, AskedTyped
<1>4. /\ ReadsAsked(request) /\ ~request.bad /\ proxied
      /\ seen.head = asked.head /\ seen.since = asked.since /\ seen.body = asked.body
  BY <1>1 DEF MessagesIInv, Known
<1>5. request.keep_alive \in BOOLEAN /\ request.head = asked.head /\ request.since = asked.since
  BY <1>3, <1>4 DEF ReadsAsked
<1>6. /\ WellFormed(served, FALSE) /\ (served.status = 304 => served.body = 0)
      /\ wire = Send(seen, served)
  BY <1>1 DEF MessagesIInv, Answers
<1>7. seen.head \in BOOLEAN /\ seen.since \in Nat /\ WellFormed(served, seen.head)
  BY <1>3, <1>4, <1>6, AlsoAfterHead
<1>8. q = ParseResponse(wire)
  OBVIOUS
<1>9. units = DataUnits(q, wire.data)
  OBVIOUS
<1> HIDE DEF q, units
<1> DEFINE good == Good(seen.since, served)
<1>10. Conveyed(seen, served, q, wire.data)
  BY ONLY <1>6, <1>7, <1>8, ReadsAnswer
<1>11. /\ q.modified = served.modified
       /\ q.status = IF good THEN 304 ELSE served.status
       /\ ~seen.head => units = IF good /\ served.status # 304 THEN 0 ELSE served.body
  BY <1>9, <1>10 DEF Conveyed
<1>12. units \in Nat /\ q.length \in Int /\ q.length >= -1
  BY <1>9, <1>10 DEF Conveyed
<1>13. \A x \in LeftBehind(q, wire.data) : x = Closed \/ (x = <<>> /\ served.keep_alive)
  BY <1>10 DEF Conveyed
<1>14. /\ ~seen.head /\ q.length >= 0 => q.length = units
       /\ q.status = 302 => q.modified = 0 /\ "Location" \in q.extra
  BY <1>9, <1>10 DEF Conveyed
<1>15. /\ DOMAIN p = AnswerFields /\ p.status = q.status /\ p.keep_alive = request.keep_alive
       /\ p.modified = q.modified /\ p.length = q.length /\ p.chunked = (q.length < 0)
       /\ p.body = units /\ p.extra = q.extra /\ p.raw = FALSE
  BY <1>1 DEF AnswerFields
<1>16. q.length \in Int
  BY <1>12
<1> DEFINE short == q.length < 0
<1>17. p = [status |-> q.status, http11 |-> request.http11, keep_alive |-> request.keep_alive,
            modified |-> q.modified, length |-> q.length, chunked |-> short,
            body |-> units, extra |-> q.extra, raw |-> FALSE]
  BY <1>1
<1>18. short \in BOOLEAN
  OBVIOUS
<1> HIDE DEF p, short
<1>19. p.chunked = short
  BY ONLY <1>17
<1>20. p.chunked \in BOOLEAN /\ (p.chunked <=> q.length < 0)
  BY ONLY <1>16, <1>18, <1>19 DEF short
<1> HIDE DEF good
<1>21. served.modified \in Nat
  BY <1>6 DEF WellFormed
<1>22. WellFormed(p, request.head)
  <2>1. {p.keep_alive, p.chunked, p.raw} \subseteq BOOLEAN
    BY <1>5, <1>15, <1>12, <1>20
  <2>2. ~request.head /\ ~p.chunked => p.length = p.body
    BY <1>4, <1>5, <1>15, <1>12, <1>14, <1>20
  <2> QED
    <3>1. p.modified \in Nat /\ p.body \in Nat /\ p.length \in Int /\ p.length >= -1
          /\ (p.chunked <=> p.length < 0)
      BY ONLY <1>11, <1>15, <1>21, <1>12, <1>20
    <3>2. p.status = 302 => p.modified = 0 /\ "Location" \in p.extra
      BY ONLY <1>15, <1>14
    <3> QED
      BY ONLY <1>15, <2>1, <2>2, <3>1, <3>2 DEF WellFormed
<1>23. Fits(resp, request)'
  <2>1. good => Good(request.since, served)
    BY <1>4, <1>5 DEF good
  <2>2. CASE good /\ served.status # 304
    <3>1. p.status = 304 /\ (~request.head => p.body = 0)
      BY <1>4, <1>5, <1>11, <1>15, <2>2
    <3> QED
      BY <1>1, <1>11, <1>15, <1>22, <2>1, <2>2, <3>1 DEF Fits, p
  <2>3. CASE ~(good /\ served.status # 304)
    <3>1. p.status = served.status /\ (~request.head => p.body = served.body)
      BY <1>4, <1>5, <1>11, <1>15, <2>3
    <3> QED
      BY <1>1, <1>11, <1>15, <1>22, <3>1 DEF Fits, p
  <2> QED
    BY <2>2, <2>3
<1>24. Answers'
  BY <1>1, <1>4, <1>6, <1>23 DEF Answers
<1>25. Emptied'
  <2>1. left = [client |-> left.client, backend |-> left.backend]
        /\ left.client = <<>> /\ left.backend = <<>>
    BY <1>1, <1>4 DEF MessagesIInv, Emptied
  <2>2. k = Closed \/ k = <<>>
    BY <1>13
  <2>3. left'.client = <<>> /\ left'.backend \in Clean /\ left' = [client |-> left'.client, backend |-> left'.backend]
    <3>1. CASE k = Closed
      BY <1>2, <2>1, <3>1 DEF Clean
    <3>2. CASE k # Closed
      <4>1. k = <<>> /\ <<>> \o k = <<>>
        BY <2>2, <3>2
      <4> QED
        BY <1>2, <2>1, <3>2, <4>1 DEF Clean
    <3> QED
      BY <3>1, <3>2
  <2> QED
    BY <1>1, <2>3 DEF Emptied, Clean
<1>26. AskedTyped' /\ OnItsWay'
  BY <1>1, <1>3 DEF AskedTyped, OnItsWay
<1>27. Known'
  BY <1>1, <1>4 DEF Known, ReadsAsked
<1>28. OneOfEach'
  BY <1>1 DEF MessagesIInv, OneOfEach
<1> QED
  BY <1>1, <1>24, <1>25, <1>26, <1>27, <1>28 DEF MessagesIInv

\* The first server writes its answer and keeps the connection or not.
LEMMA ReplyStep ==
  ASSUME BodyBound, MessagesIInv, Reply
  PROVE  MessagesIInv'
<1>1. /\ at = "reply" /\ at' = "read" /\ wire' = Send(request, resp)
      /\ left' = IF resp.keep_alive THEN left ELSE [left EXCEPT !.client = Closed]
      /\ UNCHANGED <<proxied, asked, request, seen, resp, served, got>>
  BY DEF Reply
<1>2. asked.head \in BOOLEAN /\ asked.since \in Nat /\ asked.body \in Nat
  BY <1>1 DEF MessagesIInv, AskedTyped
<1>3. ReadsAsked(request) /\ proxied \in BOOLEAN
  BY <1>1 DEF MessagesIInv, Known
<1>4. /\ WellFormed(served, FALSE) /\ (served.status = 304 => served.body = 0)
      /\ Fits(resp, request) /\ (request.bad => ~resp.keep_alive /\ served.modified = 0)
  BY <1>1 DEF MessagesIInv, Answers
<1>5. request.head \in BOOLEAN /\ request.since \in Nat /\ request.bad \in BOOLEAN
  BY <1>2, <1>3 DEF ReadsAsked
<1>6. WellFormed(resp, request.head) /\ resp.keep_alive \in BOOLEAN
  BY <1>4 DEF Fits, WellFormed
<1>7. wire'.extra \cap DOMAIN wire'.own = {}
  BY ONLY <1>1, <1>5, <1>6, ReadsAnswer
<1>8. Answers'
  BY <1>1, <1>4 DEF Answers, Fits
<1>9. Emptied'
  <2>1. left = [client |-> left.client, backend |-> left.backend]
        /\ {left.client, left.backend} \subseteq Clean
        /\ (~request.bad => left.client = <<>>)
    BY <1>1 DEF MessagesIInv, Emptied
  <2>2. CASE resp.keep_alive
    BY <1>1, <1>4, <1>5, <2>1, <2>2 DEF Emptied
  <2>3. CASE ~resp.keep_alive
    <3>1. left'.client = Closed /\ left'.backend = left.backend
          /\ left' = [client |-> left'.client, backend |-> left'.backend]
      BY <1>1, <2>1, <2>3
    <3> QED
      BY <1>1, <2>1, <2>3, <3>1 DEF Emptied, Clean
  <2> QED
    BY <1>6, <2>2, <2>3
<1>10. AskedTyped' /\ OnItsWay'
  BY <1>1, <1>2 DEF AskedTyped, OnItsWay
<1>11. Known'
  BY <1>1, <1>3 DEF Known, ReadsAsked
<1>12. OneOfEach'
  BY <1>7 DEF OneOfEach
<1> QED
  BY <1>1, <1>8, <1>9, <1>10, <1>11, <1>12 DEF MessagesIInv

\* The client makes out the answer and leaves nothing in its connection.
LEMMA ReadStep ==
  ASSUME BodyBound, MessagesIInv, Read
  PROVE  MessagesIInv'
<1> DEFINE q == ParseResponse(wire)
           units == DataUnits(q, wire.data)
<1>1. /\ at = "read" /\ at' = "done"
      /\ got' = [status |-> q.status, body |-> units, complete |-> Complete(q, wire.data),
                 keeps |-> q.keep_alive, extra |-> q.extra]
      /\ UNCHANGED <<proxied, wire, asked, request, seen, resp, served>>
  BY DEF Read
<1>2. PICK k \in LeftBehind(q, wire.data) :
        left' = [left EXCEPT !.client = IF k = Closed THEN k ELSE IF @ = Closed THEN <<"half">> ELSE @ \o k]
  BY DEF Read
<1>3. asked.head \in BOOLEAN /\ asked.since \in Nat /\ asked.body \in Nat
  BY <1>1 DEF MessagesIInv, AskedTyped
<1>4. ReadsAsked(request) /\ proxied \in BOOLEAN
  BY <1>1 DEF MessagesIInv, Known
<1>5. /\ request.head \in BOOLEAN /\ request.bad \in BOOLEAN /\ request.since = asked.since
      /\ request.since \in Nat
  BY <1>3, <1>4 DEF ReadsAsked
<1>6. /\ WellFormed(served, FALSE) /\ (served.status = 304 => served.body = 0)
      /\ Fits(resp, request) /\ (request.bad => ~resp.keep_alive /\ served.modified = 0)
      /\ wire = Send(request, resp)
  BY <1>1 DEF MessagesIInv, Answers
<1>7. /\ WellFormed(resp, request.head) /\ resp.modified = served.modified
      /\ \/ resp.status = served.status /\ (~request.head => resp.body = served.body)
         \/ Good(request.since, served) /\ resp.status = 304 /\ (~request.head => resp.body = 0)
  BY <1>6 DEF Fits
<1>8. q = ParseResponse(wire) /\ units = DataUnits(q, wire.data)
  OBVIOUS
<1> HIDE DEF q, units
<1>9. Conveyed(request, resp, q, wire.data)
  BY ONLY <1>5, <1>6, <1>7, <1>8, ReadsAnswer
<1>10. /\ q.status = IF Good(request.since, resp) THEN 304 ELSE resp.status
       /\ ~request.head => units = IF Good(request.since, resp) /\ resp.status # 304 THEN 0 ELSE resp.body
       /\ request.head => units = 0
       /\ ~request.head => Complete(q, wire.data)
       /\ q.status = 302 => "Location" \in q.extra
  BY <1>8, <1>9 DEF Conveyed
<1>11. \A x \in LeftBehind(q, wire.data) : x = Closed \/ (x = <<>> /\ resp.keep_alive)
  BY <1>9 DEF Conveyed
<1> DEFINE good == asked.since # 0 /\ served.modified \in 1..asked.since /\ ~request.bad
<1>12. Good(request.since, resp) = good
  BY <1>3, <1>5, <1>6, <1>7 DEF Good
<1>13. Good(request.since, served) = good
  BY <1>3, <1>5, <1>6, <1>7 DEF Good
<1>14. good \in BOOLEAN
  OBVIOUS
<1> HIDE DEF good
<1>15. q.status = IF good THEN 304 ELSE served.status
  BY <1>7, <1>10, <1>12, <1>13, <1>14
<1>16. ~request.head => units = IF good THEN 0 ELSE served.body
  BY <1>6, <1>7, <1>10, <1>12, <1>13, <1>14
<1>17. served.status = 302 => "Location" \in q.extra
  <2>1. served.status = 302 => served.modified = 0
    BY <1>6 DEF WellFormed
  <2>2. served.status = 302 => ~good
    BY <2>1, <1>3 DEF good
  <2> QED
    BY <1>10, <1>14, <1>15, <2>2
<1>18. SameAnswer'
  <2>1. /\ got'.status = q.status /\ got'.body = units /\ got'.complete = Complete(q, wire.data)
        /\ got'.extra = q.extra
    BY <1>1
  <2>2. got'.status = IF good THEN 304 ELSE served.status
    BY <1>15, <2>1
  <2>3. got'.body = IF good \/ request.head THEN 0 ELSE served.body
    BY <1>5, <1>10, <1>14, <1>16, <2>1
  <2>4. ~request.head => got'.complete
    BY <1>10, <2>1
  <2>5. served.status = 302 => "Location" \in got'.extra
    BY <1>17, <2>1
  <2> QED
    BY <1>1, <1>5, <2>2, <2>3, <2>4, <2>5 DEF SameAnswer, good
<1>19. Emptied'
  <2>1. left = [client |-> left.client, backend |-> left.backend]
        /\ {left.client, left.backend} \subseteq Clean
        /\ (resp.keep_alive => left.client = <<>>)
    BY <1>1 DEF MessagesIInv, Emptied
  <2>2. k = Closed \/ (k = <<>> /\ resp.keep_alive)
    BY <1>11
  <2>3. left'.client \in Clean /\ left'.backend = left.backend
        /\ left' = [client |-> left'.client, backend |-> left'.backend]
    <3>1. CASE k = Closed
      BY <1>2, <2>1, <3>1 DEF Clean
    <3>2. CASE k # Closed
      <4>1. k = <<>> /\ left.client = <<>> /\ left.client # Closed /\ <<>> \o k = <<>>
        <5>1. Len(<<>>) = 0 /\ Len(Closed) = 1
          BY DEF Closed
        <5> QED
          BY <2>1, <2>2, <3>2, <5>1
      <4> QED
        BY <1>2, <2>1, <3>2, <4>1 DEF Clean
    <3> QED
      BY <3>1, <3>2
  <2> QED
    BY <1>1, <2>1, <2>3 DEF Emptied
<1>20. AskedTyped' /\ OnItsWay'
  BY <1>1, <1>3 DEF AskedTyped, OnItsWay
<1>21. Known'
  BY <1>1, <1>4 DEF Known, ReadsAsked
<1>22. Answers' /\ OneOfEach'
  BY <1>1, <1>6 DEF MessagesIInv, Answers, OneOfEach
<1> QED
  BY <1>18, <1>19, <1>20, <1>21, <1>22 DEF MessagesIInv

\* Between two requests only the connections are kept.
LEMMA NextMessageStep ==
  ASSUME MessagesIInv, NextMessage
  PROVE  MessagesIInv'
<1>1. at' = "idle" /\ proxied' = FALSE /\ wire' = NoMessage /\ left' = left
  BY DEF NextMessage
<1>2. AskedTyped' /\ OnItsWay' /\ Known' /\ Answers' /\ OneOfEach'
  BY <1>1 DEF AskedTyped, OnItsWay, Known, Answers, OneOfEach
<1>3. Emptied'
  BY <1>1 DEF MessagesIInv, Emptied
<1> QED
  BY <1>1, <1>2, <1>3 DEF MessagesIInv

\* A step that changes nothing keeps the invariant.
LEMMA MessagesStutter ==
  ASSUME MessagesIInv, UNCHANGED messagesVars
  PROVE  MessagesIInv'
<1>1. UNCHANGED <<at, proxied, wire, asked, request, seen, resp, served, got, left>>
  BY DEF messagesVars
<1>2. AskedTyped' /\ OnItsWay'
  BY <1>1 DEF MessagesIInv, AskedTyped, OnItsWay, ReadsAsked, Framed
<1>3. Known'
  BY <1>1 DEF MessagesIInv, Known, ReadsAsked
<1>4. Answers'
  BY <1>1 DEF MessagesIInv, Answers, Fits
<1>5. Emptied' /\ OneOfEach'
  BY <1>1 DEF MessagesIInv, Emptied, OneOfEach
<1>6. (at = "done" => SameAnswer)'
  BY <1>1 DEF MessagesIInv, SameAnswer
<1> QED
  BY <1>2, <1>3, <1>4, <1>5, <1>6 DEF MessagesIInv

\* Every step keeps the invariant.
LEMMA MessagesInductive ==
  ASSUME BodyBound, MessagesIInv, [MessagesNext]_messagesVars
  PROVE  MessagesIInv'
BY ClientAsksStep, ReceiveStep, ForwardStep, BackendReceiveStep, HandlerAnswersStep, RelayStep,
   ReplyStep, ReadStep, NextMessageStep, MessagesStutter DEF MessagesNext

\* The invariant implies what is promised.
LEMMA MessagesSoundFollows ==
  ASSUME MessagesIInv
  PROVE  MessagesSound
<1>1. SameRequest
  BY DEF MessagesIInv, Known, SameRequest
<1>2. SameAnswer
  BY DEF MessagesIInv, SameAnswer
<1>3. InStep
  <2>1. left = [client |-> left.client, backend |-> left.backend] /\ {left.client, left.backend} \subseteq Clean
    BY DEF MessagesIInv, Emptied
  <2>2. \A c \in DOMAIN left : left[c] = left.client \/ left[c] = left.backend
    BY <2>1
  <2> QED
    BY <2>1, <2>2 DEF InStep, Clean
<1>4. OneOfEach
  BY DEF MessagesIInv
<1> QED
  BY <1>1, <1>2, <1>3, <1>4 DEF MessagesSound

\* Parser and writer of HTTP messages fit each other, for bodies of any length: the handler
\* gets the request that was sent, the client the answer that was given, also through a proxy,
\* and a connection that is kept starts the next request with nothing left in it.
THEOREM MessagesAreSound == ASSUME BodyBound PROVE MessagesSpec => []MessagesSound
<1>1. MessagesInit => MessagesIInv
  BY MessagesInitially
<1>2. MessagesIInv /\ [MessagesNext]_messagesVars => MessagesIInv'
  BY MessagesInductive
<1>3. MessagesIInv => MessagesSound
  BY MessagesSoundFollows
<1> QED
  BY <1>1, <1>2, <1>3, PTL DEF MessagesSpec

-----------------------------------------------------------------------------
(* The envelope: what a reader makes of a message is a fact about texts,   *)
(* blocks and two vectors, that of the encryption and that of the          *)
(* decryption.  The threads decide whether the two are the same.           *)

\* The bytes of a text.
Letters == {"A", "F"}

\* A product grows with its factor.
LEMMA ProductGrows ==
  ASSUME NEW a \in Nat, NEW b \in Nat, NEW n \in Nat, a <= b
  PROVE  n * a <= n * b
<1>1. PICK d \in Nat : b = a + d
  <2>1. b - a \in Nat /\ b = a + (b - a)
    OBVIOUS
  <2> QED
    BY <2>1
<1>2. n * (a + d) = n * a + n * d
  OBVIOUS
<1>3. n * d \in Nat /\ n * a \in Nat
  OBVIOUS
<1> QED
  BY <1>1, <1>2, <1>3

\* Division with remainder.
LEMMA Divided ==
  ASSUME NEW k \in Nat, NEW n \in Nat \ {0}
  PROVE  /\ k \div n \in Nat /\ k % n \in 0..(n - 1)
         /\ k = n * (k \div n) + (k % n)
OBVIOUS

\* A byte of c blocks of n is a byte of one of them.
LEMMA InBlocks ==
  ASSUME NEW n \in Nat \ {0}, NEW c \in Nat, NEW i \in 1..(n * c)
  PROVE  /\ (i - 1) \div n + 1 \in 1..c
         /\ ((i - 1) % n) + 1 \in 1..n
         /\ (i - 1) \div n \in Nat /\ (i - 1) % n \in Nat
         /\ n * ((i - 1) \div n) + ((i - 1) % n) + 1 = i
<1>1. i - 1 \in Nat /\ i <= n * c /\ n * c \in Nat
  OBVIOUS
<1> DEFINE d == (i - 1) \div n
           m == (i - 1) % n
<1>2. d \in Nat /\ m \in 0..(n - 1) /\ i - 1 = n * d + m
  BY <1>1, Divided
<1> HIDE DEF d, m
<1>3. d < c
  <2>1. SUFFICES ASSUME c <= d PROVE FALSE
    BY <1>2
  <2>2. n * c <= n * d
    BY <1>2, <2>1, ProductGrows
  <2>3. n * d \in Nat
    BY <1>2
  <2> QED
    BY <1>1, <1>2, <2>2, <2>3
<1>4. n * d \in Nat
  BY <1>2
<1>5. d + 1 \in 1..c /\ m + 1 \in 1..n /\ n * d + m + 1 = i
  BY <1>1, <1>2, <1>3, <1>4
<1> QED
  BY <1>5 DEF d, m

\* A number of blocks is found by division.
LEMMA DividesProduct ==
  ASSUME NEW n \in Nat \ {0}, NEW q \in Nat
  PROVE  (n * q) \div n = q
<1>1. n * q \in Nat
  OBVIOUS
<1> DEFINE d == (n * q) \div n
           m == (n * q) % n
<1>2. d \in Nat /\ m \in 0..(n - 1) /\ n * q = n * d + m
  BY <1>1, Divided
<1> HIDE DEF d, m
<1>3. n * d \in Nat
  BY <1>2
<1>4. ~(q < d)
  <2>1. SUFFICES ASSUME q + 1 <= d PROVE FALSE
    BY <1>2
  <2>2. n * (q + 1) <= n * d /\ n * (q + 1) = n * q + n
    BY <1>2, <2>1, ProductGrows
  <2> QED
    BY <1>1, <1>2, <1>3, <2>2
<1>5. ~(d < q)
  <2>1. SUFFICES ASSUME d + 1 <= q PROVE FALSE
    BY <1>2
  <2>2. n * (d + 1) <= n * q /\ n * (d + 1) = n * d + n
    BY <1>2, <2>1, ProductGrows
  <2> QED
    BY <1>1, <1>2, <1>3, <2>2
<1>6. d = q
  BY <1>2, <1>4, <1>5
<1> QED
  BY <1>6 DEF d

\* A text followed by another.
LEMMA Continued ==
  ASSUME NEW y \in Seq(Letters), NEW z \in Seq(Letters)
  PROVE  /\ y \o z \in Seq(Letters) /\ Len(y \o z) = Len(y) + Len(z)
         /\ \A i \in 1..Len(y) : (y \o z)[i] = y[i]
         /\ \A i \in (Len(y) + 1)..Len(y \o z) : (y \o z)[i] = z[i - Len(y)]
BY ConcatProperties

\* A padded text fills blocks, and is the text, an 'F' and at least one 'A'.
LEMMA PaddedText ==
  ASSUME EnvelopeBounds, NEW x \in Seq(Letters)
  PROVE  /\ Padded(x) \in Seq(Letters)
         /\ Len(Padded(x)) > Len(x) + 1
         /\ \A i \in 1..Len(x) : Padded(x)[i] = x[i]
         /\ Padded(x)[Len(x) + 1] = "F"
         /\ \A i \in (Len(x) + 2)..Len(Padded(x)) : Padded(x)[i] = "A"
         /\ \E q \in Nat : Len(Padded(x)) = Block * q
<1> DEFINE r == (Len(x) + 1) % Pad
           k == (Len(x) + 1) \div Pad
           z == [i \in 1..(Pad - ((Len(x) + 1) % Pad)) |-> "A"]
           y == Append(x, "F")
<1>1. Len(x) \in Nat /\ Pad \in Nat \ {0} /\ Block \in Nat \ {0}
  BY DEF EnvelopeBounds
<1>2. k \in Nat /\ r \in 0..(Pad - 1) /\ Len(x) + 1 = Pad * k + r
  <2>1. Len(x) + 1 \in Nat
    BY <1>1
  <2> QED
    BY <1>1, <2>1, Divided
<1>3. Padded(x) = y \o z
  BY DEF Padded
<1>4. z = [i \in 1..(Pad - r) |-> "A"]
  OBVIOUS
<1> HIDE DEF r, k, z
<1>5. Pad - r \in Nat \ {0}
  BY <1>1, <1>2
<1>6. z \in Seq(Letters) /\ Len(z) = Pad - r
  BY <1>4, <1>5 DEF Letters
<1>7. \A i \in 1..(Pad - r) : z[i] = "A"
  BY <1>4
<1>8. y \in Seq(Letters) /\ Len(y) = Len(x) + 1
  BY DEF Letters
<1>9. y[Len(x) + 1] = "F" /\ \A i \in 1..Len(x) : y[i] = x[i]
  OBVIOUS
<1> HIDE DEF y
<1>10. /\ y \o z \in Seq(Letters) /\ Len(y \o z) = Len(x) + 1 + (Pad - r)
       /\ \A i \in 1..(Len(x) + 1) : (y \o z)[i] = y[i]
       /\ \A i \in (Len(x) + 1 + 1)..Len(y \o z) : (y \o z)[i] = z[i - (Len(x) + 1)]
  <2>1. /\ y \o z \in Seq(Letters) /\ Len(y \o z) = Len(y) + Len(z)
        /\ \A i \in 1..Len(y) : (y \o z)[i] = y[i]
        /\ \A i \in (Len(y) + 1)..Len(y \o z) : (y \o z)[i] = z[i - Len(y)]
    BY <1>6, <1>8, Continued
  <2> QED
    BY <1>6, <1>8, <2>1
<1>11. ASSUME NEW i \in (Len(x) + 2)..Len(y \o z) PROVE (y \o z)[i] = "A"
  <2>1. i \in (Len(x) + 1 + 1)..Len(y \o z) /\ i - (Len(x) + 1) \in 1..(Pad - r)
    BY <1>1, <1>5, <1>10
  <2> QED
    BY <1>7, <1>10, <2>1
<1>12. \E q \in Nat : Len(x) + 1 + (Pad - r) = Block * q
  <2> DEFINE p == Pad \div Block
  <2>1. p \in Nat /\ Pad = Block * p
    BY <1>1, Divided DEF EnvelopeBounds
  <2> HIDE DEF p
  <2>2. Pad * (k + 1) = Pad * k + Pad
    BY <1>1, <1>2
  <2>3. (Block * p) * (k + 1) = Block * (p * (k + 1))
    BY <1>1, <1>2, <2>1
  <2>4. Pad * k \in Nat /\ p * (k + 1) \in Nat
    BY <1>1, <1>2, <2>1
  <2>5. Len(x) + 1 + (Pad - r) = Block * (p * (k + 1))
    BY <1>1, <1>2, <2>1, <2>2, <2>3, <2>4
  <2> QED
    BY <2>4, <2>5
<1>13. /\ Len(x) + 1 \in 1..(Len(x) + 1)
       /\ \A i \in 1..Len(x) : i \in 1..(Len(x) + 1)
       /\ Len(y \o z) > Len(x) + 1
  BY <1>1, <1>5, <1>10
<1> QED
  BY <1>3, <1>9, <1>10, <1>11, <1>12, <1>13

\* Decrypting undoes encrypting, but for the bytes of the first block whose vectors differ:
\* the others are mixed with the block before, which both sides know.
LEMMA Deciphered ==
  ASSUME EnvelopeBounds, NEW P \in Seq(Letters), NEW q \in Nat, Len(P) = Block * q, NEW e, NEW d
  PROVE  LET D == CbcDecrypt(d, CbcEncrypt(e, Blocks(P)))
         IN  /\ D = [i \in 1..Len(P) |-> D[i]]
             /\ \A i \in 1..Len(P) : D[i] = IF i <= Block /\ e[i] # d[i] THEN "?" ELSE P[i]
<1> DEFINE c == CbcEncrypt(e, Blocks(P))
           out == [b \in 1..q |-> Unmixed(c[b], IF b = 1 THEN d ELSE NextVector(d, c[b - 1]))]
<1>1. Block \in Nat \ {0} /\ Block * q \in Nat
  BY DEF EnvelopeBounds
<1>2. Len(P) \div Block = q
  BY <1>1, DividesProduct
<1>3. Blocks(P) = [b \in 1..q |-> [i \in 1..Block |-> P[Block * (b - 1) + i]]]
  BY <1>2 DEF Blocks
<1>4. Len(Blocks(P)) = q
  BY <1>3
<1>5. c = [b \in 1..q |-> [data |-> Blocks(P)[b],
                           mix |-> [i \in 1..Block |-> IF b = 1 THEN e[i] ELSE 1 - b],
                           bytes |-> [i \in 1..Block |-> -b]]]
  BY <1>4 DEF CbcEncrypt
<1>6. Len(c) = q
  BY <1>5
<1>7. CbcDecrypt(d, c) = Unblocked(out)
  BY <1>6 DEF CbcDecrypt
<1>8. Len(out) = q
  OBVIOUS
<1>9. ASSUME NEW b \in 1..q, NEW i \in 1..Block
      PROVE  out[b][i] = IF b = 1 /\ e[i] # d[i] THEN "?" ELSE P[Block * (b - 1) + i]
  <2>1. c[b].data[i] = P[Block * (b - 1) + i]
    BY <1>3, <1>5
  <2>2. CASE b = 1
    <3>1. c[b].mix[i] = e[i]
      BY <1>5, <2>2
    <3>2. out[b] = Unmixed(c[b], d)
      BY <2>2
    <3> QED
      BY <2>1, <2>2, <3>1, <3>2 DEF Unmixed
  <2>3. CASE b # 1
    <3>1. b - 1 \in 1..q
      BY <2>3
    <3>2. c[b].mix[i] = 1 - b
      BY <1>5, <2>3
    <3>3. NextVector(d, c[b - 1])[i] = 1 - b
      <4>1. c[b - 1].bytes = [j \in 1..Block |-> -(b - 1)]
        BY <1>5, <3>1
      <4> QED
        BY <4>1 DEF NextVector
    <3>4. out[b] = Unmixed(c[b], NextVector(d, c[b - 1]))
      BY <2>3
    <3> QED
      BY <2>1, <2>3, <3>2, <3>3, <3>4 DEF Unmixed
  <2> QED
    BY <2>2, <2>3
<1> HIDE DEF c, out
<1>10. Unblocked(out) = [i \in 1..(Block * q) |-> out[(i - 1) \div Block + 1][((i - 1) % Block) + 1]]
  BY <1>8 DEF Unblocked
<1>11. ASSUME NEW i \in 1..(Block * q)
       PROVE  out[(i - 1) \div Block + 1][((i - 1) % Block) + 1] =
                IF i <= Block /\ e[i] # d[i] THEN "?" ELSE P[i]
  <2> DEFINE b == (i - 1) \div Block + 1
             j == ((i - 1) % Block) + 1
  <2>1. b \in 1..q /\ j \in 1..Block
    BY <1>1, InBlocks
  <2>2. Block * (b - 1) + j = i
    <3>1. Block * ((i - 1) \div Block) + ((i - 1) % Block) + 1 = i
      BY <1>1, InBlocks
    <3>2. (i - 1) \div Block \in Nat /\ (i - 1) % Block \in Nat
      BY <1>1, InBlocks
    <3>3. Block * ((i - 1) \div Block) \in Nat /\ b - 1 = (i - 1) \div Block
      BY <1>1, <3>2
    <3> QED
      BY <3>1, <3>2, <3>3
  <2> HIDE DEF b, j
  <2>3. out[b][j] = IF b = 1 /\ e[j] # d[j] THEN "?" ELSE P[i]
    BY <1>9, <2>1, <2>2
  <2>4. CASE b = 1
    <3>1. Block * (b - 1) = 0
      BY <1>1, <2>4
    <3>2. j = i /\ i <= Block
      BY <1>1, <2>1, <2>2, <3>1
    <3> QED
      BY <2>3, <2>4, <3>2 DEF b, j
  <2>5. CASE b # 1
    <3>1. 1 <= b - 1 /\ b - 1 \in Nat
      BY <2>1, <2>5
    <3>2. Block * 1 <= Block * (b - 1)
      BY <1>1, <3>1, ProductGrows
    <3>3. Block * (b - 1) \in Nat
      BY <1>1, <3>1
    <3>4. i > Block
      BY <1>1, <2>1, <2>2, <3>2, <3>3
    <3> QED
      BY <1>1, <2>3, <2>5, <3>4 DEF b, j
  <2> QED
    BY <2>4, <2>5
<1>12. Unblocked(out) = [i \in 1..(Block * q) |-> IF i <= Block /\ e[i] # d[i] THEN "?" ELSE P[i]]
  BY <1>10, <1>11
<1> QED
  BY <1>7, <1>12 DEF c

\* The padding is found at the end of a text whose 'F' and 'A's are whole.
LEMMA Recovered ==
  ASSUME NEW n \in Nat, NEW D, NEW L \in Nat, L > n, D = [i \in 1..L |-> D[i]],
         D[n + 1] # "A", \A i \in (n + 2)..L : D[i] = "A"
  PROVE  Unpadded(D) = [i \in 1..n |-> D[i]]
<1>1. Len(D) = L
  OBVIOUS
<1>2. n + 1 \in Solid(D)
  BY <1>1 DEF Solid
<1>3. \A i \in Solid(D) : i <= n + 1
  <2> SUFFICES ASSUME NEW i \in 1..L, D[i] # "A", ~(i <= n + 1) PROVE FALSE
    BY <1>1 DEF Solid
  <2>1. i \in (n + 2)..L
    OBVIOUS
  <2> QED
    BY <2>1
<1>4. Solid(D) \subseteq Nat
  BY <1>1 DEF Solid
<1> DEFINE final == CHOOSE k \in Solid(D) : \A i \in Solid(D) : i <= k
<1>5. final - 1 = n
  <2>1. final \in Solid(D) /\ \A i \in Solid(D) : i <= final
    BY <1>2, <1>3
  <2> HIDE DEF final
  <2> QED
    BY <1>2, <1>3, <1>4, <2>1
<1>6. Solid(D) # {}
  BY <1>2
<1>7. Unpadded(D) = SubSeq(D, 1, final - 1)
  BY <1>6, Zenon DEF Unpadded
<1> HIDE DEF final
<1>8. SubSeq(D, 1, n) = [i \in 1..n |-> D[i]]
  BY <1>1
<1> QED
  BY <1>5, <1>7, <1>8

\* What is read of a text: all of it when its message is read with the vector it was
\* encrypted with, and all but its first block otherwise.
LEMMA ReadsText ==
  ASSUME EnvelopeBounds, NEW x \in Texts, NEW e, NEW d
  PROVE  /\ Len(x) >= Block =>
              /\ Len(Decrypted(d, Encrypted(e, x))) = Len(x)
              /\ \A i \in (Block + 1)..Len(x) : Decrypted(d, Encrypted(e, x))[i] = x[i]
         /\ e = d => Decrypted(d, Encrypted(e, x)) = x
<1> DEFINE P == Padded(x)
           D == CbcDecrypt(d, Encrypted(e, x))
<1>1. Block \in Nat \ {0} /\ x \in Seq(Letters) /\ Len(x) \in Nat
  BY DEF EnvelopeBounds, Texts, Letters
<1>2. /\ P \in Seq(Letters) /\ Len(P) > Len(x) + 1
      /\ \A i \in 1..Len(x) : P[i] = x[i]
      /\ P[Len(x) + 1] = "F"
      /\ \A i \in (Len(x) + 2)..Len(P) : P[i] = "A"
  BY <1>1, PaddedText
<1>3. PICK q \in Nat : Len(P) = Block * q
  BY <1>1, PaddedText
<1> HIDE DEF P
<1>4. /\ D = [i \in 1..Len(P) |-> D[i]]
      /\ \A i \in 1..Len(P) : D[i] = IF i <= Block /\ e[i] # d[i] THEN "?" ELSE P[i]
  <2>1. D = CbcDecrypt(d, CbcEncrypt(e, Blocks(P)))
    BY DEF Encrypted, P
  <2> HIDE DEF D
  <2> QED
    BY <1>2, <1>3, <2>1, Deciphered
<1>5. Len(P) \in Nat /\ \A i \in 1..Len(P) : P[i] \in Letters
  BY <1>2
<1> HIDE DEF D
<1>6. ASSUME Len(x) >= Block \/ e = d
      PROVE  /\ D[Len(x) + 1] # "A" /\ \A i \in (Len(x) + 2)..Len(P) : D[i] = "A"
             /\ Unpadded(D) = [i \in 1..Len(x) |-> D[i]]
  <2>1. D[Len(x) + 1] # "A"
    <3>1. Len(x) + 1 \in 1..Len(P) /\ (Len(x) + 1 > Block \/ e = d)
      BY <1>1, <1>2, <1>5, <1>6
    <3> QED
      BY <1>1, <1>2, <1>4, <3>1
  <2>2. ASSUME NEW i \in (Len(x) + 2)..Len(P) PROVE D[i] = "A"
    <3>1. i \in 1..Len(P) /\ (i > Block \/ e = d)
      BY <1>1, <1>5, <1>6
    <3> QED
      BY <1>1, <1>2, <1>4, <3>1
  <2>3. D = [i \in 1..Len(P) |-> D[i]]
    BY <1>4
  <2>4. Len(P) > Len(x)
    BY <1>1, <1>2, <1>5
  <2>5. Unpadded(D) = [i \in 1..Len(x) |-> D[i]]
    BY <1>1, <1>5, <2>1, <2>2, <2>3, <2>4, Recovered
  <2> QED
    BY <2>1, <2>2, <2>5
<1>7. \A i \in 1..Len(x) : i > Block \/ e = d => D[i] = x[i]
  BY <1>1, <1>2, <1>4, <1>5
<1>8. ASSUME Len(x) >= Block
      PROVE  /\ Len(Unpadded(D)) = Len(x)
             /\ \A i \in (Block + 1)..Len(x) : Unpadded(D)[i] = x[i]
  <2>1. Unpadded(D) = [i \in 1..Len(x) |-> D[i]]
    BY <1>6, <1>8
  <2>2. ASSUME NEW i \in (Block + 1)..Len(x) PROVE D[i] = x[i] /\ i \in 1..Len(x)
    BY <1>1, <1>7
  <2> QED
    BY <1>1, <2>1, <2>2
<1>9. ASSUME e = d PROVE Unpadded(D) = x
  <2>1. Unpadded(D) = [i \in 1..Len(x) |-> D[i]]
    BY <1>6, <1>9
  <2>2. x = [i \in 1..Len(x) |-> x[i]]
    BY <1>1
  <2> QED
    BY <1>7, <1>9, <2>1, <2>2
<1> QED
  BY <1>8, <1>9 DEF Decrypted, D

\* A thread that had the vector to itself since its first byte: it is in the shared
\* array as far as it was written, in the thread's context as far as it was copied.
SetSoFar(t) == \A i \in 1..(spot[t] - 1) : iv[i] = vector[t][i]
CopiedSoFar(t) == iv = vector[t] /\ \A i \in 1..(spot[t] - 1) : context[t][i] = vector[t][i]
HoldsVector(t) ==
  alone[t] => /\ doing[t] \in {"set in", "set out"} => SetSoFar(t)
              /\ doing[t] \in {"copy in", "copy out"} => CopiedSoFar(t)
              /\ doing[t] \in {"decrypt", "encrypt"} => context[t] = vector[t]

\* What the reader made of its message is what ReadsText says.
Outcome(t) ==
  HasRead(t) =>
    /\ Len(text[t]) >= Block =>
         /\ Len(output[t]) = Len(text[t])
         /\ \A i \in (Block + 1)..Len(text[t]) : output[t][i] = text[t][i]
    /\ alone[t] => output[t] = text[t]

\* Where a thread may be.
Stages == {"wait", "set in", "copy in", "decrypt", "handle", "set out", "copy out", "encrypt", "end"}

\* A thread is at the first byte unless it is between bytes, and has a vector once a
\* request has arrived.
EnvelopeTypeOK ==
  /\ iv \in [1..Block -> Nat]
  /\ doing \in [Threads -> Stages]
  /\ spot \in [Threads -> 1..Block]
  /\ \A t \in Threads : doing[t] \notin Sharing => spot[t] = 1
  /\ context \in [Threads -> [1..Block -> Nat]]
  /\ DOMAIN vector = Threads
  /\ \A t \in Threads : doing[t] # "wait" => vector[t] \in [1..Block -> Nat]
  /\ DOMAIN text = Threads /\ DOMAIN output = Threads
  /\ alone \in [Threads -> BOOLEAN]

\* The inductive invariant.
EnvelopeIInv == EnvelopeTypeOK /\ \A t \in Threads : HoldsVector(t) /\ Outcome(t)

\* A thread at a byte of the vector goes to the next byte, or on after the last.
LEMMA Onwards ==
  ASSUME EnvelopeBounds, EnvelopeTypeOK, NEW t \in Threads, NEW after \in Stages, Onward(t, after)
  PROVE  /\ spot' \in [Threads -> 1..Block] /\ doing' \in [Threads -> Stages]
         /\ \A u \in Threads \ {t} : spot'[u] = spot[u] /\ doing'[u] = doing[u]
         /\ \/ spot[t] < Block /\ spot'[t] = spot[t] + 1 /\ doing'[t] = doing[t]
            \/ spot[t] = Block /\ spot'[t] = 1 /\ doing'[t] = after
<1>1. /\ Block \in Nat \ {0} /\ spot[t] \in 1..Block /\ spot \in [Threads -> 1..Block]
      /\ doing \in [Threads -> Stages]
  BY DEF EnvelopeBounds, EnvelopeTypeOK
<1>2. CASE spot[t] < Block
  <2>1. spot[t] + 1 \in 1..Block
    BY <1>1, <1>2
  <2> QED
    BY <1>1, <1>2, <2>1 DEF Onward
<1>3. CASE ~(spot[t] < Block)
  <2>1. spot[t] = Block /\ 1 \in 1..Block
    BY <1>1, <1>3
  <2> QED
    BY <1>1, <1>3, <2>1 DEF Onward
<1> QED
  BY <1>2, <1>3

\* Where SetByte leaves its thread.
LEMMA Sets ==
  ASSUME EnvelopeBounds, EnvelopeTypeOK, NEW t \in Threads, SetByte(t)
  PROVE  /\ spot' \in [Threads -> 1..Block] /\ doing' \in [Threads -> Stages]
         /\ \A u \in Threads \ {t} : spot'[u] = spot[u] /\ doing'[u] = doing[u]
         /\ doing[t] \in {"set in", "set out"}
         /\ \/ spot[t] < Block /\ spot'[t] = spot[t] + 1 /\ doing'[t] = doing[t]
            \/ spot[t] = Block /\ spot'[t] = 1 /\ doing'[t] \in {"copy in", "copy out"}
<1>1. PICK after \in {"copy in", "copy out"} : Onward(t, after)
  BY DEF SetByte
<1>2. after \in Stages
  BY DEF Stages
<1> QED
  BY <1>1, <1>2, Onwards DEF SetByte

\* Where CopyByte leaves its thread.
LEMMA Copies ==
  ASSUME EnvelopeBounds, EnvelopeTypeOK, NEW t \in Threads, CopyByte(t)
  PROVE  /\ spot' \in [Threads -> 1..Block] /\ doing' \in [Threads -> Stages]
         /\ \A u \in Threads \ {t} : spot'[u] = spot[u] /\ doing'[u] = doing[u]
         /\ doing[t] \in {"copy in", "copy out"}
         /\ \/ spot[t] < Block /\ spot'[t] = spot[t] + 1 /\ doing'[t] = doing[t]
            \/ spot[t] = Block /\ spot'[t] = 1 /\ doing'[t] \in {"decrypt", "encrypt"}
<1>1. PICK after \in {"decrypt", "encrypt"} : Onward(t, after)
  BY DEF CopyByte
<1>2. after \in Stages
  BY DEF Stages
<1> QED
  BY <1>1, <1>2, Onwards DEF CopyByte

\* Every step keeps the type.
LEMMA EnvelopeType ==
  ASSUME EnvelopeBounds, EnvelopeTypeOK, EnvelopeNext PROVE EnvelopeTypeOK'
<1>1. Block \in Nat \ {0}
  BY DEF EnvelopeBounds
<1>2. PICK t \in Threads : \/ RequestArrives(t) \/ SetByte(t) \/ CopyByte(t) \/ Decrypt(t)
                           \/ HandlerReplies(t) \/ Encrypt(t)
  BY DEF EnvelopeNext
<1>3. CASE RequestArrives(t)
  <2>1. RequestVector(t) \in [1..Block -> Nat]
    BY DEF RequestVector, EnvelopeBounds
  <2> QED
    BY <1>1, <1>3, <2>1 DEF RequestArrives, EnvelopeTypeOK, Sharing, Stages
<1>4. CASE HandlerReplies(t)
  <2>1. AnswerVector(t) \in [1..Block -> Nat]
    BY DEF AnswerVector, EnvelopeBounds
  <2> QED
    BY <1>1, <1>4, <2>1 DEF HandlerReplies, EnvelopeTypeOK, Sharing, Stages
<1>5. CASE SetByte(t)
  <2>1. spot[t] \in 1..Block /\ vector[t] \in [1..Block -> Nat]
    BY <1>5 DEF SetByte, EnvelopeTypeOK
  <2>2. iv' \in [1..Block -> Nat]
    BY <1>5, <2>1 DEF SetByte, EnvelopeTypeOK
  <2>3. alone' \in [Threads -> BOOLEAN]
    BY <1>5, Zenon DEF SetByte, EnvelopeTypeOK
  <2>4. /\ spot' \in [Threads -> 1..Block] /\ doing' \in [Threads -> Stages]
    BY <1>5, Sets
  <2>5. \A u \in Threads : doing'[u] # "wait" => doing[u] # "wait"
    BY <1>5, Sets
  <2>6. \A u \in Threads : doing'[u] \notin Sharing => spot'[u] = 1
    BY <1>5, Sets DEF EnvelopeTypeOK, Sharing
  <2> QED
    BY <1>5, <2>2, <2>3, <2>4, <2>5, <2>6 DEF SetByte, EnvelopeTypeOK
<1>6. CASE CopyByte(t)
  <2>1. spot[t] \in 1..Block /\ iv \in [1..Block -> Nat]
    BY DEF EnvelopeTypeOK
  <2>2. context' \in [Threads -> [1..Block -> Nat]]
    BY <1>6, <2>1 DEF CopyByte, EnvelopeTypeOK
  <2>3. /\ spot' \in [Threads -> 1..Block] /\ doing' \in [Threads -> Stages]
    BY <1>6, Copies
  <2>4. \A u \in Threads : doing'[u] # "wait" => doing[u] # "wait"
    BY <1>6, Copies
  <2>5. \A u \in Threads : doing'[u] \notin Sharing => spot'[u] = 1
    BY <1>6, Copies DEF EnvelopeTypeOK, Sharing
  <2> QED
    BY <1>6, <2>2, <2>3, <2>4, <2>5 DEF CopyByte, EnvelopeTypeOK
<1>7. CASE Decrypt(t)
  BY <1>7 DEF Decrypt, EnvelopeTypeOK, Sharing, Stages
<1>8. CASE Encrypt(t)
  BY <1>8 DEF Encrypt, EnvelopeTypeOK, Sharing, Stages
<1> QED
  BY <1>2, <1>3, <1>4, <1>5, <1>6, <1>7, <1>8

\* A thread's own step keeps what is known of its vector, and any other thread's.
LEMMA OwnKept ==
  ASSUME EnvelopeBounds, EnvelopeTypeOK, NEW t \in Threads, NEW u \in Threads, HoldsVector(u),
         \/ RequestArrives(t) \/ SetByte(t) \/ CopyByte(t) \/ Decrypt(t)
         \/ HandlerReplies(t) \/ Encrypt(t)
  PROVE  HoldsVector(u)'
<1>1. Block \in Nat \ {0}
  BY DEF EnvelopeBounds
<1>2. CASE RequestArrives(t)
  <2>1. doing[t] = "wait" => spot[t] = 1
    BY DEF EnvelopeTypeOK, Sharing
  <2>2. CASE u = t
    <3>1. doing'[t] \in {"set in", "set out"}
      BY <1>2 DEF RequestArrives, EnvelopeTypeOK
    <3>2. spot'[t] = 1
      BY <1>2, <2>1 DEF RequestArrives
    <3>3. SetSoFar(t)'
      BY <3>2 DEF SetSoFar
    <3> QED
      BY <2>2, <3>1, <3>3 DEF HoldsVector
  <2>3. CASE u # t
    BY <1>2, <2>3 DEF RequestArrives, EnvelopeTypeOK, HoldsVector, SetSoFar, CopiedSoFar
  <2> QED
    BY <2>2, <2>3
<1>3. CASE HandlerReplies(t)
  <2>1. doing[t] = "handle" => spot[t] = 1
    BY DEF EnvelopeTypeOK, Sharing
  <2>2. CASE u = t
    <3>1. doing'[t] \in {"set in", "set out"}
      BY <1>3 DEF HandlerReplies, EnvelopeTypeOK
    <3>2. spot'[t] = 1
      BY <1>3, <2>1 DEF HandlerReplies
    <3>3. SetSoFar(t)'
      BY <3>2 DEF SetSoFar
    <3> QED
      BY <2>2, <3>1, <3>3 DEF HoldsVector
  <2>3. CASE u # t
    BY <1>3, <2>3 DEF HandlerReplies, EnvelopeTypeOK, HoldsVector, SetSoFar, CopiedSoFar
  <2> QED
    BY <2>2, <2>3
<1>4. CASE SetByte(t)
  <2>1. CASE u = t
    <3>1. spot[t] \in 1..Block /\ vector'[t] = vector[t] /\ vector[t] \in [1..Block -> Nat]
      BY <1>4 DEF SetByte, EnvelopeTypeOK
    <3>2. alone'[t] => spot[t] = 1 \/ \A i \in 1..(spot[t] - 1) : iv[i] = vector[t][i]
      BY <1>4, <2>1 DEF SetByte, EnvelopeTypeOK, HoldsVector, SetSoFar
    <3>3. /\ \A i \in 1..Block : i # spot[t] => iv'[i] = iv[i]
          /\ iv'[spot[t]] = vector[t][spot[t]] /\ DOMAIN iv' = 1..Block
      BY <1>4, <3>1 DEF SetByte, EnvelopeTypeOK
    <3>4. ASSUME alone'[t], NEW i \in 1..spot[t] PROVE iv'[i] = vector[t][i]
      <4>1. CASE i = spot[t]
        BY <3>3, <4>1
      <4>2. CASE i # spot[t]
        <5>1. i \in 1..Block /\ i \in 1..(spot[t] - 1) /\ spot[t] # 1
          BY <1>1, <3>1, <4>2
        <5> QED
          BY <3>2, <3>3, <3>4, <4>2, <5>1
      <4> QED
        BY <4>1, <4>2
    <3>5. \/ spot'[t] = spot[t] + 1 /\ doing'[t] = doing[t]
          \/ spot[t] = Block /\ spot'[t] = 1 /\ doing'[t] \in {"copy in", "copy out"}
      BY <1>4, Sets
    <3>6. doing[t] \in {"set in", "set out"}
      BY <1>4 DEF SetByte
    <3>7. CASE spot'[t] = spot[t] + 1 /\ doing'[t] = doing[t]
      <4>1. spot'[t] - 1 = spot[t]
        BY <3>1, <3>7
      <4>2. alone'[t] => SetSoFar(t)'
        BY <3>1, <3>4, <4>1 DEF SetSoFar
      <4> QED
        BY <2>1, <3>6, <3>7, <4>2 DEF HoldsVector
    <3>8. CASE spot[t] = Block /\ spot'[t] = 1 /\ doing'[t] \in {"copy in", "copy out"}
      <4>1. iv' = [i \in 1..Block |-> iv'[i]]
        BY <1>4 DEF SetByte, EnvelopeTypeOK
      <4>2. alone'[t] => iv' = vector[t]
        BY <3>1, <3>4, <3>8, <4>1
      <4>3. vector'[t] = vector[t] /\ spot'[t] = 1
        BY <3>1, <3>8
      <4>4. alone'[t] => CopiedSoFar(t)'
        BY <4>2, <4>3 DEF CopiedSoFar
      <4> QED
        BY <2>1, <3>8, <4>4 DEF HoldsVector
    <3> QED
      BY <3>5, <3>7, <3>8
  <2>2. CASE u # t
    <3>1. doing'[u] = doing[u] /\ spot'[u] = spot[u]
      BY <1>4, <2>2, Sets
    <3>2. alone'[u] => alone[u] /\ doing[u] \notin Sharing
      BY <1>4, <2>2 DEF SetByte
    <3> QED
      BY <1>4, <3>1, <3>2 DEF SetByte, HoldsVector, Sharing, SetSoFar, CopiedSoFar
  <2> QED
    BY <2>1, <2>2
<1>5. CASE CopyByte(t)
  <2>1. CASE u = t
    <3>1. spot[t] \in 1..Block /\ vector'[t] = vector[t] /\ vector[t] \in [1..Block -> Nat] /\ alone' = alone
      BY <1>5 DEF CopyByte, EnvelopeTypeOK
    <3>2. alone[t] => iv = vector[t] /\ \A i \in 1..(spot[t] - 1) : context[t][i] = vector[t][i]
      BY <1>5, <2>1 DEF CopyByte, HoldsVector, CopiedSoFar, SetSoFar
    <3>3. /\ \A i \in 1..Block : i # spot[t] => context'[t][i] = context[t][i]
          /\ context'[t][spot[t]] = iv[spot[t]] /\ context'[t] = [i \in 1..Block |-> context'[t][i]]
          /\ iv' = iv
      BY <1>5, <3>1 DEF CopyByte, EnvelopeTypeOK
    <3>4. alone[t] => \A i \in 1..spot[t] : context'[t][i] = vector[t][i]
      BY <1>1, <3>1, <3>2, <3>3
    <3>5. \/ spot'[t] = spot[t] + 1 /\ doing'[t] = doing[t]
          \/ spot[t] = Block /\ spot'[t] = 1 /\ doing'[t] \in {"decrypt", "encrypt"}
      BY <1>5, Copies
    <3>6. doing[t] \in {"copy in", "copy out"}
      BY <1>5 DEF CopyByte
    <3>7. CASE spot'[t] = spot[t] + 1 /\ doing'[t] = doing[t]
      <4>1. spot'[t] - 1 = spot[t]
        BY <3>1, <3>7
      <4>2. alone'[t] => CopiedSoFar(t)'
        BY <3>1, <3>2, <3>3, <3>4, <4>1 DEF CopiedSoFar
      <4> QED
        BY <2>1, <3>6, <3>7, <4>2 DEF HoldsVector
    <3>8. CASE spot[t] = Block /\ spot'[t] = 1 /\ doing'[t] \in {"decrypt", "encrypt"}
      <4>1. alone[t] => context'[t] = vector[t]
        BY <3>1, <3>3, <3>4, <3>8
      <4> QED
        BY <2>1, <3>1, <3>8, <4>1 DEF HoldsVector
    <3> QED
      BY <3>5, <3>7, <3>8
  <2>2. CASE u # t
    <3>1. doing'[u] = doing[u] /\ spot'[u] = spot[u] /\ context'[u] = context[u]
      BY <1>5, <2>2, Copies DEF CopyByte, EnvelopeTypeOK
    <3> QED
      BY <1>5, <3>1 DEF CopyByte, HoldsVector, CopiedSoFar, SetSoFar
  <2> QED
    BY <2>1, <2>2
<1>6. CASE Decrypt(t)
  BY <1>6 DEF Decrypt, EnvelopeTypeOK, HoldsVector, SetSoFar, CopiedSoFar
<1>7. CASE Encrypt(t)
  BY <1>7 DEF Encrypt, EnvelopeTypeOK, HoldsVector, SetSoFar, CopiedSoFar
<1> QED
  BY <1>2, <1>3, <1>4, <1>5, <1>6, <1>7

\* What was read stays as it is, and what is read now is what ReadsText says.
LEMMA OutcomeKept ==
  ASSUME EnvelopeBounds, EnvelopeTypeOK, NEW t \in Threads, NEW u \in Threads, HoldsVector(u), Outcome(u),
         \/ RequestArrives(t) \/ SetByte(t) \/ CopyByte(t) \/ Decrypt(t)
         \/ HandlerReplies(t) \/ Encrypt(t)
  PROVE  Outcome(u)'
<1>1. CASE RequestArrives(t)
  BY <1>1 DEF RequestArrives, EnvelopeTypeOK, Outcome, HasRead
<1>2. CASE HandlerReplies(t)
  BY <1>2 DEF HandlerReplies, EnvelopeTypeOK, Outcome, HasRead
<1>3. CASE SetByte(t)
  <2>1. \A v \in Threads : doing'[v] \in {"handle", "end"} => v # t /\ doing[v] = doing'[v]
    BY <1>3, Sets
  <2>2. u # t /\ alone'[u] => alone[u]
    BY <1>3 DEF SetByte
  <2> QED
    BY <1>3, <2>1, <2>2 DEF SetByte, EnvelopeTypeOK, Outcome, HasRead
<1>4. CASE CopyByte(t)
  <2>1. \A v \in Threads : doing'[v] \in {"handle", "end"} => v # t /\ doing[v] = doing'[v]
    BY <1>4, Copies
  <2> QED
    BY <1>4, <2>1 DEF CopyByte, EnvelopeTypeOK, Outcome, HasRead
<1>5. CASE Decrypt(t)
  <2>1. CASE u # t
    BY <1>5, <2>1 DEF Decrypt, EnvelopeTypeOK, Outcome, HasRead
  <2>2. CASE u = t
    <3>1. PICK x \in Texts : /\ text'[t] = x
                             /\ output'[t] = Decrypted(context[t], Encrypted(vector[t], x))
      BY <1>5 DEF Decrypt, EnvelopeTypeOK
    <3>2. alone'[t] => context[t] = vector[t]
      BY <1>5, <2>2 DEF Decrypt, HoldsVector
    <3> QED
      BY <2>2, <3>1, <3>2, ReadsText DEF Outcome
  <2> QED
    BY <2>1, <2>2
<1>6. CASE Encrypt(t)
  <2>1. CASE u # t
    BY <1>6, <2>1 DEF Encrypt, EnvelopeTypeOK, Outcome, HasRead
  <2>2. CASE u = t
    <3>1. PICK x \in Texts : /\ text'[t] = x
                             /\ output'[t] = Decrypted(vector[t], Encrypted(context[t], x))
      BY <1>6 DEF Encrypt, Prefix, EnvelopeTypeOK
    <3>2. alone'[t] => context[t] = vector[t]
      BY <1>6, <2>2 DEF Encrypt, HoldsVector
    <3> QED
      BY <2>2, <3>1, <3>2, ReadsText DEF Outcome
  <2> QED
    BY <2>1, <2>2
<1> QED
  BY <1>1, <1>2, <1>3, <1>4, <1>5, <1>6

\* Every step keeps the invariant.
LEMMA EnvelopeStep ==
  ASSUME EnvelopeBounds, EnvelopeIInv, [EnvelopeNext]_envelopeVars
  PROVE  EnvelopeIInv'
<1>1. CASE EnvelopeNext
  <2>1. PICK t \in Threads : \/ RequestArrives(t) \/ SetByte(t) \/ CopyByte(t) \/ Decrypt(t)
                             \/ HandlerReplies(t) \/ Encrypt(t)
    BY <1>1 DEF EnvelopeNext
  <2>2. EnvelopeTypeOK'
    BY <1>1, EnvelopeType DEF EnvelopeIInv
  <2>3. \A u \in Threads : HoldsVector(u)' /\ Outcome(u)'
    BY <2>1, OwnKept, OutcomeKept DEF EnvelopeIInv
  <2> QED
    BY <2>2, <2>3 DEF EnvelopeIInv
<1>2. CASE UNCHANGED envelopeVars
  <2>1. EnvelopeTypeOK'
    BY <1>2 DEF envelopeVars, EnvelopeIInv, EnvelopeTypeOK
  <2>2. ASSUME NEW u \in Threads PROVE HoldsVector(u)' /\ Outcome(u)'
    <3>1. HoldsVector(u) /\ Outcome(u)
      BY DEF EnvelopeIInv
    <3>2. HoldsVector(u)'
      BY <1>2, <3>1 DEF envelopeVars, HoldsVector, SetSoFar, CopiedSoFar
    <3>3. Outcome(u)'
      BY <1>2, <3>1 DEF envelopeVars, Outcome, HasRead
    <3> QED
      BY <3>2, <3>3
  <2> QED
    BY <2>1, <2>2 DEF EnvelopeIInv
<1> QED
  BY <1>1, <1>2

\* It holds at the beginning.
LEMMA EnvelopeStart ==
  ASSUME EnvelopeBounds, EnvelopeInit PROVE EnvelopeIInv
<1>1. Block \in Nat \ {0}
  BY DEF EnvelopeBounds
<1>2. EnvelopeTypeOK
  BY <1>1 DEF EnvelopeInit, EnvelopeTypeOK, Stages
<1> QED
  BY <1>2 DEF EnvelopeInit, EnvelopeIInv, HoldsVector, Outcome, HasRead

\* What the worker's network threads encrypt and decrypt is read as it was written, but
\* for the first block of those that met at the vector they share.
THEOREM EnvelopeIsSound ==
  ASSUME EnvelopeBounds PROVE EnvelopeSpec => []EnvelopeSound
<1>1. EnvelopeInit => EnvelopeIInv
  BY EnvelopeStart
<1>2. EnvelopeIInv /\ [EnvelopeNext]_envelopeVars => EnvelopeIInv'
  BY EnvelopeStep
<1>3. EnvelopeIInv => EnvelopeSound
  BY DEF EnvelopeIInv, Outcome, EnvelopeSound, OnlyFirstBlock, WholeWhenAlone
<1> QED
  BY <1>1, <1>2, <1>3, PTL DEF EnvelopeSpec

-----------------------------------------------------------------------------
(* The gzip filter.  Two things carry it: the ring is a queue (what is put *)
(* follows what is in it, and what is taken leads it, wherever the two     *)
(* places stand); and the end of the compressed stream is made once, with  *)
(* the body's end, and is the last thing put into the ring, after which    *)
(* the input is not ready.                                                 *)

\* Sequences of integers: what joining two gives.
LEMMA JoinedInts ==
  ASSUME NEW u \in Seq(Int), NEW v \in Seq(Int)
  PROVE  /\ u \o v \in Seq(Int) /\ Len(u \o v) = Len(u) + Len(v)
         /\ u \o <<>> = u
         /\ v # <<>> => u \o v # <<>> /\ Last(u \o v) = v[Len(v)]
<1>1. /\ u \o v \in Seq(Int) /\ Len(u \o v) = Len(u) + Len(v)
      /\ Len(u) \in Nat /\ Len(v) \in Nat
  OBVIOUS
<1>2. u \o <<>> = u
  OBVIOUS
<1>3. ASSUME v # <<>> PROVE u \o v # <<>> /\ Last(u \o v) = v[Len(v)]
  <2>1. Len(v) > 0
    BY <1>3
  <2>2. (u \o v)[Len(u) + Len(v)] = v[Len(v)]
    BY <1>1, <2>1
  <2> QED
    BY <1>1, <2>1, <2>2 DEF Last
<1> QED
  BY <1>1, <1>2, <1>3

\* A sequence is its two parts.
LEMMA PartedInts ==
  ASSUME NEW u \in Seq(Int), NEW n \in 0..Len(u)
  PROVE  /\ SubSeq(u, 1, n) \in Seq(Int) /\ SubSeq(u, n + 1, Len(u)) \in Seq(Int)
         /\ SubSeq(u, 1, n) \o SubSeq(u, n + 1, Len(u)) = u
<1>1. n \in Nat /\ Len(u) \in Nat /\ n <= Len(u) /\ n + 1 \in Int /\ 1 \in Int /\ n \in Int
  OBVIOUS
<1>2. (\A i \in 1..n : u[i] \in Int) /\ \A i \in (n + 1)..Len(u) : u[i] \in Int
  BY <1>1
<1>3. SubSeq(u, 1, n) \in Seq(Int)
  BY <1>1, <1>2, SubSeqProperties, Zenon
<1>4. SubSeq(u, n + 1, Len(u)) \in Seq(Int)
  <2>1. Len(u) \in Int
    BY <1>1
  <2> QED
    BY <1>1, <1>2, <2>1, SubSeqProperties, Zenon
<1>5. SubSeq(u, 1, n) \o SubSeq(u, n + 1, Len(u)) = SubSeq(u, 1, Len(u))
  <2>1. 1 \in 1..(Len(u) + 1) /\ n \in (1 - 1)..Len(u) /\ Len(u) \in n..Len(u)
    BY <1>1
  <2> QED
    BY <2>1, ConcatAdjacentSubSeq, Zenon
<1>6. SubSeq(u, 1, Len(u)) = u
  BY SubSeqFull, Zenon
<1> QED
  BY <1>3, <1>4, <1>5, <1>6

\* The types of the ring.
RingOK ==
  /\ read \in 0..(Room - 1) /\ write \in 0..(Room - 1) /\ lastWrite \in BOOLEAN
  /\ ring \in [0..(Room - 1) -> Int]

\* What is held, what can be read and what can be written in one piece.
LEMMA RingPieces ==
  ASSUME GzipBounds, RingOK
  PROVE  /\ Room \in Nat \ {0}
         /\ Held \in 0..Room /\ Readable \in 0..Held /\ Writable \in 0..(Room - Held)
         /\ read + Readable <= Room /\ write + Writable <= Room
         /\ IsEmpty <=> Held = 0
         /\ Readable = 0 <=> Held = 0
         /\ IsFull <=> Writable = 0
         /\ write > read => Readable = Held
         /\ write = 0 => Readable = Held
<1>1. Room \in Nat \ {0}
  BY DEF GzipBounds
<1> QED
  BY <1>1 DEF RingOK, IsFull, IsEmpty, Readable, Writable, Held

\* The bytes that are held are integers.
LEMMA ContentIsSeq ==
  ASSUME GzipBounds, RingOK
  PROVE  /\ Content \in Seq(Int) /\ Len(Content) = Held
         /\ \A i \in 1..Held : /\ Around(read + i - 1) \in 0..(Room - 1)
                               /\ Content[i] = ring[Around(read + i - 1)]
<1>1. Room \in Nat \ {0} /\ Held \in 0..Room
  BY RingPieces
<1>2. \A i \in 1..Held : Around(read + i - 1) \in 0..(Room - 1)
  BY <1>1 DEF RingOK, Around
<1>3. \A i \in 1..Held : ring[Around(read + i - 1)] \in Int
  BY <1>2 DEF RingOK
<1> QED
  BY <1>1, <1>2, <1>3 DEF Content

\* Two sequences that follow one another, member by member.
LEMMA JoinIs ==
  ASSUME NEW q \in Seq(Int), NEW s \in Seq(Int), NEW t \in Seq(Int),
         Len(t) = Len(q) + Len(s),
         \A i \in 1..Len(q) : t[i] = q[i],
         \A i \in 1..Len(s) : t[Len(q) + i] = s[i]
  PROVE  t = q \o s
<1>1. Len(q) \in Nat /\ Len(s) \in Nat /\ Len(t) \in Nat
  OBVIOUS
<1>2. /\ q \o s \in Seq(Int) /\ Len(q \o s) = Len(t)
      /\ \A i \in 1..(Len(q) + Len(s)) : (q \o s)[i] = IF i <= Len(q) THEN q[i] ELSE s[i - Len(q)]
  BY ConcatProperties
<1>3. ASSUME NEW i \in 1..Len(t) PROVE t[i] = (q \o s)[i]
  <2>1. CASE i <= Len(q)
    BY <1>1, <1>2, <2>1
  <2>2. CASE i > Len(q)
    <3>1. i - Len(q) \in 1..Len(s) /\ Len(q) + (i - Len(q)) = i /\ ~(i <= Len(q))
      BY <1>1, <2>2
    <3>2. t[Len(q) + (i - Len(q))] = s[i - Len(q)]
      BY <3>1
    <3> QED
      BY <1>2, <3>1, <3>2
  <2> QED
    BY <1>1, <2>1, <2>2
<1> QED
  BY <1>2, <1>3, SeqEqual

\* Joining is associative.
LEMMA GroupedInts ==
  ASSUME NEW u \in Seq(Int), NEW v \in Seq(Int), NEW w \in Seq(Int)
  PROVE  (u \o v) \o w = u \o (v \o w)
<1> DEFINE t == (u \o v) \o w
           r == v \o w
<1>1. /\ Len(u) \in Nat /\ Len(v) \in Nat /\ Len(w) \in Nat
      /\ u \o v \in Seq(Int) /\ Len(u \o v) = Len(u) + Len(v)
  OBVIOUS
<1>2. /\ t \in Seq(Int) /\ Len(t) = (Len(u) + Len(v)) + Len(w)
      /\ \A i \in 1..(Len(u) + Len(v)) : t[i] = (u \o v)[i]
      /\ \A i \in 1..Len(w) : t[(Len(u) + Len(v)) + i] = w[i]
  BY <1>1
<1>3. /\ \A i \in 1..Len(u) : (u \o v)[i] = u[i]
      /\ \A i \in 1..Len(v) : (u \o v)[Len(u) + i] = v[i]
  BY <1>1
<1>4. /\ r \in Seq(Int) /\ Len(r) = Len(v) + Len(w)
      /\ \A i \in 1..Len(v) : r[i] = v[i]
      /\ \A i \in 1..Len(w) : r[Len(v) + i] = w[i]
  BY <1>1
<1>5. \A i \in 1..Len(u) : t[i] = u[i]
  BY <1>1, <1>2, <1>3
<1>6. ASSUME NEW i \in 1..Len(r) PROVE t[Len(u) + i] = r[i]
  <2>1. CASE i <= Len(v)
    BY <1>1, <1>2, <1>3, <1>4, <2>1
  <2>2. CASE ~(i <= Len(v))
    <3>1. i - Len(v) \in 1..Len(w) /\ i = Len(v) + (i - Len(v))
          /\ Len(u) + i = (Len(u) + Len(v)) + (i - Len(v))
      BY <1>1, <1>4, <2>2
    <3> QED
      BY <1>2, <1>4, <3>1
  <2> QED
    BY <2>1, <2>2
<1>7. Len(t) = Len(u) + Len(r)
  BY <1>1, <1>2, <1>4
<1> HIDE DEF t, r
<1>8. t = u \o r
  BY <1>2, <1>4, <1>5, <1>6, <1>7, JoinIs
<1> QED
  BY <1>8 DEF t, r

\* The bytes that are put follow those that are held, wherever the ring wraps.
LEMMA PutFollows ==
  ASSUME GzipBounds, RingOK, NEW bytes \in Seq(Int), NEW n \in 0..Writable,
         n <= Len(bytes), Put(bytes, n)
  PROVE  /\ RingOK' /\ Held' = Held + n
         /\ Content' = Content \o SubSeq(bytes, 1, n)
<1>1. /\ Room \in Nat \ {0} /\ Held \in 0..Room /\ Writable \in 0..(Room - Held)
      /\ write + Writable <= Room /\ Len(bytes) \in Nat
  BY RingPieces
<1>2. /\ read \in 0..(Room - 1) /\ write \in 0..(Room - 1) /\ lastWrite \in BOOLEAN
      /\ ring \in [0..(Room - 1) -> Int]
  BY DEF RingOK
<1>3. n \in 0..(Room - Held) /\ write + n <= Room
  BY <1>1, <1>2
<1>4. /\ write' = IF write + n < Room THEN write + n ELSE 0
      /\ lastWrite' = (lastWrite \/ n > 0) /\ read' = read
  BY <1>1, <1>2, <1>3 DEF Put, Around
<1>5. /\ ring' \in [0..(Room - 1) -> Int]
      /\ \A p \in 0..(Room - 1) :
           ring'[p] = IF p >= write /\ p < write + n THEN bytes[p - write + 1] ELSE ring[p]
  <2>1. \A p \in 0..(Room - 1) : p >= write /\ p < write + n => p - write + 1 \in 1..Len(bytes)
    BY <1>1, <1>2
  <2>2. \A i \in 1..Len(bytes) : bytes[i] \in Int
    OBVIOUS
  <2> QED
    BY <1>2, <2>1, <2>2 DEF Put
<1>6. RingOK'
  BY <1>1, <1>2, <1>3, <1>4, <1>5 DEF RingOK
<1>7. Held' = Held + n
  <2>1. IsFull' <=> read = write' /\ (lastWrite \/ n > 0)
    BY <1>4 DEF IsFull
  <2>2. CASE n = 0
    BY <1>1, <1>2, <1>3, <1>4, <2>1, <2>2 DEF Held, IsFull
  <2>3. CASE n > 0
    BY <1>1, <1>2, <1>3, <1>4, <2>1, <2>3 DEF Held, IsFull
  <2> QED
    BY <1>1, <1>3, <2>2, <2>3
<1>8. /\ Content' \in Seq(Int) /\ Len(Content') = Held'
      /\ \A i \in 1..Held' : Content'[i] = ring'[Around(read + i - 1)]
  <2>1. \A i \in 1..Held' : Around(read + i - 1) \in 0..(Room - 1)
    BY <1>1, <1>2, <1>3, <1>7 DEF Around
  <2>2. \A i \in 1..Held' : ring'[Around(read + i - 1)] \in Int
    BY <1>5, <2>1
  <2>3. Held' \in Nat
    BY <1>1, <1>3, <1>7
  <2> DEFINE h == Held'
             b == ring'
  <2>4. Content' = [i \in 1..h |-> b[Around(read + i - 1)]]
    BY <1>4 DEF Content, Around
  <2>5. h \in Nat /\ \A i \in 1..h : b[Around(read + i - 1)] \in Int
    BY <2>2, <2>3
  <2> HIDE DEF h, b
  <2>6. /\ [i \in 1..h |-> b[Around(read + i - 1)]] \in Seq(Int)
        /\ Len([i \in 1..h |-> b[Around(read + i - 1)]]) = h
        /\ \A i \in 1..h : [j \in 1..h |-> b[Around(read + j - 1)]][i] = b[Around(read + i - 1)]
    BY <2>5
  <2> QED
    BY <2>4, <2>6 DEF h, b
<1>9. /\ Content \in Seq(Int) /\ Len(Content) = Held
      /\ \A i \in 1..Held : Content[i] = ring[Around(read + i - 1)]
  BY ContentIsSeq
<1>10. /\ SubSeq(bytes, 1, n) \in Seq(Int) /\ Len(SubSeq(bytes, 1, n)) = n
       /\ \A j \in 1..n : SubSeq(bytes, 1, n)[j] = bytes[j]
  BY <1>1, <1>3
<1>11. ASSUME NEW i \in 1..Held PROVE Content'[i] = Content[i]
  <2> DEFINE p == Around(read + i - 1)
  <2>1. p \in 0..(Room - 1) /\ ~(p >= write /\ p < write + n)
    BY <1>1, <1>2, <1>3 DEF Around, Held, IsFull
  <2>2. ring'[p] = ring[p]
    BY <1>5, <2>1
  <2>3. i \in 1..Held'
    BY <1>1, <1>3, <1>7
  <2> QED
    BY <1>8, <1>9, <2>2, <2>3
<1>12. ASSUME NEW j \in 1..n PROVE Content'[Held + j] = bytes[j]
  <2>1. Around(read + (Held + j) - 1) = write + j - 1
    BY <1>1, <1>2, <1>3 DEF Around, Held, IsFull
  <2> DEFINE p == write + j - 1
  <2>2. p \in 0..(Room - 1) /\ p >= write /\ p < write + n /\ p - write + 1 = j
    BY <1>1, <1>2, <1>3
  <2> HIDE DEF p
  <2>3. ring'[p] = bytes[j]
    BY <1>5, <2>2
  <2>4. Held + j \in 1..Held'
    BY <1>1, <1>3, <1>7
  <2> QED
    BY <1>8, <2>1, <2>3, <2>4 DEF p
<1> DEFINE s == SubSeq(bytes, 1, n)
<1>13. /\ s \in Seq(Int) /\ Len(s) = n /\ Len(Content') = Len(Content) + Len(s)
       /\ \A i \in 1..Len(Content) : Content'[i] = Content[i]
       /\ \A i \in 1..Len(s) : Content'[Len(Content) + i] = s[i]
  BY <1>7, <1>8, <1>9, <1>10, <1>11, <1>12
<1> HIDE DEF s
<1>14. Content' = Content \o s
  BY <1>8, <1>9, <1>13, JoinIs
<1> QED
  BY <1>6, <1>7, <1>14 DEF s

\* What is taken is what was held first.
LEMMA TakeLeads ==
  ASSUME GzipBounds, RingOK, NEW k \in 0..Readable, Take(k)
  PROVE  /\ RingOK' /\ Held' = Held - k
         /\ [i \in 1..k |-> ring[read + i - 1]] \in Seq(Int)
         /\ Content = [i \in 1..k |-> ring[read + i - 1]] \o Content'
<1>1. /\ Room \in Nat \ {0} /\ Held \in 0..Room /\ Readable \in 0..Held
      /\ read + Readable <= Room
  BY RingPieces
<1>2. /\ read \in 0..(Room - 1) /\ write \in 0..(Room - 1) /\ lastWrite \in BOOLEAN
      /\ ring \in [0..(Room - 1) -> Int]
  BY DEF RingOK
<1>3. k \in 0..Held /\ read + k <= Room
  BY <1>1, <1>2
<1>4. /\ read' = IF read + k < Room THEN read + k ELSE 0
      /\ lastWrite' = (lastWrite /\ k = 0) /\ write' = write /\ ring' = ring
  BY <1>1, <1>2, <1>3 DEF Take, Around
<1>5. RingOK'
  BY <1>1, <1>2, <1>3, <1>4 DEF RingOK
<1>6. Held' = Held - k
  <2>1. IsFull' <=> read' = write /\ (lastWrite /\ k = 0)
    BY <1>4 DEF IsFull
  <2>2. CASE k = 0
    BY <1>1, <1>2, <1>3, <1>4, <2>1, <2>2 DEF Held, IsFull
  <2>3. CASE k > 0
    BY <1>1, <1>2, <1>3, <1>4, <2>1, <2>3 DEF Held, IsFull
  <2> QED
    BY <1>1, <1>3, <2>2, <2>3
<1> DEFINE s == [i \in 1..k |-> ring[read + i - 1]]
<1>7. s \in Seq(Int) /\ Len(s) = k /\ \A i \in 1..k : s[i] = ring[read + i - 1]
  <2>1. \A i \in 1..k : read + i - 1 \in 0..(Room - 1)
    BY <1>1, <1>2, <1>3
  <2>2. \A i \in 1..k : ring[read + i - 1] \in Int
    BY <1>2, <2>1
  <2> QED
    BY <1>3, <2>2
<1> HIDE DEF s
<1>8. /\ Content \in Seq(Int) /\ Len(Content) = Held
      /\ \A i \in 1..Held : Content[i] = ring[Around(read + i - 1)]
  BY ContentIsSeq
<1>9. /\ Content' \in Seq(Int) /\ Len(Content') = Held'
      /\ \A i \in 1..Held' : Content'[i] = ring[Around(read' + i - 1)]
  <2>1. \A i \in 1..Held' : Around(read' + i - 1) \in 0..(Room - 1)
    BY <1>1, <1>2, <1>3, <1>4, <1>6 DEF Around
  <2>2. \A i \in 1..Held' : ring[Around(read' + i - 1)] \in Int
    BY <1>2, <2>1
  <2>3. Held' \in Nat
    BY <1>1, <1>3, <1>6
  <2>4. Content' = [i \in 1..Held' |-> ring[Around(read' + i - 1)]]
    BY <1>4 DEF Content, Around
  <2> QED
    BY <2>2, <2>3, <2>4
<1>10. ASSUME NEW i \in 1..k PROVE Content[i] = s[i]
  <2>1. Around(read + i - 1) = read + i - 1 /\ i \in 1..Held
    BY <1>1, <1>2, <1>3 DEF Around
  <2> QED
    BY <1>7, <1>8, <2>1
<1>11. ASSUME NEW i \in 1..Held' PROVE Content[k + i] = Content'[i]
  <2>1. Around(read + (k + i) - 1) = Around(read' + i - 1) /\ k + i \in 1..Held
    BY <1>1, <1>2, <1>3, <1>4, <1>6 DEF Around
  <2> QED
    BY <1>8, <1>9, <2>1
<1>12. Len(Content) = Len(s) + Len(Content')
  BY <1>1, <1>3, <1>6, <1>7, <1>8, <1>9
<1>13. Content = s \o Content'
  BY <1>7, <1>8, <1>9, <1>10, <1>11, <1>12, JoinIs
<1> QED
  BY <1>5, <1>6, <1>7, <1>13 DEF s

\* What zlib makes of some units: their numbers.
LEMMA DeflatedBytes ==
  ASSUME NEW a \in Nat, NEW b \in Nat, a <= b, NEW x \in Bytes(a + 1, b)
  PROVE  /\ x \in Seq(Int) /\ Len(x) \in Nat
         /\ \A i \in 1..Len(x) : x[i] > 0
         /\ a = b => x = <<>>
<1>1. PICK twice \in SUBSET ((a + 1)..b) : x = Deflated(a + 1, b, twice)
  BY DEF Bytes
<1>2. IsFiniteSet((a + 1)..b)
  BY FS_Interval
<1>3. ASSUME NEW S, S \subseteq (a + 1)..b PROVE Cardinality(S) \in Nat
  BY <1>2, <1>3, FS_Subset, FS_CardinalityType
<1> DEFINE n == BytesUpTo(b, a + 1, twice)
<1>4. n \in Nat /\ (a = b => n = 0)
  <2>1. Cardinality({v \in twice : v <= b}) \in Nat
    BY <1>3
  <2>2. a = b => Cardinality({v \in twice : v <= b}) = 0
    <3>1. a = b => (a + 1)..b = {}
      OBVIOUS
    <3>2. a = b => {v \in twice : v <= b} = {}
      BY <3>1
    <3> QED
      BY <3>2, FS_EmptySet
  <2>3. n = b - (a + 1) + 1 + Cardinality({v \in twice : v <= b})
    BY DEF BytesUpTo
  <2> QED
    BY <2>1, <2>2, <2>3
<1> DEFINE c(i) == Cardinality({u \in (a + 1)..b : BytesUpTo(u, a + 1, twice) < i})
<1>5. \A i : c(i) \in Nat
  BY <1>3
<1>6. x = [i \in 1..n |-> a + 1 + c(i)]
  BY <1>1 DEF Deflated
<1> HIDE DEF n, c
<1>7. \A i \in 1..n : a + 1 + c(i) \in Int /\ a + 1 + c(i) > 0
  BY <1>5
<1>8. x \in Seq(Int) /\ Len(x) = n /\ \A i \in 1..n : x[i] = a + 1 + c(i)
  BY <1>4, <1>6, <1>7
<1>9. a = b => x = <<>>
  BY <1>4, <1>8
<1> QED
  BY <1>4, <1>7, <1>8, <1>9

\* The inductive invariant.  The types; the end of the input is the end of the
\* compressed stream, once, after which deflate has nothing to do.
GzipTyped ==
  /\ body \in Nat /\ here \in 0..body /\ taken \in 0..here
  /\ all \in BOOLEAN /\ (all => here = body)
  /\ RingOK
  /\ pending \in Seq(Int) /\ received \in Seq(Int) /\ produced \in Seq(Int)
TrailedAtEnd == Trailed => all /\ taken = body
ClosedAtEnd ==
  /\ eof \in BOOLEAN /\ ended = eof
  /\ eof => ~inReady /\ all /\ taken = body /\ pending = <<>> /\ Trailed
GzipIInv == /\ GzipTyped /\ TrailedAtEnd /\ ClosedAtEnd
            /\ produced = received \o Content \o pending
            /\ over => eof /\ Held = 0
            /\ ~misused

\* The invariant begins.
LEMMA GzipBegins ==
  ASSUME GzipBounds, GzipInit
  PROVE  GzipIInv
<1>1. Room \in Nat \ {0} /\ Size \in Nat
  BY DEF GzipBounds
<1>2. RingOK
  <2>1. ring = [i \in 0..(Room - 1) |-> -1] /\ read = 0 /\ write = 0 /\ lastWrite = FALSE
    BY DEF GzipInit
  <2>2. 0 \in 0..(Room - 1) /\ -1 \in Int
    BY <1>1
  <2>3. ring \in [0..(Room - 1) -> Int]
    BY <2>1, <2>2
  <2> QED
    BY <2>1, <2>2, <2>3 DEF RingOK
<1>3. GzipTyped
  <2>1. body \in Nat /\ here \in 0..body /\ all \in BOOLEAN /\ (all => here = body)
    <3>1. body \in Nat
      BY <1>1 DEF GzipInit
    <3>2. (here = body /\ all = TRUE) \/ (here = 0 /\ all = FALSE)
      BY DEF GzipInit
    <3>3. CASE here = body /\ all = TRUE
      <4>1. all \in BOOLEAN /\ (all => here = body)
        BY <3>3, Zenon
      <4>2. here \in 0..body
        BY <3>1, <3>3
      <4> QED
        BY <3>1, <4>1, <4>2
    <3>4. CASE here = 0 /\ all = FALSE
      <4>1. all \in BOOLEAN /\ (all => here = body)
        BY <3>4, Zenon
      <4>2. here \in 0..body
        BY <3>1, <3>4
      <4> QED
        BY <3>1, <4>1, <4>2
    <3> QED
      BY <3>2, <3>3, <3>4
  <2>2. taken = 0 /\ pending = <<>> /\ received = <<>> /\ produced = <<>>
    BY DEF GzipInit
  <2> QED
    BY <1>2, <2>1, <2>2 DEF GzipTyped
<1>4. Held = 0
  BY <1>1 DEF GzipInit, Held, IsFull
<1>5. Content = <<>>
  BY <1>2, <1>4, ContentIsSeq
<1>6. produced = received \o Content \o pending
  BY <1>5 DEF GzipInit
<1>7. TrailedAtEnd /\ ClosedAtEnd
  BY DEF GzipInit, TrailedAtEnd, ClosedAtEnd, Trailed
<1> QED
  BY <1>3, <1>6, <1>7 DEF GzipInit, GzipIInv

\* What is in the ring stays when nobody touches it.
LEMMA RingStays ==
  ASSUME UNCHANGED <<ring, read, write, lastWrite>>
  PROVE  Content' = Content /\ Held' = Held /\ (RingOK => RingOK')
BY DEF Content, Held, IsFull, Around, RingOK

\* The invariant is what NothingLost and NotAfterEnd say.
LEMMA GzipHolds ==
  ASSUME GzipBounds, GzipIInv
  PROVE  GzipSound
<1>1. over => received = produced /\ taken = body /\ received # <<>> /\ Last(received) = 0
  <2> SUFFICES ASSUME over PROVE received = produced /\ taken = body /\ received # <<>> /\ Last(received) = 0
    OBVIOUS
  <2>1. eof /\ Held = 0 /\ pending = <<>> /\ taken = body /\ Trailed
    BY DEF GzipIInv, ClosedAtEnd
  <2>2. Content = <<>>
    BY <2>1, ContentIsSeq DEF GzipIInv, GzipTyped
  <2>3. produced = received
    BY <2>1, <2>2 DEF GzipIInv, GzipTyped
  <2> QED
    BY <2>1, <2>3 DEF Trailed
<1> QED
  BY <1>1 DEF GzipIInv, GzipSound, NothingLost, NotAfterEnd

\* More of the body arrives.
LEMMA BodyArrivesStep ==
  ASSUME GzipBounds, GzipIInv, BodyArrives
  PROVE  GzipIInv'
<1>1. ~all /\ here' \in here..body /\ all' \in BOOLEAN /\ (all' => here' = body)
      /\ UNCHANGED <<body, taken, pending, ended, misused, ring, read, write, lastWrite, eof,
                     inReady, received, over, produced>>
  BY DEF BodyArrives, buffer
<1>2. Content' = Content /\ Held' = Held /\ RingOK'
  BY <1>1, RingStays DEF GzipIInv, GzipTyped
<1>3. GzipTyped'
  BY <1>1, <1>2 DEF GzipIInv, GzipTyped
<1>4. ~eof /\ ~Trailed /\ ended = eof /\ eof \in BOOLEAN
  BY <1>1 DEF GzipIInv, ClosedAtEnd, TrailedAtEnd
<1>5. TrailedAtEnd' /\ ClosedAtEnd'
  BY <1>1, <1>4 DEF TrailedAtEnd, ClosedAtEnd, Trailed
<1> QED
  BY <1>1, <1>2, <1>3, <1>5 DEF GzipIInv

\* Only readiness changes.
LEMMA OnlyReadiness ==
  ASSUME GzipIInv, inReady' => inReady \/ ~eof,
         UNCHANGED <<body, here, all, taken, pending, ended, misused, ring, read, write,
                     lastWrite, eof, received, over, produced>>
  PROVE  GzipIInv'
<1>1. Content' = Content /\ Held' = Held /\ RingOK'
  BY RingStays DEF GzipIInv, GzipTyped
<1>2. GzipTyped' /\ TrailedAtEnd'
  BY <1>1 DEF GzipIInv, GzipTyped, TrailedAtEnd, Trailed
<1>3. ClosedAtEnd'
  BY DEF GzipIInv, ClosedAtEnd, Trailed
<1> QED
  BY <1>1, <1>2, <1>3 DEF GzipIInv

\* The filter takes some of the body.
LEMMA DataInStep ==
  ASSUME GzipBounds, GzipIInv, DataIn
  PROVE  GzipIInv'
<1>1. CASE Writable = 0
  <2>1. inReady' = FALSE
        /\ UNCHANGED <<body, here, all, taken, pending, ended, misused, ring, read, write,
                       lastWrite, eof, received, over, produced>>
    BY <1>1 DEF DataIn, buffer
  <2> QED
    BY <2>1, OnlyReadiness
<1>2. CASE Writable # 0
  <2> DEFINE Finishes(upto) == all /\ upto = here
             Of(upto, new) == (pending \o new) \o Trailer(Finishes(upto))
             Placed(upto, new) == IF Len(Of(upto, new)) < Writable THEN Len(Of(upto, new)) ELSE Writable
             Does(upto, new) ==
               LET n == Placed(upto, new)
                   rest == SubSeq(Of(upto, new), n + 1, Len(Of(upto, new)))
                   end == StreamEnd(Finishes(upto), rest)
               IN /\ produced' = (produced \o new) \o Trailer(Finishes(upto))
                  /\ taken' = upto /\ pending' = rest
                  /\ misused' = (misused \/ ended)
                  /\ Put(Of(upto, new), n)
                  /\ inReady' = ~(end \/ (n > 0 /\ write' = read))
                  /\ eof' = (eof \/ end) /\ ended' = (ended \/ end)
  <2>0. \E upto \in taken..here : \E new \in Bytes(taken + 1, upto) : Does(upto, new)
    BY <1>2, Zenon DEF DataIn
  <2> PICK upto \in taken..here : \E new \in Bytes(taken + 1, upto) : Does(upto, new)
    BY <2>0
  <2>1. PICK new \in Bytes(taken + 1, upto) : Does(upto, new)
    OBVIOUS
  <2> DEFINE finish == Finishes(upto)
             trailer == Trailer(finish)
             bytes == (pending \o new) \o trailer
             n == Placed(upto, new)
             rest == SubSeq(bytes, n + 1, Len(bytes))
             end == StreamEnd(finish, rest)
  <2>2. /\ produced' = (produced \o new) \o trailer
        /\ taken' = upto /\ pending' = rest /\ misused' = (misused \/ ended)
        /\ Put(bytes, n)
        /\ inReady' = ~(end \/ (n > 0 /\ write' = read))
        /\ eof' = (eof \/ end) /\ ended' = (ended \/ end)
    BY <2>1
  <2>3. ~over /\ inReady /\ UNCHANGED <<body, here, all, received, over>>
    BY DEF DataIn
  <2>4. /\ body \in Nat /\ here \in 0..body /\ taken \in 0..here
        /\ all \in BOOLEAN /\ (all => here = body) /\ RingOK
        /\ pending \in Seq(Int) /\ received \in Seq(Int) /\ produced \in Seq(Int)
        /\ ~eof /\ ~ended /\ ~misused
    BY <2>3 DEF GzipIInv, GzipTyped, ClosedAtEnd
  <2>5. upto \in Nat /\ taken \in Nat /\ taken <= upto /\ upto \in taken..here
    BY <2>4
  <2>6. /\ new \in Seq(Int) /\ Len(new) \in Nat
        /\ \A i \in 1..Len(new) : new[i] > 0
        /\ taken = upto => new = <<>>
    BY <2>5, DeflatedBytes
  <2>7. trailer \in Seq(Int) /\ (trailer = <<0>> \/ trailer = <<>>)
    BY DEF Trailer
  <2>8. bytes \in Seq(Int)
    BY <2>4, <2>6, <2>7
  <2>9. n \in 0..Writable /\ n <= Len(bytes) /\ n \in 0..Len(bytes)
    <3>1. Writable \in Nat /\ Len(bytes) \in Nat
      BY <2>4, <2>8, RingPieces
    <3> QED
      BY <3>1
  <2>10. trailer = IF finish /\ ~Trailed THEN <<0>> ELSE <<>>
    BY DEF Trailer
  <2> HIDE DEF n, bytes, trailer
  <2>11. RingOK' /\ Content' = Content \o SubSeq(bytes, 1, n)
    BY <2>2, <2>4, <2>8, <2>9, PutFollows
  <2>12. rest \in Seq(Int)
    BY <2>8, <2>9, PartedInts
  <2>13. produced' \in Seq(Int)
    <3>1. produced \o new \in Seq(Int)
      BY <2>4, <2>6, JoinedInts
    <3> QED
      BY <2>2, <2>7, <3>1, JoinedInts
  <2>14. GzipTyped'
    <3>1. upto \in 0..here
      BY <2>4, <2>5
    <3> QED
      BY <2>2, <2>3, <2>4, <2>11, <2>12, <2>13, <3>1 DEF GzipTyped
  <2>15. produced' = received' \o Content' \o pending'
    <3>1. Content \in Seq(Int)
      BY <2>4, ContentIsSeq
    <3>2. produced = (received \o Content) \o pending
      BY DEF GzipIInv
    <3>3. ((((received \o Content) \o pending) \o new) \o trailer)
             = (received \o (Content \o SubSeq(bytes, 1, n))) \o rest
      <4>1. /\ SubSeq(bytes, 1, n) \in Seq(Int) /\ SubSeq(bytes, 1, n) \o rest = bytes
        BY <2>8, <2>9, PartedInts
      <4> DEFINE v == SubSeq(bytes, 1, n)
                 q == received \o Content
      <4>2. v \in Seq(Int) /\ rest \in Seq(Int) /\ v \o rest = (pending \o new) \o trailer
        BY <2>12, <4>1 DEF bytes
      <4>3. q \in Seq(Int) /\ received \in Seq(Int)
        BY <2>4, <3>1, JoinedInts
      <4> DEFINE m == pending \o new
                 l == Content \o v
      <4>4. /\ q \in Seq(Int) /\ pending \in Seq(Int) /\ new \in Seq(Int) /\ trailer \in Seq(Int)
            /\ received \in Seq(Int) /\ Content \in Seq(Int) /\ v \in Seq(Int) /\ rest \in Seq(Int)
        BY <2>4, <2>6, <2>7, <3>1, <4>2, <4>3
      <4>5. m \in Seq(Int) /\ l \in Seq(Int)
        BY <4>4, JoinedInts
      <4> HIDE DEF v, rest, q
      <4>6. (q \o pending) \o new = q \o m
        <5>1. q \in Seq(Int) /\ pending \in Seq(Int) /\ new \in Seq(Int)
          BY <4>4
        <5> QED
          BY <5>1, GroupedInts
      <4>7. received \o l = (received \o Content) \o v
        <5>1. received \in Seq(Int) /\ Content \in Seq(Int) /\ v \in Seq(Int)
          BY <4>4
        <5> QED
          BY <5>1, GroupedInts
      <4> HIDE DEF m, l
      <4>8. (q \o m) \o trailer = q \o (m \o trailer)
        <5>1. q \in Seq(Int) /\ m \in Seq(Int) /\ trailer \in Seq(Int)
          BY <4>4, <4>5
        <5> QED
          BY <5>1, GroupedInts
      <4>9. (q \o v) \o rest = q \o (v \o rest)
        <5>1. q \in Seq(Int) /\ v \in Seq(Int) /\ rest \in Seq(Int)
          BY <4>4
        <5> QED
          BY <5>1, GroupedInts
      <4>10. v \o rest = m \o trailer
        BY <4>2 DEF m
      <4>11. ((q \o pending) \o new) \o trailer = (received \o l) \o rest
        BY <4>6, <4>7, <4>8, <4>9, <4>10, Zenon DEF q
      <4> QED
        BY <4>11, Zenon DEF q, l, v
    <3> QED
      BY <2>2, <2>3, <2>11, <3>2, <3>3
  <2>16. Trailed' => finish
    <3>1. CASE trailer = <<0>>
      <4>1. <<0>> # <<>>
        OBVIOUS
      <4> QED
        BY <2>10, <3>1, <4>1
    <3>2. CASE trailer = <<>> /\ new = <<>>
      <4>1. produced' = produced
        <5>1. produced \o <<>> = produced
          BY <2>4, JoinedInts
        <5>2. produced' = (produced \o <<>>) \o <<>>
          BY <2>2, <3>2
        <5> QED
          BY <5>1, <5>2
      <4>2. Trailed' => Trailed
        BY <4>1 DEF Trailed
      <4>3. Trailed => finish
        BY <2>4, <2>5 DEF GzipIInv, TrailedAtEnd
      <4> QED
        BY <4>2, <4>3
    <3>3. CASE trailer = <<>> /\ new # <<>>
      <4>0. produced \o new \in Seq(Int)
        BY <2>4, <2>6, JoinedInts
      <4>1. produced' = produced \o new
        BY <2>2, <2>7, <3>3, <4>0, JoinedInts
      <4>2. Len(new) > 0
        BY <2>6, <3>3
      <4>3. Last(produced') = new[Len(new)]
        BY <2>4, <2>6, <3>3, <4>1, JoinedInts
      <4>4. Last(produced') # 0
        <5>1. Len(new) \in 1..Len(new) /\ new[Len(new)] \in Int /\ new[Len(new)] > 0
          BY <2>6, <4>2
        <5> QED
          BY <4>3, <5>1
      <4> QED
        BY <4>4 DEF Trailed
    <3> QED
      BY <2>7, <3>1, <3>2, <3>3
  <2>17. TrailedAtEnd'
    BY <2>2, <2>3, <2>4, <2>16 DEF TrailedAtEnd
  <2>18. finish => Trailed'
    <3> SUFFICES ASSUME finish PROVE Trailed'
      OBVIOUS
    <3>1. CASE ~Trailed
      <4>1. produced' = (produced \o new) \o <<0>>
        BY <2>2, <2>10, <3>1
      <4>2. produced \o new \in Seq(Int) /\ <<0>> \in Seq(Int) /\ <<0>> # <<>>
            /\ <<0>>[Len(<<0>>)] = 0
        BY <2>4, <2>6, JoinedInts
      <4>3. produced' # <<>> /\ Last(produced') = 0
        BY <4>1, <4>2, JoinedInts
      <4> QED
        BY <4>3 DEF Trailed
    <3>2. CASE Trailed
      <4>1. taken = upto
        BY <2>4, <2>5, <3>2 DEF GzipIInv, TrailedAtEnd
      <4>2. produced' = produced
        <5>1. produced \o <<>> = produced
          BY <2>4, JoinedInts
        <5>2. new = <<>> /\ trailer = <<>>
          BY <2>6, <2>10, <3>2, <4>1
        <5>3. produced' = (produced \o <<>>) \o <<>>
          BY <2>2, <5>2
        <5> QED
          BY <5>1, <5>3
      <4> QED
        BY <3>2, <4>2 DEF Trailed
    <3> QED
      BY <3>1, <3>2
  <2>19. ClosedAtEnd'
    <3>1. eof' = end /\ ended' = end /\ end \in BOOLEAN
      BY <2>2, <2>4 DEF StreamEnd
    <3>2. end => finish /\ rest = <<>>
      BY DEF StreamEnd
    <3>3. end => ~inReady' /\ all' /\ taken' = body' /\ pending' = <<>> /\ Trailed'
      BY <2>2, <2>3, <2>4, <2>18, <3>2
    <3> QED
      BY <3>1, <3>3 DEF ClosedAtEnd
  <2> QED
    BY <2>2, <2>3, <2>4, <2>14, <2>15, <2>17, <2>19 DEF GzipIInv
<1> QED
  BY <1>1, <1>2

\* The client gets a piece.
LEMMA DataOutStep ==
  ASSUME GzipBounds, GzipIInv, DataOut
  PROVE  GzipIInv'
<1>1. CASE Readable = 0 /\ ~EndNow
  <2>1. UNCHANGED <<body, here, all, taken, pending, ended, misused, ring, read, write,
                    lastWrite, eof, inReady, received, over, produced>>
    BY <1>1 DEF DataOut, buffer
  <2> QED
    BY <2>1, OnlyReadiness
<1>2. CASE ~(Readable = 0 /\ ~EndNow)
  <2>1. PICK k \in 0..Readable :
          /\ received' = received \o [i \in 1..k |-> ring[read + i - 1]]
          /\ Take(k)
          /\ inReady' = (inReady \/ (k > 0 /\ Asks))
          /\ over' = (EndNow /\ k = Readable)
          /\ UNCHANGED eof
    BY <1>2 DEF DataOut
  <2>2. UNCHANGED <<body, here, all, taken, pending, ended, misused, produced>>
    BY DEF DataOut
  <2>3. /\ RingOK /\ pending \in Seq(Int) /\ received \in Seq(Int) /\ produced \in Seq(Int)
    BY DEF GzipIInv, GzipTyped
  <2> DEFINE s == [i \in 1..k |-> ring[read + i - 1]]
  <2>4. RingOK' /\ Held' = Held - k /\ s \in Seq(Int) /\ Content = s \o Content'
    BY <2>1, <2>3, TakeLeads
  <2>5. received' = received \o s
    BY <2>1
  <2> HIDE DEF s
  <2>6. Content' \in Seq(Int)
    <3>1. Room \in Nat \ {0} /\ Held \in 0..Room /\ Readable \in 0..Held
      BY <2>3, RingPieces
    <3>2. Held' \in 0..Room
      BY <2>4, <3>1
    <3>0. read' \in 0..(Room - 1)
      BY <2>4 DEF RingOK
    <3>3. \A i \in 1..Held' : Around(read' + i - 1) \in 0..(Room - 1)
      <4> DEFINE q == read'
                 m == Held'
      <4>1. q \in 0..(Room - 1) /\ m \in 0..Room /\ Room \in Nat
        BY <3>0, <3>1, <3>2
      <4> HIDE DEF q, m
      <4>2. \A i \in 1..m : Around(q + i - 1) \in 0..(Room - 1)
        BY <4>1 DEF Around
      <4> QED
        BY <4>2 DEF q, m
    <3> DEFINE h == Held'
               b == ring'
               r == read'
    <3>4. Content' = [i \in 1..h |-> b[Around(r + i - 1)]]
      BY DEF Content, Around
    <3>5. h \in Nat /\ \A i \in 1..h : b[Around(r + i - 1)] \in Int
      BY <2>4, <3>1, <3>2, <3>3 DEF RingOK
    <3> HIDE DEF h, b, r
    <3> QED
      BY <3>4, <3>5
  <2>7. produced' = (received' \o Content') \o pending'
    <3>1. received \o (s \o Content') = (received \o s) \o Content'
      BY <2>3, <2>4, <2>6, GroupedInts
    <3>2. produced = (received \o Content) \o pending
      BY DEF GzipIInv
    <3> QED
      BY <2>2, <2>4, <2>5, <3>1, <3>2
  <2>8. GzipTyped'
    <3>1. received' \in Seq(Int)
      BY <2>3, <2>4, <2>5
    <3> QED
      BY <2>2, <2>4, <3>1 DEF GzipIInv, GzipTyped
  <2>9. TrailedAtEnd'
    BY <2>2 DEF GzipIInv, TrailedAtEnd, Trailed
  <2>10. ClosedAtEnd'
    BY <2>1, <2>2 DEF GzipIInv, ClosedAtEnd, Trailed, Asks
  <2>11. over' => eof' /\ Held' = 0
    <3> SUFFICES ASSUME over' PROVE eof' /\ Held' = 0
      OBVIOUS
    <3>1. EndNow /\ k = Readable
      BY <2>1
    <3>2. eof /\ (Readable = 0 \/ write > read \/ write = 0)
      BY <3>1 DEF EndNow
    <3>3. Readable = Held /\ Held \in Nat
      BY <2>3, <3>2, RingPieces
    <3> QED
      BY <2>1, <2>4, <3>1, <3>2, <3>3
  <2>12. ~misused'
    BY <2>2 DEF GzipIInv
  <2> QED
    BY <2>7, <2>8, <2>9, <2>10, <2>11, <2>12 DEF GzipIInv
<1> QED
  BY <1>1, <1>2

\* The gzip filter.
THEOREM GzipIsSound ==
  ASSUME GzipBounds
  PROVE  GzipSpec => []GzipSound
<1>1. GzipInit => GzipIInv
  BY GzipBegins
<1>2. GzipIInv /\ [GzipNext]_gzipVars => GzipIInv'
  <2> SUFFICES ASSUME GzipIInv, [GzipNext]_gzipVars PROVE GzipIInv'
    OBVIOUS
  <2>1. CASE BodyArrives
    BY <2>1, BodyArrivesStep
  <2>2. CASE DataIn
    BY <2>2, DataInStep
  <2>3. CASE DataOut
    BY <2>3, DataOutStep
  <2>4. CASE ClientReady
    BY <2>4, OnlyReadiness DEF ClientReady, buffer
  <2>5. CASE UNCHANGED gzipVars
    BY <2>5, OnlyReadiness DEF gzipVars, buffer
  <2> QED
    BY <2>1, <2>2, <2>3, <2>4, <2>5 DEF GzipNext, Streams
<1>3. GzipIInv => GzipSound
  BY GzipHolds
<1> QED
  BY <1>1, <1>2, <1>3, PTL DEF GzipSpec
=============================================================================
