-------------------------------- MODULE Routes --------------------------------
(***************************************************************************)
(* The routes of the client: Router's list of the rows it has created      *)
(* (backend/router.cpp) against the routing table of the system, the       *)
(* session's calls of it (backend/obhod123.cpp), and the custom sites of   *)
(* the main window (ui/mainwindow.cpp), whose addresses are routed through *)
(* the tunnel.                                                             *)
(*                                                                         *)
(* All of it runs on the GUI thread.  A name is looked up by a ping whose  *)
(* end is awaited in an event loop (Obhod123Utils::getIPAddress), so       *)
(* clicks, timers and the session's signals run inside: calls is the stack *)
(* of the waiting ones, and only the innermost goes on.  Router's own      *)
(* calls do not return to an event loop.  A row is named by destination    *)
(* and gateway; masks and metrics are left out, and a row that Router has  *)
(* in its list twice counts once (a second deletion only fails).  The      *)
(* server's list of addresses is empty: nobody calls what downloads it.    *)
(***************************************************************************)
EXTENDS Naturals, Sequences

CONSTANTS Sites,      \* names the user may enter
          Ips,        \* addresses
          NoIp,       \* a name that cannot be looked up
          DnsIps,     \* 8.8.8.8 and 8.8.8.4
          Gates,      \* gateways of the tunnel
          MaxCalls,   \* bound: clicks that wait at once
          MaxTimers   \* bound: route timers that run

Row  == [ip : Ips, gate : Gates]
Call == [op : {"add", "delete"}, site : Sites]

VARIABLES
  connected, gate,  \* m_vpnStatus is VPNStatusConnected; m_vpngate
  timers,           \* timers of obhod123.cpp:442 that run
  rt,               \* the routing table: the system's and Router's view, see Table
  customSites, customIps,  \* Settings
  shown,            \* customSitesModel: the sites the list view offers
  calls,            \* the clicks that wait for a lookup, innermost first
  added,            \* history: the address each site was added with
  drifted           \* history: addresses that were added for a site and deleted with
                    \* another one, or not deleted with it

session == <<connected, gate, timers>>
custom  == <<customSites, customIps, shown, calls, added, drifted>>
routesVars    == <<session, rt, custom>>

\* rows: those of the system; ours: those of them that Router made; saved: ipForwardRows.
\* History: lost, rows of Router's that it forgot as it failed to delete them or died;
\* taken, saved rows that others deleted; failed, addresses that could not be routed.
Table == [rows : SUBSET Row, ours : SUBSET Row, saved : SUBSET Row,
          lost : SUBSET Row, taken : SUBSET Row, failed : SUBSET Ips]

RoutesInit == /\ connected = FALSE /\ gate \in Gates /\ timers = 0
              /\ rt = [rows |-> {}, ours |-> {}, saved |-> {},
                       lost |-> {}, taken |-> {}, failed |-> {}]
              /\ customSites = {} /\ customIps = {} /\ shown = {} /\ calls = <<>>
              /\ added = [s \in Sites |-> NoIp]
              /\ drifted = {}

-----------------------------------------------------------------------------
(* Router: each operator is the set of tables a call may leave, x the one it finds. *)

\* Mutant: a row that exists already is taken for one of Router's.
RemembersAll(wanted, made) == wanted

\* Of the rows wanted, the ones that CreateIpForwardEntry made are remembered.
Remembers(wanted, made) == made

\* routeAdd and routeAddList: a row that exists cannot be created, others may fail too.
AddList(g, ips, x) ==
  LET wanted == [ip : ips, gate : {g}]
      After(made) ==
        [x EXCEPT !.rows = @ \cup made, !.ours = @ \cup made,
                  !.saved = @ \cup Remembers(wanted, made),
                  !.taken = @ \ made,
                  !.failed = (@ \ ips) \cup {r.ip : r \in wanted \ (made \cup x.rows)}]
  IN  {After(made) : made \in SUBSET (wanted \ x.rows)}

\* clearSavedRoutes() when GetIpForwardTable() works: each row may fail to be deleted, and
\* the list is emptied all the same.
Cleared(x) ==
  {[x EXCEPT !.rows = (@ \ x.saved) \cup kept, !.ours = (@ \ x.saved) \cup (@ \cap kept),
             !.saved = {}, !.taken = {},
             !.lost = (@ \ x.saved) \cup (x.ours \cap kept)]
     : kept \in SUBSET (x.saved \cap x.rows)}

\* Mutant: the list is emptied although the table could not be read.
ClearForgets(x) == Cleared(x) \cup {[x EXCEPT !.saved = {}, !.taken = {}]}

\* ... and when it fails the list stays.
Clear(x) == Cleared(x) \cup {x}

\* "route delete": every row to the address, whoever made it, or none if it fails.
\* Router's list is not told.
Delete(ips, x) ==
  LET gone == {r \in x.rows : r.ip \in ips}
  IN  {x, [x EXCEPT !.rows = @ \ gone, !.ours = @ \ gone, !.lost = @ \ gone,
                    !.taken = @ \cup (gone \cap x.saved)]}

-----------------------------------------------------------------------------
(* The session *)

\* Obhod123::onConnect reaches Connected and starts the timer of the routes.
OnConnect == /\ ~connected
             /\ timers < MaxTimers
             /\ connected' = TRUE
             /\ gate' \in Gates
             /\ timers' = timers + 1
             /\ UNCHANGED <<rt, custom>>

\* The timer: whether the tunnel is still up is not looked at.
RouteTimer == /\ timers > 0
              /\ timers' = timers - 1
              /\ \E x \in Clear(rt) : \E y \in Delete(DnsIps, x) : rt' \in AddList(gate, customIps, y)
              /\ UNCHANGED <<connected, gate, custom>>

\* onDisconnect(), and onStateChanged(VPNERROR).
OnDisconnect == /\ connected' = FALSE
                /\ rt' \in Clear(rt)
                /\ UNCHANGED <<gate, timers, custom>>

\* onMessage("[ERROR]..."): disconnected, and the routes stay.
OnMessage == /\ connected
             /\ connected' = FALSE
             /\ UNCHANGED <<gate, timers, rt, custom>>

Session == OnConnect \/ RouteTimer \/ OnDisconnect \/ OnMessage

-----------------------------------------------------------------------------
(* The custom sites *)

\* A click on "add" up to the lookup: the site is saved first.
AddClick(s) == /\ Len(calls) < MaxCalls
               /\ s \notin customSites
               /\ customSites' = customSites \cup {s}
               /\ calls' = <<[op |-> "add", site |-> s]>> \o calls
               /\ UNCHANGED <<session, rt, customIps, shown, added, drifted>>

Waits(op, s) == calls # <<>> /\ calls[1] = [op |-> op, site |-> s]

\* Mutant: a name that could not be looked up counts as an address.
EmptyIsNew(ip) == ip \notin customIps

\* !newIp.isEmpty() && !customIps.contains(newIp)
New(ip) == ip # NoIp /\ ip \notin customIps

\* Mutant: only what is routed at once is saved.
SavesRouted(ip) == IF connected THEN customIps \cup {ip} ELSE customIps

Saves(ip) == customIps \cup {ip}

\* Mutant: a new site waits for the next connect.
RoutesLater == FALSE

\* "add to routes immediatelly"
RoutesNow == connected

\* ... and from its answer on: a new address is saved, and routed if connected.
AddDone(s, ip) ==
  /\ Waits("add", s)
  /\ calls' = Tail(calls)
  /\ shown' = customSites
  /\ customIps' = IF New(ip) THEN Saves(ip) ELSE customIps
  /\ rt' \in IF New(ip) /\ RoutesNow THEN AddList(gate, {ip}, rt) ELSE {rt}
  /\ added' = [added EXCEPT ![s] = IF s \in customSites THEN ip ELSE NoIp]
  /\ drifted' = drifted \cup (IF s \notin customSites THEN {ip}
                            ELSE IF added[s] # ip THEN {added[s]} ELSE {})
  /\ UNCHANGED <<session, customSites>>

\* A click on "delete" for a site of the list view, up to the lookup.
DeleteClick(s) == /\ Len(calls) < MaxCalls
                  /\ s \in shown
                  /\ calls' = <<[op |-> "delete", site |-> s]>> \o calls
                  /\ UNCHANGED <<session, rt, customSites, customIps, shown, added, drifted>>

\* Mutant: only the site is deleted.
KeepIp(ip) == customIps

\* removeAll(ipToDelete)
WithoutIp(ip) == customIps \ {ip}

\* ... and from its answer on: the address the name has now is deleted, not the one it had.
DeleteDone(s, ip) ==
  /\ Waits("delete", s)
  /\ calls' = Tail(calls)
  /\ customSites' = customSites \ {s}
  /\ customIps' = WithoutIp(ip)
  /\ shown' = customSites \ {s}
  /\ rt' \in IF ip = NoIp THEN {rt} ELSE Delete({ip}, rt)
  /\ added' = [added EXCEPT ![s] = NoIp]
  /\ drifted' = drifted \cup (IF added[s] # ip THEN {added[s], ip} ELSE {})
                        \cup {added[t] : t \in {t \in Sites \ {s} : added[t] = ip}}
  /\ UNCHANGED <<session>>

\* A lookup gives the address the name has at that time, or none.
Custom == \E s \in Sites : \/ AddClick(s) \/ DeleteClick(s)
                          \/ \E ip \in Ips \cup {NoIp} : AddDone(s, ip) \/ DeleteDone(s, ip)

-----------------------------------------------------------------------------
(* The system *)

\* openvpn, or the user, makes a row of its own.
ForeignRow == \E r \in Row \ rt.rows : /\ rt' = [rt EXCEPT !.rows = @ \cup {r}]
                                       /\ UNCHANGED <<session, custom>>

\* The rows of an interface go with it when the tunnel is down.
TunnelGone == /\ ~connected
              /\ rt' = [rt EXCEPT !.rows = {}, !.ours = {}, !.lost = {}, !.taken = @ \cup rt.saved]
              /\ UNCHANGED <<session, custom>>

\* The program ends without its destructors and is started again.
Crash == /\ connected' = FALSE /\ timers' = 0 /\ calls' = <<>>
         /\ shown' = customSites
         /\ rt' = [rt EXCEPT !.saved = {}, !.taken = {}, !.lost = @ \cup rt.ours]
         /\ UNCHANGED <<gate, customSites, customIps, added, drifted>>

System == ForeignRow \/ TunnelGone \/ Crash

RoutesNext == Session \/ Custom \/ System

RoutesSpec == RoutesInit /\ [][RoutesNext]_routesVars

-----------------------------------------------------------------------------
(* Properties *)

\* The variables keep their types, and Router's rows are rows of the table.
RoutesTypeOK == /\ connected \in BOOLEAN /\ gate \in Gates /\ timers \in 0..MaxTimers
                /\ rt \in Table
                /\ customSites \subseteq Sites /\ shown \subseteq Sites /\ customIps \subseteq Ips
                /\ calls \in Seq(Call) /\ Len(calls) <= MaxCalls
                /\ added \in [Sites -> Ips \cup {NoIp}]
                /\ drifted \subseteq Ips \cup {NoIp}
                /\ rt.ours \subseteq rt.rows

\* Router never forgets a row that it has made and that is still in the table, unless its
\* deletion failed once or the program died: every route of a session goes in the end.
Accounted == rt.ours \subseteq rt.saved \cup rt.lost

\* clearSavedRoutes() can only remove what Router made: a saved row that is in the table
\* is its own, unless somebody has deleted it and somebody else has made it again.
SavedIsOurs == rt.saved \cap rt.rows \subseteq rt.ours \cup rt.taken

\* An address stays saved, and routed at every connect, only as long as a site that was
\* added with it, but for what a lookup that changed between the two clicks left over,
\* and for a site that was deleted before its own lookup had come back.
IpsHaveSites == \A ip \in customIps \ drifted : \E s \in customSites : added[s] = ip

\* A site that was added with an address is routed at every connect, but for an address
\* that was deleted together with another site.
SitesHaveIps == \A s \in customSites : added[s] \in customIps \cup drifted \cup {NoIp}

\* Once connected and the timer over, every saved address is routed, through the present
\* gateway, or its row could not be made.
ConnectedRoutes == connected /\ timers = 0 =>
                     \A ip \in customIps : [ip |-> ip, gate |-> gate] \in rt.rows \/ ip \in rt.failed

\* Router forgets no route that it made, removes only routes that it made, and
\* routes at every connect what the sites of the user were added with; every
\* click leaves the settings, the list and the routing table in step.
RoutesSound == /\ RoutesTypeOK /\ Accounted /\ SavedIsOurs
               /\ IpsHaveSites /\ SitesHaveIps /\ ConnectedRoutes

=============================================================================
