------------------------------ MODULE Routing ------------------------------
(***************************************************************************)
(* Everything that races to write a route.  Three parties read Herdr,      *)
(* wait, and write what they read:                                         *)
(*                                                                         *)
(*   errand    a command of an agent: the CLI asks Herdr which pane it     *)
(*             runs in, then sends the request with that answer            *)
(*   connect   the operator connects a pane to an identity: the hub lists  *)
(*             the panes twice and checks the identity in between          *)
(*   refresh   topology refresh: the hub lists the panes, waits for one    *)
(*             more Herdr answer, then reconciles                          *)
(*                                                                         *)
(* Meanwhile panes open, close and change occupant, the notifier marks a   *)
(* route stale or follows a moved pane, and identities are deactivated.    *)
(***************************************************************************)
EXTENDS Routes

CONSTANTS Layout,     \* the panes that exist when the hub starts
          Registered, \* agents that certainly have a row then
          MaxInputs   \* BOUND: on everything that the hub does not decide (Input)

ASSUME RoutingAssumption ==
    /\ Layout \in Seq(Terminals)
    /\ \A i, j \in DOMAIN Layout : Layout[i] = Layout[j] => i = j
    /\ None \notin Terminals
    /\ MaxInputs \in Nat

VARIABLES
    errand,    \* the request on its way to the hub, or NoErrand
    connect,   \* the local variables of connectHerdrAgent
    refresh,   \* the local variables of refreshNow
    inputs     \* how many of MaxInputs have come

routingVars == <<herdrVars, retired, known, route, errand, connect, refresh, inputs>>

Errand   == [as : Agents \union {None}, terminal : Terminals, pane : Nat,
             agent : Kinds \union {None}]
NoErrand == [as |-> None, terminal |-> None, pane |-> 0, agent |-> None]

Connect ==
    [at : {"idle", "listed", "checked", "relisted"},
     handle : Agents \union {None},     \* the requested handle, then the identity
     panes : SUBSET PaneRecord,         \* the pane list last read
     pane : Nat,                        \* the requested pane id
     created : BOOLEAN,
     terminal : Terminals \union {None},
     agent : Kinds \union {None}]

NoConnect == [at |-> "idle", handle |-> None, panes |-> {}, pane |-> 0,
              created |-> FALSE, terminal |-> None, agent |-> None]

Refresh   == [at : {"idle", "read"}, panes : SUBSET PaneRecord]
NoRefresh == [at |-> "idle", panes |-> {}]

RoutingTypeOK ==
    /\ RoutesTypeOK
    /\ errand \in Errand \union {NoErrand}
    /\ connect \in Connect
    /\ refresh \in Refresh
    /\ inputs \in 0..MaxInputs

RoutingInit ==
    /\ live = Layout
    /\ kind \in [Terminals -> Kinds]
    /\ activity = [t \in Terminals |-> "idle"]
    /\ retired = {}
    /\ known \in {S \in SUBSET Agents : Registered \subseteq S}
    /\ route = [a \in Agents |-> Unrouted]
    /\ errand = NoErrand
    /\ connect = NoConnect
    /\ refresh = NoRefresh
    /\ inputs = 0

-----------------------------------------------------------------------------
(* One thing that the hub does not decide.                                 *)
Input ==
    /\ inputs < MaxInputs
    /\ inputs' = inputs + 1

(* A command, run in a pane.                                               *)

CommandStarts(t, as) ==
    /\ Input
    /\ errand = NoErrand
    /\ Exists(t)
    /\ errand' = [as |-> as, terminal |-> t, pane |-> PaneOf(t), agent |-> kind[t]]
    /\ UNCHANGED <<herdrVars, retired, known, route, connect, refresh>>

CommandArrives ==
    /\ errand # NoErrand
    /\ errand' = NoErrand
    /\ IF \E a \in Agents : AuthenticatedAs(errand.as, a, errand)
       THEN \E a \in Agents : Authenticate(errand.as, a, errand)
       ELSE UNCHANGED route
    /\ UNCHANGED <<herdrVars, retired, known, connect, refresh, inputs>>

-----------------------------------------------------------------------------
(* connectHerdrAgent.                                                      *)

ConnectLists(pane, handle) ==
    /\ connect.at = "idle"
    /\ Input
    /\ connect' = [NoConnect EXCEPT !.at = "listed", !.pane = pane,
                                    !.handle = handle, !.panes = PaneList]
    /\ UNCHANGED <<herdrVars, retired, known, route, errand, refresh>>

PaneAt(panes, i) == {pane \in panes : pane.pane = i}

(* An active route to a terminal of the list keeps its identity there.     *)
RunsElsewhere(a, t, panes) ==
    /\ Active(a)
    /\ route[a].terminal \notin {None, t}
    /\ \E pane \in panes : pane.terminal = route[a].terminal

(* connectedIdentity: the identity for a pane, and whether it is a new row.*)
ConnectedIdentity(handle, pane, panes, a, created) ==
    LET owned == \E o \in Holders(route, pane.terminal) : Active(o)
    IN  IF handle \in known
        THEN /\ a = handle
             /\ ~created
             /\ handle \notin retired
             /\ owned => handle \in Candidates(route, pane.terminal)
             /\ ~RunsElsewhere(handle, pane.terminal, panes)
        ELSE \/ ~created /\ Identified(route, a, pane.terminal, pane.pane, pane.agent)
             \/ created /\ a = handle /\ Holders(route, pane.terminal) = {}

ConnectAccepts(pane, a, created) ==
    /\ pane.agent # None
    /\ ConnectedIdentity(connect.handle, pane, connect.panes, a, created)
    /\ known' = IF created THEN known \union {a} ELSE known
    /\ connect' = [connect EXCEPT !.at = "checked", !.handle = a, !.created = created,
                                  !.terminal = pane.terminal, !.agent = pane.agent]

ConnectChecks ==
    /\ connect.at = "listed"
    /\ LET accepted(pane, a, created) ==
               pane.agent # None
               /\ ConnectedIdentity(connect.handle, pane, connect.panes, a, created)
       IN  IF \E pane \in PaneAt(connect.panes, connect.pane), a \in Agents,
                 created \in BOOLEAN : accepted(pane, a, created)
           THEN \E pane \in PaneAt(connect.panes, connect.pane), a \in Agents,
                   created \in BOOLEAN : ConnectAccepts(pane, a, created)
           ELSE connect' = NoConnect /\ UNCHANGED known
    /\ UNCHANGED <<herdrVars, retired, route, errand, refresh, inputs>>

(* The second list, which may also fail and show nothing.                  *)
ConnectRelists ==
    /\ connect.at = "checked"
    /\ \E panes \in {PaneList, {}} :
          connect' = [connect EXCEPT !.at = "relisted", !.panes = panes]
    /\ UNCHANGED <<herdrVars, retired, known, route, errand, refresh, inputs>>

(* Mutant: only the pane is checked again, not who owns its terminal.      *)
PaneStillThere ==
    \E pane \in PaneAt(connect.panes, connect.pane) :
        pane.terminal = connect.terminal /\ pane.agent = connect.agent

(* The pane is as it was, and no other identity has taken its terminal.    *)
StillConnectable ==
    /\ \E pane \in PaneAt(connect.panes, connect.pane) :
          pane.terminal = connect.terminal /\ pane.agent = connect.agent
    /\ \A o \in Holders(route, connect.terminal) : Active(o) => o = connect.handle

ConnectBinds ==
    /\ connect.at = "relisted"
    /\ StillConnectable
    /\ route' = Bound(connect.handle, connect.terminal, connect.pane, connect.agent)
    /\ connect' = NoConnect
    /\ UNCHANGED <<herdrVars, retired, known, errand, refresh, inputs>>

(* Mutant: an identity that was created for nothing stays.                 *)
ConnectGivesUpOnly ==
    /\ connect.at = "relisted"
    /\ ~StillConnectable
    /\ connect' = NoConnect
    /\ UNCHANGED <<herdrVars, retired, known, route, errand, refresh, inputs>>

ConnectGivesUp ==
    /\ connect.at = "relisted"
    /\ ~StillConnectable
    /\ IF connect.created
       THEN /\ retired' = retired \union {connect.handle}
            /\ route' = DeactivatedRoute(connect.handle)
       ELSE UNCHANGED <<retired, route>>
    /\ connect' = NoConnect
    /\ UNCHANGED <<herdrVars, known, errand, refresh, inputs>>

-----------------------------------------------------------------------------
(* Topology refresh.                                                       *)

RefreshReads ==
    /\ refresh.at = "idle"
    /\ refresh' = [at |-> "read", panes |-> PaneList]
    /\ UNCHANGED <<herdrVars, retired, known, route, errand, connect, inputs>>

RefreshApplies ==
    /\ refresh.at = "read"
    /\ route' = Reconciled(refresh.panes)
    /\ refresh' = NoRefresh
    /\ UNCHANGED <<herdrVars, retired, known, errand, connect, inputs>>

-----------------------------------------------------------------------------
(* The rest of the world.                                                  *)

HerdrChanges ==
    /\ Input
    /\ \E t \in Terminals :
          \/ \E k \in Kinds \union {None} : PaneOpens(t, k) \/ OccupantChanges(t, k)
          \/ PaneCloses(t)
    /\ UNCHANGED <<retired, known, route, errand, connect, refresh>>

(* deactivateParticipant.                                                  *)
DeactivateAgent(a) ==
    /\ Input
    /\ a \in known \ retired
    /\ retired' = retired \union {a}
    /\ route' = DeactivatedRoute(a)
    /\ UNCHANGED <<herdrVars, known, errand, connect, refresh>>

(* A ping that reaches no agent marks the route stale (markRouteStale).    *)
PingFails(a) ==
    /\ Input
    /\ a \notin retired
    /\ Active(a)
    /\ route[a].terminal # None
    /\ route' = MarkedStale(route, {a})
    /\ UNCHANGED <<herdrVars, retired, known, errand, connect, refresh>>

(* A pass of the notifier follows the pane of a waiting agent.             *)
PassFollowsPane(a) ==
    /\ Input
    /\ Exists(route[a].terminal)
    /\ route' = Healed(route, a, PaneOf(route[a].terminal))
    /\ UNCHANGED <<herdrVars, retired, known, errand, connect, refresh>>

RoutingNext ==
    \/ \E t \in Terminals, as \in known \union {None} : CommandStarts(t, as)
    \/ CommandArrives
    \/ \E pane \in DOMAIN live, handle \in Agents : ConnectLists(pane, handle)
    \/ ConnectChecks
    \/ ConnectRelists
    \/ ConnectBinds
    \/ ConnectGivesUp
    \/ RefreshReads
    \/ RefreshApplies
    \/ HerdrChanges
    \/ \E a \in Agents : DeactivateAgent(a) \/ PingFails(a) \/ PassFollowsPane(a)

(* The hub's handlers run to their end.  Refreshes never stop: this is the *)
(* hub without Herdr's event stream, where the notifier asks for a refresh *)
(* after every tick (onTick, isWatching).  Safety does not depend on it.   *)
RoutingSpec ==
    /\ RoutingInit
    /\ [][RoutingNext]_routingVars
    /\ WF_routingVars(CommandArrives)
    /\ WF_routingVars(ConnectChecks)
    /\ WF_routingVars(ConnectRelists)
    /\ WF_routingVars(ConnectBinds \/ ConnectGivesUp)
    /\ WF_routingVars(RefreshReads)
    /\ WF_routingVars(RefreshApplies)

-----------------------------------------------------------------------------

(* "Active owners cannot be displaced" (server.ts, connectedIdentity): an  *)
(* operator's connect never takes a terminal from an identity that became  *)
(* active there while the hub was waiting for Herdr.                       *)
ConnectDisplacesNobody ==
    [][ConnectBinds => \A a \in Agents \ {connect.handle} : route'[a] = route[a]]_routingVars

(* "The caller must bind it or deactivate it when pane verification fails" *)
(* (server.ts, connectedIdentity): no identity created by a connect is     *)
(* left without a route, whatever happened between the two lists.          *)
CreatedIsBoundOrRetired ==
    [][connect.created /\ ~connect'.created =>
          connect.handle \in retired' \/ route'[connect.handle].terminal # None]_routingVars

Gone(a) ==
    a \notin retired /\ Active(a) /\ route[a].terminal # None /\ ~Exists(route[a].terminal)

(* "This is how the routes of a previous session end" (store.ts,           *)
(* endRoutesWithoutTerminal): a route to a terminal that closed does not   *)
(* stay active, not even when a late request or connect revived it.        *)
DeadRouteEnds == \A a \in Agents : Gone(a) ~> ~Gone(a)

Restorable(a) ==
    /\ ~Active(a)
    /\ Candidates(route, route[a].terminal) = {a}
    /\ \E pane \in PaneList :
          pane.terminal = route[a].terminal /\ pane.agent = route[a].occupant
    /\ route[a].occupant # None

(* "Restores a unique stale identity when its terminal has a matching      *)
(* occupant" (topology.ts, reconcileStaleRoutes): such a route does not    *)
(* wait for its agent to act.                                              *)
StaleRouteReturns == \A a \in Agents : Restorable(a) ~> ~Restorable(a)

=============================================================================
