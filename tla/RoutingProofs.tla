--------------------------- MODULE RoutingProofs ---------------------------
(***************************************************************************)
(* Theorems about routes, for any agents, terminals, pane layout and       *)
(* number of inputs.  Beside the types, the inductive invariant says that  *)
(* a connect in flight holds the identity and the terminal it will bind.   *)
(***************************************************************************)
EXTENDS Routing, RoutesProofs

ConnectHolds ==
    /\ connect.at \in {"checked", "relisted"} =>
          connect.handle \in Agents /\ connect.terminal \in Terminals
    /\ connect.created => connect.at \in {"checked", "relisted"}

RoutingInv ==
    /\ RoutingTypeOK
    /\ ConnectHolds
    /\ OneActivePerTerminal

-----------------------------------------------------------------------------

LEMMA RoutingInitInv == RoutingInit => RoutingInv
<1> SUFFICES ASSUME RoutingInit PROVE RoutingInv
    OBVIOUS
<1> USE DEF RoutingInit
<1>1. HerdrTypeOK
    BY RoutingAssumption DEF HerdrTypeOK, Activities
<1>2. Unrouted \in Route
    BY DEF Unrouted, Route
<1>3. RoutesTypeOK
    BY <1>1, <1>2 DEF RoutesTypeOK
<1>4. NoConnect \in Connect /\ NoRefresh \in Refresh
    BY DEF NoConnect, Connect, NoRefresh, Refresh
<1>5. RoutingTypeOK
    BY <1>3, <1>4, RoutingAssumption DEF RoutingTypeOK
<1>6. ConnectHolds
    BY DEF ConnectHolds, NoConnect
<1>7. OneActivePerTerminal
    BY DEF OneActivePerTerminal, Unrouted
<1> QED
    BY <1>5, <1>6, <1>7 DEF RoutingInv

LEMMA RoutingNextInv ==
    ASSUME RoutingInv, [RoutingNext]_routingVars
    PROVE  RoutingInv'
<1> USE DEF RoutingInv, RoutingTypeOK
<1>1. RoutesTypeOK /\ HerdrTypeOK /\ OneActivePerTerminal
    BY DEF RoutesTypeOK
<1>2. ASSUME Input PROVE inputs' \in 0..MaxInputs
    BY <1>2, RoutingAssumption DEF Input
(* Steps that write no route and retire nobody.                            *)
<1>3. ASSUME UNCHANGED <<retired, route>>
      PROVE  OneActivePerTerminal'
    BY <1>3 DEF OneActivePerTerminal, Active
<1>4. ASSUME UNCHANGED herdrVars
      PROVE  HerdrTypeOK'
    BY <1>1, <1>4 DEF HerdrTypeOK, herdrVars
<1>5. ASSUME NEW t \in Terminals, NEW as \in known \union {None}, CommandStarts(t, as)
      PROVE  RoutingInv'
    <2>1. /\ Input /\ Exists(t)
          /\ errand' = [as |-> as, terminal |-> t, pane |-> PaneOf(t), agent |-> kind[t]]
          /\ UNCHANGED <<herdrVars, retired, known, route, connect, refresh>>
        BY <1>5 DEF CommandStarts
    <2>2. PaneOf(t) \in Nat
        BY <1>1, <2>1, PaneOfPlace
    <2>3. errand' \in Errand
        BY <1>1, <2>1, <2>2 DEF Errand, RoutesTypeOK, HerdrTypeOK
    <2>4. RoutesTypeOK' /\ ConnectHolds'
        BY <1>4, <2>1 DEF RoutesTypeOK, ConnectHolds
    <2> QED
        BY <1>2, <1>3, <2>1, <2>3, <2>4
<1>6. ASSUME CommandArrives
      PROVE  RoutingInv'
    <2>1. /\ errand # NoErrand /\ errand \in Errand /\ errand' = NoErrand
          /\ UNCHANGED <<herdrVars, retired, known, connect, refresh, inputs>>
          /\ \/ route' = route
             \/ \E a \in Agents :
                    route' = Bound(a, errand.terminal, errand.pane, errand.agent)
        BY <1>6 DEF CommandArrives, Authenticate
    <2>2. route' \in [Agents -> Route] /\ OneActivePerTerminal'
        <3>1. CASE route' = route
            BY <1>1, <1>3, <2>1, <3>1 DEF RoutesTypeOK
        <3>2. CASE \E a \in Agents :
                       route' = Bound(a, errand.terminal, errand.pane, errand.agent)
            <4>1. /\ errand.terminal \in Terminals
                  /\ errand.pane \in Nat
                  /\ errand.agent \in Kinds \union {None}
                BY <2>1 DEF Errand
            <4>2. PICK a \in Agents :
                       route' = Bound(a, errand.terminal, errand.pane, errand.agent)
                BY <3>2
            <4> QED
                BY <1>1, <2>1, <4>1, <4>2, BoundKeeps
        <3> QED
            BY <2>1, <3>1, <3>2
    <2>3. RoutesTypeOK' /\ ConnectHolds'
        BY <1>4, <2>1, <2>2 DEF RoutesTypeOK, ConnectHolds
    <2> QED
        BY <2>1, <2>2, <2>3
<1>7. ASSUME NEW pane \in DOMAIN live, NEW handle \in Agents, ConnectLists(pane, handle)
      PROVE  RoutingInv'
    <2>1. /\ Input
          /\ connect' = [NoConnect EXCEPT !.at = "listed", !.pane = pane,
                                          !.handle = handle, !.panes = PaneList]
          /\ UNCHANGED <<herdrVars, retired, known, route, errand, refresh>>
        BY <1>7 DEF ConnectLists
    <2>2. connect' \in Connect /\ ConnectHolds'
        <3>1. pane \in Nat
            BY <1>1 DEF HerdrTypeOK
        <3> QED
            BY <1>1, <2>1, <3>1, PaneListType DEF NoConnect, Connect, ConnectHolds
    <2>3. RoutesTypeOK'
        BY <1>4, <2>1 DEF RoutesTypeOK
    <2> QED
        BY <1>2, <1>3, <2>1, <2>2, <2>3
<1>8. ASSUME ConnectChecks
      PROVE  RoutingInv'
    <2>1. UNCHANGED <<herdrVars, retired, route, errand, refresh, inputs>>
        BY <1>8 DEF ConnectChecks
    <2>2. \/ connect' = NoConnect /\ known' = known
          \/ \E pane \in PaneAt(connect.panes, connect.pane), a \in Agents,
                created \in BOOLEAN : ConnectAccepts(pane, a, created)
        BY <1>8 DEF ConnectChecks
    <2>3. known' \subseteq Agents /\ connect' \in Connect /\ ConnectHolds'
        <3>1. CASE connect' = NoConnect /\ known' = known
            BY <1>1, <3>1 DEF NoConnect, Connect, ConnectHolds, RoutesTypeOK
        <3>2. CASE \E pane \in PaneAt(connect.panes, connect.pane), a \in Agents,
                      created \in BOOLEAN : ConnectAccepts(pane, a, created)
            <4>1. PICK pane \in PaneAt(connect.panes, connect.pane), a \in Agents,
                       created \in BOOLEAN : ConnectAccepts(pane, a, created)
                BY <3>2
            <4>2. pane \in PaneRecord
                BY DEF PaneAt, Connect
            <4> QED
                BY <1>1, <4>1, <4>2
                DEF ConnectAccepts, Connect, ConnectHolds, PaneRecord, RoutesTypeOK
        <3> QED
            BY <2>2, <3>1, <3>2
    <2>4. RoutesTypeOK'
        BY <1>4, <2>1, <2>3 DEF RoutesTypeOK
    <2> QED
        BY <1>3, <2>1, <2>3, <2>4
<1>9. ASSUME ConnectRelists
      PROVE  RoutingInv'
    <2>1. /\ connect.at = "checked"
          /\ \E panes \in {PaneList, {}} :
                connect' = [connect EXCEPT !.at = "relisted", !.panes = panes]
          /\ UNCHANGED <<herdrVars, retired, known, route, errand, refresh, inputs>>
        BY <1>9 DEF ConnectRelists
    <2>2. connect' \in Connect /\ ConnectHolds'
        <3>1. PICK panes \in SUBSET PaneRecord :
                  connect' = [connect EXCEPT !.at = "relisted", !.panes = panes]
            BY <1>1, <2>1, PaneListType
        <3>2. connect' \in Connect
            BY <3>1 DEF Connect
        <3>3. /\ connect'.handle = connect.handle /\ connect'.terminal = connect.terminal
              /\ connect'.at = "relisted"
            BY <3>1 DEF Connect
        <3> QED
            BY <2>1, <3>2, <3>3 DEF ConnectHolds
    <2>3. RoutesTypeOK'
        BY <1>4, <2>1 DEF RoutesTypeOK
    <2> QED
        BY <1>3, <2>1, <2>2, <2>3
<1>10. ASSUME ConnectBinds
       PROVE  RoutingInv'
    <2>1. /\ connect.at = "relisted" /\ connect' = NoConnect
          /\ route' = Bound(connect.handle, connect.terminal, connect.pane, connect.agent)
          /\ UNCHANGED <<herdrVars, retired, known, errand, refresh, inputs>>
        BY <1>10 DEF ConnectBinds
    <2>2. /\ connect.handle \in Agents /\ connect.terminal \in Terminals
          /\ connect.pane \in Nat /\ connect.agent \in Kinds \union {None}
        BY <2>1 DEF ConnectHolds, Connect
    <2>3. route' \in [Agents -> Route] /\ OneActivePerTerminal'
        BY <1>1, <2>1, <2>2, BoundKeeps
    <2>4. connect' \in Connect /\ ConnectHolds'
        BY <2>1 DEF NoConnect, Connect, ConnectHolds
    <2>5. RoutesTypeOK'
        BY <1>4, <2>1, <2>3 DEF RoutesTypeOK
    <2> QED
        BY <2>1, <2>3, <2>4, <2>5
<1>11. ASSUME ConnectGivesUp
       PROVE  RoutingInv'
    <2>1. /\ connect.at = "relisted" /\ connect' = NoConnect
          /\ UNCHANGED <<herdrVars, known, errand, refresh, inputs>>
          /\ \/ retired' = retired \union {connect.handle}
                /\ route' = DeactivatedRoute(connect.handle)
             \/ UNCHANGED <<retired, route>>
        BY <1>11 DEF ConnectGivesUp
    <2>2. connect.handle \in Agents /\ connect.handle \in Participants
        BY <2>1, RosterAssumption DEF ConnectHolds
    <2>3. route' \in [Agents -> Route] /\ OneActivePerTerminal' /\ retired' \subseteq Participants
        <3>1. CASE UNCHANGED <<retired, route>>
            BY <1>1, <1>3, <3>1 DEF RoutesTypeOK
        <3>2. CASE retired' = retired \union {connect.handle}
                   /\ route' = DeactivatedRoute(connect.handle)
            BY <1>1, <2>2, <3>2, DeactivatedKeeps DEF RoutesTypeOK
        <3> QED
            BY <2>1, <3>1, <3>2
    <2>4. connect' \in Connect /\ ConnectHolds'
        BY <2>1 DEF NoConnect, Connect, ConnectHolds
    <2>5. RoutesTypeOK'
        BY <1>1, <1>4, <2>1, <2>3 DEF RoutesTypeOK
    <2> QED
        BY <2>1, <2>3, <2>4, <2>5
<1>12. ASSUME RefreshReads
       PROVE  RoutingInv'
    <2>1. /\ refresh' = [at |-> "read", panes |-> PaneList]
          /\ UNCHANGED <<herdrVars, retired, known, route, errand, connect, inputs>>
        BY <1>12 DEF RefreshReads
    <2>2. refresh' \in Refresh
        BY <1>1, <2>1, PaneListType DEF Refresh
    <2>3. RoutesTypeOK' /\ ConnectHolds'
        BY <1>4, <2>1 DEF RoutesTypeOK, ConnectHolds
    <2> QED
        BY <1>3, <2>1, <2>2, <2>3
<1>13. ASSUME RefreshApplies
       PROVE  RoutingInv'
    <2>1. /\ route' = Reconciled(refresh.panes) /\ refresh' = NoRefresh
          /\ UNCHANGED <<herdrVars, retired, known, errand, connect, inputs>>
        BY <1>13 DEF RefreshApplies
    <2>2. refresh.panes \in SUBSET PaneRecord /\ NoRefresh \in Refresh
        BY DEF Refresh, NoRefresh
    <2>3. route' \in [Agents -> Route] /\ OneActivePerTerminal'
        BY <1>1, <2>1, <2>2, ReconciledKeeps
    <2>4. RoutesTypeOK' /\ ConnectHolds'
        BY <1>4, <2>1, <2>3 DEF RoutesTypeOK, ConnectHolds
    <2> QED
        BY <2>1, <2>2, <2>3, <2>4
<1>14. ASSUME HerdrChanges
       PROVE  RoutingInv'
    <2>1. /\ Input
          /\ UNCHANGED <<retired, known, route, errand, connect, refresh>>
        BY <1>14 DEF HerdrChanges
    <2>2. HerdrTypeOK'
        BY <1>1, <1>14, HerdrStep DEF HerdrChanges
    <2>3. RoutesTypeOK' /\ ConnectHolds'
        BY <2>1, <2>2 DEF RoutesTypeOK, ConnectHolds
    <2> QED
        BY <1>2, <1>3, <2>1, <2>3
<1>15. ASSUME NEW a \in Agents, DeactivateAgent(a)
       PROVE  RoutingInv'
    <2>1. /\ Input /\ retired' = retired \union {a} /\ route' = DeactivatedRoute(a)
          /\ UNCHANGED <<herdrVars, known, errand, connect, refresh>>
        BY <1>15 DEF DeactivateAgent
    <2>2. route' \in [Agents -> Route] /\ OneActivePerTerminal'
        BY <1>1, <2>1, DeactivatedKeeps
    <2>3. RoutesTypeOK' /\ ConnectHolds'
        BY <1>1, <1>4, <2>1, <2>2, RosterAssumption DEF RoutesTypeOK, ConnectHolds
    <2> QED
        BY <1>2, <2>1, <2>2, <2>3
<1>16. ASSUME NEW a \in Agents, PingFails(a)
       PROVE  RoutingInv'
    <2>1. /\ Input /\ route' = MarkedStale(route, {a})
          /\ UNCHANGED <<herdrVars, retired, known, errand, connect, refresh>>
        BY <1>16 DEF PingFails
    <2>2. route' \in [Agents -> Route] /\ OneActivePerTerminal'
        BY <1>1, <2>1, MarkedStaleKeeps
    <2>3. RoutesTypeOK' /\ ConnectHolds'
        BY <1>4, <2>1, <2>2 DEF RoutesTypeOK, ConnectHolds
    <2> QED
        BY <1>2, <2>1, <2>2, <2>3
<1>17. ASSUME NEW a \in Agents, PassFollowsPane(a)
       PROVE  RoutingInv'
    <2>1. /\ Input /\ Exists(route[a].terminal)
          /\ route' = Healed(route, a, PaneOf(route[a].terminal))
          /\ UNCHANGED <<herdrVars, retired, known, errand, connect, refresh>>
        BY <1>17 DEF PassFollowsPane
    <2>2. PaneOf(route[a].terminal) \in Nat
        BY <1>1, <2>1, PaneOfPlace
    <2>3. route' \in [Agents -> Route] /\ OneActivePerTerminal'
        BY <1>1, <2>1, <2>2, HealedKeeps
    <2>4. RoutesTypeOK' /\ ConnectHolds'
        BY <1>4, <2>1, <2>3 DEF RoutesTypeOK, ConnectHolds
    <2> QED
        BY <1>2, <2>1, <2>3, <2>4
<1>18. CASE UNCHANGED routingVars
    <2>1. RoutesTypeOK' /\ ConnectHolds'
        BY <1>4, <1>18 DEF RoutesTypeOK, ConnectHolds, routingVars
    <2> QED
        BY <1>3, <1>18, <2>1 DEF routingVars
<1> HIDE DEF RoutingInv, RoutingTypeOK
<1> QED
    BY <1>5, <1>6, <1>7, <1>8, <1>9, <1>10, <1>11, <1>12, <1>13, <1>14, <1>15, <1>16,
       <1>17, <1>18 DEF RoutingNext

LEMMA RoutingSpecInv == RoutingSpec => []RoutingInv
<1>1. RoutingInv /\ [RoutingNext]_routingVars => RoutingInv'
    BY RoutingNextInv
<1> QED
    BY RoutingInitInv, <1>1, PTL DEF RoutingSpec

-----------------------------------------------------------------------------

(* A terminal never has two active routes, however requests, connects,     *)
(* refreshes and the notifier interleave: the unique index of db.ts is     *)
(* never hit by a handler.                                                 *)
THEOREM TerminalHasOneOwner == RoutingSpec => []OneActivePerTerminal
<1>1. RoutingInv => OneActivePerTerminal
    BY DEF RoutingInv
<1> QED
    BY RoutingSpecInv, <1>1, PTL

(* What waits between two reads of Herdr keeps its type.                   *)
THEOREM RoutingTypeCorrect == RoutingSpec => []RoutingTypeOK
<1>1. RoutingInv => RoutingTypeOK
    BY DEF RoutingInv
<1> QED
    BY RoutingSpecInv, <1>1, PTL

-----------------------------------------------------------------------------

DisplacesNobody ==
    ConnectBinds => \A a \in Agents \ {connect.handle} : route'[a] = route[a]

(* The check after the second pane list, made in the same turn as the      *)
(* write, is enough: an operator's connect never takes a terminal from an  *)
(* identity that became active there during either wait for Herdr.         *)
THEOREM ConnectNeverDisplaces == RoutingSpec => ConnectDisplacesNobody
<1>1. ASSUME RoutingInv, ConnectBinds, NEW a \in Agents \ {connect.handle}
      PROVE  route'[a] = route[a]
    <2>1. route[a] \in Route
        BY <1>1 DEF RoutingInv, RoutingTypeOK, RoutesTypeOK
    <2>2. route' = Bound(connect.handle, connect.terminal, connect.pane, connect.agent)
        BY <1>1 DEF ConnectBinds
    <2>3. CASE a \in retired \/ route[a].terminal # connect.terminal
        BY <1>1, <2>2, <2>3 DEF Bound
    <2>4. CASE a \notin retired /\ route[a].terminal = connect.terminal
        <3>1. a \in Holders(route, connect.terminal)
            BY <1>1, <2>4 DEF Holders
        <3>2. ~Active(a)
            BY <1>1, <3>1 DEF ConnectBinds, StillConnectable
        <3>3. route[a].state = "stale"
            BY <2>1, <3>2 DEF Active, Route
        <3>4. route'[a] = [route[a] EXCEPT !.state = "stale"]
            BY <1>1, <2>2, <2>4 DEF Bound
        <3> QED
            BY <2>1, <3>3, <3>4 DEF Route
    <2> QED
        BY <2>3, <2>4
<1>2. RoutingInv /\ [RoutingNext]_routingVars => [DisplacesNobody]_routingVars
    BY <1>1 DEF DisplacesNobody
<1> QED
    BY RoutingSpecInv, <1>2, PTL DEF RoutingSpec, ConnectDisplacesNobody, DisplacesNobody

EndsWell ==
    connect.created /\ ~connect'.created =>
        connect.handle \in retired' \/ route'[connect.handle].terminal # None

(* An identity that a connect created is bound or deactivated by the time  *)
(* the connect ends, even if it was deactivated or bound by others before. *)
THEOREM CreatedAlwaysBoundOrRetired == RoutingSpec => CreatedIsBoundOrRetired
<1>1. ASSUME RoutingInv, RoutingNext, connect.created, ~connect'.created
      PROVE  connect.handle \in retired' \/ route'[connect.handle].terminal # None
    <2>1. /\ connect.at \in {"checked", "relisted"}
          /\ connect.handle \in Agents /\ connect.terminal \in Terminals
          /\ connect.terminal # None
          /\ connect \in Connect
        BY <1>1, RoutingAssumption DEF RoutingInv, RoutingTypeOK, ConnectHolds
    <2>2. CASE ConnectBinds
        <3>1. /\ route' = Bound(connect.handle, connect.terminal, connect.pane, connect.agent)
              /\ retired' = retired
            BY <2>2 DEF ConnectBinds
        <3>2. connect.handle \notin retired => route'[connect.handle] =
                  [terminal |-> connect.terminal, pane |-> connect.pane,
                   occupant |-> connect.agent, state |-> "active"]
            BY <2>1, <3>1 DEF Bound
        <3> QED
            BY <2>1, <3>1, <3>2
    <2>3. CASE ConnectGivesUp
        BY <1>1, <2>3 DEF ConnectGivesUp
    <2>4. CASE ConnectRelists
        <3>1. connect'.created = connect.created
            BY <2>1, <2>4 DEF ConnectRelists, Connect
        <3> QED
            BY <1>1, <3>1
    <2>5. CASE connect' = connect
        BY <1>1, <2>5
    <2>6. ~ConnectChecks /\ \A pane, handle : ~ConnectLists(pane, handle)
        BY <2>1 DEF ConnectChecks, ConnectLists
    <2> QED
        BY <1>1, <2>2, <2>3, <2>4, <2>5, <2>6
        DEF RoutingNext, CommandStarts, CommandArrives, RefreshReads, RefreshApplies,
            HerdrChanges, DeactivateAgent, PingFails, PassFollowsPane
<1>2. RoutingInv /\ [RoutingNext]_routingVars => [EndsWell]_routingVars
    BY <1>1 DEF EndsWell
<1> QED
    BY RoutingSpecInv, <1>2, PTL DEF RoutingSpec, CreatedIsBoundOrRetired, EndsWell

-----------------------------------------------------------------------------

(* What a refresh does when its pane list is still the panes that exist.   *)

LEMMA ListedExists ==
    ASSUME NEW pane \in PaneList
    PROVE  Exists(pane.terminal)
BY DEF PaneList, Exists

(* A refresh changes no route but in its pane id and its state.            *)
LEMMA ReconciledTerminal ==
    ASSUME RoutesTypeOK, NEW panes, route' = Reconciled(panes), NEW a \in Agents
    PROVE  /\ route'[a].terminal = route[a].terminal
           /\ route'[a].occupant = route[a].occupant
BY DEF RoutesTypeOK, Route, Reconciled

LEMMA ReconciledHolders ==
    ASSUME RoutesTypeOK, NEW panes, route' = Reconciled(panes), NEW t
    PROVE  Holders(route', t) = Holders(route, t)
BY ReconciledTerminal DEF Holders

(* Of a terminal whose one row is inactive, that row is the candidate.     *)
LEMMA LoneCandidate ==
    ASSUME NEW rt, NEW a, NEW t
    PROVE  /\ Candidates(rt, t) = {a} /\ rt[a].state # "active" => Holders(rt, t) = {a}
           /\ Holders(rt, t) = {a} /\ rt[a].state # "active" => Candidates(rt, t) = {a}
BY DEF Candidates

LEMMA FreshEndsDead ==
    ASSUME RoutesTypeOK, route' = Reconciled(PaneList), UNCHANGED <<herdrVars, retired>>,
           NEW a \in Agents
    PROVE  ~Gone(a)'
<1> SUFFICES ASSUME Gone(a)' PROVE FALSE
    OBVIOUS
<1>1. /\ a \notin retired /\ route'[a].state = "active"
      /\ route[a].terminal # None /\ ~Exists(route[a].terminal)
    BY ReconciledTerminal DEF Gone, Active, Exists, herdrVars
<1>2. \A pane \in PaneList : pane.terminal # route[a].terminal
    BY <1>1, ListedExists
<1>3. ~Restored(a, PaneList)
    BY <1>2 DEF Restored
<1>4. ~Ended(a, PaneList)
    <2>1. Ended(a, PaneList) => route'[a] = [route[a] EXCEPT !.state = "stale"]
        BY <1>3 DEF Reconciled
    <2> QED
        BY <1>1, <2>1 DEF RoutesTypeOK, Route
<1>5. ~Active(a)
    BY <1>1, <1>2, <1>4 DEF Ended
<1>6. route'[a] = route[a]
    BY <1>3, <1>4 DEF Reconciled
<1> QED
    BY <1>1, <1>5, <1>6 DEF Active

LEMMA FreshRestoresStale ==
    ASSUME RoutesTypeOK, route' = Reconciled(PaneList), UNCHANGED <<herdrVars, retired>>,
           NEW a \in Agents
    PROVE  ~Restorable(a)'
<1> SUFFICES ASSUME Restorable(a)' PROVE FALSE
    OBVIOUS
<1> DEFINE t == route[a].terminal
<1>1. PaneList' = PaneList
    BY DEF PaneList, herdrVars
<1>2. /\ route'[a].state # "active"
      /\ Candidates(route', t) = {a}
      /\ \E pane \in PaneList : pane.terminal = t /\ pane.agent = route[a].occupant
      /\ route[a].occupant # None
    BY <1>1, ReconciledTerminal DEF Restorable, Active, Candidates, Holders
<1>3. ~Ended(a, PaneList)
    BY <1>2 DEF Ended
<1>4. Holders(route, t) = {a}
    <2>1. Holders(route', t) = {a}
        BY <1>2, LoneCandidate
    <2> QED
        BY <2>1, ReconciledHolders
<1>5. a \notin retired
    BY <1>4 DEF Holders
<1>6. ~Restored(a, PaneList)
    BY <1>2 DEF Reconciled, RoutesTypeOK, Route
<1>7. route'[a] = route[a]
    BY <1>3, <1>6 DEF Reconciled
<1>8. route[a].state = "stale"
    BY <1>2, <1>7 DEF RoutesTypeOK, Route
<1>9. Candidates(route, t) = {a}
    BY <1>4, <1>8, LoneCandidate
<1> QED
    BY <1>2, <1>5, <1>6, <1>8, <1>9 DEF Restored

RefreshRepairs ==
    RefreshApplies /\ refresh.panes = PaneList =>
        \A a \in Agents : ~Gone(a)' /\ ~Restorable(a)'

(* The safety half of DeadRouteEnds and StaleRouteReturns                  *)
(* (reconcileStaleRoutes, endRoutesWithoutTerminal): a refresh whose pane  *)
(* list is still true leaves no active route to a terminal that closed and *)
(* no stale one that could return, whatever other routes it ends or        *)
(* restores in the same turn.                                              *)
THEOREM FreshRefreshRepairs == RoutingSpec => [][RefreshRepairs]_routingVars
<1>1. ASSUME RoutingInv, RefreshApplies, refresh.panes = PaneList, NEW a \in Agents
      PROVE  ~Gone(a)' /\ ~Restorable(a)'
    <2>1. /\ RoutesTypeOK /\ route' = Reconciled(PaneList)
          /\ UNCHANGED <<herdrVars, retired>>
        BY <1>1 DEF RoutingInv, RoutingTypeOK, RefreshApplies
    <2> QED
        BY <2>1, FreshEndsDead, FreshRestoresStale
<1>2. RoutingInv /\ [RoutingNext]_routingVars => [RefreshRepairs]_routingVars
    BY <1>1 DEF RefreshRepairs
<1> QED
    BY RoutingSpecInv, <1>2, PTL DEF RoutingSpec

=============================================================================
