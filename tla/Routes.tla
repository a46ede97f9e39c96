------------------------------- MODULE Routes -------------------------------
(***************************************************************************)
(* The route of an agent: the terminal, pane and occupant the hub believes *)
(* it runs in (the route columns of participants, src/src/store.ts), and   *)
(* everything that writes it: authenticated requests (src/src/http.ts),    *)
(* the operator's connect (src/src/server.ts), deactivation, and topology  *)
(* reconciliation (src/src/topology.ts).                                   *)
(*                                                                         *)
(* Connect and reconciliation read Herdr, wait, and write; a request       *)
(* carries what the CLI read from Herdr before it was sent.                *)
(***************************************************************************)
EXTENDS Roster, Herdr, FiniteSets

VARIABLES
    known,     \* agents that have a row
    route      \* terminal_id, pane_id, occupant_agent, route_state of each

Route == [terminal : Terminals \union {None}, pane : Nat,
          occupant : Kinds \union {None}, state : {"active", "stale"}]

(* A new row has no terminal, and the column's default state.              *)
Unrouted == [terminal |-> None, pane |-> 0, occupant |-> None, state |-> "active"]

RoutesTypeOK ==
    /\ HerdrTypeOK
    /\ retired \subseteq Participants
    /\ known \subseteq Agents
    /\ route \in [Agents -> Route]

Active(a) == route[a].state = "active"

(* The rows of a terminal, when the routes are rt.                         *)
Holders(rt, t) == {a \in Agents \ retired : rt[a].terminal = t}

(* identityForRoute: an active owner takes precedence, otherwise the one   *)
(* row of the terminal; the whole tuple must agree.                        *)
Candidates(rt, t) ==
    LET owners == {a \in Holders(rt, t) : rt[a].state = "active"}
    IN  IF owners # {} THEN owners ELSE Holders(rt, t)

Identified(rt, a, t, pane, agent) ==
    /\ Candidates(rt, t) = {a}
    /\ rt[a].pane = pane
    /\ rt[a].occupant = agent
    /\ agent # None

(* Mutant: another active row of the terminal stays as it is.              *)
BoundAlone(a, t, pane, agent) ==
    [x \in Agents |->
        IF x = a /\ x \notin retired
        THEN [terminal |-> t, pane |-> pane, occupant |-> agent, state |-> "active"]
        ELSE route[x]]

(* bindRoute: any other active row of the terminal becomes stale.          *)
Bound(a, t, pane, agent) ==
    [x \in Agents |->
        IF x \in retired THEN route[x]
        ELSE IF x = a
             THEN [terminal |-> t, pane |-> pane, occupant |-> agent, state |-> "active"]
        ELSE IF route[x].terminal = t THEN [route[x] EXCEPT !.state = "stale"]
        ELSE route[x]]

(* Mutant: a state that the schema does not know.                          *)
MarkedMissing(rt, S) ==
    [x \in Agents |-> IF x \in S THEN [rt[x] EXCEPT !.state = "missing"] ELSE rt[x]]

MarkedStale(rt, S) ==
    [x \in Agents |-> IF x \in S THEN [rt[x] EXCEPT !.state = "stale"] ELSE rt[x]]

-----------------------------------------------------------------------------
(* authenticate: a request from a pane, with the caller's token (as is an  *)
(* agent) or with the local control credential only (as is None).          *)
AuthenticatedAs(as, a, r) ==
    /\ a \notin retired
    /\ a \in known
    /\ \/ as = a
       \/ as = None /\ Identified(route, a, r.terminal, r.pane, r.agent)

Authenticate(as, a, r) ==
    /\ AuthenticatedAs(as, a, r)
    /\ route' = Bound(a, r.terminal, r.pane, r.agent)

DeactivatedRoute(a) ==
    [route EXCEPT ![a].terminal = None, ![a].pane = 0, ![a].state = "stale"]

(* healRoutePane: the pane id, and nothing else.                          *)
Healed(rt, a, pane) == [rt EXCEPT ![a].pane = pane]

(* Mutant: the pane id must be the old one too, though panes renumber.     *)
RestoredInPlace(a, panes) ==
    /\ a \notin retired
    /\ route[a].state = "stale"
    /\ route[a].occupant # None
    /\ \E pane \in panes : /\ pane.terminal = route[a].terminal
                          /\ pane.agent = route[a].occupant
                          /\ pane.pane = route[a].pane
    /\ Candidates(route, route[a].terminal) = {a}

(* reconcileStaleRoutes, then endRoutesWithoutTerminal, on one pane list.  *)
Restored(a, panes) ==
    /\ a \notin retired
    /\ route[a].state = "stale"
    /\ route[a].occupant # None
    /\ \E pane \in panes : pane.terminal = route[a].terminal
                           /\ pane.agent = route[a].occupant
    /\ Candidates(route, route[a].terminal) = {a}

Ended(a, panes) ==
    /\ a \notin retired
    /\ Active(a)
    /\ route[a].terminal # None
    /\ \A pane \in panes : pane.terminal # route[a].terminal

PaneIn(panes, t) == CHOOSE pane \in panes : pane.terminal = t

(* Mutant: routes without a terminal do not end.                           *)
ReconciledStaleOnly(panes) ==
    [a \in Agents |->
        IF Restored(a, panes)
        THEN [route[a] EXCEPT !.pane = PaneIn(panes, route[a].terminal).pane,
                              !.state = "active"]
        ELSE route[a]]

Reconciled(panes) ==
    [a \in Agents |->
        IF Restored(a, panes)
        THEN [route[a] EXCEPT !.pane = PaneIn(panes, route[a].terminal).pane,
                              !.state = "active"]
        ELSE IF Ended(a, panes) THEN [route[a] EXCEPT !.state = "stale"]
        ELSE route[a]]

-----------------------------------------------------------------------------

(* "A terminal has one active route" (store.ts, bindRoute): db.ts enforces *)
(* it with a unique index, so an interleaving that broke it would make a   *)
(* request handler throw.                                                  *)
OneActivePerTerminal ==
    \A a, b \in Agents \ retired :
        (Active(a) /\ Active(b) /\ route[a].terminal = route[b].terminal
         /\ route[a].terminal # None) => a = b

=============================================================================
