---------------------------- MODULE RoutesProofs ----------------------------
(***************************************************************************)
(* Facts about panes and routes that every module with routes can use:     *)
(* what a change of panes does to the pane order, and what each writer of  *)
(* routes does to their types and to the active owner of a terminal.       *)
(***************************************************************************)
EXTENDS Routes, TLAPS

(* Herdr.                                                                  *)

LEMMA PaneOfPlace ==
    ASSUME HerdrTypeOK, NEW t, Exists(t)
    PROVE  PaneOf(t) \in 1..Len(live) /\ live[PaneOf(t)] = t /\ PaneOf(t) \in Nat
<1>1. live \in Seq(Terminals) /\ DOMAIN live = 1..Len(live) /\ Len(live) \in Nat
    BY DEF HerdrTypeOK
<1>2. \E i \in DOMAIN live : live[i] = t
    BY DEF Exists
<1> QED
    BY <1>1, <1>2 DEF PaneOf

LEMMA PaneListType ==
    ASSUME HerdrTypeOK
    PROVE  PaneList \subseteq PaneRecord
<1>1. \A i \in DOMAIN live : i \in Nat /\ live[i] \in Terminals
    BY DEF HerdrTypeOK
<1> QED
    BY <1>1 DEF HerdrTypeOK, PaneList, PaneRecord

(* Opening, closing and renumbering panes keeps each terminal in one place.*)
LEMMA HerdrStep ==
    ASSUME HerdrTypeOK, NEW t \in Terminals,
           \/ \E k \in Kinds \union {None} : PaneOpens(t, k) \/ OccupantChanges(t, k)
           \/ PaneCloses(t)
    PROVE  HerdrTypeOK'
<1> USE DEF HerdrTypeOK
<1>1. /\ live \in Seq(Terminals) /\ Len(live) \in Nat /\ DOMAIN live = 1..Len(live)
      /\ \A i \in 1..Len(live) : live[i] \in Terminals
      /\ \A i, j \in 1..Len(live) : live[i] = live[j] => i = j
    OBVIOUS
<1>2. ASSUME NEW k \in Kinds \union {None}, PaneOpens(t, k)
      PROVE  HerdrTypeOK'
    <2>1. /\ live' = Append(live, t)
          /\ kind' = [kind EXCEPT ![t] = k]
          /\ activity' = activity
          /\ \A i \in 1..Len(live) : live[i] # t
        BY <1>1, <1>2 DEF PaneOpens, Exists
    <2>2. /\ live' \in Seq(Terminals)
          /\ DOMAIN live' = 1..(Len(live) + 1)
          /\ \A i \in 1..Len(live) : live'[i] = live[i]
          /\ live'[Len(live) + 1] = t
        BY <1>1, <2>1
    <2>3. \A i, j \in DOMAIN live' : live'[i] = live'[j] => i = j
        BY <1>1, <2>1, <2>2
    <2> QED
        BY <2>1, <2>2, <2>3
<1>3. ASSUME NEW k \in Kinds \union {None}, OccupantChanges(t, k)
      PROVE  HerdrTypeOK'
    BY <1>3 DEF OccupantChanges
<1>4. CASE PaneCloses(t)
    <2> DEFINE n == Len(live) - 1
               place(i) == IF i < PaneOf(t) THEN i ELSE i + 1
    <2>1. PaneOf(t) \in 1..Len(live)
        BY <1>4, PaneOfPlace DEF PaneCloses
    <2>2. n \in Nat
        BY <1>1, <2>1
    <2>3. \A i \in 1..n : place(i) \in 1..Len(live) /\ i \in Nat
        BY <1>1, <2>1
    <2>4. \A i, j \in 1..n : place(i) = place(j) => i = j
        BY <1>1, <2>1
    <2>5. live' = [i \in 1..n |-> live[place(i)]]
        BY <1>4 DEF PaneCloses
    <2>6. kind' = kind /\ activity' = activity
        BY <1>4 DEF PaneCloses
    <2> HIDE DEF place, n
    <2>7. live' \in Seq(Terminals) /\ DOMAIN live' = 1..n
        BY <1>1, <2>2, <2>3, <2>5
    <2>8. \A i, j \in DOMAIN live' : live'[i] = live'[j] => i = j
        BY <1>1, <2>3, <2>4, <2>5, <2>7
    <2> QED
        BY <2>6, <2>7, <2>8
<1> QED
    BY <1>2, <1>3, <1>4

-----------------------------------------------------------------------------
(* What each writer of routes does to types and to active owners.          *)

LEMMA BoundKeeps ==
    ASSUME RoutesTypeOK, OneActivePerTerminal, NEW a \in Agents,
           NEW t \in Terminals, NEW pane \in Nat, NEW agent \in Kinds \union {None},
           route' = Bound(a, t, pane, agent), retired' = retired
    PROVE  route' \in [Agents -> Route] /\ OneActivePerTerminal'
<1>1. \A x \in Agents : route[x] \in Route
    BY DEF RoutesTypeOK
<1>2. \A x \in Agents :
          \/ x = a /\ a \notin retired
             /\ route'[x] = [terminal |-> t, pane |-> pane, occupant |-> agent, state |-> "active"]
          \/ x # a /\ x \notin retired /\ route[x].terminal = t
             /\ route'[x] = [route[x] EXCEPT !.state = "stale"]
          \/ ~(x = a /\ a \notin retired) /\ ~(x # a /\ x \notin retired /\ route[x].terminal = t)
             /\ route'[x] = route[x]
    BY DEF Bound
<1>3. route' \in [Agents -> Route]
    BY <1>1 DEF Bound, Route
<1>4. \A x \in Agents \ retired :
          \/ x = a
          \/ route'[x].state = "stale"
          \/ route'[x] = route[x] /\ route[x].terminal # t
    BY <1>1, <1>2 DEF Route
<1>5. a \notin retired => route'[a].terminal = t
    <2> SUFFICES ASSUME a \notin retired PROVE route'[a].terminal = t
        OBVIOUS
    <2>1. route'[a] = [terminal |-> t, pane |-> pane, occupant |-> agent, state |-> "active"]
        BY <1>2
    <2> QED
        BY <2>1
<1>6. ASSUME NEW x \in Agents \ retired, NEW y \in Agents \ retired,
             route'[x].state = "active", route'[y].state = "active",
             route'[x].terminal = route'[y].terminal, route'[x].terminal # None
      PROVE  x = y
    <2>1. /\ x = a \/ (route'[x] = route[x] /\ route[x].terminal # t)
          /\ y = a \/ (route'[y] = route[y] /\ route[y].terminal # t)
        BY <1>4, <1>6
    <2>2. CASE x = a /\ y # a
        BY <1>5, <1>6, <2>1, <2>2
    <2>3. CASE x # a /\ y = a
        BY <1>5, <1>6, <2>1, <2>3
    <2>4. CASE x # a /\ y # a
        BY <1>6, <2>1, <2>4 DEF OneActivePerTerminal, Active
    <2> QED
        BY <2>2, <2>3, <2>4
<1> QED
    BY <1>3, <1>6 DEF OneActivePerTerminal, Active

(* A step that makes no route active and moves none to another terminal.   *)
LEMMA NoneActivated ==
    ASSUME OneActivePerTerminal, retired \subseteq retired',
           \A x \in Agents \ retired' : Active(x)' =>
               \/ route'[x].terminal = None
               \/ Active(x) /\ route'[x].terminal = route[x].terminal
    PROVE  OneActivePerTerminal'
BY DEF OneActivePerTerminal

LEMMA DeactivatedKeeps ==
    ASSUME RoutesTypeOK, OneActivePerTerminal, NEW a \in Agents,
           route' = DeactivatedRoute(a), retired' = retired \union {a}
    PROVE  route' \in [Agents -> Route] /\ OneActivePerTerminal'
<1>1. route' \in [Agents -> Route]
    BY DEF RoutesTypeOK, DeactivatedRoute, Route
<1>2. \A x \in Agents \ {a} : route'[x] = route[x]
    BY DEF RoutesTypeOK, DeactivatedRoute
<1> QED
    BY <1>1, <1>2, NoneActivated DEF Active

LEMMA MarkedStaleKeeps ==
    ASSUME RoutesTypeOK, OneActivePerTerminal, NEW S,
           route' = MarkedStale(route, S), retired' = retired
    PROVE  route' \in [Agents -> Route] /\ OneActivePerTerminal'
<1>1. \A x \in Agents : route'[x] = route[x] \/ route'[x] = [route[x] EXCEPT !.state = "stale"]
    BY DEF MarkedStale
<1>2. route' \in [Agents -> Route]
    BY DEF RoutesTypeOK, MarkedStale, Route
<1> QED
    BY <1>1, <1>2, NoneActivated DEF RoutesTypeOK, Active, Route

LEMMA HealedKeeps ==
    ASSUME RoutesTypeOK, OneActivePerTerminal, NEW a \in Agents, NEW pane \in Nat,
           route' = Healed(route, a, pane), retired' = retired
    PROVE  route' \in [Agents -> Route] /\ OneActivePerTerminal'
<1>1. route' \in [Agents -> Route]
    BY DEF RoutesTypeOK, Healed, Route
<1>2. \A x \in Agents : route'[x].state = route[x].state /\ route'[x].terminal = route[x].terminal
    BY DEF RoutesTypeOK, Healed, Route
<1> QED
    BY <1>1, <1>2, NoneActivated DEF Active

(* A restored route was the only one of its terminal, so that no other can *)
(* be active there and no second one is restored by the same refresh.      *)
LEMMA ReconciledKeeps ==
    ASSUME RoutesTypeOK, OneActivePerTerminal, NEW panes \in SUBSET PaneRecord,
           route' = Reconciled(panes), retired' = retired
    PROVE  route' \in [Agents -> Route] /\ OneActivePerTerminal'
<1>1. \A x \in Agents : route[x] \in Route
    BY DEF RoutesTypeOK
<1>2. ASSUME NEW x \in Agents, Restored(x, panes)
      PROVE  PaneIn(panes, route[x].terminal).pane \in Nat
    <2>1. \E pane \in panes : pane.terminal = route[x].terminal
        BY <1>2 DEF Restored
    <2>2. PaneIn(panes, route[x].terminal) \in panes
        BY <2>1 DEF PaneIn
    <2> QED
        BY <2>2 DEF PaneRecord
<1>3. \A x \in Agents :
          \/ /\ Restored(x, panes)
             /\ route'[x] = [route[x] EXCEPT !.pane = PaneIn(panes, route[x].terminal).pane,
                                             !.state = "active"]
          \/ route'[x] = [route[x] EXCEPT !.state = "stale"]
          \/ route'[x] = route[x]
    BY DEF Reconciled
<1>4. route' \in [Agents -> Route]
    <2>1. \A x \in Agents :
              /\ [route[x] EXCEPT !.state = "stale"] \in Route
              /\ Restored(x, panes) =>
                    [route[x] EXCEPT !.pane = PaneIn(panes, route[x].terminal).pane,
                                     !.state = "active"] \in Route
        BY <1>1, <1>2 DEF Route
    <2> QED
        BY <1>1, <2>1 DEF Reconciled
<1>5. \A x \in Agents : /\ route'[x].terminal = route[x].terminal
                        /\ Active(x)' => Active(x) \/ Restored(x, panes)
    BY <1>1, <1>3 DEF Active, Route
<1>6. ASSUME NEW x \in Agents \ retired, NEW y \in Agents \ retired, Restored(x, panes),
             Active(y) \/ Restored(y, panes),
             route[x].terminal = route[y].terminal
      PROVE  x = y
    <2>1. Candidates(route, route[x].terminal) = {x} /\ ~Active(x)
        BY <1>6 DEF Restored, Active
    <2>2. CASE Restored(y, panes)
        BY <1>6, <2>1, <2>2 DEF Restored
    <2>3. CASE Active(y)
        <3>1. y \in {z \in Holders(route, route[x].terminal) : route[z].state = "active"}
            BY <1>6, <2>3 DEF Holders, Active
        <3>2. y \in Candidates(route, route[x].terminal)
            BY <3>1 DEF Candidates
        <3> QED
            BY <2>1, <3>2
    <2> QED
        BY <1>6, <2>2, <2>3
<1> QED
    BY <1>4, <1>5, <1>6 DEF OneActivePerTerminal

=============================================================================
