--------------------------- MODULE SessionsProofs ---------------------------
(***************************************************************************)
(* No exact mapping comes from a guess.  ResumePointsAreVouched is about   *)
(* the table alone; the inductive invariant adds what each of its writers  *)
(* holds between its awaits: an identity that was active in the terminal   *)
(* it is about to write, or a session that already is vouched for; and     *)
(* that no identity is active in a terminal without having been there.     *)
(***************************************************************************)
EXTENDS Sessions, RoutesProofs, FiniteSetTheorems

(* Types of what the steps below write; TLC checks all of them.            *)
Shapes ==
    /\ RoutesTypeOK /\ OneActivePerTerminal
    /\ mapping = [t \in Terminals |-> mapping[t]]
    /\ been \in [Terminals -> SUBSET Agents]
    /\ written \subseteq Sessions
    /\ recorder.files \subseteq Sessions /\ reader.files \subseteq Sessions
    /\ choice \in [at : {"rest", "locating", "relisting"}, pane : Nat, terminal : SomeTerminal,
                   agent : SomeKind, session : SomeSession, files : SUBSET Sessions]
    /\ choice.at # "rest" => choice.session \in Sessions
    /\ revival # Unrevived => revival.agent \in Agents /\ revival.session \in Sessions

BeenWhereActive ==
    \A a \in Agents :
        Active(a) /\ route[a].terminal \in Terminals => a \in been[route[a].terminal]

RecorderKnows ==
    recorder.at = "locating" /\ recorder.terminal \in Terminals
        => recorder.who \in been[recorder.terminal]

ReaderKnows ==
    reader.terminal \in Terminals =>
        /\ reader.at = "locating" =>
              reader.who \in {None} \union been[reader.terminal] \/ reader.terminal \in misled
        /\ reader.at = "window" /\ reader.fresh.session # None /\ reader.fresh.confidence = "exact"
              => /\ reader.fresh.session \in Sessions
                 /\ Vouched(reader.terminal, reader.fresh.session)

PointsKnown ==
    \A t \in Terminals : mapping[t].confidence = "exact" => mapping[t].session \in Sessions

VouchInv ==
    /\ Shapes /\ BeenWhereActive /\ RecorderKnows /\ ReaderKnows
    /\ PointsKnown /\ ResumePointsAreVouched

LEMMA SavedAt ==
    ASSUME Shapes, NEW t, NEW agent, NEW s, NEW confidence
    PROVE  /\ Saved(t, agent, s, confidence) =
                [x \in Terminals |-> Saved(t, agent, s, confidence)[x]]
           /\ \A x \in Terminals : x # t => Saved(t, agent, s, confidence)[x] = mapping[x]
           /\ t \in Terminals =>
                /\ Saved(t, agent, s, confidence)[t].session = s
                /\ Saved(t, agent, s, confidence)[t].confidence = confidence
<1>1. Saved(t, agent, s, confidence) =
        [x \in Terminals |->
            IF x = t THEN [harness |-> agent, session |-> s, confidence |-> confidence]
            ELSE mapping[x]]
    BY DEF Saved, Shapes
<1> QED
    BY <1>1

(* An answer of the ladder that is exact names the identity it asked for.  *)
LEMMA ExactNames ==
    ASSUME NEW S, NEW who, ChooseSession(S, who).confidence = "exact"
    PROVE  /\ ChooseSession(S, who).session \in S
           /\ who \in Names[ChooseSession(S, who).session]
<1>1. IsOne(Named(S, who))
    BY DEF ChooseSession
<1>2. ChooseSession(S, who).session = Only(Named(S, who))
    BY <1>1 DEF ChooseSession
<1>3. PICK s \in Named(S, who) : Named(S, who) = {s}
    BY <1>1 DEF IsOne
<1>4. Only(Named(S, who)) = s
    BY <1>3 DEF Only
<1> QED
    BY <1>2, <1>3, <1>4 DEF Named

LEMMA LocatedAreSessions ==
    ASSUME Shapes, NEW agent, NEW files, files \subseteq Sessions,
           NEW S \in Located(agent, files)
    PROVE  S \subseteq Sessions
    BY DEF Located, SessionsOf, Shapes

(* What vouches for a mapping is never taken back.                         *)
Grows ==
    /\ \A t \in Terminals : been[t] \subseteq been'[t]
    /\ chosen \subseteq chosen' /\ misled \subseteq misled'

LEMMA VouchedStays ==
    ASSUME Grows, NEW t \in Terminals, NEW s, Vouched(t, s)
    PROVE  Vouched(t, s)'
    BY DEF Vouched, Grows

LEMMA PointsStay ==
    ASSUME ResumePointsAreVouched, PointsKnown, Grows, mapping' = mapping
    PROVE  ResumePointsAreVouched' /\ PointsKnown'
    BY VouchedStays DEF ResumePointsAreVouched, PointsKnown

LEMMA PointsSaved ==
    ASSUME ResumePointsAreVouched, Shapes, Grows, NEW t, NEW agent, NEW s, NEW confidence,
           mapping' = Saved(t, agent, s, confidence),
           PointsKnown,
           t \in Terminals /\ confidence = "exact" => s \in Sessions /\ Vouched(t, s)'
    PROVE  /\ ResumePointsAreVouched'
           /\ PointsKnown'
           /\ mapping' = [x \in Terminals |-> mapping'[x]]
<1>1. mapping' = [x \in Terminals |-> mapping'[x]]
    BY SavedAt
<1>2. ASSUME NEW x \in Terminals, mapping'[x].confidence = "exact"
      PROVE  Vouched(x, mapping[x].session)'
    <2>1. CASE x = t
        <3>1. mapping'[x].session = s /\ mapping'[x].confidence = confidence
            BY <2>1, SavedAt
        <3> QED
            BY <1>2, <2>1, <3>1 DEF Vouched
    <2>2. CASE x # t
        <3>1. mapping'[x] = mapping[x]
            BY <2>2, SavedAt
        <3>2. Vouched(x, mapping[x].session)
            BY <1>2, <3>1 DEF ResumePointsAreVouched
        <3> QED
            BY <3>1, <3>2 DEF Vouched, Grows
    <2> QED
        BY <2>1, <2>2
<1>3. PointsKnown'
    BY SavedAt DEF PointsKnown
<1> QED
    BY <1>1, <1>2, <1>3 DEF ResumePointsAreVouched

LEMMA RecorderStays ==
    ASSUME RecorderKnows, Grows, recorder' = recorder
    PROVE  RecorderKnows'
    BY DEF RecorderKnows, Grows

LEMMA ReaderStays ==
    ASSUME ReaderKnows, Grows, reader' = reader
    PROVE  ReaderKnows'
<1> SUFFICES ASSUME reader.terminal \in Terminals
             PROVE  ReaderKnows'
    BY DEF ReaderKnows
<1>1. reader.at = "locating" =>
          reader.who \in {None} \union been'[reader.terminal] \/ reader.terminal \in misled'
    BY DEF ReaderKnows, Grows
<1>2. reader.at = "window" /\ reader.fresh.session # None /\ reader.fresh.confidence = "exact"
          => /\ reader.fresh.session \in Sessions
             /\ Vouched(reader.terminal, reader.fresh.session)'
    BY VouchedStays DEF ReaderKnows
<1> QED
    BY <1>1, <1>2 DEF ReaderKnows

(* Binding a route records where the identity has been.                    *)
LEMMA BindingKnows ==
    ASSUME Shapes, BeenWhereActive, NEW a \in Agents, NEW t \in Terminals, NEW p \in Nat,
           NEW k \in Kinds \union {None}, HerdrTypeOK', Binds(a, t, p, k)
    PROVE  /\ RoutesTypeOK' /\ OneActivePerTerminal'
           /\ BeenWhereActive'
           /\ \A x \in Terminals : been[x] \subseteq been'[x]
           /\ been' \in [Terminals -> SUBSET Agents]
<1>1. /\ \A x \in Terminals : been[x] \subseteq been'[x]
      /\ been' \in [Terminals -> SUBSET Agents]
      /\ a \notin retired => a \in been'[t]
    BY DEF Binds, Shapes
<1>2. route' = Bound(a, t, p, k) /\ retired' = retired /\ known' = known
    BY DEF Binds
<1>3. RoutesTypeOK' /\ OneActivePerTerminal'
    BY <1>2, BoundKeeps DEF Shapes, RoutesTypeOK
<1>4. ASSUME NEW x \in Agents
      PROVE  \/ x \notin retired /\ x = a /\ route'[x].terminal = t
             \/ /\ route'[x].terminal = route[x].terminal
                /\ route'[x].state \in {route[x].state, "stale"}
    <2>1. route[x] \in Route
        BY DEF Shapes, RoutesTypeOK
    <2> QED
        BY <1>2, <2>1 DEF Bound, Route
<1>5. ASSUME NEW x \in Agents, Active(x)', route'[x].terminal \in Terminals
      PROVE  x \in been'[route'[x].terminal]
    <2>1. CASE x \notin retired /\ x = a /\ route'[x].terminal = t
        BY <1>1, <2>1
    <2>2. CASE route'[x].terminal = route[x].terminal
               /\ route'[x].state \in {route[x].state, "stale"}
        <3>1. route[x].state = "active"
            BY <1>5, <2>2 DEF Active
        <3>2. x \in been[route[x].terminal]
            BY <1>5, <2>2, <3>1 DEF BeenWhereActive, Active
        <3> QED
            BY <1>1, <1>5, <2>2, <3>2
    <2> QED
        BY <1>4, <2>1, <2>2
<1> QED
    BY <1>1, <1>3, <1>5 DEF BeenWhereActive

LEMMA RefreshKnows ==
    ASSUME Shapes, BeenWhereActive, Refreshes
    PROVE  /\ RoutesTypeOK' /\ OneActivePerTerminal'
           /\ BeenWhereActive'
           /\ \A x \in Terminals : been[x] \subseteq been'[x]
           /\ been' \in [Terminals -> SUBSET Agents]
<1>1. /\ route' = Reconciled(PaneList)
      /\ retired' = retired /\ known' = known /\ UNCHANGED herdrVars
      /\ been' = [t \in Terminals |->
                   been[t] \union {a \in Agents : Restored(a, PaneList) /\ route[a].terminal = t}]
    BY DEF Refreshes, paneVars
<1>2. PaneList \in SUBSET PaneRecord
    BY PaneListType DEF Shapes, RoutesTypeOK
<1>3. RoutesTypeOK' /\ OneActivePerTerminal'
    BY <1>1, <1>2, ReconciledKeeps DEF Shapes, RoutesTypeOK, HerdrTypeOK, herdrVars
<1>4. /\ \A x \in Terminals : been[x] \subseteq been'[x]
      /\ been' \in [Terminals -> SUBSET Agents]
    BY <1>1 DEF Shapes
<1>5. ASSUME NEW x \in Agents, Active(x)', route'[x].terminal \in Terminals
      PROVE  x \in been'[route'[x].terminal]
    <2>1. route[x] \in Route
        BY DEF Shapes, RoutesTypeOK
    <2>2. /\ route'[x].terminal = route[x].terminal
          /\ Restored(x, PaneList) \/ route[x].state = "active"
        BY <1>1, <1>5, <2>1 DEF Reconciled, Active, Route
    <2>3. CASE Restored(x, PaneList)
        BY <1>1, <1>5, <2>2, <2>3
    <2>4. CASE route[x].state = "active"
        BY <1>4, <1>5, <2>2, <2>4 DEF BeenWhereActive, Active
    <2> QED
        BY <2>2, <2>3, <2>4
<1> QED
    BY <1>3, <1>4, <1>5 DEF BeenWhereActive

-----------------------------------------------------------------------------

LEMMA SessionsInitInv == SessionsInit => VouchInv
<1> SUFFICES ASSUME SessionsInit PROVE VouchInv
    OBVIOUS
<1> USE DEF SessionsInit
<1>1. HerdrTypeOK
    BY SessionsAssumption DEF HerdrTypeOK, Activities
<1>2. \A a \in Agents : Unrouted \in Route /\ route[a] = Unrouted
    BY DEF Unrouted, Route
<1>3. RoutesTypeOK /\ OneActivePerTerminal
    BY <1>1, <1>2 DEF RoutesTypeOK, OneActivePerTerminal, Unrouted
<1>4. Shapes
    BY <1>3 DEF Shapes, Resting, Unread, Unchosen, Unrevived, SomeTerminal, SomeKind, SomeSession
<1>5. BeenWhereActive
    BY <1>2, SessionsAssumption DEF BeenWhereActive, Unrouted
<1>6. RecorderKnows /\ ReaderKnows
    BY DEF RecorderKnows, ReaderKnows, Resting, Unread
<1>7. PointsKnown /\ ResumePointsAreVouched
    BY DEF PointsKnown, ResumePointsAreVouched, Unmapped
<1> QED
    BY <1>4, <1>5, <1>6, <1>7 DEF VouchInv

LEMMA RestingFields ==
    ASSUME NEW at, NEW todo, NEW t, NEW agent, NEW who, NEW files
    PROVE  LET taking == [Resting EXCEPT !.at = at, !.todo = todo] IN
           /\ taking.at = at /\ taking.files = {}
           /\ LET next == [taking EXCEPT !.at = "locating", !.terminal = t, !.agent = agent,
                                         !.who = who, !.files = files] IN
              next.at = "locating" /\ next.terminal = t /\ next.who = who /\ next.files = files
    BY DEF Resting

(* Steps of the recorder.                                                  *)
LEMMA RecorderStepInv ==
    ASSUME VouchInv,
           RecorderTicks \/ RecorderLists \/ RecorderListFails \/ RecorderTakes
           \/ RecorderLocates \/ RecorderCannotRead
    PROVE  VouchInv'
<1> USE DEF VouchInv
<1>1. /\ UNCHANGED <<live, kind, activity, retired, known, route, been, written, reader, choice,
                     revival, chosen, misled>>
    BY DEF RecorderTicks, RecorderLists, RecorderListFails, RecorderTakes, RecorderLocates,
           RecorderCannotRead, paneVars, herdrVars, routeVars, historyVars
<1>2. Grows
    BY <1>1 DEF Grows
<1>3. RoutesTypeOK' /\ OneActivePerTerminal' /\ BeenWhereActive'
    BY <1>1 DEF Shapes, RoutesTypeOK, HerdrTypeOK, OneActivePerTerminal, Active, BeenWhereActive
<1>4. ReaderKnows'
    BY <1>1, <1>2, ReaderStays
<1>5. recorder'.files \subseteq Sessions /\ RecorderKnows'
    <2>1. CASE recorder'.at # "locating" /\ recorder'.files = {}
        BY <2>1 DEF RecorderKnows
    <2>2. CASE RecorderTakes
        <3>1. CASE recorder' = Resting
            BY <2>1, <3>1 DEF Resting
        <3>2. CASE recorder' # Resting
            <4>1. PICK pane \in recorder.todo :
                    LET rest == [Resting EXCEPT !.at = "taking", !.todo = recorder.todo \ {pane}] IN
                    recorder' = IF OwnerOf(pane.terminal) = None THEN rest
                                ELSE [rest EXCEPT !.at = "locating", !.terminal = pane.terminal,
                                                  !.agent = pane.agent,
                                                  !.who = OwnerOf(pane.terminal),
                                                  !.files = written]
                BY <2>2, <3>2 DEF RecorderTakes
            <4>2. PICK t, agent, todo : t = pane.terminal /\ agent = pane.agent
                                        /\ todo = recorder.todo \ {pane}
                OBVIOUS
            <4> DEFINE rest == [Resting EXCEPT !.at = "taking", !.todo = todo]
                       next == [rest EXCEPT !.at = "locating", !.terminal = t, !.agent = agent,
                                            !.who = OwnerOf(t), !.files = written]
            <4>3. recorder' = IF OwnerOf(t) = None THEN rest ELSE next
                BY <4>1, <4>2
            <4>4. /\ rest.at # "locating" /\ rest.files = {}
                  /\ next.terminal = t /\ next.who = OwnerOf(t) /\ next.files = written
                BY RestingFields
            <4>5. OwnerOf(t) # None => OwnerOf(t) \in OwnersOf(t)
                BY DEF OwnerOf
            <4>6. OwnerOf(t) # None /\ t \in Terminals => OwnerOf(t) \in been[t]
                BY <4>5 DEF OwnersOf, Holders, BeenWhereActive
            <4> HIDE DEF next, rest
            <4> QED
                BY <1>1, <2>1, <4>3, <4>4, <4>6 DEF RecorderKnows, Shapes
        <3> QED
            BY <3>1, <3>2
    <2>3. CASE ~RecorderTakes
        <3>1. \/ recorder' = Resting
              \/ recorder' = [Resting EXCEPT !.at = "panes"]
              \/ \E todo : recorder' = [Resting EXCEPT !.at = "taking", !.todo = todo]
            BY <2>3 DEF RecorderTicks, RecorderLists, RecorderListFails, RecorderLocates,
                        RecorderCannotRead, Onward
        <3>2. CASE \E todo : recorder' = [Resting EXCEPT !.at = "taking", !.todo = todo]
            <4>1. PICK todo : recorder' = [Resting EXCEPT !.at = "taking", !.todo = todo]
                BY <3>2
            <4> DEFINE taking == [Resting EXCEPT !.at = "taking", !.todo = todo]
            <4>2. taking.at = "taking" /\ taking.files = {}
                BY RestingFields
            <4>3. recorder' = taking
                BY <4>1
            <4> HIDE DEF taking
            <4> QED
                BY <2>1, <4>2, <4>3
        <3>3. CASE recorder' = Resting \/ recorder' = [Resting EXCEPT !.at = "panes"]
            BY <2>1, <3>3 DEF Resting
        <3> QED
            BY <3>1, <3>2, <3>3
    <2> QED
        BY <2>2, <2>3
<1>6. /\ mapping' = [t \in Terminals |-> mapping'[t]]
      /\ PointsKnown' /\ ResumePointsAreVouched'
    <2>1. CASE mapping' = mapping
        BY <1>2, <2>1, PointsStay DEF Shapes
    <2>2. CASE RecorderLocates
        <3>1. PICK S \in Located(recorder.agent, recorder.files) :
                LET found == ChooseSession(S, recorder.who) IN
                mapping' = IF Records(found)
                           THEN Saved(recorder.terminal, recorder.agent, found.session, "exact")
                           ELSE mapping
            BY <2>2 DEF RecorderLocates
        <3> DEFINE found == ChooseSession(S, recorder.who)
        <3>2. CASE Records(found)
            <4>1. found.session \in S /\ recorder.who \in Names[found.session]
                BY <3>2, ExactNames DEF Records
            <4>2. found.session \in Sessions
                BY <4>1, LocatedAreSessions DEF Shapes
            <4>3. PICK t, s : t = recorder.terminal /\ s = found.session
                OBVIOUS
            <4>4. t \in Terminals => recorder.who \in been[t]
                BY <2>2, <4>3 DEF RecorderLocates, RecorderKnows
            <4>5. t \in Terminals => Vouched(t, s)'
                BY <1>1, <4>1, <4>3, <4>4 DEF Vouched
            <4>6. mapping' = Saved(t, recorder.agent, s, "exact")
                BY <3>1, <3>2, <4>3
            <4> HIDE DEF found
            <4> QED
                BY <1>2, <4>2, <4>3, <4>5, <4>6, PointsSaved
        <3>3. CASE ~Records(found)
            BY <2>1, <3>1, <3>3
        <3> QED
            BY <3>2, <3>3
    <2>3. CASE ~RecorderLocates
        BY <2>1, <2>3 DEF RecorderTicks, RecorderLists, RecorderListFails, RecorderTakes,
                          RecorderCannotRead
    <2> QED
        BY <2>2, <2>3
<1>7. Shapes'
    BY <1>1, <1>3, <1>5, <1>6 DEF Shapes
<1> QED
    BY <1>3, <1>4, <1>5, <1>6, <1>7

(* Steps of the operator's page.                                           *)
LEMMA ReaderStepInv ==
    ASSUME VouchInv,
           (\E p \in DOMAIN live : ReadArrives(p)) \/ ReadLocates \/ ReadsWindow \/ ReadFails
    PROVE  VouchInv'
<1> USE DEF VouchInv
<1>1. /\ UNCHANGED <<live, kind, activity, retired, known, route, been, written, recorder, choice,
                     revival, chosen>>
      /\ misled \subseteq misled'
    BY DEF ReadArrives, ReadLocates, ReadsWindow, ReadFails, paneVars, herdrVars, routeVars,
           historyVars
<1>2. Grows
    BY <1>1 DEF Grows
<1>3. RoutesTypeOK' /\ OneActivePerTerminal' /\ BeenWhereActive'
    BY <1>1 DEF Shapes, RoutesTypeOK, HerdrTypeOK, OneActivePerTerminal, Active, BeenWhereActive
<1>4. RecorderKnows'
    BY <1>1, <1>2, RecorderStays
<1>5. ASSUME /\ mapping' = [t \in Terminals |-> mapping'[t]]
             /\ PointsKnown' /\ ResumePointsAreVouched'
             /\ reader'.files \subseteq Sessions /\ ReaderKnows'
      PROVE  VouchInv'
    <2>1. Shapes'
        BY <1>1, <1>3, <1>5 DEF Shapes
    <2> QED
        BY <1>3, <1>4, <1>5, <2>1
<1>6. mapping' = mapping =>
        /\ mapping' = [t \in Terminals |-> mapping'[t]]
        /\ PointsKnown' /\ ResumePointsAreVouched'
    BY <1>2, PointsStay DEF Shapes
<1>7. reader' = Unread => reader'.files \subseteq Sessions /\ ReaderKnows'
    BY DEF Unread, ReaderKnows
<1>8. ASSUME NEW p \in DOMAIN live, ReadArrives(p)
      PROVE  VouchInv'
    <2>1. PICK who \in ByPane(p) :
            LET home == live[p] IN
            /\ reader' = [Unread EXCEPT
                   !.at = "locating", !.terminal = home, !.agent = kind[home], !.who = who,
                   !.stored = IF mapping[home].harness = kind[home] THEN mapping[home] ELSE Unmapped,
                   !.files = written]
            /\ misled' = IF who \in {None} \union been[home] THEN misled ELSE misled \union {home}
        BY <1>8 DEF ReadArrives
    <2>2. /\ reader'.at = "locating" /\ reader'.terminal = live[p] /\ reader'.who = who
          /\ reader'.files = written
        BY <2>1 DEF Unread
    <2>3. ReaderKnows'
        BY <1>1, <2>1, <2>2 DEF ReaderKnows
    <2> QED
        BY <1>5, <1>6, <1>8, <2>2, <2>3 DEF ReadArrives, Shapes
<1>9. CASE ReadLocates
    <2>1. PICK S \in Located(reader.agent, reader.files) :
            LET found == ChooseSession(S, reader.who) IN
            \/ /\ StoredIsCurrent(reader.stored, found, S)
               /\ reader' = [Unread EXCEPT !.at = "window", !.terminal = reader.terminal,
                                           !.agent = reader.agent, !.fresh = found]
               /\ UNCHANGED mapping
            \/ /\ ~StoredIsCurrent(reader.stored, found, S)
               /\ mapping' = IF found.session = None THEN mapping
                             ELSE Saved(reader.terminal, reader.agent, found.session,
                                        found.confidence)
               /\ reader' = Unread
        BY <1>9 DEF ReadLocates
    <2>2. PICK t, found : t = reader.terminal /\ found = ChooseSession(S, reader.who)
        OBVIOUS
    <2>3. ASSUME found.confidence = "exact", t \in Terminals
          PROVE  found.session \in Sessions /\ Vouched(t, found.session)'
        <3>1. found.session \in S /\ reader.who \in Names[found.session]
            BY <2>2, <2>3, ExactNames
        <3>2. found.session \in Sessions
            BY <3>1, LocatedAreSessions DEF Shapes
        <3>3. reader.who # None
            BY <3>1, <3>2, SessionsAssumption
        <3>4. reader.who \in been[t] \/ t \in misled
            BY <1>9, <2>2, <2>3, <3>3 DEF ReadLocates, ReaderKnows
        <3> QED
            BY <1>1, <3>1, <3>2, <3>4 DEF Vouched
    <2>4. CASE mapping' = mapping /\ reader' = Unread
        BY <1>5, <1>6, <1>7, <2>4
    <2>5. CASE mapping' = Saved(t, reader.agent, found.session, found.confidence)
               /\ reader' = Unread
        BY <1>2, <1>5, <1>7, <2>3, <2>5, PointsSaved
    <2>6. CASE /\ mapping' = mapping
               /\ reader' = [Unread EXCEPT !.at = "window", !.terminal = t,
                                           !.agent = reader.agent, !.fresh = found]
        <3>1. /\ reader'.at = "window" /\ reader'.terminal = t /\ reader'.fresh = found
              /\ reader'.files = {}
            BY <2>6 DEF Unread
        <3>2. ReaderKnows'
            BY <2>3, <3>1 DEF ReaderKnows, Vouched
        <3> QED
            BY <1>5, <1>6, <2>6, <3>1, <3>2
    <2> QED
        BY <2>1, <2>2, <2>4, <2>5, <2>6
<1>10. CASE ReadsWindow
    <2>1. PICK t, found : t = reader.terminal /\ found = reader.fresh
        OBVIOUS
    <2>2. reader' = Unread
        BY <1>10 DEF ReadsWindow
    <2>3. CASE mapping' = mapping
        BY <1>5, <1>6, <1>7, <2>2, <2>3
    <2>4. CASE /\ found.session # None
               /\ mapping' = Saved(t, reader.agent, found.session, found.confidence)
        <3>1. ASSUME t \in Terminals, found.confidence = "exact"
              PROVE  found.session \in Sessions /\ Vouched(t, found.session)'
            <4>1. found.session \in Sessions /\ Vouched(t, found.session)
                BY <1>10, <2>1, <2>4, <3>1 DEF ReadsWindow, ReaderKnows
            <4> QED
                BY <1>2, <3>1, <4>1, VouchedStays
        <3> QED
            BY <1>2, <1>5, <1>7, <2>2, <2>4, <3>1, PointsSaved
    <2> QED
        BY <1>10, <2>1, <2>3, <2>4 DEF ReadsWindow
<1>11. CASE ReadFails
    BY <1>5, <1>6, <1>7, <1>11 DEF ReadFails
<1> QED
    BY <1>8, <1>9, <1>10, <1>11

(* Steps of the operator's choice.                                         *)
LEMMA ChoiceStepInv ==
    ASSUME VouchInv,
           \/ \E p \in DOMAIN live, s \in written : ChoiceArrives(p, s)
           \/ ChoiceLocates \/ ChoiceRelists \/ ChoiceFails
    PROVE  VouchInv'
<1> USE DEF VouchInv
<1>1. /\ UNCHANGED <<live, kind, activity, retired, known, route, been, written, recorder, reader,
                     revival, misled>>
      /\ chosen \subseteq chosen'
    BY DEF ChoiceArrives, ChoiceLocates, ChoiceRelists, ChoiceFails, paneVars, herdrVars,
           routeVars, historyVars
<1>2. Grows
    BY <1>1 DEF Grows
<1>3. RoutesTypeOK' /\ OneActivePerTerminal' /\ BeenWhereActive'
    BY <1>1 DEF Shapes, RoutesTypeOK, HerdrTypeOK, OneActivePerTerminal, Active, BeenWhereActive
<1>4. RecorderKnows' /\ ReaderKnows'
    BY <1>1, <1>2, RecorderStays, ReaderStays
<1> DEFINE Choosing == [at : {"rest", "locating", "relisting"}, pane : Nat,
                        terminal : SomeTerminal, agent : SomeKind, session : SomeSession,
                        files : SUBSET Sessions]
<1>5. choice' \in Choosing /\ (choice'.at # "rest" => choice'.session \in Sessions)
    <2>1. ASSUME NEW p \in DOMAIN live, NEW s \in written, ChoiceArrives(p, s)
          PROVE  choice' \in Choosing /\ choice'.session \in Sessions
        <3>1. p \in Nat /\ live[p] \in Terminals /\ kind[live[p]] \in SomeKind
            BY DEF Shapes, RoutesTypeOK, HerdrTypeOK, SomeKind
        <3> QED
            BY <2>1, <3>1 DEF ChoiceArrives, Shapes, SomeTerminal, SomeSession
    <2>2. CASE ChoiceLocates
        <3>1. PICK S \in Located(choice.agent, choice.files) :
                choice' = [choice EXCEPT !.at = "relisting", !.files = S]
            BY <2>2 DEF ChoiceLocates
        <3>2. S \subseteq Sessions
            BY LocatedAreSessions DEF Shapes
        <3>3. choice.session \in Sessions
            BY <2>2 DEF ChoiceLocates, Shapes
        <3> QED
            BY <3>1, <3>2, <3>3 DEF Shapes
    <2>3. CASE ChoiceRelists \/ ChoiceFails
        BY <2>3 DEF ChoiceRelists, ChoiceFails, Unchosen, SomeTerminal, SomeKind, SomeSession
    <2> QED
        BY <2>1, <2>2, <2>3
<1>6. /\ mapping' = [t \in Terminals |-> mapping'[t]]
      /\ PointsKnown' /\ ResumePointsAreVouched'
    <2>1. CASE mapping' = mapping
        BY <1>2, <2>1, PointsStay DEF Shapes
    <2>2. CASE ChoiceRelists
        <3>1. PICK t, s : t = choice.terminal /\ s = choice.session
            OBVIOUS
        <3>2. CASE mapping' = Saved(t, choice.agent, s, "exact")
                   /\ chosen' = chosen \union {<<t, s>>}
            <4>1. s \in Sessions /\ Vouched(t, s)'
                BY <2>2, <3>1, <3>2 DEF ChoiceRelists, Shapes, Vouched
            <4> QED
                BY <1>2, <3>2, <4>1, PointsSaved
        <3> QED
            BY <2>1, <2>2, <3>1, <3>2 DEF ChoiceRelists
    <2>3. CASE ~ChoiceRelists
        BY <2>1, <2>3 DEF ChoiceArrives, ChoiceLocates, ChoiceFails
    <2> QED
        BY <2>2, <2>3
<1>7. Shapes'
    BY <1>1, <1>3, <1>5, <1>6 DEF Shapes
<1> QED
    BY <1>3, <1>4, <1>6, <1>7

(* Steps of a resume.                                                      *)
LEMMA ResumeStepInv ==
    ASSUME VouchInv,
           (\E a \in Agents : ResumeArrives(a)) \/ (\E t \in Terminals : ResumeBinds(t))
           \/ ResumeFails
    PROVE  VouchInv'
<1> USE DEF VouchInv
<1>1. ASSUME NEW a \in Agents, ResumeArrives(a)
      PROVE  VouchInv'
    <2>1. /\ UNCHANGED <<live, kind, activity, retired, known, route, been, written, recorder,
                         reader, choice, chosen, misled, mapping>>
          /\ revival' = [agent |-> a, session |-> RecordedSession(a)]
          /\ RecordedSession(a) # None
        BY <1>1 DEF ResumeArrives, paneVars, herdrVars, routeVars, historyVars
    <2>2. Grows
        BY <2>1 DEF Grows
    <2>3. RecordedSession(a) \in Sessions
        <3>1. route[a].terminal \in Terminals
            BY <2>1 DEF RecordedSession, Shapes, RoutesTypeOK, Route
        <3> QED
            BY <2>1, <3>1 DEF RecordedSession, PointsKnown
    <2>4. Shapes' /\ BeenWhereActive'
        BY <2>1, <2>3 DEF Shapes, RoutesTypeOK, HerdrTypeOK, OneActivePerTerminal, Active,
                          BeenWhereActive
    <2> QED
        BY <2>1, <2>2, <2>4, RecorderStays, ReaderStays, PointsStay
<1>2. ASSUME NEW t \in Terminals, ResumeBinds(t)
      PROVE  VouchInv'
    <2>1. PICK s, k, a : s = revival.session /\ k = HarnessOf[s] /\ a = revival.agent
        OBVIOUS
    <2>2. s \in Sessions /\ a \in Agents /\ k \in Kinds
        BY <1>2, <2>1, SessionsAssumption DEF ResumeBinds, Shapes
    <2>3. /\ PaneOpens(t, k) /\ Binds(a, t, Len(live) + 1, k)
          /\ mapping' = Saved(t, k, s, "exact")
          /\ chosen' = chosen \union {<<t, s>>}
          /\ revival' = Unrevived
          /\ UNCHANGED <<written, recorder, reader, choice, misled>>
        BY <1>2, <2>1 DEF ResumeBinds
    <2>4. HerdrTypeOK'
        BY <2>2, <2>3, HerdrStep DEF Shapes, RoutesTypeOK
    <2>5. Len(live) + 1 \in Nat
        BY DEF Shapes, RoutesTypeOK, HerdrTypeOK
    <2>6. /\ RoutesTypeOK' /\ OneActivePerTerminal' /\ BeenWhereActive'
          /\ \A x \in Terminals : been[x] \subseteq been'[x]
          /\ been' \in [Terminals -> SUBSET Agents]
        BY <2>2, <2>3, <2>4, <2>5, BindingKnows
    <2>7. Grows
        BY <2>3, <2>6 DEF Grows
    <2>8. Vouched(t, s)'
        BY <2>3 DEF Vouched
    <2>9. /\ mapping' = [x \in Terminals |-> mapping'[x]]
          /\ PointsKnown' /\ ResumePointsAreVouched'
        BY <2>2, <2>3, <2>7, <2>8, PointsSaved
    <2>10. Shapes'
        BY <2>3, <2>6, <2>9 DEF Shapes
    <2> QED
        BY <2>3, <2>6, <2>7, <2>9, <2>10, RecorderStays, ReaderStays
<1>3. CASE ResumeFails
    <2>1. /\ UNCHANGED <<live, kind, activity, retired, known, route, been, written, recorder,
                         reader, choice, chosen, misled, mapping>>
          /\ revival' = Unrevived
        BY <1>3 DEF ResumeFails, paneVars, herdrVars, routeVars, historyVars
    <2>2. Grows
        BY <2>1 DEF Grows
    <2>3. Shapes' /\ BeenWhereActive'
        BY <2>1 DEF Shapes, RoutesTypeOK, HerdrTypeOK, OneActivePerTerminal, Active,
                    BeenWhereActive
    <2> QED
        BY <2>1, <2>2, <2>3, RecorderStays, ReaderStays, PointsStay
<1> QED
    BY <1>1, <1>2, <1>3

(* Agents, panes, routes and files.                                        *)
LEMMA WorldStepInv ==
    ASSUME VouchInv,
           \/ \E a \in Agents, t \in Terminals : AgentCalls(a, t)
           \/ Refreshes \/ PanesChange \/ \E s \in Sessions : SessionBegins(s)
    PROVE  VouchInv'
<1> USE DEF VouchInv
<1>1. UNCHANGED <<mapping, recorder, reader, choice, revival, chosen, misled>>
    BY DEF AgentCalls, Refreshes, PanesChange, SessionBegins, historyVars
<1> DEFINE Kept ==
        /\ RoutesTypeOK' /\ OneActivePerTerminal' /\ BeenWhereActive'
        /\ \A x \in Terminals : been[x] \subseteq been'[x]
        /\ been' \in [Terminals -> SUBSET Agents]
        /\ written' \subseteq Sessions
<1>2. Kept
    <2>1. ASSUME NEW a \in Agents, NEW t \in Terminals, AgentCalls(a, t)
          PROVE  Kept
        <3>1. PaneOf(t) \in Nat /\ kind[t] \in Kinds \union {None}
            BY <2>1, PaneOfPlace DEF AgentCalls, Shapes, RoutesTypeOK, HerdrTypeOK
        <3>2. HerdrTypeOK' /\ Binds(a, t, PaneOf(t), kind[t]) /\ written' = written
            BY <2>1 DEF AgentCalls, Shapes, RoutesTypeOK, HerdrTypeOK, paneVars, herdrVars
        <3> QED
            BY <3>1, <3>2, BindingKnows DEF Shapes
    <2>2. CASE Refreshes
        BY <2>2, RefreshKnows DEF Refreshes, Shapes
    <2>3. CASE PanesChange
        <3>1. HerdrTypeOK' /\ UNCHANGED <<retired, known, route, been, written>>
            BY <2>3, HerdrStep DEF PanesChange, SomeKind, Shapes, RoutesTypeOK, routeVars
        <3> QED
            BY <3>1 DEF Shapes, RoutesTypeOK, OneActivePerTerminal, Active, BeenWhereActive
    <2>4. ASSUME NEW s \in Sessions, SessionBegins(s)
          PROVE  Kept
        BY <2>4 DEF SessionBegins, Shapes, RoutesTypeOK, HerdrTypeOK, OneActivePerTerminal, Active,
                    BeenWhereActive, paneVars, herdrVars, routeVars
    <2> QED
        BY <2>1, <2>2, <2>3, <2>4
<1>3. Grows
    BY <1>1, <1>2 DEF Grows
<1>4. Shapes'
    BY <1>1, <1>2 DEF Shapes
<1> QED
    BY <1>1, <1>2, <1>3, <1>4, RecorderStays, ReaderStays, PointsStay

LEMMA SessionsNextInv ==
    ASSUME VouchInv, [SessionsNext]_sessionsVars
    PROVE  VouchInv'
<1>1. CASE UNCHANGED sessionsVars
    BY <1>1 DEF sessionsVars, paneVars, herdrVars, routeVars, historyVars, VouchInv, Shapes,
                RoutesTypeOK, HerdrTypeOK, OneActivePerTerminal, Active, BeenWhereActive,
                RecorderKnows, ReaderKnows, PointsKnown, ResumePointsAreVouched, Vouched
<1>2. CASE SessionsNext
    BY <1>2, RecorderStepInv, ReaderStepInv, ChoiceStepInv, ResumeStepInv, WorldStepInv
    DEF SessionsNext, RecorderStep
<1> QED
    BY <1>1, <1>2

-----------------------------------------------------------------------------

(* For any terminals, harnesses, files and limit of a pass: an exact       *)
(* mapping of session_mappings, which is what a resume continues, is of a  *)
(* session that names an identity of the terminal, or that an operator     *)
(* chose or resumed there.                                                 *)
THEOREM ResumePointsAlwaysVouched == SessionsSpec => []ResumePointsAreVouched
<1>1. VouchInv /\ [SessionsNext]_sessionsVars => VouchInv'
    BY SessionsNextInv
<1>2. VouchInv => ResumePointsAreVouched
    BY DEF VouchInv
<1> QED
    BY SessionsInitInv, <1>1, <1>2, PTL DEF SessionsSpec

-----------------------------------------------------------------------------
(* Types, and that a session is stored under the harness that writes it.   *)
(* What each writer holds over its awaits must say so before it is stored. *)

WorldFits ==
    /\ RoutesTypeOK
    /\ opened \subseteq Terminals /\ \A i \in DOMAIN live : live[i] \in opened
    /\ written \subseteq Sessions
    /\ been \in [Terminals -> SUBSET Agents]
    /\ chosen \subseteq Terminals \X Sessions
    /\ misled \subseteq Terminals
    /\ inputs \in 0..MaxInputs

MappingFits ==
    /\ mapping \in [Terminals -> Mapping \union {Unmapped}]
    /\ \A t \in Terminals : mapping[t] # Unmapped =>
          mapping[t].session \in written /\ mapping[t].harness = HarnessOf[mapping[t].session]

RecorderFits ==
    /\ recorder \in Recorder
    /\ IsFiniteSet(recorder.todo) /\ Cardinality(recorder.todo) <= MaxPerPass
    /\ recorder.files \subseteq written
    /\ recorder.at = "locating" => recorder.terminal \in Terminals /\ recorder.agent \in Kinds

(* An answer of the ladder about the files of a harness.                   *)
Offered(found, agent) ==
    /\ found \in Found
    /\ found.session # None =>
          /\ found.session \in written /\ HarnessOf[found.session] = agent
          /\ found.confidence # "ambiguous"

ReaderFits ==
    /\ reader \in Reader
    /\ reader.files \subseteq written
    /\ reader.at # "rest" => reader.terminal \in Terminals /\ reader.agent \in Kinds
    /\ reader.at = "window" => Offered(reader.fresh, reader.agent)

ChoiceFits ==
    /\ choice \in Choice
    /\ choice.files \subseteq written
    /\ choice.at # "rest" => choice.terminal \in Terminals /\ choice.agent \in Kinds
    /\ choice.at = "relisting" => \A s \in choice.files : HarnessOf[s] = choice.agent

RevivalFits ==
    /\ revival \in Revival
    /\ revival # Unrevived => revival.agent \in Agents /\ revival.session \in written

FilesInv ==
    WorldFits /\ MappingFits /\ RecorderFits /\ ReaderFits /\ ChoiceFits /\ RevivalFits

(* Files are only added, so what is not written to still fits.             *)
LEMMA FitsStay ==
    ASSUME FilesInv, written \subseteq written'
    PROVE  /\ mapping' = mapping => MappingFits'
           /\ recorder' = recorder => RecorderFits'
           /\ reader' = reader => ReaderFits'
           /\ choice' = choice => ChoiceFits'
           /\ revival' = revival => RevivalFits'
<1>1. mapping' = mapping => MappingFits'
    BY DEF FilesInv, MappingFits
<1>2. recorder' = recorder => RecorderFits'
    BY DEF FilesInv, RecorderFits
<1>3. reader' = reader => ReaderFits'
    BY DEF FilesInv, ReaderFits, Offered
<1>4. choice' = choice => ChoiceFits'
    BY DEF FilesInv, ChoiceFits
<1>5. revival' = revival => RevivalFits'
    BY DEF FilesInv, RevivalFits
<1> QED
    BY <1>1, <1>2, <1>3, <1>4, <1>5

LEMMA SavedFits ==
    ASSUME MappingFits, written \subseteq Sessions, written \subseteq written',
           NEW t \in Terminals, NEW agent \in Kinds, NEW s \in written,
           HarnessOf[s] = agent, NEW confidence \in {"exact", "inferred"},
           mapping' = Saved(t, agent, s, confidence)
    PROVE  MappingFits'
<1> DEFINE row == [harness |-> agent, session |-> s, confidence |-> confidence]
<1>1. row \in Mapping /\ row.session = s /\ row.harness = agent
    BY DEF Mapping
<1>2. mapping' = [mapping EXCEPT ![t] = row]
    BY DEF Saved
<1> HIDE DEF row
<1>3. /\ mapping' \in [Terminals -> Mapping \union {Unmapped}]
      /\ \A x \in Terminals : x # t => mapping'[x] = mapping[x]
      /\ mapping'[t] = row
    BY <1>1, <1>2 DEF MappingFits
<1>4. ASSUME NEW x \in Terminals, mapping'[x] # Unmapped
      PROVE  mapping'[x].session \in written' /\ mapping'[x].harness = HarnessOf[mapping'[x].session]
    BY <1>1, <1>3, <1>4 DEF MappingFits
<1> QED
    BY <1>3, <1>4 DEF MappingFits

(* The ladder answers with a session it was given.                         *)
LEMMA LadderOffers ==
    ASSUME FilesInv, NEW agent \in Kinds, NEW files \in SUBSET written,
           NEW S \in Located(agent, files), NEW who \in SomeAgent
    PROVE  /\ S \subseteq written /\ \A s \in S : HarnessOf[s] = agent
           /\ Offered(ChooseSession(S, who), agent)
           /\ ChooseSession(S, who).confidence = "exact" => ChooseSession(S, who).session # None
           /\ Selectable(S, who) \subseteq S
<1>1. S \subseteq written /\ \A s \in S : HarnessOf[s] = agent
    BY DEF Located, SessionsOf
<1>2. written \subseteq Sessions /\ None \notin written
    BY SessionsAssumption DEF FilesInv, WorldFits
<1>3. Named(S, who) \subseteq S /\ Fenced(S, who) \subseteq S
    BY DEF Named, Fenced
<1>4. ASSUME NEW T \in SUBSET S, IsOne(T)
      PROVE  Only(T) \in S
    <2>1. PICK s \in T : T = {s}
        BY <1>4 DEF IsOne
    <2>2. Only(T) = s
        BY <2>1 DEF Only
    <2> QED
        BY <2>1, <2>2
<1> DEFINE found == ChooseSession(S, who)
<1>5. \/ found.confidence = "exact" /\ found.session \in S /\ found \in Found
      \/ found.confidence = "inferred" /\ found.session \in S /\ found \in Found
      \/ found.confidence = "ambiguous" /\ found.session = None /\ found \in Found
    <2>1. CASE IsOne(Named(S, who))
        <3>1. found = [confidence |-> "exact", session |-> Only(Named(S, who))]
            BY <2>1 DEF ChooseSession
        <3>2. Only(Named(S, who)) \in S /\ Only(Named(S, who)) \in SomeSession
            BY <1>1, <1>2, <1>3, <1>4, <2>1 DEF SomeSession
        <3> QED
            BY <3>1, <3>2 DEF Found
    <2>2. CASE ~IsOne(Named(S, who)) /\ IsOne(Fenced(S, who))
        <3>1. found = [confidence |-> "inferred", session |-> Only(Fenced(S, who))]
            BY <2>2 DEF ChooseSession
        <3>2. Only(Fenced(S, who)) \in S /\ Only(Fenced(S, who)) \in SomeSession
            BY <1>1, <1>2, <1>3, <1>4, <2>2 DEF SomeSession
        <3> QED
            BY <3>1, <3>2 DEF Found
    <2>3. CASE ~IsOne(Named(S, who)) /\ ~IsOne(Fenced(S, who))
        <3>1. found = [confidence |-> "ambiguous", session |-> None]
            BY <2>3 DEF ChooseSession
        <3> QED
            BY <3>1 DEF Found, SomeSession
    <2> QED
        BY <2>1, <2>2, <2>3
<1>6. Selectable(S, who) \subseteq S
    <2>1. \/ Selectable(S, who) = {}
          \/ Selectable(S, who) = {found.session} /\ found.confidence = "inferred"
          \/ Selectable(S, who) = S
          \/ Selectable(S, who) = Fenced(S, who)
        BY DEF Selectable
    <2> HIDE DEF found
    <2> QED
        BY <1>3, <1>5, <2>1
<1> HIDE DEF found
<1>7. Offered(found, agent)
    BY <1>1, <1>2, <1>5 DEF Offered
<1>8. found.confidence = "exact" => found.session # None
    BY <1>1, <1>2, <1>5
<1> QED
    BY <1>1, <1>6, <1>7, <1>8 DEF found

LEMMA OwnersAreAgents ==
    ASSUME NEW t
    PROVE  OwnerOf(t) \in SomeAgent
    BY DEF OwnerOf, OwnersOf, Holders, SomeAgent

LEMMA ByPaneAreAgents ==
    ASSUME NEW p
    PROVE  ByPane(p) \subseteq SomeAgent
    BY DEF ByPane, OwnersByPane, SomeAgent

(* The places that a pass takes are told apart by how many come before, so *)
(* there are no more than the limit.                                       *)
LEMMA PassIsBounded ==
    ASSUME NEW n \in Nat, NEW m \in Nat, NEW places \in SUBSET (1..m), NEW todo,
           \A x \in todo : x.place \in Firsts(n, places),
           \A x, y \in todo : x.place = y.place => x = y
    PROVE  IsFiniteSet(todo) /\ Cardinality(todo) <= n
<1> DEFINE before(i) == {j \in places : j < i}
           rank == [x \in todo |-> Cardinality(before(x.place))]
<1>1. /\ IsFiniteSet(1..m) /\ IsFiniteSet(0..(n - 1)) /\ Cardinality(0..(n - 1)) = n
      /\ IsFiniteSet(places)
    <2>1. 0 \in Int /\ n - 1 \in Int /\ 1 \in Int /\ m \in Int
        OBVIOUS
    <2>2. IsFiniteSet(1..m) /\ IsFiniteSet(0..(n - 1))
        BY <2>1, FS_Interval
    <2>3. Cardinality(0..(n - 1)) = IF 0 > n - 1 THEN 0 ELSE (n - 1) - 0 + 1
        BY <2>1, FS_Interval
    <2>4. Cardinality(0..(n - 1)) = n
        BY <2>3
    <2>5. IsFiniteSet(places)
        BY <2>2, FS_Subset
    <2> QED
        BY <2>2, <2>4, <2>5
<1>2. ASSUME NEW i \in places
      PROVE  /\ IsFiniteSet(before(i)) /\ Cardinality(before(i)) \in Nat
             /\ i \in Nat
    <2>1. before(i) \in SUBSET places
        OBVIOUS
    <2>2. IsFiniteSet(before(i))
        BY <1>1, <2>1, FS_Subset
    <2> QED
        BY <2>2, FS_CardinalityType
<1>3. ASSUME NEW i \in places, NEW j \in places, i < j
      PROVE  Cardinality(before(i)) # Cardinality(before(j))
    <2>1. before(i) \in SUBSET before(j) /\ i \in before(j) /\ i \notin before(i)
        <3>1. i \in Nat /\ j \in Nat
            BY <1>2
        <3>2. \A k \in places : k \in Nat
            OBVIOUS
        <3>3. \A k \in places : k < i => k < j
            BY <1>3, <3>1, <3>2
        <3>4. ~(i < i)
            BY <3>1
        <3> QED
            BY <1>3, <3>3, <3>4
    <2> QED
        BY <1>2, <2>1, FS_Subset
<1>4. ASSUME NEW x \in todo
      PROVE  /\ x.place \in places /\ rank[x] = Cardinality(before(x.place))
             /\ rank[x] \in 0..(n - 1)
    <2>1. x.place \in places /\ Cardinality(before(x.place)) < n
        BY DEF Firsts
    <2>2. Cardinality(before(x.place)) \in Nat
        BY <1>2, <2>1
    <2> HIDE DEF before
    <2>3. rank[x] = Cardinality(before(x.place))
        OBVIOUS
    <2> HIDE DEF rank
    <2> QED
        BY <2>1, <2>2, <2>3
<1> HIDE DEF before
<1>5. ASSUME NEW x \in todo, NEW y \in todo, rank[x] = rank[y]
      PROVE  x = y
    <2>1. /\ x.place \in places /\ y.place \in places
          /\ Cardinality(before(x.place)) = Cardinality(before(y.place))
        BY <1>4, <1>5
    <2>2. x.place \in Nat /\ y.place \in Nat
        BY <1>2, <2>1
    <2>3. ~(x.place < y.place) /\ ~(y.place < x.place)
        BY <1>3, <2>1
    <2> QED
        BY <2>2, <2>3
<1>6. rank \in [todo -> 0..(n - 1)]
    BY <1>4
<1> HIDE DEF rank
<1>7. rank \in Injection(todo, 0..(n - 1))
    BY <1>5, <1>6 DEF Injection, IsInjective
<1> QED
    BY <1>1, <1>7, FS_Injection

LEMMA RestingFits ==
    ASSUME NEW at \in {"panes", "taking"}, NEW todo \in SUBSET Pane
    PROVE  /\ Resting \in Recorder /\ Resting.at = "rest" /\ Resting.todo = {} /\ Resting.files = {}
           /\ LET next == [Resting EXCEPT !.at = at, !.todo = todo] IN
              next \in Recorder /\ next.at = at /\ next.todo = todo /\ next.files = {}
           /\ LET next == [Resting EXCEPT !.at = at] IN
              next \in Recorder /\ next.at = at /\ next.todo = {} /\ next.files = {}
<1>1. Resting \in Recorder
    BY DEF Resting, Recorder, SomeTerminal, SomeKind, SomeAgent
<1>2. Resting.at = "rest" /\ Resting.todo = {} /\ Resting.files = {}
    BY DEF Resting
<1>3. at \in {"rest", "panes", "taking", "locating"}
    OBVIOUS
<1> QED
    BY <1>1, <1>2, <1>3 DEF Recorder

LEMMA RecorderRests ==
    ASSUME recorder' \in Recorder, recorder'.at # "locating", recorder'.files = {},
           IsFiniteSet(recorder'.todo), Cardinality(recorder'.todo) <= MaxPerPass
    PROVE  RecorderFits'
    BY DEF RecorderFits

LEMMA NothingToDo == IsFiniteSet({}) /\ Cardinality({}) <= MaxPerPass
<1>1. Cardinality({}) = 0 /\ IsFiniteSet({})
    BY FS_EmptySet
<1>2. MaxPerPass \in Nat
    BY SessionsAssumption
<1> QED
    BY <1>1, <1>2

LEMMA InputsBounded ==
    ASSUME inputs \in 0..MaxInputs, inputs' = inputs \/ Input
    PROVE  inputs' \in 0..MaxInputs
    BY SessionsAssumption DEF Input

LEMMA RecorderStepFits ==
    ASSUME FilesInv, VouchInv',
           RecorderTicks \/ RecorderLists \/ RecorderListFails \/ RecorderTakes
           \/ RecorderLocates \/ RecorderCannotRead
    PROVE  FilesInv'
<1>1. /\ UNCHANGED <<live, kind, activity, opened, retired, known, route, been, written, reader,
                     choice, revival, chosen, misled>>
      /\ inputs' = inputs \/ Input
    BY DEF RecorderTicks, RecorderLists, RecorderListFails, RecorderTakes, RecorderLocates,
           RecorderCannotRead, paneVars, herdrVars, routeVars, historyVars
<1>2. WorldFits'
    BY <1>1, InputsBounded DEF FilesInv, WorldFits, VouchInv, Shapes
<1>3. ReaderFits' /\ ChoiceFits' /\ RevivalFits'
    BY <1>1, FitsStay
<1>4. RecorderFits'
    <2>1. CASE recorder' = Resting \/ recorder' = [Resting EXCEPT !.at = "panes"]
        BY <2>1, RestingFits, NothingToDo, RecorderRests
    <2>2. CASE recorder' = Onward
        <3>1. PICK todo : todo = recorder.todo
            OBVIOUS
        <3>2. /\ todo \in SUBSET Pane /\ IsFiniteSet(todo) /\ Cardinality(todo) <= MaxPerPass
            BY <3>1 DEF FilesInv, RecorderFits, Recorder
        <3>3. recorder' = [Resting EXCEPT !.at = "taking", !.todo = todo]
            BY <2>2, <3>1 DEF Onward
        <3> QED
            BY <3>2, <3>3, RestingFits, RecorderRests
    <2>3. CASE RecorderLists
        <3> DEFINE wanted == {i \in DOMAIN live : Wanted(live[i])}
                   paneAt(i) == [place |-> i, terminal |-> live[i], agent |-> kind[live[i]]]
                   places == Firsts(MaxPerPass, wanted)
                   todo == {paneAt(i) : i \in places}
        <3>1. recorder' = [Resting EXCEPT !.at = "taking", !.todo = todo]
            BY <2>3 DEF RecorderLists
        <3>2. /\ wanted \in SUBSET (1..Len(live)) /\ Len(live) \in Nat
              /\ \A i \in wanted : live[i] \in Terminals /\ kind[live[i]] \in Kinds /\ i \in Nat
            BY DEF FilesInv, WorldFits, RoutesTypeOK, HerdrTypeOK, Wanted
        <3>3. places \subseteq wanted
            BY DEF Firsts
        <3> HIDE DEF wanted
        <3>4. \A i \in places : paneAt(i) \in Pane /\ paneAt(i).place = i
            BY <3>2, <3>3 DEF Pane
        <3> HIDE DEF places, paneAt
        <3>5. /\ todo \in SUBSET Pane
              /\ \A x \in todo : x.place \in places
              /\ \A x, y \in todo : x.place = y.place => x = y
            BY <3>4
        <3> HIDE DEF todo
        <3>6. MaxPerPass \in Nat
            BY SessionsAssumption
        <3>7. IsFiniteSet(todo) /\ Cardinality(todo) <= MaxPerPass
            BY <3>2, <3>5, <3>6, PassIsBounded DEF places
        <3> QED
            BY <3>1, <3>5, <3>7, RestingFits, RecorderRests
    <2>4. CASE RecorderTakes /\ recorder' # Resting
        <3>1. PICK pane \in recorder.todo :
                LET rest == [Resting EXCEPT !.at = "taking", !.todo = recorder.todo \ {pane}] IN
                recorder' = IF OwnerOf(pane.terminal) = None THEN rest
                            ELSE [rest EXCEPT !.at = "locating", !.terminal = pane.terminal,
                                              !.agent = pane.agent,
                                              !.who = OwnerOf(pane.terminal),
                                              !.files = written]
            BY <2>4 DEF RecorderTakes
        <3>2. PICK t, agent, todo, who : /\ t = pane.terminal /\ agent = pane.agent
                                         /\ todo = recorder.todo \ {pane} /\ who = OwnerOf(t)
            OBVIOUS
        <3>3. /\ recorder.todo \in SUBSET Pane /\ IsFiniteSet(recorder.todo)
              /\ Cardinality(recorder.todo) <= MaxPerPass
            BY DEF FilesInv, RecorderFits, Recorder
        <3>4. t \in Terminals /\ agent \in Kinds /\ who \in SomeAgent
            BY <3>2, <3>3, OwnersAreAgents DEF Pane
        <3>5. IsFiniteSet(todo) /\ Cardinality(todo) <= MaxPerPass /\ todo \in SUBSET Pane
            <4>1. Cardinality(todo) <= Cardinality(recorder.todo) /\ IsFiniteSet(todo)
                BY <3>2, <3>3, FS_Subset
            <4>2. Cardinality(todo) \in Nat /\ Cardinality(recorder.todo) \in Nat /\ MaxPerPass \in Nat
                BY <3>3, <4>1, FS_CardinalityType, SessionsAssumption
            <4> QED
                BY <3>2, <3>3, <4>1, <4>2
        <3> DEFINE rest == [Resting EXCEPT !.at = "taking", !.todo = todo]
                   next == [rest EXCEPT !.at = "locating", !.terminal = t, !.agent = agent,
                                        !.who = who, !.files = written]
        <3>6. recorder' = IF OwnerOf(t) = None THEN rest ELSE next
            BY <3>1, <3>2
        <3>10. written \subseteq Sessions
            BY DEF FilesInv, WorldFits
        <3>11. rest \in Recorder /\ rest.at = "taking" /\ rest.todo = todo /\ rest.files = {}
            BY <3>5, RestingFits
        <3> HIDE DEF rest
        <3>7. /\ next \in Recorder /\ next.todo = todo /\ next.terminal = t /\ next.agent = agent
              /\ next.files = written
            BY <3>4, <3>10, <3>11 DEF Recorder, SomeTerminal, SomeKind
        <3> HIDE DEF next
        <3>8. CASE recorder' = rest
            BY <3>5, <3>8, <3>11, RecorderRests
        <3>9. CASE recorder' = next
            BY <1>1, <3>4, <3>5, <3>7, <3>9 DEF RecorderFits
        <3> QED
            BY <3>6, <3>8, <3>9
    <2> QED
        BY <2>1, <2>2, <2>3, <2>4 DEF RecorderTicks, RecorderListFails, RecorderLocates,
                                      RecorderCannotRead
<1>5. MappingFits'
    <2>1. CASE mapping' = mapping
        BY <1>1, <2>1, FitsStay
    <2>2. CASE RecorderLocates /\ mapping' # mapping
        <3>1. PICK S \in Located(recorder.agent, recorder.files) :
                LET found == ChooseSession(S, recorder.who) IN
                mapping' = IF Records(found)
                           THEN Saved(recorder.terminal, recorder.agent, found.session, "exact")
                           ELSE mapping
            BY <2>2 DEF RecorderLocates
        <3>2. PICK t, agent, who, files, found :
                /\ t = recorder.terminal /\ agent = recorder.agent /\ who = recorder.who
                /\ files = recorder.files /\ found = ChooseSession(S, who)
            OBVIOUS
        <3>3. /\ t \in Terminals /\ agent \in Kinds /\ who \in SomeAgent /\ files \in SUBSET written
            BY <2>2, <3>2 DEF RecorderLocates, FilesInv, RecorderFits, Recorder
        <3>4. found.confidence = "exact" /\ mapping' = Saved(t, agent, found.session, "exact")
            BY <2>2, <3>1, <3>2 DEF Records
        <3>5. Offered(found, agent) /\ found.session # None
            BY <3>1, <3>2, <3>3, <3>4, LadderOffers
        <3>6. PICK s : s = found.session
            OBVIOUS
        <3>7. s \in written /\ HarnessOf[s] = agent
            BY <3>5, <3>6 DEF Offered
        <3> QED
            BY <1>1, <3>3, <3>4, <3>6, <3>7, SavedFits DEF FilesInv, WorldFits
    <2> QED
        BY <2>1, <2>2 DEF RecorderTicks, RecorderLists, RecorderListFails, RecorderTakes,
                          RecorderCannotRead
<1> QED
    BY <1>2, <1>3, <1>4, <1>5 DEF FilesInv

LEMMA UnreadFits ==
    /\ Unread \in Reader /\ Unread.at = "rest" /\ Unread.files = {}
    /\ reader' = Unread => ReaderFits'
<1>1. Unread \in Reader
    BY DEF Unread, Reader, SomeTerminal, SomeKind, SomeAgent, Unmapped
<1>2. Unread.at = "rest" /\ Unread.files = {}
    BY DEF Unread
<1> QED
    BY <1>1, <1>2 DEF ReaderFits

LEMMA ReaderStepFits ==
    ASSUME FilesInv, VouchInv',
           \/ \E p \in DOMAIN live : ReadArrives(p)
           \/ ReadLocates \/ ReadsWindow \/ ReadFails
    PROVE  FilesInv'
<1>1. /\ UNCHANGED <<live, kind, activity, opened, retired, known, route, been, written, recorder,
                     choice, revival, chosen>>
      /\ inputs' = inputs \/ Input
    BY DEF ReadArrives, ReadLocates, ReadsWindow, ReadFails, paneVars, herdrVars, routeVars,
           historyVars
<1>2. misled' \subseteq Terminals
    <2>1. ASSUME NEW p \in DOMAIN live, ReadArrives(p)
          PROVE  misled' \subseteq Terminals
        <3>1. live[p] \in Terminals
            BY DEF FilesInv, WorldFits, RoutesTypeOK, HerdrTypeOK
        <3> QED
            BY <2>1, <3>1 DEF ReadArrives, FilesInv, WorldFits
    <2>2. CASE misled' = misled
        BY <2>2 DEF FilesInv, WorldFits
    <2> QED
        BY <2>1, <2>2 DEF ReadLocates, ReadsWindow, ReadFails, historyVars
<1>3. WorldFits'
    BY <1>1, <1>2, InputsBounded DEF FilesInv, WorldFits, VouchInv, Shapes
<1>4. RecorderFits' /\ ChoiceFits' /\ RevivalFits'
    BY <1>1, FitsStay
<1>5. ReaderFits'
    <2>1. ASSUME NEW p \in DOMAIN live, ReadArrives(p)
          PROVE  ReaderFits'
        <3>1. PICK who \in ByPane(p) : reader' = [Unread EXCEPT
                  !.at = "locating", !.terminal = live[p], !.agent = kind[live[p]], !.who = who,
                  !.stored = IF mapping[live[p]].harness = kind[live[p]] THEN mapping[live[p]]
                             ELSE Unmapped,
                  !.files = written]
            BY <2>1 DEF ReadArrives
        <3>2. PICK t, agent, stored :
                /\ t = live[p] /\ agent = kind[t]
                /\ stored = IF mapping[t].harness = kind[t] THEN mapping[t] ELSE Unmapped
            OBVIOUS
        <3>3. t \in Terminals /\ agent \in Kinds /\ who \in SomeAgent
            BY <2>1, <3>2, ByPaneAreAgents
               DEF ReadArrives, FilesInv, WorldFits, RoutesTypeOK, HerdrTypeOK
        <3>4. stored \in Mapping \union {Unmapped} /\ written \subseteq Sessions
            BY <3>2, <3>3 DEF FilesInv, WorldFits, MappingFits
        <3>5. reader' = [Unread EXCEPT !.at = "locating", !.terminal = t, !.agent = agent,
                                       !.who = who, !.stored = stored, !.files = written]
            BY <3>1, <3>2
        <3>6. /\ reader' \in Reader /\ reader'.at = "locating" /\ reader'.terminal = t
              /\ reader'.agent = agent /\ reader'.files = written
            BY <3>3, <3>4, <3>5, UnreadFits DEF Reader, SomeTerminal, SomeKind
        <3> QED
            BY <1>1, <3>3, <3>6 DEF ReaderFits
    <2>2. CASE ReadLocates /\ reader' # Unread
        <3>1. PICK S \in Located(reader.agent, reader.files) :
                reader' = [Unread EXCEPT !.at = "window", !.terminal = reader.terminal,
                                         !.agent = reader.agent,
                                         !.fresh = ChooseSession(S, reader.who)]
            BY <2>2 DEF ReadLocates
        <3>2. PICK t, agent, who, files, found :
                /\ t = reader.terminal /\ agent = reader.agent /\ who = reader.who
                /\ files = reader.files /\ found = ChooseSession(S, who)
            OBVIOUS
        <3>3. /\ t \in Terminals /\ agent \in Kinds /\ who \in SomeAgent /\ files \in SUBSET written
            BY <2>2, <3>2 DEF ReadLocates, FilesInv, ReaderFits, Reader
        <3>4. Offered(found, agent)
            BY <3>1, <3>2, <3>3, LadderOffers
        <3>5. found \in Found
            BY <3>4 DEF Offered
        <3>6. reader' = [Unread EXCEPT !.at = "window", !.terminal = t, !.agent = agent,
                                       !.fresh = found]
            BY <3>1, <3>2
        <3>7. /\ reader' \in Reader /\ reader'.at = "window" /\ reader'.terminal = t
              /\ reader'.agent = agent /\ reader'.files = {} /\ reader'.fresh = found
            BY <3>3, <3>5, <3>6, UnreadFits DEF Reader, SomeTerminal, SomeKind
        <3>8. Offered(found, agent)'
            BY <1>1, <3>4 DEF Offered
        <3> QED
            BY <3>3, <3>7, <3>8 DEF ReaderFits
    <2> QED
        BY <2>1, <2>2, UnreadFits DEF ReadLocates, ReadsWindow, ReadFails
<1>6. MappingFits'
    <2>1. CASE mapping' = mapping
        BY <1>1, <2>1, FitsStay
    <2>2. ASSUME NEW t \in Terminals, NEW agent \in Kinds, NEW found, Offered(found, agent),
                 found.session # None,
                 mapping' = Saved(t, agent, found.session, found.confidence)
          PROVE  MappingFits'
        <3>1. PICK s, confidence : s = found.session /\ confidence = found.confidence
            OBVIOUS
        <3>2. s \in written /\ HarnessOf[s] = agent /\ confidence \in {"exact", "inferred"}
            BY <2>2, <3>1 DEF Offered, Found
        <3>3. mapping' = Saved(t, agent, s, confidence)
            BY <2>2, <3>1
        <3> QED
            BY <1>1, <3>2, <3>3, SavedFits DEF FilesInv, WorldFits
    <2>3. CASE ReadLocates /\ mapping' # mapping
        <3>1. PICK S \in Located(reader.agent, reader.files) :
                LET found == ChooseSession(S, reader.who) IN
                /\ found.session # None
                /\ mapping' = Saved(reader.terminal, reader.agent, found.session, found.confidence)
            BY <2>3 DEF ReadLocates
        <3>2. PICK t, agent, who, files, found :
                /\ t = reader.terminal /\ agent = reader.agent /\ who = reader.who
                /\ files = reader.files /\ found = ChooseSession(S, who)
            OBVIOUS
        <3>3. /\ t \in Terminals /\ agent \in Kinds /\ who \in SomeAgent /\ files \in SUBSET written
            BY <2>3, <3>2 DEF ReadLocates, FilesInv, ReaderFits, Reader
        <3>4. Offered(found, agent)
            BY <3>1, <3>2, <3>3, LadderOffers
        <3> QED
            BY <2>2, <3>1, <3>2, <3>3, <3>4
    <2>4. CASE ReadsWindow /\ mapping' # mapping
        <3>1. /\ reader.fresh.session # None
              /\ mapping' = Saved(reader.terminal, reader.agent, reader.fresh.session,
                                  reader.fresh.confidence)
            BY <2>4 DEF ReadsWindow
        <3>2. /\ reader.terminal \in Terminals /\ reader.agent \in Kinds
              /\ Offered(reader.fresh, reader.agent)
            BY <2>4 DEF ReadsWindow, FilesInv, ReaderFits
        <3> QED
            BY <2>2, <3>1, <3>2
    <2> QED
        BY <2>1, <2>3, <2>4 DEF ReadArrives, ReadFails
<1> QED
    BY <1>3, <1>4, <1>5, <1>6 DEF FilesInv

LEMMA UnchosenFits == choice' = Unchosen => ChoiceFits'
<1>1. Unchosen \in Choice
    BY DEF Unchosen, Choice, SomeTerminal, SomeKind, SomeSession
<1>2. Unchosen.at = "rest" /\ Unchosen.files = {}
    BY DEF Unchosen
<1> QED
    BY <1>1, <1>2 DEF ChoiceFits

LEMMA ChoiceStepFits ==
    ASSUME FilesInv, VouchInv',
           \/ \E p \in DOMAIN live, s \in written : ChoiceArrives(p, s)
           \/ ChoiceLocates \/ ChoiceRelists \/ ChoiceFails
    PROVE  FilesInv'
<1>1. /\ UNCHANGED <<live, kind, activity, opened, retired, known, route, been, written, recorder,
                     reader, revival, misled>>
      /\ inputs' = inputs \/ Input
    BY DEF ChoiceArrives, ChoiceLocates, ChoiceRelists, ChoiceFails, paneVars, herdrVars,
           routeVars, historyVars
<1>2. CASE ChoiceRelists
    <2>1. PICK t, agent, s, files : /\ t = choice.terminal /\ agent = choice.agent
                                    /\ s = choice.session /\ files = choice.files
        OBVIOUS
    <2>2. /\ t \in Terminals /\ agent \in Kinds /\ files \subseteq written
          /\ \A x \in files : HarnessOf[x] = agent
        BY <1>2, <2>1 DEF ChoiceRelists, FilesInv, ChoiceFits
    <2>3. \/ UNCHANGED <<mapping, chosen>>
          \/ \E who \in ByPane(choice.pane) :
                /\ s \in Selectable(files, who)
                /\ mapping' = Saved(t, agent, s, "exact")
                /\ chosen' = chosen \union {<<t, s>>}
        BY <1>2, <2>1 DEF ChoiceRelists
    <2>4. \A who \in SomeAgent : Selectable(files, who) \subseteq files
        <3>1. files \in Located(agent, files)
            <4>1. files = SessionsOf(agent, files \union {})
                BY <2>2 DEF SessionsOf
            <4> QED
                BY <4>1 DEF Located
        <3> QED
            BY <2>2, <3>1, LadderOffers
    <2>5. \/ UNCHANGED <<mapping, chosen>>
          \/ /\ s \in written /\ HarnessOf[s] = agent
             /\ mapping' = Saved(t, agent, s, "exact") /\ chosen' = chosen \union {<<t, s>>}
        BY <2>2, <2>3, <2>4, ByPaneAreAgents
    <2>6. MappingFits'
        BY <1>1, <2>2, <2>5, FitsStay, SavedFits DEF FilesInv, WorldFits
    <2>7. chosen' \subseteq Terminals \X Sessions
        BY <2>2, <2>5 DEF FilesInv, WorldFits
    <2>8. WorldFits'
        BY <1>1, <2>7, InputsBounded DEF FilesInv, WorldFits, VouchInv, Shapes
    <2>9. ChoiceFits'
        BY <1>2, UnchosenFits DEF ChoiceRelists
    <2> QED
        BY <1>1, <2>6, <2>8, <2>9, FitsStay DEF FilesInv
<1>3. CASE ~ChoiceRelists
    <2>1. UNCHANGED <<mapping, chosen>>
        BY <1>3 DEF ChoiceArrives, ChoiceLocates, ChoiceFails, historyVars
    <2>2. WorldFits'
        BY <1>1, <2>1, InputsBounded DEF FilesInv, WorldFits, VouchInv, Shapes
    <2>3. ASSUME NEW p \in DOMAIN live, NEW s \in written, ChoiceArrives(p, s)
          PROVE  ChoiceFits'
        <3>1. p \in Nat /\ live[p] \in Terminals /\ kind[live[p]] \in Kinds
            BY <2>3 DEF ChoiceArrives, FilesInv, WorldFits, RoutesTypeOK, HerdrTypeOK
        <3>2. written \subseteq Sessions /\ written' = written
            BY <1>1 DEF FilesInv, WorldFits
        <3>3. choice' = [at |-> "locating", pane |-> p, terminal |-> live[p],
                         agent |-> kind[live[p]], session |-> s, files |-> written]
            BY <2>3 DEF ChoiceArrives
        <3> QED
            BY <3>1, <3>2, <3>3 DEF ChoiceFits, Choice, SomeTerminal, SomeKind, SomeSession
    <2>4. ASSUME ChoiceLocates
          PROVE  ChoiceFits'
        <3>1. PICK S \in Located(choice.agent, choice.files) :
                choice' = [choice EXCEPT !.at = "relisting", !.files = S]
            BY <2>4 DEF ChoiceLocates
        <3>2. /\ choice \in Choice /\ choice.terminal \in Terminals /\ choice.agent \in Kinds
              /\ choice.files \subseteq written /\ written \subseteq Sessions
            BY <2>4 DEF ChoiceLocates, FilesInv, ChoiceFits, WorldFits
        <3>3. S \subseteq written /\ \A s \in S : HarnessOf[s] = choice.agent
            BY <3>2 DEF Located, SessionsOf
        <3>4. PICK t, agent : t = choice.terminal /\ agent = choice.agent
            OBVIOUS
        <3>5. /\ choice' \in Choice /\ choice'.files = S /\ choice'.terminal = t
              /\ choice'.agent = agent
            BY <3>1, <3>2, <3>3, <3>4 DEF Choice
        <3>6. t \in Terminals /\ agent \in Kinds /\ \A s \in S : HarnessOf[s] = agent
            BY <3>2, <3>3, <3>4
        <3> QED
            BY <1>1, <3>3, <3>5, <3>6 DEF ChoiceFits
    <2>5. ChoiceFits'
        <3>1. ASSUME ChoiceFails
              PROVE  ChoiceFits'
            <4>1. choice' = Unchosen
                BY <3>1 DEF ChoiceFails
            <4> QED
                BY <4>1, UnchosenFits
        <3> QED
            BY <1>3, <2>3, <2>4, <3>1
    <2> QED
        BY <1>1, <2>1, <2>2, <2>5, FitsStay DEF FilesInv
<1> QED
    BY <1>2, <1>3

LEMMA UnrevivedFits == revival' = Unrevived => RevivalFits'
<1>1. Unrevived \in Revival
    BY DEF Unrevived, Revival, SomeAgent, SomeSession
<1> QED
    BY <1>1 DEF RevivalFits

(* Panes open for terminals that count as opened, and closing adds none.   *)
LEMMA LiveWasOpened ==
    ASSUME HerdrTypeOK, \A i \in DOMAIN live : live[i] \in opened, NEW t \in Terminals,
           opened \subseteq opened',
           \/ (\E k \in SomeKind : PaneOpens(t, k)) /\ t \in opened'
           \/ PaneCloses(t)
           \/ live' = live
    PROVE  \A i \in DOMAIN live' : live'[i] \in opened'
<1>1. live \in Seq(Terminals) /\ Len(live) \in Nat /\ DOMAIN live = 1..Len(live)
    BY DEF HerdrTypeOK
<1>2. CASE (\E k \in SomeKind : PaneOpens(t, k)) /\ t \in opened'
    <2>1. live' = Append(live, t)
        BY <1>2 DEF PaneOpens
    <2>2. /\ DOMAIN live' = 1..(Len(live) + 1)
          /\ \A i \in 1..Len(live) : live'[i] = live[i]
          /\ live'[Len(live) + 1] = t
        <3>1. PICK after : after = Append(live, t)
            OBVIOUS
        <3>2. /\ after \in Seq(Terminals) /\ Len(after) = Len(live) + 1
              /\ \A i \in 1..Len(live) : after[i] = live[i]
              /\ after[Len(live) + 1] = t
            BY <1>1, <3>1
        <3>3. DOMAIN after = 1..Len(after)
            BY <3>2
        <3> QED
            BY <2>1, <3>1, <3>2, <3>3
    <2>3. \A i \in DOMAIN live' : i \in 1..Len(live) \/ i = Len(live) + 1
        BY <1>1, <2>2
    <2> QED
        BY <1>1, <1>2, <2>2, <2>3
<1>3. CASE PaneCloses(t)
    <2>1. PICK place : place = PaneOf(t)
        OBVIOUS
    <2>2. live' = [i \in 1..(Len(live) - 1) |-> IF i < place THEN live[i] ELSE live[i + 1]]
        BY <1>3, <2>1 DEF PaneCloses
    <2>3. DOMAIN live' = 1..(Len(live) - 1)
        BY <2>2
    <2>4. ASSUME NEW i \in 1..(Len(live) - 1)
          PROVE  live'[i] \in opened
        <3>1. i \in DOMAIN live /\ i + 1 \in DOMAIN live
            BY <1>1
        <3>2. live'[i] = live[i] \/ live'[i] = live[i + 1]
            BY <2>2
        <3> QED
            BY <3>1, <3>2
    <2> QED
        BY <2>3, <2>4
<1>4. CASE live' = live
    BY <1>4
<1> QED
    BY <1>2, <1>3, <1>4

LEMMA ResumeStepFits ==
    ASSUME FilesInv, VouchInv',
           (\E a \in Agents : ResumeArrives(a)) \/ (\E t \in Terminals : ResumeBinds(t))
           \/ ResumeFails
    PROVE  FilesInv'
<1>1. ASSUME NEW a \in Agents, ResumeArrives(a)
      PROVE  FilesInv'
    <2>1. /\ UNCHANGED <<live, kind, activity, opened, retired, known, route, been, written, mapping,
                         recorder, reader, choice, chosen, misled, inputs>>
          /\ revival' = [agent |-> a, session |-> RecordedSession(a)]
          /\ RecordedSession(a) # None
        BY <1>1 DEF ResumeArrives, paneVars, herdrVars, routeVars, historyVars
    <2>2. RecordedSession(a) \in written
        <3>1. PICK t : t = route[a].terminal
            OBVIOUS
        <3>2. t \in Terminals /\ mapping[t].confidence = "exact" /\ RecordedSession(a) = mapping[t].session
            BY <2>1, <3>1 DEF RecordedSession, FilesInv, WorldFits, RoutesTypeOK, Route
        <3>3. mapping[t] # Unmapped
            BY <3>2 DEF Unmapped
        <3> QED
            BY <3>2, <3>3 DEF FilesInv, MappingFits
    <2>3. PICK s \in written : s = RecordedSession(a)
        BY <2>2
    <2>4. s \in Sessions /\ s \in written' /\ revival' = [agent |-> a, session |-> s]
        BY <2>1, <2>3 DEF FilesInv, WorldFits
    <2>5. RevivalFits'
        BY <2>4 DEF RevivalFits, Revival, SomeAgent, SomeSession
    <2>6. WorldFits'
        BY <2>1 DEF FilesInv, WorldFits, VouchInv, Shapes
    <2> QED
        BY <2>1, <2>5, <2>6, FitsStay DEF FilesInv
<1>2. ASSUME NEW t \in Terminals, ResumeBinds(t)
      PROVE  FilesInv'
    <2>1. PICK s, k : s = revival.session /\ k = HarnessOf[s]
        OBVIOUS
    <2>2. s \in written /\ s \in Sessions /\ k \in Kinds /\ HarnessOf[s] = k
        BY <1>2, <2>1, SessionsAssumption DEF ResumeBinds, FilesInv, RevivalFits, WorldFits
    <2>3. /\ PaneOpens(t, k) /\ opened' = opened \union {t}
          /\ mapping' = Saved(t, k, s, "exact")
          /\ chosen' = chosen \union {<<t, s>>}
          /\ revival' = Unrevived
          /\ UNCHANGED <<written, recorder, reader, choice, misled, inputs>>
        BY <1>2, <2>1 DEF ResumeBinds
    <2>4. \A i \in DOMAIN live' : live'[i] \in opened'
        BY <2>2, <2>3, LiveWasOpened DEF FilesInv, WorldFits, RoutesTypeOK, SomeKind
    <2>5. opened' \subseteq Terminals /\ chosen' \subseteq Terminals \X Sessions
        BY <2>2, <2>3 DEF FilesInv, WorldFits
    <2>6. WorldFits'
        BY <2>3, <2>4, <2>5 DEF FilesInv, WorldFits, VouchInv, Shapes
    <2>7. MappingFits'
        BY <2>2, <2>3, SavedFits DEF FilesInv, WorldFits
    <2>8. RevivalFits'
        BY <2>3, UnrevivedFits
    <2> QED
        BY <2>3, <2>6, <2>7, <2>8, FitsStay DEF FilesInv
<1>3. CASE ResumeFails
    <2>1. /\ UNCHANGED <<live, kind, activity, opened, retired, known, route, been, written, mapping,
                         recorder, reader, choice, chosen, misled, inputs>>
          /\ revival' = Unrevived
        BY <1>3 DEF ResumeFails, paneVars, herdrVars, routeVars, historyVars
    <2>2. WorldFits'
        BY <2>1 DEF FilesInv, WorldFits, VouchInv, Shapes
    <2> QED
        BY <2>1, <2>2, UnrevivedFits, FitsStay DEF FilesInv
<1> QED
    BY <1>1, <1>2, <1>3

LEMMA WorldStepFits ==
    ASSUME FilesInv, VouchInv',
           \/ \E a \in Agents, t \in Terminals : AgentCalls(a, t)
           \/ Refreshes \/ PanesChange \/ \E s \in Sessions : SessionBegins(s)
    PROVE  FilesInv'
<1>1. /\ UNCHANGED <<mapping, recorder, reader, choice, revival, chosen, misled>>
      /\ inputs' = inputs \/ Input
    BY DEF AgentCalls, Refreshes, PanesChange, SessionBegins, historyVars
<1>2. written \subseteq written' /\ written' \subseteq Sessions
    BY DEF AgentCalls, Refreshes, PanesChange, SessionBegins, FilesInv, WorldFits
<1>3. opened' \subseteq Terminals /\ \A i \in DOMAIN live' : live'[i] \in opened'
    <2>1. CASE PanesChange
        <3>1. PICK t \in Terminals :
                 \/ PaneCloses(t) /\ UNCHANGED opened
                 \/ \E k \in SomeKind :
                      \/ OccupantChanges(t, k) /\ UNCHANGED opened
                      \/ t \notin opened /\ PaneOpens(t, k) /\ opened' = opened \union {t}
            BY <2>1 DEF PanesChange
        <3>2. opened' \subseteq Terminals /\ opened \subseteq opened'
            BY <3>1 DEF FilesInv, WorldFits
        <3>3. \/ PaneCloses(t)
              \/ live' = live
              \/ (\E k \in SomeKind : PaneOpens(t, k)) /\ t \in opened'
            BY <3>1 DEF OccupantChanges
        <3> QED
            BY <3>2, <3>3, LiveWasOpened DEF FilesInv, WorldFits, RoutesTypeOK
    <2>2. CASE live' = live /\ opened' = opened
        BY <2>2 DEF FilesInv, WorldFits
    <2> QED
        BY <2>1, <2>2 DEF AgentCalls, Refreshes, SessionBegins, paneVars, herdrVars
<1>4. WorldFits'
    BY <1>1, <1>2, <1>3, InputsBounded DEF FilesInv, WorldFits, VouchInv, Shapes
<1> QED
    BY <1>1, <1>2, <1>4, FitsStay DEF FilesInv

LEMMA FilesNextInv ==
    ASSUME FilesInv, VouchInv', [SessionsNext]_sessionsVars
    PROVE  FilesInv'
<1>1. CASE UNCHANGED sessionsVars
    <2>1. UNCHANGED <<live, kind, activity, opened, retired, known, route, been, written, mapping,
                      recorder, reader, choice, revival, chosen, misled, inputs>>
        BY <1>1 DEF sessionsVars, paneVars, herdrVars, routeVars, historyVars
    <2>2. WorldFits'
        BY <2>1 DEF FilesInv, WorldFits, VouchInv, Shapes
    <2> QED
        BY <2>1, <2>2, FitsStay DEF FilesInv
<1>2. CASE SessionsNext
    BY <1>2, RecorderStepFits, ReaderStepFits, ChoiceStepFits, ResumeStepFits, WorldStepFits
    DEF SessionsNext, RecorderStep
<1> QED
    BY <1>1, <1>2

LEMMA FilesInitInv == SessionsInit => FilesInv
<1> SUFFICES ASSUME SessionsInit PROVE FilesInv
    OBVIOUS
<1>1. RoutesTypeOK
    BY SessionsInitInv DEF VouchInv, Shapes
<1>2. WorldFits
    BY <1>1, SessionsAssumption DEF SessionsInit, WorldFits
<1>3. MappingFits
    BY DEF SessionsInit, MappingFits
<1>4. recorder = Resting /\ reader = Unread /\ choice = Unchosen /\ revival = Unrevived
    BY DEF SessionsInit
<1>5. RecorderFits
    <2>1. Resting \in Recorder
        BY DEF Resting, Recorder, SomeTerminal, SomeKind, SomeAgent
    <2>2. Resting.at = "rest" /\ Resting.todo = {} /\ Resting.files = {}
        BY DEF Resting
    <2> QED
        BY <1>4, <2>1, <2>2, NothingToDo DEF RecorderFits
<1>6. ReaderFits
    BY <1>4, UnreadFits DEF ReaderFits
<1>7. ChoiceFits
    <2>1. Unchosen \in Choice
        BY DEF Unchosen, Choice, SomeTerminal, SomeKind, SomeSession
    <2>2. Unchosen.at = "rest" /\ Unchosen.files = {}
        BY DEF Unchosen
    <2> QED
        BY <1>4, <2>1, <2>2 DEF ChoiceFits
<1>8. RevivalFits
    BY <1>4 DEF RevivalFits, Unrevived, Revival, SomeAgent, SomeSession
<1> QED
    BY <1>2, <1>3, <1>5, <1>6, <1>7, <1>8 DEF FilesInv

(* The table, the four writers and what they hold over their awaits stay   *)
(* well typed; a pass of the recorder has at most MaxPerPass panes; and    *)
(* what is stored for a terminal is a file of the harness it is stored     *)
(* under, whichever of the writers stored it.                              *)
THEOREM SessionsTypeCorrect == SessionsSpec => []SessionsTypeOK
<1>1. SessionsInit => VouchInv /\ FilesInv
    BY SessionsInitInv, FilesInitInv
<1>2. (VouchInv /\ FilesInv) /\ [SessionsNext]_sessionsVars => (VouchInv /\ FilesInv)'
    BY SessionsNextInv, FilesNextInv
<1>3. VouchInv /\ FilesInv => SessionsTypeOK
    BY DEF FilesInv, WorldFits, MappingFits, RecorderFits, ReaderFits, ChoiceFits, RevivalFits,
           SessionsTypeOK
<1> QED
    BY <1>1, <1>2, <1>3, PTL DEF SessionsSpec

=============================================================================
