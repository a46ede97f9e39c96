------------------------------ MODULE Sessions ------------------------------
(***************************************************************************)
(* Which harness session each terminal runs: the session_mappings table,   *)
(* from which an agent is resumed after its terminal has ended.            *)
(*                                                                         *)
(*   recorder   the timer of src/src/session-recorder.ts, which looks for  *)
(*              the sessions of the panes that have no exact mapping       *)
(*   reader     the operator opens an agent's page (herdrAgentSession)     *)
(*   choice     the operator picks a session (selectHerdrAgentSession)     *)
(*   revival    an ended identity is resumed (resumeAgent)                 *)
(*                                                                         *)
(* Each reads panes, routes and mappings, waits for Herdr or for the       *)
(* harness's files, and writes.  All panes run in one folder, the case in  *)
(* which sessions can be confused.  A session is known by its file, which  *)
(* is never removed; what it says is not modelled beyond the handles that  *)
(* its first message names, and whether it began after an identity did.    *)
(* A request's arrival is merged with the pane list it asks for first; a   *)
(* stale route is reconciled at once (module Routing has the two apart).   *)
(***************************************************************************)
EXTENDS Routes

CONSTANTS Sessions,      \* session files that harnesses may write
          HarnessOf,     \* the harness that writes each
          Names,         \* the identities whose handle its first message names
          Since,         \* the sessions that began after each identity
          MaxPerPass,    \* MAX_SESSION_RECORDS_PER_PASS
          Layout,        \* the panes that exist when the hub starts
          Occupants,     \* what runs in each terminal then
          MaxInputs      \* BOUND: commands of agents, changes of panes, failures

ASSUME SessionsAssumption ==
    /\ HarnessOf \in [Sessions -> Kinds]
    /\ Names \in [Sessions -> SUBSET Agents]
    /\ Since \in [Agents -> SUBSET Sessions]
    /\ None \notin Sessions \union Agents \union Terminals \union Kinds
    /\ MaxPerPass \in Nat \ {0} /\ MaxInputs \in Nat
    /\ Layout \in Seq(Terminals) /\ Occupants \in [Terminals -> Kinds \union {None}]
    /\ \A i, j \in DOMAIN Layout : Layout[i] = Layout[j] => i = j

VARIABLES
    opened,    \* the terminals that exist or have existed
    written,   \* the session files that exist
    mapping,   \* session_mappings, by terminal
    recorder, reader, choice, revival,  \* the local variables of each
    been,      \* HISTORY: the identities that were active in each terminal
    chosen,    \* HISTORY: what an operator chose, or resumed, for a terminal
    misled,    \* HISTORY: terminals looked up under another terminal's identity
    inputs     \* how many of MaxInputs have come

paneVars == <<herdrVars, opened>>
routeVars == <<retired, known, route, been>>
historyVars == <<chosen, misled>>
sessionsVars == <<paneVars, routeVars, written, mapping, recorder, reader, choice, revival,
                  historyVars, inputs>>

SomeAgent == Agents \union {None}
SomeTerminal == Terminals \union {None}
SomeSession == Sessions \union {None}
SomeKind == Kinds \union {None}

Unmapped == [harness |-> None, session |-> None, confidence |-> "none"]
Mapping == [harness : Kinds, session : Sessions, confidence : {"exact", "inferred"}]

Pane == [place : Nat, terminal : Terminals, agent : Kinds]

Recorder == [at : {"rest", "panes", "taking", "locating"}, todo : SUBSET Pane,
             terminal : SomeTerminal, agent : SomeKind, who : SomeAgent, files : SUBSET Sessions]
Found == [confidence : {"exact", "inferred", "ambiguous"}, session : SomeSession]
Reader == [at : {"rest", "locating", "window"}, terminal : SomeTerminal, agent : SomeKind,
           who : SomeAgent, stored : Mapping \union {Unmapped}, files : SUBSET Sessions,
           fresh : Found \union {None}]
Choice == [at : {"rest", "locating", "relisting"}, pane : Nat, terminal : SomeTerminal,
           agent : SomeKind, session : SomeSession, files : SUBSET Sessions]
Revival == [agent : SomeAgent, session : SomeSession]

Resting == [at |-> "rest", todo |-> {}, terminal |-> None, agent |-> None, who |-> None,
            files |-> {}]
Unread == [at |-> "rest", terminal |-> None, agent |-> None, who |-> None,
           stored |-> Unmapped, files |-> {}, fresh |-> None]
Unchosen == [at |-> "rest", pane |-> 0, terminal |-> None, agent |-> None, session |-> None,
             files |-> {}]
Unrevived == [agent |-> None, session |-> None]

(* Type invariant: what each of them holds between its awaits; a pass has  *)
(* at most MaxPerPass panes; a mapping names a file of the harness that it *)
(* is stored under (session_mappings, "the harness must match").           *)
SessionsTypeOK ==
    /\ RoutesTypeOK
    /\ opened \subseteq Terminals /\ \A i \in DOMAIN live : live[i] \in opened
    /\ written \subseteq Sessions
    /\ mapping \in [Terminals -> Mapping \union {Unmapped}]
    /\ \A t \in Terminals : mapping[t] # Unmapped =>
          mapping[t].session \in written /\ mapping[t].harness = HarnessOf[mapping[t].session]
    /\ recorder \in Recorder /\ Cardinality(recorder.todo) <= MaxPerPass
    /\ reader \in Reader /\ choice \in Choice /\ revival \in Revival
    /\ been \in [Terminals -> SUBSET Agents]
    /\ chosen \subseteq Terminals \X Sessions
    /\ misled \subseteq Terminals
    /\ inputs \in 0..MaxInputs

SessionsInit ==
    /\ live = Layout
    /\ kind = Occupants
    /\ activity = [t \in Terminals |-> "idle"]
    /\ opened = {Layout[i] : i \in DOMAIN Layout}
    /\ retired = {} /\ known = Agents
    /\ route = [a \in Agents |-> Unrouted]
    /\ written = {}
    /\ mapping = [t \in Terminals |-> Unmapped]
    /\ recorder = Resting /\ reader = Unread /\ choice = Unchosen /\ revival = Unrevived
    /\ been = [t \in Terminals |-> {}]
    /\ chosen = {} /\ misled = {}
    /\ inputs = 0

Input == inputs < MaxInputs /\ inputs' = inputs + 1

-----------------------------------------------------------------------------
(* The ladder (src/src/transcripts.ts).                                    *)

(* locate: the sessions of the harness in the folder.                      *)
SessionsOf(agent, files) == {s \in files : HarnessOf[s] = agent}

(* What reading the files answers: they appear while it reads.             *)
Located(agent, before) ==
    {SessionsOf(agent, before \union more) : more \in SUBSET (written \ before)}

Only(S) == CHOOSE s \in S : S = {s}
IsOne(S) == \E s \in S : S = {s}

Named(S, who) == {s \in S : who \in Names[s]}
Fenced(S, who) == IF who = None THEN S ELSE S \intersect Since[who]

(* chooseSession: the one session that names the handle; else a guess, the *)
(* one session that began after the identity did.                          *)
ChooseSession(S, who) ==
    CASE IsOne(Named(S, who)) -> [confidence |-> "exact", session |-> Only(Named(S, who))]
      [] ~IsOne(Named(S, who)) /\ IsOne(Fenced(S, who)) ->
            [confidence |-> "inferred", session |-> Only(Fenced(S, who))]
      [] OTHER -> [confidence |-> "ambiguous", session |-> None]

(* What an operator may pick: nothing when the ladder is sure.             *)
Selectable(S, who) ==
    LET found == ChooseSession(S, who) IN
    CASE found.confidence = "exact" -> {}
      [] found.confidence = "inferred" -> {found.session}
      [] OTHER -> IF Fenced(S, who) = {} THEN S ELSE Fenced(S, who)

Saved(t, agent, s, confidence) ==
    [mapping EXCEPT ![t] = [harness |-> agent, session |-> s, confidence |-> confidence]]

-----------------------------------------------------------------------------
(* The recorder.                                                           *)

OwnersOf(t) == {a \in Holders(route, t) : Active(a)}

(* findActiveAgentByTerminal; a terminal has at most one active owner.     *)
OwnerOf(t) == IF OwnersOf(t) = {} THEN None ELSE CHOOSE a \in OwnersOf(t) : TRUE

(* findActiveAgentByPaneId: active routes are not corrected when panes are *)
(* renumbered, so it may be the identity of another terminal, or there may *)
(* be two.                                                                 *)
OwnersByPane(p) == {a \in Agents \ retired : Active(a) /\ route[a].pane = p}
ByPane(p) == IF OwnersByPane(p) = {} THEN {None} ELSE OwnersByPane(p)

(* Mutant: a guess is not looked up again.                                 *)
UnrecordedAtAll(t) == mapping[t].harness # kind[t]

(* No exact mapping by the harness that runs there now.                    *)
Unrecorded(t) == mapping[t].confidence # "exact" \/ mapping[t].harness # kind[t]

Wanted(t) == kind[t] # None /\ OwnerOf(t) # None /\ Unrecorded(t)

RecorderTicks ==
    /\ recorder.at = "rest"
    /\ recorder' = [Resting EXCEPT !.at = "panes"]
    /\ UNCHANGED <<paneVars, routeVars, written, mapping, reader, choice, revival, historyVars,
                   inputs>>

(* Mutant: a pass has no limit.                                            *)
AllOf(n, places) == places

Firsts(n, places) == {i \in places : Cardinality({j \in places : j < i}) < n}

(* panesWithoutExactSession, up to the limit of a pass.                    *)
RecorderLists ==
    /\ recorder.at = "panes"
    /\ LET wanted == {i \in DOMAIN live : Wanted(live[i])} IN
       recorder' = [Resting EXCEPT
            !.at = "taking",
            !.todo = {[place |-> i, terminal |-> live[i], agent |-> kind[live[i]]] :
                        i \in Firsts(MaxPerPass, wanted)}]
    /\ UNCHANGED <<paneVars, routeVars, written, mapping, reader, choice, revival, historyVars,
                   inputs>>

RecorderListFails ==
    /\ recorder.at = "panes" /\ Input
    /\ recorder' = Resting
    /\ UNCHANGED <<paneVars, routeVars, written, mapping, reader, choice, revival, historyVars>>

(* record, up to its await, for the panes in their order: the identity is  *)
(* read again, the pane is not.                                            *)
RecorderTakes ==
    /\ recorder.at = "taking"
    /\ \/ recorder.todo = {} /\ recorder' = Resting
       \/ \E pane \in recorder.todo :
            /\ \A other \in recorder.todo : pane.place <= other.place
            /\ LET rest == [Resting EXCEPT !.at = "taking", !.todo = recorder.todo \ {pane}] IN
               recorder' = IF OwnerOf(pane.terminal) = None THEN rest
                           ELSE [rest EXCEPT !.at = "locating", !.terminal = pane.terminal,
                                             !.agent = pane.agent, !.who = OwnerOf(pane.terminal),
                                             !.files = written]
    /\ UNCHANGED <<paneVars, routeVars, written, mapping, reader, choice, revival, historyVars,
                   inputs>>

Onward == [Resting EXCEPT !.at = "taking", !.todo = recorder.todo]

(* Mutant: whatever the ladder says is recorded as exact.                  *)
RecordsGuess(found) == found.session # None

(* "It stores a mapping only when the ladder is exact."                    *)
Records(found) == found.confidence = "exact"

RecorderLocates ==
    /\ recorder.at = "locating"
    /\ \E S \in Located(recorder.agent, recorder.files) :
         LET found == ChooseSession(S, recorder.who) IN
         mapping' = IF Records(found)
                    THEN Saved(recorder.terminal, recorder.agent, found.session, "exact")
                    ELSE mapping
    /\ recorder' = Onward
    /\ UNCHANGED <<paneVars, routeVars, written, reader, choice, revival, historyVars, inputs>>

RecorderCannotRead ==
    /\ recorder.at = "locating" /\ Input
    /\ recorder' = Onward
    /\ UNCHANGED <<paneVars, routeVars, written, mapping, reader, choice, revival, historyVars>>

RecorderStep == RecorderLists \/ RecorderTakes \/ RecorderLocates

-----------------------------------------------------------------------------
(* The operator's page of an agent.                                        *)

ReadArrives(p) ==
    /\ reader.at = "rest"
    /\ p \in DOMAIN live /\ kind[live[p]] # None
    /\ \E who \in ByPane(p) :
         LET home == live[p] IN
         /\ reader' = [Unread EXCEPT
                !.at = "locating", !.terminal = home, !.agent = kind[home], !.who = who,
                !.stored = IF mapping[home].harness = kind[home] THEN mapping[home] ELSE Unmapped,
                !.files = written]
         /\ misled' = IF who \in {None} \union been[home] THEN misled ELSE misled \union {home}
    /\ UNCHANGED <<paneVars, routeVars, written, mapping, recorder, choice, revival, chosen, inputs>>

(* The stored session is shown unless the ladder has another answer.       *)
StoredIsCurrent(stored, found, S) ==
    /\ stored # Unmapped
    /\ found.session \in {None, stored.session}
    /\ stored.session \in S

ReadLocates ==
    /\ reader.at = "locating"
    /\ \E S \in Located(reader.agent, reader.files) :
         LET found == ChooseSession(S, reader.who) IN
         \/ /\ StoredIsCurrent(reader.stored, found, S)
            /\ reader' = [Unread EXCEPT !.at = "window", !.terminal = reader.terminal,
                                        !.agent = reader.agent, !.fresh = found]
            /\ UNCHANGED mapping
         \/ /\ ~StoredIsCurrent(reader.stored, found, S)
            /\ mapping' = IF found.session = None THEN mapping
                          ELSE Saved(reader.terminal, reader.agent, found.session, found.confidence)
            /\ reader' = Unread
    /\ UNCHANGED <<paneVars, routeVars, written, recorder, choice, revival, historyVars, inputs>>

(* A stored session that no longer reads gives way to the ladder's answer. *)
ReadsWindow ==
    /\ reader.at = "window"
    /\ \/ UNCHANGED <<mapping, inputs>>
       \/ /\ Input
          /\ mapping' = IF reader.fresh.session = None THEN mapping
                        ELSE Saved(reader.terminal, reader.agent, reader.fresh.session,
                                   reader.fresh.confidence)
    /\ reader' = Unread
    /\ UNCHANGED <<paneVars, routeVars, written, recorder, choice, revival, historyVars>>

ReadFails ==
    /\ reader.at = "locating" /\ Input
    /\ reader' = Unread
    /\ UNCHANGED <<paneVars, routeVars, written, mapping, recorder, choice, revival, historyVars>>

-----------------------------------------------------------------------------
(* The operator's choice.                                                  *)

ChoiceArrives(p, s) ==
    /\ choice.at = "rest" /\ Input
    /\ p \in DOMAIN live /\ kind[live[p]] # None
    /\ choice' = [at |-> "locating", pane |-> p, terminal |-> live[p], agent |-> kind[live[p]],
                  session |-> s, files |-> written]
    /\ UNCHANGED <<paneVars, routeVars, written, mapping, recorder, reader, revival, historyVars>>

ChoiceLocates ==
    /\ choice.at = "locating"
    /\ \E S \in Located(choice.agent, choice.files) :
         choice' = [choice EXCEPT !.at = "relisting", !.files = S]
    /\ UNCHANGED <<paneVars, routeVars, written, mapping, recorder, reader, revival, historyVars,
                   inputs>>

(* The pane must be the one that was listed; the ladder runs once more.    *)
SamePane ==
    /\ choice.pane \in DOMAIN live
    /\ live[choice.pane] = choice.terminal
    /\ kind[choice.terminal] = choice.agent

ChoiceRelists ==
    /\ choice.at = "relisting"
    /\ \E who \in ByPane(choice.pane) :
         IF SamePane /\ choice.session \in Selectable(choice.files, who)
         THEN /\ mapping' = Saved(choice.terminal, choice.agent, choice.session, "exact")
              /\ chosen' = chosen \union {<<choice.terminal, choice.session>>}
         ELSE UNCHANGED <<mapping, chosen>>
    /\ choice' = Unchosen
    /\ UNCHANGED <<paneVars, routeVars, written, recorder, reader, revival, misled, inputs>>

ChoiceFails ==
    /\ choice.at # "rest"
    /\ choice' = Unchosen
    /\ UNCHANGED <<paneVars, routeVars, written, mapping, recorder, reader, revival, historyVars,
                   inputs>>

-----------------------------------------------------------------------------
(* Resume.                                                                 *)

(* recordedSessionFor: the exact mapping of the identity's last terminal.  *)
RecordedSession(a) ==
    LET row == route[a] IN
    IF /\ row.terminal # None
       /\ mapping[row.terminal].confidence = "exact"
       /\ mapping[row.terminal].harness = row.occupant
    THEN mapping[row.terminal].session ELSE None

ResumeArrives(a) ==
    /\ revival = Unrevived
    /\ a \notin retired /\ ~Active(a)
    /\ RecordedSession(a) # None
    /\ revival' = [agent |-> a, session |-> RecordedSession(a)]
    /\ UNCHANGED <<paneVars, routeVars, written, mapping, recorder, reader, choice, historyVars,
                   inputs>>

Binds(a, t, p, k) ==
    /\ route' = Bound(a, t, p, k)
    /\ been' = IF a \in retired THEN been ELSE [been EXCEPT ![t] = @ \union {a}]
    /\ UNCHANGED <<retired, known>>

(* startResumedAgent, bindResumedAgent: a new pane, the identity's route,  *)
(* and the session that it continues.                                      *)
ResumeBinds(t) ==
    /\ revival # Unrevived
    /\ t \notin opened /\ live # <<>>
    /\ PaneOpens(t, HarnessOf[revival.session])
    /\ opened' = opened \union {t}
    /\ Binds(revival.agent, t, Len(live) + 1, HarnessOf[revival.session])
    /\ mapping' = Saved(t, HarnessOf[revival.session], revival.session, "exact")
    /\ chosen' = chosen \union {<<t, revival.session>>}
    /\ revival' = Unrevived
    /\ UNCHANGED <<written, recorder, reader, choice, misled, inputs>>

ResumeFails ==
    /\ revival # Unrevived
    /\ revival' = Unrevived
    /\ UNCHANGED <<paneVars, routeVars, written, mapping, recorder, reader, choice, historyVars,
                   inputs>>

-----------------------------------------------------------------------------
(* What the hub does not decide, and the routes that follow it (Routing).  *)

AgentCalls(a, t) ==
    /\ Input
    /\ a \notin retired /\ Exists(t) /\ kind[t] # None
    /\ Binds(a, t, PaneOf(t), kind[t])
    /\ UNCHANGED <<paneVars, written, mapping, recorder, reader, choice, revival, historyVars>>

Refreshes ==
    /\ route' = Reconciled(PaneList)
    /\ been' = [t \in Terminals |->
                  been[t] \union {a \in Agents : Restored(a, PaneList) /\ route[a].terminal = t}]
    /\ UNCHANGED <<paneVars, retired, known, written, mapping, recorder, reader, choice, revival,
                   historyVars, inputs>>

PanesChange ==
    /\ Input
    /\ \E t \in Terminals :
         \/ PaneCloses(t) /\ UNCHANGED opened
         \/ \E k \in SomeKind :
              \/ OccupantChanges(t, k) /\ UNCHANGED opened
              \/ t \notin opened /\ PaneOpens(t, k) /\ opened' = opened \union {t}
    /\ UNCHANGED <<routeVars, written, mapping, recorder, reader, choice, revival, historyVars>>

SessionBegins(s) ==
    /\ s \notin written
    /\ \E t \in Terminals : Exists(t) /\ kind[t] = HarnessOf[s]
    /\ written' = written \union {s}
    /\ UNCHANGED <<paneVars, routeVars, mapping, recorder, reader, choice, revival, historyVars,
                   inputs>>

SessionsNext ==
    \/ RecorderTicks \/ RecorderStep \/ RecorderListFails \/ RecorderCannotRead
    \/ \E p \in DOMAIN live : ReadArrives(p) \/ \E s \in written : ChoiceArrives(p, s)
    \/ ReadLocates \/ ReadsWindow \/ ReadFails
    \/ ChoiceLocates \/ ChoiceRelists \/ ChoiceFails
    \/ \E a \in Agents : ResumeArrives(a) \/ \E t \in Terminals : AgentCalls(a, t)
    \/ \E t \in Terminals : ResumeBinds(t)
    \/ ResumeFails
    \/ Refreshes \/ PanesChange
    \/ \E s \in Sessions : SessionBegins(s)

SessionsSpec == SessionsInit /\ [][SessionsNext]_sessionsVars

(* The recorder's timer fires, and Herdr and the files answer.             *)
FairSessionsSpec ==
    SessionsSpec /\ WF_sessionsVars(RecorderTicks) /\ WF_sessionsVars(RecorderStep)

-----------------------------------------------------------------------------
(* A session that can be resumed is the terminal's for a reason:           *)
(* "The briefing named its handle, or the human chose the session"         *)
(* (resume.ts:5).  It named an identity that was active in the terminal,   *)
(* or an operator chose or resumed it there; a guess of the ladder never   *)
(* becomes exact by itself, whatever the recorder, the page, a choice and  *)
(* a resume overwrite of each other.  Exempt are terminals whose page was  *)
(* opened while the pane id led to the identity of another terminal.       *)
Vouched(t, s) ==
    \/ \E a \in been[t] : a \in Names[s]
    \/ <<t, s>> \in chosen
    \/ t \in misled

ResumePointsAreVouched ==
    \A t \in Terminals : mapping[t].confidence = "exact" => Vouched(t, mapping[t].session)

(* The recorder would record the terminal if it looked.                    *)
Recordable(t) ==
    /\ Exists(t) /\ kind[t] # None /\ OwnerOf(t) # None
    /\ ~(mapping[t].confidence = "exact" /\ mapping[t].harness = kind[t])
    /\ IsOne(Named(SessionsOf(kind[t], written), OwnerOf(t)))

(* Enough unrecorded panes are listed before it to fill every pass: the    *)
(* limit takes the first ones each time.                                   *)
Crowded(t) ==
    MaxPerPass <= Cardinality({i \in 1..(PaneOf(t) - 1) : Wanted(live[i])})

(* "So a resume point exists before a restart ends their terminals"        *)
(* (session-recorder.ts:2): a terminal that stays recordable is recorded,  *)
(* also when the operator's page replaces its mapping by a guess again,    *)
(* unless others crowd it out.                                             *)
AgentsAreRecorded ==
    \A t \in Terminals : ~<>[](Recordable(t) /\ ~Crowded(t))

=============================================================================
