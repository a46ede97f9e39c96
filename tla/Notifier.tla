------------------------------ MODULE Notifier ------------------------------
(***************************************************************************)
(* src/src/notifier.ts: one pass at a time turns unread messages into one  *)
(* ping per agent.  A pass lists what is pending, asks Herdr for the panes,*)
(* and prompts one agent after the other, waiting for Herdr each time.     *)
(*                                                                         *)
(* The hub is one thread.  It works without interruption while job.at is   *)
(* in Busy; elsewhere the pass waits, and requests, expiries and changes   *)
(* in Herdr interleave with it.                                            *)
(***************************************************************************)
EXTENDS Mailbox, Routes

CONSTANTS Layout,      \* the panes that exist when the hub starts
          Home,        \* where each agent runs then
          MaxInputs,   \* BOUND: requests other than sends, failures, Herdr changes
          MaxRestarts  \* BOUND: on restarts of the hub

ASSUME NotifierAssumption ==
    /\ Layout \in Seq(Terminals)
    /\ \A i, j \in DOMAIN Layout : Layout[i] = Layout[j] => i = j
    /\ Home \in [Agents -> {Layout[i] : i \in DOMAIN Layout}]
    /\ \A a, b \in Agents : Home[a] = Home[b] => a = b
    /\ Chat # {}
    /\ {MaxInputs, MaxRestarts} \subseteq Nat

VARIABLES
    job,        \* the local variables of the pass in flight
    confirm,    \* pendingConfirmations: unconfirmed pings, and their age
    heard,      \* agents whose last_seen_at has moved since the baseline that
                \* this pass or a confirmation remembers
    idleTicks,  \* staleIdleTicks, counted up to 2
    escalated,  \* staleEscalated
    queued,     \* queuedChannels
    answered,   \* HISTORY: the agent made a request since its last ping about
                \* the channel
    inputs,     \* how many of MaxInputs have come
    restarts    \* how many of MaxRestarts have happened

memoryVars   == <<job, confirm, heard, idleTicks, escalated, queued>>
notifierVars == <<mailboxVars, herdrVars, known, route, memoryVars, answered,
                  inputs, restarts>>

(* A pending row, with the route that the query joined to it kept apart.   *)
Row == [who : Agents, chan : Channels, through : Nat]

Busy  == {"start", "deliver", "stale", "drain"}
Waits == {"idle", "listing", "listed", "prompting", "prompted", "escalating",
          "onTick", "closing"}

Job == [at : Busy \union Waits,
        scope : Names \union {None},   \* channelName of this deliver
        rows : SUBSET Row,             \* the pending rows read at its start
        seen : [Agents -> Route],      \* the routes those rows were joined to
        panes : SUBSET PaneRecord,     \* the pane list of this deliver
        todo : SUBSET Agents,          \* the loop's remaining participants
        who : Agents \union {None},    \* whom it is prompting
        pings : SUBSET Row,            \* the rows the prompt is about
        pane : Nat,                    \* the pane it prompts
        answer : {"none", "ok", "absent", "failed"},
        batch : SUBSET Names]          \* channels taken off the queue

NoJob == [at |-> "idle", scope |-> None, rows |-> {}, seen |-> [a \in Agents |-> Unrouted],
          panes |-> {}, todo |-> {}, who |-> None, pings |-> {}, pane |-> 0,
          answer |-> "none", batch |-> {}]

NoConfirmation == [state |-> "none", chans |-> {}]

NotifierTypeOK ==
    /\ MailboxTypeOK
    /\ RoutesTypeOK
    /\ job \in Job
    /\ confirm \in [Agents -> [state : {"none", "waiting", "expired"},
                               chans : SUBSET Channels]]
    /\ heard \subseteq Agents
    /\ idleTicks \in [Agents -> 0..2]
    /\ escalated \subseteq Agents
    /\ queued \subseteq Names
    /\ answered \in [Agents \X Channels -> BOOLEAN]
    /\ inputs \in 0..MaxInputs
    /\ restarts \in 0..MaxRestarts

-----------------------------------------------------------------------------

(* An existing hub: an open channel that every agent has read to its end,  *)
(* and every agent in its own pane.                                        *)
FirstChannel == CHOOSE c \in Chat : TRUE

NotifierInit ==
    /\ status = [c \in Channels |-> IF c = FirstChannel THEN "open" ELSE "unborn"]
    /\ log = [c \in Channels |-> <<>>]
    /\ lastId = 0
    /\ member = Agents \X {FirstChannel}
    /\ cursor = [pc \in Memberships |-> 0]
    /\ notified = [pc \in Memberships |-> 0]
    /\ retired = {}
    /\ replies = [p \in Participants |-> {}]
    /\ shown = [p \in Participants |-> {}]
    /\ live = Layout
    /\ kind \in [Terminals -> Kinds]
    /\ activity = [t \in Terminals |-> "idle"]
    /\ known = Agents
    /\ route = [a \in Agents |-> [terminal |-> Home[a], pane |-> PaneOf(Home[a]),
                                  occupant |-> kind[Home[a]], state |-> "active"]]
    /\ job = NoJob
    /\ confirm = [a \in Agents |-> NoConfirmation]
    /\ heard = {}
    /\ idleTicks = [a \in Agents |-> 0]
    /\ escalated = {}
    /\ queued = {}
    /\ answered = [pc \in Agents \X Channels |-> TRUE]
    /\ inputs = 0
    /\ restarts = 0

-----------------------------------------------------------------------------
(* The beginning of a pass.                                                *)

(* pendingNotificationsForRouteState, with the watermarks ntf.             *)
News(p, c, ntf) ==
    {log[c][i].id : i \in {j \in DOMAIN log[c] :
        /\ log[c][j].id > cursor[<<p, c>>]
        /\ log[c][j].id > ntf[<<p, c>>]
        /\ log[c][j].from \notin retired \union {p}}}

Pending(ntf, scope, state) ==
    {[who |-> pc[1], chan |-> pc[2], through |-> Newest(News(pc[1], pc[2], ntf))] :
        pc \in {m \in member :
            /\ m[1] \in Agents \ retired
            /\ route[m[1]].terminal # None
            /\ route[m[1]].state = state
            /\ scope \in {None, NameOf[m[2]]}
            /\ News(m[1], m[2], ntf) # {}}}

Receivers(rows) == {row.who : row \in rows}

SeenBy(rows) == [a \in Agents |-> IF a \in Receivers(rows) THEN route[a] ELSE Unrouted]

Tick ==
    /\ job.at = "idle"
    /\ job' = [NoJob EXCEPT !.at = "start"]
    /\ UNCHANGED <<mailboxVars, herdrVars, known, route, confirm, heard, idleTicks,
                   escalated, queued, answered, inputs, restarts>>

(* After every send.  A pass in flight takes the channel up at its end.    *)
NotifyChannel(name) ==
    IF job.at = "idle"
    THEN job' = [NoJob EXCEPT !.at = "start", !.scope = name] /\ UNCHANGED queued
    ELSE queued' = queued \union {name} /\ UNCHANGED job

(* What follows deliver(): onTick after a tick, then the queue.            *)
AfterDeliver(scope) == IF scope = None THEN "onTick" ELSE "drain"

Finished == [NoJob EXCEPT !.at = AfterDeliver(job.scope), !.batch = job.batch]

(* resolveConfirmations, then clearRecoveredStaleState, then the queries.  *)
Expired == {a \in Agents : confirm[a].state = "expired" /\ a \notin heard}

Recovered(a) == a \in retired \/ Active(a)

StartPass ==
    /\ job.at = "start"
    /\ notified' = RolledBack(notified, UNION {{a} \X confirm[a].chans : a \in Expired})
    /\ confirm' = [a \in Agents |-> IF a \in heard \/ a \in Expired
                                    THEN NoConfirmation ELSE confirm[a]]
    /\ LET pending == Pending(notified', job.scope, "active")
           stale   == Pending(notified', job.scope, "stale")
       IN  /\ idleTicks' = [a \in Agents |->
                              IF \/ Recovered(a)
                                 \/ job.scope = None /\ a \notin Receivers(stale)
                              THEN 0 ELSE idleTicks[a]]
           /\ job' = IF pending \union stale = {}
                     THEN Finished
                     ELSE [job EXCEPT !.at = "listing", !.rows = pending,
                                      !.seen = SeenBy(pending)]
    /\ escalated' = {a \in escalated : ~Recovered(a)}
    /\ heard' = heard \ {a \in Agents : confirm'[a].state = "none"}
    /\ UNCHANGED <<status, log, lastId, member, cursor, retired, replies, shown,
                   herdrVars, known, route, queued, answered, inputs, restarts>>

-----------------------------------------------------------------------------
(* The pane list, and the loop over the agents with news.                  *)

Input ==
    /\ inputs < MaxInputs
    /\ inputs' = inputs + 1

PanesListed ==
    /\ job.at = "listing"
    /\ job' = [job EXCEPT !.at = "listed", !.panes = PaneList]
    /\ UNCHANGED <<mailboxVars, herdrVars, known, route, confirm, heard, idleTicks,
                   escalated, queued, answered, inputs, restarts>>

ListFails ==
    /\ job.at = "listing"
    /\ Input
    /\ job' = Finished
    /\ UNCHANGED <<mailboxVars, herdrVars, known, route, confirm, heard, idleTicks,
                   escalated, queued, answered, restarts>>

ListArrives ==
    /\ job.at = "listed"
    /\ job' = [job EXCEPT !.at = "deliver", !.todo = Receivers(job.rows)]
    /\ UNCHANGED <<mailboxVars, herdrVars, known, route, confirm, heard, idleTicks,
                   escalated, queued, answered, inputs, restarts>>

(* resolveRoutedPane: the pane of the terminal that the query saw, and the *)
(* routes once its new pane id is written back.                            *)
RoutedPane(a) == {pane \in job.panes : pane.terminal = job.seen[a].terminal}

(* Mutant: the pane that moved is not written back.                        *)
FollowedNowhere(a, pane) == route

Followed(a, pane) ==
    IF pane.pane = job.seen[a].pane THEN route ELSE Healed(route, a, pane.pane)

OccupantChanged(recorded, current) == recorded = None \/ recorded # current

SameOccupant(a, pane) == ~OccupantChanged(job.seen[a].occupant, pane.agent)

Owns(a, pane) ==
    Identified(Followed(a, pane), a, pane.terminal, pane.pane, pane.agent)

(* Mutant: no second look at the cursor before a prompt.                   *)
StillListed(rows) == rows

(* The rows that no read has overtaken; a cursor that is gone counts as 0. *)
StillUnread(rows) == {row \in rows : cursor[<<row.who, row.chan>>] < row.through}

RowsOf(a) == {row \in job.rows : row.who = a}

Ready(a, pane) ==
    /\ SameOccupant(a, pane)
    /\ Owns(a, pane)
    /\ pane.activity # "blocked"
    /\ StillUnread(RowsOf(a)) # {}

Prompt(a, pane) ==
    /\ job' = [job EXCEPT !.at = "prompting", !.todo = @ \ {a}, !.who = a,
                          !.pings = StillUnread(RowsOf(a)), !.pane = pane.pane]
    /\ heard' = heard \ {a}

Skip(a) ==
    /\ job' = [job EXCEPT !.todo = @ \ {a}]
    /\ UNCHANGED heard

DeliverTo(a) ==
    /\ job.at = "deliver"
    /\ a \in job.todo
    /\ \/ /\ confirm[a].state # "none"
          /\ Skip(a)
          /\ UNCHANGED route
       \/ /\ confirm[a].state = "none"
          /\ RoutedPane(a) = {}
          /\ Skip(a)
          /\ route' = MarkedStale(route, {a})
       \/ /\ confirm[a].state = "none"
          /\ \E pane \in RoutedPane(a) :
                /\ route' = IF SameOccupant(a, pane)
                            THEN Followed(a, pane)
                            ELSE MarkedStale(Followed(a, pane), {a})
                /\ IF Ready(a, pane) THEN Prompt(a, pane) ELSE Skip(a)
    /\ UNCHANGED <<mailboxVars, herdrVars, known, confirm, idleTicks, escalated,
                   queued, answered, inputs, restarts>>

(* Herdr injects into whatever agent is at that pane now.                  *)
AgentAt(pane) == pane \in DOMAIN live /\ kind[live[pane]] # None

HerdrPrompts ==
    /\ job.at = "prompting"
    /\ job' = [job EXCEPT !.at = "prompted",
                          !.answer = IF AgentAt(job.pane) THEN "ok" ELSE "absent"]
    /\ UNCHANGED <<mailboxVars, herdrVars, known, route, confirm, heard, idleTicks,
                   escalated, queued, answered, inputs, restarts>>

(* A refusal, or a timeout of a prompt that may have arrived.              *)
PromptFails ==
    /\ job.at = "prompting"
    /\ Input
    /\ job' = [job EXCEPT !.at = "prompted", !.answer = "failed"]
    /\ UNCHANGED <<mailboxVars, herdrVars, known, route, confirm, heard, idleTicks,
                   escalated, queued, answered, restarts>>

Prompted(a) == job.at = "prompted" /\ job.who = a

NotifiedOf(pings) ==
    [pc \in Memberships |->
        IF pc \in member /\ \E row \in pings : pc = <<row.who, row.chan>>
        THEN LET row == CHOOSE r \in pings : pc = <<r.who, r.chan>>
             IN  IF notified[pc] >= row.through THEN notified[pc] ELSE row.through
        ELSE notified[pc]]

(* Mutant: no confirmation is remembered.                                  *)
PromptAnsweredForGood ==
    /\ job.at = "prompted"
    /\ job' = [job EXCEPT !.at = "deliver", !.who = None, !.pings = {}, !.pane = 0,
                          !.answer = "none"]
    /\ route' = IF job.answer = "absent" THEN MarkedStale(route, {job.who}) ELSE route
    /\ notified' = IF job.answer = "ok" THEN NotifiedOf(job.pings) ELSE notified
    /\ heard' = heard \ {job.who}
    /\ answered' = [pc \in Agents \X Channels |->
                      IF job.answer = "ok" /\ \E row \in job.pings : pc = <<row.who, row.chan>>
                      THEN job.who \in heard
                      ELSE answered[pc]]
    /\ UNCHANGED <<status, log, lastId, member, cursor, retired, replies, shown,
                   herdrVars, known, confirm, idleTicks, escalated, queued, inputs,
                   restarts>>

PromptAnswered ==
    /\ job.at = "prompted"
    /\ job' = [job EXCEPT !.at = "deliver", !.who = None, !.pings = {}, !.pane = 0,
                          !.answer = "none"]
    /\ route' = IF job.answer = "absent" THEN MarkedStale(route, {job.who}) ELSE route
    /\ notified' = IF job.answer = "ok" THEN NotifiedOf(job.pings) ELSE notified
    /\ confirm' = IF job.answer = "ok" /\ job.who \notin heard
                  THEN [confirm EXCEPT ![job.who] =
                          [state |-> "waiting", chans |-> {row.chan : row \in job.pings}]]
                  ELSE confirm
    /\ heard' = heard \ {job.who}
    /\ answered' = [pc \in Agents \X Channels |->
                      IF job.answer = "ok" /\ \E row \in job.pings : pc = <<row.who, row.chan>>
                      THEN job.who \in heard
                      ELSE answered[pc]]
    /\ UNCHANGED <<status, log, lastId, member, cursor, retired, replies, shown,
                   herdrVars, known, idleTicks, escalated, queued, inputs, restarts>>

-----------------------------------------------------------------------------
(* The second loop: agents with news and a stale route.                    *)

LookForStale ==
    /\ job.at = "deliver"
    /\ job.todo = {}
    /\ LET rows == Pending(notified, job.scope, "stale")
       IN  job' = [job EXCEPT !.at = "stale", !.rows = rows, !.seen = SeenBy(rows),
                              !.todo = Receivers(rows)]
    /\ UNCHANGED <<mailboxVars, herdrVars, known, route, confirm, heard, idleTicks,
                   escalated, queued, answered, inputs, restarts>>

(* Mutant: the idle ticks are not capped.                                  *)
Uncapped(n) == n

(* Mutant: each idle tick counts as the first.                             *)
FirstAgain(n) == 1

Saturated(n) == IF n >= 2 THEN 2 ELSE n

Quiet(a, pane) ==
    /\ SameOccupant(a, pane)
    /\ Owns(a, pane)
    /\ pane.activity = "idle"

ConsiderStale(a) ==
    /\ job.at = "stale"
    /\ a \in job.todo
    /\ idleTicks' = [idleTicks EXCEPT ![a] =
                       IF \E pane \in RoutedPane(a) : Quiet(a, pane)
                       THEN Saturated(@ + 1) ELSE 0]
    /\ route' = IF RoutedPane(a) = {} THEN route
                ELSE Followed(a, CHOOSE pane \in RoutedPane(a) : TRUE)
    /\ IF idleTicks'[a] = 2 /\ a \notin escalated
       THEN /\ escalated' = escalated \union {a}
            /\ job' = [job EXCEPT !.at = "escalating", !.todo = @ \ {a}]
       ELSE /\ UNCHANGED escalated
            /\ job' = [job EXCEPT !.todo = @ \ {a}]
    /\ UNCHANGED <<mailboxVars, herdrVars, known, confirm, heard, queued, answered,
                   inputs, restarts>>

(* No outcome of the healing prompt changes anything.                      *)
EscalationAnswered ==
    /\ job.at = "escalating"
    /\ job' = [job EXCEPT !.at = "stale"]
    /\ UNCHANGED <<mailboxVars, herdrVars, known, route, confirm, heard, idleTicks,
                   escalated, queued, answered, inputs, restarts>>

EndDeliver ==
    /\ job.at = "stale"
    /\ job.todo = {}
    /\ job' = Finished
    /\ UNCHANGED <<mailboxVars, herdrVars, known, route, confirm, heard, idleTicks,
                   escalated, queued, answered, inputs, restarts>>

(* onTick refreshes the topology unless the Herdr socket delivers events.  *)
(* Routing models the races inside a refresh; here it is one step.         *)
OnTick ==
    /\ job.at = "onTick"
    /\ job' = [job EXCEPT !.at = "drain"]
    /\ route' \in {route, Reconciled(PaneList)}
    /\ UNCHANGED <<mailboxVars, herdrVars, known, confirm, heard, idleTicks, escalated,
                   queued, answered, inputs, restarts>>

(* drainQueuedChannels.                                                    *)
Drain ==
    /\ job.at = "drain"
    /\ \/ \E name \in job.batch :
             /\ job' = [NoJob EXCEPT !.at = "start", !.scope = name,
                                     !.batch = job.batch \ {name}]
             /\ UNCHANGED queued
       \/ /\ job.batch = {} /\ queued # {}
          /\ job' = [job EXCEPT !.batch = queued]
          /\ queued' = {}
       \/ /\ job.batch = {} /\ queued = {}
          /\ job' = [job EXCEPT !.at = "closing"]
          /\ UNCHANGED queued
    /\ UNCHANGED <<mailboxVars, herdrVars, known, route, confirm, heard, idleTicks,
                   escalated, answered, inputs, restarts>>

(* The queue was empty, but inFlight is cleared only some turns later.     *)
Close ==
    /\ job.at = "closing"
    /\ job' = NoJob
    /\ UNCHANGED <<mailboxVars, herdrVars, known, route, confirm, heard, idleTicks,
                   escalated, queued, answered, inputs, restarts>>

-----------------------------------------------------------------------------
(* What happens while the hub is not busy.                                 *)

Interruptible == job.at \notin Busy

Elsewhere == UNCHANGED <<herdrVars, known, restarts>>

(* An authenticated request of agent a, from terminal t with its token or  *)
(* with the pane's identity, or from outside any pane.                     *)
Authenticated(a) ==
    /\ heard' = IF a = job.who \/ confirm[a].state # "none"
                THEN heard \union {a} ELSE heard
    /\ \/ \E t \in Terminals, as \in {a, None} :
             /\ Exists(t)
             /\ Authenticate(as, a, [terminal |-> t, pane |-> PaneOf(t), agent |-> kind[t]])
       \/ a \notin retired /\ UNCHANGED route

Asks(a) == [pc \in Agents \X Channels |-> answered[pc] \/ pc[1] = a]

AgentRequests(a) ==
    /\ Interruptible
    /\ Input
    /\ Authenticated(a)
    /\ answered' = Asks(a)
    /\ \/ UNCHANGED mailboxVars
       \/ \E c \in Channels :
             \/ Fetch(a, c)
             \/ Join(a, c)
             \/ \E reply \in replies[a] : Ack(a, c, reply.through)
    /\ Elsewhere
    /\ UNCHANGED <<job, confirm, idleTicks, escalated, queued>>

AgentSends(a, c) ==
    /\ Interruptible
    /\ Authenticated(a)
    /\ Send(a, c)
    /\ answered' = Asks(a)
    /\ NotifyChannel(NameOf[c])
    /\ Elsewhere
    /\ UNCHANGED inputs
    /\ UNCHANGED <<confirm, idleTicks, escalated>>

HumanSends(p, c) ==
    /\ Interruptible
    /\ Send(p, c)
    /\ NotifyChannel(NameOf[c])
    /\ Elsewhere
    /\ UNCHANGED inputs
    /\ UNCHANGED <<route, confirm, heard, idleTicks, escalated, answered>>

HumanManages ==
    /\ Interruptible
    /\ Input
    /\ \E c \in Channels :
          \/ CreateChannel(c)
          \/ DeleteChannel(c)
          \/ \E a \in Agents : AddMember(a, c) \/ RemoveMember(a, c)
    /\ Elsewhere
    /\ UNCHANGED <<route, memoryVars, answered>>

DeactivateParticipant(p) ==
    /\ Interruptible
    /\ Input
    /\ p \notin retired
    /\ Deactivate(p)
    /\ route' = IF p \in Agents THEN DeactivatedRoute(p) ELSE route
    /\ Elsewhere
    /\ UNCHANGED <<memoryVars, answered>>

(* DELIVERY_CONFIRMATION_WINDOW_MS pass, whatever the hub is doing.        *)
ConfirmationExpires(a) ==
    /\ confirm[a].state = "waiting"
    /\ confirm' = [confirm EXCEPT ![a].state = "expired"]
    /\ UNCHANGED <<mailboxVars, herdrVars, known, route, job, heard, idleTicks,
                   escalated, queued, answered, inputs, restarts>>

HerdrActs ==
    /\ Interruptible
    /\ Input
    /\ HerdrNext
    /\ UNCHANGED <<mailboxVars, known, route, memoryVars, answered, restarts>>

(* The hub stops at any point, and a new one opens the same database.      *)
HubRestarts ==
    /\ restarts < MaxRestarts
    /\ restarts' = restarts + 1
    /\ job' = NoJob
    /\ confirm' = [a \in Agents |-> NoConfirmation]
    /\ heard' = {}
    /\ idleTicks' = [a \in Agents |-> 0]
    /\ escalated' = {}
    /\ queued' = {}
    /\ UNCHANGED <<mailboxVars, herdrVars, known, route, answered, inputs>>

PassStep ==
    \/ StartPass \/ PanesListed \/ ListArrives
    \/ \E a \in Agents : DeliverTo(a) \/ ConsiderStale(a)
    \/ HerdrPrompts \/ PromptAnswered \/ LookForStale \/ EscalationAnswered
    \/ EndDeliver \/ OnTick \/ Drain \/ Close

NotifierNext ==
    \/ Tick \/ PassStep \/ ListFails \/ PromptFails
    \/ \E a \in Agents :
          \/ AgentRequests(a)
          \/ \E c \in Channels : AgentSends(a, c)
          \/ ConfirmationExpires(a)
    \/ \E p \in Participants \ Agents, c \in Channels : HumanSends(p, c)
    \/ \E p \in Participants : DeactivateParticipant(p)
    \/ HumanManages
    \/ HerdrActs
    \/ HubRestarts

(* The interval timer keeps firing, a call to Herdr ends (by its timeout   *)
(* at the latest), and the confirmation window passes.                     *)
NotifierSpec ==
    /\ NotifierInit
    /\ [][NotifierNext]_notifierVars
    /\ WF_notifierVars(Tick)
    /\ WF_notifierVars(PassStep)
    /\ \A a \in Agents : WF_notifierVars(ConfirmationExpires(a))

-----------------------------------------------------------------------------

UnreadNews(a, c) == News(a, c, [pc \in Memberships |-> 0])

Awaited(a, c) == confirm[a].state # "none" /\ c \in confirm[a].chans

(* "A lost ping is a message nobody ever hears about" (notifier.ts): when  *)
(* the watermark holds back everything that an agent has not read in a     *)
(* channel, then the agent has made a request since it was last pinged     *)
(* about it, or the notifier still remembers to take the ping back.        *)
NothingForgotten ==
    \A a \in Agents \ retired, c \in Channels :
        (/\ <<a, c>> \in member
         /\ UnreadNews(a, c) # {}
         /\ News(a, c, notified) = {}) => answered[<<a, c>>] \/ Awaited(a, c)

(* One ping per message: an agent is prompted only about what no read and  *)
(* no earlier ping has covered in the meantime, and never while a ping to  *)
(* it is unconfirmed, however passes, sends and reads interleave.          *)
PingsAreNews ==
    [][\A a \in Agents : (job.at = "deliver" /\ job'.at = "prompting" /\ job'.who = a) =>
          /\ ~\E c \in Channels : Awaited(a, c)
          /\ \A row \in job'.pings : <<a, row.chan>> \in member =>
                /\ row.through > notified[<<a, row.chan>>]
                /\ row.through > cursor[<<a, row.chan>>]]_notifierVars

Undisturbed(a) ==
    /\ a \notin retired
    /\ Candidates(route, route[a].terminal) = {a}
    /\ Exists(route[a].terminal)
    /\ route[a].occupant = kind[route[a].terminal]
    /\ route[a].occupant # None

Silent(a, c) ==
    /\ Undisturbed(a)
    /\ Active(a)
    /\ activity[route[a].terminal] # "blocked"
    /\ <<a, c>> \in member
    /\ UnreadNews(a, c) # {}
    /\ News(a, c, notified) # {} \/ (Awaited(a, c) /\ a \notin heard)

Reached(a) ==
    /\ Prompted(a)
    /\ job.answer = "ok"
    /\ Exists(route[a].terminal)
    /\ job.pane = PaneOf(route[a].terminal)

(* "Expiry makes unread messages eligible for another ping" (notifier.ts): *)
(* an agent that can be prompted and stays silent is pinged again and      *)
(* again, in its own pane, even if a first ping went to a renumbered pane. *)
SilentAgentIsPinged ==
    \A a \in Agents, c \in Channels : Silent(a, c) ~> (Reached(a) \/ ~Silent(a, c))

StaleWithNews(a) ==
    /\ Undisturbed(a)
    /\ ~Active(a)
    /\ activity[route[a].terminal] = "idle"
    /\ \E c \in Channels : <<a, c>> \in member /\ News(a, c, notified) # {}

(* "A matching pane that stays idle or done for two ticks gets one direct  *)
(* healing prompt" (notifier.ts), unless its route recovers first.         *)
StaleAgentIsTold ==
    \A a \in Agents : StaleWithNews(a) ~> (a \in escalated \/ ~StaleWithNews(a))

=============================================================================
