# Sheppard in TLA+

Sheppard is a message hub for coding agents that run in the panes of the Herdr
terminal multiplexer. Humans (web client) and agents (the `msgr` command line)
share channels. The hub keeps everything in one SQLite database and tells an
agent that messages wait for it by typing one line (a *ping*) into its pane.
It also starts, stops and resumes agents, keeps idle ones awake, and shows
their transcripts.

This directory specifies the parts of the hub where order, failure and time
matter, checks them with TLC and proves part of them with TLAPS. Source paths
below are relative to the repository.

## The system

| Component | Source | State | Operations | What is hard | What makes it correct |
|---|---|---|---|---|---|
| Message store | `src/store.ts`, `src/db.ts` | channels, memberships (two watermarks each), messages | create, delete, join, add, remove, send, direct, broadcast, fetch, ack, workspace membership and its rollback | late, repeated and reordered acknowledgements; a channel name that is used again; concurrent senders | nobody misses a message; no read is undone |
| Routes | `src/store.ts`, `src/http.ts`, `src/server.ts`, `src/topology.ts` | terminal, pane, occupant and state of each agent | authenticate (token or pane), connect, deactivate, heal, reconcile | everything here reads Herdr, waits, and then writes | a terminal has one active owner; a route ends and returns with its terminal |
| Notifier | `src/notifier.ts` | pass in flight, unconfirmed pings, idle ticks, queue | tick, send hook, deliver, confirm, escalate | requests during the pass; pings that reach nobody; restart | a silent agent is told until it acts; no ping without news |
| Topology watcher | `src/topology.ts` | snapshot, refresh in flight, event subscription, retry timer, generation | refresh, subscribe, handle event, retry | events during a refresh, timers of an old generation | the hub's view catches up with Herdr |
| Herdr adapter | `src/herdr.ts` | none | pane list, prompt, keys, subscribe | timeouts that hide a success | outcomes are reported as they are |
| Hub lock | `src/lock.ts` | one lock file | acquire, reclaim, release | two processes, a crash between steps | one hub per database |
| Keep-awake | `src/keep-awake.ts`, `src/store.ts` | policies with a wake budget, human alerts, pane clocks in memory | tick, wake, close dialog, alert, resume | awaits between reading a policy and acting on it | no wake beyond the budget, none for a policy that was stopped, no watched agent left alone |
| Agent lifecycle | `src/server.ts`, `src/store.ts`, `src/resume.ts` | operation rows, lifecycle rows, workspace lock | spawn, start, retry, confirm, roll back, stop, resume | many awaits, each of which may fail or succeed without an answer; pane ids that change | one agent per operation; a rollback leaves nothing and orphans nobody |
| Session recorder and mappings | `src/session-recorder.ts`, `src/transcripts.ts`, `src/server.ts` | session mapping of each terminal | record, read a page, choose, resume | four writers over awaits, guesses beside certain matches | a guess never becomes a resume point |
| Transcript paging | `src/transcripts.ts`, `web/src/hooks/use-agent-session.ts` | a cursor, in the panel | newest page, older page | lines that lie across windows, a file that grows | pages tile the transcript |
| Model catalogue | `src/model-catalogue.ts` | an entry per launcher | look, refresh, edit, delete | overlapping refreshes of a launcher that is edited | models that are offered were reported for this launcher, lately |
| Live streams | `src/sse.ts`, `web/src/api/sse.ts`, `web/src/api/shared-sse.ts`, `web/src/hooks/use-live-messages.ts` | listeners, last event, leader tab, message list | publish, reconnect, take over, load, catch up | what is published while a stream is opened, or a list loaded | the view converges to the log |
| Drafts of the web client | `web/src/commands/`, `web/src/hooks/use-agent-workbench.ts`, `web/src/components/commands/` | a draft per target, in memory, shared by two views | edit, send, settle, allow another send, reload | answers that come after the view has moved on, or not at all | a draft is locked while it is sent, and only then; no send is repeated blindly |
| CLI | `src/cli.ts`, `src/client.ts` | none | find the pane, send a request, read | the answer of Herdr is old on arrival | a message is printed before it is acknowledged |
| HTTP front | `src/http.ts`, `src/validate.ts` | none | authenticate, dispatch | | |
| Remote access | `src/remote.ts`, `src/store.ts` | pairing codes, remote sessions, failure counter | enable, pair, redeem, revoke | | not modelled, see below |
| Tokens, attachments, uploads, dictation, search, rest of the web client, scripts | several | files and tables | | | not modelled: I/O, rendering, configuration or pure queries |

How they interact. The hub is one JavaScript thread: a handler runs without
interruption up to its next `await`, and every store method is one synchronous
transaction. Requests call the store; a send calls the notifier
(`notifyChannel`); the notifier calls Herdr and, after each tick, the topology
refresh; refresh, authentication, connect, spawn, resume and notifier all write
routes; the notifier and the requests all write watermarks; the recorder, the
page, the choice and the resume all write session mappings. So the
interleavings are those of handlers and passes at their awaits, plus Herdr, the
CLI processes, the browser's tabs and restarts, and that is the grain of every
action here: one action is a stretch of code between two awaits.

`PROJECT.json` lists, under "hazards", each place of this code that is hard to
test, with the properties that cover it.

## The modules

| Module | Models |
|---|---|
| `Roster` | the identities, and which are deactivated |
| `Inbox` | abstract: what the store promises a participant, without cursors |
| `Mailbox` | the message store: one action per transaction; refines `Inbox` |
| `Herdr` | the terminals, their panes (a pane id is the place in the list, so closing one renumbers others), occupants, activity. External: modelled from how the adapter and the notifier's comments use it |
| `Routes` | the route columns and every operator that writes them; the one-owner invariant |
| `Routing` | who races to write a route: commands on their way to the hub, the operator's connect, refreshes |
| `Notifier` | the notifier's pass over `Mailbox` and `Routes` (both extended), with the requests that interleave and the hub's restart |
| `KeepAwake` | the policies, the requests that write them, and the watcher's pass over each awaited Herdr call |
| `Lifecycle` | spawn, rollback, stop and resume over `Routes`, with the operation rows, the workspace lock and restarts |
| `Sessions` | the four writers of the session mappings over `Routes` |
| `Live` | the shared message stream of a browser's tabs, from the hub's stream handler to the list |
| `HubLock` | the lock file, one system call at a time, among processes that start, stop and crash |
| `Topology` | the coalesced refresh, the event subscription, its generations and its retry timer |
| `Paging` | the pages of a transcript and the panel that puts them together |
| `Catalogue` | the models of one launcher, its refreshes and its row |
| `Drafts` | the drafts that the command menu and an agent's page share, and their sends |
| `MCParts` | `HubLock`, `Topology`, `Paging`, `Catalogue`, `Drafts` in one run: a behaviour is one of one part |
| `MCMailbox`, `MCRouting`, `MCNotifier`, `MCKeepAwake`, `MCLifecycle`, `MCSessions`, `MCLive`, `MCHubLock`, `MCTopology`, `MCPaging` | instances for TLC |
| `RoutesProofs` | lemmas about the operators of `Routes`, for every module below that extends it |
| `NotifierProofs` (of `Mailbox` and `Notifier`), `RoutingProofs`, `SessionsProofs`, `LifecycleProofs`, `KeepAwakeProofs`, `LiveProofs`, `PartsProofs` (of `HubLock`, `Topology`, `Paging`, `Catalogue`, `Drafts` and their sum `MCParts`) | theorems |

### Mailbox

`cursor` and `notified` are `memberships.cursor_id` and `notified_id`.
Channel rows are `Chat`, `Direct` and `Workspace` rows: rows are never used
twice (AUTOINCREMENT), names are. `log[c]` holds the ids and senders of a row's
messages. `replies` are the fetch answers that a participant may still
acknowledge: at any time, in any order, several times or never, and by channel
name, as the HTTP request does. `shown` is a history variable: what fetch ever
returned to a participant. The body of a message, its attachments and the text
index are not modelled.

`Inbox` says what a member may expect: each member but the sender gets a
message as unread when it is posted, and it leaves the unread set when the
membership ends or when the participant confirms messages *that it was shown*.
`KeepsPromise` is this specification under the mapping `unread <- UnreadOf`
(ids by others above the cursor). A sender that had not caught up and whose
cursor followed its own message, a late acknowledgement that moves a cursor of
another channel of the same name, or a new member that starts below the
high-water mark each break it.

### Routes and Routing

`route[a]` is the tuple terminal, pane, occupant, state. `Candidates` and
`Identified` are `identityForRoute`; `Bound` is `bindRoute`; `Reconciled` is
`reconcileStaleRoutes` followed by `endRoutesWithoutTerminal` on one pane list.

In `Routing`, `errand` is a request whose pane was read earlier by the CLI;
`connect` holds the local variables of `connectHerdrAgent` over its two awaits;
`refresh` those of `refreshNow` between its pane list and its reconciliation.
`PingFails` and `PassFollowsPane` are the notifier's writes, at any time.
A route can be bound to a dead terminal (a late command, a connect over an old
list); the liveness properties say that refreshes repair it.

### Notifier

`job` is the pass in flight with its local variables: `at` is where it stands.
While `job.at` is in `Busy` the hub works without interruption; elsewhere it
waits, for Herdr or for a promise, and requests interleave. `confirm` is
`pendingConfirmations`, `heard` says that `last_seen_at` moved past the
baseline that a prompt or a confirmation remembers (`markSeen` makes each
timestamp new), `idleTicks` and `escalated` are the two maps of the stale loop
(ticks are counted to 2, more makes no difference), `queued` is
`queuedChannels`. `HubRestarts` drops all of it at any point and keeps what the
database holds. `answered` is a history variable for one property.

`OnTick` runs a refresh in one step or none (the races inside it are
`Routing`'s). `sendDirect` and `broadcastWorkspace` end in the same
`notifyChannel` call as `send`, so the notifier's runs use chat rows only. The
cooldown for working agents is left out: its default is zero. A focused pane
that is held counts as "blocked" activity.

### KeepAwake

`policy[t]` is the row of `keep_awake_policies` of an agent or a channel:
whether it watches, why it does not, the alert that stopped it, the wakes that
were spent (`used`), the newest human message it has seen (`mark`). `seen` is
the watcher's `observations`. `job` is the pass: the policies that it read at
its start and has not handled, the one in hand, the targets still to be woken,
the count that it keeps itself, and `at`, the Herdr call that it waits for.
Requests (set, remove, alert, answer, join, leave, deactivate, delete a
conversation) interleave at each of these. An answer of Herdr is a success, a
failure, or a success that was reported as a failure.

Clocks have two values: `fresh`, or past the limit. Limits are minutes, a pass
takes seconds, so `TimePasses` happens between two passes, and everything that
was observed before it is then past its limit. Agent `a` runs in terminal `a`
(routes are `Routing`'s); `routed` says whether its route leads there. What a
pane shows after a prompt or a key is up to the pane, so a prompt that reached
the wrong pane is included. `sent`, `asked` and `late` are history variables.
The status report of `keepAwakeView` is a read and is left out.

### Lifecycle

`op[k]` is the row of an operation key, `record` the rows of
`lifecycle_agents`, `queue` the promise chain of the workspace lock, and
`request[r]`, `stop[s]`, `resume[z]` the local variables of a handler with the
await where it stands. Every await may be answered, fail with Herdr's word that
nothing was done (which rolls back), or end with the effect unknown (which
keeps the row for a retry). A retry reads the row and takes the branch the code
takes: continue, adopt what is there, or report. `HubRestarts` drops all
handlers at any point.

`label`, `env` and `origin` are what the panes hold: the label Herdr shows, the
identity whose token the shell was given, the operation that started the agent
(the last is a history variable). `astray` records that a close, which takes a
pane id, hit another terminal than the one that was listed, because a pane
closed in between; the properties exempt such runs, since the code cannot
exclude them. The id of a participant is never given out again, so an identity
that a request in flight still holds is not used for another one (`Unused`).
A rollback reads the identity's row once, before it waits for a pane list and a
close (`cleanupLifecycleSpawn`), and `request[r].own` keeps what that row said: that
the route is the spawn's own. A command of an agent (`AgentCalls`) binds its route
and may leave history or not, as sending does and reading does not.
`ClosedLeavesNothing` excuses three identities: one that has left history; one that
was resumed, whose token is a new one (without this excuse it holds within the run's
bounds and is false beyond them); and one that first bound a route after its
rollback had read the row (`late`, a history variable), which the code leaves behind
as the known counterexamples say. The validation of a request, the role prompts and
the workspace memberships of a spawn are left out (`Mailbox` has the memberships and
their rollback).

### Sessions

`mapping[t]` is the row of `session_mappings`: harness, session, and whether it
is exact or inferred. `recorder`, `reader`, `choice` and `revival` are the local
variables of the timer's pass, of a page request, of an operator's choice and
of a resume. `ChooseSession` is the ladder of `transcripts.ts`: the
one session whose first message names the identity's handle is exact; without
one, the only session that began after the identity is inferred. All
panes share one folder, where sessions can be confused. What is left of a pass
is a set of panes with their places in Herdr's list, taken in that order. A file
is never removed. A request's arrival is merged with the first pane list it asks for,
and a stale route is reconciled at once. `been`, `chosen` and `misled` are
history variables: who was active in a terminal, what an operator chose there,
and whether its page was ever looked up under another terminal's identity.

### Live

`tabs[t]` is a tab's `SharedMessageSseClient` (the epoch and sequence that it
accepts), `holder` the tab with the Web Lock, `stream` the leader's connection
with the frames that are on the wire, `inbox[t][s]` what `s` posted on the
`BroadcastChannel` and `t` has not received, `views[t]` the message list of
`use-live-messages.ts` with its loads in flight. The hub's `eventStream` reads
the backlog, waits for a topology refresh, and only then registers: `unheard`
(a history variable) collects what is published in between. `stream.lastId` is the
`lastEventId` of the leader's `MessageSseClient`, by which it asks for a replay, and
`tabs[t].lastEventId` that of the shared client, which moves when an event is
delivered. `Drop` loses whole frames; in `CutFrame` the connection ends inside the
data of a frame, and the first of the two ids moves although nothing is delivered;
`cut` (a history variable) collects those messages. Connections drop, loads fail,
tabs close and open at any point. One channel is selected; frames
of other kinds than messages are left out, as is the fallback of a browser
without Web Locks.

### HubLock

`at[h]` is the next system call of process `h` in `acquireHubLock` and
`startHub`; `file` is who created the lock file and the pid written in it, which
is `NoPid` between `openSync` and `writeSync`; `holder[h]` is the pid that a
start has read. `Ends` kills a process at any point: a crash, the exit, or
`Bun.serve` throwing because the port is taken. `Overlap` says whether a start
may begin while another one is under way. Left out: the reuse of pids by the
operating system, and the port, on which two hubs that got past the lock would
still collide when it is the same.

### Topology

`refresh` and `connect` are the local variables of `refreshNow` and
`connectSubscription` over their awaits. What Herdr shows is a version number
and the hub's `view` the version it last read. `wire` holds the frames on their
way: an event about panes, another event, or the end of the socket. While
`Settling` holds, the acknowledgement has been read and the rest of
`connectSubscription` runs in the same turn, so only frames that came with the
acknowledgement may be handled before it. `renewing` is the generation whose
event handler waits for the refresh and will then restart the subscription.
A refresh is three commands and a subscription another, and each may fail while
Herdr is up and its socket open; the reads of a refresh are one step, which says
whether all three succeed. `absorbed` and `missed` are history variables: a call
joined a refresh that had read Herdr already, and the last refresh failed while the
hub watches. The status subscriptions of single panes and the published snapshot's
layout are not modelled.

### Paging

A transcript is a sequence of lines, known by their sizes in bytes, by the turns
they parse to, and by their voice (by which Grok's chunks are joined). Each line
carries its running totals as well, the offset of its end and the turns told by
then, so that cursors and counts are differences and not sums. `PageAt` is the
page before a cursor: the window that grows until it holds a page or reaches its
maximum, the partial line that is dropped, the lines that fit. `panel` is
`use-agent-session.ts`: the pages it shows, each as the numbers of its lines, how
many turns they are, and the cursor of the next page; `asked` is its request in
flight, and `seen`, a history variable, what the last newest page could show. A
read is one step, since lines only grow at the end. Cursor 0 stands for null. In
OpenCode's stores a cursor is the number of older units. A line whose text alone
fills every window (`Overlong`) is skipped while its newline is missing, and one
that is `TooLong` ends the way back (finding 3); `PagesTile` is about the others.
The refusal of a store that is too large and cuts within a multi-byte character
are left out.

### Catalogue

One launcher: its row, and `entry`, what the map `states` holds under its name.
`refreshes[r]` are the local variables of `refreshOne`; `ours` says that the
entry it works on is still the one in the map. Refreshes overlap, wait for a
command, and end after the launcher was edited, deleted or created again.
Times are ages up to `Ttl`. `offered` is a history variable: how long ago each
list was last reported for a setup. The branches for a harness without a
command and for a default model only are left out.

### Drafts

`drafts[t]` is the entry of `CommandDraftStore` for a target: its text, and
whether it is editable, being sent or uncertain. `shown` is the target of the
composer that the command menu and the agent's page have open, `pending` the
`sendingRef` of that composer, which a new composer does not have, and `sends`
the requests under way, which outlive it. An answer is a confirmation, a
refusal, or none that can be read (`commandWriteFailure`), after which the hub
may have acted or act yet. `Reload` of the browser forgets all of it. `unsure`
is a history variable. Attachments, the length of a text and the end of the
session are left out.

## What is checked

| Run | Checks | Bounds | Shows |
|---|---|---|---|
| `mailbox` | `RowsAgree`, `KeepsPromise`, `ReadsNeverRewind` | 2 participants, 2 chat rows of one name, a direct and a workspace row, 2 rows inserted, 2 messages | the store implements `Inbox` |
| `routing` | `OneActivePerTerminal`, `ConnectDisplacesNobody`, `CreatedIsBoundOrRetired`, `DeadRouteEnds`, `StaleRouteReturns` | 2 agents, 2 terminals, 4 inputs | stale answers of Herdr never make two owners, displace an owner or leave an identity adrift; refreshes repair the rest |
| `notifier` | `NotifierTypeOK`, `NothingForgotten`, `PingsAreNews` | 2 agents, 1 human, 2 rows, 1 message, 2 inputs | no ping without news, none beside an unconfirmed one, none forgotten while the hub runs |
| `notifier_live` | `SilentAgentIsPinged`, `StaleAgentIsTold` | 1 agent, 2 terminals, 2 messages, 1 input, 1 restart | a silent agent is pinged in its own pane; a stale one gets the healing prompt |
| `keep_awake` | `BudgetHolds`, `QuietOnceStopped`, `AnswerResumes`, `NobodyIsNeglected` | 2 agents, 1 channel, policies for one agent and the channel, 1 policy, 1 wake, 2 checks of a dialog, 2 messages, 1 input | no budget is overspent, nothing is done for a stopped policy, answers resume, no watched agent is left alone |
| `lifecycle` | `LifecycleTypeOK`, `OneAgentPerKey`, `NobodyIsOrphaned`, `ClosedLeavesNothing`, `RequestsAreAnswered` | 2 keys, 2 open spawns, 1 stop, 1 resume, 3 terminals, 3 commands, 1 input, 1 restart | retries start nobody twice, rollbacks orphan nobody and leave nothing but an identity that came to be used, the lock comes free |
| `sessions` | `SessionsTypeOK`, `ResumePointsAreVouched`, `AgentsAreRecorded` | 2 agents, 3 terminals, 2 harnesses, 3 files, 1 pane per pass, 2 inputs | no guess becomes a resume point; an agent that can be recorded is |
| `live` | `LiveTypeOK`, `RecoveryHeals`, `ReplayCoversDisconnection`, `StreamComesBack` | 2 tabs, 2 messages, a replay of 1, 1 event in transit between tabs, 3 turns (pages opened, connections lost, reloads, failures) | a list that was told to recover is whole, no replay skips a message but those it could not bring and those cut off, a stream opens again |
| `parts` | `PartsTypeOK`, and of the lock `OneHub`, `RunningHubIsNamed`, `RefusedForTheLiving`; of the watcher `WatchedSocketIsOurs`, `StopEndsWatching`, `ViewCatchesUp`; `PagesTile`; `CurrentModelsAreOffered`; of the drafts `LockedWhileSent`, `NoBlindRepeat` | 4 processes whose starts do not overlap; 2 changes, 1 outage; 4 lines of sizes 1, 2, 3, 5, 6 under windows of 3 to 5, 2 turns a page; 2 setups, 2 lists, `Ttl` 2, 2 refreshes, 2 edits; 2 agents, a terminal, a limit of 2 drafts, 2 sends | one hub serves and a crash locks nobody out; the view catches up and stop is final; pages neither skip nor repeat; no model is offered that was not reported lately; no unconfirmed text is sent again unasked |
| `hub_lock_race` | `OneHub`, violated | 2 processes, starts may overlap | two starts both get the lock |
| `topology_retry` | `WatchComesBack`, violated | 1 change, 1 outage | a retry of an old generation blocks the one that is needed |
| `paging_long_line` | `NothingOutOfReach`, violated | lines of sizes 2 and 5 under windows of 3 to 5 | a line as long as the widest window ends the way back |

The five parts of `parts` share no state, and a step of one could not disturb
another: a behaviour chooses its part at the start, so the run is their sum and
not their product. Its fairness is the watcher's. `NotifierTypeOK` has
`MailboxTypeOK` and `RoutesTypeOK` as conjuncts; the type invariants of
`Routing` and `KeepAwake` are proved.

Bounds. Two rows of one name are enough to confuse a channel with its
successor; two messages make a sender that is behind, and one that an
acknowledgement overtakes; with two terminals, closing the first renumbers the
second; two agents contend for one terminal. An *input* is something the hub
does not decide (a command, a request that is not a send, a change in Herdr, a
failure): in `routing`, four let a pane close, open again with another terminal
in its place, and a command or a connect come late on top. Four processes let
two crashes at different points precede a start and another one follow it. Two
changes put an event behind another one whose refresh is in flight; an outage
ends a subscription, or meets one that is being made, and Herdr may have
changed when it is back. In `keep_awake`, a policy of the channel may wake two
members in one pass under a budget of one, and two messages are an alert and
its answer; with two policies set, so that one replaces another, the invariants
hold as well (5.7 million states, too long to keep in the run), and the proofs
cover any number. In `lifecycle`, two spawns and a stop, a spawn and its retry
over a restart, or a stop between a resume and a spawn all fit in three
commands. In `sessions`, three files let one name an agent, one be ambiguous and
one come late; two panes compete for a pass of one. In `live`, a replay of one
of two messages leaves a gap, and three turns let a leader close, come back and
lose its connection. With a limit of two drafts a third target finds
the store full, and two sends let one be answered while another view or target
has one under way (four targets and three sends hold as well, in 600,000
states). Lines of a transcript are shorter than a window, as
long, and fill the widest one with their newline or without it. The inputs bound what the environment does,
never the hub's own steps: ticks, passes, refreshes, retries and loads are
unbounded. `CHECK_DEADLOCK FALSE` is set because when the inputs are used up and
nothing is unread, the modelled system may rest.

Fairness. `Routing`: a handler whose Herdr answer has come runs to its end (the
event loop), and refreshes recur. The second is the hub without Herdr's event
stream, where `onTick` refreshes after each tick; with the stream, a refresh
needs an event, so `DeadRouteEnds` and `StaleRouteReturns` are claims about the
polling hub, and the safety properties about both. `Notifier`: the interval
timer keeps firing (`Tick`), calls to Herdr end, at the latest by their timeout
(`PassStep`), and the confirmation window passes (`ConfirmationExpires`).
`Topology`: calls to Herdr end; a frame that Herdr sent arrives; timers fire;
the notifier's tick comes; and a refresh or a subscription that is tried again and
again while Herdr is up does not fail every time (strong fairness of
`ReadSucceeds` and `SubscribeSucceeds`), since what fails then, a process that
does not start, a timeout or a reply that is refused, is not Herdr's lasting state. `KeepAwake`: the timer fires, Herdr's calls end, and
time passes; this last is strong fairness, since time can pass for long only
between two passes, which come and go. `Lifecycle`: the request that holds the
lock, and only that one, takes its next step, as each of its Herdr calls has a
timeout. `Sessions`: the recorder's timer fires and its reads end. `Live`: the
hub answers, frames and posted events arrive, retry and election timers fire,
a list request ends. Requests, sends, users, failures and restarts have no
fairness anywhere, and Herdr need not change, go down or come back. `HubLock`,
`Paging`, `Catalogue` and `Drafts` have safety properties only.

Each property has a mutant in `PROJECT.json`: an operator of the model with a
plausible bug (they are defined beside the operator they change, and commented
as mutants), under which the property fails.

## Findings

1. **Two overlapping starts both get the lock** (`hub_lock_race`). The lock file
   exists before its pid is written, and a file without a pid counts as
   abandoned; and the removal of a dead holder's file may remove the file that
   another start has just created. `src/lock.ts` promises "One hub per
   database". Two hubs of one port still collide when they bind it, so both
   serve only when their ports differ.
2. **A lost retry** (`topology_retry`). A pane event waits for its refresh while
   the socket ends and sets the retry timer; the handler then starts a new
   generation, whose attempt fails and may set no timer because one is set; that
   timer belongs to the old generation and does nothing. The hub stays on
   polling until it restarts.
3. **A long line ends the way back** (`paging_long_line`). A line of
   `MAX_WINDOW_BYTES` or more that ends at the cursor fills the widest window:
   the page is empty and its cursor the same as before, so `Load older turns`
   does nothing for ever, although `tests/session.test.ts` says that paging
   loses no line. One whose newline is not yet written is skipped instead: its
   window holds no newline, so the cursor goes back into it, and the panel does
   not show it until it starts from the newest page again.

### Known counterexamples

These are behaviours of the code that a stronger property would meet. No run
keeps them; where a module has the steps, the configuration that shows them is
given. Of the first three the modules have the steps, and a property excuses just
the case: taking the disjunct named from it is enough for TLC to show the behaviour
in the run's own configuration.

- A refresh that fails while the hub watches leaves the view old
  (`src/topology.ts`: `refreshNow` returns false, `handleTopologyEvent` does not look,
  and `isWatching` keeps the ticks from refreshing), until another event or request,
  although `tests/topology.test.ts` has the hub refresh from an event "without waiting
  for a tick" (`missed` in `ViewCatchesUp`).
- A rollback decides with the identity's row as it was before it waited for the pane
  list and the close (`cleanupLifecycleSpawn` of `src/server.ts`). An agent that makes
  its first request meanwhile, `msgr inbox` for one, binds a route which the rollback
  does not make stale; the identity then stays, with an active route and a valid
  token, and the operation says "closed" (`late` in `ClosedLeavesNothing`). A later
  refresh ends the route, since its terminal is gone; nothing removes the identity.
- A connection that ends inside the data of a frame moves `Last-Event-ID` past a
  message that was not delivered: `consumeResponse` flushes what it has, and
  `dispatchBuffer` takes the id before it decodes the data (`web/src/api/sse.ts`). The
  replay skips the message, although `src/sse.ts` says that the replay covers a
  disconnection; what shows it is the list that a reconnection loads again
  (`RecoveryHeals`; `cut` in `ReplayCoversDisconnection`).

- A restart forgets unconfirmed pings: `NothingForgotten` fails in `MCNotifier`
  with `MaxRestarts = 1`. The watermark moves when Herdr reports a prompt
  delivered; until the agent's next request only the notifier's memory knows
  that the ping is unconfirmed (`src/notifier.ts`, header).
- An active route keeps an old pane id: a refresh corrects the pane id of stale
  routes only (`src/topology.ts`), so a command from a renumbered pane that
  carries no token is refused until the agent has a message pending or uses its
  token, and the agent's page looks up another identity (`misled` in
  `Sessions`). `product-definition.md` says that Sheppard must refresh them
  before a control action.
- A human message that is older than an alert, but that no pass has seen, resumes
  the policy on the next tick (`src/keep-awake.ts`).
- A channel that has a keep-awake policy cannot be deleted: the delete fails on
  the foreign key.
- A second resume of an identity reissues the token of the agent that the first
  one has just started, which then has no access: `StartedAgentsHaveAccess` of
  `Lifecycle` fails with one key, one spawn, no stop and two resumes.
- The recorder takes the first panes without an exact mapping on each pass.
  Those that never become exact fill every pass, and later ones wait for ever
  (`Crowded` in `AgentsAreRecorded`).
- A recorder or a page that located sessions before an operator's choice
  overwrites the choice, and an exact mapping is never looked at again; a page
  that was ambiguous replaces an exact choice by a guess; a terminal that
  another identity with the same harness takes over keeps the first one's
  exact mapping (`src/session-recorder.ts`, `src/server.ts`).
- A tab that becomes leader for the first time opens its stream without
  `Last-Event-ID`, and followers of the old leader are told to reload only if
  the new one had seen its epoch; of two loads of a list that overlap, the
  older answer may replace the newer list (`whole` in `Live`).
- An older page that is answered after the pane's session has changed is put
  before the turns of the new session; an answer "not ready" ends paging; an
  utterance of Grok that a window cuts shows as two turns.
- Of two refreshes of a launcher, the older may end last and put its list over
  the newer one, or mark it stale; one of an old revision replaces the entry of
  a new revision by an empty one (`src/model-catalogue.ts`).
- A reload of the browser forgets that a send was unconfirmed, with the draft.
  The composer of a channel, which has a draft of its own, offers a text again
  after any failure, and a confirmation clears what was typed meanwhile
  (`web/src/hooks/use-app-controller.ts`).
- A read with `--json` acknowledges before it prints (`src/cli.ts`); a hub's pid
  may belong to another process by the time it is read (`src/lock.ts`); a pane
  created between the list and the subscription has no status subscription
  (`src/topology.ts`); a connect does not repeat its check of the identity after
  its second pane list (`src/server.ts`); while the hub watches Herdr's events,
  a route that a late request revived stays active until the next one.

## What is proved

TLAPS proves the following for all values of the constants, from the
assumptions that the modules name: `MailboxAssumption` (the three kinds of rows
are disjoint, the tables that name them are functions), `RosterAssumption`,
`RoutingAssumption` and `SessionsAssumption` (the first layout lists each
terminal once, `None` is no terminal; sessions have a harness),
`NotifierAssumption` (that of the layout; each agent starts in a pane of its own;
there is a chat channel),
`KeepAwakeAssumption` (each agent has a conversation of its own with the
human), `LifecycleAssumption` (the same of the layout; finitely many terminals;
`None` and "closed" are nobody's name), `LiveAssumption` (finitely many tabs,
`Nobody` is none of them), `HubLockAssumption` (`NoPid` is no process),
`TopologyAssumption`, `PagingAssumption` (sizes and limits are positive, a line
that says something has a text besides its newline, the first window is not wider
than the widest), `CatalogueAssumption` and `DraftsAssumption` (finitely many
targets; those whose pane is looked up have no page).

`NotifierProofs`, of the store. The invariant `MailboxInv` strengthens `RowsAgree` with the type
invariant, with the facts that ids of a log are at most `lastId` and that a row
that is not open holds nothing (`DeletedLeavesNothing`), and with what makes an
acknowledgement safe: a watermark can only become 0, the high-water mark, or an
id of the same channel. `RowsAgree` alone is not inductive: appending
`lastId + 1` keeps a log ordered only if its ids are bounded by `lastId`. The
step from `MailboxInv` to itself is one lemma per action; the two common shapes
(memberships start, a message is inserted) are lemmas about `StartMemberships`
and `InsertMessage`. `ReadsNeverRewind` then needs no invariant but types,
action by action.

`StoreKeepsPromise` is the refinement: every step of `Mailbox` is a step of
`Inbox` or a stutter under `unread <- UnreadOf`. It needs three more facts
(`InboxInv`): the ids of two channels are apart, an answer given out ends at most
at `lastId`, and whatever is unread up to the end of an answer that may still be
acknowledged was shown to its holder. The last one is why a late
acknowledgement is harmless; it survives the deletion of the channel and a
successor of the same name, because new ids are above every answer.

`NotifierProofs`, of the notifier. What a pass does rests on rows that it read
several awaits ago, so `NotifierInv` says what those rows still mean after the
requests in between. Each ends at a message of its channel as long as there is a
channel (`RowsInLog`); those of an agent that the first loop has not come to are
news still or have been read, since a pass prompts an agent once and nobody else
moves its ping watermark past the read one (`StillNews`); the agent of a prompt
under way has no unconfirmed ping, and the rows are its own (`PromptFits`); and
while the hub has not restarted, a ping watermark beyond what was read belongs to
an agent that has made a request since, or to a ping that the notifier remembers,
and what it drops was answered (`Remembered`). `OneActivePerTerminal` and
`MailboxInv` are the other conjuncts. The steps of the requests are all brought to
one form, `StoreStep` (a channel's ids only grow, and a watermark stays, starts or
is caught up above every message, or moves because its owner read), so the
invariant is shown against that form once instead of for each request.
`NotifierTypeCorrect`, `NotifierKeepsRows`, `NothingEverForgotten`, `PingsAlwaysNews`
and `NotifierNeverRewinds` follow. `NothingEverForgotten` holds up to the first
restart, which is as far as the code goes (see the known counterexamples); the run
has no restart. `NotifierKeepsThePromise` is the refinement of `Inbox` again, step by
step, for the system that has the notifier in it: a pass may take back the pings of
several channels in one transaction, which is no single step of `Mailbox` but is
invisible to `Inbox`.

`PassAlwaysMovesOn` is the safety half of the two liveness properties of the
notifier. A pass has phases (`Phase`), two of them loop over agents (`todo`), and an
agent takes up to two awaits (`Awaits`): each step of the pass goes on to the next
phase, or leaves one agent less, or one await less, and when the pass is over each
queued channel gets one, before the hub rests. Only a restart ends a pass early.
What is left to fairness is that the awaits end and that the timer fires.

`RoutesProofs` and `RoutingProofs`. One owner per terminal is inductive together
with the types: each writer is shown to keep it through a lemma about its
operator (`Bound`, `Reconciled`, ...). The interesting case is `Reconciled`,
which activates many routes at once: each was the only candidate for its
terminal. `ConnectDisplacesNobody` and `CreatedIsBoundOrRetired` need in
addition that `connect` holds an agent and a terminal once it was checked.
`FreshRefreshRepairs` is the safety half of `DeadRouteEnds` and `StaleRouteReturns`:
a refresh whose list is still true when it writes leaves no active route of a
terminal that is gone, and no stale route that could return. The second part is
the harder one, since in the same turn the refresh ends other routes, which may
free the terminal; it holds because a route that was restored is the terminal's
only candidate before and after.

`SessionsProofs`. `ResumePointsAreVouched` follows from `VouchInv`: who is active
in a terminal has been there (`BeenWhereActive`); what the recorder and the page
hold over their awaits is vouched for if they will store it as exact, since the
identity they hold was active in that terminal (`RecorderKnows`, `ReaderKnows`);
and the point that a resume holds is chosen (`PointsKnown`). The types
(`SessionsTypeOK`) say more than they seem to: that a pass takes at most its limit
of panes is a count (the places of its panes and their ranks below the limit are
one to one), and that a mapping's session is a file of its harness needs that the
recorder and the page hold an answer for the harness they will store it under
(`FilesInv`).

`LifecycleProofs`. `LifecycleInv` is the longest invariant here. Its parts:
`Serial`, the promise chain of the workspace lock lists no handler twice and only
its head is at work, so the local variables of a handler are its own; `Ops`, what
a row of an operation says of its identity, its terminal and its progress, and
that the request at work fits its row at each await; `Rows`, only identities that
exist have tokens, routes and records, and a pane id that was noted is never below
the place of its terminal, because panes move down only (`Placed`, `Falls`);
`Shells`, while the token that a spawn has put in a shell is the one that works,
the identity was not resumed, and its route and its record are those of the
operation (`Settled`, `Newborn`); `Rollbacks`, the identity of a rollback that found
the route not its own, while the pane is there with its token, has no route but one
that a command of the identity has made since (`late`); `Started`, what is known of
an agent from its start on. `OneAgentPerKey`, `NobodyIsOrphaned` and `ClosedLeavesNothing` follow, the
first from the row alone: a retry starts an agent only in a terminal that the row
does not yet name. A handler that fails with an unknown effect is the step that
needs all of it. `LineAlwaysMovesOn` is the safety half of `RequestsAreAnswered`:
every step of the handler that holds the lock lowers a number that its place
gives it (`Left`), through returns, failures and rollbacks alike; the lock goes to
the next in line with the answer and never before; and a restart is the only other
step that disturbs the line.

`LiveProofs`. `LiveInv` says of the followers that events of the newest epoch come
only from its leader, numbered upward above what the follower has accepted
(`Senders`, `Ordered`); of a tab that has recovered on an open stream, that
whatever its list lacks is on the wire, in its inbox, in the load or in the buffer,
or that another opening is on its way (`Healed`); and that what the wire skips
no stream could see, and what the two ids of the leader are apart, neither, or it came
cut off (`Gaps`). `RecoveryHeals` and `ReplayCoversDisconnection` follow.

`KeepAwakeProofs`. Types, with the schema's CHECK constraints, need what each
place of the pass knows of its row (`Sound`). The budget (`BudgetInv`) relates
three counts: what Herdr reported done, what the pass has counted, and the row
that is written after each answer. `QuietInv` says that every policy that the
pass has not handled is the current row of its target or the target is `late`.
`PassAlwaysMovesOn` is the safety half of `NobodyIsNeglected` and `AnswerResumes`: a
policy leaves `todo` only when it was handled, the loop over blocked members and
the awaits of each dialog count down (`Stage`, `DialogAwaits`), and a pass that got
its panes ends with no policy left. It needs that the policy being handled is
still in `todo` (`TakenIsListed`).

`PartsProofs`. Of the lock, all theorems assume `~Overlap`: without it `OneHub` is false.
The invariant `LockInv` says what a start knows at each of its steps: before it
creates a file the file is not its own, once it decided to remove the file
nobody runs, and from then on the file is its own; `OneHub`,
`RunningHubIsNamed` and `RefusedForTheLiving` follow from it.

Of the watcher, `WatchedSocketIsOurs` needs in addition (`WatchInv`) that no
attempt to subscribe is under way beside a subscription, and that an open
socket whose answer has just come is the one which that attempt asked for.

`TopologyTypeCorrect` has a count in it: that generations stay within their bound
follows because a renewal is due only to a handled frame, frames behind the end of a
socket are never handled, and each of the others is a change of Herdr
(`ChangesCoverGenerations`).
`StopWindsDown` is the safety half of `StopEndsWatching`: after a stop no retry is set
and no subscription stands, the attempt under way is at most three awaits from its
end and never gains one, and once it has ended no socket is open. That each await
ends is fairness, so the other half stays with TLC.
`ChangesAreLostInTwoWaysOnly` is the safety half of `ViewCatchesUp` for the time in
which the hub makes no refreshes of its own: at rest the view is what Herdr shows,
unless a call was absorbed or the last refresh failed, and the view never goes back.
A change that the view lacks has a frame on the wire, or a refresh under way that has
yet to read, has read it or has failed, or one of the two has happened
(`ChangeIsOnItsWay`). That needs that view, what was read, and Herdr's version follow
one another (`ReadFits`), so that a refresh never puts back an older view, and that an
open socket of a Herdr that went down has its end on the wire (`EndIsSent`), since
Herdr may change while it is down.

Of the pages, `PagesTile` follows from `PagingInv`. Its types say what the running
totals are of (`LinesOK`), from which ends rise and lines lie one after another. Of
the panel it says that it shows the turns from its cursor on, once and in order,
that every line older than the cursor is among those that the newest page could
show, and that no line lies across the cursor but an overlong one. One lemma says
of every page, in a file, in Grok's chunks or in a store, what the panel needs: it
ends at the cursor, it has all of the turns from the next cursor to there, and that
cursor is older unless the line is too long (`PagesOK`). The window that suffices
and the first newline in it are least elements of sets, which exist by the
well-foundedness of the naturals.

`PartsAreParts` says that a behaviour of the run `parts` is one of each part, so
that the theorems of the parts are about the run, and `PartsTypeCorrect` puts their
types together.

Of the catalogue, `CurrentModelsAreOffered` follows from `CatalogueInv`: what an
entry, and what a refresh, holds was on offer for its setup no longer ago than
its own age, and the entry that a refresh calls its own is of its revision. Of the
drafts, `LockedWhileSent` is inductive with the types and with `EmptyIsUncertain`, that a draft without a
text is one whose send is unconfirmed; `NoBlindRepeat` follows from it and
`UnsureIsMarked`, that what was not confirmed stays in the store, so marked.

Only model-checked: liveness, which is out of the proof system's reach. Of nine
properties the safety half is proved, that is, which steps count down to what they
promise and that no other step undoes it: `DeadRouteEnds` and `StaleRouteReturns`
(`FreshRefreshRepairs`), `SilentAgentIsPinged` and `StaleAgentIsTold`
(`PassAlwaysMovesOn` of the notifier), `AnswerResumes` and `NobodyIsNeglected`
(`PassAlwaysMovesOn` of keep-awake), `RequestsAreAnswered` (`LineAlwaysMovesOn`),
`ViewCatchesUp` (`ChangesAreLostInTwoWaysOnly`) and `StopEndsWatching` (`StopWindsDown`). Of
`AgentsAreRecorded` and `StreamComesBack` the steps themselves say as much. Every
other property of a passing run is stated by a theorem; those of the lock and
`PartsTypeOK` for starts that do not overlap, as in the run.

## Not modelled

- Remote access. Each of its operations is one synchronous transaction of one
  thread: there is no interleaving, and its properties restate the statements
  of the transaction. The tunnel and the remote command are I/O.
- The web client beyond its live list, its session panel and its shared drafts: forms, routing
  between pages, rendering, and a mock of the API.
- How transcripts are found and parsed, ranked and formatted; tokens,
  attachments, uploads, dictation, search: files, tables edited by one request,
  external commands, or pure queries.
- Validation, configuration, help texts and output of the CLI; distribution,
  scripts and lint rules.
- The body of a message and everything that is derived from it.

These are most of the repository's lines, so the model maps a small share of
them: about a tenth. They hold no state between two awaits, or one value that
one handler writes, and a model of them would repeat them.

## What is left

- A second identity whose session changes under the panel (`Paging` with
  `Sessions`), to state what a page may mix.
- Larger instances of `keep_awake` and `live`; both are near the time limit.
