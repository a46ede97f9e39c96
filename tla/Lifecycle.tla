----------------------------- MODULE Lifecycle -----------------------------
(***************************************************************************)
(* Starting, stopping and resuming agents in one Herdr workspace           *)
(* (src/src/server.ts, and the lifecycle tables of src/src/store.ts).      *)
(*                                                                         *)
(* A spawn request holds the lock of its workspace while it splits a pane, *)
(* starts the harness in it, binds the identity to the terminal, briefs    *)
(* the agent and waits until the topology shows it.  What it did is kept   *)
(* in the row of its operation key, so that a retry, also after a restart  *)
(* of the hub, continues there.  A failure that Herdr reported is rolled   *)
(* back; one whose effect is unknown is left for the retry.                *)
(*                                                                         *)
(* Stop holds another lock (that of the pane id) and resume none.  Every   *)
(* Herdr call takes a pane id, and Herdr renumbers the panes when one      *)
(* closes, so a call may reach another pane than the one that was listed.  *)
(***************************************************************************)
EXTENDS Routes

CONSTANTS
    Keys,         \* operation keys (idempotency header, or hash of the request)
    Leads,        \* the keys whose request asks for the lead role
    Requests,     \* spawn requests that can be open at once
    Stops,        \* stop requests that can be open at once
    Resumes,      \* resume requests that can be open at once
    Harness,      \* the agent kind of the launcher
    Layout,       \* the panes of the workspace when the hub starts
    MaxActive,    \* MAX_ACTIVE_LIFECYCLE_AGENTS_PER_WORKSPACE (16)
    MaxCommands,  \* BOUND: spawn, stop and resume requests
    MaxInputs,    \* BOUND: what users and agents do to the panes
    MaxRestarts   \* BOUND: restarts of the hub

ASSUME LifecycleAssumption ==
    /\ Leads \subseteq Keys
    /\ Harness \in Kinds
    /\ None \notin Kinds \union Agents \union Terminals \union Keys
    /\ None # "closed"
    /\ Layout \in Seq(Terminals)
    /\ \A i, j \in DOMAIN Layout : Layout[i] = Layout[j] => i = j
    /\ MaxActive \in Nat \ {0}
    /\ IsFiniteSet(Terminals)
    /\ {MaxCommands, MaxInputs, MaxRestarts} \subseteq Nat

VARIABLES
    label,      \* the label Herdr shows on each pane
    opened,     \* the terminals that exist or have existed
    env,        \* the identity whose valid token the shell of a pane holds
    origin,     \* the operation whose request started an agent in the pane
    history,    \* agents with a membership or a message
    op,         \* lifecycle_spawn_operations, by key
    record,     \* lifecycle_agents, by pane id
    queue,      \* the requests that hold or await the workspace lock
    request,    \* the local state of each spawn request
    stop,       \* of each stop request
    resume,     \* of each resume request
    astray,     \* HISTORY: a paneClose reached another terminal than was listed
    late,       \* HISTORY: identities that bound a route after their rollback
                \* had read the row without it
    commands, inputs, restarts

hubVars   == <<retired, known, route, history, op, record>>
paneVars  == <<herdrVars, label, opened, env, origin>>
bounds    == <<commands, inputs, restarts>>
lifecycleVars == <<paneVars, hubVars, queue, request, stop, resume,
                   astray, late, bounds>>

PaneIds == 1..Cardinality(Terminals)

AbsentOp  == [status |-> "absent", agent |-> None, handle |-> None,
              terminal |-> None, pane |-> 0, baseline |-> {}, cleanup |-> None]
PendingOp == [AbsentOp EXCEPT !.status = "pending"]

Op == [status : {"absent", "pending", "committed", "failed"},
       agent : Agents \union {None}, handle : Agents \union {None},
       terminal : Terminals \union {None}, pane : {0} \union PaneIds,
       baseline : SUBSET PaneIds, cleanup : {None, "closed", "skipped", "failed"}]

NoRecord == [terminal |-> None, agent |-> None, role |-> None, active |-> FALSE]

Record == [terminal : Terminals \union {None}, agent : Agents \union {None},
           role : {"lead", None}, active : BOOLEAN]

Request == [at : {"idle", "queued", "topology", "split", "splitting", "start", "bind",
                  "brief", "confirm", "refresh", "cleanup", "closing"},
            key : Keys \union {None},
            mode : {"new", "again", "retry", None},  \* which branch of the handler
            terminal : Terminals \union {None},      \* what paneSplit answered
            pane : {0} \union PaneIds,
            own : BOOLEAN]                           \* routeBelongsToOperation
NoRequest == [at |-> "idle", key |-> None, mode |-> None, terminal |-> None, pane |-> 0,
              own |-> FALSE]

Stop == [at : {"idle", "listed", "relisted", "closed"}, pane : {0} \union PaneIds,
         terminal : Terminals \union {None}, agent : Agents \union {None},
         expected : Agents \union {None}]
NoStop == [at |-> "idle", pane |-> 0, terminal |-> None, agent |-> None, expected |-> None]

Resume == [at : {"idle", "list", "split", "start", "closing"},
           agent : Agents \union {None}, was : Terminals \union {None},
           token : BOOLEAN,     \* no later token was issued
           terminal : Terminals \union {None}, pane : {0} \union PaneIds]
NoResume == [at |-> "idle", agent |-> None, was |-> None, token |-> FALSE,
             terminal |-> None, pane |-> 0]

LifecycleTypeOK ==
    /\ RoutesTypeOK
    /\ label \in [Terminals -> Agents \union {None}]
    /\ opened \subseteq Terminals
    /\ env \in [Terminals -> Agents \union {None}]
    /\ origin \in [Terminals -> Keys \union {None}]
    /\ history \subseteq Agents
    /\ op \in [Keys -> Op]
    /\ record \in [PaneIds -> Record]
    /\ queue \in Seq(Requests)
    /\ request \in [Requests -> Request]
    /\ stop \in [Stops -> Stop]
    /\ resume \in [Resumes -> Resume]
    /\ astray \in BOOLEAN
    /\ late \subseteq Agents
    /\ commands \in 0..MaxCommands
    /\ inputs \in 0..MaxInputs
    /\ restarts \in 0..MaxRestarts

LifecycleInit ==
    /\ live = Layout
    /\ kind = [t \in Terminals |-> None]
    /\ activity = [t \in Terminals |-> "idle"]
    /\ label = [t \in Terminals |-> None]
    /\ opened = {Layout[i] : i \in DOMAIN Layout}
    /\ env = [t \in Terminals |-> None]
    /\ origin = [t \in Terminals |-> None]
    /\ retired = {}
    /\ known = {}
    /\ route = [a \in Agents |-> Unrouted]
    /\ history = {}
    /\ op = [k \in Keys |-> AbsentOp]
    /\ record = [p \in PaneIds |-> NoRecord]
    /\ queue = <<>>
    /\ request = [r \in Requests |-> NoRequest]
    /\ stop = [s \in Stops |-> NoStop]
    /\ resume = [z \in Resumes |-> NoResume]
    /\ astray = FALSE
    /\ late = {}
    /\ commands = 0
    /\ inputs = 0
    /\ restarts = 0

-----------------------------------------------------------------------------
(* What a call does in Herdr.                                              *)

AtPane(p) == p \in DOMAIN live

(* A terminal, a handle or a request slot is like any other free one.      *)
Fresh(S) == CHOOSE x \in S : TRUE

(* paneSplit: a plain shell in a new terminal, with a token of a.          *)
Splits(t, a) ==
    /\ live # <<>>
    /\ t \notin opened
    /\ PaneOpens(t, None)
    /\ opened' = opened \union {t}
    /\ env' = [env EXCEPT ![t] = a]
    /\ UNCHANGED <<label, origin>>

(* agentStart: the pane must be an available shell.                        *)
CanStart(p) == AtPane(p) /\ kind[live[p]] = None

Starts(p, a, k) ==
    /\ kind' = [kind EXCEPT ![live[p]] = Harness]
    /\ label' = [label EXCEPT ![live[p]] = a]
    /\ origin' = [origin EXCEPT ![live[p]] = k]
    /\ UNCHANGED <<live, activity, opened, env>>

(* paneClose of a pane id that was listed as the pane of terminal t.       *)
Closes(p, t) ==
    /\ AtPane(p)
    /\ PaneCloses(live[p])
    /\ astray' = (astray \/ live[p] # t)
    /\ UNCHANGED <<label, opened, env, origin>>

-----------------------------------------------------------------------------
(* The rows.                                                               *)

(* Tokens of an identity that has a new token, or no row any more.         *)
Revoked(a) == [t \in Terminals |-> IF env[t] = a THEN None ELSE env[t]]

(* resetLifecycleSpawnOperation, which leaves an absent row absent.        *)
Reset(k) == IF op[k].status = "absent" THEN op ELSE [op EXCEPT ![k] = PendingOp]

(* The row of a participant goes, and ON DELETE SET NULL clears its id.    *)
WithoutParticipant(rows, a) ==
    [k \in Keys |-> IF rows[k].agent = a THEN [rows[k] EXCEPT !.agent = None] ELSE rows[k]]

Deleted(a) ==
    /\ known' = known \ {a}
    /\ route' = [route EXCEPT ![a] = Unrouted]
    /\ env' = Revoked(a)
    /\ late' = late \ {a}

(* registerLifecycleAgent: the row of a pane id is overwritten.            *)
Registered(p, t, a, role) ==
    [record EXCEPT ![p] = [terminal |-> t, agent |-> a, role |-> role, active |-> TRUE]]

Deactivated(p) ==
    IF p \in PaneIds THEN [record EXCEPT ![p].active = FALSE] ELSE record

(* The scan of a spawn: a record whose terminal no longer runs the harness.*)
Scanned ==
    [p \in PaneIds |->
        IF \E pane \in PaneList :
              pane.terminal = record[p].terminal /\ pane.agent = Harness
        THEN record[p] ELSE [record[p] EXCEPT !.active = FALSE]]

RoleTaken(rows) == \E p \in PaneIds : rows[p].active /\ rows[p].role = "lead"

(* lifecycleAgentForTerminal                                               *)
RoleOf(t) ==
    IF \E p \in PaneIds : record[p].active /\ record[p].terminal = t
    THEN record[CHOOSE p \in PaneIds : record[p].active /\ record[p].terminal = t].role
    ELSE None

-----------------------------------------------------------------------------
(* Spawn: one request.                                                     *)

Holds(r) == queue # <<>> /\ Head(queue) = r

RequestOf(r) == request[r].key
OpOf(r) == op[RequestOf(r)]

Goes(r, at) == request' = [request EXCEPT ![r].at = at] /\ UNCHANGED queue

(* Mutant: a return that forgets the lock.                                 *)
AnsweredHolding(r) ==
    /\ request' = [request EXCEPT ![r] = NoRequest]
    /\ UNCHANGED queue

(* The response is sent and the lock passes on.                            *)
Answered(r) ==
    /\ request' = [request EXCEPT ![r] = NoRequest]
    /\ queue' = Tail(queue)

(* withLifecycleLock                                                       *)
Arrives(r, k) ==
    /\ commands < MaxCommands
    /\ request[r].at = "idle"
    /\ r = Fresh({x \in Requests : request[x].at = "idle"})
    /\ commands' = commands + 1
    /\ request' = [request EXCEPT ![r] = [NoRequest EXCEPT !.at = "queued", !.key = k]]
    /\ queue' = Append(queue, r)
    /\ UNCHANGED <<paneVars, hubVars, stop, resume, astray, late, inputs,
                   restarts>>

(* The route of the spawned identity is that of the spawn.                 *)
OwnsRoute(o) ==
    /\ o.agent # None /\ o.pane # 0
    /\ route[o.agent].pane = o.pane /\ route[o.agent].terminal = o.terminal

(* A failure with Herdr's report is rolled back, after the row says so.    *)
(* The rollback reads the participant first, before it waits for Herdr.    *)
FailReported(r) ==
    /\ op' = [op EXCEPT ![RequestOf(r)].status = "failed"]
    /\ request' = [request EXCEPT ![r].at = "cleanup", ![r].own = OwnsRoute(OpOf(r))]
    /\ UNCHANGED queue

(* A failure whose effect is unknown is not.                               *)
FailUnknown(r) ==
    /\ op' = [op EXCEPT ![RequestOf(r)].status = "failed",
                        ![RequestOf(r)].cleanup = "skipped"]
    /\ Answered(r)

Fail(r) == FailReported(r) \/ FailUnknown(r)

(* Mutant: a spawn that failed starts over, whatever became of its pane.   *)
AbandonedOnceFailed(o) == o.status = "failed"

(* Only a rollback that closed the pane lets a retry start over.           *)
Abandoned(o) == o.status = "failed" /\ o.cleanup = "closed"

(* The row of the key decides which branch the request takes.              *)
Begins(r) ==
    /\ Holds(r)
    /\ request[r].at = "queued"
    /\ LET o == OpOf(r)
           row == IF Abandoned(o) THEN PendingOp ELSE o
       IN  \/ /\ o.status = "committed"
              /\ request' = [request EXCEPT ![r].at = "confirm", ![r].mode = "again"]
              /\ UNCHANGED <<op, queue>>
           \/ /\ o.status # "committed"
              /\ row.agent # None /\ row.pane # 0
              /\ request' = [request EXCEPT ![r].at = "bind", ![r].mode = "retry"]
              /\ UNCHANGED <<op, queue>>
           \/ /\ o.status # "committed"
              /\ (row.agent = None) # (row.pane = 0)
              /\ op' = [op EXCEPT ![RequestOf(r)].status = "failed"]
              /\ request' = [request EXCEPT ![r].at = "cleanup", ![r].mode = "retry"]
              /\ UNCHANGED queue
           \/ /\ o.status # "committed"
              /\ row.agent = None /\ row.pane = 0
              /\ op' = Reset(RequestOf(r))
              /\ request' = [request EXCEPT ![r].at = "topology", ![r].mode = "new"]
              /\ UNCHANGED queue
    /\ UNCHANGED <<paneVars, retired, known, route, history, record,
                   stop, resume, astray, late, bounds>>

(* A workspace has one lead, and a limit.                                  *)
Refuses(k, rows) ==
    \/ k \in Leads /\ RoleTaken(rows)
    \/ Cardinality({p \in PaneIds : rows[p].active}) >= MaxActive

(* The id of a participant is never given out again, so a name that a      *)
(* request in flight still holds is not free for another identity.         *)
Unused == {a \in Agents \ known :
             /\ \A z \in Resumes : resume[z].agent # a
             /\ \A s \in Stops : stop[s].agent # a}

(* After the topology refresh: the dead records, the refusals, the row of  *)
(* the operation, and a participant with a token.                          *)
Prepares(r) ==
    /\ Holds(r)
    /\ request[r].at = "topology"
    /\ route' = Reconciled(PaneList)
    /\ live # <<>>
    /\ record' = Scanned
    /\ \/ /\ Refuses(RequestOf(r), Scanned)
          /\ Answered(r)
          /\ UNCHANGED <<op, known>>
       \/ /\ ~Refuses(RequestOf(r), Scanned)
          /\ Unused # {}
          /\ LET a == Fresh(Unused) IN
             /\ known' = known \union {a}
             /\ op' = [op EXCEPT ![RequestOf(r)] =
                         [PendingOp EXCEPT !.agent = a, !.handle = a,
                                           !.baseline = DOMAIN live]]
          /\ Goes(r, "split")
       \/ /\ ~Refuses(RequestOf(r), Scanned)
          /\ Unused = {}
          /\ op' = [op EXCEPT ![RequestOf(r)] =
                      [PendingOp EXCEPT !.status = "failed", !.baseline = DOMAIN live]]
          /\ Answered(r)
          /\ UNCHANGED known
    /\ UNCHANGED <<paneVars, retired, history, stop, resume, astray, late,
                   bounds>>

(* The refresh failed, or the workspace has gone.                          *)
Unprepared(r) ==
    /\ Holds(r)
    /\ request[r].at = "topology"
    /\ Answered(r)
    /\ UNCHANGED <<paneVars, hubVars, stop, resume, astray, late, bounds>>

(* Herdr splits the pane; the answer is on its way.                        *)
SplitPane(r) ==
    /\ Holds(r)
    /\ request[r].at = "split"
    /\ opened # Terminals
    /\ LET t == Fresh(Terminals \ opened) IN
          /\ Splits(t, OpOf(r).agent)
          /\ request' = [request EXCEPT ![r].at = "splitting", ![r].terminal = t,
                                        ![r].pane = Len(live) + 1]
    /\ UNCHANGED <<hubVars, queue, stop, resume, astray, late, bounds>>

(* recordLifecycleSpawnPane                                                *)
SplitAnswered(r) ==
    /\ Holds(r)
    /\ request[r].at = "splitting"
    /\ op' = [op EXCEPT ![RequestOf(r)].terminal = request[r].terminal,
                        ![RequestOf(r)].pane = request[r].pane]
    /\ Goes(r, "start")
    /\ UNCHANGED <<paneVars, retired, known, route, history, record,
                   stop, resume, astray, late, bounds>>

SplitFails(r) ==
    /\ Holds(r)
    /\ \/ request[r].at = "split" /\ Fail(r)
       \/ request[r].at = "splitting" /\ FailUnknown(r)
    /\ UNCHANGED <<paneVars, retired, known, route, history, record,
                   stop, resume, astray, late, bounds>>

(* startLifecycleAgent: a shell that is not ready is tried again, which    *)
(* changes nothing; the call ends with a start, a report or a timeout, and *)
(* a timeout may hide a start.                                             *)
StartAgent(r) ==
    /\ Holds(r)
    /\ request[r].at = "start"
    /\ CanStart(OpOf(r).pane)
    /\ Starts(OpOf(r).pane, OpOf(r).handle, RequestOf(r))
    /\ \/ Goes(r, "bind") /\ UNCHANGED op
       \/ FailUnknown(r)
    /\ UNCHANGED <<retired, known, route, history, record, stop, resume,
                   astray, late, bounds>>

StartFails(r) ==
    /\ Holds(r)
    /\ request[r].at = "start"
    /\ Fail(r)
    /\ UNCHANGED <<paneVars, retired, known, route, history, record,
                   stop, resume, astray, late, bounds>>

(* lifecyclePaneMatches; only a retry asks for the label.                  *)
PaneMatches(o, labelled) ==
    /\ o.agent # None
    /\ AtPane(o.pane)
    /\ live[o.pane] = o.terminal
    /\ kind[o.terminal] = Harness
    /\ labelled => label[o.terminal] = o.handle

BindRoute(r) ==
    /\ Holds(r)
    /\ request[r].at = "bind"
    /\ PaneMatches(OpOf(r), request[r].mode = "retry")
    /\ route' = Bound(OpOf(r).agent, OpOf(r).terminal, OpOf(r).pane, Harness)
    /\ Goes(r, IF request[r].mode = "retry" THEN "confirm" ELSE "brief")
    /\ UNCHANGED <<paneVars, retired, known, history, op, record,
                   stop, resume, astray, late, bounds>>

BindFails(r) ==
    /\ Holds(r)
    /\ request[r].at = "bind"
    /\ \/ ~PaneMatches(OpOf(r), request[r].mode = "retry") /\ FailReported(r)
       \/ Fail(r)
    /\ UNCHANGED <<paneVars, retired, known, route, history, record,
                   stop, resume, astray, late, bounds>>

(* The first prompt, when the role or the request has one.                 *)
Briefs(r) ==
    /\ Holds(r)
    /\ request[r].at = "brief"
    /\ \/ Goes(r, "confirm") /\ UNCHANGED op
       \/ Fail(r)
    /\ UNCHANGED <<paneVars, retired, known, route, history, record,
                   stop, resume, astray, late, bounds>>

(* What confirmLifecycleSpawn waits for, on a refreshed topology rt.       *)
Confirmed(o, rt) ==
    /\ AtPane(o.pane)
    /\ kind[live[o.pane]] = Harness
    /\ Holders(rt, live[o.pane]) \cap {a \in Agents : rt[a].state = "active"} = {o.handle}
    /\ o.agent = o.handle
    /\ rt[o.agent].state = "active"
    /\ rt[o.agent].pane = o.pane
    /\ rt[o.agent].occupant = Harness

(* finalizeLifecycleSpawn, which also runs when a committed spawn is asked *)
(* for again.                                                              *)
Commits(r) ==
    /\ Holds(r)
    /\ request[r].at = "confirm"
    /\ route' = Reconciled(PaneList)
    /\ Confirmed(OpOf(r), Reconciled(PaneList))
    /\ LET o == OpOf(r) IN
       record' = Registered(o.pane, o.terminal, o.agent,
                            IF RequestOf(r) \in Leads THEN "lead" ELSE None)
    /\ op' = [op EXCEPT ![RequestOf(r)].status = "committed"]
    /\ IF request[r].mode = "new" THEN Goes(r, "refresh") ELSE Answered(r)
    /\ UNCHANGED <<paneVars, retired, known, history, stop, resume, astray,
                   late, bounds>>

(* A new spawn refreshes the topology before it answers; a failure of that *)
(* is not reported.                                                        *)
RefreshesForSpawn(r) ==
    /\ Holds(r)
    /\ request[r].at = "refresh"
    /\ route' \in {route, Reconciled(PaneList)}
    /\ Answered(r)
    /\ UNCHANGED <<paneVars, retired, known, history, op, record,
                   stop, resume, astray, late, bounds>>

(* The confirmation times out, or the topology cannot be read.             *)
ConfirmFails(r) ==
    /\ Holds(r)
    /\ request[r].at = "confirm"
    /\ \/ request[r].mode = "again" /\ Answered(r) /\ UNCHANGED op
       \/ request[r].mode # "again" /\ FailUnknown(r)
    /\ UNCHANGED <<paneVars, retired, known, route, history, record,
                   stop, resume, astray, late, bounds>>

-----------------------------------------------------------------------------
(* Spawn: the rollback.                                                    *)

CleanupIs(r, rows, outcome) ==
    op' = [rows EXCEPT ![RequestOf(r)].cleanup = outcome]

(* removeUnboundAgent: no pane is known, so only the identity can go.      *)
RemovesUnbound(r) ==
    /\ Holds(r)
    /\ request[r].at = "cleanup"
    /\ OpOf(r).pane = 0
    /\ LET a == OpOf(r).agent IN
       IF a # None /\ a \notin history /\ route[a].terminal = None
       THEN Deleted(a) /\ CleanupIs(r, WithoutParticipant(op, a), "skipped")
       ELSE UNCHANGED <<known, route, env, late>> /\ CleanupIs(r, op, "skipped")
    /\ Answered(r)
    /\ UNCHANGED <<herdrVars, label, opened, origin, retired, history, record,
                   stop, resume, astray, bounds>>

(* The pane is still the shell of the split, or runs the spawned agent.    *)
PreStartPlainShell(o) ==
    /\ AtPane(o.pane)
    /\ o.pane \notin o.baseline
    /\ live[o.pane] = o.terminal
    /\ kind[o.terminal] = None

IdentityMatches(o) ==
    /\ AtPane(o.pane)
    /\ o.agent # None
    /\ live[o.pane] = o.terminal
    /\ kind[o.terminal] = Harness
    /\ label[o.terminal] = o.handle
    /\ o.agent = o.handle

(* The rollback of agent a has begun, and found it without the route.      *)
RolledBackUnrouted(r, a) ==
    request[r].at \in {"cleanup", "closing"} /\ OpOf(r).agent = a /\ ~request[r].own

ListsForCleanup(r) ==
    /\ Holds(r)
    /\ request[r].at = "cleanup"
    /\ OpOf(r).pane # 0
    /\ IF PreStartPlainShell(OpOf(r)) \/ IdentityMatches(OpOf(r))
       THEN Goes(r, "closing") /\ UNCHANGED op
       ELSE CleanupIs(r, op, "failed") /\ Answered(r)
    /\ UNCHANGED <<paneVars, retired, known, route, history, record,
                   stop, resume, astray, late, bounds>>

(* Mutant: the identity goes though the pane could not be closed.          *)
CleanupFailsAndRemoves(r) ==
    /\ Holds(r)
    /\ request[r].at = "closing"
    /\ OpOf(r).agent \in known \ history
    /\ Deleted(OpOf(r).agent)
    /\ CleanupIs(r, WithoutParticipant(op, OpOf(r).agent), "failed")
    /\ Answered(r)
    /\ UNCHANGED <<herdrVars, label, opened, origin, retired, history, record,
                   stop, resume, astray, bounds>>

CleanupFails(r) ==
    /\ Holds(r)
    /\ \/ request[r].at = "cleanup" /\ OpOf(r).pane # 0
       \/ request[r].at = "closing"
    /\ CleanupIs(r, op, "failed")
    /\ Answered(r)
    /\ UNCHANGED <<paneVars, retired, known, route, history, record,
                   stop, resume, astray, late, bounds>>

(* The rows after the close: the route is stale when it was the spawn's as *)
(* the rollback began (own), the record of the pane goes, and the identity *)
(* when it has no route and left no history.                               *)
StaleOwn(o, own) == IF own THEN MarkedStale(route, {o.agent}) ELSE route

WithoutRecord(o) ==
    IF record[o.pane].agent = o.agent
    THEN [record EXCEPT ![o.pane] = NoRecord] ELSE record

(* Mutant: only an identity that never had a route goes.                   *)
RemovableUnrouted(o, rt, rows) ==
    /\ rt[o.agent].terminal = None
    /\ \A p \in PaneIds : rows[p].agent # o.agent
    /\ o.agent \notin history

Removable(o, rt, rows) ==
    /\ rt[o.agent].terminal = None \/ rt[o.agent].state = "stale"
    /\ \A p \in PaneIds : rows[p].agent # o.agent
    /\ o.agent \notin history

ClosesSpawn(r) ==
    /\ Holds(r)
    /\ request[r].at = "closing"
    /\ LET o == OpOf(r)
           after == StaleOwn(o, request[r].own)
       IN
       /\ AtPane(o.pane)
       /\ PaneCloses(live[o.pane])
       /\ astray' = (astray \/ live[o.pane] # o.terminal)
       /\ IF o.agent = None
          THEN UNCHANGED <<known, route, env, record, late>> /\ CleanupIs(r, op, "closed")
          ELSE /\ record' = WithoutRecord(o)
               /\ IF Removable(o, after, WithoutRecord(o))
                  THEN Deleted(o.agent) /\ CleanupIs(r, WithoutParticipant(op, o.agent), "closed")
                  ELSE /\ route' = after
                       /\ UNCHANGED <<known, env, late>>
                       /\ CleanupIs(r, op, "closed")
    /\ Answered(r)
    /\ UNCHANGED <<label, opened, origin, retired, history, stop, resume, bounds>>

RequestNext(r) ==
    \/ Begins(r)
    \/ Prepares(r) \/ Unprepared(r)
    \/ SplitPane(r) \/ SplitAnswered(r) \/ SplitFails(r)
    \/ StartAgent(r) \/ StartFails(r)
    \/ BindRoute(r) \/ BindFails(r)
    \/ Briefs(r)
    \/ Commits(r) \/ ConfirmFails(r) \/ RefreshesForSpawn(r)
    \/ RemovesUnbound(r) \/ ListsForCleanup(r) \/ CleanupFails(r) \/ ClosesSpawn(r)

-----------------------------------------------------------------------------
(* Stop: the pane is listed twice, then closed.                            *)

(* stopTarget: an active route must agree with the pane in every field;    *)
(* without one the label names the pane.                                   *)
Target(p) ==
    LET t == live[p]
        active == {a \in Holders(route, t) : Active(a)}
    IN  IF active = {} THEN [agent |-> None, expected |-> label[t]]
        ELSE LET a == CHOOSE a \in active : TRUE IN
             IF route[a].pane = p /\ route[a].occupant # None /\ route[a].occupant = kind[t]
             THEN [agent |-> a, expected |-> a]
             ELSE [agent |-> None, expected |-> None]

StopLists(s, p) ==
    /\ commands < MaxCommands
    /\ stop[s].at = "idle"
    /\ \A x \in Stops : stop[x].pane # p
    /\ AtPane(p)
    /\ Target(p).expected # None
    /\ commands' = commands + 1
    /\ stop' = [stop EXCEPT ![s] = [at |-> "listed", pane |-> p, terminal |-> live[p],
                                    agent |-> Target(p).agent,
                                    expected |-> Target(p).expected]]
    /\ UNCHANGED <<paneVars, hubVars, queue, request, resume, astray, late,
                   inputs, restarts>>

StopRelists(s) ==
    /\ stop[s].at = "listed"
    /\ LET p == stop[s].pane
           same == /\ AtPane(p)
                   /\ live[p] = stop[s].terminal
                   /\ Target(p) = [agent |-> stop[s].agent, expected |-> stop[s].expected]
       IN  stop' = [stop EXCEPT ![s] = IF same THEN [@ EXCEPT !.at = "relisted"] ELSE NoStop]
    /\ UNCHANGED <<paneVars, hubVars, queue, request, resume, astray, late,
                   bounds>>

(* paneClose, and the rows of what was listed.                             *)
StopCloses(s) ==
    /\ stop[s].at = "relisted"
    /\ Closes(stop[s].pane, stop[s].terminal)
    /\ route' = MarkedStale(route, {stop[s].agent})
    /\ record' = Deactivated(stop[s].pane)
    /\ stop' = [stop EXCEPT ![s].at = "closed"]
    /\ UNCHANGED <<retired, known, history, op, queue, request, resume, late,
                   bounds>>

StopRefreshes(s) ==
    /\ stop[s].at = "closed"
    /\ route' \in {route, Reconciled(PaneList)}
    /\ stop' = [stop EXCEPT ![s] = NoStop]
    /\ UNCHANGED <<paneVars, retired, known, history, op, record,
                   queue, request, resume, astray, late, bounds>>

StopFails(s) ==
    /\ stop[s].at \in {"listed", "relisted"}
    /\ stop' = [stop EXCEPT ![s] = NoStop]
    /\ UNCHANGED <<paneVars, hubVars, queue, request, resume, astray, late,
                   bounds>>

-----------------------------------------------------------------------------
(* Resume: a new pane for an identity whose route has ended.               *)

ResumeArrives(z, a) ==
    /\ commands < MaxCommands
    /\ resume[z].at = "idle"
    /\ a \in known
    /\ route[a].state = "stale"
    /\ route[a].terminal # None
    /\ commands' = commands + 1
    /\ resume' = [resume EXCEPT ![z] = [NoResume EXCEPT !.at = "list", !.agent = a,
                                                         !.was = route[a].terminal]]
    /\ UNCHANGED <<paneVars, hubVars, queue, request, stop, astray, late,
                   inputs, restarts>>

(* reissueAgentToken: every token issued before stops working.             *)
Reissues(z) ==
    /\ resume[z].at = "list"
    /\ live # <<>>
    /\ LET a == resume[z].agent IN
       IF a \in known
       THEN /\ env' = Revoked(a)
            /\ resume' = [y \in Resumes |->
                 IF y = z THEN [resume[z] EXCEPT !.at = "split", !.token = TRUE]
                 ELSE IF resume[y].agent = a THEN [resume[y] EXCEPT !.token = FALSE]
                 ELSE resume[y]]
       ELSE /\ resume' = [resume EXCEPT ![z] = NoResume]
            /\ UNCHANGED env
    /\ UNCHANGED <<herdrVars, label, opened, origin, hubVars, queue, request,
                   stop, astray, late, bounds>>

ResumeSplits(z) ==
    /\ resume[z].at = "split"
    /\ opened # Terminals
    /\ LET t == Fresh(Terminals \ opened) IN
          /\ Splits(t, IF resume[z].token /\ resume[z].agent \in known
                       THEN resume[z].agent ELSE None)
          /\ resume' = [resume EXCEPT ![z].at = "start", ![z].terminal = t,
                                      ![z].pane = Len(live) + 1]
    /\ UNCHANGED <<hubVars, queue, request, stop, astray, late, bounds>>

(* bindResumedAgent, with the role that the old terminal's record has.     *)
ResumeStarts(z) ==
    /\ resume[z].at = "start"
    /\ CanStart(resume[z].pane)
    /\ Starts(resume[z].pane, resume[z].agent, None)
    /\ \/ /\ resume[z].agent \in known
          /\ route' = Bound(resume[z].agent, resume[z].terminal, resume[z].pane, Harness)
          /\ record' = Registered(resume[z].pane, resume[z].terminal, resume[z].agent,
                                  RoleOf(resume[z].was))
          /\ resume' = [resume EXCEPT ![z] = NoResume]
       \/ /\ resume[z].agent \notin known
          /\ resume' = [resume EXCEPT ![z] = NoResume]
          /\ UNCHANGED <<route, record>>
       \/ /\ resume' = [resume EXCEPT ![z].at = "closing"]
          /\ UNCHANGED <<route, record>>
    /\ UNCHANGED <<retired, known, history, op, queue, request, stop, astray,
                   late, bounds>>

ResumeStartFails(z) ==
    /\ resume[z].at = "start"
    /\ resume' = [resume EXCEPT ![z].at = "closing"]
    /\ UNCHANGED <<paneVars, hubVars, queue, request, stop, astray, late, bounds>>

ResumeCloses(z) ==
    /\ resume[z].at = "closing"
    /\ Closes(resume[z].pane, resume[z].terminal)
    /\ resume' = [resume EXCEPT ![z] = NoResume]
    /\ UNCHANGED <<hubVars, queue, request, stop, late, bounds>>

(* No pane list, no workspace, no split, or no close.                      *)
ResumeFails(z) ==
    /\ resume[z].at \in {"list", "split", "closing"}
    /\ resume' = [resume EXCEPT ![z] = NoResume]
    /\ UNCHANGED <<paneVars, hubVars, queue, request, stop, astray, late, bounds>>

ResumeNext(z) ==
    \/ Reissues(z)
    \/ ResumeSplits(z)
    \/ ResumeStarts(z) \/ ResumeStartFails(z)
    \/ ResumeCloses(z)
    \/ ResumeFails(z)

-----------------------------------------------------------------------------
(* Everything else that writes the same state.                             *)

Refreshes ==
    /\ route' = Reconciled(PaneList)
    /\ UNCHANGED <<paneVars, retired, known, history, op, record,
                   queue, request, stop, resume, astray, late, bounds>>

(* A command of an agent, or of a person in the shell of its pane: the     *)
(* route follows it.  Sending or joining leaves history, reading does not. *)
AgentCalls(t) ==
    /\ inputs < MaxInputs
    /\ Exists(t)
    /\ env[t] # None
    /\ inputs' = inputs + 1
    /\ route' = Bound(env[t], t, PaneOf(t), kind[t])
    /\ history' \in {history, history \union {env[t]}}
    /\ late' = late \union {a \in {env[t]} : \E r \in Requests : RolledBackUnrouted(r, a)}
    /\ UNCHANGED <<paneVars, retired, known, op, record, queue, request, stop, resume,
                   astray, commands, restarts>>

(* A pane is closed, or its agent exits or is started again, by hand.      *)
PaneInput ==
    /\ inputs < MaxInputs
    /\ inputs' = inputs + 1
    /\ \E t \in Terminals :
          \/ PaneCloses(t)
          \/ \E k \in {None, Harness} : OccupantChanges(t, k)
    /\ UNCHANGED <<label, opened, env, origin, hubVars, queue, request, stop, resume,
                   astray, late, commands, restarts>>

(* The notifier: a ping that finds no agent ends the route, and a pass     *)
(* follows a moved pane.                                                   *)
NotifierWrites(a) ==
    /\ inputs < MaxInputs
    /\ a \in known
    /\ Active(a)
    /\ inputs' = inputs + 1
    /\ \/ route' = MarkedStale(route, {a})
       \/ /\ Exists(route[a].terminal)
          /\ route' = Healed(route, a, PaneOf(route[a].terminal))
    /\ UNCHANGED <<paneVars, retired, known, history, op, record, queue, request, stop,
                   resume, astray, late, commands, restarts>>

(* Requests die with the hub; the rows and the panes stay.  A restart in   *)
(* which nothing dies changes nothing.                                     *)
HubRestarts ==
    /\ restarts < MaxRestarts
    /\ \/ queue # <<>>
       \/ \E x \in Stops : stop[x].at # "idle"
       \/ \E z \in Resumes : resume[z].at # "idle"
    /\ restarts' = restarts + 1
    /\ queue' = <<>>
    /\ request' = [r \in Requests |-> NoRequest]
    /\ stop' = [s \in Stops |-> NoStop]
    /\ resume' = [z \in Resumes |-> NoResume]
    /\ UNCHANGED <<paneVars, hubVars, astray, late, commands, inputs>>

LifecycleNext ==
    \/ \E r \in Requests : RequestNext(r) \/ \E k \in Keys : Arrives(r, k)
    \/ \E s \in Stops : StopRelists(s) \/ StopCloses(s) \/ StopRefreshes(s) \/ StopFails(s)
                        \/ \E p \in PaneIds : StopLists(s, p)
    \/ \E z \in Resumes : ResumeNext(z) \/ \E a \in Agents : ResumeArrives(z, a)
    \/ Refreshes
    \/ \E t \in Terminals : AgentCalls(t)
    \/ \E a \in Agents : NotifierWrites(a)
    \/ PaneInput
    \/ HubRestarts

LifecycleSpec == LifecycleInit /\ [][LifecycleNext]_lifecycleVars

HolderNext == \E r \in Requests : RequestNext(r)

(* Every Herdr call has a timeout, so the request that holds the lock, the *)
(* only one that can, always takes its next step.                          *)
FairLifecycleSpec ==
    LifecycleSpec /\ WF_lifecycleVars(HolderNext)

-----------------------------------------------------------------------------
Runs(t) == Exists(t) /\ kind[t] = Harness

(* A retried spawn continues the first one: unless a close went astray, no *)
(* operation key ever has two agents running, whatever answers were lost,  *)
(* however often the request was sent and the hub restarted.               *)
OneAgentPerKey ==
    \A k \in Keys : \A t, u \in Terminals :
        (Runs(t) /\ Runs(u) /\ origin[t] = k /\ origin[u] = k /\ ~astray) => t = u

(* The rollback of a spawn never takes the identity from an agent that a   *)
(* spawn started and that still runs: a close that fails keeps both.       *)
NobodyIsOrphaned ==
    \A t \in Terminals :
        (Runs(t) /\ origin[t] # None /\ ~astray) => label[t] \in known

(* A rollback that reports the pane closed has left nothing else: the      *)
(* identity is gone too, unless it has left history, or a resume has given *)
(* it a new token meanwhile, for another pane, or the agent first made     *)
(* itself known while the rollback waited for Herdr, which decides by the  *)
(* row that it read before.                                                *)
ClosedLeavesNothing ==
    \A k \in Keys :
        (op[k].status = "failed" /\ op[k].cleanup = "closed" /\ ~astray)
            => \/ op[k].agent = None
               \/ op[k].agent \in history
               \/ op[k].agent \in late
               \/ env[op[k].terminal] # op[k].agent

(* "Automatic msgr access is a startup invariant for every agent that      *)
(* Sheppard starts" (product-definition.md:116): the agent that an active  *)
(* route leads to holds a token that works.  Not checked by a run: with    *)
(* two resumes of one identity it fails, as the second reissues the token  *)
(* of the agent that the first has started (README.md).                    *)
StartedAgentsHaveAccess ==
    \A a \in Agents : \A t \in Terminals :
        (a \in known /\ Active(a) /\ route[a].terminal = t /\ Runs(t) /\ label[t] = a)
            => env[t] = a

(* Every spawn request is answered: the lock of the workspace comes free   *)
(* again, whichever early return, failure or rollback each holder takes.   *)
RequestsAreAnswered == (queue # <<>>) ~> (queue = <<>>)

=============================================================================
