-------------------------- MODULE LifecycleProofs ---------------------------
(***************************************************************************)
(* What spawns, stops and resumes keep, however many of them overlap and   *)
(* however often the hub restarts: types, one agent for an operation key,  *)
(* no running agent without an identity, and nothing left of a spawn whose *)
(* rollback has closed the pane.                                           *)
(***************************************************************************)
EXTENDS Lifecycle, RoutesProofs, FiniteSetTheorems

(* A working request holds the lock and is not waiting for it any more.    *)
Works(r) == request[r].at \notin {"idle", "queued"}

Serial ==
    /\ \A i, j \in DOMAIN queue : queue[i] = queue[j] => i = j
    /\ \A i \in DOMAIN queue : request[queue[i]].at # "idle"
    /\ \A r \in Requests : Works(r) => Holds(r)
    /\ \A r \in Requests : request[r].at # "idle" => request[r].key \in Keys

(* Terminal t was the pane p once, and closing panes only moved it down.   *)
Placed(t, p) ==
    /\ t \in opened
    /\ p \in PaneIds
    /\ \A i \in DOMAIN live : live[i] = t => i <= p

PaneTypes ==
    /\ HerdrTypeOK
    /\ label \in [Terminals -> Agents \union {None}]
    /\ opened \subseteq Terminals
    /\ env \in [Terminals -> Agents \union {None}]
    /\ origin \in [Terminals -> Keys \union {None}]
    /\ \A i \in DOMAIN live : live[i] \in opened
    /\ \A t \in Terminals \ opened : origin[t] = None

RouteTypes ==
    /\ retired \subseteq Participants
    /\ known \subseteq Agents
    /\ route \in [Agents -> Route]
    /\ OneActivePerTerminal

RowTypes ==
    /\ history \subseteq Agents
    /\ op \in [Keys -> Op]
    /\ record \in [PaneIds -> Record]

TaskTypes ==
    /\ queue \in Seq(Requests)
    /\ request \in [Requests -> Request]
    /\ stop \in [Stops -> Stop]
    /\ resume \in [Resumes -> Resume]
    /\ \A z \in Resumes : resume[z].at \in {"start", "closing"} =>
          resume[z].terminal \in Terminals /\ resume[z].pane \in PaneIds

CountTypes ==
    /\ astray \in BOOLEAN
    /\ commands \in 0..MaxCommands
    /\ inputs \in 0..MaxInputs
    /\ restarts \in 0..MaxRestarts

LifecycleTypes ==
    PaneTypes /\ RouteTypes /\ RowTypes /\ TaskTypes /\ CountTypes /\ late \subseteq Agents

(* What a row of an operation says, whatever became of its pane.           *)
OpSound(k) ==
    /\ op[k].status = "absent" => op[k] = AbsentOp
    /\ op[k].cleanup = "closed" => op[k].status = "failed" /\ op[k].pane # 0
    /\ (op[k].pane = 0) <=> (op[k].terminal = None)
    /\ op[k].terminal # None => Placed(op[k].terminal, op[k].pane)
    /\ op[k].agent \in {None, op[k].handle}
    /\ op[k].agent # None => op[k].agent \in known
    /\ \A l \in Keys : (op[l].agent = op[k].agent /\ op[k].agent # None) => l = k

(* What the row says while a request works on it.                          *)
RowFits(r) ==
    LET o == op[request[r].key] at == request[r].at IN
    /\ Works(r) => o.cleanup # "closed"
    /\ at = "topology" => o.pane = 0 /\ o.agent = None
    /\ at \in {"split", "splitting"} => o.pane = 0 /\ o.agent # None
    /\ at = "splitting" => Placed(request[r].terminal, request[r].pane)
    /\ at = "start" => o.pane # 0 /\ o.agent # None
    /\ at \in {"cleanup", "closing"} => o.status = "failed"
    /\ at = "closing" => o.pane # 0

Ops == (\A k \in Keys : OpSound(k)) /\ (\A r \in Requests : RowFits(r))

(* Only identities that exist have tokens, routes and records.             *)
Rows ==
    /\ retired = {}
    /\ \A t \in Terminals : env[t] # None => env[t] \in known
    /\ \A a \in Agents : route[a].terminal # None => a \in known
    /\ \A p \in PaneIds : record[p].agent # None => route[record[p].agent].terminal # None

(* The pane that a spawn has split, from the split on.                     *)
Shell(k, t, p) ==
    \/ t = op[k].terminal /\ p = op[k].pane /\ t # None
    \/ \E r \in Requests : /\ request[r].at = "splitting" /\ request[r].key = k
                           /\ t = request[r].terminal /\ p = request[r].pane

(* As long as the token of the split works, no resume of the identity has  *)
(* got beyond its list, and its route and record are those of the split.   *)
Settled(a, t, p) ==
    env[t] = a =>
        /\ \A u \in Terminals : env[u] = a => u = t
        /\ \A z \in Resumes : resume[z].agent = a => resume[z].at = "list"
        /\ route[a].terminal \in {None, t}
        /\ (route[a].terminal = t /\ AtPane(p) /\ live[p] = t) => route[a].pane = p
        /\ \A q \in PaneIds : record[q].agent = a => q = p

Newborn(a) ==
    /\ \A u \in Terminals : env[u] # a
    /\ \A z \in Resumes : resume[z].agent # a
    /\ route[a].terminal = None
    /\ \A q \in PaneIds : record[q].agent # a

Shells ==
    /\ \A k \in Keys : \A t \in Terminals : \A p \in PaneIds :
          (Shell(k, t, p) /\ op[k].agent # None) => Settled(op[k].agent, t, p)
    /\ \A r \in Requests : request[r].at = "split" => Newborn(op[request[r].key].agent)

(* What is known of an agent that a spawn of key k has started in u.       *)
StartedBy(k, u) ==
    /\ op[k].pane # 0
    /\ op[k].cleanup # "closed"
    /\ \A r \in Requests : request[r].key = k => request[r].at # "start"
    /\ (AtPane(op[k].pane) /\ live[op[k].pane] = op[k].terminal) => u = op[k].terminal
    /\ \A t \in Terminals : (Exists(t) /\ origin[t] = k) => t = u
    /\ label[u] = op[k].handle
    /\ label[u] \in known
    /\ \A l \in Keys : op[l].agent = label[u] => l = k

Started ==
    ~astray => \A u \in Terminals :
        (Exists(u) /\ origin[u] # None) => StartedBy(origin[u], u)

(* A rollback that did not own the route of its identity had found none,   *)
(* and as long as the pane and its token are there, only a call from it    *)
(* makes one.                                                              *)
RollsBack(r) ==
    LET o == op[request[r].key] IN
    (/\ request[r].at \in {"cleanup", "closing"} /\ ~request[r].own
     /\ o.agent # None /\ AtPane(o.pane) /\ live[o.pane] = o.terminal
     /\ env[o.terminal] = o.agent)
        => route[o.agent].terminal = None \/ o.agent \in late

Rollbacks == \A r \in Requests : RollsBack(r)

LifecycleInv ==
    LifecycleTypes /\ Serial /\ Ops /\ Rows /\ Shells /\ Rollbacks /\ Started
    /\ ClosedLeavesNothing

-----------------------------------------------------------------------------
(* Panes.                                                                  *)

LEMMA FreshIn ==
    ASSUME NEW S, S # {}
    PROVE  Fresh(S) \in S
BY DEF Fresh

(* A workspace that lacks a terminal has a pane id left for it.            *)
LEMMA PanesFit ==
    ASSUME HerdrTypeOK, IsFiniteSet(Terminals)
    PROVE  /\ DOMAIN live \subseteq PaneIds
           /\ \A t \in Terminals : ~Exists(t) => Len(live) + 1 \in PaneIds
           /\ PaneIds \subseteq Nat \ {0}
<1> DEFINE n == Cardinality(Terminals)
<1>1. live \in Seq(Terminals) /\ Len(live) \in Nat /\ DOMAIN live = 1..Len(live)
    BY DEF HerdrTypeOK
<1>2. n \in Nat
    BY FS_CardinalityType
<1>3. live \in Injection(1..Len(live), Terminals)
    BY <1>1 DEF HerdrTypeOK, Injection, IsInjective
<1>4. Cardinality(1..Len(live)) = Len(live) /\ IsFiniteSet(1..Len(live))
    BY <1>1, FS_Interval
<1>5. Len(live) <= n
    BY <1>3, <1>4, FS_Injection
<1>6. ASSUME NEW t \in Terminals, ~Exists(t)
      PROVE  Len(live) # n
    <2>1. live \notin Surjection(1..Len(live), Terminals)
        BY <1>1, <1>6 DEF Surjection, Exists
    <2> QED
        BY <1>3, <1>4, <2>1, FS_Injection
<1> QED
    BY <1>1, <1>2, <1>5, <1>6 DEF PaneIds

(* Herdr keeps the terminals it has, and closing panes moves them down.    *)
Falls ==
    \A i \in DOMAIN live' :
        \/ live'[i] \notin opened
        \/ \E j \in DOMAIN live : live[j] = live'[i] /\ i <= j

LEMMA SameFalls ==
    ASSUME HerdrTypeOK, live' = live
    PROVE  Falls
BY DEF HerdrTypeOK, Falls

LEMMA OpensFalls ==
    ASSUME HerdrTypeOK, NEW t \in Terminals \ opened, NEW k, PaneOpens(t, k)
    PROVE  Falls
<1>1. live \in Seq(Terminals) /\ Len(live) \in Nat /\ DOMAIN live = 1..Len(live)
      /\ live' = Append(live, t)
    BY DEF HerdrTypeOK, PaneOpens
<1>2. /\ DOMAIN live' = 1..(Len(live) + 1)
      /\ \A i \in 1..Len(live) : live'[i] = live[i]
      /\ live'[Len(live) + 1] = t
    BY <1>1
<1> QED
    BY <1>1, <1>2 DEF Falls

LEMMA ClosesFalls ==
    ASSUME HerdrTypeOK, NEW t, PaneCloses(t)
    PROVE  /\ Falls
           /\ \A u : Exists(u)' => Exists(u) /\ u # t
           /\ \A i \in DOMAIN live' : live'[i] \in {live[j] : j \in DOMAIN live}
<1>1. /\ live \in Seq(Terminals) /\ Len(live) \in Nat /\ DOMAIN live = 1..Len(live)
      /\ \A i, j \in 1..Len(live) : live[i] = live[j] => i = j
    BY DEF HerdrTypeOK
<1>2. PaneOf(t) \in 1..Len(live) /\ live[PaneOf(t)] = t
    BY <1>1, PaneOfPlace DEF PaneCloses
<1> DEFINE n == Len(live) - 1
<1>3. /\ n \in Nat /\ DOMAIN live' = 1..n
      /\ \A i \in 1..n : live'[i] = IF i < PaneOf(t) THEN live[i] ELSE live[i + 1]
    BY <1>1, <1>2 DEF PaneCloses
<1>4. ASSUME NEW i \in 1..n
      PROVE  \E j \in 1..Len(live) : live[j] = live'[i] /\ i <= j /\ j # PaneOf(t)
    <2>1. CASE i < PaneOf(t)
        BY <1>1, <1>2, <1>3, <2>1
    <2>2. CASE ~(i < PaneOf(t))
        BY <1>1, <1>2, <1>3, <2>2
    <2> QED
        BY <2>1, <2>2
<1>5. ASSUME NEW u, Exists(u)'
      PROVE  Exists(u) /\ u # t
    <2>1. PICK i \in 1..n : live'[i] = u
        BY <1>3, <1>5 DEF Exists
    <2>2. PICK j \in 1..Len(live) : live[j] = u /\ j # PaneOf(t)
        BY <1>4, <2>1
    <2> QED
        BY <1>1, <1>2, <2>2 DEF Exists
<1>6. Falls
    BY <1>1, <1>3, <1>4 DEF Falls
<1> QED
    BY <1>1, <1>3, <1>4, <1>5, <1>6

LEMMA PlacedFalls ==
    ASSUME Falls, HerdrTypeOK, HerdrTypeOK', opened \subseteq opened', NEW t, NEW p, Placed(t, p),
           IsFiniteSet(Terminals)
    PROVE  /\ Placed(t, p)'
           /\ (AtPane(p)' /\ live'[p] = t) => AtPane(p) /\ live[p] = t
<1>1. /\ DOMAIN live \subseteq Nat /\ DOMAIN live' \subseteq Nat /\ p \in Nat
    BY PanesFit DEF HerdrTypeOK, Placed
<1>2. \A i \in DOMAIN live' : live'[i] = t =>
          \E j \in DOMAIN live : live[j] = t /\ i <= j /\ j <= p
    BY DEF Falls, Placed
<1> QED
    BY <1>1, <1>2 DEF Placed, AtPane, PaneIds

LEMMA TypesSuffice ==
    LifecycleTypes => LifecycleTypeOK
BY DEF LifecycleTypes, PaneTypes, RouteTypes, RowTypes, TaskTypes, CountTypes,
       LifecycleTypeOK, RoutesTypeOK

(* What each change of panes keeps.                                        *)
PanesKept == PaneTypes' /\ Falls /\ opened \subseteq opened' /\ (astray => astray')

LEMMA PanesUnchanged ==
    ASSUME PaneTypes, UNCHANGED <<herdrVars, label, opened, origin, astray>>,
           env' \in [Terminals -> Agents \union {None}]
    PROVE  PanesKept
BY SameFalls DEF PaneTypes, PanesKept, herdrVars, HerdrTypeOK

LEMMA SplitsKeeps ==
    ASSUME PaneTypes, NEW t \in Terminals \ opened, NEW a \in Agents \union {None},
           Splits(t, a), astray' = astray
    PROVE  PanesKept
<1>1. PaneOpens(t, None)
    BY DEF Splits
<1>2. HerdrTypeOK'
    BY <1>1, HerdrStep DEF PaneTypes
<1>3. Falls
    BY <1>1, OpensFalls DEF PaneTypes
<1>4. \A i \in DOMAIN live' : live'[i] \in opened'
    <2>1. live \in Seq(Terminals) /\ DOMAIN live = 1..Len(live) /\ live' = Append(live, t)
          /\ Len(live) \in Nat /\ opened' = opened \union {t}
        BY DEF PaneTypes, HerdrTypeOK, Splits, PaneOpens
    <2>2. \A i \in DOMAIN live' : live'[i] = t \/ (i \in DOMAIN live /\ live'[i] = live[i])
        BY <2>1
    <2> QED
        BY <2>1, <2>2 DEF PaneTypes
<1>5. /\ opened' \subseteq Terminals
      /\ opened \subseteq opened'
      /\ env' \in [Terminals -> Agents \union {None}]
      /\ label' = label /\ origin' = origin
    BY DEF PaneTypes, Splits
<1> QED
    BY <1>2, <1>3, <1>4, <1>5 DEF PaneTypes, PanesKept

LEMMA StartsKeeps ==
    ASSUME LifecycleAssumption, PaneTypes, NEW p, NEW a \in Agents \union {None},
           NEW k \in Keys \union {None}, CanStart(p), Starts(p, a, k), astray' = astray
    PROVE  PanesKept
<1>1. live[p] \in Terminals
    BY DEF CanStart, AtPane, PaneTypes, HerdrTypeOK
<1>2. HerdrTypeOK'
    BY <1>1 DEF PaneTypes, HerdrTypeOK, Starts, LifecycleAssumption
<1>3. Falls
    BY SameFalls DEF PaneTypes, Starts
<1>4. live[p] \in opened
    BY DEF CanStart, AtPane, PaneTypes
<1>5. /\ label' \in [Terminals -> Agents \union {None}]
      /\ origin' \in [Terminals -> Keys \union {None}]
      /\ \A t \in Terminals \ opened : origin'[t] = None
    BY <1>1, <1>4 DEF PaneTypes, Starts
<1> QED
    BY <1>2, <1>3, <1>5 DEF PaneTypes, PanesKept, Starts

LEMMA ClosesKeeps ==
    ASSUME PaneTypes, NEW t \in Terminals, PaneCloses(t), UNCHANGED <<label, opened, origin>>,
           env' \in [Terminals -> Agents \union {None}], astray => astray'
    PROVE  PanesKept
<1>1. HerdrTypeOK' /\ Falls
    BY HerdrStep, ClosesFalls DEF PaneTypes
<1>2. \A i \in DOMAIN live' : live'[i] \in opened
    BY ClosesFalls DEF PaneTypes
<1> QED
    BY <1>1, <1>2 DEF PaneTypes, PanesKept

LEMMA RequestTyped ==
    ASSUME LifecycleTypes, Serial, NEW r \in Requests, request[r].at # "idle"
    PROVE  /\ RequestOf(r) \in Keys /\ request[r].key \in Keys
           /\ OpOf(r) \in Op
           /\ request[r] \in Request
BY DEF LifecycleTypes, RowTypes, TaskTypes, Serial, RequestOf, OpOf

LEMMA RevokedTyped ==
    ASSUME PaneTypes, NEW a
    PROVE  Revoked(a) \in [Terminals -> Agents \union {None}]
BY DEF PaneTypes, Revoked

LEMMA RequestPanes ==
    ASSUME LifecycleAssumption, LifecycleTypes, Serial, NEW r \in Requests, RequestNext(r)
    PROVE  PanesKept
<1> USE DEF LifecycleTypes
<1>1. ASSUME UNCHANGED <<paneVars, astray>>
      PROVE  PanesKept
    BY <1>1, PanesUnchanged DEF paneVars, PaneTypes
<1>2. CASE Begins(r) \/ Prepares(r) \/ Unprepared(r) \/ SplitAnswered(r) \/ SplitFails(r)
    BY <1>1, <1>2 DEF Begins, Prepares, Unprepared, SplitAnswered, SplitFails
<1>3. CASE StartFails(r) \/ BindRoute(r) \/ BindFails(r) \/ Briefs(r) \/ Commits(r)
           \/ ConfirmFails(r) \/ RefreshesForSpawn(r) \/ ListsForCleanup(r) \/ CleanupFails(r)
    BY <1>1, <1>3 DEF StartFails, BindRoute, BindFails, Briefs, Commits, ConfirmFails,
                      RefreshesForSpawn, ListsForCleanup, CleanupFails
<1>4. CASE SplitPane(r)
    <2>1. Fresh(Terminals \ opened) \in Terminals \ opened
        <3>1. opened # Terminals /\ opened \subseteq Terminals
            BY <1>4 DEF SplitPane, PaneTypes
        <3>2. Terminals \ opened # {}
            BY <3>1
        <3> QED
            BY <3>2, FreshIn
    <2>2. OpOf(r).agent \in Agents \union {None}
        BY <1>4, RequestTyped DEF SplitPane, Op
    <2>3. Splits(Fresh(Terminals \ opened), OpOf(r).agent) /\ astray' = astray
        BY <1>4 DEF SplitPane
    <2> QED
        BY <2>1, <2>2, <2>3, SplitsKeeps
<1>5. CASE StartAgent(r)
    <2>1. OpOf(r).handle \in Agents \union {None} /\ RequestOf(r) \in Keys
        BY <1>5, RequestTyped DEF StartAgent, Op
    <2>2. /\ CanStart(OpOf(r).pane)
          /\ Starts(OpOf(r).pane, OpOf(r).handle, RequestOf(r))
          /\ astray' = astray
        BY <1>5 DEF StartAgent
    <2> QED
        BY <2>1, <2>2, StartsKeeps
<1>6. CASE RemovesUnbound(r)
    <2>1. env' \in {env, Revoked(OpOf(r).agent)}
        BY <1>6 DEF RemovesUnbound, Deleted
    <2>2. UNCHANGED <<herdrVars, label, opened, origin, astray>>
        BY <1>6 DEF RemovesUnbound
    <2> QED
        BY <2>1, <2>2, RevokedTyped, PanesUnchanged DEF PaneTypes
<1>7. CASE ClosesSpawn(r)
    <2>1. PaneCloses(live[OpOf(r).pane]) /\ live[OpOf(r).pane] \in Terminals
        BY <1>7 DEF ClosesSpawn, AtPane, PaneTypes, HerdrTypeOK
    <2>2. env' \in {env, Revoked(OpOf(r).agent)}
        BY <1>7 DEF ClosesSpawn, Deleted
    <2>3. UNCHANGED <<label, opened, origin>> /\ (astray => astray')
        BY <1>7 DEF ClosesSpawn
    <2> QED
        BY <2>1, <2>2, <2>3, RevokedTyped, ClosesKeeps DEF PaneTypes
<1> QED
    BY <1>2, <1>3, <1>4, <1>5, <1>6, <1>7 DEF RequestNext

LEMMA ResumePanes ==
    ASSUME LifecycleAssumption, LifecycleTypes, Serial, NEW z \in Resumes, ResumeNext(z)
    PROVE  PanesKept
<1> USE DEF LifecycleTypes
<1>1. ASSUME UNCHANGED <<paneVars, astray>>
      PROVE  PanesKept
    BY <1>1, PanesUnchanged DEF paneVars, PaneTypes
<1>2. resume[z] \in Resume
    BY DEF TaskTypes
<1>3. CASE Reissues(z)
    <2>1. env' \in {env, Revoked(resume[z].agent)}
        BY <1>3 DEF Reissues
    <2>2. UNCHANGED <<herdrVars, label, opened, origin, astray>>
        BY <1>3 DEF Reissues
    <2> QED
        BY <2>1, <2>2, RevokedTyped, PanesUnchanged DEF PaneTypes
<1>4. CASE ResumeSplits(z)
    <2>1. Fresh(Terminals \ opened) \in Terminals \ opened
        <3>1. opened # Terminals /\ opened \subseteq Terminals
            BY <1>4 DEF ResumeSplits, PaneTypes
        <3>2. Terminals \ opened # {}
            BY <3>1
        <3> QED
            BY <3>2, FreshIn
    <2>2. PICK a \in Agents \union {None} : Splits(Fresh(Terminals \ opened), a)
        BY <1>2, <1>4 DEF ResumeSplits, Resume
    <2>3. astray' = astray
        BY <1>4 DEF ResumeSplits
    <2> QED
        BY <2>1, <2>2, <2>3, SplitsKeeps
<1>5. CASE ResumeStarts(z)
    <2>1. /\ CanStart(resume[z].pane)
          /\ Starts(resume[z].pane, resume[z].agent, None)
          /\ astray' = astray
        BY <1>5 DEF ResumeStarts
    <2>2. resume[z].agent \in Agents \union {None}
        BY <1>2 DEF Resume
    <2> QED
        BY <2>1, <2>2, StartsKeeps
<1>6. CASE ResumeStartFails(z) \/ ResumeFails(z)
    BY <1>1, <1>6 DEF ResumeStartFails, ResumeFails
<1>7. CASE ResumeCloses(z)
    <2>1. PaneCloses(live[resume[z].pane]) /\ live[resume[z].pane] \in Terminals
        BY <1>7 DEF ResumeCloses, Closes, AtPane, PaneTypes, HerdrTypeOK
    <2>2. UNCHANGED <<label, opened, origin, env>> /\ (astray => astray')
        BY <1>7 DEF ResumeCloses, Closes
    <2> QED
        BY <2>1, <2>2, ClosesKeeps DEF PaneTypes
<1> QED
    BY <1>3, <1>4, <1>5, <1>6, <1>7 DEF ResumeNext

StopNext(s) ==
    StopRelists(s) \/ StopCloses(s) \/ StopRefreshes(s) \/ StopFails(s)
    \/ \E p \in PaneIds : StopLists(s, p)

LEMMA PanesStep ==
    ASSUME LifecycleAssumption, LifecycleTypes, Serial, LifecycleNext
    PROVE  PanesKept
<1> USE DEF LifecycleTypes
<1>1. ASSUME UNCHANGED <<paneVars, astray>>
      PROVE  PanesKept
    BY <1>1, PanesUnchanged DEF paneVars, PaneTypes
<1>2. ASSUME NEW s \in Stops, StopNext(s)
      PROVE  PanesKept
    <2>1. CASE StopCloses(s)
        <3>1. PaneCloses(live[stop[s].pane]) /\ live[stop[s].pane] \in Terminals
            BY <2>1 DEF StopCloses, Closes, AtPane, PaneTypes, HerdrTypeOK
        <3>2. UNCHANGED <<label, opened, origin, env>> /\ (astray => astray')
            BY <2>1 DEF StopCloses, Closes
        <3> QED
            BY <3>1, <3>2, ClosesKeeps DEF PaneTypes
    <2>2. CASE StopRelists(s) \/ StopRefreshes(s) \/ StopFails(s)
        BY <1>1, <2>2 DEF StopRelists, StopRefreshes, StopFails
    <2>3. CASE \E p \in PaneIds : StopLists(s, p)
        BY <1>1, <2>3 DEF StopLists
    <2> QED
        BY <1>2, <2>1, <2>2, <2>3 DEF StopNext
<1>3. ASSUME NEW r \in Requests, NEW k \in Keys, Arrives(r, k)
      PROVE  PanesKept
    BY <1>1, <1>3 DEF Arrives
<1>4. ASSUME NEW z \in Resumes, NEW a \in Agents, ResumeArrives(z, a)
      PROVE  PanesKept
    BY <1>1, <1>4 DEF ResumeArrives
<1>5. ASSUME NEW t \in Terminals, AgentCalls(t)
      PROVE  PanesKept
    BY <1>1, <1>5 DEF AgentCalls
<1>6. ASSUME NEW a \in Agents, NotifierWrites(a)
      PROVE  PanesKept
    BY <1>1, <1>6 DEF NotifierWrites
<1>7. CASE Refreshes \/ HubRestarts
    BY <1>1, <1>7 DEF Refreshes, HubRestarts
<1>8. CASE PaneInput
    <2>1. UNCHANGED <<label, opened, env, origin, astray>>
        BY <1>8 DEF PaneInput
    <2>2. ASSUME NEW t \in Terminals, PaneCloses(t)
          PROVE  PanesKept
        BY <2>1, <2>2, ClosesKeeps DEF PaneTypes
    <2>3. ASSUME NEW t \in Terminals, NEW k \in {None, Harness}, OccupantChanges(t, k)
          PROVE  PanesKept
        <3>1. HerdrTypeOK'
            BY <2>3, HerdrStep DEF PaneTypes, LifecycleAssumption
        <3>2. live' = live
            BY <2>3 DEF OccupantChanges
        <3>3. Falls
            BY <3>2, SameFalls DEF PaneTypes
        <3> QED
            BY <2>1, <3>1, <3>2, <3>3 DEF PaneTypes, PanesKept
    <2> QED
        BY <1>8, <2>2, <2>3 DEF PaneInput
<1> QED
    BY <1>2, <1>3, <1>4, <1>5, <1>6, <1>7, <1>8, RequestPanes, ResumePanes
    DEF LifecycleNext, StopNext

-----------------------------------------------------------------------------
(* Routes.                                                                 *)

RoutesKept == RouteTypes' /\ retired' = retired

LEMMA RoutesTyped ==
    ASSUME LifecycleTypes
    PROVE  /\ RoutesTypeOK /\ OneActivePerTerminal
           /\ PaneList \in SUBSET PaneRecord
BY PaneListType DEF LifecycleTypes, PaneTypes, RouteTypes, RoutesTypeOK

LEMMA RoutesUnchanged ==
    ASSUME LifecycleTypes, retired' = retired, route' = route, known' \subseteq Agents
    PROVE  RoutesKept
BY DEF LifecycleTypes, RouteTypes, RoutesKept, OneActivePerTerminal, Active

LEMMA RoutesReconciled ==
    ASSUME LifecycleTypes, retired' = retired, route' = Reconciled(PaneList),
           known' \subseteq Agents
    PROVE  RoutesKept
<1>1. route' \in [Agents -> Route] /\ OneActivePerTerminal'
    BY RoutesTyped, ReconciledKeeps
<1> QED
    BY <1>1 DEF LifecycleTypes, RouteTypes, RoutesKept

LEMMA RoutesBound ==
    ASSUME LifecycleTypes, retired' = retired, known' = known, LifecycleAssumption,
           NEW a \in Agents, NEW t \in Terminals, NEW p \in Nat, NEW k \in Kinds \union {None},
           route' = Bound(a, t, p, k)
    PROVE  RoutesKept
<1>1. route' \in [Agents -> Route] /\ OneActivePerTerminal'
    BY RoutesTyped, BoundKeeps
<1> QED
    BY <1>1 DEF LifecycleTypes, RouteTypes, RoutesKept

LEMMA RoutesStale ==
    ASSUME LifecycleTypes, retired' = retired, known' = known, NEW S,
           route' = MarkedStale(route, S)
    PROVE  RoutesKept
<1>1. route' \in [Agents -> Route] /\ OneActivePerTerminal'
    BY RoutesTyped, MarkedStaleKeeps
<1> QED
    BY <1>1 DEF LifecycleTypes, RouteTypes, RoutesKept

LEMMA RoutesHealed ==
    ASSUME LifecycleTypes, retired' = retired, known' = known,
           NEW a \in Agents, NEW p \in Nat, route' = Healed(route, a, p)
    PROVE  RoutesKept
<1>1. route' \in [Agents -> Route] /\ OneActivePerTerminal'
    BY RoutesTyped, HealedKeeps
<1> QED
    BY <1>1 DEF LifecycleTypes, RouteTypes, RoutesKept

LEMMA RoutesDeleted ==
    ASSUME LifecycleTypes, retired' = retired, NEW a, Deleted(a)
    PROVE  RoutesKept
<1>1. route' = [route EXCEPT ![a] = Unrouted] /\ known' = known \ {a}
    BY DEF Deleted
<1>2. Unrouted \in Route
    BY DEF Unrouted, Route
<1>3. route' \in [Agents -> Route]
    BY <1>1, <1>2 DEF LifecycleTypes, RouteTypes
<1>4. \A x \in Agents : route'[x] = route[x] \/ route'[x].terminal = None
    BY <1>1 DEF LifecycleTypes, RouteTypes, Unrouted
<1>5. OneActivePerTerminal'
    BY <1>4, RoutesTyped, NoneActivated DEF Active
<1> QED
    BY <1>1, <1>3, <1>5 DEF LifecycleTypes, RouteTypes, RoutesKept

LEMMA RequestRoutes ==
    ASSUME LifecycleAssumption, LifecycleTypes, Serial, NEW r \in Requests, RequestNext(r)
    PROVE  RoutesKept
<1>0. known \subseteq Agents
    BY DEF LifecycleTypes, RouteTypes
<1>1. CASE Begins(r) \/ Unprepared(r) \/ SplitPane(r) \/ SplitAnswered(r) \/ SplitFails(r)
    BY <1>0, <1>1, RoutesUnchanged
    DEF Begins, Unprepared, SplitPane, SplitAnswered, SplitFails, hubVars
<1>2. CASE StartAgent(r) \/ StartFails(r) \/ BindFails(r) \/ Briefs(r) \/ ConfirmFails(r)
           \/ ListsForCleanup(r) \/ CleanupFails(r)
    BY <1>0, <1>2, RoutesUnchanged
    DEF StartAgent, StartFails, BindFails, Briefs, ConfirmFails, ListsForCleanup, CleanupFails
<1>3. CASE Prepares(r)
    <2>1. retired' = retired /\ route' = Reconciled(PaneList)
        BY <1>3 DEF Prepares
    <2>2. known' \subseteq Agents
        <3>1. known' = known \/ (Unused # {} /\ known' = known \union {Fresh(Unused)})
            BY <1>3 DEF Prepares
        <3>2. Unused # {} => Fresh(Unused) \in Unused
            BY FreshIn
        <3> QED
            BY <1>0, <3>1, <3>2 DEF Unused
    <2> QED
        BY <2>1, <2>2, RoutesReconciled
<1>4. CASE BindRoute(r)
    <2>1. PICK o : o = OpOf(r)
        OBVIOUS
    <2>2. /\ PaneMatches(o, request[r].mode = "retry")
          /\ route' = Bound(o.agent, o.terminal, o.pane, Harness)
          /\ retired' = retired /\ known' = known
        BY <1>4, <2>1 DEF BindRoute
    <2>3. o \in Op
        BY <1>4, <2>1, RequestTyped DEF BindRoute
    <2>4. o.agent \in Agents /\ o.terminal \in Terminals /\ o.pane \in Nat
        BY <2>2, <2>3, PanesFit
        DEF PaneMatches, Op, AtPane, LifecycleTypes, PaneTypes, HerdrTypeOK, LifecycleAssumption
    <2> QED
        BY <2>2, <2>4, RoutesBound DEF LifecycleAssumption
<1>5. CASE Commits(r)
    BY <1>0, <1>5, RoutesReconciled DEF Commits
<1>6. CASE RefreshesForSpawn(r)
    BY <1>0, <1>6, RoutesReconciled, RoutesUnchanged DEF RefreshesForSpawn
<1>7. CASE RemovesUnbound(r)
    <2>1. retired' = retired
        BY <1>7 DEF RemovesUnbound
    <2>2. Deleted(OpOf(r).agent) \/ UNCHANGED <<known, route>>
        BY <1>7 DEF RemovesUnbound
    <2> QED
        BY <1>0, <2>1, <2>2, RoutesDeleted, RoutesUnchanged
<1>8. CASE ClosesSpawn(r)
    <2>1. retired' = retired
        BY <1>8 DEF ClosesSpawn
    <2>2. \/ Deleted(OpOf(r).agent)
          \/ UNCHANGED <<known, route>>
          \/ known' = known /\ route' = StaleOwn(OpOf(r), request[r].own)
        BY <1>8 DEF ClosesSpawn
    <2>3. StaleOwn(OpOf(r), request[r].own) \in {route, MarkedStale(route, {OpOf(r).agent})}
        BY DEF StaleOwn
    <2> QED
        BY <1>0, <2>1, <2>2, <2>3, RoutesDeleted, RoutesUnchanged, RoutesStale
<1> QED
    BY <1>1, <1>2, <1>3, <1>4, <1>5, <1>6, <1>7, <1>8 DEF RequestNext

LEMMA RoutesStep ==
    ASSUME LifecycleAssumption, LifecycleTypes, Serial, LifecycleNext
    PROVE  RoutesKept
<1>0. known \subseteq Agents
    BY DEF LifecycleTypes, RouteTypes
<1>1. ASSUME UNCHANGED <<retired, known, route>>
      PROVE  RoutesKept
    BY <1>0, <1>1, RoutesUnchanged
<1>2. ASSUME NEW z \in Resumes, ResumeNext(z)
      PROVE  RoutesKept
    <2>1. CASE Reissues(z) \/ ResumeSplits(z) \/ ResumeStartFails(z) \/ ResumeCloses(z)
               \/ ResumeFails(z)
        BY <1>1, <2>1
        DEF Reissues, ResumeSplits, ResumeStartFails, ResumeCloses, ResumeFails, hubVars
    <2>2. CASE ResumeStarts(z)
        <3>1. retired' = retired /\ known' = known
            BY <2>2 DEF ResumeStarts
        <3>2. \/ route' = route
              \/ /\ resume[z].agent \in known
                 /\ route' = Bound(resume[z].agent, resume[z].terminal, resume[z].pane, Harness)
            BY <2>2 DEF ResumeStarts
        <3>3. resume[z].terminal \in Terminals /\ resume[z].pane \in PaneIds
            BY <2>2 DEF ResumeStarts, LifecycleTypes, TaskTypes
        <3>4. resume[z].pane \in Nat
            BY <3>3 DEF PaneIds
        <3> QED
            BY <1>0, <1>1, <3>1, <3>2, <3>3, <3>4, RoutesBound DEF LifecycleAssumption
    <2> QED
        BY <1>2, <2>1, <2>2 DEF ResumeNext
<1>3. ASSUME NEW s \in Stops, StopNext(s)
      PROVE  RoutesKept
    <2>1. CASE StopRelists(s) \/ StopFails(s) \/ \E p \in PaneIds : StopLists(s, p)
        BY <1>1, <2>1 DEF StopRelists, StopFails, StopLists, hubVars
    <2>2. CASE StopCloses(s)
        BY <2>2, RoutesStale DEF StopCloses
    <2>3. CASE StopRefreshes(s)
        BY <1>0, <1>1, <2>3, RoutesReconciled DEF StopRefreshes
    <2> QED
        BY <1>3, <2>1, <2>2, <2>3 DEF StopNext
<1>4. ASSUME NEW r \in Requests, NEW k \in Keys, Arrives(r, k)
      PROVE  RoutesKept
    BY <1>1, <1>4 DEF Arrives, hubVars
<1>5. ASSUME NEW z \in Resumes, NEW a \in Agents, ResumeArrives(z, a)
      PROVE  RoutesKept
    BY <1>1, <1>5 DEF ResumeArrives, hubVars
<1>6. ASSUME NEW t \in Terminals, AgentCalls(t)
      PROVE  RoutesKept
    <2>1. /\ route' = Bound(env[t], t, PaneOf(t), kind[t])
          /\ retired' = retired /\ known' = known
          /\ Exists(t) /\ env[t] # None
        BY <1>6 DEF AgentCalls
    <2>2. env[t] \in Agents /\ kind[t] \in Kinds \union {None}
        BY <2>1 DEF LifecycleTypes, PaneTypes, HerdrTypeOK
    <2>3. PaneOf(t) \in Nat
        BY <2>1, PaneOfPlace DEF LifecycleTypes, PaneTypes
    <2> QED
        BY <2>1, <2>2, <2>3, RoutesBound
<1>7. ASSUME NEW a \in Agents, NotifierWrites(a)
      PROVE  RoutesKept
    <2>1. /\ retired' = retired /\ known' = known
          /\ \/ route' = MarkedStale(route, {a})
             \/ /\ Exists(route[a].terminal)
                /\ route' = Healed(route, a, PaneOf(route[a].terminal))
        BY <1>7 DEF NotifierWrites
    <2>2. Exists(route[a].terminal) => PaneOf(route[a].terminal) \in Nat
        BY PaneOfPlace DEF LifecycleTypes, PaneTypes
    <2> QED
        BY <2>1, <2>2, RoutesStale, RoutesHealed
<1>8. CASE Refreshes
    BY <1>0, <1>8, RoutesReconciled DEF Refreshes
<1>9. CASE HubRestarts \/ PaneInput
    BY <1>1, <1>9 DEF HubRestarts, PaneInput, hubVars
<1> QED
    BY <1>2, <1>3, <1>4, <1>5, <1>6, <1>7, <1>8, <1>9, RequestRoutes
    DEF LifecycleNext, StopNext

-----------------------------------------------------------------------------
(* Rows.                                                                   *)

LEMMA Inherits ==
    /\ AbsentOp \in Op /\ PendingOp \in Op /\ NoRecord \in Record
    /\ NoRequest \in Request /\ NoStop \in Stop /\ NoResume \in Resume
BY DEF AbsentOp, PendingOp, Op, NoRecord, Record, NoRequest, Request, NoStop, Stop,
       NoResume, Resume

LEMMA WithoutTyped ==
    ASSUME op \in [Keys -> Op], NEW a
    PROVE  WithoutParticipant(op, a) \in [Keys -> Op]
<1>1. \A k \in Keys : op[k] \in Op /\ [op[k] EXCEPT !.agent = None] \in Op
    BY DEF Op
<1> QED
    BY <1>1 DEF WithoutParticipant

LEMMA OutcomeTyped ==
    ASSUME NEW rows \in [Keys -> Op], NEW r, NEW c \in {None, "closed", "skipped", "failed"},
           CleanupIs(r, rows, c)
    PROVE  op' \in [Keys -> Op]
<1>1. \A k \in Keys : [rows[k] EXCEPT !.cleanup = c] \in Op
    BY DEF Op
<1> QED
    BY <1>1 DEF CleanupIs

LEMMA FailTyped ==
    ASSUME op \in [Keys -> Op], NEW r, Fail(r)
    PROVE  op' \in [Keys -> Op]
<1>1. \A k \in Keys : /\ [op[k] EXCEPT !.status = "failed"] \in Op
                      /\ [op[k] EXCEPT !.status = "failed", !.cleanup = "skipped"] \in Op
    BY DEF Op
<1>2. CASE FailReported(r)
    BY <1>1, <1>2 DEF FailReported
<1>3. CASE FailUnknown(r)
    BY <1>1, <1>3 DEF FailUnknown
<1> QED
    BY <1>2, <1>3 DEF Fail

LEMMA RegisteredTyped ==
    ASSUME record \in [PaneIds -> Record], NEW p, NEW t \in Terminals \union {None},
           NEW a \in Agents \union {None}, NEW role \in {"lead", None}
    PROVE  Registered(p, t, a, role) \in [PaneIds -> Record]
BY DEF Registered, Record

LEMMA RoleTyped ==
    ASSUME record \in [PaneIds -> Record], NEW t
    PROVE  RoleOf(t) \in {"lead", None}
BY DEF RoleOf, Record

LEMMA RequestRows ==
    ASSUME LifecycleAssumption, LifecycleTypes, Serial, NEW r \in Requests, RequestNext(r)
    PROVE  RowTypes'
<1>0. history \subseteq Agents /\ op \in [Keys -> Op] /\ record \in [PaneIds -> Record]
    BY DEF LifecycleTypes, RowTypes
<1> DEFINE k == RequestOf(r)
<1>1. CASE Unprepared(r) \/ SplitPane(r) \/ RefreshesForSpawn(r) \/ BindRoute(r)
    BY <1>0, <1>1 DEF Unprepared, SplitPane, RefreshesForSpawn, BindRoute, hubVars, RowTypes
<1>2. CASE StartFails(r) \/ SplitFails(r) \/ StartAgent(r) \/ BindFails(r) \/ Briefs(r)
           \/ ConfirmFails(r)
    <2>1. history' = history /\ record' = record
        BY <1>2 DEF StartFails, SplitFails, StartAgent, BindFails, Briefs, ConfirmFails
    <2>2. op' = op \/ Fail(r)
        BY <1>2 DEF StartFails, SplitFails, StartAgent, BindFails, Briefs, ConfirmFails, Fail
    <2> QED
        BY <1>0, <2>1, <2>2, FailTyped DEF RowTypes
<1>3. CASE Begins(r)
    <2>1. history' = history /\ record' = record
        BY <1>3 DEF Begins
    <2>2. op' = op \/ op' = [op EXCEPT ![k].status = "failed"] \/ op' = Reset(k)
        BY <1>3 DEF Begins
    <2>3. [op EXCEPT ![k].status = "failed"] \in [Keys -> Op]
        <3>1. \A l \in Keys : [op[l] EXCEPT !.status = "failed"] \in Op
            BY <1>0 DEF Op
        <3> QED
            BY <1>0, <3>1
    <2>4. Reset(k) \in [Keys -> Op]
        BY <1>0, Inherits DEF Reset
    <2> QED
        BY <1>0, <2>1, <2>2, <2>3, <2>4 DEF RowTypes
<1>4. CASE Prepares(r)
    <2>1. history' = history /\ record' = Scanned
        BY <1>4 DEF Prepares
    <2>2. Scanned \in [PaneIds -> Record]
        <3>1. \A p \in PaneIds : [record[p] EXCEPT !.active = FALSE] \in Record
            BY <1>0 DEF Record
        <3> QED
            BY <1>0, <3>1 DEF Scanned
    <2>3. DOMAIN live \subseteq PaneIds
        BY PanesFit DEF LifecycleTypes, PaneTypes, LifecycleAssumption
    <2>4. Unused # {} => Fresh(Unused) \in Agents
        BY FreshIn DEF Unused
    <2>5. \/ op' = op
          \/ Unused # {} /\ op' = [op EXCEPT ![k] =
                [PendingOp EXCEPT !.agent = Fresh(Unused), !.handle = Fresh(Unused),
                                  !.baseline = DOMAIN live]]
          \/ op' = [op EXCEPT ![k] =
                [PendingOp EXCEPT !.status = "failed", !.baseline = DOMAIN live]]
        BY <1>4 DEF Prepares
    <2>6. /\ [PendingOp EXCEPT !.status = "failed", !.baseline = DOMAIN live] \in Op
          /\ Unused # {} => [PendingOp EXCEPT !.agent = Fresh(Unused), !.handle = Fresh(Unused),
                                             !.baseline = DOMAIN live] \in Op
        BY <2>3, <2>4, Inherits DEF Op
    <2>7. op' \in [Keys -> Op]
        BY <1>0, <2>5, <2>6
    <2> QED
        BY <1>0, <2>1, <2>2, <2>7 DEF RowTypes
<1>5. CASE SplitAnswered(r)
    <2>1. history' = history /\ record' = record
        BY <1>5 DEF SplitAnswered
    <2>2. op' = [op EXCEPT ![k].terminal = request[r].terminal, ![k].pane = request[r].pane]
        BY <1>5 DEF SplitAnswered
    <2>3. request[r].terminal \in Terminals \union {None} /\ request[r].pane \in {0} \union PaneIds
        BY DEF LifecycleTypes, TaskTypes, Request
    <2>4. \A t \in Terminals \union {None} : \A p \in {0} \union PaneIds : \A l \in Keys :
              [op[l] EXCEPT !.terminal = t, !.pane = p] \in Op
        <3> SUFFICES ASSUME NEW t \in Terminals \union {None}, NEW p \in {0} \union PaneIds,
                            NEW o \in Op
                     PROVE  [o EXCEPT !.terminal = t, !.pane = p] \in Op
            BY <1>0
        <3> QED
            BY DEF Op
    <2>5. op' \in [Keys -> Op]
        BY <1>0, <2>2, <2>3, <2>4
    <2> QED
        BY <1>0, <2>1, <2>5 DEF RowTypes
<1>6. CASE Commits(r)
    <2>1. OpOf(r) \in Op
        BY <1>6, RequestTyped DEF Commits
    <2>2. /\ history' = history
          /\ record' = Registered(OpOf(r).pane, OpOf(r).terminal, OpOf(r).agent,
                                  IF k \in Leads THEN "lead" ELSE None)
          /\ op' = [op EXCEPT ![k].status = "committed"]
        BY <1>6 DEF Commits
    <2>3. record' \in [PaneIds -> Record]
        BY <1>0, <2>1, <2>2, RegisteredTyped DEF Op
    <2>4. \A l \in Keys : [op[l] EXCEPT !.status = "committed"] \in Op
        BY <1>0 DEF Op
    <2> QED
        BY <1>0, <2>2, <2>3, <2>4 DEF RowTypes
<1>7. CASE RemovesUnbound(r) \/ ListsForCleanup(r) \/ CleanupFails(r)
    <2>1. history' = history /\ record' = record
        BY <1>7 DEF RemovesUnbound, ListsForCleanup, CleanupFails
    <2>2. \/ op' = op
          \/ CleanupIs(r, op, "failed")
          \/ CleanupIs(r, op, "skipped")
          \/ CleanupIs(r, WithoutParticipant(op, OpOf(r).agent), "skipped")
        BY <1>7 DEF RemovesUnbound, ListsForCleanup, CleanupFails
    <2> QED
        BY <1>0, <2>1, <2>2, WithoutTyped, OutcomeTyped DEF RowTypes
<1>8. CASE ClosesSpawn(r)
    <2>1. history' = history /\ record' \in {record, WithoutRecord(OpOf(r))}
        BY <1>8 DEF ClosesSpawn
    <2>2. \/ CleanupIs(r, op, "closed")
          \/ CleanupIs(r, WithoutParticipant(op, OpOf(r).agent), "closed")
        BY <1>8 DEF ClosesSpawn
    <2>3. WithoutRecord(OpOf(r)) \in [PaneIds -> Record]
        BY <1>0, Inherits DEF WithoutRecord
    <2> QED
        BY <1>0, <2>1, <2>2, <2>3, WithoutTyped, OutcomeTyped DEF RowTypes
<1> QED
    BY <1>1, <1>2, <1>3, <1>4, <1>5, <1>6, <1>7, <1>8 DEF RequestNext

LEMMA RowsStep ==
    ASSUME LifecycleAssumption, LifecycleTypes, Serial, LifecycleNext
    PROVE  RowTypes'
<1>0. history \subseteq Agents /\ op \in [Keys -> Op] /\ record \in [PaneIds -> Record]
    BY DEF LifecycleTypes, RowTypes
<1>1. ASSUME UNCHANGED <<history, op, record>>
      PROVE  RowTypes'
    BY <1>0, <1>1 DEF RowTypes
<1>2. ASSUME NEW z \in Resumes, ResumeNext(z)
      PROVE  RowTypes'
    <2>1. CASE Reissues(z) \/ ResumeSplits(z) \/ ResumeStartFails(z) \/ ResumeCloses(z)
               \/ ResumeFails(z)
        BY <1>1, <2>1
        DEF Reissues, ResumeSplits, ResumeStartFails, ResumeCloses, ResumeFails, hubVars
    <2>2. CASE ResumeStarts(z)
        <3>1. resume[z] \in Resume
            BY DEF LifecycleTypes, TaskTypes
        <3>2. \/ record' = record
              \/ record' = Registered(resume[z].pane, resume[z].terminal, resume[z].agent,
                                      RoleOf(resume[z].was))
            BY <2>2 DEF ResumeStarts
        <3>3. /\ resume[z].terminal \in Terminals \union {None}
              /\ resume[z].agent \in Agents \union {None}
              /\ RoleOf(resume[z].was) \in {"lead", None}
            BY <1>0, <3>1, RoleTyped DEF Resume
        <3>4. record' \in [PaneIds -> Record]
            <4>1. ASSUME NEW role \in {"lead", None}
                  PROVE  Registered(resume[z].pane, resume[z].terminal, resume[z].agent, role)
                            \in [PaneIds -> Record]
                BY <1>0, <3>3, RegisteredTyped
            <4> QED
                BY <1>0, <3>2, <3>3, <4>1
        <3> QED
            BY <1>0, <2>2, <3>4 DEF ResumeStarts, RowTypes
    <2> QED
        BY <1>2, <2>1, <2>2 DEF ResumeNext
<1>3. ASSUME NEW s \in Stops, StopNext(s)
      PROVE  RowTypes'
    <2>1. CASE StopRelists(s) \/ StopFails(s) \/ StopRefreshes(s) \/ \E p \in PaneIds : StopLists(s, p)
        BY <1>1, <2>1 DEF StopRelists, StopFails, StopRefreshes, StopLists, hubVars
    <2>2. CASE StopCloses(s)
        <3>1. Deactivated(stop[s].pane) \in [PaneIds -> Record]
            <4>1. \A p \in PaneIds : [record[p] EXCEPT !.active = FALSE] \in Record
                BY <1>0 DEF Record
            <4> QED
                BY <1>0, <4>1 DEF Deactivated
        <3> QED
            BY <1>0, <2>2, <3>1 DEF StopCloses, RowTypes
    <2> QED
        BY <1>3, <2>1, <2>2 DEF StopNext
<1>4. ASSUME NEW r \in Requests, NEW k \in Keys, Arrives(r, k)
      PROVE  RowTypes'
    BY <1>1, <1>4 DEF Arrives, hubVars
<1>5. ASSUME NEW z \in Resumes, NEW a \in Agents, ResumeArrives(z, a)
      PROVE  RowTypes'
    BY <1>1, <1>5 DEF ResumeArrives, hubVars
<1>6. ASSUME NEW t \in Terminals, AgentCalls(t)
      PROVE  RowTypes'
    BY <1>0, <1>6 DEF AgentCalls, RowTypes, LifecycleTypes, PaneTypes
<1>7. ASSUME NEW a \in Agents, NotifierWrites(a)
      PROVE  RowTypes'
    BY <1>1, <1>7 DEF NotifierWrites
<1>8. CASE Refreshes \/ HubRestarts \/ PaneInput
    BY <1>1, <1>8 DEF Refreshes, HubRestarts, PaneInput, hubVars
<1> QED
    BY <1>2, <1>3, <1>4, <1>5, <1>6, <1>7, <1>8, RequestRows DEF LifecycleNext, StopNext

-----------------------------------------------------------------------------
(* Requests.                                                               *)

Stages == {"topology", "split", "splitting", "start", "bind", "brief", "confirm",
           "refresh", "cleanup", "closing"}

(* A step of a request ends it and passes the lock on, or goes to the next *)
(* stage of the handler.                                                   *)
Moves(r) ==
    /\ request' \in [Requests -> Request]
    /\ \A x \in Requests \ {r} : request'[x] = request[x]
    /\ \/ queue' = queue /\ request'[r].at \in Stages /\ request'[r].key = request[r].key
       \/ queue' = Tail(queue) /\ request'[r] = NoRequest

LEMMA GoesMoves ==
    ASSUME LifecycleTypes, NEW r \in Requests, NEW at \in Stages, Goes(r, at)
    PROVE  Moves(r) /\ request'[r] = [request[r] EXCEPT !.at = at]
<1>1. request \in [Requests -> Request] /\ request[r] \in Request
    BY DEF LifecycleTypes, TaskTypes
<1>2. [request[r] EXCEPT !.at = at] \in Request
    BY <1>1 DEF Request, Stages
<1>3. request' = [request EXCEPT ![r].at = at] /\ queue' = queue
    BY DEF Goes
<1>4. /\ request' \in [Requests -> Request]
      /\ request'[r] = [request[r] EXCEPT !.at = at]
      /\ \A x \in Requests \ {r} : request'[x] = request[x]
    BY <1>1, <1>2, <1>3
<1>5. request'[r].at = at /\ request'[r].key = request[r].key
    BY <1>1, <1>4 DEF Request
<1> QED
    BY <1>3, <1>4, <1>5 DEF Moves

LEMMA AnsweredMoves ==
    ASSUME LifecycleTypes, NEW r \in Requests, Answered(r)
    PROVE  Moves(r) /\ request'[r] = NoRequest
<1>1. request \in [Requests -> Request]
    BY DEF LifecycleTypes, TaskTypes
<1> QED
    BY <1>1, Inherits DEF Answered, Moves

LEMMA ReportMoves ==
    ASSUME LifecycleTypes, NEW r \in Requests, FailReported(r)
    PROVE  /\ Moves(r)
           /\ request'[r] = [request[r] EXCEPT !.at = "cleanup", !.own = OwnsRoute(OpOf(r))]
           /\ request'[r].at = "cleanup" /\ request'[r].key = request[r].key
           /\ request'[r].own = OwnsRoute(OpOf(r))
<1>1. request \in [Requests -> Request] /\ request[r] \in Request
    BY DEF LifecycleTypes, TaskTypes
<1>2. PICK b : b = OwnsRoute(OpOf(r))
    OBVIOUS
<1>3. b \in BOOLEAN
    BY <1>2 DEF OwnsRoute
<1>4. PICK q : q = [request[r] EXCEPT !.at = "cleanup", !.own = b]
    OBVIOUS
<1>5. q \in Request /\ q.at = "cleanup" /\ q.key = request[r].key /\ q.own = b
    BY <1>1, <1>3, <1>4 DEF Request
<1>6. request' = [request EXCEPT ![r] = q] /\ queue' = queue
    BY <1>2, <1>4 DEF FailReported
<1>7. /\ request' \in [Requests -> Request] /\ request'[r] = q
      /\ \A x \in Requests \ {r} : request'[x] = request[x]
    BY <1>1, <1>5, <1>6
<1> QED
    BY <1>2, <1>4, <1>5, <1>6, <1>7 DEF Moves, Stages

LEMMA FailMoves ==
    ASSUME LifecycleTypes, NEW r \in Requests, Fail(r)
    PROVE  Moves(r)
BY ReportMoves, AnsweredMoves DEF Fail, FailUnknown

LEMMA RequestMoves ==
    ASSUME LifecycleAssumption, LifecycleTypes, NEW r \in Requests, RequestNext(r)
    PROVE  /\ Moves(r) /\ Holds(r) /\ request[r].at # "idle"
           /\ UNCHANGED <<stop, resume>>
<1>0. request \in [Requests -> Request] /\ request[r] \in Request
    BY DEF LifecycleTypes, TaskTypes
<1>1. CASE Begins(r)
    <2>1. /\ Holds(r) /\ request[r].at # "idle" /\ UNCHANGED <<stop, resume>>
          /\ queue' = queue
          /\ \E at \in {"confirm", "bind", "cleanup", "topology"} : \E m \in {"again", "retry", "new"} :
                request' = [request EXCEPT ![r].at = at, ![r].mode = m]
        BY <1>1 DEF Begins
    <2>2. PICK at \in {"confirm", "bind", "cleanup", "topology"}, m \in {"again", "retry", "new"} :
                request' = [request EXCEPT ![r].at = at, ![r].mode = m]
        BY <2>1
    <2>3. PICK q : q = [request[r] EXCEPT !.at = at, !.mode = m]
        OBVIOUS
    <2>4. q \in Request /\ q.at = at /\ q.key = request[r].key
        BY <1>0, <2>3 DEF Request
    <2>5. request' = [request EXCEPT ![r] = q]
        BY <2>2, <2>3
    <2>6. /\ request' \in [Requests -> Request] /\ request'[r] = q
          /\ \A x \in Requests \ {r} : request'[x] = request[x]
        BY <1>0, <2>4, <2>5
    <2> QED
        BY <2>1, <2>4, <2>6 DEF Moves, Stages
<1>2. CASE Prepares(r) \/ Unprepared(r) \/ RefreshesForSpawn(r) \/ RemovesUnbound(r)
           \/ ListsForCleanup(r) \/ CleanupFails(r) \/ ClosesSpawn(r)
    <2>1. /\ Holds(r) /\ request[r].at # "idle" /\ UNCHANGED <<stop, resume>>
        BY <1>2 DEF Prepares, Unprepared, RefreshesForSpawn, RemovesUnbound, ListsForCleanup,
                    CleanupFails, ClosesSpawn
    <2>2. Answered(r) \/ Goes(r, "split") \/ Goes(r, "closing")
        BY <1>2 DEF Prepares, Unprepared, RefreshesForSpawn, RemovesUnbound, ListsForCleanup,
                    CleanupFails, ClosesSpawn
    <2> QED
        BY <2>1, <2>2, GoesMoves, AnsweredMoves DEF Stages
<1>3. CASE SplitPane(r)
    <2>1. /\ Holds(r) /\ request[r].at # "idle" /\ UNCHANGED <<stop, resume>>
          /\ queue' = queue
          /\ Fresh(Terminals \ opened) \in Terminals
          /\ ~Exists(Fresh(Terminals \ opened))
        <3>1. opened # Terminals /\ opened \subseteq Terminals
            BY <1>3 DEF SplitPane, LifecycleTypes, PaneTypes
        <3>2. Terminals \ opened # {}
            BY <3>1
        <3>3. Fresh(Terminals \ opened) \in Terminals \ opened
            BY <3>2, FreshIn
        <3> QED
            <4>1. \A i \in DOMAIN live : live[i] \in opened
                BY DEF LifecycleTypes, PaneTypes
            <4>2. opened \subseteq Terminals /\ queue' = queue
                BY <1>3 DEF SplitPane, LifecycleTypes, PaneTypes
            <4> QED
                BY <1>3, <3>3, <4>1, <4>2 DEF SplitPane, Exists
    <2>2. Len(live) + 1 \in PaneIds
        BY <2>1, PanesFit DEF LifecycleTypes, PaneTypes, LifecycleAssumption
    <2>3. PICK t \in Terminals, p \in PaneIds :
              request' = [request EXCEPT ![r].at = "splitting", ![r].terminal = t, ![r].pane = p]
        BY <1>3, <2>1, <2>2 DEF SplitPane
    <2>4. PICK q : q = [request[r] EXCEPT !.at = "splitting", !.terminal = t, !.pane = p]
        OBVIOUS
    <2>5. q \in Request /\ q.at = "splitting" /\ q.key = request[r].key
        BY <1>0, <2>4 DEF Request
    <2>6. request' = [request EXCEPT ![r] = q]
        BY <2>3, <2>4
    <2>7. /\ request' \in [Requests -> Request] /\ request'[r] = q
          /\ \A x \in Requests \ {r} : request'[x] = request[x]
        BY <1>0, <2>5, <2>6
    <2> QED
        BY <2>1, <2>5, <2>7 DEF Moves, Stages
<1>4. CASE SplitAnswered(r) \/ SplitFails(r) \/ StartAgent(r) \/ StartFails(r) \/ BindRoute(r)
           \/ BindFails(r) \/ Briefs(r) \/ Commits(r) \/ ConfirmFails(r)
    <2>1. /\ Holds(r) /\ request[r].at # "idle" /\ UNCHANGED <<stop, resume>>
        BY <1>4 DEF SplitAnswered, SplitFails, StartAgent, StartFails, BindRoute, BindFails,
                    Briefs, Commits, ConfirmFails
    <2>2. \/ Fail(r) \/ Answered(r)
          \/ \E at \in {"start", "bind", "confirm", "brief", "refresh"} : Goes(r, at)
        BY <1>4 DEF SplitAnswered, SplitFails, StartAgent, StartFails, BindRoute, BindFails,
                    Briefs, Commits, ConfirmFails, Fail
    <2> QED
        BY <2>1, <2>2, GoesMoves, AnsweredMoves, FailMoves DEF Stages
<1> QED
    BY <1>1, <1>2, <1>3, <1>4 DEF RequestNext

LEMMA HeadAndTail ==
    ASSUME NEW S, NEW q \in Seq(S), q # <<>>
    PROVE  /\ Tail(q) \in Seq(S)
           /\ \A i \in DOMAIN Tail(q) : i + 1 \in DOMAIN q /\ Tail(q)[i] = q[i + 1] /\ i \in Nat
           /\ 1 \in DOMAIN q /\ Head(q) = q[1]
OBVIOUS

LEMMA SerialMoves ==
    ASSUME LifecycleTypes, Serial, NEW r \in Requests, Moves(r), Holds(r), request[r].at # "idle"
    PROVE  Serial' /\ queue' \in Seq(Requests)
<1>1. queue \in Seq(Requests) /\ queue # <<>> /\ Head(queue) = r
    BY DEF Holds, LifecycleTypes, TaskTypes
<1>2. request[r].key \in Keys
    BY DEF Serial
<1>3. CASE queue' = queue /\ request'[r].at \in Stages /\ request'[r].key = request[r].key
    <2>1. request'[r].at # "idle"
        BY <1>3 DEF Stages
    <2>2. \A x \in Requests : (request'[x].at # "idle" \/ Works(x)') =>
             (x = r \/ (request'[x] = request[x]))
        BY DEF Moves
    <2>3. \A i \in DOMAIN queue' : request'[queue'[i]].at # "idle"
        BY <1>1, <1>3, <2>1 DEF Serial, Moves
    <2>4. \A x \in Requests : Works(x)' => Holds(x)'
        BY <1>1, <1>3 DEF Serial, Moves, Works, Holds
    <2>5. \A x \in Requests : request'[x].at # "idle" => request'[x].key \in Keys
        BY <1>2, <1>3 DEF Serial, Moves
    <2> QED
        BY <1>1, <1>3, <2>3, <2>4, <2>5 DEF Serial
<1>4. CASE queue' = Tail(queue) /\ request'[r] = NoRequest
    <2>1. NoRequest.at = "idle"
        BY DEF NoRequest
    <2>2. \A i \in DOMAIN queue' : /\ i + 1 \in DOMAIN queue /\ queue'[i] = queue[i + 1]
                                   /\ i \in Nat
        BY <1>1, <1>4, HeadAndTail
    <2>3. 1 \in DOMAIN queue /\ queue[1] = r /\ DOMAIN queue \subseteq Nat
        BY <1>1, HeadAndTail
    <2>4. \A i, j \in DOMAIN queue' : queue'[i] = queue'[j] => i = j
        BY <2>2 DEF Serial
    <2>5. \A i \in DOMAIN queue' : queue'[i] \in Requests \ {r}
        <3>1. ASSUME NEW i \in DOMAIN queue', queue'[i] = r PROVE FALSE
            <4>1. i + 1 = 1
                BY <2>2, <2>3, <3>1 DEF Serial
            <4>2. i \in 1..Len(queue')
                BY <1>1, <1>4, HeadAndTail
            <4> QED
                BY <2>2, <4>1, <4>2
        <3> QED
            BY <1>1, <2>2, <3>1
    <2>6. \A i \in DOMAIN queue' : request'[queue'[i]].at # "idle"
        BY <2>2, <2>5 DEF Serial, Moves
    <2>7. \A x \in Requests : request'[x].at # "idle" => x # r /\ request'[x] = request[x]
        BY <1>4, <2>1 DEF Moves
    <2>8. \A x \in Requests : ~Works(x)'
        BY <1>1, <1>4, <2>1, <2>7 DEF Serial, Works, Holds, Moves
    <2>9. \A x \in Requests : request'[x].at # "idle" => request'[x].key \in Keys
        BY <2>7 DEF Serial
    <2> QED
        BY <1>1, <1>4, <2>4, <2>6, <2>8, <2>9, HeadAndTail DEF Serial
<1> QED
    BY <1>3, <1>4 DEF Moves

-----------------------------------------------------------------------------
(* Stops, resumes and counters.                                            *)

StopTypes == stop \in [Stops -> Stop]

ResumeTypes ==
    /\ resume \in [Resumes -> Resume]
    /\ \A z \in Resumes : resume[z].at \in {"start", "closing"} =>
          resume[z].terminal \in Terminals /\ resume[z].pane \in PaneIds

LEMMA StopTyped ==
    ASSUME LifecycleAssumption, LifecycleTypes, NEW s \in Stops, StopNext(s)
    PROVE  StopTypes'
<1>0. stop \in [Stops -> Stop] /\ stop[s] \in Stop
    BY DEF LifecycleTypes, TaskTypes
<1>1. CASE StopRelists(s)
    <2>1. [stop[s] EXCEPT !.at = "relisted"] \in Stop
        BY <1>0 DEF Stop
    <2> QED
        BY <1>0, <1>1, <2>1, Inherits DEF StopRelists, StopTypes
<1>2. CASE StopCloses(s)
    <2>1. [stop[s] EXCEPT !.at = "closed"] \in Stop
        BY <1>0 DEF Stop
    <2> QED
        BY <1>0, <1>2, <2>1 DEF StopCloses, StopTypes
<1>3. CASE StopRefreshes(s) \/ StopFails(s)
    BY <1>0, <1>3, Inherits DEF StopRefreshes, StopFails, StopTypes
<1>4. ASSUME NEW p \in PaneIds, StopLists(s, p)
      PROVE  StopTypes'
    <2>1. /\ AtPane(p)
          /\ stop' = [stop EXCEPT ![s] = [at |-> "listed", pane |-> p, terminal |-> live[p],
                                          agent |-> Target(p).agent,
                                          expected |-> Target(p).expected]]
        BY <1>4 DEF StopLists
    <2>2. live[p] \in Terminals
        BY <2>1 DEF AtPane, LifecycleTypes, PaneTypes, HerdrTypeOK
    <2>3. Target(p).agent \in Agents \union {None} /\ Target(p).expected \in Agents \union {None}
        <3> DEFINE t == live[p]
                   active == {a \in Holders(route, t) : Active(a)}
        <3>1. label[t] \in Agents \union {None}
            BY <2>2 DEF LifecycleTypes, PaneTypes
        <3>2. active # {} => (CHOOSE a \in active : TRUE) \in Agents
            BY DEF Holders
        <3> HIDE DEF active
        <3> QED
            BY <3>1, <3>2 DEF Target, active
    <2>4. [at |-> "listed", pane |-> p, terminal |-> live[p], agent |-> Target(p).agent,
           expected |-> Target(p).expected] \in Stop
        BY <2>2, <2>3 DEF Stop
    <2> QED
        BY <1>0, <2>1, <2>4 DEF StopTypes
<1> QED
    BY <1>1, <1>2, <1>3, <1>4 DEF StopNext

LEMMA ResumeTyped ==
    ASSUME LifecycleAssumption, LifecycleTypes, NEW z \in Resumes,
           ResumeNext(z) \/ \E a \in Agents : ResumeArrives(z, a)
    PROVE  ResumeTypes'
<1>0. resume \in [Resumes -> Resume] /\ \A y \in Resumes : resume[y] \in Resume
    BY DEF LifecycleTypes, TaskTypes
<1>1. ASSUME NEW q \in Resume, resume' = [resume EXCEPT ![z] = q],
             q.at \in {"start", "closing"} => q.terminal \in Terminals /\ q.pane \in PaneIds
      PROVE  ResumeTypes'
    <2>1. \A y \in Resumes : resume'[y] = IF y = z THEN q ELSE resume[y]
        BY <1>0, <1>1
    <2> QED
        BY <1>0, <1>1, <2>1 DEF ResumeTypes, LifecycleTypes, TaskTypes
<1>2. ASSUME resume' = [resume EXCEPT ![z] = NoResume]
      PROVE  ResumeTypes'
    BY <1>1, <1>2, Inherits DEF NoResume
<1>3. CASE Reissues(z)
    <2>1. CASE resume[z].agent \in known
        <3>1. \A y \in Resumes :
                 \/ y = z /\ resume'[y] = [resume[z] EXCEPT !.at = "split", !.token = TRUE]
                 \/ y # z /\ resume'[y] = [resume[y] EXCEPT !.token = FALSE]
                 \/ y # z /\ resume'[y] = resume[y]
            BY <1>3, <2>1 DEF Reissues
        <3>2. \A y \in Resumes :
                 /\ [resume[y] EXCEPT !.at = "split", !.token = TRUE] \in Resume
                 /\ [resume[y] EXCEPT !.token = FALSE] \in Resume
                 /\ [resume[y] EXCEPT !.at = "split", !.token = TRUE].at = "split"
                 /\ [resume[y] EXCEPT !.token = FALSE].at = resume[y].at
                 /\ [resume[y] EXCEPT !.token = FALSE].terminal = resume[y].terminal
                 /\ [resume[y] EXCEPT !.token = FALSE].pane = resume[y].pane
            BY <1>0 DEF Resume
        <3>3. \A y \in Resumes : resume'[y] \in Resume
            BY <1>0, <3>1, <3>2
        <3>4. DOMAIN resume' = Resumes /\ resume' = [y \in DOMAIN resume' |-> resume'[y]]
            BY <1>3, <2>1 DEF Reissues
        <3>5. \A y \in Resumes : resume'[y].at \in {"start", "closing"} =>
                 resume'[y].terminal \in Terminals /\ resume'[y].pane \in PaneIds
            BY <3>1, <3>2 DEF LifecycleTypes, TaskTypes
        <3> QED
            BY <3>3, <3>4, <3>5 DEF ResumeTypes
    <2>2. CASE resume[z].agent \notin known
        BY <1>2, <1>3, <2>2 DEF Reissues
    <2> QED
        BY <2>1, <2>2
<1>4. CASE ResumeSplits(z)
    <2>1. Fresh(Terminals \ opened) \in Terminals /\ ~Exists(Fresh(Terminals \ opened))
        <3>1. opened # Terminals /\ opened \subseteq Terminals
            BY <1>4 DEF ResumeSplits, LifecycleTypes, PaneTypes
        <3>2. Terminals \ opened # {}
            BY <3>1
        <3>3. Fresh(Terminals \ opened) \in Terminals \ opened
            BY <3>2, FreshIn
        <3> QED
            BY <3>3 DEF LifecycleTypes, PaneTypes, Exists
    <2>2. Len(live) + 1 \in PaneIds
        BY <2>1, PanesFit DEF LifecycleTypes, PaneTypes, LifecycleAssumption
    <2>3. PICK t \in Terminals, p \in PaneIds :
              resume' = [resume EXCEPT ![z].at = "start", ![z].terminal = t, ![z].pane = p]
        BY <1>4, <2>1, <2>2 DEF ResumeSplits
    <2>4. PICK q : q = [resume[z] EXCEPT !.at = "start", !.terminal = t, !.pane = p]
        OBVIOUS
    <2>5. q \in Resume /\ q.terminal = t /\ q.pane = p
        BY <1>0, <2>4 DEF Resume
    <2>6. resume' = [resume EXCEPT ![z] = q]
        BY <2>3, <2>4
    <2> QED
        BY <1>1, <2>3, <2>5, <2>6
<1>5. ASSUME resume[z].at = "start", resume' = [resume EXCEPT ![z].at = "closing"]
      PROVE  ResumeTypes'
    <2>1. PICK q : q = [resume[z] EXCEPT !.at = "closing"]
        OBVIOUS
    <2>2. q \in Resume /\ q.terminal = resume[z].terminal /\ q.pane = resume[z].pane
        BY <1>0, <2>1 DEF Resume
    <2>3. resume' = [resume EXCEPT ![z] = q]
        BY <1>5, <2>1
    <2>4. resume[z].terminal \in Terminals /\ resume[z].pane \in PaneIds
        BY <1>5 DEF LifecycleTypes, TaskTypes
    <2> QED
        BY <1>1, <2>2, <2>3, <2>4
<1>6. CASE ResumeStarts(z)
    BY <1>2, <1>5, <1>6 DEF ResumeStarts
<1>7. CASE ResumeStartFails(z)
    BY <1>5, <1>7 DEF ResumeStartFails
<1>8. CASE ResumeCloses(z) \/ ResumeFails(z)
    BY <1>2, <1>8 DEF ResumeCloses, ResumeFails
<1>9. ASSUME NEW a \in Agents, ResumeArrives(z, a)
      PROVE  ResumeTypes'
    <2>1. resume' = [resume EXCEPT ![z] = [NoResume EXCEPT !.at = "list", !.agent = a,
                                                           !.was = route[a].terminal]]
        BY <1>9 DEF ResumeArrives
    <2>2. PICK q : q = [NoResume EXCEPT !.at = "list", !.agent = a, !.was = route[a].terminal]
        OBVIOUS
    <2>3. route[a].terminal \in Terminals \union {None}
        BY DEF LifecycleTypes, RouteTypes, Route
    <2>4. q \in Resume /\ q.at = "list"
        BY <2>2, <2>3 DEF Resume, NoResume
    <2> QED
        BY <1>1, <2>1, <2>2, <2>4
<1> QED
    BY <1>3, <1>4, <1>6, <1>7, <1>8, <1>9 DEF ResumeNext

LEMMA SerialSame ==
    ASSUME Serial, UNCHANGED <<queue, request>>
    PROVE  Serial'
BY DEF Serial, Works, Holds

LEMMA ArrivesKeeps ==
    ASSUME LifecycleTypes, Serial, NEW r \in Requests, NEW k \in Keys, Arrives(r, k)
    PROVE  /\ Serial' /\ queue' \in Seq(Requests) /\ request' \in [Requests -> Request]
           /\ request[r].at = "idle" /\ request'[r].at = "queued" /\ request'[r].key = k
           /\ \A x \in Requests \ {r} : request'[x] = request[x]
<1>1. queue \in Seq(Requests) /\ request \in [Requests -> Request]
    BY DEF LifecycleTypes, TaskTypes
<1>2. PICK q : q = [NoRequest EXCEPT !.at = "queued", !.key = k]
    OBVIOUS
<1>3. q \in Request /\ q.at = "queued" /\ q.key = k
    BY <1>2 DEF NoRequest, Request
<1>4. /\ request[r].at = "idle"
      /\ request' = [request EXCEPT ![r] = q]
      /\ queue' = Append(queue, r)
    BY <1>2 DEF Arrives
<1>5. /\ request' \in [Requests -> Request] /\ request'[r] = q
      /\ \A x \in Requests \ {r} : request'[x] = request[x]
    BY <1>1, <1>3, <1>4
<1>6. /\ queue' \in Seq(Requests)
      /\ DOMAIN queue = 1..Len(queue) /\ Len(queue) \in Nat
      /\ DOMAIN queue' = 1..(Len(queue) + 1)
      /\ \A i \in DOMAIN queue : queue'[i] = queue[i]
      /\ queue'[Len(queue) + 1] = r
      /\ queue # <<>> => Head(queue') = Head(queue) /\ queue' # <<>>
    BY <1>1, <1>4
<1>7. \A i \in DOMAIN queue : queue[i] \in Requests /\ queue[i] # r
    BY <1>1, <1>4 DEF Serial
<1>8. \A i, j \in DOMAIN queue' : queue'[i] = queue'[j] => i = j
    BY <1>6, <1>7 DEF Serial
<1>9. \A i \in DOMAIN queue' : request'[queue'[i]].at # "idle"
    BY <1>3, <1>5, <1>6, <1>7 DEF Serial
<1>10. \A x \in Requests : Works(x)' => Holds(x)'
    BY <1>3, <1>5, <1>6 DEF Serial, Works, Holds
<1>11. \A x \in Requests : request'[x].at # "idle" => request'[x].key \in Keys
    BY <1>3, <1>5 DEF Serial
<1> QED
    BY <1>3, <1>4, <1>5, <1>6, <1>8, <1>9, <1>10, <1>11 DEF Serial

LEMMA TasksStep ==
    ASSUME LifecycleAssumption, LifecycleTypes, Serial, LifecycleNext
    PROVE  Serial' /\ TaskTypes'
<1>0. /\ queue \in Seq(Requests) /\ request \in [Requests -> Request]
      /\ StopTypes /\ ResumeTypes
    BY DEF LifecycleTypes, TaskTypes, StopTypes, ResumeTypes
<1>1. ASSUME Serial', queue' \in Seq(Requests), request' \in [Requests -> Request],
             StopTypes', ResumeTypes'
      PROVE  Serial' /\ TaskTypes'
    BY <1>1 DEF TaskTypes, StopTypes, ResumeTypes
<1>2. (stop' = stop => StopTypes') /\ (resume' = resume => ResumeTypes')
    BY <1>0 DEF StopTypes, ResumeTypes
<1>3. ASSUME UNCHANGED <<queue, request>>, StopTypes', ResumeTypes'
      PROVE  Serial' /\ TaskTypes'
    BY <1>0, <1>1, <1>3, SerialSame
<1>4. ASSUME NEW r \in Requests, RequestNext(r)
      PROVE  Serial' /\ TaskTypes'
    <2>1. /\ Moves(r) /\ Holds(r) /\ request[r].at # "idle" /\ UNCHANGED <<stop, resume>>
        BY <1>4, RequestMoves
    <2>2. Serial' /\ queue' \in Seq(Requests)
        BY <2>1, SerialMoves
    <2> QED
        BY <1>1, <1>2, <2>1, <2>2 DEF Moves
<1>5. ASSUME NEW r \in Requests, NEW k \in Keys, Arrives(r, k)
      PROVE  Serial' /\ TaskTypes'
    <2>1. UNCHANGED <<stop, resume>>
        BY <1>5 DEF Arrives
    <2> QED
        BY <1>1, <1>2, <1>5, <2>1, ArrivesKeeps
<1>6. ASSUME NEW s \in Stops, StopNext(s)
      PROVE  Serial' /\ TaskTypes'
    <2>1. UNCHANGED <<queue, request, resume>>
        BY <1>6 DEF StopNext, StopRelists, StopCloses, StopRefreshes, StopFails, StopLists
    <2> QED
        BY <1>2, <1>3, <1>6, <2>1, StopTyped
<1>7. ASSUME NEW z \in Resumes, ResumeNext(z) \/ \E a \in Agents : ResumeArrives(z, a)
      PROVE  Serial' /\ TaskTypes'
    <2>1. UNCHANGED <<queue, request, stop>>
        BY <1>7 DEF ResumeNext, Reissues, ResumeSplits, ResumeStarts, ResumeStartFails,
                    ResumeCloses, ResumeFails, ResumeArrives
    <2> QED
        BY <1>2, <1>3, <1>7, <2>1, ResumeTyped
<1>8. ASSUME NEW t \in Terminals, AgentCalls(t)
      PROVE  Serial' /\ TaskTypes'
    BY <1>2, <1>3, <1>8 DEF AgentCalls
<1>9. ASSUME NEW a \in Agents, NotifierWrites(a)
      PROVE  Serial' /\ TaskTypes'
    BY <1>2, <1>3, <1>9 DEF NotifierWrites
<1>10. CASE Refreshes \/ PaneInput
    BY <1>2, <1>3, <1>10 DEF Refreshes, PaneInput
<1>11. CASE HubRestarts
    <2>1. /\ queue' = <<>> /\ request' = [r \in Requests |-> NoRequest]
          /\ stop' = [s \in Stops |-> NoStop] /\ resume' = [z \in Resumes |-> NoResume]
        BY <1>11 DEF HubRestarts
    <2>2. NoRequest.at = "idle" /\ NoResume.at = "idle"
        BY DEF NoRequest, NoResume
    <2>3. Serial'
        BY <2>1, <2>2 DEF Serial, Works, Holds
    <2>4. StopTypes' /\ ResumeTypes'
        BY <2>1, <2>2, Inherits DEF StopTypes, ResumeTypes
    <2>5. queue' \in Seq(Requests) /\ request' \in [Requests -> Request]
        BY <2>1, Inherits
    <2> QED
        BY <1>1, <2>3, <2>4, <2>5
<1> QED
    BY <1>4, <1>5, <1>6, <1>7, <1>8, <1>9, <1>10, <1>11 DEF LifecycleNext, StopNext

LEMMA CountsStep ==
    ASSUME LifecycleAssumption, LifecycleTypes, LifecycleNext
    PROVE  CountTypes'
<1>0. /\ astray \in BOOLEAN /\ commands \in 0..MaxCommands /\ inputs \in 0..MaxInputs
      /\ restarts \in 0..MaxRestarts
      /\ MaxCommands \in Nat /\ MaxInputs \in Nat /\ MaxRestarts \in Nat
    BY DEF LifecycleTypes, CountTypes, LifecycleAssumption
<1>1. ASSUME UNCHANGED <<commands, inputs, restarts>>, astray' \in BOOLEAN
      PROVE  CountTypes'
    BY <1>0, <1>1 DEF CountTypes
<1>2. ASSUME NEW r \in Requests, RequestNext(r)
      PROVE  CountTypes'
    <2>1. UNCHANGED bounds
        BY <1>2 DEF RequestNext, Begins, Prepares, Unprepared, SplitPane, SplitAnswered,
                    SplitFails, StartAgent, StartFails, BindRoute, BindFails, Briefs, Commits,
                    ConfirmFails, RefreshesForSpawn, RemovesUnbound, ListsForCleanup,
                    CleanupFails, ClosesSpawn
    <2>2. CASE ClosesSpawn(r)
        BY <1>1, <2>1, <2>2 DEF ClosesSpawn, bounds
    <2>3. CASE ~ClosesSpawn(r)
        <3>1. astray' = astray
            BY <1>2, <2>3 DEF RequestNext, Begins, Prepares, Unprepared, SplitPane, SplitAnswered,
                    SplitFails, StartAgent, StartFails, BindRoute, BindFails, Briefs, Commits,
                    ConfirmFails, RefreshesForSpawn, RemovesUnbound, ListsForCleanup,
                    CleanupFails
        <3> QED
            BY <1>0, <1>1, <2>1, <3>1 DEF bounds
    <2> QED
        BY <2>2, <2>3
<1>3. ASSUME NEW z \in Resumes, ResumeNext(z)
      PROVE  CountTypes'
    <2>1. UNCHANGED bounds /\ astray' \in BOOLEAN
        BY <1>0, <1>3 DEF ResumeNext, Reissues, ResumeSplits, ResumeStarts, ResumeStartFails,
                          ResumeCloses, ResumeFails, Closes
    <2> QED
        BY <1>1, <2>1 DEF bounds
<1>4. ASSUME NEW s \in Stops, StopNext(s)
      PROVE  CountTypes'
    <2>1. CASE \E p \in PaneIds : StopLists(s, p)
        BY <1>0, <2>1 DEF StopLists, CountTypes
    <2>2. CASE StopRelists(s) \/ StopCloses(s) \/ StopRefreshes(s) \/ StopFails(s)
        <3>1. UNCHANGED bounds /\ astray' \in BOOLEAN
            BY <1>0, <2>2 DEF StopRelists, StopCloses, StopRefreshes, StopFails, Closes
        <3> QED
            BY <1>1, <3>1 DEF bounds
    <2> QED
        BY <1>4, <2>1, <2>2 DEF StopNext
<1>5. ASSUME NEW r \in Requests, NEW k \in Keys, Arrives(r, k)
      PROVE  CountTypes'
    BY <1>0, <1>5 DEF Arrives, CountTypes
<1>6. ASSUME NEW z \in Resumes, NEW a \in Agents, ResumeArrives(z, a)
      PROVE  CountTypes'
    BY <1>0, <1>6 DEF ResumeArrives, CountTypes
<1>7. ASSUME NEW t \in Terminals, AgentCalls(t)
      PROVE  CountTypes'
    BY <1>0, <1>7 DEF AgentCalls, CountTypes
<1>8. ASSUME NEW a \in Agents, NotifierWrites(a)
      PROVE  CountTypes'
    BY <1>0, <1>8 DEF NotifierWrites, CountTypes
<1>9. CASE Refreshes
    BY <1>0, <1>1, <1>9 DEF Refreshes, bounds
<1>10. CASE PaneInput
    BY <1>0, <1>10 DEF PaneInput, CountTypes
<1>11. CASE HubRestarts
    BY <1>0, <1>11 DEF HubRestarts, CountTypes
<1> QED
    BY <1>2, <1>3, <1>4, <1>5, <1>6, <1>7, <1>8, <1>9, <1>10, <1>11 DEF LifecycleNext, StopNext

(* Only an identity that goes is forgotten as late.                        *)
LEMMA LateStep ==
    ASSUME LifecycleAssumption, LifecycleTypes, LifecycleNext
    PROVE  late' \subseteq Agents /\ \A a \in late : a \in late' \/ a \notin known'
<1>0. late \subseteq Agents /\ env \in [Terminals -> Agents \union {None}]
    BY DEF LifecycleTypes, PaneTypes
<1>1. ASSUME late' = late
      PROVE  late' \subseteq Agents /\ \A a \in late : a \in late' \/ a \notin known'
    BY <1>0, <1>1
<1>2. ASSUME NEW x, Deleted(x)
      PROVE  late' \subseteq Agents /\ \A a \in late : a \in late' \/ a \notin known'
    BY <1>0, <1>2 DEF Deleted
<1>3. ASSUME NEW r \in Requests, RequestNext(r)
      PROVE  late' = late \/ \E x : Deleted(x)
    <2>1. CASE RemovesUnbound(r)
        BY <2>1 DEF RemovesUnbound
    <2>2. CASE ClosesSpawn(r)
        BY <2>2 DEF ClosesSpawn
    <2>3. CASE ~RemovesUnbound(r) /\ ~ClosesSpawn(r)
        BY <1>3, <2>3
        DEF RequestNext, Begins, Prepares, Unprepared, SplitPane, SplitAnswered, SplitFails,
            StartAgent, StartFails, BindRoute, BindFails, Briefs, Commits, ConfirmFails,
            RefreshesForSpawn, ListsForCleanup, CleanupFails
    <2> QED
        BY <2>1, <2>2, <2>3
<1>4. ASSUME NEW t \in Terminals, AgentCalls(t)
      PROVE  late' \subseteq Agents /\ late \subseteq late'
    BY <1>0, <1>4 DEF AgentCalls
<1>5. ASSUME NEW s \in Stops, StopNext(s)
      PROVE  late' = late
    BY <1>5 DEF StopNext, StopRelists, StopCloses, StopRefreshes, StopFails, StopLists
<1>6. ASSUME NEW z \in Resumes, ResumeNext(z) \/ \E a \in Agents : ResumeArrives(z, a)
      PROVE  late' = late
    BY <1>6 DEF ResumeNext, Reissues, ResumeSplits, ResumeStarts, ResumeStartFails,
                ResumeCloses, ResumeFails, ResumeArrives
<1>7. ASSUME \/ \E r \in Requests, k \in Keys : Arrives(r, k)
             \/ \E a \in Agents : NotifierWrites(a)
             \/ Refreshes \/ PaneInput \/ HubRestarts
      PROVE  late' = late
    BY <1>7 DEF Arrives, NotifierWrites, Refreshes, PaneInput, HubRestarts
<1> QED
    BY <1>1, <1>2, <1>3, <1>4, <1>5, <1>6, <1>7 DEF LifecycleNext, StopNext

LEMMA TypesStep ==
    ASSUME LifecycleAssumption, LifecycleTypes, Serial, LifecycleNext
    PROVE  LifecycleTypes' /\ Serial' /\ PanesKept /\ RoutesKept
<1>1. PanesKept /\ RoutesKept
    BY PanesStep, RoutesStep
<1>2. RowTypes' /\ Serial' /\ TaskTypes' /\ CountTypes'
    BY RowsStep, TasksStep, CountsStep
<1>3. late' \subseteq Agents
    BY LateStep
<1> QED
    BY <1>1, <1>2, <1>3 DEF LifecycleTypes, PanesKept, RoutesKept

-----------------------------------------------------------------------------
(* What the rows of operations say.                                        *)

LEMMA PlacedKept ==
    ASSUME LifecycleAssumption, LifecycleTypes, PanesKept, NEW t, NEW p, Placed(t, p)
    PROVE  /\ Placed(t, p)'
           /\ (AtPane(p)' /\ live'[p] = t) => AtPane(p) /\ live[p] = t
<1>1. /\ Falls /\ HerdrTypeOK /\ HerdrTypeOK' /\ opened \subseteq opened'
      /\ IsFiniteSet(Terminals)
    BY DEF LifecycleAssumption, LifecycleTypes, PaneTypes, PanesKept
<1> QED
    BY <1>1, PlacedFalls

(* A step in which no row changes.                                         *)
LEMMA OpsSame ==
    ASSUME LifecycleAssumption, LifecycleTypes, Ops, PanesKept, op' = op, known' = known,
           \A r \in Requests : request'[r] = request[r] \/ request'[r].at \in {"idle", "queued"}
    PROVE  Ops'
<1>1. ASSUME NEW k \in Keys
      PROVE  OpSound(k)'
    <2>1. OpSound(k)
        BY DEF Ops
    <2>2. op[k].terminal # None => Placed(op[k].terminal, op[k].pane)'
        BY <2>1, PlacedKept DEF OpSound
    <2> QED
        BY <2>1, <2>2 DEF OpSound
<1>2. ASSUME NEW r \in Requests
      PROVE  RowFits(r)'
    <2>1. RowFits(r)
        BY DEF Ops
    <2>2. CASE request'[r] = request[r]
        <3>1. PICK t, p : t = request[r].terminal /\ p = request[r].pane
            OBVIOUS
        <3>2. request[r].at = "splitting" => Placed(t, p)
            BY <2>1, <3>1 DEF RowFits
        <3>3. request[r].at = "splitting" => Placed(t, p)'
            BY <3>2, PlacedKept
        <3> QED
            BY <2>1, <2>2, <3>1, <3>3 DEF RowFits, Works
    <2>3. CASE request'[r].at \in {"idle", "queued"}
        BY <2>3 DEF RowFits, Works
    <2> QED
        BY <2>2, <2>3
<1> QED
    BY <1>1, <1>2 DEF Ops

(* A step of the request that holds the lock changes its own row only.     *)
OwnRow(k) ==
    \A l \in Keys \ {k} : op'[l] = op[l] /\ (op[l].agent # None => op[l].agent \in known')

LEMMA OpsMoves ==
    ASSUME LifecycleAssumption, LifecycleTypes, Serial, Ops, PanesKept,
           NEW r \in Requests, Moves(r), Holds(r), NEW k \in Keys, OwnRow(k),
           OpSound(k)', RowFits(r)'
    PROVE  Ops'
<1>1. ASSUME NEW l \in Keys \ {k}
      PROVE  OpSound(l)'
    <2>1. OpSound(l) /\ op'[l] = op[l] /\ (op[l].agent # None => op[l].agent \in known')
        BY DEF Ops, OwnRow
    <2>2. op[l].terminal # None => Placed(op[l].terminal, op[l].pane)'
        BY <2>1, PlacedKept DEF OpSound
    <2>3. ASSUME NEW m \in Keys, op'[m].agent = op'[l].agent, op'[l].agent # None
          PROVE  m = l
        <3>1. CASE m = k
            BY <2>3, <3>1 DEF OpSound
        <3>2. CASE m # k
            BY <2>1, <2>3, <3>2 DEF OpSound, OwnRow
        <3> QED
            BY <3>1, <3>2
    <2> QED
        BY <2>1, <2>2, <2>3 DEF OpSound
<1>2. ASSUME NEW x \in Requests \ {r}
      PROVE  RowFits(x)'
    <2>1. request'[x] = request[x]
        BY DEF Moves
    <2>2. request[x].at \in {"idle", "queued"}
        BY DEF Serial, Works, Holds
    <2> QED
        BY <2>1, <2>2 DEF RowFits, Works
<1> QED
    BY <1>1, <1>2 DEF Ops

(* It may only mark the row.                                               *)
Marks(k) ==
    /\ \A l \in Keys \ {k} : op'[l] = op[l]
    /\ op'[k].agent = op[k].agent /\ op'[k].handle = op[k].handle
    /\ op'[k].terminal = op[k].terminal /\ op'[k].pane = op[k].pane
    /\ op'[k].status # "absent" \/ op'[k] = op[k]
    /\ op'[k].cleanup = "closed" => op'[k].status = "failed" /\ op'[k].pane # 0

LEMMA OpsMarked ==
    ASSUME LifecycleAssumption, LifecycleTypes, Serial, Ops, PanesKept,
           NEW r \in Requests, Moves(r), Holds(r), request[r].at # "idle",
           known' = known, Marks(RequestOf(r)), RowFits(r)'
    PROVE  Ops'
<1>1. RequestOf(r) \in Keys
    BY RequestTyped
<1>2. PICK k \in Keys : k = RequestOf(r)
    BY <1>1
<1>3. OpSound(k) /\ Marks(k)
    BY <1>2 DEF Ops
<1>4. op'[k].terminal # None => Placed(op[k].terminal, op[k].pane)'
    <2>1. PICK t, p : t = op[k].terminal /\ p = op[k].pane
        OBVIOUS
    <2>2. t # None => Placed(t, p)'
        BY <1>3, <2>1, PlacedKept DEF OpSound
    <2> QED
        BY <1>3, <2>1, <2>2 DEF Marks
<1>5. \A l \in Keys : op'[l].agent = op[l].agent
    BY <1>3 DEF Marks
<1>6. OpSound(k)'
    BY <1>3, <1>4, <1>5 DEF OpSound, Marks
<1>7. OwnRow(k)
    BY <1>3 DEF Marks, OwnRow, Ops, OpSound
<1> QED
    BY <1>2, <1>6, <1>7, OpsMoves

LEMMA RestFits ==
    ASSUME NEW r, Answered(r), LifecycleTypes, r \in Requests
    PROVE  RowFits(r)'
<1>1. request'[r].at = "idle"
    BY AnsweredMoves DEF NoRequest
<1> QED
    BY <1>1 DEF RowFits, Works

LEMMA OpsAnswered ==
    ASSUME LifecycleAssumption, LifecycleTypes, Serial, Ops, PanesKept,
           NEW r \in Requests, Holds(r), request[r].at # "idle", Answered(r),
           UNCHANGED <<op, known>>
    PROVE  Ops'
<1>1. \A x \in Requests : request'[x] = request[x] \/ request'[x].at \in {"idle", "queued"}
    BY AnsweredMoves DEF NoRequest, Moves
<1> QED
    BY <1>1, OpsSame

LEMMA OpsFail ==
    ASSUME LifecycleAssumption, LifecycleTypes, Serial, Ops, PanesKept,
           NEW r \in Requests, Holds(r), Works(r), Fail(r), known' = known
    PROVE  Ops'
<1>1. PICK k \in Keys : k = RequestOf(r) /\ k = request[r].key
    BY RequestTyped DEF Works, RequestOf
<1>2. OpSound(k) /\ op[k].cleanup # "closed" /\ RowFits(r)
    BY <1>1 DEF Ops, RowFits
<1>3. op \in [Keys -> Op] /\ op[k] \in Op
    BY DEF LifecycleTypes, RowTypes
<1>4. Moves(r) /\ request[r].at # "idle"
    BY FailMoves DEF Works
<1>5. CASE FailReported(r)
    <2>1. op' = [op EXCEPT ![k].status = "failed"]
        BY <1>1, <1>5 DEF FailReported
    <2>2. /\ \A l \in Keys \ {k} : op'[l] = op[l]
          /\ op'[k] = [op[k] EXCEPT !.status = "failed"]
        BY <1>3, <2>1
    <2>3. /\ op'[k].status = "failed" /\ op'[k].cleanup = op[k].cleanup
          /\ op'[k].agent = op[k].agent /\ op'[k].handle = op[k].handle
          /\ op'[k].terminal = op[k].terminal /\ op'[k].pane = op[k].pane
        BY <1>3, <2>2 DEF Op
    <2>4. Marks(k)
        BY <1>2, <2>2, <2>3 DEF Marks
    <2>6. request'[r].at = "cleanup" /\ request'[r].key = k
        BY <1>1, <1>5, ReportMoves
    <2>7. RowFits(r)'
        BY <1>2, <2>3, <2>6 DEF RowFits
    <2> QED
        BY <1>1, <1>4, <2>4, <2>7, OpsMarked
<1>6. CASE FailUnknown(r)
    <2>1. op' = [op EXCEPT ![k].status = "failed", ![k].cleanup = "skipped"] /\ Answered(r)
        BY <1>1, <1>6 DEF FailUnknown
    <2>2. /\ \A l \in Keys \ {k} : op'[l] = op[l]
          /\ op'[k] = [op[k] EXCEPT !.status = "failed", !.cleanup = "skipped"]
        BY <1>3, <2>1
    <2>3. /\ op'[k].status = "failed" /\ op'[k].cleanup = "skipped"
          /\ op'[k].agent = op[k].agent /\ op'[k].handle = op[k].handle
          /\ op'[k].terminal = op[k].terminal /\ op'[k].pane = op[k].pane
        BY <1>3, <2>2 DEF Op
    <2>4. Marks(k)
        BY <1>2, <2>2, <2>3 DEF Marks
    <2> QED
        BY <1>1, <1>4, <2>1, <2>4, RestFits, OpsMarked
<1> QED
    BY <1>5, <1>6 DEF Fail

(* A step that leaves the rows alone and goes on to a stage that fits.     *)
LEMMA OpsGoes ==
    ASSUME LifecycleAssumption, LifecycleTypes, Serial, Ops, PanesKept,
           NEW r \in Requests, Holds(r), Works(r), UNCHANGED <<op, known>>,
           NEW at \in {"bind", "brief", "confirm", "refresh", "closing"}, Goes(r, at),
           at = "closing" => request[r].at = "cleanup" /\ OpOf(r).pane # 0
    PROVE  Ops'
<1>1. PICK k \in Keys : k = RequestOf(r) /\ k = request[r].key
    BY RequestTyped DEF Works, RequestOf
<1>2. OpSound(k) /\ RowFits(r)
    BY <1>1 DEF Ops
<1>3. Moves(r) /\ request'[r] = [request[r] EXCEPT !.at = at] /\ request[r].at # "idle"
    BY GoesMoves DEF Stages, Works
<1>4. request'[r].at = at /\ request'[r].key = k
    BY <1>1, <1>3 DEF LifecycleTypes, TaskTypes, Request
<1>5. Marks(k)
    BY <1>2 DEF Marks, OpSound
<1>6. RowFits(r)'
    BY <1>1, <1>2, <1>4 DEF RowFits, OpOf, Works
<1> QED
    BY <1>1, <1>3, <1>5, <1>6, OpsMarked

LEMMA OpsBegins ==
    ASSUME LifecycleAssumption, LifecycleTypes, Serial, Ops, PanesKept,
           NEW r \in Requests, Begins(r)
    PROVE  Ops'
<1>0. Holds(r) /\ request[r].at # "idle" /\ known' = known /\ Moves(r)
    <2>1. RequestNext(r)
        BY DEF RequestNext
    <2> QED
        BY <2>1, RequestMoves DEF Begins
<1>1. PICK k \in Keys : k = RequestOf(r) /\ k = request[r].key
    BY <1>0, RequestTyped DEF RequestOf
<1>2. OpSound(k) /\ op[k] \in Op /\ op \in [Keys -> Op]
    BY DEF Ops, LifecycleTypes, RowTypes
<1>3. PICK o : o = op[k]
    OBVIOUS
<1>4. /\ PendingOp.agent = None /\ PendingOp.pane = 0 /\ PendingOp.status = "pending"
      /\ PendingOp.cleanup = None /\ PendingOp.terminal = None
      /\ AbsentOp.agent = None /\ AbsentOp.pane = 0 /\ AbsentOp.cleanup = None
      /\ AbsentOp.terminal = None /\ AbsentOp.status = "absent"
    BY DEF PendingOp, AbsentOp
<1>5. ASSUME NEW at, NEW m, request' = [request EXCEPT ![r].at = at, ![r].mode = m]
      PROVE  request'[r].at = at /\ request'[r].key = k
    BY <1>1, <1>5 DEF LifecycleTypes, TaskTypes, Request
<1>6. CASE op' = op /\ \E at \in {"confirm", "bind"} : \E m :
              /\ request' = [request EXCEPT ![r].at = at, ![r].mode = m]
              /\ op[k].cleanup # "closed"
    <2>0. PICK at \in {"confirm", "bind"} :
              \E m : request' = [request EXCEPT ![r].at = at, ![r].mode = m]
        BY <1>6
    <2>1. PICK m : request' = [request EXCEPT ![r].at = at, ![r].mode = m]
        BY <2>0
    <2>2. request'[r].at = at /\ request'[r].key = k
        BY <1>5, <2>1
    <2>3. RowFits(r)'
        BY <1>6, <2>2 DEF RowFits, Works
    <2>4. Marks(k)
        BY <1>2, <1>6 DEF Marks, OpSound
    <2> QED
        BY <1>0, <1>1, <2>3, <2>4, OpsMarked
<1>7. CASE /\ op' = [op EXCEPT ![k].status = "failed"]
           /\ \E m : request' = [request EXCEPT ![r].at = "cleanup", ![r].mode = m]
           /\ op[k].cleanup # "closed"
    <2>1. request'[r].at = "cleanup" /\ request'[r].key = k
        BY <1>5, <1>7
    <2>2. /\ \A l \in Keys \ {k} : op'[l] = op[l]
          /\ op'[k] = [op[k] EXCEPT !.status = "failed"]
        BY <1>2, <1>7
    <2>3. /\ op'[k].status = "failed" /\ op'[k].cleanup = op[k].cleanup
          /\ op'[k].agent = op[k].agent /\ op'[k].handle = op[k].handle
          /\ op'[k].terminal = op[k].terminal /\ op'[k].pane = op[k].pane
        BY <1>2, <2>2 DEF Op
    <2>4. Marks(k) /\ RowFits(r)'
        BY <1>7, <2>1, <2>2, <2>3 DEF Marks, RowFits
    <2> QED
        BY <1>0, <1>1, <2>4, OpsMarked
<1>8. CASE /\ op' = Reset(k)
           /\ \E m : request' = [request EXCEPT ![r].at = "topology", ![r].mode = m]
    <2>1. request'[r].at = "topology" /\ request'[r].key = k
        BY <1>5, <1>8
    <2>2. /\ \A l \in Keys \ {k} : op'[l] = op[l]
          /\ op'[k] \in {PendingOp, AbsentOp}
          /\ op'[k].status = "absent" => op'[k] = AbsentOp
        <3>1. CASE op[k].status = "absent"
            BY <1>2, <1>8, <3>1 DEF Reset, OpSound
        <3>2. CASE op[k].status # "absent"
            <4>1. op' = [op EXCEPT ![k] = PendingOp]
                BY <1>8, <3>2 DEF Reset
            <4> QED
                BY <1>2, <1>4, <4>1
        <3> QED
            BY <3>1, <3>2
    <2>3. /\ op'[k].agent = None /\ op'[k].pane = 0 /\ op'[k].terminal = None
          /\ op'[k].cleanup = None
        BY <1>4, <2>2
    <2>4. None # "closed"
        BY <1>0, <1>8, <2>1, <2>2 DEF LifecycleAssumption
    <2>5. OpSound(k)' /\ RowFits(r)'
        BY <2>1, <2>2, <2>3, <2>4 DEF OpSound, RowFits
    <2>6. OwnRow(k)
        BY <1>0, <2>2 DEF OwnRow, Ops, OpSound
    <2> QED
        BY <1>0, <2>5, <2>6, OpsMoves
<1>9. CASE op[k].status = "committed"
    <2>1. op[k].cleanup # "closed"
        BY <1>2, <1>9 DEF OpSound
    <2> QED
        BY <1>1, <1>6, <1>9, <2>1 DEF Begins, OpOf
<1>10. CASE op[k].status # "committed" /\ Abandoned(op[k])
    BY <1>1, <1>4, <1>8, <1>10 DEF Begins, OpOf
<1>11. CASE op[k].status # "committed" /\ ~Abandoned(op[k])
    <2>1. op[k].cleanup # "closed"
        BY <1>2, <1>11 DEF OpSound, Abandoned
    <2> QED
        BY <1>1, <1>6, <1>7, <1>8, <1>11, <2>1 DEF Begins, OpOf
<1> QED
    BY <1>9, <1>10, <1>11

LEMMA OpsPrepares ==
    ASSUME LifecycleAssumption, LifecycleTypes, Serial, Ops, PanesKept,
           NEW r \in Requests, Prepares(r)
    PROVE  Ops'
<1>0. Holds(r) /\ request[r].at = "topology" /\ Moves(r)
    <2>1. RequestNext(r)
        BY DEF RequestNext
    <2> QED
        BY <2>1, RequestMoves DEF Prepares
<1>1. PICK k \in Keys : k = RequestOf(r) /\ k = request[r].key
    BY <1>0, RequestTyped DEF RequestOf
<1>2. OpSound(k) /\ op[k].agent = None /\ op[k].pane = 0 /\ op \in [Keys -> Op]
    BY <1>0, <1>1 DEF Ops, RowFits, LifecycleTypes, RowTypes
<1>3. CASE Answered(r) /\ UNCHANGED <<op, known>>
    BY <1>0, <1>3, OpsAnswered
<1>4. CASE /\ Unused # {} /\ known' = known \union {Fresh(Unused)}
           /\ op' = [op EXCEPT ![k] =
                [PendingOp EXCEPT !.agent = Fresh(Unused), !.handle = Fresh(Unused),
                                  !.baseline = DOMAIN live]]
           /\ Goes(r, "split")
    <2>1. PICK a \in Agents \ known :
             /\ known' = known \union {a}
             /\ op' = [op EXCEPT ![k] = [PendingOp EXCEPT !.agent = a, !.handle = a,
                                                          !.baseline = DOMAIN live]]
        BY <1>4, FreshIn DEF Unused
    <2>2. /\ \A l \in Keys \ {k} : op'[l] = op[l]
          /\ op'[k] = [PendingOp EXCEPT !.agent = a, !.handle = a, !.baseline = DOMAIN live]
        BY <1>2, <2>1
    <2>3. /\ op'[k].agent = a /\ op'[k].handle = a /\ op'[k].pane = 0 /\ op'[k].terminal = None
          /\ op'[k].status = "pending" /\ op'[k].cleanup = None
        BY <2>2 DEF PendingOp, AbsentOp
    <2>4. \A l \in Keys : op'[l].agent = a => l = k
        BY <2>1, <2>2 DEF Ops, OpSound, LifecycleAssumption
    <2>5. a # None /\ None # "closed"
        BY DEF LifecycleAssumption
    <2>6. OpSound(k)'
        BY <2>1, <2>3, <2>4, <2>5 DEF OpSound
    <2>7. OwnRow(k)
        BY <2>1, <2>2 DEF OwnRow, Ops, OpSound
    <2>8. request'[r].at = "split" /\ request'[r].key = k
        <3>1. request'[r] = [request[r] EXCEPT !.at = "split"]
            BY <1>4, GoesMoves DEF Stages
        <3> QED
            BY <1>1, <3>1 DEF LifecycleTypes, TaskTypes, Request
    <2>9. RowFits(r)'
        BY <2>3, <2>5, <2>8 DEF RowFits
    <2> QED
        BY <1>0, <2>6, <2>7, <2>9, OpsMoves
<1>5. CASE /\ Answered(r) /\ known' = known
           /\ op' = [op EXCEPT ![k] =
                [PendingOp EXCEPT !.status = "failed", !.baseline = DOMAIN live]]
    <2>1. /\ \A l \in Keys \ {k} : op'[l] = op[l]
          /\ op'[k] = [PendingOp EXCEPT !.status = "failed", !.baseline = DOMAIN live]
        BY <1>2, <1>5
    <2>2. /\ op'[k].agent = None /\ op'[k].pane = 0 /\ op'[k].terminal = None
          /\ op'[k].status = "failed" /\ op'[k].cleanup = None
        BY <2>1 DEF PendingOp, AbsentOp
    <2>3. OpSound(k)'
        BY <2>2 DEF OpSound, LifecycleAssumption
    <2>4. OwnRow(k)
        BY <1>5, <2>1 DEF OwnRow, Ops, OpSound
    <2> QED
        BY <1>0, <1>5, <2>3, <2>4, RestFits, OpsMoves
<1> QED
    BY <1>1, <1>3, <1>4, <1>5 DEF Prepares

LEMMA OpsSplits ==
    ASSUME LifecycleAssumption, LifecycleTypes, Serial, Ops, PanesKept,
           NEW r \in Requests, SplitPane(r) \/ SplitAnswered(r)
    PROVE  Ops'
<1>0. Holds(r) /\ Works(r) /\ request[r].at # "idle" /\ Moves(r) /\ known' = known
    <2>1. RequestNext(r)
        BY DEF RequestNext
    <2> QED
        BY <2>1, RequestMoves DEF SplitPane, SplitAnswered, Works, hubVars
<1>1. PICK k \in Keys : k = RequestOf(r) /\ k = request[r].key
    BY <1>0, RequestTyped DEF RequestOf
<1>2. OpSound(k) /\ RowFits(r) /\ op \in [Keys -> Op] /\ request[r] \in Request
    BY <1>1 DEF Ops, LifecycleTypes, RowTypes, TaskTypes
<1>3. CASE SplitPane(r)
    <2>1. PICK t : t = Fresh(Terminals \ opened)
        OBVIOUS
    <2>2. t \in Terminals \ opened
        <3>1. opened # Terminals /\ opened \subseteq Terminals
            BY <1>3 DEF SplitPane, LifecycleTypes, PaneTypes
        <3>2. Terminals \ opened # {}
            BY <3>1
        <3> QED
            BY <2>1, <3>2, FreshIn
    <2>3. PICK n : n = Len(live) + 1
        OBVIOUS
    <2>4. /\ Splits(t, OpOf(r).agent) /\ op' = op
          /\ request' = [request EXCEPT ![r].at = "splitting", ![r].terminal = t, ![r].pane = n]
        BY <1>3, <2>1, <2>3 DEF SplitPane, hubVars
    <2>5. /\ request'[r].at = "splitting" /\ request'[r].terminal = t
          /\ request'[r].pane = n /\ request'[r].key = k
        BY <1>1, <2>4 DEF LifecycleTypes, TaskTypes, Request
    <2>6. Placed(t, n)'
        <3>1. live \in Seq(Terminals) /\ Len(live) \in Nat /\ live' = Append(live, t)
              /\ t \in opened'
            BY <2>4 DEF Splits, PaneOpens, LifecycleTypes, PaneTypes, HerdrTypeOK
        <3>2. n \in PaneIds
            BY <2>2, <2>3, PanesFit DEF LifecycleTypes, PaneTypes, LifecycleAssumption, Exists
        <3>3. \A i \in DOMAIN live' : i <= n
            BY <2>3, <3>1
        <3> QED
            BY <3>1, <3>2, <3>3 DEF Placed, PaneIds
    <2>7. RowFits(r)'
        BY <1>1, <1>2, <1>3, <2>4, <2>5, <2>6 DEF RowFits, SplitPane, Works
    <2>8. Marks(k)
        BY <1>2, <2>4 DEF Marks, OpSound
    <2> QED
        BY <1>0, <1>1, <2>7, <2>8, OpsMarked
<1>4. CASE SplitAnswered(r)
    <2>1. PICK t, p : t = request[r].terminal /\ p = request[r].pane
        OBVIOUS
    <2>2. Placed(t, p) /\ op[k].agent # None /\ op[k].cleanup # "closed"
        BY <1>1, <1>2, <1>4, <2>1 DEF RowFits, SplitAnswered, Works
    <2>3. t \in Terminals /\ p \in PaneIds /\ p # 0 /\ t # None /\ Placed(t, p)'
        <3>1. Placed(t, p)'
            BY <2>2, PlacedKept
        <3>2. t \in opened /\ p \in PaneIds
            BY <2>2 DEF Placed
        <3>3. p # 0
            BY <3>2, PanesFit DEF LifecycleTypes, PaneTypes, LifecycleAssumption
        <3> QED
            BY <3>1, <3>2, <3>3 DEF LifecycleTypes, PaneTypes, LifecycleAssumption
    <2>4. /\ op' = [op EXCEPT ![k].terminal = t, ![k].pane = p]
          /\ Goes(r, "start")
        BY <1>1, <1>4, <2>1 DEF SplitAnswered
    <2>5. /\ \A l \in Keys \ {k} : op'[l] = op[l]
          /\ op'[k] = [op[k] EXCEPT !.terminal = t, !.pane = p]
        BY <1>2, <2>4
    <2>6. /\ op'[k].terminal = t /\ op'[k].pane = p /\ op'[k].agent = op[k].agent
          /\ op'[k].handle = op[k].handle /\ op'[k].status = op[k].status
          /\ op'[k].cleanup = op[k].cleanup
        BY <1>2, <2>5 DEF Op
    <2>7. op[k].status # "absent"
        BY <1>2, <2>2 DEF OpSound, AbsentOp
    <2>8. \A l \in Keys : op'[l].agent = op[k].agent => l = k
        BY <1>2, <2>2, <2>5 DEF OpSound
    <2>9. OpSound(k)'
        BY <1>0, <1>2, <2>2, <2>3, <2>6, <2>7, <2>8 DEF OpSound
    <2>10. OwnRow(k)
        BY <1>0, <2>5 DEF OwnRow, Ops, OpSound
    <2>11. request'[r].at = "start" /\ request'[r].key = k
        <3>1. request'[r] = [request[r] EXCEPT !.at = "start"]
            BY <2>4, GoesMoves DEF Stages
        <3> QED
            BY <1>1, <1>2, <3>1 DEF Request
    <2>12. RowFits(r)'
        BY <2>2, <2>3, <2>6, <2>11 DEF RowFits
    <2> QED
        BY <1>0, <2>9, <2>10, <2>12, OpsMoves
<1> QED
    BY <1>3, <1>4

LEMMA OpsCommits ==
    ASSUME LifecycleAssumption, LifecycleTypes, Serial, Ops, PanesKept,
           NEW r \in Requests, Commits(r)
    PROVE  Ops'
<1>0. Holds(r) /\ Works(r) /\ request[r].at # "idle" /\ Moves(r) /\ known' = known
    <2>1. RequestNext(r)
        BY DEF RequestNext
    <2> QED
        BY <2>1, RequestMoves DEF Commits, Works
<1>1. PICK k \in Keys : k = RequestOf(r) /\ k = request[r].key
    BY <1>0, RequestTyped DEF RequestOf
<1>2. OpSound(k) /\ op[k].cleanup # "closed" /\ op \in [Keys -> Op] /\ op[k] \in Op
    BY <1>0, <1>1 DEF Ops, RowFits, LifecycleTypes, RowTypes
<1>3. op' = [op EXCEPT ![k].status = "committed"]
    BY <1>1 DEF Commits
<1>4. /\ \A l \in Keys \ {k} : op'[l] = op[l]
      /\ op'[k] = [op[k] EXCEPT !.status = "committed"]
    BY <1>2, <1>3
<1>5. /\ op'[k].status = "committed" /\ op'[k].cleanup = op[k].cleanup
      /\ op'[k].agent = op[k].agent /\ op'[k].handle = op[k].handle
      /\ op'[k].terminal = op[k].terminal /\ op'[k].pane = op[k].pane
    BY <1>2, <1>4 DEF Op
<1>6. Marks(k)
    BY <1>2, <1>4, <1>5 DEF Marks
<1>7. RowFits(r)'
    <2>1. CASE Goes(r, "refresh")
        <3>1. request'[r] = [request[r] EXCEPT !.at = "refresh"]
            BY <2>1, GoesMoves DEF Stages
        <3>2. request'[r].at = "refresh" /\ request'[r].key = k
            BY <1>1, <3>1 DEF LifecycleTypes, TaskTypes, Request
        <3> QED
            BY <1>2, <1>5, <3>2 DEF RowFits
    <2>2. CASE Answered(r)
        BY <2>2, RestFits
    <2> QED
        BY <2>1, <2>2 DEF Commits
<1> QED
    BY <1>0, <1>1, <1>6, <1>7, OpsMarked

(* An outcome of the rollback, with the identity kept or removed.          *)
LEMMA OpsOutcome ==
    ASSUME LifecycleAssumption, LifecycleTypes, Serial, Ops, PanesKept,
           NEW r \in Requests, Holds(r), request[r].at \in {"cleanup", "closing"}, Answered(r),
           NEW c \in {"closed", "skipped", "failed"}, c = "closed" => OpOf(r).pane # 0,
           \/ CleanupIs(r, op, c) /\ known' = known
           \/ /\ OpOf(r).agent # None
              /\ CleanupIs(r, WithoutParticipant(op, OpOf(r).agent), c)
              /\ Deleted(OpOf(r).agent)
    PROVE  Ops'
<1>0. Works(r) /\ request[r].at # "idle" /\ Moves(r)
    BY AnsweredMoves DEF Works
<1>1. PICK k \in Keys : k = RequestOf(r) /\ k = request[r].key
    BY <1>0, RequestTyped DEF RequestOf
<1>2. OpSound(k) /\ op[k].status = "failed" /\ op \in [Keys -> Op] /\ op[k] \in Op
    BY <1>0, <1>1 DEF Ops, RowFits, LifecycleTypes, RowTypes
<1>3. CASE CleanupIs(r, op, c) /\ known' = known
    <2>1. op' = [op EXCEPT ![k].cleanup = c]
        BY <1>1, <1>3 DEF CleanupIs
    <2>2. /\ \A l \in Keys \ {k} : op'[l] = op[l]
          /\ op'[k] = [op[k] EXCEPT !.cleanup = c]
        BY <1>2, <2>1
    <2>3. /\ op'[k].status = "failed" /\ op'[k].cleanup = c
          /\ op'[k].agent = op[k].agent /\ op'[k].handle = op[k].handle
          /\ op'[k].terminal = op[k].terminal /\ op'[k].pane = op[k].pane
        BY <1>2, <2>2 DEF Op
    <2>4. Marks(k)
        BY <1>1, <1>2, <2>2, <2>3 DEF Marks, OpOf
    <2> QED
        BY <1>0, <1>1, <1>3, <2>4, RestFits, OpsMarked
<1>4. ASSUME NEW a \in Agents, a = op[k].agent,
             CleanupIs(r, WithoutParticipant(op, a), c), known' = known \ {a}
      PROVE  Ops'
    <2>1. op' = [WithoutParticipant(op, a) EXCEPT ![k].cleanup = c]
        BY <1>1, <1>4 DEF CleanupIs
    <2>2. a # None
        BY <1>4 DEF LifecycleAssumption
    <2>3. \A l \in Keys \ {k} : op[l].agent # a
        BY <1>2, <1>4, <2>2 DEF OpSound
    <2>4. /\ \A l \in Keys \ {k} : op'[l] = op[l]
          /\ op'[k] = [[op[k] EXCEPT !.agent = None] EXCEPT !.cleanup = c]
        BY <1>4, <2>1, <2>3 DEF WithoutParticipant
    <2>5. /\ op'[k].status = "failed" /\ op'[k].cleanup = c
          /\ op'[k].agent = None /\ op'[k].handle = op[k].handle
          /\ op'[k].terminal = op[k].terminal /\ op'[k].pane = op[k].pane
        BY <1>2, <2>4 DEF Op
    <2>6. op'[k].terminal # None => Placed(op[k].terminal, op[k].pane)'
        <3>1. PICK t, p : t = op[k].terminal /\ p = op[k].pane
            OBVIOUS
        <3>2. t # None => Placed(t, p)'
            BY <1>2, <3>1, PlacedKept DEF OpSound
        <3> QED
            BY <2>5, <3>1, <3>2
    <2>7. OpSound(k)'
        BY <1>1, <1>2, <2>5, <2>6 DEF OpSound, OpOf
    <2>8. OwnRow(k)
        BY <1>4, <2>3, <2>4 DEF OwnRow, Ops, OpSound
    <2> QED
        BY <1>0, <2>7, <2>8, RestFits, OpsMoves
<1>5. CASE /\ OpOf(r).agent # None
           /\ CleanupIs(r, WithoutParticipant(op, OpOf(r).agent), c)
           /\ Deleted(OpOf(r).agent)
    <2>1. PICK a : a = op[k].agent
        OBVIOUS
    <2>2. a \in Agents
        BY <1>1, <1>2, <1>5, <2>1 DEF Op, OpOf
    <2> QED
        BY <1>1, <1>4, <1>5, <2>1, <2>2 DEF OpOf, Deleted
<1> QED
    BY <1>3, <1>5

LEMMA RequestOps ==
    ASSUME LifecycleAssumption, LifecycleTypes, Serial, Ops, PanesKept,
           NEW r \in Requests, RequestNext(r)
    PROVE  Ops'
<1>1. CASE Unprepared(r) \/ RefreshesForSpawn(r)
    BY <1>1, OpsAnswered DEF Unprepared, RefreshesForSpawn, hubVars
<1>2. CASE SplitFails(r) \/ StartFails(r) \/ BindFails(r)
    BY <1>2, OpsFail DEF SplitFails, StartFails, BindFails, Fail, Works
<1>3. CASE StartAgent(r)
    BY <1>3, OpsFail, OpsGoes DEF StartAgent, Fail, Works
<1>4. CASE Briefs(r) \/ BindRoute(r)
    BY <1>4, OpsFail, OpsGoes DEF Briefs, BindRoute, Works
<1>5. CASE ConfirmFails(r)
    BY <1>5, OpsFail, OpsAnswered DEF ConfirmFails, Fail, Works
<1>6. CASE ListsForCleanup(r)
    <2>1. CASE Goes(r, "closing") /\ UNCHANGED op
        BY <1>6, <2>1, OpsGoes DEF ListsForCleanup, Works
    <2>2. CASE CleanupIs(r, op, "failed") /\ Answered(r)
        BY <1>6, <2>2, OpsOutcome DEF ListsForCleanup
    <2> QED
        BY <1>6, <2>1, <2>2 DEF ListsForCleanup
<1>7. CASE CleanupFails(r)
    BY <1>7, OpsOutcome DEF CleanupFails
<1>8. CASE RemovesUnbound(r)
    <2>1. /\ Holds(r) /\ request[r].at = "cleanup" /\ Answered(r)
          /\ \/ CleanupIs(r, op, "skipped") /\ known' = known
             \/ /\ OpOf(r).agent # None
                /\ CleanupIs(r, WithoutParticipant(op, OpOf(r).agent), "skipped")
                /\ Deleted(OpOf(r).agent)
        BY <1>8 DEF RemovesUnbound
    <2> QED
        BY <2>1, OpsOutcome
<1>9. CASE ClosesSpawn(r)
    <2>1. /\ Holds(r) /\ request[r].at = "closing" /\ Answered(r)
          /\ \/ CleanupIs(r, op, "closed") /\ known' = known
             \/ /\ OpOf(r).agent # None
                /\ CleanupIs(r, WithoutParticipant(op, OpOf(r).agent), "closed")
                /\ Deleted(OpOf(r).agent)
        BY <1>9 DEF ClosesSpawn
    <2>2. OpOf(r).pane # 0
        BY <2>1 DEF Ops, RowFits, OpOf, RequestOf
    <2> QED
        BY <2>1, <2>2, OpsOutcome
<1> QED
    BY <1>1, <1>2, <1>3, <1>4, <1>5, <1>6, <1>7, <1>8, <1>9, OpsBegins, OpsPrepares,
       OpsSplits, OpsCommits
    DEF RequestNext

(* Every other step leaves the rows of operations, the requests and the    *)
(* identities alone, but for a request that arrives and those that die.    *)
Aside ==
    /\ UNCHANGED <<op, known>>
    /\ \A r \in Requests : request'[r] = request[r] \/ request'[r].at \in {"idle", "queued"}

LEMMA OthersAside ==
    ASSUME LifecycleAssumption, LifecycleTypes, Serial, LifecycleNext,
           \A r \in Requests : ~RequestNext(r)
    PROVE  Aside
<1>1. ASSUME UNCHANGED <<op, known, request>>
      PROVE  Aside
    BY <1>1 DEF Aside
<1>2. ASSUME NEW r \in Requests, NEW k \in Keys, Arrives(r, k)
      PROVE  Aside
    <2>1. UNCHANGED <<op, known>>
        BY <1>2 DEF Arrives, hubVars
    <2> QED
        BY <1>2, <2>1, ArrivesKeeps DEF Aside
<1>3. ASSUME NEW s \in Stops, StopNext(s)
      PROVE  Aside
    BY <1>1, <1>3
    DEF StopNext, StopRelists, StopCloses, StopRefreshes, StopFails, StopLists, hubVars
<1>4. ASSUME NEW z \in Resumes, ResumeNext(z) \/ \E a \in Agents : ResumeArrives(z, a)
      PROVE  Aside
    BY <1>1, <1>4 DEF ResumeNext, Reissues, ResumeSplits, ResumeStarts, ResumeStartFails,
                      ResumeCloses, ResumeFails, ResumeArrives, hubVars
<1>5. ASSUME NEW t \in Terminals, AgentCalls(t)
      PROVE  Aside
    BY <1>1, <1>5 DEF AgentCalls
<1>6. ASSUME NEW a \in Agents, NotifierWrites(a)
      PROVE  Aside
    BY <1>1, <1>6 DEF NotifierWrites
<1>7. CASE Refreshes \/ PaneInput
    BY <1>1, <1>7 DEF Refreshes, PaneInput, hubVars
<1>8. CASE HubRestarts
    BY <1>8 DEF HubRestarts, Aside, hubVars, NoRequest
<1> QED
    BY <1>2, <1>3, <1>4, <1>5, <1>6, <1>7, <1>8 DEF LifecycleNext, StopNext

LEMMA OpsStep ==
    ASSUME LifecycleAssumption, LifecycleTypes, Serial, Ops, PanesKept, LifecycleNext
    PROVE  Ops'
<1>1. CASE \E r \in Requests : RequestNext(r)
    BY <1>1, RequestOps
<1>2. CASE \A r \in Requests : ~RequestNext(r)
    BY <1>2, OthersAside, OpsSame DEF Aside
<1> QED
    BY <1>1, <1>2

-----------------------------------------------------------------------------
(* Where the writers of routes lead.                                       *)

(* The route of a stays with its terminal, or is moved to its pane.        *)
Follows(a) ==
    /\ route'[a].terminal = route[a].terminal
    /\ \/ route'[a].pane = route[a].pane
       \/ AtPane(route'[a].pane) /\ live[route'[a].pane] = route[a].terminal

FollowsAll == \A a \in Agents : Follows(a)

LEMMA SameFollows ==
    ASSUME route' = route
    PROVE  FollowsAll
BY DEF FollowsAll, Follows

LEMMA StaleFollows ==
    ASSUME LifecycleTypes, NEW S, route' = MarkedStale(route, S)
    PROVE  FollowsAll
<1>1. \A a \in Agents : route[a] \in Route
    BY DEF LifecycleTypes, RouteTypes
<1>2. \A a \in Agents : route'[a] = route[a] \/ route'[a] = [route[a] EXCEPT !.state = "stale"]
    BY DEF MarkedStale
<1> QED
    BY <1>1, <1>2 DEF FollowsAll, Follows, Route

LEMMA HealedFollows ==
    ASSUME LifecycleTypes, NEW a \in Agents, Exists(route[a].terminal),
           route' = Healed(route, a, PaneOf(route[a].terminal))
    PROVE  FollowsAll
<1>1. \A x \in Agents : route[x] \in Route
    BY DEF LifecycleTypes, RouteTypes
<1>2. PICK n : n = PaneOf(route[a].terminal)
    OBVIOUS
<1>3. AtPane(n) /\ live[n] = route[a].terminal
    BY <1>2, PaneOfPlace DEF LifecycleTypes, PaneTypes, HerdrTypeOK, AtPane
<1>4. /\ \A x \in Agents \ {a} : route'[x] = route[x]
      /\ route'[a] = [route[a] EXCEPT !.pane = n]
    BY <1>2 DEF Healed, LifecycleTypes, RouteTypes
<1>5. route'[a].pane = n /\ route'[a].terminal = route[a].terminal
    BY <1>1, <1>4 DEF Route
<1> QED
    BY <1>3, <1>4, <1>5 DEF FollowsAll, Follows

LEMMA ReconciledFollows ==
    ASSUME LifecycleTypes, route' = Reconciled(PaneList)
    PROVE  FollowsAll
<1>1. \A a \in Agents : route[a] \in Route
    BY DEF LifecycleTypes, RouteTypes
<1>2. ASSUME NEW a \in Agents, Restored(a, PaneList)
      PROVE  /\ AtPane(PaneIn(PaneList, route[a].terminal).pane)
             /\ live[PaneIn(PaneList, route[a].terminal).pane] = route[a].terminal
    <2>1. \E pane \in PaneList : pane.terminal = route[a].terminal
        BY <1>2 DEF Restored
    <2>2. PICK pane : pane = PaneIn(PaneList, route[a].terminal)
        OBVIOUS
    <2>3. pane \in PaneList /\ pane.terminal = route[a].terminal
        BY <2>1, <2>2 DEF PaneIn
    <2>4. PICK i \in DOMAIN live :
             pane = [terminal |-> live[i], pane |-> i,
                     agent |-> kind[live[i]], activity |-> activity[live[i]]]
        BY <2>3 DEF PaneList
    <2> QED
        BY <2>2, <2>3, <2>4 DEF AtPane
<1>3. ASSUME NEW a \in Agents
      PROVE  Follows(a)
    <2>1. CASE Restored(a, PaneList)
        <3>1. PICK n : n = PaneIn(PaneList, route[a].terminal).pane
            OBVIOUS
        <3>2. route'[a] = [route[a] EXCEPT !.pane = n, !.state = "active"]
            BY <2>1, <3>1 DEF Reconciled
        <3>3. route'[a].pane = n /\ route'[a].terminal = route[a].terminal
            BY <1>1, <3>2 DEF Route
        <3> QED
            BY <1>2, <2>1, <3>1, <3>3 DEF Follows
    <2>2. CASE ~Restored(a, PaneList)
        <3>1. route'[a] = route[a] \/ route'[a] = [route[a] EXCEPT !.state = "stale"]
            BY <2>2 DEF Reconciled
        <3> QED
            BY <1>1, <3>1 DEF Follows, Route
    <2> QED
        BY <2>1, <2>2
<1> QED
    BY <1>3 DEF FollowsAll

LEMMA BoundFollows ==
    ASSUME LifecycleTypes, NEW a \in Agents, NEW t, NEW p, NEW k, route' = Bound(a, t, p, k)
    PROVE  /\ \A x \in Agents \ {a} : Follows(x)
           /\ Follows(a) \/ (route'[a].terminal = t /\ route'[a].pane = p)
<1>1. \A x \in Agents : route[x] \in Route
    BY DEF LifecycleTypes, RouteTypes
<1>2. \A x \in Agents \ {a} :
         route'[x] = route[x] \/ route'[x] = [route[x] EXCEPT !.state = "stale"]
    BY DEF Bound
<1>3. route'[a] = route[a]
      \/ route'[a] = [terminal |-> t, pane |-> p, occupant |-> k, state |-> "active"]
    BY DEF Bound
<1>4. \A x \in Agents \ {a} : Follows(x)
    BY <1>1, <1>2 DEF Follows, Route
<1>5. Follows(a) \/ (route'[a].terminal = t /\ route'[a].pane = p)
    BY <1>3 DEF Follows
<1> QED
    BY <1>4, <1>5

-----------------------------------------------------------------------------
(* Who holds tokens, routes and records.                                   *)

RowsKept ==
    /\ retired' = retired
    /\ \A t \in Terminals : env'[t] # None => env'[t] \in known' \/ env'[t] = env[t]
    /\ known \subseteq known'
    /\ \A a \in Agents : \/ route'[a].terminal = route[a].terminal
                         \/ a \in known' /\ route'[a].terminal # None
    /\ \A p \in PaneIds : record'[p].agent # None =>
          \/ record'[p].agent = record[p].agent
          \/ route'[record'[p].agent].terminal # None

LEMMA RowsFrom ==
    ASSUME LifecycleTypes, Rows, RowsKept
    PROVE  Rows'
<1>1. \A t \in Terminals : env'[t] # None => env'[t] \in known'
    BY DEF Rows, RowsKept
<1>2. \A a \in Agents : /\ route'[a].terminal # None => a \in known'
                        /\ route[a].terminal # None => route'[a].terminal # None
    BY DEF Rows, RowsKept
<1>3. \A p \in PaneIds : record[p].agent \in Agents \union {None}
    BY DEF LifecycleTypes, RowTypes, Record
<1>4. \A p \in PaneIds : record'[p].agent # None => route'[record'[p].agent].terminal # None
    BY <1>2, <1>3 DEF Rows, RowsKept
<1> QED
    BY <1>1, <1>2, <1>4 DEF Rows, RowsKept

LEMMA RowsSame ==
    ASSUME LifecycleTypes, Rows, retired' = retired, known \subseteq known', env' = env,
           FollowsAll, \A p \in PaneIds : record'[p].agent = record[p].agent
    PROVE  Rows'
BY RowsFrom DEF RowsKept, FollowsAll, Follows

LEMMA RowsDeleted ==
    ASSUME LifecycleTypes, Rows, retired' = retired, NEW a \in Agents, Deleted(a),
           LifecycleAssumption,
           \A p \in PaneIds : record'[p].agent # None =>
              record'[p].agent # a /\ record'[p].agent = record[p].agent
    PROVE  Rows'
<1>1. /\ known' = known \ {a} /\ env' = Revoked(a)
      /\ \A x \in Agents \ {a} : route'[x] = route[x]
      /\ route'[a].terminal = None
    BY DEF Deleted, LifecycleTypes, RouteTypes, Unrouted
<1>2. \A t \in Terminals : env'[t] # None => env'[t] = env[t] /\ env'[t] # a
    BY <1>1 DEF Revoked
<1>3. \A p \in PaneIds : record[p].agent \in Agents \union {None}
    BY DEF LifecycleTypes, RowTypes, Record
<1>4. \A t \in Terminals : env'[t] # None => env'[t] \in known'
    BY <1>1, <1>2 DEF Rows
<1>5. \A x \in Agents : route'[x].terminal # None => x \in known'
    BY <1>1 DEF Rows
<1>6. \A p \in PaneIds : record'[p].agent # None => route'[record'[p].agent].terminal # None
    BY <1>1, <1>3 DEF Rows
<1> QED
    BY <1>4, <1>5, <1>6 DEF Rows

LEMMA ScannedAgents ==
    ASSUME LifecycleTypes
    PROVE  /\ \A p \in PaneIds : Scanned[p].agent = record[p].agent
           /\ \A p : \A q \in PaneIds : Deactivated(p)[q].agent = record[q].agent
<1>1. \A p \in PaneIds : record[p] \in Record
    BY DEF LifecycleTypes, RowTypes
<1>2. \A p \in PaneIds : [record[p] EXCEPT !.active = FALSE].agent = record[p].agent
    BY <1>1 DEF Record
<1>3. \A p \in PaneIds : Scanned[p] \in {record[p], [record[p] EXCEPT !.active = FALSE]}
    BY DEF Scanned
<1>4. ASSUME NEW p, NEW q \in PaneIds
      PROVE  Deactivated(p)[q].agent = record[q].agent
    <2>1. Deactivated(p)[q] \in {record[q], [record[q] EXCEPT !.active = FALSE]}
        BY DEF Deactivated, LifecycleTypes, RowTypes
    <2> QED
        BY <1>2, <2>1
<1>5. \A p \in PaneIds : Scanned[p].agent = record[p].agent
    BY <1>2, <1>3
<1> QED
    BY <1>4, <1>5

LEMMA ConfirmedRouted ==
    ASSUME LifecycleAssumption, LifecycleTypes, NEW o \in Op, NEW rt, Confirmed(o, rt)
    PROVE  o.agent \in Agents /\ rt[o.agent].terminal = live[o.pane] /\ live[o.pane] # None
<1>1. AtPane(o.pane) /\ o.agent = o.handle
      /\ Holders(rt, live[o.pane]) \cap {a \in Agents : rt[a].state = "active"} = {o.handle}
    BY DEF Confirmed
<1>2. o.handle \in Holders(rt, live[o.pane])
    BY <1>1
<1>3. live[o.pane] \in Terminals
    BY <1>1 DEF AtPane, LifecycleTypes, PaneTypes, HerdrTypeOK
<1> QED
    BY <1>1, <1>2, <1>3 DEF Holders, LifecycleAssumption

LEMMA RequestBooks ==
    ASSUME LifecycleAssumption, LifecycleTypes, Serial, Ops, Rows,
           NEW r \in Requests, RequestNext(r)
    PROVE  Rows'
<1>1. CASE Begins(r) \/ Unprepared(r) \/ SplitAnswered(r) \/ SplitFails(r) \/ StartAgent(r)
           \/ StartFails(r) \/ BindFails(r) \/ Briefs(r) \/ ConfirmFails(r)
           \/ ListsForCleanup(r) \/ CleanupFails(r)
    <2>1. UNCHANGED <<retired, known, env, route, record>>
        BY <1>1 DEF Begins, Unprepared, SplitAnswered, SplitFails, StartAgent, StartFails,
                    BindFails, Briefs, ConfirmFails, ListsForCleanup, CleanupFails,
                    paneVars, hubVars, Starts
    <2> QED
        BY <2>1, SameFollows, RowsSame
<1>2. CASE Prepares(r)
    <2>1. retired' = retired /\ env' = env /\ route' = Reconciled(PaneList) /\ record' = Scanned
          /\ known \subseteq known'
        BY <1>2 DEF Prepares, paneVars
    <2> QED
        BY <2>1, ReconciledFollows, ScannedAgents, RowsSame
<1>3. CASE RefreshesForSpawn(r)
    <2>1. UNCHANGED <<retired, known, env, record>> /\ route' \in {route, Reconciled(PaneList)}
        BY <1>3 DEF RefreshesForSpawn, paneVars
    <2> QED
        BY <2>1, SameFollows, ReconciledFollows, RowsSame
<1>4. CASE SplitPane(r)
    <2>1. PICK t, a : Splits(t, a) /\ a = OpOf(r).agent
        BY <1>4 DEF SplitPane
    <2>2. UNCHANGED <<retired, known, route, record>>
        BY <1>4 DEF SplitPane, hubVars
    <2>3. a # None => a \in known
        BY <1>4, <2>1, RequestTyped DEF SplitPane, Ops, OpSound, OpOf
    <2>4. \A u \in Terminals : env'[u] = env[u] \/ env'[u] = a
        BY <2>1 DEF Splits, LifecycleTypes, PaneTypes
    <2>5. RowsKept
        BY <2>2, <2>3, <2>4 DEF RowsKept
    <2> QED
        BY <2>5, RowsFrom
<1>5. CASE BindRoute(r)
    <2>1. PICK a, t, p : a = OpOf(r).agent /\ t = OpOf(r).terminal /\ p = OpOf(r).pane
        OBVIOUS
    <2>2. /\ route' = Bound(a, t, p, Harness) /\ a # None /\ AtPane(p) /\ live[p] = t
          /\ UNCHANGED <<retired, known, record, env>>
        BY <1>5, <2>1 DEF BindRoute, PaneMatches, paneVars
    <2>3. a \in known /\ a \in Agents
        BY <1>5, <2>1, <2>2, RequestTyped
        DEF BindRoute, Ops, OpSound, OpOf, LifecycleTypes, RouteTypes
    <2>4. t # None
        BY <2>2 DEF AtPane, LifecycleTypes, PaneTypes, HerdrTypeOK, LifecycleAssumption
    <2>5. RowsKept
        BY <2>2, <2>3, <2>4, BoundFollows DEF RowsKept, Follows
    <2> QED
        BY <2>5, RowsFrom
<1>6. CASE Commits(r)
    <2>1. PICK o : o = OpOf(r)
        OBVIOUS
    <2>2. /\ UNCHANGED <<retired, known, env>>
          /\ route' = Reconciled(PaneList)
          /\ Confirmed(o, route')
          /\ \E role : record' = Registered(o.pane, o.terminal, o.agent, role)
        BY <1>6, <2>1 DEF Commits, paneVars
    <2>3. o \in Op
        BY <1>6, <2>1, RequestTyped DEF Commits
    <2>4. route'[o.agent].terminal # None
        BY <2>2, <2>3, ConfirmedRouted
    <2>5. \A p \in PaneIds : record'[p].agent \in {record[p].agent, o.agent}
        BY <2>2 DEF Registered, LifecycleTypes, RowTypes
    <2>6. FollowsAll
        BY <2>2, ReconciledFollows
    <2>7. RowsKept
        BY <2>2, <2>4, <2>5, <2>6 DEF RowsKept, FollowsAll, Follows
    <2> QED
        BY <2>7, RowsFrom
<1>7. CASE RemovesUnbound(r)
    <2>1. UNCHANGED <<retired, record>>
        BY <1>7 DEF RemovesUnbound
    <2>2. CASE UNCHANGED <<known, route, env>>
        BY <2>1, <2>2, SameFollows, RowsSame
    <2>3. ASSUME NEW a, a = OpOf(r).agent, a # None, route[a].terminal = None, Deleted(a)
          PROVE  Rows'
        <3>1. a \in Agents
            BY <1>7, <2>3, RequestTyped DEF RemovesUnbound, Op
        <3>2. \A p \in PaneIds : record'[p].agent # None =>
                  record'[p].agent # a /\ record'[p].agent = record[p].agent
            BY <2>1, <2>3 DEF Rows
        <3> QED
            BY <2>1, <2>3, <3>1, <3>2, RowsDeleted
    <2> QED
        BY <1>7, <2>2, <2>3 DEF RemovesUnbound
<1>8. CASE ClosesSpawn(r)
    <2>1. PICK o : o = OpOf(r)
        OBVIOUS
    <2>2. retired' = retired /\ o \in Op
        BY <1>8, <2>1, RequestTyped DEF ClosesSpawn
    <2>3. CASE UNCHANGED <<known, route, env, record>>
        BY <2>2, <2>3, SameFollows, RowsSame
    <2>4. \A p \in PaneIds : WithoutRecord(o)[p].agent # None =>
              WithoutRecord(o)[p].agent = record[p].agent
        BY DEF WithoutRecord, LifecycleTypes, RowTypes, NoRecord
    <2>5. CASE o.agent # None /\ record' = WithoutRecord(o) /\ Deleted(o.agent)
               /\ Removable(o, StaleOwn(o, request[r].own), WithoutRecord(o))
        <3>1. o.agent \in Agents
            BY <2>2, <2>5 DEF Op
        <3>2. \A p \in PaneIds : record'[p].agent # o.agent
            BY <2>5 DEF Removable
        <3> QED
            BY <2>2, <2>4, <2>5, <3>1, <3>2, RowsDeleted
    <2>6. CASE /\ record' = WithoutRecord(o) /\ route' = StaleOwn(o, request[r].own)
               /\ UNCHANGED <<known, env>>
        <3>1. FollowsAll
            <4>1. route' = route \/ route' = MarkedStale(route, {o.agent})
                BY <2>6 DEF StaleOwn
            <4> QED
                BY <4>1, SameFollows, StaleFollows
        <3>2. RowsKept
            BY <2>2, <2>4, <2>6, <3>1 DEF RowsKept, FollowsAll, Follows
        <3> QED
            BY <3>2, RowsFrom
    <2> QED
        BY <1>8, <2>1, <2>3, <2>5, <2>6 DEF ClosesSpawn
<1> QED
    BY <1>1, <1>2, <1>3, <1>4, <1>5, <1>6, <1>7, <1>8 DEF RequestNext

LEMMA BooksStep ==
    ASSUME LifecycleAssumption, LifecycleTypes, Serial, Ops, Rows, LifecycleNext
    PROVE  Rows'
<1>1. ASSUME UNCHANGED <<retired, known, env, route, record>>
      PROVE  Rows'
    BY <1>1, SameFollows, RowsSame
<1>2. ASSUME NEW z \in Resumes, ResumeNext(z)
      PROVE  Rows'
    <2>1. CASE ResumeStartFails(z) \/ ResumeCloses(z) \/ ResumeFails(z)
        BY <1>1, <2>1 DEF ResumeStartFails, ResumeCloses, ResumeFails, Closes, paneVars, hubVars
    <2>2. CASE Reissues(z)
        <3>1. UNCHANGED <<retired, known, route, record>>
            BY <2>2 DEF Reissues, hubVars
        <3>2. env' = env \/ env' = Revoked(resume[z].agent)
            BY <2>2 DEF Reissues
        <3>3. \A t \in Terminals : env'[t] = env[t] \/ env'[t] = None
            BY <3>2 DEF Revoked
        <3>4. RowsKept
            BY <3>1, <3>3 DEF RowsKept
        <3> QED
            BY <3>4, RowsFrom
    <2>3. CASE ResumeSplits(z)
        <3>1. UNCHANGED <<retired, known, route, record>>
            BY <2>3 DEF ResumeSplits, hubVars
        <3>2. PICK t, a : Splits(t, a) /\ (a = None \/ a \in known)
            BY <2>3 DEF ResumeSplits
        <3>3. \A u \in Terminals : env'[u] = env[u] \/ env'[u] = a
            BY <3>2 DEF Splits, LifecycleTypes, PaneTypes
        <3>4. RowsKept
            BY <3>1, <3>2, <3>3 DEF RowsKept
        <3> QED
            BY <3>4, RowsFrom
    <2>4. CASE ResumeStarts(z)
        <3>1. UNCHANGED <<retired, known, env>>
            BY <2>4 DEF ResumeStarts, Starts
        <3>2. CASE UNCHANGED <<route, record>>
            BY <1>1, <3>1, <3>2
        <3>3. CASE /\ resume[z].agent \in known
                   /\ route' = Bound(resume[z].agent, resume[z].terminal, resume[z].pane, Harness)
                   /\ record' = Registered(resume[z].pane, resume[z].terminal, resume[z].agent,
                                           RoleOf(resume[z].was))
            <4>1. PICK a, t, p : a = resume[z].agent /\ t = resume[z].terminal /\ p = resume[z].pane
                OBVIOUS
            <4>2. a \in Agents /\ a \in known
                BY <3>3, <4>1 DEF LifecycleTypes, RouteTypes
            <4>3. t # None
                BY <2>4, <4>1 DEF ResumeStarts, LifecycleTypes, TaskTypes, LifecycleAssumption
            <4>4. a \notin retired
                BY DEF Rows
            <4>5. route'[a].terminal = t /\ \A x \in Agents \ {a} : Follows(x)
                <5>1. route' = Bound(a, t, p, Harness)
                    BY <3>3, <4>1
                <5>2. route'[a] = [terminal |-> t, pane |-> p, occupant |-> Harness,
                                   state |-> "active"]
                    BY <4>2, <4>4, <5>1 DEF Bound
                <5> QED
                    BY <4>2, <5>1, <5>2, BoundFollows
            <4>6. \A q \in PaneIds : record'[q].agent \in {record[q].agent, a}
                BY <3>3, <4>1 DEF Registered, LifecycleTypes, RowTypes
            <4>7. RowsKept
                BY <3>1, <4>2, <4>3, <4>5, <4>6 DEF RowsKept, Follows
            <4> QED
                BY <4>7, RowsFrom
        <3> QED
            BY <2>4, <3>2, <3>3 DEF ResumeStarts
    <2> QED
        BY <1>2, <2>1, <2>2, <2>3, <2>4 DEF ResumeNext
<1>3. ASSUME NEW s \in Stops, StopNext(s)
      PROVE  Rows'
    <2>1. CASE StopRelists(s) \/ StopFails(s) \/ \E p \in PaneIds : StopLists(s, p)
        BY <1>1, <2>1 DEF StopRelists, StopFails, StopLists, paneVars, hubVars
    <2>2. CASE StopCloses(s)
        <3>1. /\ UNCHANGED <<retired, known, env>> /\ route' = MarkedStale(route, {stop[s].agent})
              /\ record' = Deactivated(stop[s].pane)
            BY <2>2 DEF StopCloses, Closes
        <3> QED
            BY <3>1, StaleFollows, ScannedAgents, RowsSame
    <2>3. CASE StopRefreshes(s)
        <3>1. UNCHANGED <<retired, known, env, record>> /\ route' \in {route, Reconciled(PaneList)}
            BY <2>3 DEF StopRefreshes, paneVars
        <3> QED
            BY <3>1, SameFollows, ReconciledFollows, RowsSame
    <2> QED
        BY <1>3, <2>1, <2>2, <2>3 DEF StopNext
<1>4. ASSUME NEW r \in Requests, NEW k \in Keys, Arrives(r, k)
      PROVE  Rows'
    BY <1>1, <1>4 DEF Arrives, paneVars, hubVars
<1>5. ASSUME NEW z \in Resumes, NEW a \in Agents, ResumeArrives(z, a)
      PROVE  Rows'
    BY <1>1, <1>5 DEF ResumeArrives, paneVars, hubVars
<1>6. ASSUME NEW t \in Terminals, AgentCalls(t)
      PROVE  Rows'
    <2>1. PICK a : a = env[t]
        OBVIOUS
    <2>2. /\ UNCHANGED <<retired, known, env, record>> /\ a # None
          /\ route' = Bound(a, t, PaneOf(t), kind[t])
        BY <1>6, <2>1 DEF AgentCalls, paneVars
    <2>3. a \in known /\ a \in Agents /\ t # None
        BY <2>1, <2>2 DEF Rows, LifecycleTypes, RouteTypes, LifecycleAssumption
    <2>4. RowsKept
        BY <2>2, <2>3, BoundFollows DEF RowsKept, Follows
    <2> QED
        BY <2>4, RowsFrom
<1>7. ASSUME NEW a \in Agents, NotifierWrites(a)
      PROVE  Rows'
    <2>1. /\ UNCHANGED <<retired, known, env, record>>
          /\ \/ route' = MarkedStale(route, {a})
             \/ /\ Exists(route[a].terminal)
                /\ route' = Healed(route, a, PaneOf(route[a].terminal))
        BY <1>7 DEF NotifierWrites, paneVars
    <2> QED
        BY <2>1, StaleFollows, HealedFollows, RowsSame
<1>8. CASE Refreshes
    <2>1. UNCHANGED <<retired, known, env, record>> /\ route' = Reconciled(PaneList)
        BY <1>8 DEF Refreshes, paneVars
    <2> QED
        BY <2>1, ReconciledFollows, RowsSame
<1>9. CASE HubRestarts \/ PaneInput
    BY <1>1, <1>9 DEF HubRestarts, PaneInput, paneVars, hubVars
<1> QED
    BY <1>2, <1>3, <1>4, <1>5, <1>6, <1>7, <1>8, <1>9, RequestBooks DEF LifecycleNext, StopNext

-----------------------------------------------------------------------------
(* The agents that spawns have started.                                    *)

LEMMA ExistsBefore ==
    ASSUME LifecycleTypes, PanesKept, NEW u \in opened, Exists(u)'
    PROVE  Exists(u)
BY DEF LifecycleTypes, PaneTypes, HerdrTypeOK, PanesKept, Falls, Exists

(* Nothing that is known of an agent that spawn k started in u changes.    *)
Undisturbed(k, u) ==
    /\ op'[k].pane = op[k].pane /\ op'[k].terminal = op[k].terminal
    /\ op'[k].handle = op[k].handle /\ op'[k].cleanup # "closed"
    /\ label'[u] = label[u]
    /\ label[u] \in known'
    /\ \A r \in Requests : request'[r].key = k => request'[r].at # "start"
    /\ \A l \in Keys : op'[l].agent = label[u] => op[l].agent = label[u]

LEMMA StartedStays ==
    ASSUME LifecycleAssumption, LifecycleTypes, Ops, PanesKept,
           NEW k \in Keys, NEW u \in Terminals, StartedBy(k, u), Undisturbed(k, u),
           \A t \in Terminals : (Exists(t)' /\ origin'[t] = k) => Exists(t) /\ origin[t] = k
    PROVE  StartedBy(k, u)'
<1>1. OpSound(k) /\ op[k].terminal \in Terminals \union {None}
    BY DEF Ops, LifecycleTypes, RowTypes, Op
<1>2. (AtPane(op[k].pane)' /\ live'[op'[k].pane] = op'[k].terminal) => u = op'[k].terminal
    <2>1. PICK t, p : t = op[k].terminal /\ p = op[k].pane
        OBVIOUS
    <2>2. Placed(t, p)
        BY <1>1, <2>1 DEF OpSound, StartedBy
    <2>3. (AtPane(p)' /\ live'[p] = t) => AtPane(p) /\ live[p] = t
        BY <2>2, PlacedKept
    <2>4. op'[k].terminal = t /\ op'[k].pane = p
        BY <2>1 DEF Undisturbed
    <2>5. (AtPane(p) /\ live[p] = t) => u = t
        BY <2>1 DEF StartedBy
    <2>6. AtPane(op[k].pane)' => AtPane(p)'
        BY <2>4 DEF AtPane
    <2> QED
        BY <2>3, <2>4, <2>5, <2>6
<1>3. \A t \in Terminals : (Exists(t)' /\ origin'[t] = k) => t = u
    BY DEF StartedBy
<1>4. /\ op'[k].pane # 0 /\ op'[k].cleanup # "closed"
      /\ \A r \in Requests : request'[r].key = k => request'[r].at # "start"
      /\ label'[u] = op'[k].handle /\ label'[u] \in known'
      /\ \A l \in Keys : op'[l].agent = label'[u] => l = k
    BY DEF StartedBy, Undisturbed
<1> QED
    BY <1>2, <1>3, <1>4 DEF StartedBy

LEMMA StartedFrom ==
    ASSUME LifecycleAssumption, LifecycleTypes, Ops, PanesKept, Started,
           \A u \in Terminals : (~astray' /\ Exists(u)' /\ origin'[u] # None) =>
               /\ Exists(u) /\ origin'[u] = origin[u]
               /\ \A k \in Keys : (k = origin[u] /\ StartedBy(k, u)) => Undisturbed(k, u)
    PROVE  Started'
<1> SUFFICES ASSUME ~astray', NEW u \in Terminals, Exists(u)', origin'[u] # None,
                    NEW k, k = origin'[u]
             PROVE  StartedBy(k, u)'
    BY DEF Started
<1>1. Exists(u) /\ origin'[u] = origin[u] /\ k = origin[u] /\ k \in Keys
    BY DEF LifecycleTypes, PaneTypes
<1>2. StartedBy(k, u) /\ Undisturbed(k, u)
    BY <1>1 DEF PanesKept, Started
<1>3. \A t \in Terminals : (Exists(t)' /\ origin'[t] = k) => Exists(t) /\ origin[t] = k
    OBVIOUS
<1> QED
    BY <1>1, <1>2, <1>3, StartedStays

LEMMA StartedAside ==
    ASSUME LifecycleAssumption, LifecycleTypes, Ops, PanesKept, Started, Aside,
           UNCHANGED <<label, origin>>
    PROVE  Started'
<1>1. ASSUME NEW u \in Terminals, NEW k \in Keys, StartedBy(k, u)
      PROVE  Undisturbed(k, u)
    BY <1>1 DEF StartedBy, Undisturbed, Aside
<1>2. ASSUME NEW u \in Terminals, Exists(u)', origin'[u] # None
      PROVE  Exists(u)
    BY <1>2, ExistsBefore DEF LifecycleTypes, PaneTypes
<1> QED
    BY <1>1, <1>2, StartedFrom

LEMMA StageAfter ==
    ASSUME LifecycleTypes, NEW r \in Requests
    PROVE  /\ \A at \in Stages : Goes(r, at) => request'[r].at = at
           /\ Answered(r) => request'[r].at = "idle"
           /\ Fail(r) => request'[r].at \in {"cleanup", "idle"}
<1>1. request \in [Requests -> Request] /\ request[r] \in Request
    BY DEF LifecycleTypes, TaskTypes
<1>2. ASSUME NEW at \in Stages, Goes(r, at)
      PROVE  request'[r].at = at
    <2>1. request'[r] = [request[r] EXCEPT !.at = at]
        BY <1>2, GoesMoves
    <2> QED
        BY <1>1, <2>1 DEF Request
<1>3. Answered(r) => request'[r].at = "idle"
    BY AnsweredMoves DEF NoRequest
<1>4. Fail(r) => request'[r].at \in {"cleanup", "idle"}
    BY <1>3, ReportMoves DEF Fail, FailUnknown
<1> QED
    BY <1>2, <1>3, <1>4

LEMMA SplitsStage ==
    ASSUME LifecycleTypes, NEW r \in Requests, SplitPane(r)
    PROVE  request'[r].at = "splitting"
<1>1. PICK t, p : request' = [request EXCEPT ![r].at = "splitting", ![r].terminal = t,
                                             ![r].pane = p]
    BY DEF SplitPane
<1> QED
    BY <1>1 DEF LifecycleTypes, TaskTypes, Request

(* Which steps of a request come to "splitting", "split" or "start".       *)
LEMMA StageReached ==
    ASSUME LifecycleTypes, NEW r \in Requests, RequestNext(r)
    PROVE  /\ request'[r].at = "start" => SplitAnswered(r)
           /\ request'[r].at = "splitting" => SplitPane(r)
           /\ request'[r].at = "split" => Prepares(r)
<1>0. request \in [Requests -> Request] /\ request[r] \in Request
    BY DEF LifecycleTypes, TaskTypes
<1>1. CASE Begins(r)
    <2>0. PICK at \in {"confirm", "bind", "cleanup", "topology"} :
              \E m : request' = [request EXCEPT ![r].at = at, ![r].mode = m]
        BY <1>1 DEF Begins
    <2>1. PICK m : request' = [request EXCEPT ![r].at = at, ![r].mode = m]
        BY <2>0
    <2>2. request'[r].at = at
        BY <1>0, <2>1 DEF Request
    <2> QED
        BY <2>1, <2>2
<1>2. CASE SplitPane(r) \/ Prepares(r)
    <2>1. CASE SplitPane(r)
        <3>1. request'[r].at = "splitting"
            BY <2>1, SplitsStage
        <3> QED
            BY <2>1, <3>1
    <2>2. CASE Prepares(r)
        <3>1. Answered(r) \/ Goes(r, "split")
            BY <2>2 DEF Prepares
        <3> QED
            BY <2>2, <3>1, StageAfter DEF Stages
    <2> QED
        BY <1>2, <2>1, <2>2
<1>3. CASE \/ Unprepared(r) \/ RefreshesForSpawn(r) \/ RemovesUnbound(r) \/ ListsForCleanup(r)
           \/ CleanupFails(r) \/ ClosesSpawn(r)
    <2>1. Answered(r) \/ Goes(r, "closing")
        BY <1>3 DEF Unprepared, RefreshesForSpawn, RemovesUnbound, ListsForCleanup,
                    CleanupFails, ClosesSpawn
    <2> QED
        BY <2>1, StageAfter DEF Stages
<1>4. CASE SplitAnswered(r)
    BY <1>4, StageAfter DEF SplitAnswered, Stages
<1>5. CASE \/ SplitFails(r) \/ StartAgent(r) \/ StartFails(r) \/ BindRoute(r)
           \/ BindFails(r) \/ Briefs(r) \/ Commits(r) \/ ConfirmFails(r)
    <2>1. \/ Fail(r) \/ Answered(r)
          \/ \E at \in {"bind", "confirm", "brief", "refresh"} : Goes(r, at)
        BY <1>5 DEF SplitFails, StartAgent, StartFails, BindRoute, BindFails, Briefs, Commits,
                    ConfirmFails, Fail
    <2> QED
        BY <2>1, StageAfter DEF Stages
<1> QED
    BY <1>1, <1>2, <1>3, <1>4, <1>5 DEF RequestNext

SameRow(k) ==
    /\ op'[k].agent = op[k].agent /\ op'[k].handle = op[k].handle
    /\ op'[k].terminal = op[k].terminal /\ op'[k].pane = op[k].pane

(* What a step does to the row of its key.                                 *)
RowEffect(k) ==
    \/ /\ known' = known /\ SameRow(k)
       /\ op'[k].cleanup = "closed" => op[k].cleanup = "closed"
    \/ /\ op[k].pane = 0 \/ op[k].cleanup = "closed"
       /\ \A x \in known : x \in known' \/ x = op[k].agent
       /\ op'[k].cleanup # "closed"
       /\ \/ op'[k].agent = None
          \/ /\ op'[k].agent = op[k].agent
             /\ \/ op'[k].terminal = op[k].terminal /\ op'[k].pane = op[k].pane
                \/ \E r \in Requests : request[r].key = k /\ SplitAnswered(r)
          \/ op'[k].agent \notin known /\ op'[k].terminal = None
    \/ /\ op'[k].agent \in {op[k].agent, None}
       /\ op'[k].terminal = op[k].terminal /\ op'[k].pane = op[k].pane
       /\ \A x \in known : x \in known' \/ x = op[k].agent
       /\ \E r \in Requests : request[r].key = k /\ ClosesSpawn(r)

LEMMA FailRow ==
    ASSUME LifecycleTypes, NEW r \in Requests, NEW k \in Keys, k = request[r].key, Fail(r),
           LifecycleAssumption
    PROVE  /\ \A l \in Keys \ {k} : op'[l] = op[l]
           /\ SameRow(k) /\ op'[k].cleanup \in {op[k].cleanup, "skipped"}
<1>1. op \in [Keys -> Op] /\ op[k] \in Op
    BY DEF LifecycleTypes, RowTypes
<1>2. \/ op' = [op EXCEPT ![k].status = "failed"]
      \/ op' = [op EXCEPT ![k].status = "failed", ![k].cleanup = "skipped"]
    BY DEF Fail, FailReported, FailUnknown, RequestOf
<1>3. /\ \A l \in Keys \ {k} : op'[l] = op[l]
      /\ \/ op'[k] = [op[k] EXCEPT !.status = "failed"]
         \/ op'[k] = [op[k] EXCEPT !.status = "failed", !.cleanup = "skipped"]
    BY <1>1, <1>2
<1> QED
    BY <1>1, <1>3 DEF SameRow, Op

LEMMA OutcomeRow ==
    ASSUME LifecycleTypes, Ops, NEW r \in Requests, NEW k \in Keys, k = request[r].key,
           LifecycleAssumption, NEW c,
           \/ CleanupIs(r, op, c)
           \/ OpOf(r).agent # None /\ CleanupIs(r, WithoutParticipant(op, OpOf(r).agent), c)
    PROVE  /\ \A l \in Keys \ {k} : op'[l] = op[l]
           /\ op'[k].terminal = op[k].terminal /\ op'[k].pane = op[k].pane
           /\ op'[k].handle = op[k].handle /\ op'[k].cleanup = c
           /\ op'[k].agent \in {op[k].agent, None}
           /\ CleanupIs(r, op, c) => op'[k].agent = op[k].agent
<1>1. op \in [Keys -> Op] /\ op[k] \in Op /\ OpOf(r) = op[k] /\ OpSound(k)
    BY DEF LifecycleTypes, RowTypes, OpOf, RequestOf, Ops
<1>2. CASE CleanupIs(r, op, c)
    <2>1. op' = [op EXCEPT ![k].cleanup = c]
        BY <1>2 DEF CleanupIs, RequestOf
    <2>2. /\ \A l \in Keys \ {k} : op'[l] = op[l]
          /\ op'[k] = [op[k] EXCEPT !.cleanup = c]
        BY <1>1, <2>1
    <2> QED
        BY <1>1, <2>2 DEF Op
<1>3. ASSUME op[k].agent # None, CleanupIs(r, WithoutParticipant(op, op[k].agent), c)
      PROVE  /\ \A l \in Keys \ {k} : op'[l] = op[l]
             /\ op'[k] = [[op[k] EXCEPT !.agent = None] EXCEPT !.cleanup = c]
    <2>1. PICK a : a = op[k].agent
        OBVIOUS
    <2>2. op' = [WithoutParticipant(op, a) EXCEPT ![k].cleanup = c]
        BY <1>3, <2>1 DEF CleanupIs, RequestOf
    <2>3. \A l \in Keys \ {k} : op[l].agent # a
        BY <1>1, <1>3, <2>1 DEF OpSound
    <2> QED
        BY <2>1, <2>2, <2>3 DEF WithoutParticipant
<1>4. CASE /\ OpOf(r).agent # None /\ CleanupIs(r, WithoutParticipant(op, OpOf(r).agent), c)
           /\ ~CleanupIs(r, op, c)
    <2>1. /\ \A l \in Keys \ {k} : op'[l] = op[l]
          /\ op'[k] = [[op[k] EXCEPT !.agent = None] EXCEPT !.cleanup = c]
        BY <1>1, <1>3, <1>4
    <2> QED
        BY <1>1, <1>4, <2>1 DEF Op
<1> QED
    BY <1>2, <1>4

LEMMA OutcomeIs ==
    ASSUME NEW rows \in [Keys -> Op], NEW r, RequestOf(r) \in Keys, NEW c, CleanupIs(r, rows, c)
    PROVE  op'[RequestOf(r)].cleanup = c
<1>1. PICK k \in Keys : k = RequestOf(r)
    OBVIOUS
<1>2. op' = [rows EXCEPT ![k].cleanup = c] /\ rows[k] \in Op
    BY <1>1 DEF CleanupIs
<1>3. op'[k] = [rows[k] EXCEPT !.cleanup = c]
    BY <1>2
<1> QED
    BY <1>1, <1>2, <1>3 DEF Op

LEMMA RequestRow ==
    ASSUME LifecycleAssumption, LifecycleTypes, Serial, Ops,
           NEW r \in Requests, NEW k \in Keys, k = request[r].key, RequestNext(r)
    PROVE  /\ \A l \in Keys \ {k} : op'[l] = op[l]
           /\ RowEffect(k)
           /\ StartAgent(r) \/ UNCHANGED <<label, origin>>
<1>0. /\ op \in [Keys -> Op] /\ op[k] \in Op /\ OpOf(r) = op[k] /\ RequestOf(r) = k
      /\ RowFits(r) /\ OpSound(k)
    BY DEF LifecycleTypes, RowTypes, OpOf, RequestOf, Ops
<1>1. ASSUME op' = op, known' = known
      PROVE  (\A l \in Keys \ {k} : op'[l] = op[l]) /\ RowEffect(k)
    BY <1>1 DEF RowEffect, SameRow
<1>2. ASSUME Fail(r), known' = known
      PROVE  (\A l \in Keys \ {k} : op'[l] = op[l]) /\ RowEffect(k)
    BY <1>2, FailRow DEF RowEffect
<1>3. CASE Begins(r)
    <2>1. UNCHANGED <<known, label, origin>>
        BY <1>3 DEF Begins, paneVars
    <2>2. CASE op' = [op EXCEPT ![k].status = "failed"]
        <3>1. op'[k] = [op[k] EXCEPT !.status = "failed"] /\ \A l \in Keys \ {k} : op'[l] = op[l]
            BY <1>0, <2>2
        <3>2. SameRow(k) /\ op'[k].cleanup = op[k].cleanup
            BY <1>0, <3>1 DEF SameRow, Op
        <3> QED
            BY <2>1, <3>1, <3>2 DEF RowEffect
    <2>3. CASE op' = Reset(k) /\ (op[k].pane = 0 \/ op[k].cleanup = "closed")
        <3>1. op[k].status = "absent" => op' = op
            BY <2>3 DEF Reset
        <3>2. CASE op[k].status # "absent"
            <4>1. op'[k] = PendingOp /\ \A l \in Keys \ {k} : op'[l] = op[l]
                BY <1>0, <2>3, <3>2 DEF Reset
            <4>2. op'[k].agent = None /\ op'[k].cleanup # "closed"
                BY <4>1 DEF PendingOp, AbsentOp, LifecycleAssumption
            <4> QED
                BY <2>1, <2>3, <4>1, <4>2 DEF RowEffect
        <3> QED
            BY <1>1, <2>1, <3>1, <3>2
    <2>4. \/ op' = op
          \/ op' = [op EXCEPT ![k].status = "failed"]
          \/ op' = Reset(k) /\ (op[k].pane = 0 \/ op[k].cleanup = "closed")
        BY <1>0, <1>3 DEF Begins, Abandoned
    <2> QED
        BY <1>1, <2>1, <2>2, <2>3, <2>4
<1>4. CASE Prepares(r)
    <2>1. UNCHANGED <<label, origin>> /\ op[k].pane = 0
        BY <1>0, <1>4 DEF Prepares, paneVars, RowFits
    <2>2. CASE UNCHANGED <<op, known>>
        BY <1>1, <2>1, <2>2
    <2>3. ASSUME NEW a \in Unused, known' = known \union {a},
                 op' = [op EXCEPT ![k] = [PendingOp EXCEPT !.agent = a, !.handle = a,
                                                           !.baseline = DOMAIN live]]
          PROVE  (\A l \in Keys \ {k} : op'[l] = op[l]) /\ RowEffect(k)
        <3>1. /\ \A l \in Keys \ {k} : op'[l] = op[l]
              /\ op'[k] = [PendingOp EXCEPT !.agent = a, !.handle = a, !.baseline = DOMAIN live]
            BY <1>0, <2>3
        <3>2. /\ op'[k].agent = a /\ a \notin known
              /\ op'[k].terminal = None /\ op'[k].cleanup # "closed"
            BY <3>1 DEF PendingOp, AbsentOp, Unused, LifecycleAssumption
        <3> QED
            BY <2>1, <2>3, <3>1, <3>2 DEF RowEffect
    <2>4. CASE /\ known' = known
               /\ op' = [op EXCEPT ![k] = [PendingOp EXCEPT !.status = "failed",
                                                            !.baseline = DOMAIN live]]
        <3>1. /\ \A l \in Keys \ {k} : op'[l] = op[l]
              /\ op'[k] = [PendingOp EXCEPT !.status = "failed", !.baseline = DOMAIN live]
            BY <1>0, <2>4
        <3>2. op'[k].agent = None /\ op'[k].cleanup # "closed"
            BY <3>1 DEF PendingOp, AbsentOp, LifecycleAssumption
        <3> QED
            BY <2>1, <2>4, <3>1, <3>2 DEF RowEffect
    <2> QED
        BY <1>0, <1>4, <2>1, <2>2, <2>3, <2>4, FreshIn DEF Prepares
<1>5. CASE SplitAnswered(r)
    <2>1. /\ UNCHANGED <<known, label, origin>> /\ op[k].pane = 0
          /\ op' = [op EXCEPT ![k].terminal = request[r].terminal, ![k].pane = request[r].pane]
        BY <1>0, <1>5 DEF SplitAnswered, paneVars, RowFits
    <2>2. /\ \A l \in Keys \ {k} : op'[l] = op[l]
          /\ op'[k] = [op[k] EXCEPT !.terminal = request[r].terminal, !.pane = request[r].pane]
        BY <1>0, <2>1
    <2>3. op'[k].agent = op[k].agent /\ op'[k].cleanup = op[k].cleanup
        BY <1>0, <2>2 DEF Op
    <2>4. op[k].cleanup # "closed"
        BY <1>0, <1>5 DEF SplitAnswered, RowFits, Works
    <2> QED
        BY <1>5, <2>1, <2>2, <2>3, <2>4 DEF RowEffect
<1>6. CASE Commits(r)
    <2>1. /\ UNCHANGED <<known, label, origin>>
          /\ op' = [op EXCEPT ![k].status = "committed"]
        BY <1>0, <1>6 DEF Commits, paneVars
    <2>2. op'[k] = [op[k] EXCEPT !.status = "committed"] /\ \A l \in Keys \ {k} : op'[l] = op[l]
        BY <1>0, <2>1
    <2>3. SameRow(k) /\ op'[k].cleanup = op[k].cleanup
        BY <1>0, <2>2 DEF SameRow, Op
    <2> QED
        BY <2>1, <2>2, <2>3 DEF RowEffect
<1>7. CASE Unprepared(r) \/ SplitPane(r) \/ BindRoute(r) \/ RefreshesForSpawn(r)
    <2>1. UNCHANGED <<op, known, label, origin>>
        BY <1>7 DEF Unprepared, SplitPane, Splits, BindRoute, RefreshesForSpawn, paneVars, hubVars
    <2> QED
        BY <1>1, <2>1
<1>8. CASE SplitFails(r) \/ StartFails(r) \/ BindFails(r) \/ Briefs(r) \/ ConfirmFails(r)
    <2>1. UNCHANGED <<known, label, origin>> /\ (op' = op \/ Fail(r))
        BY <1>8 DEF SplitFails, StartFails, BindFails, Briefs, ConfirmFails, Fail, paneVars
    <2> QED
        BY <1>1, <1>2, <2>1
<1>9. CASE StartAgent(r)
    <2>1. known' = known /\ (op' = op \/ Fail(r))
        BY <1>9 DEF StartAgent, Fail
    <2> QED
        BY <1>1, <1>2, <1>9, <2>1
<1>10. CASE ListsForCleanup(r) \/ CleanupFails(r)
    <2>1. UNCHANGED <<known, label, origin>> /\ (op' = op \/ CleanupIs(r, op, "failed"))
        BY <1>10 DEF ListsForCleanup, CleanupFails, paneVars
    <2>2. CASE CleanupIs(r, op, "failed")
        <3>1. /\ \A l \in Keys \ {k} : op'[l] = op[l]
              /\ SameRow(k) /\ op'[k].cleanup = "failed"
            BY <2>2, OutcomeRow DEF SameRow
        <3> QED
            BY <2>1, <3>1 DEF RowEffect
    <2> QED
        BY <1>1, <2>1, <2>2
<1>11. CASE RemovesUnbound(r)
    <2>1. op[k].pane = 0 /\ UNCHANGED <<label, origin>>
        BY <1>0, <1>11 DEF RemovesUnbound
    <2>2. \/ CleanupIs(r, op, "skipped") /\ known' = known
          \/ /\ op[k].agent # None /\ known' = known \ {op[k].agent}
             /\ CleanupIs(r, WithoutParticipant(op, OpOf(r).agent), "skipped")
        BY <1>0, <1>11 DEF RemovesUnbound, Deleted
    <2>3. PICK c : c = "skipped"
        OBVIOUS
    <2>4. \/ CleanupIs(r, op, c)
          \/ OpOf(r).agent # None /\ CleanupIs(r, WithoutParticipant(op, OpOf(r).agent), c)
        BY <1>0, <2>2, <2>3
    <2>5. /\ \A l \in Keys \ {k} : op'[l] = op[l]
          /\ op'[k].agent \in {op[k].agent, None}
          /\ op'[k].terminal = op[k].terminal /\ op'[k].pane = op[k].pane
        BY <2>4, OutcomeRow
    <2>6. op'[k].cleanup = c
        <3>1. CASE CleanupIs(r, op, c)
            BY <3>1, OutcomeRow
        <3>2. CASE /\ OpOf(r).agent # None
                   /\ CleanupIs(r, WithoutParticipant(op, OpOf(r).agent), c)
            BY <1>0, <3>2, WithoutTyped, OutcomeIs
        <3> QED
            BY <2>4, <3>1, <3>2
    <2> QED
        BY <2>1, <2>2, <2>3, <2>5, <2>6 DEF RowEffect
<1>12. CASE ClosesSpawn(r)
    <2>1. UNCHANGED <<label, origin>>
        BY <1>12 DEF ClosesSpawn
    <2>2. \/ CleanupIs(r, op, "closed") /\ known' = known
          \/ /\ op[k].agent # None /\ known' = known \ {op[k].agent}
             /\ CleanupIs(r, WithoutParticipant(op, OpOf(r).agent), "closed")
        BY <1>0, <1>12 DEF ClosesSpawn, Deleted
    <2>3. /\ \A l \in Keys \ {k} : op'[l] = op[l]
          /\ op'[k].agent \in {op[k].agent, None}
          /\ op'[k].terminal = op[k].terminal /\ op'[k].pane = op[k].pane
        BY <1>0, <2>2, OutcomeRow
    <2> QED
        BY <1>12, <2>1, <2>2, <2>3 DEF RowEffect
<1> QED
    BY <1>3, <1>4, <1>5, <1>6, <1>7, <1>8, <1>9, <1>10, <1>11, <1>12 DEF RequestNext

(* A request that is at "start" was there before the step, or has got its  *)
(* pane in it.                                                             *)
LEMMA StartsAfter ==
    ASSUME LifecycleAssumption, LifecycleTypes, Serial, Ops,
           NEW r \in Requests, NEW k \in Keys, k = request[r].key, RequestNext(r),
           NEW x \in Requests, request'[x].at = "start"
    PROVE  x = r /\ request'[x].key = k /\ op[k].pane = 0 /\ request[r].at = "splitting"
<1>1. Moves(r) /\ Holds(r) /\ request \in [Requests -> Request] /\ request[r] \in Request
    BY RequestMoves DEF LifecycleTypes, TaskTypes
<1>2. x = r
    BY <1>1 DEF Moves, Serial, Works, Holds
<1>3. SplitAnswered(r)
    BY <1>2, StageReached
<1>4. /\ request'[r] = [request[r] EXCEPT !.at = "start"] /\ request[r].at = "splitting"
    BY <1>3, GoesMoves DEF SplitAnswered, Stages
<1>5. request'[r].key = request[r].key
    BY <1>1, <1>4 DEF Request
<1>6. op[k].pane = 0
    BY <1>4 DEF Ops, RowFits
<1> QED
    BY <1>2, <1>4, <1>5, <1>6

LEMMA RequestStarted ==
    ASSUME LifecycleAssumption, LifecycleTypes, Serial, Ops, PanesKept, Started,
           NEW r \in Requests, RequestNext(r)
    PROVE  Started'
<1>1. PICK k \in Keys : k = request[r].key
    BY RequestMoves, RequestTyped
<1>2. /\ \A l \in Keys \ {k} : op'[l] = op[l]
      /\ RowEffect(k)
      /\ StartAgent(r) \/ UNCHANGED <<label, origin>>
    BY <1>1, RequestRow
<1>3. /\ OpSound(k) /\ RowFits(r) /\ OpOf(r) = op[k] /\ RequestOf(r) = k
      /\ op \in [Keys -> Op] /\ op[k] \in Op
    BY <1>1 DEF Ops, OpOf, RequestOf, LifecycleTypes, RowTypes
<1>4. None \notin known
    BY DEF LifecycleTypes, RouteTypes, LifecycleAssumption
<1>5. CASE UNCHANGED <<label, origin>>
    <2> SUFFICES ASSUME NEW u \in Terminals, ~astray', Exists(u)', origin'[u] # None,
                        NEW j \in Keys, j = origin[u], StartedBy(j, u)
                 PROVE  Undisturbed(j, u)
        <3>1. ASSUME NEW u \in Terminals, Exists(u)', origin'[u] # None
              PROVE  Exists(u)
            BY <1>5, <3>1, ExistsBefore DEF LifecycleTypes, PaneTypes
        <3> QED
            BY <1>5, <3>1, StartedFrom
    <2>1. Exists(u)
        BY <1>5, ExistsBefore DEF LifecycleTypes, PaneTypes
    <2>2. \A x \in Requests : request'[x].key = j => request'[x].at # "start"
        BY <1>1, StartsAfter DEF StartedBy
    <2>3. CASE j # k
        <3>1. label[u] # op[k].agent
            BY <2>3 DEF StartedBy
        <3>2. label[u] \in known /\ label[u] # None
            BY <1>4 DEF StartedBy
        <3>3. label[u] \in known' /\ op'[k].agent # label[u]
            BY <1>2, <3>1, <3>2 DEF RowEffect, SameRow
        <3>4. op'[j] = op[j]
            BY <1>2, <2>3
        <3> QED
            BY <1>2, <1>5, <2>2, <3>3, <3>4 DEF Undisturbed, StartedBy
    <2>4. CASE j = k /\ ~ClosesSpawn(r)
        <3>1. known' = known /\ SameRow(k) /\ op'[k].cleanup # "closed"
            <4>1. ASSUME NEW x \in Requests, ClosesSpawn(x)
                  PROVE  x = r
                BY <4>1, RequestMoves DEF ClosesSpawn, Holds
            <4> QED
                BY <1>2, <2>4, <4>1 DEF RowEffect, StartedBy
        <3> QED
            BY <1>2, <1>5, <2>2, <2>4, <3>1 DEF Undisturbed, StartedBy, SameRow
    <2>5. CASE j = k /\ ClosesSpawn(r)
        <3>1. PICK v, p : v = op[k].terminal /\ p = op[k].pane
            OBVIOUS
        <3>2. AtPane(p) /\ PaneCloses(live[p]) /\ live[p] = v
            BY <1>3, <2>5, <3>1 DEF ClosesSpawn
        <3>3. u = v
            BY <2>5, <3>1, <3>2 DEF StartedBy
        <3> QED
            BY <3>2, <3>3, ClosesFalls DEF LifecycleTypes, PaneTypes
    <2> QED
        BY <2>3, <2>4, <2>5
<1>6. CASE StartAgent(r)
    <2> SUFFICES ASSUME ~astray', NEW u \in Terminals, Exists(u)', origin'[u] # None,
                        NEW j, j = origin'[u]
                 PROVE  StartedBy(j, u)'
        BY DEF Started
    <2>1. PICK p, v : p = op[k].pane /\ v = live[p]
        OBVIOUS
    <2>2. /\ request[r].at = "start" /\ AtPane(p) /\ live' = live /\ astray' = astray
          /\ known' = known
          /\ label' = [label EXCEPT ![v] = op[k].handle] /\ origin' = [origin EXCEPT ![v] = k]
          /\ op' = op \/ Fail(r)
        BY <1>3, <1>6, <2>1 DEF StartAgent, CanStart, Starts, Fail
    <2>3. v \in Terminals
        BY <2>1, <2>2 DEF AtPane, LifecycleTypes, PaneTypes, HerdrTypeOK
    <2>4. /\ label'[v] = op[k].handle /\ origin'[v] = k
          /\ \A t \in Terminals \ {v} : label'[t] = label[t] /\ origin'[t] = origin[t]
        BY <2>2, <2>3 DEF LifecycleTypes, PaneTypes
    <2>5. \A t \in Terminals : ~(Exists(t) /\ origin[t] = k)
        BY <1>1, <2>2, RequestMoves DEF Started, StartedBy, LifecycleAssumption
    <2>6. \A t : Exists(t)' <=> Exists(t)
        BY <2>2 DEF Exists
    <2>7. SameRow(k) /\ op'[k].cleanup \in {op[k].cleanup, "skipped"}
        BY <1>1, <2>2, FailRow DEF SameRow
    <2>8. \A x \in Requests : request'[x].at # "start"
        BY <1>1, <2>2, StartsAfter
    <2>9. \A l \in Keys : op'[l].agent = op[l].agent
        BY <1>2, <2>7 DEF SameRow
    <2>10. CASE u = v
        <3>1. j = k
            BY <2>4, <2>10
        <3>2. op[k].pane # 0 /\ op[k].agent # None /\ op[k].cleanup # "closed"
            BY <1>1, <2>2, <1>3 DEF RowFits, Works
        <3>3. op[k].handle = op[k].agent /\ op[k].agent \in known
            BY <1>3, <3>2 DEF OpSound
        <3>4. \A l \in Keys : op[l].agent = op[k].agent => l = k
            BY <1>3, <3>2 DEF OpSound
        <3>5. \A t \in Terminals : (Exists(t)' /\ origin'[t] = k) => t = u
            BY <2>4, <2>5, <2>6, <2>10
        <3>6. live'[op'[k].pane] = v
            BY <2>1, <2>2, <2>7 DEF SameRow
        <3>7. label'[u] = op'[k].handle /\ label'[u] = op[k].agent
            BY <2>4, <2>7, <2>10, <3>3 DEF SameRow
        <3>8. op'[k].pane # 0 /\ op'[k].cleanup # "closed"
            BY <2>7, <3>2 DEF SameRow
        <3> QED
            <4>1. (AtPane(op[k].pane)' /\ live'[op'[k].pane] = op'[k].terminal)
                      => u = op'[k].terminal
                BY <2>10, <3>6
            <4>2. label'[u] \in known' /\ \A l \in Keys : op'[l].agent = label'[u] => l = k
                BY <2>2, <2>9, <3>3, <3>4, <3>7
            <4>3. StartedBy(k, u)'
                BY <2>8, <3>5, <3>7, <3>8, <4>1, <4>2 DEF StartedBy
            <4> QED
                BY <3>1, <4>3
    <2>11. CASE u # v
        <3>1. Exists(u) /\ origin[u] = j /\ j # k
            BY <2>4, <2>5, <2>6, <2>11
        <3>2. StartedBy(j, u) /\ j \in Keys
            BY <2>2, <3>1 DEF Started, LifecycleTypes, PaneTypes
        <3>3. op'[j] = op[j]
            BY <1>2, <3>1, <3>2
        <3>4. Undisturbed(j, u)
            BY <2>2, <2>4, <2>8, <2>9, <2>11, <3>2, <3>3 DEF Undisturbed, StartedBy
        <3>5. \A t \in Terminals : (Exists(t)' /\ origin'[t] = j) => Exists(t) /\ origin[t] = j
            BY <2>4, <2>6, <3>1
        <3> QED
            BY <3>2, <3>4, <3>5, StartedStays
    <2> QED
        BY <2>10, <2>11
<1> QED
    BY <1>2, <1>5, <1>6

LEMMA StartedStep ==
    ASSUME LifecycleAssumption, LifecycleTypes, Serial, Ops, PanesKept, Started, LifecycleNext
    PROVE  Started'
<1>1. CASE \E r \in Requests : RequestNext(r)
    BY <1>1, RequestStarted
<1>2. CASE \A r \in Requests : ~RequestNext(r)
    <2>1. Aside
        BY <1>2, OthersAside
    <2>2. CASE UNCHANGED <<label, origin>>
        BY <2>1, <2>2, StartedAside
    <2>3. ASSUME NEW z \in Resumes, ResumeStarts(z)
          PROVE  Started'
        <3>1. PICK p, a : p = resume[z].pane /\ a = resume[z].agent
            OBVIOUS
        <3>2. /\ AtPane(p) /\ live' = live
              /\ label' = [label EXCEPT ![live[p]] = a]
              /\ origin' = [origin EXCEPT ![live[p]] = None]
            BY <2>3, <3>1 DEF ResumeStarts, CanStart, Starts
        <3>3. \A t \in Terminals : /\ t = live[p] => origin'[t] = None
                                   /\ t # live[p] => origin'[t] = origin[t] /\ label'[t] = label[t]
            BY <3>2 DEF LifecycleTypes, PaneTypes
        <3>4. \A u \in Terminals : Exists(u)' => Exists(u)
            BY <3>2 DEF Exists
        <3>5. ASSUME NEW u \in Terminals, origin'[u] # None, NEW k \in Keys, StartedBy(k, u)
              PROVE  Undisturbed(k, u)
            BY <2>1, <3>3, <3>5 DEF StartedBy, Undisturbed, Aside
        <3> QED
            BY <3>3, <3>4, <3>5, StartedFrom
    <2>4. UNCHANGED <<label, origin>> \/ \E z \in Resumes : ResumeStarts(z)
        <3>1. ASSUME UNCHANGED paneVars
              PROVE  UNCHANGED <<label, origin>>
            BY <3>1 DEF paneVars
        <3>2. ASSUME NEW s \in Stops, StopNext(s)
              PROVE  UNCHANGED <<label, origin>>
            BY <3>1, <3>2
            DEF StopNext, StopRelists, StopCloses, StopRefreshes, StopFails, StopLists, Closes
        <3>3. ASSUME NEW z \in Resumes, ResumeNext(z) \/ \E a \in Agents : ResumeArrives(z, a)
              PROVE  UNCHANGED <<label, origin>> \/ ResumeStarts(z)
            BY <3>1, <3>3 DEF ResumeNext, Reissues, ResumeSplits, Splits, ResumeStartFails,
                              ResumeCloses, Closes, ResumeFails, ResumeArrives
        <3>4. ASSUME \/ \E r \in Requests, k \in Keys : Arrives(r, k)
                     \/ \E t \in Terminals : AgentCalls(t)
                     \/ \E a \in Agents : NotifierWrites(a)
                     \/ Refreshes \/ HubRestarts
              PROVE  UNCHANGED <<label, origin>>
            BY <3>1, <3>4 DEF Arrives, AgentCalls, NotifierWrites, Refreshes, HubRestarts
        <3>5. CASE PaneInput
            BY <3>5 DEF PaneInput
        <3> QED
            BY <1>2, <3>2, <3>3, <3>4, <3>5 DEF LifecycleNext, StopNext
    <2> QED
        BY <2>2, <2>3, <2>4
<1> QED
    BY <1>1, <1>2

-----------------------------------------------------------------------------
(* The panes that spawns have split.                                       *)

(* A step that gives agent a no token and no record, and lets its route    *)
(* and its resumes be.                                                     *)
Quiet(a) ==
    /\ \A u \in Terminals : env'[u] = a => env[u] = a
    /\ \A z \in Resumes : resume'[z].agent = a =>
          \/ resume'[z].at = "list" /\ (resume[z].agent = a \/ route[a].terminal # None)
          \/ resume[z].agent = a /\ resume[z].at # "list"
    /\ Follows(a)
    /\ \A q \in PaneIds : record'[q].agent = a => record[q].agent = a

(* A step that keeps what is known of the panes and identities of spawns.  *)
Calm(a) ==
    /\ \A t \in Terminals : \A p \in PaneIds :
          Placed(t, p) /\ Settled(a, t, p) => Settled(a, t, p)'
    /\ Newborn(a) => Newborn(a)'

LEMMA SettledKept ==
    ASSUME LifecycleAssumption, LifecycleTypes, PanesKept,
           NEW a \in Agents, NEW t \in Terminals, NEW p \in PaneIds, Placed(t, p), Settled(a, t, p),
           \A u \in Terminals : env'[u] = a => env[u] = a,
           \A z \in Resumes : resume'[z].agent = a =>
               resume'[z].at = "list" \/ (resume[z].agent = a /\ resume[z].at # "list"),
           env[t] = a => \/ Follows(a) \/ route'[a].terminal = None
                         \/ /\ route'[a].terminal = t /\ AtPane(route'[a].pane)
                            /\ live[route'[a].pane] = t,
           env[t] = a => \A q \in PaneIds : record'[q].agent = a => record[q].agent = a \/ q = p
    PROVE  Settled(a, t, p)'
<1> SUFFICES ASSUME env'[t] = a
             PROVE  /\ \A u \in Terminals : env'[u] = a => u = t
                    /\ \A z \in Resumes : resume'[z].agent = a => resume'[z].at = "list"
                    /\ route'[a].terminal \in {None, t}
                    /\ (route'[a].terminal = t /\ AtPane(p)' /\ live'[p] = t)
                          => route'[a].pane = p
                    /\ \A q \in PaneIds : record'[q].agent = a => q = p
    BY DEF Settled
<1>1. env[t] = a
    OBVIOUS
<1>2. /\ \A u \in Terminals : env[u] = a => u = t
      /\ \A z \in Resumes : resume[z].agent = a => resume[z].at = "list"
      /\ route[a].terminal \in {None, t}
      /\ (route[a].terminal = t /\ AtPane(p) /\ live[p] = t) => route[a].pane = p
      /\ \A q \in PaneIds : record[q].agent = a => q = p
    BY <1>1 DEF Settled
<1>3. route'[a].terminal \in {None, t}
    BY <1>1, <1>2 DEF Follows
<1>4. ASSUME route'[a].terminal = t, AtPane(p)', live'[p] = t
      PROVE  route'[a].pane = p
    <2>1. AtPane(p) /\ live[p] = t
        BY <1>4, PlacedKept
    <2>2. \A i \in DOMAIN live : live[i] = t => i = p
        BY <2>1 DEF AtPane, LifecycleTypes, PaneTypes, HerdrTypeOK
    <2>3. t # None
        BY DEF LifecycleAssumption
    <2> QED
        BY <1>1, <1>2, <1>4, <2>1, <2>2, <2>3 DEF Follows, AtPane
<1> QED
    BY <1>1, <1>2, <1>3, <1>4

LEMMA QuietCalm ==
    ASSUME LifecycleAssumption, LifecycleTypes, PanesKept, NEW a \in Agents, Quiet(a)
    PROVE  Calm(a)
<1>1. ASSUME NEW t \in Terminals, NEW p \in PaneIds, Placed(t, p), Settled(a, t, p)
      PROVE  Settled(a, t, p)'
    BY <1>1, SettledKept DEF Quiet
<1>2. Newborn(a) => Newborn(a)'
    BY DEF Newborn, Quiet, Follows
<1> QED
    BY <1>1, <1>2 DEF Calm

(* While a resume of a is past its list, no token of a split works.        *)
LEMMA BusyCalm ==
    ASSUME LifecycleAssumption, LifecycleTypes, NEW a \in Agents,
           NEW z \in Resumes, resume[z].agent = a,
           \/ resume[z].at # "list" /\ \A t \in opened : env'[t] = a => env[t] = a
           \/ \A t \in Terminals : env'[t] # a
    PROVE  Calm(a)
<1>1. ASSUME NEW t \in Terminals, NEW p \in PaneIds, Placed(t, p), Settled(a, t, p)
      PROVE  env'[t] # a
    BY <1>1 DEF Placed, Settled
<1> QED
    BY <1>1 DEF Calm, Settled, Newborn

LEMMA CallsCalm ==
    ASSUME LifecycleAssumption, LifecycleTypes, PanesKept, NEW v \in Terminals, AgentCalls(v),
           NEW a \in Agents
    PROVE  Calm(a)
<1>1. PICK x, q : x = env[v] /\ q = PaneOf(v)
    OBVIOUS
<1>2. /\ UNCHANGED <<env, resume, record>> /\ Exists(v) /\ x # None
      /\ route' = Bound(x, v, q, kind[v])
    BY <1>1 DEF AgentCalls, paneVars
<1>3. x \in Agents
    BY <1>1, <1>2 DEF LifecycleTypes, PaneTypes
<1>4. CASE a # x
    <2>1. Follows(a)
        BY <1>2, <1>3, <1>4, BoundFollows
    <2>2. Quiet(a)
        BY <1>2, <2>1 DEF Quiet
    <2> QED
        BY <2>2, QuietCalm
<1>5. CASE a = x
    <2>1. ASSUME NEW t \in Terminals, NEW p \in PaneIds, Placed(t, p), Settled(a, t, p)
          PROVE  Settled(a, t, p)'
        <3>1. env[t] = a => t = v
            BY <1>1, <1>5, <2>1 DEF Settled
        <3>2. AtPane(q) /\ live[q] = v
            BY <1>1, <1>2, PaneOfPlace DEF AtPane, LifecycleTypes, PaneTypes
        <3>3. Follows(a) \/ (route'[a].terminal = v /\ route'[a].pane = q)
            BY <1>2, <1>5, BoundFollows
        <3> QED
            BY <1>2, <2>1, <3>1, <3>2, <3>3, SettledKept
    <2>2. ~Newborn(a)
        BY <1>1, <1>5 DEF Newborn
    <2> QED
        BY <2>1, <2>2 DEF Calm
<1> QED
    BY <1>4, <1>5

(* A shell is placed, and its row has no other.                            *)
LEMMA ShellPlaced ==
    ASSUME LifecycleAssumption, LifecycleTypes, Ops, NEW k \in Keys, NEW t \in Terminals,
           NEW p \in PaneIds, Shell(k, t, p)
    PROVE  Placed(t, p)
<1>1. CASE t = op[k].terminal /\ p = op[k].pane /\ t # None
    BY <1>1 DEF Ops, OpSound
<1>2. ASSUME NEW r \in Requests, request[r].at = "splitting", t = request[r].terminal,
             p = request[r].pane
      PROVE  Placed(t, p)
    BY <1>2 DEF Ops, RowFits
<1> QED
    BY <1>1, <1>2 DEF Shell

LEMMA ShellsAside ==
    ASSUME LifecycleAssumption, LifecycleTypes, Serial, Ops, Shells, Aside,
           \A a \in Agents : Calm(a)
    PROVE  Shells'
<1>1. ASSUME NEW k \in Keys, NEW t \in Terminals, NEW p \in PaneIds, Shell(k, t, p)',
             op'[k].agent # None
      PROVE  Settled(op[k].agent, t, p)'
    <2>1. Shell(k, t, p) /\ op[k].agent # None
        BY <1>1 DEF Aside, Shell
    <2>2. PICK a : a = op[k].agent
        OBVIOUS
    <2>3. a \in Agents
        BY <2>1, <2>2 DEF LifecycleTypes, RowTypes, Op
    <2>4. Settled(a, t, p) /\ Placed(t, p)
        BY <2>1, <2>2, ShellPlaced DEF Shells
    <2>5. Settled(a, t, p)'
        BY <2>3, <2>4 DEF Calm
    <2>6. op'[k].agent = a
        BY <2>2 DEF Aside
    <2> QED
        BY <2>5, <2>6
<1>2. ASSUME NEW r \in Requests, request'[r].at = "split"
      PROVE  Newborn(op[request[r].key].agent)'
    <2>1. request'[r] = request[r] /\ request[r].at = "split"
        BY <1>2 DEF Aside
    <2>2. PICK a : a = op[request[r].key].agent
        OBVIOUS
    <2>3. Newborn(a) /\ op' = op
        BY <2>1, <2>2 DEF Shells, Aside
    <2>4. a \in Agents
        <3>1. RowFits(r) /\ request[r].key \in Keys
            BY <2>1 DEF Ops, Serial
        <3> QED
            BY <2>1, <2>2, <3>1 DEF RowFits, LifecycleTypes, RowTypes, Op
    <2>5. Newborn(a)'
        BY <2>3, <2>4 DEF Calm
    <2>6. op'[request'[r].key].agent = a
        BY <2>1, <2>2, <2>3
    <2> QED
        BY <2>5, <2>6
<1> QED
    BY <1>1, <1>2 DEF Shells

(* An agent whose token, resumes, route and record stay as they are.       *)
LEMMA FollowsQuiet ==
    ASSUME LifecycleAssumption, NEW a \in Agents, Follows(a), UNCHANGED <<env, resume>>,
           \A q \in PaneIds : record'[q].agent = a => record[q].agent = a
    PROVE  Quiet(a)
BY DEF Quiet

LEMMA ResumeCalm ==
    ASSUME LifecycleAssumption, LifecycleTypes, PanesKept, NEW a \in Agents,
           NEW z \in Resumes, ResumeNext(z) \/ \E x \in Agents : ResumeArrives(z, x)
    PROVE  Calm(a)
<1>0. /\ a # None /\ resume \in [Resumes -> Resume] /\ env \in [Terminals -> Agents \union {None}]
      /\ opened \subseteq Terminals
    BY DEF LifecycleAssumption, LifecycleTypes, TaskTypes, PaneTypes
<1>1. CASE \/ ResumeStartFails(z) \/ ResumeCloses(z) \/ ResumeFails(z)
           \/ \E x \in Agents : ResumeArrives(z, x)
    <2>1. UNCHANGED <<env, route, record>>
        BY <1>1 DEF ResumeStartFails, ResumeCloses, Closes, ResumeFails, ResumeArrives,
                    paneVars, hubVars
    <2>2. ASSUME NEW y \in Resumes, resume'[y].agent = a
          PROVE  \/ /\ resume'[y].at = "list"
                    /\ resume[y].agent = a \/ route[a].terminal # None
                 \/ resume[y].agent = a /\ resume[y].at # "list"
        <3>1. CASE ResumeStartFails(z)
            <4>1. resume'[y] = resume[y] \/ (y = z /\ resume[y].at = "start"
                                             /\ resume'[y] = [resume[y] EXCEPT !.at = "closing"])
                BY <1>0, <3>1 DEF ResumeStartFails
            <4> QED
                BY <1>0, <2>2, <4>1 DEF Resume
        <3>2. CASE ResumeCloses(z) \/ ResumeFails(z)
            <4>1. resume'[y] = resume[y] \/ resume'[y] = NoResume
                BY <1>0, <3>2 DEF ResumeCloses, ResumeFails
            <4> QED
                BY <1>0, <2>2, <4>1 DEF NoResume
        <3>3. ASSUME NEW x \in Agents, ResumeArrives(z, x)
              PROVE  /\ resume'[y] # resume[y] => resume'[y].at = "list"
                     /\ resume'[y] # resume[y] => route[a].terminal # None
            <4>1. PICK n : n = [NoResume EXCEPT !.at = "list", !.agent = x,
                                                !.was = route[x].terminal]
                OBVIOUS
            <4>2. resume'[y] = resume[y] \/ resume'[y] = n
                BY <1>0, <3>3, <4>1 DEF ResumeArrives
            <4>3. n.at = "list" /\ n.agent = x
                BY <4>1 DEF NoResume
            <4>4. route[x].terminal # None
                BY <3>3 DEF ResumeArrives
            <4> QED
                BY <2>2, <4>2, <4>3, <4>4
        <3> QED
            BY <1>1, <2>2, <3>1, <3>2, <3>3
    <2>3. Quiet(a)
        BY <2>1, <2>2 DEF Quiet, Follows
    <2> QED
        BY <2>3, QuietCalm
<1>2. CASE Reissues(z)
    <2>1. UNCHANGED <<route, record>> /\ resume[z].at = "list"
        BY <1>2 DEF Reissues, hubVars
    <2>2. PICK x : x = resume[z].agent
        OBVIOUS
    <2>3. CASE resume' = [resume EXCEPT ![z] = NoResume] /\ env' = env
        <3>1. \A y \in Resumes : resume'[y] = resume[y] \/ resume'[y] = NoResume
            BY <1>0, <2>3
        <3>2. Quiet(a)
            BY <1>0, <2>1, <2>3, <3>1 DEF Quiet, Follows, NoResume
        <3> QED
            BY <3>2, QuietCalm
    <2>4. CASE /\ env' = Revoked(x)
               /\ resume' = [y \in Resumes |->
                     IF y = z THEN [resume[z] EXCEPT !.at = "split", !.token = TRUE]
                     ELSE IF resume[y].agent = x THEN [resume[y] EXCEPT !.token = FALSE]
                     ELSE resume[y]]
        <3>1. CASE a = x
            <4>1. \A t \in Terminals : env'[t] # a
                BY <1>0, <2>4, <3>1 DEF Revoked
            <4> QED
                BY <2>2, <3>1, <4>1, BusyCalm
        <3>2. CASE a # x
            <4>1. \A u \in Terminals : env'[u] = a => env[u] = a
                BY <1>0, <2>4 DEF Revoked
            <4>2. ASSUME NEW y \in Resumes, resume'[y].agent = a
                  PROVE  resume'[y] = resume[y]
                <5>1. CASE y = z
                    <6>1. resume'[y] = [resume[z] EXCEPT !.at = "split", !.token = TRUE]
                        BY <2>4, <5>1
                    <6>2. resume'[y].agent = x
                        BY <1>0, <2>2, <6>1 DEF Resume
                    <6> QED
                        BY <3>2, <4>2, <6>2
                <5>2. CASE y # z /\ resume[y].agent = x
                    <6>1. resume'[y] = [resume[y] EXCEPT !.token = FALSE]
                        BY <2>4, <5>2
                    <6>2. resume'[y].agent = x
                        BY <1>0, <5>2, <6>1 DEF Resume
                    <6> QED
                        BY <3>2, <4>2, <6>2
                <5> QED
                    BY <2>4, <5>1, <5>2
            <4>3. Quiet(a)
                BY <2>1, <4>1, <4>2 DEF Quiet, Follows
            <4> QED
                BY <4>3, QuietCalm
        <3> QED
            BY <3>1, <3>2
    <2> QED
        BY <1>2, <2>2, <2>3, <2>4 DEF Reissues
<1>3. CASE ResumeSplits(z)
    <2>1. UNCHANGED <<route, record>> /\ resume[z].at = "split"
        BY <1>3 DEF ResumeSplits, hubVars
    <2>2. PICK v, x : /\ Splits(v, x) /\ (x = None \/ x = resume[z].agent)
                      /\ resume' = [resume EXCEPT ![z].at = "start", ![z].terminal = v,
                                                  ![z].pane = Len(live) + 1]
        BY <1>3 DEF ResumeSplits
    <2>3. \A u \in Terminals : env'[u] = env[u] \/ (u = v /\ env'[u] = x)
        BY <1>0, <2>2 DEF Splits
    <2>4. v \notin opened
        BY <2>2 DEF Splits
    <2>5. CASE resume[z].agent = a
        <3>1. \A t \in opened : env'[t] = a => env[t] = a
            BY <1>0, <2>3, <2>4
        <3> QED
            BY <2>1, <2>5, <3>1, BusyCalm
    <2>6. CASE resume[z].agent # a
        <3>1. \A u \in Terminals : env'[u] = a => env[u] = a
            BY <1>0, <2>2, <2>3, <2>6
        <3>2. ASSUME NEW y \in Resumes, resume'[y].agent = a
              PROVE  resume'[y] = resume[y]
            <4>1. CASE y = z
                <5>1. resume'[z] = [resume[z] EXCEPT !.at = "start", !.terminal = v,
                                                     !.pane = Len(live) + 1]
                    BY <1>0, <2>2
                <5>2. resume'[z].agent = resume[z].agent
                    BY <1>0, <5>1 DEF Resume
                <5> QED
                    BY <2>6, <3>2, <4>1, <5>2
            <4>2. CASE y # z
                BY <1>0, <2>2, <4>2
            <4> QED
                BY <4>1, <4>2
        <3>3. Quiet(a)
            BY <2>1, <3>1, <3>2 DEF Quiet, Follows
        <3> QED
            BY <3>3, QuietCalm
    <2> QED
        BY <2>5, <2>6
<1>4. CASE ResumeStarts(z)
    <2>1. env' = env /\ resume[z].at = "start"
        BY <1>4 DEF ResumeStarts, Starts
    <2>2. CASE resume[z].agent = a
        BY <2>1, <2>2, BusyCalm
    <2>3. CASE resume[z].agent # a
        <3>1. PICK x, v, p, role : /\ x = resume[z].agent /\ v = resume[z].terminal
                                   /\ p = resume[z].pane /\ role = RoleOf(resume[z].was)
            OBVIOUS
        <3>2. \/ UNCHANGED <<route, record>>
              \/ /\ x \in known /\ route' = Bound(x, v, p, Harness)
                 /\ record' = Registered(p, v, x, role)
            BY <1>4, <3>1 DEF ResumeStarts
        <3>3. Follows(a)
            BY <2>3, <3>1, <3>2, BoundFollows DEF Follows, LifecycleTypes, RouteTypes
        <3>4. \A q \in PaneIds : record'[q].agent = a => record[q].agent = a
            BY <2>3, <3>1, <3>2 DEF Registered, LifecycleTypes, RowTypes
        <3>5. ASSUME NEW y \in Resumes, resume'[y].agent = a
              PROVE  resume'[y] = resume[y]
            <4>1. CASE y = z
                <5>1. resume'[z] = NoResume \/ resume'[z] = [resume[z] EXCEPT !.at = "closing"]
                    BY <1>0, <1>4 DEF ResumeStarts
                <5>2. resume'[z].agent = None \/ resume'[z].agent = resume[z].agent
                    BY <1>0, <5>1 DEF Resume, NoResume
                <5> QED
                    BY <1>0, <2>3, <3>5, <4>1, <5>2
            <4>2. CASE y # z
                BY <1>0, <1>4, <4>2 DEF ResumeStarts
            <4> QED
                BY <4>1, <4>2
        <3>6. Quiet(a)
            BY <2>1, <3>3, <3>4, <3>5 DEF Quiet
        <3> QED
            BY <3>6, QuietCalm
    <2> QED
        BY <2>2, <2>3
<1> QED
    BY <1>1, <1>2, <1>3, <1>4 DEF ResumeNext

LEMMA OthersCalm ==
    ASSUME LifecycleAssumption, LifecycleTypes, Serial, PanesKept, LifecycleNext,
           \A r \in Requests : ~RequestNext(r), NEW a \in Agents
    PROVE  Calm(a)
<1>1. ASSUME UNCHANGED <<env, resume, route, record>>
      PROVE  Calm(a)
    BY <1>1, FollowsQuiet, QuietCalm DEF Follows
<1>2. ASSUME UNCHANGED <<env, resume>>, FollowsAll,
             \A q \in PaneIds : record'[q].agent = record[q].agent
      PROVE  Calm(a)
    BY <1>2, FollowsQuiet, QuietCalm DEF FollowsAll
<1>3. ASSUME NEW s \in Stops, StopNext(s)
      PROVE  Calm(a)
    <2>1. CASE StopRelists(s) \/ StopFails(s) \/ \E p \in PaneIds : StopLists(s, p)
        BY <1>1, <2>1 DEF StopRelists, StopFails, StopLists, paneVars, hubVars
    <2>2. CASE StopCloses(s)
        <3>1. /\ UNCHANGED <<env, resume>> /\ route' = MarkedStale(route, {stop[s].agent})
              /\ record' = Deactivated(stop[s].pane)
            BY <2>2 DEF StopCloses, Closes
        <3> QED
            BY <1>2, <3>1, StaleFollows, ScannedAgents
    <2>3. CASE StopRefreshes(s)
        <3>1. UNCHANGED <<env, resume, record>> /\ route' \in {route, Reconciled(PaneList)}
            BY <2>3 DEF StopRefreshes, paneVars
        <3> QED
            BY <1>2, <3>1, SameFollows, ReconciledFollows
    <2> QED
        BY <1>3, <2>1, <2>2, <2>3 DEF StopNext
<1>4. ASSUME NEW r \in Requests, NEW k \in Keys, Arrives(r, k)
      PROVE  Calm(a)
    BY <1>1, <1>4 DEF Arrives, paneVars, hubVars
<1>5. ASSUME NEW x \in Agents, NotifierWrites(x)
      PROVE  Calm(a)
    <2>1. /\ UNCHANGED <<env, resume, record>>
          /\ \/ route' = MarkedStale(route, {x})
             \/ /\ Exists(route[x].terminal)
                /\ route' = Healed(route, x, PaneOf(route[x].terminal))
        BY <1>5 DEF NotifierWrites, paneVars
    <2> QED
        BY <1>2, <2>1, StaleFollows, HealedFollows
<1>6. CASE Refreshes
    <2>1. UNCHANGED <<env, resume, record>> /\ route' = Reconciled(PaneList)
        BY <1>6 DEF Refreshes, paneVars
    <2> QED
        BY <1>2, <2>1, ReconciledFollows
<1>7. CASE PaneInput
    BY <1>1, <1>7 DEF PaneInput, hubVars
<1>8. CASE HubRestarts
    <2>1. UNCHANGED <<env, route, record>> /\ \A z \in Resumes : resume'[z].agent = None
        BY <1>8 DEF HubRestarts, paneVars, hubVars, NoResume
    <2>2. Quiet(a)
        BY <2>1 DEF Quiet, Follows, LifecycleAssumption
    <2> QED
        BY <2>2, QuietCalm
<1> QED
    BY <1>3, <1>4, <1>5, <1>6, <1>7, <1>8, ResumeCalm, CallsCalm DEF LifecycleNext, StopNext

(* A request touches the token, the route and the record of its own        *)
(* identity only.                                                          *)
LEMMA RequestQuiet ==
    ASSUME LifecycleAssumption, LifecycleTypes, Serial, Ops, NEW r \in Requests, RequestNext(r),
           NEW a \in Agents
    PROVE  \/ Quiet(a)
           \/ a = OpOf(r).agent /\ (SplitPane(r) \/ BindRoute(r) \/ Commits(r))
           \/ a = OpOf(r).agent /\ op'[RequestOf(r)].agent = None
<1>0. /\ a # None /\ env \in [Terminals -> Agents \union {None}] /\ resume' = resume
      /\ RequestOf(r) \in Keys /\ OpOf(r) \in Op
    BY RequestMoves, RequestTyped DEF LifecycleAssumption, LifecycleTypes, PaneTypes
<1>1. ASSUME env' = env, Follows(a), \A q \in PaneIds : record'[q].agent = a => record[q].agent = a
      PROVE  Quiet(a)
    BY <1>0, <1>1, FollowsQuiet
<1>2. CASE Begins(r) \/ Unprepared(r) \/ SplitAnswered(r) \/ SplitFails(r) \/ StartAgent(r)
           \/ StartFails(r) \/ BindFails(r) \/ Briefs(r) \/ ConfirmFails(r)
           \/ ListsForCleanup(r) \/ CleanupFails(r)
    <2>1. UNCHANGED <<env, route, record>>
        BY <1>2 DEF Begins, Unprepared, SplitAnswered, SplitFails, StartAgent, StartFails,
                    BindFails, Briefs, ConfirmFails, ListsForCleanup, CleanupFails,
                    paneVars, hubVars, Starts
    <2> QED
        BY <1>1, <2>1 DEF Follows
<1>3. CASE Prepares(r)
    <2>1. env' = env /\ route' = Reconciled(PaneList) /\ record' = Scanned
        BY <1>3 DEF Prepares, paneVars
    <2> QED
        BY <1>1, <2>1, ReconciledFollows, ScannedAgents DEF FollowsAll
<1>4. CASE RefreshesForSpawn(r)
    <2>1. UNCHANGED <<env, record>> /\ route' \in {route, Reconciled(PaneList)}
        BY <1>4 DEF RefreshesForSpawn, paneVars
    <2> QED
        BY <1>1, <2>1, SameFollows, ReconciledFollows DEF FollowsAll
<1>5. CASE SplitPane(r)
    <2>1. PICK t, x : Splits(t, x) /\ x = OpOf(r).agent
        BY <1>5 DEF SplitPane
    <2>2. UNCHANGED <<route, record>>
        BY <1>5 DEF SplitPane, hubVars
    <2>3. \A u \in Terminals : env'[u] = env[u] \/ env'[u] = x
        BY <1>0, <2>1 DEF Splits
    <2>4. CASE a # x
        BY <1>0, <2>2, <2>3, <2>4 DEF Quiet, Follows
    <2> QED
        BY <1>5, <2>1, <2>4
<1>6. CASE BindRoute(r)
    <2>1. PICK x, t, p : x = OpOf(r).agent /\ t = OpOf(r).terminal /\ p = OpOf(r).pane
        OBVIOUS
    <2>2. route' = Bound(x, t, p, Harness) /\ UNCHANGED <<record, env>> /\ x # None
        BY <1>6, <2>1 DEF BindRoute, PaneMatches, paneVars
    <2>3. x \in Agents
        BY <1>0, <2>1, <2>2 DEF Op
    <2>4. a # x => Follows(a)
        BY <2>2, <2>3, BoundFollows
    <2> QED
        BY <1>1, <1>6, <2>1, <2>2, <2>4
<1>7. CASE Commits(r)
    <2>1. PICK o : o = OpOf(r)
        OBVIOUS
    <2>2. /\ env' = env /\ route' = Reconciled(PaneList)
          /\ \E role : record' = Registered(o.pane, o.terminal, o.agent, role)
        BY <1>7, <2>1 DEF Commits, paneVars
    <2>3. \A p \in PaneIds : record'[p].agent \in {record[p].agent, o.agent}
        BY <2>2 DEF Registered, LifecycleTypes, RowTypes
    <2>4. Follows(a)
        BY <2>2, ReconciledFollows DEF FollowsAll
    <2>5. CASE a # o.agent
        BY <1>1, <2>2, <2>3, <2>4, <2>5
    <2> QED
        BY <1>7, <2>1, <2>5
<1>8. ASSUME NEW x, x = OpOf(r).agent, x # None, Deleted(x),
             \A q \in PaneIds : record'[q].agent = a => record[q].agent = a,
             \E c : CleanupIs(r, WithoutParticipant(op, x), c)
      PROVE  Quiet(a) \/ (a = x /\ op'[RequestOf(r)].agent = None)
    <2>1. CASE a # x
        <3>1. \A u \in Terminals : env'[u] = a => env[u] = a
            BY <1>0, <1>8 DEF Deleted, Revoked
        <3>2. Follows(a)
            BY <1>8, <2>1 DEF Deleted, Follows, LifecycleTypes, RouteTypes
        <3> QED
            BY <1>0, <1>8, <3>1, <3>2 DEF Quiet
    <2>2. CASE a = x
        <3>0. PICK k \in Keys : /\ k = RequestOf(r)
                                /\ \E c : op' = [WithoutParticipant(op, x) EXCEPT ![k].cleanup = c]
            BY <1>0, <1>8 DEF CleanupIs
        <3>1. PICK c : op' = [WithoutParticipant(op, x) EXCEPT ![k].cleanup = c]
            BY <3>0
        <3>2. op[k].agent = x /\ op[k] \in Op
            BY <1>0, <1>8, <3>0 DEF OpOf
        <3>3. op'[k] = [[op[k] EXCEPT !.agent = None] EXCEPT !.cleanup = c]
            BY <3>1, <3>2 DEF WithoutParticipant
        <3>4. op'[k].agent = None
            BY <3>2, <3>3 DEF Op
        <3> QED
            BY <2>2, <3>0, <3>4
    <2> QED
        BY <2>1, <2>2
<1>9. CASE RemovesUnbound(r)
    <2>1. PICK x : x = OpOf(r).agent
        OBVIOUS
    <2>2. /\ record' = record
          /\ \/ UNCHANGED <<route, env>>
             \/ x # None /\ Deleted(x) /\ CleanupIs(r, WithoutParticipant(op, x), "skipped")
        BY <1>9, <2>1 DEF RemovesUnbound
    <2> QED
        BY <1>1, <1>8, <2>1, <2>2 DEF Follows
<1>10. CASE ClosesSpawn(r)
    <2>1. PICK o : o = OpOf(r)
        OBVIOUS
    <2>2. /\ record' \in {record, WithoutRecord(o)}
          /\ \/ UNCHANGED <<route, env>>
             \/ route' = StaleOwn(o, request[r].own) /\ env' = env
             \/ /\ o.agent # None /\ Deleted(o.agent)
                /\ CleanupIs(r, WithoutParticipant(op, o.agent), "closed")
        BY <1>10, <2>1 DEF ClosesSpawn
    <2>3. \A q \in PaneIds : record'[q].agent = a => record[q].agent = a
        BY <1>0, <2>2 DEF WithoutRecord, LifecycleTypes, RowTypes, NoRecord
    <2>4. CASE route' = StaleOwn(o, request[r].own) /\ env' = env
        <3>1. route' = route \/ route' = MarkedStale(route, {o.agent})
            BY <2>4 DEF StaleOwn
        <3>2. Follows(a)
            BY <3>1, SameFollows, StaleFollows DEF FollowsAll
        <3> QED
            BY <1>1, <2>3, <2>4, <3>2
    <2> QED
        BY <1>1, <1>8, <2>1, <2>2, <2>3, <2>4 DEF Follows
<1> QED
    BY <1>2, <1>3, <1>4, <1>5, <1>6, <1>7, <1>9, <1>10 DEF RequestNext

LEMMA RequestNewborn ==
    ASSUME LifecycleAssumption, LifecycleTypes, Serial, Ops, Rows,
           NEW r \in Requests, RequestNext(r), NEW x \in Requests, request'[x].at = "split"
    PROVE  Newborn(op[request[x].key].agent)'
<1>1. Moves(r) /\ Holds(r) /\ request \in [Requests -> Request] /\ request[r] \in Request
      /\ UNCHANGED resume
    BY RequestMoves DEF LifecycleTypes, TaskTypes
<1>2. x = r
    BY <1>1 DEF Moves, Serial, Works, Holds
<1>3. Prepares(r)
    BY <1>2, StageReached
<1>4. PICK k \in Keys : k = request[r].key
    BY RequestMoves, RequestTyped
<1>5. ~Answered(r)
    BY <1>2, StageAfter
<1>6. PICK a \in Unused : op' = [op EXCEPT ![k] = [PendingOp EXCEPT !.agent = a, !.handle = a,
                                                                    !.baseline = DOMAIN live]]
    BY <1>3, <1>4, <1>5, FreshIn DEF Prepares, RequestOf
<1>7. request'[r] = [request[r] EXCEPT !.at = "split"]
    BY <1>3, <1>5, GoesMoves DEF Prepares, Stages
<1>8. request'[r].key = k
    BY <1>1, <1>4, <1>7 DEF Request
<1>9. op'[k] = [PendingOp EXCEPT !.agent = a, !.handle = a, !.baseline = DOMAIN live]
    BY <1>6 DEF LifecycleTypes, RowTypes
<1>10. op'[k].agent = a
    BY <1>9 DEF PendingOp, AbsentOp
<1>11. /\ env' = env /\ route' = Reconciled(PaneList) /\ record' = Scanned
    BY <1>3 DEF Prepares, paneVars
<1>12. a \in Agents /\ a \notin known /\ a # None /\ \A z \in Resumes : resume[z].agent # a
    BY DEF Unused, LifecycleAssumption
<1>13. \A u \in Terminals : env[u] # a
    BY <1>12 DEF Rows
<1>14. route[a].terminal = None
    BY <1>12 DEF Rows
<1>15. route'[a].terminal = None
    BY <1>11, <1>12, <1>14, ReconciledFollows DEF FollowsAll, Follows
<1>16. \A q \in PaneIds : record'[q].agent # a
    BY <1>11, <1>12, <1>14, ScannedAgents DEF Rows
<1>17. Newborn(a)'
    BY <1>1, <1>11, <1>12, <1>13, <1>15, <1>16 DEF Newborn
<1> QED
    BY <1>2, <1>8, <1>10, <1>17

(* The split itself: the new terminal is the only place of the identity.   *)
LEMMA SplitSettles ==
    ASSUME LifecycleAssumption, LifecycleTypes, Serial, Ops, Shells,
           NEW r \in Requests, SplitPane(r), NEW k \in Keys, k = request[r].key,
           NEW t \in Terminals, NEW p \in PaneIds, Shell(k, t, p)'
    PROVE  op' = op /\ Settled(op[k].agent, t, p)'
<1>1. /\ Holds(r) /\ request[r].at = "split" /\ UNCHANGED <<op, route, record, resume>>
      /\ request \in [Requests -> Request] /\ request[r] \in Request
    BY DEF SplitPane, hubVars, LifecycleTypes, TaskTypes
<1>2. PICK v, a : /\ a = op[k].agent /\ Splits(v, a)
                  /\ request' = [request EXCEPT ![r].at = "splitting", ![r].terminal = v,
                                                ![r].pane = Len(live) + 1]
    BY DEF SplitPane, OpOf, RequestOf
<1>3. Newborn(a)
    BY <1>1, <1>2 DEF Shells
<1>4. op[k].terminal = None
    BY <1>1 DEF Ops, RowFits, OpSound
<1>5. \A u \in Terminals : env'[u] = a => u = v
    BY <1>2, <1>3 DEF Splits, Newborn, LifecycleTypes, PaneTypes
<1>6. t = v
    <2>1. PICK x \in Requests : request'[x].at = "splitting" /\ t = request'[x].terminal
        BY <1>1, <1>4 DEF Shell
    <2>2. x = r
        BY <1>1, <1>2, <2>1 DEF Serial, Works, Holds
    <2>3. request'[r] = [request[r] EXCEPT !.at = "splitting", !.terminal = v,
                                           !.pane = Len(live) + 1]
        BY <1>1, <1>2
    <2>4. request'[r].terminal = v
        BY <1>1, <2>3 DEF Request
    <2> QED
        BY <2>1, <2>2, <2>4
<1>7. t # None
    BY DEF LifecycleAssumption
<1>8. Settled(a, t, p)'
    BY <1>1, <1>3, <1>5, <1>6, <1>7 DEF Settled, Newborn
<1> QED
    BY <1>1, <1>2, <1>8

LEMMA RequestShells ==
    ASSUME LifecycleAssumption, LifecycleTypes, Serial, Ops, PanesKept, Rows, Shells,
           NEW r \in Requests, RequestNext(r)
    PROVE  Shells'
<1>1. PICK k \in Keys : k = request[r].key
    BY RequestMoves, RequestTyped
<1>2. /\ \A l \in Keys \ {k} : op'[l] = op[l]
      /\ RowEffect(k) /\ OpOf(r) = op[k] /\ RequestOf(r) = k /\ op \in [Keys -> Op]
    BY <1>1, RequestRow DEF OpOf, RequestOf, LifecycleTypes, RowTypes
<1>3. Moves(r) /\ Holds(r)
    BY RequestMoves
<1>4. ASSUME NEW x \in Requests, request'[x].at = "splitting"
      PROVE  x = r /\ SplitPane(r) /\ request'[x].key = k
    <2>1. x = r
        BY <1>3, <1>4 DEF Moves, Serial, Works, Holds
    <2>2. SplitPane(r)
        BY <1>4, <2>1, StageReached
    <2>3. PICK v, n : request' = [request EXCEPT ![r].at = "splitting", ![r].terminal = v,
                                                 ![r].pane = n]
        BY <2>2 DEF SplitPane
    <2>4. request'[r] = [request[r] EXCEPT !.at = "splitting", !.terminal = v, !.pane = n]
          /\ request[r] \in Request
        BY <2>3 DEF LifecycleTypes, TaskTypes
    <2>5. request'[r].key = k
        BY <1>1, <2>4 DEF Request
    <2> QED
        BY <2>1, <2>2, <2>5
<1>5. ASSUME NEW j \in Keys, NEW t \in Terminals, NEW p \in PaneIds, Shell(j, t, p)',
             op'[j].agent # None
      PROVE  Settled(op[j].agent, t, p)'
    <2>1. ASSUME NEW a, a = op[j].agent, op'[j].agent = a, Shell(j, t, p)
          PROVE  a \in Agents /\ Settled(a, t, p) /\ Placed(t, p)
        BY <1>2, <1>5, <2>1, ShellPlaced DEF Shells, Op
    <2>2. CASE j # k
        <3>1. PICK a : a = op[j].agent
            OBVIOUS
        <3>2. op'[j] = op[j] /\ op'[j].agent = a
            BY <1>2, <2>2, <3>1
        <3>3. Shell(j, t, p)
            BY <1>4, <1>5, <2>2, <3>2 DEF Shell
        <3>4. a \in Agents /\ Settled(a, t, p) /\ Placed(t, p)
            BY <2>1, <3>1, <3>2, <3>3
        <3>5. a # op[k].agent
            BY <1>5, <2>2, <3>1, <3>2 DEF Ops, OpSound
        <3>6. Calm(a)
            BY <1>2, <3>4, <3>5, RequestQuiet, QuietCalm
        <3>7. Settled(a, t, p)'
            BY <3>4, <3>6 DEF Calm
        <3> QED
            BY <3>2, <3>7
    <2>3. CASE j = k /\ SplitPane(r)
        <3>1. op' = op /\ Settled(op[k].agent, t, p)'
            BY <1>1, <1>5, <2>3, SplitSettles
        <3> QED
            BY <2>3, <3>1
    <2>4. CASE j = k /\ ~SplitPane(r)
        <3>1. PICK a : a = op[k].agent
            OBVIOUS
        <3>2. t = op'[k].terminal /\ p = op'[k].pane /\ t # None
            BY <1>4, <1>5, <2>4 DEF Shell
        <3>3. op'[k].agent # None
            BY <1>5, <2>4
        <3>4. Shell(k, t, p) /\ op'[k].agent = a
            <4>1. CASE op'[k].agent = a /\ op'[k].terminal = op[k].terminal /\ op'[k].pane = op[k].pane
                BY <3>2, <4>1 DEF Shell
            <4>2. ASSUME NEW x \in Requests, x = r, SplitAnswered(x)
                  PROVE  Shell(k, t, p)
                <5>1. /\ op' = [op EXCEPT ![k].terminal = request[r].terminal,
                                          ![k].pane = request[r].pane]
                      /\ request[r].at = "splitting"
                    BY <1>2, <4>2 DEF SplitAnswered
                <5>2. op'[k] = [op[k] EXCEPT !.terminal = request[r].terminal,
                                             !.pane = request[r].pane] /\ op[k] \in Op
                    BY <1>2, <5>1
                <5>3. t = request[r].terminal /\ p = request[r].pane
                    BY <3>2, <5>2 DEF Op
                <5> QED
                    BY <1>1, <5>1, <5>3 DEF Shell
            <4>3. \A x \in Requests : SplitAnswered(x) => x = r
                BY <1>3 DEF SplitAnswered, Holds
            <4> QED
                BY <1>2, <3>1, <3>2, <3>3, <4>1, <4>2, <4>3 DEF RowEffect, SameRow
        <3>5. a \in Agents /\ Settled(a, t, p) /\ Placed(t, p)
            BY <2>1, <2>4, <3>1, <3>4
        <3>6. CASE Quiet(a)
            <4>1. Settled(a, t, p)'
                BY <3>5, <3>6, QuietCalm DEF Calm
            <4> QED
                BY <2>4, <3>4, <4>1
        <3>7. CASE BindRoute(r)
            <4>1. /\ op' = op /\ AtPane(p) /\ live[p] = t /\ UNCHANGED <<env, resume, record>>
                  /\ route' = Bound(a, t, p, Harness)
                <5>1. op' = op
                    BY <3>7 DEF BindRoute
                <5> QED
                    BY <1>2, <3>1, <3>2, <3>7, <5>1 DEF BindRoute, PaneMatches, paneVars
            <4>2. Follows(a) \/ (route'[a].terminal = t /\ route'[a].pane = p)
                BY <3>5, <4>1, BoundFollows
            <4>3. Settled(a, t, p)'
                BY <3>5, <4>1, <4>2, SettledKept
            <4> QED
                BY <2>4, <3>4, <4>3
        <3>8. CASE Commits(r)
            <4>1. PICK q, v, role : /\ route' = Reconciled(PaneList)
                                    /\ UNCHANGED <<env, resume>>
                                    /\ q = op[k].pane
                                    /\ record' = Registered(q, v, a, role)
                BY <1>2, <3>1, <3>8 DEF Commits, paneVars
            <4>2. op'[k].pane = op[k].pane
                <5>1. op' = [op EXCEPT ![k].status = "committed"]
                    BY <1>2, <3>8 DEF Commits
                <5>2. op'[k] = [op[k] EXCEPT !.status = "committed"] /\ op[k] \in Op
                    BY <1>2, <5>1
                <5> QED
                    BY <5>2 DEF Op
            <4>3. \A y \in PaneIds : record'[y].agent = a => record[y].agent = a \/ y = p
                BY <3>2, <4>1, <4>2 DEF Registered, LifecycleTypes, RowTypes
            <4>4. Follows(a)
                BY <3>5, <4>1, ReconciledFollows DEF FollowsAll
            <4>5. Settled(a, t, p)'
                BY <3>5, <4>1, <4>3, <4>4, SettledKept
            <4> QED
                BY <2>4, <3>4, <4>5
        <3> QED
            BY <1>2, <2>4, <3>1, <3>3, <3>5, <3>6, <3>7, <3>8, RequestQuiet
    <2> QED
        BY <2>2, <2>3, <2>4
<1> QED
    BY <1>5, RequestNewborn DEF Shells

LEMMA ShellsStep ==
    ASSUME LifecycleAssumption, LifecycleTypes, Serial, Ops, PanesKept, Rows, Shells, LifecycleNext
    PROVE  Shells'
<1>1. CASE \E r \in Requests : RequestNext(r)
    BY <1>1, RequestShells
<1>2. CASE \A r \in Requests : ~RequestNext(r)
    BY <1>2, OthersAside, OthersCalm, ShellsAside
<1> QED
    BY <1>1, <1>2

-----------------------------------------------------------------------------
(* What a rollback leaves.                                                 *)

(* A pane that is open gets no other token, and history is never lost.     *)
LEMMA TokensEnd ==
    ASSUME LifecycleAssumption, LifecycleTypes, LifecycleNext
    PROVE  (\A t \in opened : env'[t] \in {env[t], None}) /\ history \subseteq history'
<1>0. opened \subseteq Terminals /\ env \in [Terminals -> Agents \union {None}]
    BY DEF LifecycleTypes, PaneTypes
<1>1. ASSUME UNCHANGED <<env, history>>
      PROVE  (\A t \in opened : env'[t] \in {env[t], None}) /\ history \subseteq history'
    BY <1>1
<1>2. ASSUME UNCHANGED history, NEW a, env' = Revoked(a)
      PROVE  (\A t \in opened : env'[t] \in {env[t], None}) /\ history \subseteq history'
    BY <1>0, <1>2 DEF Revoked
<1>3. ASSUME UNCHANGED history, NEW v, NEW a, Splits(v, a)
      PROVE  (\A t \in opened : env'[t] \in {env[t], None}) /\ history \subseteq history'
    BY <1>0, <1>3 DEF Splits
<1>4. ASSUME NEW r \in Requests, RequestNext(r)
      PROVE  (\A t \in opened : env'[t] \in {env[t], None}) /\ history \subseteq history'
    <2>1. CASE SplitPane(r)
        BY <1>3, <2>1 DEF SplitPane, hubVars
    <2>2. CASE RemovesUnbound(r)
        BY <1>1, <1>2, <2>2 DEF RemovesUnbound, Deleted
    <2>3. CASE ClosesSpawn(r)
        BY <1>1, <1>2, <2>3 DEF ClosesSpawn, Deleted
    <2>4. CASE \/ Begins(r) \/ Prepares(r) \/ Unprepared(r) \/ SplitAnswered(r) \/ SplitFails(r)
               \/ StartAgent(r) \/ StartFails(r) \/ BindRoute(r) \/ BindFails(r) \/ Briefs(r)
               \/ Commits(r) \/ ConfirmFails(r) \/ RefreshesForSpawn(r) \/ ListsForCleanup(r)
               \/ CleanupFails(r)
        <3>1. UNCHANGED <<env, history>>
            BY <2>4 DEF Begins, Prepares, Unprepared, SplitAnswered, SplitFails, StartAgent, Starts,
                        StartFails, BindRoute, BindFails, Briefs, Commits, ConfirmFails,
                        RefreshesForSpawn, ListsForCleanup, CleanupFails, paneVars, hubVars
        <3> QED
            BY <1>1, <3>1
    <2> QED
        BY <1>4, <2>1, <2>2, <2>3, <2>4 DEF RequestNext
<1>5. ASSUME NEW z \in Resumes, ResumeNext(z) \/ \E a \in Agents : ResumeArrives(z, a)
      PROVE  (\A t \in opened : env'[t] \in {env[t], None}) /\ history \subseteq history'
    <2>1. CASE Reissues(z)
        BY <1>1, <1>2, <2>1 DEF Reissues, hubVars
    <2>2. CASE ResumeSplits(z)
        BY <1>3, <2>2 DEF ResumeSplits, hubVars
    <2>3. CASE \/ ResumeStarts(z) \/ ResumeStartFails(z) \/ ResumeCloses(z) \/ ResumeFails(z)
               \/ \E a \in Agents : ResumeArrives(z, a)
        BY <1>1, <2>3 DEF ResumeStarts, Starts, ResumeStartFails, ResumeCloses, Closes,
                          ResumeFails, ResumeArrives, paneVars, hubVars
    <2> QED
        BY <1>5, <2>1, <2>2, <2>3 DEF ResumeNext
<1>6. ASSUME NEW s \in Stops, StopNext(s)
      PROVE  (\A t \in opened : env'[t] \in {env[t], None}) /\ history \subseteq history'
    BY <1>1, <1>6 DEF StopNext, StopRelists, StopCloses, StopRefreshes, StopFails, StopLists,
                      Closes, paneVars, hubVars
<1>7. ASSUME NEW t \in Terminals, AgentCalls(t)
      PROVE  env' = env /\ history \subseteq history'
    BY <1>7 DEF AgentCalls, paneVars
<1>8. ASSUME \/ \E r \in Requests, k \in Keys : Arrives(r, k)
             \/ \E a \in Agents : NotifierWrites(a)
             \/ Refreshes \/ HubRestarts \/ PaneInput
      PROVE  UNCHANGED <<env, history>>
    BY <1>8 DEF Arrives, NotifierWrites, Refreshes, HubRestarts, PaneInput, paneVars, hubVars
<1> QED
    BY <1>1, <1>4, <1>5, <1>6, <1>7, <1>8 DEF LifecycleNext, StopNext

(* A call of the identity itself, and a resume beyond its list, give it    *)
(* another terminal; every other step lets its route be.                   *)
LEMMA OthersFollow ==
    ASSUME LifecycleAssumption, LifecycleTypes, LifecycleNext,
           \A r \in Requests : ~RequestNext(r), NEW a \in Agents,
           \A v \in Terminals : AgentCalls(v) => env[v] # a,
           \A z \in Resumes : resume[z].agent = a => resume[z].at = "list"
    PROVE  Follows(a)
<1>1. ASSUME route' = route
      PROVE  Follows(a)
    BY <1>1 DEF Follows
<1>2. ASSUME NEW v \in Terminals, AgentCalls(v)
      PROVE  Follows(a)
    <2>1. /\ env[v] \in Agents /\ env[v] # a
          /\ route' = Bound(env[v], v, PaneOf(v), kind[v])
        BY <1>2 DEF AgentCalls, LifecycleTypes, PaneTypes
    <2> QED
        BY <2>1, BoundFollows
<1>3. ASSUME NEW z \in Resumes, ResumeNext(z)
      PROVE  Follows(a)
    <2>1. CASE ResumeStarts(z) /\ route' # route
        <3>1. /\ resume[z].agent \in known /\ resume[z].agent # a
              /\ route' = Bound(resume[z].agent, resume[z].terminal, resume[z].pane, Harness)
            BY <2>1 DEF ResumeStarts
        <3> QED
            BY <3>1, BoundFollows DEF LifecycleTypes, RouteTypes
    <2>2. CASE ~(ResumeStarts(z) /\ route' # route)
        BY <1>1, <1>3, <2>2 DEF ResumeNext, Reissues, ResumeSplits, ResumeStartFails,
                                ResumeCloses, ResumeFails, hubVars
    <2> QED
        BY <2>1, <2>2
<1>4. ASSUME NEW s \in Stops, StopNext(s)
      PROVE  Follows(a)
    <2>1. CASE StopCloses(s)
        BY <2>1, StaleFollows DEF StopCloses, FollowsAll
    <2>2. CASE StopRefreshes(s)
        BY <1>1, <2>2, ReconciledFollows DEF StopRefreshes, FollowsAll
    <2>3. CASE StopRelists(s) \/ StopFails(s) \/ \E p \in PaneIds : StopLists(s, p)
        BY <1>1, <2>3 DEF StopRelists, StopFails, StopLists, hubVars
    <2> QED
        BY <1>4, <2>1, <2>2, <2>3 DEF StopNext
<1>5. ASSUME NEW x \in Agents, NotifierWrites(x)
      PROVE  Follows(a)
    BY <1>5, StaleFollows, HealedFollows DEF NotifierWrites, FollowsAll
<1>6. CASE Refreshes
    BY <1>6, ReconciledFollows DEF Refreshes, FollowsAll
<1>7. ASSUME \/ \E r \in Requests, k \in Keys : Arrives(r, k)
             \/ \E z \in Resumes, x \in Agents : ResumeArrives(z, x)
             \/ PaneInput \/ HubRestarts
      PROVE  Follows(a)
    BY <1>1, <1>7 DEF Arrives, ResumeArrives, PaneInput, HubRestarts, hubVars
<1> QED
    BY <1>2, <1>3, <1>4, <1>5, <1>6, <1>7 DEF LifecycleNext, StopNext

(* A rollback that finds a route of another place finds the pane gone.     *)
LEMMA ReportRollsBack ==
    ASSUME LifecycleAssumption, LifecycleTypes, Serial, Ops, Shells,
           NEW r \in Requests, request[r].at # "idle", FailReported(r),
           UNCHANGED <<live, env, route>>
    PROVE  RollsBack(r)'
<1>1. PICK k \in Keys : k = request[r].key
    BY RequestTyped
<1>2. OpOf(r) = op[k] /\ op[k] \in Op /\ OpSound(k)
    BY <1>1 DEF OpOf, RequestOf, Ops, LifecycleTypes, RowTypes
<1>3. PICK a, t, p : a = op[k].agent /\ t = op[k].terminal /\ p = op[k].pane
    OBVIOUS
<1>4. op'[k].agent = a /\ op'[k].terminal = t /\ op'[k].pane = p
    <2>1. op' = [op EXCEPT ![k].status = "failed"]
        BY <1>1 DEF FailReported, RequestOf
    <2>2. op'[k] = [op[k] EXCEPT !.status = "failed"]
        BY <2>1 DEF LifecycleTypes, RowTypes
    <2> QED
        BY <1>2, <1>3, <2>2 DEF Op
<1>5. request'[r].key = k /\ request'[r].own = OwnsRoute(op[k])
    BY <1>1, <1>2, ReportMoves
<1> SUFFICES ASSUME ~OwnsRoute(op[k]), a # None, AtPane(p), live[p] = t, env[t] = a
             PROVE  route[a].terminal = None
    BY <1>4, <1>5 DEF RollsBack, AtPane
<1>6. p # 0
    BY PanesFit DEF AtPane, LifecycleTypes, PaneTypes, HerdrTypeOK
<1>7. a \in Agents /\ t # None /\ t \in Terminals /\ p \in PaneIds
    BY <1>2, <1>3, <1>6 DEF Op, OpSound
<1>8. Settled(a, t, p)
    <2>1. Shell(k, t, p)
        BY <1>3, <1>7 DEF Shell
    <2> QED
        BY <1>3, <1>7, <2>1 DEF Shells
<1>9. route[a].terminal \in {None, t} /\ (route[a].terminal = t => route[a].pane = p)
    BY <1>8 DEF Settled
<1> QED
    BY <1>3, <1>6, <1>9 DEF OwnsRoute

LEMMA RequestRollsBack ==
    ASSUME LifecycleAssumption, LifecycleTypes, Serial, Ops, Shells, PanesKept, Rollbacks,
           NEW r \in Requests, RequestNext(r)
    PROVE  Rollbacks'
<1>1. Moves(r) /\ Holds(r) /\ request[r].at # "idle"
    BY RequestMoves
<1>2. ASSUME NEW x \in Requests, request'[x].at \in {"cleanup", "closing"}
      PROVE  x = r
    BY <1>1, <1>2 DEF Moves, Serial, Works, Holds
<1>3. PICK k \in Keys : k = request[r].key
    BY <1>1, RequestTyped
<1>4. op \in [Keys -> Op] /\ op[k] \in Op /\ OpSound(k) /\ request[r] \in Request
      /\ RequestOf(r) = k /\ OpOf(r) = op[k]
    BY <1>3 DEF LifecycleTypes, RowTypes, TaskTypes, Ops, RequestOf, OpOf
<1>5. ASSUME request'[r].at \in {"cleanup", "closing"}
      PROVE  RollsBack(r)'
    <2>1. CASE Begins(r)
        <3>1. /\ op' = [op EXCEPT ![k].status = "failed"]
              /\ request' = [request EXCEPT ![r].at = "cleanup", ![r].mode = "retry"]
              /\ op[k].agent = None \/ op[k].pane = 0
            <4>1. ASSUME NEW at \in {"confirm", "bind", "topology"}, NEW m,
                         request' = [request EXCEPT ![r].at = at, ![r].mode = m]
                  PROVE  FALSE
                <5>1. request'[r] = [request[r] EXCEPT !.at = at, !.mode = m]
                    BY <4>1 DEF LifecycleTypes, TaskTypes
                <5> QED
                    BY <1>4, <1>5, <5>1 DEF Request
            <4> QED
                BY <1>4, <2>1, <4>1 DEF Begins, PendingOp, AbsentOp
        <3>2. op'[k] = [op[k] EXCEPT !.status = "failed"]
              /\ request'[r] = [request[r] EXCEPT !.at = "cleanup", !.mode = "retry"]
            BY <1>4, <3>1 DEF LifecycleTypes, TaskTypes
        <3>3. op'[k].agent = None \/ op'[k].pane = 0
            BY <1>4, <3>1, <3>2 DEF Op
        <3>4. request'[r].key = k
            BY <1>3, <1>4, <3>2 DEF Request
        <3>5. ~AtPane(0)'
            <4>1. HerdrTypeOK'
                BY DEF PanesKept, PaneTypes
            <4> QED
                BY <4>1 DEF AtPane, HerdrTypeOK
        <3> QED
            BY <3>3, <3>4, <3>5 DEF RollsBack, AtPane
    <2>2. CASE FailReported(r) /\ ~Begins(r)
        <3>1. UNCHANGED <<live, env, route>>
            <4>1. SplitFails(r) \/ StartFails(r) \/ BindFails(r) \/ Briefs(r)
                <5>1. request'[r].at = "cleanup" /\ op' = [op EXCEPT ![k].status = "failed"]
                    BY <1>4, <2>2, ReportMoves DEF FailReported
                <5>2. ~Answered(r) /\ \A at \in Stages \ {"cleanup"} : ~Goes(r, at)
                    BY <5>1, StageAfter
                <5>3. ~SplitPane(r)
                    BY <5>1, SplitsStage
                <5> QED
                    BY <2>2, <5>2, <5>3
                    DEF RequestNext, Prepares, Unprepared, SplitAnswered, StartAgent, BindRoute,
                        Commits, ConfirmFails, RefreshesForSpawn, RemovesUnbound,
                        ListsForCleanup, CleanupFails, ClosesSpawn, FailUnknown, Stages
            <4> QED
                BY <4>1 DEF SplitFails, StartFails, BindFails, Briefs, paneVars, herdrVars
        <3> QED
            BY <1>1, <2>2, <3>1, ReportRollsBack
    <2>3. CASE ~FailReported(r) /\ ~Begins(r)
        <3>1. ListsForCleanup(r) /\ Goes(r, "closing") /\ op' = op
            <4>1. ~Answered(r) /\ ~FailUnknown(r)
                  /\ \A at \in Stages \ {"cleanup", "closing"} : ~Goes(r, at)
                BY <1>5, StageAfter DEF FailUnknown
            <4>2. ~SplitPane(r)
                BY <1>5, SplitsStage
            <4> QED
                BY <2>3, <4>1, <4>2
                DEF RequestNext, Prepares, Unprepared, SplitAnswered, SplitFails, StartAgent,
                    StartFails, BindRoute, BindFails, Briefs, Commits, ConfirmFails,
                    RefreshesForSpawn, RemovesUnbound, ListsForCleanup, CleanupFails,
                    ClosesSpawn, Fail, Stages
        <3>2. request'[r] = [request[r] EXCEPT !.at = "closing"]
            BY <3>1, GoesMoves DEF Stages
        <3>3. request'[r].key = k /\ request'[r].own = request[r].own
              /\ request[r].at = "cleanup"
            BY <1>3, <1>4, <3>1, <3>2 DEF Request, ListsForCleanup
        <3>4. UNCHANGED <<live, env, route, late>>
            BY <3>1 DEF ListsForCleanup, paneVars, herdrVars
        <3> QED
            BY <1>3, <3>1, <3>3, <3>4 DEF Rollbacks, RollsBack, AtPane
    <2> QED
        BY <2>1, <2>2, <2>3
<1> QED
    BY <1>2, <1>5 DEF Rollbacks, RollsBack

LEMMA OthersRollBack ==
    ASSUME LifecycleAssumption, LifecycleTypes, Serial, Ops, Shells, PanesKept, Rollbacks,
           LifecycleNext, \A r \in Requests : ~RequestNext(r)
    PROVE  Rollbacks'
<1>1. Aside
    BY OthersAside
<1> SUFFICES ASSUME NEW r \in Requests, NEW k, NEW a, NEW t, NEW p,
                    request'[r].at \in {"cleanup", "closing"}, ~request'[r].own,
                    k = request'[r].key,
                    a = op'[k].agent, t = op'[k].terminal, p = op'[k].pane,
                    a # None, AtPane(p)', live'[p] = t, env'[t] = a
             PROVE  route'[a].terminal = None \/ a \in late'
    BY DEF Rollbacks, RollsBack, AtPane
<1>2. /\ request'[r] = request[r] /\ op' = op /\ known' = known
      /\ k \in Keys /\ k = request[r].key
    BY <1>1, RequestTyped DEF Aside, Serial
<1>3. op[k] \in Op /\ OpSound(k) /\ a = op[k].agent /\ t = op[k].terminal /\ p = op[k].pane
    BY <1>2 DEF LifecycleTypes, RowTypes, Ops
<1>4. p # 0
    <2>1. HerdrTypeOK'
        BY DEF PanesKept, PaneTypes
    <2> QED
        BY <2>1 DEF AtPane, HerdrTypeOK
<1>5. a \in Agents /\ a \in known /\ t # None /\ t \in Terminals /\ p \in PaneIds /\ Placed(t, p)
    BY <1>3, <1>4 DEF Op, OpSound
<1>6. AtPane(p) /\ live[p] = t
    BY <1>5, PlacedKept
<1>7. env[t] = a
    BY <1>5, TokensEnd DEF Placed
<1>8. route[a].terminal = None \/ a \in late
    BY <1>2, <1>3, <1>5, <1>6, <1>7 DEF Rollbacks, RollsBack
<1>9. CASE a \in late
    BY <1>2, <1>5, <1>9, LateStep
<1>10. CASE \E v \in Terminals : AgentCalls(v) /\ env[v] = a
    <2>1. PICK v \in Terminals : AgentCalls(v) /\ env[v] = a
        BY <1>10
    <2>2. RolledBackUnrouted(r, a)
        BY <1>2, <1>3 DEF RolledBackUnrouted, OpOf, RequestOf
    <2> QED
        BY <2>1, <2>2 DEF AgentCalls
<1>11. CASE route[a].terminal = None /\ \A v \in Terminals : AgentCalls(v) => env[v] # a
    <2>1. Shell(k, t, p)
        BY <1>3, <1>5 DEF Shell
    <2>2. Settled(a, t, p)
        BY <1>2, <1>3, <1>5, <2>1 DEF Shells
    <2>3. Follows(a)
        BY <1>5, <1>7, <1>11, <2>2, OthersFollow DEF Settled
    <2> QED
        BY <1>11, <2>3 DEF Follows
<1> QED
    BY <1>8, <1>9, <1>10, <1>11

LEMMA RollbacksStep ==
    ASSUME LifecycleAssumption, LifecycleTypes, Serial, Ops, Shells, PanesKept, Rollbacks,
           LifecycleNext
    PROVE  Rollbacks'
BY RequestRollsBack, OthersRollBack

(* A rollback that has closed the pane of the spawn finds nothing else     *)
(* that would keep the identity.                                           *)
LEMMA ClosesAll ==
    ASSUME LifecycleAssumption, LifecycleTypes, Serial, Ops, Shells, Rollbacks,
           NEW r \in Requests, ClosesSpawn(r), ~astray', NEW k \in Keys, k = request[r].key,
           op'[k].agent # None, op'[k].agent \notin history, op[k].agent \notin late,
           op'[k].agent = op[k].agent, env[op[k].terminal] = op[k].agent
    PROVE  FALSE
<1>1. PICK o : o = op[k]
    OBVIOUS
<1>2. /\ o \in Op /\ OpOf(r) = o /\ RequestOf(r) = k /\ op \in [Keys -> Op] /\ OpSound(k) /\ RowFits(r)
    BY <1>1 DEF LifecycleTypes, RowTypes, OpOf, RequestOf, Ops
<1>3. PICK a, t, p : a = o.agent /\ t = o.terminal /\ p = o.pane
    OBVIOUS
<1>4. AtPane(p) /\ live[p] = t
    BY <1>2, <1>3 DEF ClosesSpawn
<1>5. a \in Agents /\ a # None /\ a \notin history /\ t # None /\ t \in Terminals /\ p \in PaneIds
    <2>1. a \in Agents /\ a # None /\ a \notin history
        BY <1>1, <1>2, <1>3 DEF Op
    <2>2. op[k].pane # 0
        BY <1>2 DEF ClosesSpawn, RowFits
    <2> QED
        BY <1>1, <1>2, <1>3, <2>1, <2>2 DEF Op, OpSound
<1>6. /\ route[a].terminal \in {None, t}
      /\ route[a].terminal = t => route[a].pane = p
      /\ \A q \in PaneIds : record[q].agent = a => q = p
    <2>1. Shell(k, t, p)
        BY <1>1, <1>3, <1>5 DEF Shell
    <2>2. Settled(a, t, p)
        BY <1>1, <1>3, <1>5, <2>1 DEF Shells
    <2> QED
        BY <1>1, <1>3, <1>4, <2>2 DEF Settled
<1>7. PICK after : after = StaleOwn(o, request[r].own)
    OBVIOUS
<1>8. after[a].terminal = None \/ after[a].state = "stale"
    <2>1. CASE request[r].own
        <3>1. after = MarkedStale(route, {a})
            BY <1>3, <1>7, <2>1 DEF StaleOwn
        <3>2. after[a] = [route[a] EXCEPT !.state = "stale"] /\ route[a] \in Route
            BY <1>5, <3>1 DEF MarkedStale, LifecycleTypes, RouteTypes
        <3> QED
            BY <3>2 DEF Route
    <2>2. CASE ~request[r].own
        <3>1. request[r].at = "closing" /\ env[t] = a /\ a \notin late
            BY <1>1, <1>3 DEF ClosesSpawn
        <3>2. route[a].terminal = None
            BY <1>1, <1>3, <1>4, <1>5, <2>2, <3>1 DEF Rollbacks, RollsBack
        <3> QED
            BY <1>7, <2>2, <3>2 DEF StaleOwn
    <2> QED
        BY <2>1, <2>2
<1>9. \A q \in PaneIds : WithoutRecord(o)[q].agent # a
    BY <1>3, <1>5, <1>6 DEF WithoutRecord, NoRecord, LifecycleTypes, RowTypes
<1>10. Removable(o, after, WithoutRecord(o))
    BY <1>3, <1>5, <1>8, <1>9 DEF Removable
<1>11. CleanupIs(r, WithoutParticipant(op, a), "closed")
    BY <1>2, <1>3, <1>5, <1>7, <1>10 DEF ClosesSpawn
<1>12. op' = [WithoutParticipant(op, a) EXCEPT ![k].cleanup = "closed"]
    BY <1>2, <1>11 DEF CleanupIs
<1>13. op'[k] = [[op[k] EXCEPT !.agent = None] EXCEPT !.cleanup = "closed"]
    BY <1>1, <1>2, <1>3, <1>12 DEF WithoutParticipant
<1>14. op'[k].agent = None
    BY <1>1, <1>2, <1>13 DEF Op
<1> QED
    BY <1>14

LEMMA ClosedStep ==
    ASSUME LifecycleAssumption, LifecycleTypes, Serial, Ops, PanesKept, Shells,
           Rollbacks, ClosedLeavesNothing, LifecycleNext, Ops'
    PROVE  ClosedLeavesNothing'
<1> SUFFICES ASSUME NEW j \in Keys, op'[j].status = "failed", op'[j].cleanup = "closed", ~astray',
                    op'[j].agent # None, op'[j].agent \notin history', op'[j].agent \notin late',
                    env'[op'[j].terminal] = op'[j].agent
             PROVE  FALSE
    BY DEF ClosedLeavesNothing
<1>1. (\A t \in opened : env'[t] \in {env[t], None}) /\ history \subseteq history' /\ ~astray
    BY TokensEnd DEF PanesKept
<1>0. op'[j].agent \notin late
    <2>1. op'[j].agent \in known'
        BY DEF Ops, OpSound
    <2> QED
        BY <2>1, LateStep
<1>2. ASSUME op[j].cleanup = "closed", op'[j].agent = op[j].agent, op'[j].terminal = op[j].terminal
      PROVE  FALSE
    <2>1. PICK t : t = op[j].terminal
        OBVIOUS
    <2>2. op[j].status = "failed" /\ t \in opened
        BY <1>2, <2>1 DEF Ops, OpSound, Placed
    <2>3. env[t] = op[j].agent
        BY <1>1, <1>2, <2>1, <2>2
    <2> QED
        BY <1>0, <1>1, <1>2, <2>1, <2>2, <2>3 DEF ClosedLeavesNothing
<1>3. ASSUME NEW r \in Requests, RequestNext(r)
      PROVE  FALSE
    <2>1. PICK k \in Keys : k = request[r].key
        BY <1>3, RequestMoves, RequestTyped
    <2>2. (\A l \in Keys \ {k} : op'[l] = op[l]) /\ RowEffect(k)
        BY <1>3, <2>1, RequestRow
    <2>3. j = k
        BY <1>2, <2>2
    <2>4. PICK x \in Requests : ClosesSpawn(x) /\ op'[k].agent = op[k].agent
                                /\ op'[k].terminal = op[k].terminal
        BY <1>2, <2>2, <2>3 DEF RowEffect, SameRow
    <2>5. x = r
        BY <1>3, <2>4, RequestMoves DEF ClosesSpawn, Holds
    <2>6. PICK t : t = op[k].terminal
        OBVIOUS
    <2>7. t \in opened
        <3>1. op[k].pane # 0 /\ OpSound(k)
            BY <2>1, <2>4, <2>5 DEF Ops, RowFits, ClosesSpawn
        <3> QED
            BY <2>6, <3>1 DEF OpSound, Placed
    <2>8. env[t] = op[k].agent
        BY <1>1, <2>3, <2>4, <2>6, <2>7
    <2> QED
        BY <1>0, <1>1, <2>1, <2>3, <2>4, <2>5, <2>6, <2>8, ClosesAll
<1>4. CASE \A r \in Requests : ~RequestNext(r)
    BY <1>2, <1>4, OthersAside DEF Aside
<1> QED
    BY <1>3, <1>4

-----------------------------------------------------------------------------
LEMMA LifecycleStarts ==
    ASSUME LifecycleAssumption, LifecycleInit
    PROVE  LifecycleInv
<1>1. /\ live = Layout /\ live \in Seq(Terminals) /\ DOMAIN live = DOMAIN Layout
      /\ opened = {live[i] : i \in DOMAIN live}
    BY DEF LifecycleAssumption, LifecycleInit
<1>2. PaneTypes
    <2>1. HerdrTypeOK
        BY <1>1 DEF LifecycleAssumption, LifecycleInit, HerdrTypeOK, Activities
    <2>2. opened \subseteq Terminals
        BY <1>1
    <2> QED
        BY <1>1, <2>1, <2>2 DEF PaneTypes, LifecycleInit
<1>3. RouteTypes
    BY DEF RouteTypes, LifecycleInit, Route, Unrouted, OneActivePerTerminal
<1>4. RowTypes
    BY Inherits DEF RowTypes, LifecycleInit
<1>5. TaskTypes
    <2>1. \A z \in Resumes : resume[z].at = "idle"
        BY DEF LifecycleInit, NoResume
    <2> QED
        BY <2>1, Inherits DEF TaskTypes, LifecycleInit
<1>6. CountTypes
    <2>1. MaxCommands \in Nat /\ MaxInputs \in Nat /\ MaxRestarts \in Nat
        BY DEF LifecycleAssumption
    <2>2. commands = 0 /\ inputs = 0 /\ restarts = 0
        BY DEF LifecycleInit
    <2>3. astray \in BOOLEAN
        BY DEF LifecycleInit
    <2>4. commands \in 0..MaxCommands /\ inputs \in 0..MaxInputs /\ restarts \in 0..MaxRestarts
        BY <2>1, <2>2
    <2> QED
        BY <2>3, <2>4 DEF CountTypes
<1>7. \A r \in Requests : request[r].at = "idle"
    BY DEF LifecycleInit, NoRequest
<1>8. Serial
    BY <1>7 DEF Serial, Works, LifecycleInit
<1>9. Ops
    <2>1. ASSUME NEW k \in Keys
          PROVE  OpSound(k)
        <3>1. op[k] = AbsentOp
            BY DEF LifecycleInit
        <3>2. op[k].cleanup # "closed" /\ op[k].agent = None /\ op[k].terminal = None /\ op[k].pane = 0
            BY <3>1 DEF AbsentOp, LifecycleAssumption
        <3> QED
            BY <3>1, <3>2 DEF OpSound
    <2>2. \A r \in Requests : RowFits(r)
        BY <1>7 DEF RowFits, Works
    <2> QED
        BY <2>1, <2>2 DEF Ops
<1>10. Rows
    BY DEF Rows, LifecycleInit, Unrouted, NoRecord
<1>11. Shells
    <2>1. \A k \in Keys : op[k].agent = None
        BY DEF LifecycleInit, AbsentOp
    <2> QED
        BY <1>7, <2>1 DEF Shells
<1>12. Started
    BY DEF Started, LifecycleInit
<1>13. ClosedLeavesNothing
    BY DEF ClosedLeavesNothing, LifecycleInit, AbsentOp
<1>14. Rollbacks /\ late \subseteq Agents
    BY <1>7 DEF Rollbacks, RollsBack, LifecycleInit
<1> QED
    BY <1>2, <1>3, <1>4, <1>5, <1>6, <1>8, <1>9, <1>10, <1>11, <1>12, <1>13, <1>14
    DEF LifecycleInv, LifecycleTypes

LEMMA LifecycleStutters ==
    ASSUME LifecycleAssumption, LifecycleInv, UNCHANGED lifecycleVars
    PROVE  LifecycleInv'
<1> USE DEF LifecycleInv
<1>1. /\ UNCHANGED <<herdrVars, label, opened, env, origin>>
      /\ UNCHANGED <<retired, known, route, history, op, record>>
      /\ UNCHANGED <<queue, request, stop, resume, astray, late, commands, inputs, restarts>>
    BY DEF lifecycleVars, paneVars, hubVars, bounds
<1>2. PanesKept
    BY <1>1, PanesUnchanged DEF LifecycleTypes, PaneTypes
<1>3. RoutesKept
    BY <1>1, RoutesUnchanged DEF LifecycleTypes, RouteTypes
<1>4. LifecycleTypes'
    BY <1>1, <1>2, <1>3
    DEF LifecycleTypes, PanesKept, RoutesKept, RowTypes, TaskTypes, CountTypes
<1>5. Aside
    BY <1>1 DEF Aside
<1>6. Serial' /\ Ops' /\ Started'
    BY <1>1, <1>2, <1>5, SerialSame, OpsSame, StartedAside
<1>7. Rows'
    BY <1>1, SameFollows, RowsSame
<1>8. Shells'
    BY <1>1, <1>2, <1>5, FollowsQuiet, QuietCalm, ShellsAside DEF Follows
<1>9. ClosedLeavesNothing' /\ Rollbacks'
    BY <1>1 DEF ClosedLeavesNothing, Rollbacks, RollsBack, AtPane, herdrVars
<1> QED
    BY <1>4, <1>6, <1>7, <1>8, <1>9

(* The inductive invariant: rows that say what became of their pane,       *)
(* panes that only move down, and identities that are in one place as      *)
(* long as their first token works.                                        *)
THEOREM LifecycleAlways == LifecycleSpec => []LifecycleInv
<1>1. LifecycleInit => LifecycleInv
    BY LifecycleAssumption, LifecycleStarts
<1>2. LifecycleInv /\ [LifecycleNext]_lifecycleVars => LifecycleInv'
    <2> SUFFICES ASSUME LifecycleInv, [LifecycleNext]_lifecycleVars
                 PROVE  LifecycleInv'
        OBVIOUS
    <2>1. CASE UNCHANGED lifecycleVars
        BY <2>1, LifecycleAssumption, LifecycleStutters
    <2>2. CASE LifecycleNext
        <3> USE LifecycleAssumption DEF LifecycleInv
        <3>1. LifecycleTypes' /\ Serial' /\ PanesKept
            BY <2>2, TypesStep
        <3>2. Ops' /\ Rows' /\ Started'
            BY <2>2, <3>1, OpsStep, BooksStep, StartedStep
        <3>3. Shells' /\ Rollbacks' /\ ClosedLeavesNothing'
            BY <2>2, <3>1, <3>2, ShellsStep, RollbacksStep, ClosedStep
        <3> QED
            BY <3>1, <3>2, <3>3
    <2> QED
        BY <2>1, <2>2
<1> QED
    BY <1>1, <1>2, PTL DEF LifecycleSpec

(* Every row, request, stop and resume has its type, for any number of     *)
(* them, any workspace layout and any limits.                              *)
THEOREM LifecycleTypeCorrect == LifecycleSpec => []LifecycleTypeOK
<1>1. LifecycleInv => LifecycleTypeOK
    BY TypesSuffice DEF LifecycleInv
<1> QED
    BY <1>1, LifecycleAlways, PTL

(* A retried spawn never starts a second agent for its operation key,      *)
(* whatever answers were lost, unless a close went astray.                 *)
THEOREM OneAgentForEachKey == LifecycleSpec => []OneAgentPerKey
<1>1. LifecycleInv => OneAgentPerKey
    <2> SUFFICES ASSUME LifecycleInv, NEW k \in Keys, NEW t \in Terminals, NEW u \in Terminals,
                        Exists(t), Exists(u), origin[t] = k, origin[u] = k, ~astray
                 PROVE  t = u
        BY DEF OneAgentPerKey, Runs
    <2>1. k # None
        BY LifecycleAssumption DEF LifecycleAssumption
    <2> QED
        BY <2>1 DEF LifecycleInv, Started, StartedBy
<1> QED
    BY <1>1, LifecycleAlways, PTL

(* A rollback never takes the identity from an agent that a spawn started  *)
(* and that still runs.                                                    *)
THEOREM NobodyEverOrphaned == LifecycleSpec => []NobodyIsOrphaned
<1>1. LifecycleInv => NobodyIsOrphaned
    BY DEF LifecycleInv, Started, StartedBy, NobodyIsOrphaned, Runs
<1> QED
    BY <1>1, LifecycleAlways, PTL

(* A rollback that reports the pane closed has removed the identity too,   *)
(* unless it has left history, a resume has moved its token, or it made    *)
(* itself known after the rollback had read its row.                       *)
THEOREM ClosedAlwaysLeavesNothing == LifecycleSpec => []ClosedLeavesNothing
<1>1. LifecycleInv => ClosedLeavesNothing
    BY DEF LifecycleInv
<1> QED
    BY <1>1, LifecycleAlways, PTL

-----------------------------------------------------------------------------
(* The lock of the workspace.                                              *)

(* How many steps a handler may still take before its answer at most.      *)
Left(at) ==
    CASE at = "queued"    -> 10
      [] at = "topology"  -> 9
      [] at = "split"     -> 8
      [] at = "splitting" -> 7
      [] at = "start"     -> 6
      [] at = "bind"      -> 5
      [] at = "brief"     -> 4
      [] at = "confirm"   -> 3
      [] at = "cleanup"   -> 2
      [] at \in {"refresh", "closing"} -> 1
      [] OTHER            -> 0

Nearer(r) == Left(request'[r].at) < Left(request[r].at)

LEMMA GoesNearer ==
    ASSUME LifecycleTypes, NEW r \in Requests, NEW at \in Stages, Goes(r, at),
           Left(at) < Left(request[r].at)
    PROVE  Nearer(r)
<1>1. request[r] \in Request
    BY DEF LifecycleTypes, TaskTypes
<1>2. request'[r] = [request[r] EXCEPT !.at = at]
    BY GoesMoves
<1>3. request'[r].at = at
    BY <1>1, <1>2 DEF Request
<1> QED
    BY <1>3 DEF Nearer

LEMMA AnsweredIdle ==
    ASSUME LifecycleTypes, NEW r \in Requests, Answered(r), Left(request[r].at) > 0
    PROVE  Nearer(r)
<1>1. request'[r].at = "idle"
    BY AnsweredMoves DEF NoRequest
<1>2. Left("idle") = 0
    BY DEF Left
<1> QED
    BY <1>1, <1>2 DEF Nearer, Left

LEMMA FailNearer ==
    ASSUME LifecycleTypes, NEW r \in Requests, Fail(r), Left(request[r].at) > 2
    PROVE  Nearer(r)
<1>1. CASE FailReported(r)
    BY <1>1, ReportMoves DEF Nearer, Left
<1>2. CASE FailUnknown(r)
    BY <1>2, AnsweredIdle DEF FailUnknown, Left
<1> QED
    BY <1>1, <1>2 DEF Fail

(* Each step of a handler brings it nearer to its answer.                  *)
LEMMA RequestNearer ==
    ASSUME LifecycleTypes, NEW r \in Requests, RequestNext(r)
    PROVE  Nearer(r)
<1>0. request \in [Requests -> Request]
    BY DEF LifecycleTypes, TaskTypes
<1>1. CASE Begins(r)
    <2>1. PICK at \in {"confirm", "bind", "cleanup", "topology"}, m \in {"again", "retry", "new"} :
                request' = [request EXCEPT ![r].at = at, ![r].mode = m]
        BY <1>1 DEF Begins
    <2>2. request'[r].at = at /\ request[r].at = "queued"
        BY <1>0, <1>1, <2>1 DEF Begins, Request
    <2> QED
        BY <2>2 DEF Nearer, Left
<1>2. CASE Prepares(r) \/ Unprepared(r)
    <2>1. request[r].at = "topology" /\ (Answered(r) \/ Goes(r, "split"))
        BY <1>2 DEF Prepares, Unprepared
    <2> QED
        BY <2>1, AnsweredIdle, GoesNearer DEF Stages, Left
<1>3. CASE SplitPane(r)
    <2>1. PICK t, p : request' = [request EXCEPT ![r].at = "splitting", ![r].terminal = t,
                                                 ![r].pane = p]
        BY <1>3 DEF SplitPane
    <2>2. request'[r].at = "splitting" /\ request[r].at = "split"
        BY <1>0, <1>3, <2>1 DEF SplitPane, Request
    <2> QED
        BY <2>2 DEF Nearer, Left
<1>4. CASE SplitAnswered(r) \/ SplitFails(r)
    <2>1. \/ request[r].at = "splitting" /\ Goes(r, "start")
          \/ request[r].at \in {"split", "splitting"} /\ Fail(r)
        BY <1>4 DEF SplitAnswered, SplitFails, Fail
    <2> QED
        BY <2>1, FailNearer, GoesNearer DEF Stages, Left
<1>5. CASE StartAgent(r) \/ StartFails(r)
    <2>1. request[r].at = "start" /\ (Goes(r, "bind") \/ Fail(r))
        BY <1>5 DEF StartAgent, StartFails, Fail
    <2> QED
        BY <2>1, FailNearer, GoesNearer DEF Stages, Left
<1>6. CASE BindRoute(r) \/ BindFails(r)
    <2>1. request[r].at = "bind" /\ (Goes(r, "confirm") \/ Goes(r, "brief") \/ Fail(r))
        BY <1>6 DEF BindRoute, BindFails, Fail
    <2> QED
        BY <2>1, FailNearer, GoesNearer DEF Stages, Left
<1>7. CASE Briefs(r)
    <2>1. request[r].at = "brief" /\ (Goes(r, "confirm") \/ Fail(r))
        BY <1>7 DEF Briefs
    <2> QED
        BY <2>1, FailNearer, GoesNearer DEF Stages, Left
<1>8. CASE Commits(r) \/ ConfirmFails(r)
    <2>1. request[r].at = "confirm" /\ (Goes(r, "refresh") \/ Answered(r))
        BY <1>8 DEF Commits, ConfirmFails, FailUnknown
    <2> QED
        BY <2>1, AnsweredIdle, GoesNearer DEF Stages, Left
<1>9. CASE ListsForCleanup(r)
    <2>1. request[r].at = "cleanup" /\ (Goes(r, "closing") \/ Answered(r))
        BY <1>9 DEF ListsForCleanup
    <2> QED
        BY <2>1, AnsweredIdle, GoesNearer DEF Stages, Left
<1>10. CASE RefreshesForSpawn(r) \/ RemovesUnbound(r) \/ CleanupFails(r) \/ ClosesSpawn(r)
    <2>1. request[r].at \in {"refresh", "cleanup", "closing"} /\ Answered(r)
        BY <1>10 DEF RefreshesForSpawn, RemovesUnbound, CleanupFails, ClosesSpawn
    <2> QED
        BY <2>1, AnsweredIdle DEF Left
<1> QED
    BY <1>1, <1>2, <1>3, <1>4, <1>5, <1>6, <1>7, <1>8, <1>9, <1>10 DEF RequestNext

(* The holder comes nearer to its answer or is left alone; it lets go of   *)
(* the lock only with its answer, and the next in line has it then.        *)
HolderAdvances(r) ==
    /\ Holds(r) /\ request[r].at # "idle"
    /\ \/ Nearer(r) /\ queue' = queue /\ request'[r].at # "idle"
       \/ request'[r].at = "idle" /\ queue' = Tail(queue) /\ ~Holds(r)'

(* Who waits is not disturbed, and keeps its place.                        *)
OthersWait(r) == \A x \in Requests \ {r} : request'[x] = request[x]

LineMovesOn ==
    /\ \A r \in Requests : RequestNext(r) => HolderAdvances(r) /\ OthersWait(r)
    /\ ~HolderNext =>
          \/ queue' = queue /\ request' = request
          \/ \E r \in Requests : queue' = Append(queue, r) /\ OthersWait(r)
                                /\ request[r].at = "idle"
          \/ queue' = <<>> /\ restarts' = restarts + 1

(* The safety half of RequestsAreAnswered (withLifecycleLock): the lock is *)
(* held by one request, the first in line; each of its steps brings it     *)
(* nearer to its answer, at most ten in all, whichever return, failure or  *)
(* rollback it takes; it passes the lock on exactly when it answers; and   *)
(* nothing else moves the line, but a request that joins its end and a     *)
(* restart that ends it.                                                   *)
THEOREM LineAlwaysMovesOn == LifecycleSpec => [][LineMovesOn]_lifecycleVars
<1>1. ASSUME LifecycleInv, LifecycleNext
      PROVE  LineMovesOn
    <2>1. LifecycleTypes /\ Serial /\ Serial'
        BY <1>1, LifecycleAssumption, TasksStep DEF LifecycleInv
    <2>2. ASSUME NEW r \in Requests, RequestNext(r)
          PROVE  HolderAdvances(r) /\ OthersWait(r)
        <3>1. Moves(r) /\ Holds(r) /\ request[r].at # "idle" /\ Nearer(r)
            BY <2>1, <2>2, LifecycleAssumption, RequestMoves, RequestNearer
        <3>2. CASE queue' = queue /\ request'[r].at \in Stages
            BY <3>1, <3>2 DEF HolderAdvances, OthersWait, Moves, Stages
        <3>3. CASE queue' = Tail(queue) /\ request'[r] = NoRequest
            <4>1. request'[r].at = "idle"
                BY <3>3 DEF NoRequest
            <4>2. ASSUME Holds(r)' PROVE FALSE
                <5>1. queue' \in Seq(Requests) /\ queue' # <<>> /\ Head(queue') = r
                    BY <2>1, <3>1, <4>2, SerialMoves DEF Holds
                <5>2. 1 \in DOMAIN queue' /\ queue'[1] = r
                    BY <5>1, HeadAndTail
                <5> QED
                    BY <2>1, <4>1, <5>2 DEF Serial
            <4> QED
                BY <3>1, <3>3, <4>1, <4>2 DEF HolderAdvances, OthersWait, Moves
        <3> QED
            BY <3>1, <3>2, <3>3 DEF Moves
    <2>3. ASSUME NEW r \in Requests, NEW k \in Keys, Arrives(r, k)
          PROVE  queue' = Append(queue, r) /\ OthersWait(r) /\ request[r].at = "idle"
        BY <2>1, <2>3 DEF Arrives, OthersWait, LifecycleTypes, TaskTypes
    <2>4. HubRestarts => queue' = <<>> /\ restarts' = restarts + 1
        BY DEF HubRestarts
    <2>5. \/ \E r \in Requests : RequestNext(r) \/ \E k \in Keys : Arrives(r, k)
          \/ HubRestarts
          \/ queue' = queue /\ request' = request
        BY <1>1 DEF LifecycleNext, StopRelists, StopCloses, StopRefreshes, StopFails, StopLists,
                    ResumeNext, Reissues, ResumeSplits, ResumeStarts, ResumeStartFails,
                    ResumeCloses, ResumeFails, ResumeArrives, Refreshes, AgentCalls,
                    NotifierWrites, PaneInput
    <2> QED
        BY <2>2, <2>3, <2>4, <2>5 DEF LineMovesOn, HolderNext
<1>2. LifecycleInv /\ [LifecycleNext]_lifecycleVars => [LineMovesOn]_lifecycleVars
    BY <1>1
<1> QED
    BY LifecycleAlways, <1>2, PTL DEF LifecycleSpec

=============================================================================
