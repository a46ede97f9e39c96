------------------------------ MODULE KeepAwake ------------------------------
(***************************************************************************)
(* Keep-awake (src/src/keep-awake.ts and the keep-awake part of            *)
(* src/src/store.ts): a human asks the hub to keep an agent or a channel   *)
(* awake.  A watcher reads Herdr's pane statuses on a timer, wakes whoever *)
(* is idle too long, closes dialogs nobody answers, counts both against    *)
(* the policy's budget, and stops the policy when it needs a human.        *)
(*                                                                         *)
(* The watcher reads the policies once per pass and then waits for Herdr   *)
(* many times, while humans and agents write, alert, replace and remove.   *)
(*                                                                         *)
(* Clocks.  Limits are minutes and a pass takes seconds, so a clock is     *)
(* either fresh or past its limit: `fresh` holds the panes whose status    *)
(* and the channels whose last message are recent, and a policy's own flag *)
(* says that its watch or its last wake is.  A clock that runs out during  *)
(* a pass counts from the next one.                                        *)
(*                                                                         *)
(* Agent a runs in terminal a.  A pane id that renumbering has made wrong  *)
(* shows as a prompt or a key that changes nothing: what a pane does after *)
(* a prompt or a key is its own choice here.                               *)
(***************************************************************************)
EXTENDS Integers, FiniteSets

CONSTANTS Agents,
          Channels,       \* group channels
          Direct,         \* the conversation of each agent with the human
          None,           \* no policy
          MaxWakes,       \* limits.maxWakes, the same for every policy
          Checks,         \* DIALOG_CLOSE_CHECKS
          Watchable,      \* bound: the targets that humans set policies for
          Coordinators,   \* bound: the agents they name as coordinator
          MaxMessages,    \* bound: messages ever written
          MaxPolicies,    \* bound: policies ever set
          MaxInputs       \* bound: the other inputs

Conversations == Channels \union {Direct[a] : a \in Agents}
Targets == Agents \union Channels

ASSUME KeepAwakeAssumption ==
    /\ Agents \intersect Channels = {} /\ None \notin Agents \union Channels
    /\ Direct \in [Agents -> {Direct[a] : a \in Agents}]
    /\ \A a, b \in Agents : Direct[a] = Direct[b] => a = b
    /\ \A a \in Agents : Direct[a] \notin Channels
    /\ Watchable \subseteq Targets /\ Coordinators \subseteq Agents
    /\ MaxWakes \in Nat \ {0} /\ Checks \in Nat \ {0}
    /\ {MaxMessages, MaxPolicies, MaxInputs} \subseteq Nat

VARIABLES
    policy,    \* keep_awake_policies: the row of each target, or None
    members,   \* the agents in each conversation
    human,     \* the newest message of a human in each conversation, 0 if none
    lastId,    \* the newest message id
    routed,    \* agents with a live route
    retired,   \* agents with deactivated = 1
    status,    \* what each pane shows; "named" and "unnamed" are blocked ones
    seen,      \* observations: the status of each pane when last read
    fresh,     \* the clocks of panes and channels that are not past the limit
    job,       \* the watcher's pass
    sent,      \* history: what Herdr reported done for a policy since its watch began
    asked,     \* history: the alert that stopped a policy, 0 if none did
    late,      \* history: targets stopped, removed or set since the pass began
    inputs     \* inputs spent

dbVars == <<policy, members, human, lastId, routed, retired>>
watcherVars == <<seen, job>>
historyVars == <<sent, asked, late>>
vars == <<dbVars, status, watcherVars, fresh, historyVars, inputs>>

(* What a pane shows: "gone" stands for no pane and for another occupant,  *)
(* "working" for a status Herdr cannot tell as well (where the two differ, *)
(* in leftBlocked, it is the list that failed); "named" and "unnamed" are  *)
(* blocked on a dialog that is recognised or not.                          *)
Shown == {"idle", "working", "gone", "named", "unnamed"}

(* AgentStatus of a pane: idle stands for done as well.                    *)
StatusOf(s) == IF s \in {"named", "unnamed"} THEN "blocked" ELSE s
Statuses == {StatusOf(s) : s \in Shown}

Causes == {"none", "exhausted", "requested", "unrecognized", "stuck"}
States == {"watching", "needs-human"}
Ids == 1..MaxPolicies
MessageIds == 0..MaxMessages

Policy == [target : Targets, id : Ids, coordinator : Agents, state : States,
           cause : Causes, alert : MessageIds, used : Nat, mark : MessageIds,
           fresh : BOOLEAN]

ASSUME NoneAssumption == None \notin Policy

Rest == [at |-> "rest", todo |-> {}, policy |-> None, agent |-> None, live |-> {},
         blocked |-> {}, used |-> 0, acted |-> FALSE, pending |-> {}, checks |-> 0]

(* Where the pass waits for Herdr.                                         *)
Acting == {"waking", "reading", "confirming", "pressing", "leaving", "explaining"}
Waiting == {"panes"} \union Acting

Places == {"rest", "policies", "members"} \union Waiting
AnAgent == Agents \union {None}
Rows == Policy \union {None}
CheckCounts == 0..Checks

Job == [at : Places, todo : SUBSET Policy, policy : Rows, agent : AnAgent,
        live : SUBSET Agents, blocked : SUBSET Agents, used : Nat, acted : BOOLEAN,
        pending : SUBSET Agents, checks : CheckCounts]

(* The schema's CHECK constraints: a watching row has no cause, a stopped  *)
(* one has, and only an agent's request carries an alert.                  *)
LegalRow(p) ==
    /\ p.state = "watching" <=> p.cause = "none"
    /\ p.alert # 0 => p.cause = "requested"

KeepAwakeTypeOK ==
    /\ policy \in [Targets -> Rows]
    /\ \A t \in Targets : policy[t] # None => policy[t].target = t /\ LegalRow(policy[t])
    /\ members \in [Conversations -> SUBSET Agents]
    /\ human \in [Conversations -> MessageIds] /\ lastId \in MessageIds
    /\ routed \subseteq Agents /\ retired \subseteq Agents
    /\ status \in [Agents -> Shown]
    /\ seen \in [Agents -> Statuses]
    /\ fresh \subseteq Agents \union Channels
    /\ job \in Job
    /\ sent \in [Targets -> Nat] /\ asked \in [Targets -> MessageIds]
    /\ late \subseteq Targets
    /\ inputs \in 0..MaxInputs

(* Agents at rest or at a dialog, some of them in the channel, no policy.  *)
KeepAwakeInit ==
    /\ policy = [t \in Targets |-> None]
    /\ \E first \in {Agents, Coordinators} :
         members = [c \in Conversations |-> IF c \in Channels THEN first ELSE {}]
    /\ human = [c \in Conversations |-> 0] /\ lastId = 0
    /\ routed = Agents /\ retired = {}
    /\ status \in [Agents -> {"idle", "named"}]
    /\ seen = [a \in Agents |-> "gone"]
    /\ fresh = {}
    /\ job = Rest
    /\ sent = [t \in Targets |-> 0] /\ asked = [t \in Targets |-> 0] /\ late = {}
    /\ inputs = 0

(* No request is served and nothing arrives while the pass is between two  *)
(* awaits.                                                                 *)
Quiet == job.at \in {"rest"} \union Waiting

Input == Quiet /\ inputs < MaxInputs /\ inputs' = inputs + 1

-----------------------------------------------------------------------------
(* Reads of the store.                                                     *)

Newest(S) == CHOOSE m \in S \union {0} : \A n \in S \union {0} : n <= m

(* latestHumanMessageIdForAgent, latestHumanMessageIdForChannel.           *)
LatestHuman(t) ==
    IF t \in Agents THEN Newest({human[c] : c \in {d \in Conversations : t \in members[d]}})
    ELSE human[t]

(* The agent whose alert stops a policy: its own, or the coordinator.      *)
Speaker(p) == IF p.target \in Agents THEN p.target ELSE p.coordinator

(* repliedToAlert: an alert whose conversation is gone is not recorded.    *)
RepliedToAlert(p) ==
    /\ p.state = "needs-human" /\ p.cause = "requested" /\ p.alert # 0
    /\ human[Direct[Speaker(p)]] > p.alert

(* keepAwakePolicies: no policy of a deactivated agent or coordinator.     *)
KeepAwakePolicies ==
    {policy[t] : t \in {u \in Targets : policy[u] # None /\ Speaker(policy[u]) \notin retired}}

IsCurrent(p) == policy[p.target] # None /\ policy[p.target].id = p.id
IsWatching(p) == IsCurrent(p) /\ policy[p.target].state = "watching"

(* recordKeepAwakeWake: a paused, replaced or removed policy is unchanged. *)
Woken(p) ==
    IF IsWatching(p)
    THEN [policy EXCEPT ![p.target].used = @ + 1, ![p.target].fresh = TRUE]
    ELSE policy

(* Mutant: a policy that is stopped already takes the newer cause.         *)
StoppedAnyway(p, cause) ==
    IF IsCurrent(p)
    THEN [policy EXCEPT ![p.target].state = "needs-human", ![p.target].cause = cause,
                        ![p.target].alert = 0]
    ELSE policy

(* markKeepAwakeNeedsHuman: the first cause stays.                         *)
Stopped(p, cause) ==
    IF IsWatching(p)
    THEN [policy EXCEPT ![p.target].state = "needs-human", ![p.target].cause = cause]
    ELSE policy

(* resumeKeepAwake: by id, whatever the state of the row is by now.        *)
Resumed(p, mark) ==
    IF IsCurrent(p)
    THEN [policy EXCEPT ![p.target].state = "watching", ![p.target].cause = "none",
                        ![p.target].alert = 0, ![p.target].used = 0,
                        ![p.target].mark = mark, ![p.target].fresh = TRUE]
    ELSE policy

-----------------------------------------------------------------------------
(* The watcher's pass.                                                     *)

(* The timer fires, and no pass is in flight.                              *)
Tick ==
    /\ job.at = "rest"
    /\ IF KeepAwakePolicies = {}
       THEN /\ seen' = [a \in Agents |-> "gone"]
            /\ UNCHANGED job
       ELSE /\ job' = [Rest EXCEPT !.at = "panes", !.todo = KeepAwakePolicies]
            /\ UNCHANGED seen
    /\ UNCHANGED <<dbVars, status, fresh, historyVars, inputs>>

(* Mutant: every list starts the clocks of its panes again.                *)
ListedAtAll(x) == TRUE

StatusChanged(x) == StatusOf(status[x]) # seen[x]

(* watch, observe: a pane whose status changed starts a new clock.  Agents *)
(* with messages that the notifier has not told them of are pending.       *)
PanesArrive ==
    /\ job.at = "panes"
    /\ seen' = [a \in Agents |-> StatusOf(status[a])]
    /\ fresh' = fresh \union {a \in Agents : StatusChanged(a)}
    /\ \E untold \in SUBSET Agents :
         /\ \/ untold = {} /\ UNCHANGED inputs
            \/ untold # {} /\ Input
         /\ job' = [job EXCEPT !.at = "policies", !.pending = untold]
    /\ UNCHANGED <<dbVars, status, historyVars>>

PanesFail ==
    /\ job.at = "panes" /\ Input
    /\ job' = Rest /\ late' = {}
    /\ UNCHANGED <<dbVars, status, seen, fresh, sent, asked>>

(* ORDER BY k.id.                                                          *)
NextPolicy == CHOOSE p \in job.todo : \A q \in job.todo : p.id <= q.id

Taken(p) == [Rest EXCEPT !.at = "policies", !.todo = job.todo \ {p}, !.pending = job.pending]
ToPolicies == Taken(job.policy)

(* Mutant: a stopped policy is watched like any other.                     *)
AnyIsWatched(p) == TRUE

(* The state that the pass read at its start.                              *)
IsWatched(p) == p.state = "watching"

HasRoute(a) == a \in routed \ retired
IsLive(a) == HasRoute(a) /\ seen[a] # "gone"

(* liveAgent, keepAwakeMembers: routed agents whose pane was listed.       *)
LiveMembers(c) == {a \in members[c] : IsLive(a)}

(* decideAgent with `used` wakes of the budget gone.                       *)
Waited(p, a) == ~p.fresh /\ a \notin fresh
Due(p, a) == IsLive(a) /\ seen[a] \in {"idle", "blocked"} /\ Waited(p, a)
HasBudget(used) == used < MaxWakes

(* resumeOnHumanMessage.                                                   *)
ResumesOnHumanMessage(p) == LatestHuman(p.target) > p.mark \/ RepliedToAlert(p)

ResumePolicy(p) ==
    /\ ResumesOnHumanMessage(p)
    /\ policy' = Resumed(p, LatestHuman(p.target))
    /\ sent' = IF IsCurrent(p) THEN [sent EXCEPT ![p.target] = 0] ELSE sent
    /\ asked' = IF IsCurrent(p) THEN [asked EXCEPT ![p.target] = 0] ELSE asked
    /\ job' = Taken(p)
    /\ UNCHANGED late

SkipPolicy(p) ==
    /\ ~ResumesOnHumanMessage(p)
    /\ \/ ~IsWatched(p)
       \/ /\ IsWatched(p) /\ p.target \in Agents
          /\ \/ ~Due(p, p.target)
             \/ HasBudget(p.used) /\ seen[p.target] = "idle" /\ p.target \in job.pending
    /\ job' = Taken(p)
    /\ UNCHANGED <<policy, sent, asked, late>>

StopPolicy(p, cause) ==
    /\ policy' = Stopped(p, cause)
    /\ late' = late \union {p.target}
    /\ UNCHANGED <<sent, asked>>

(* watchAgent.                                                             *)
WatchAgent(p) ==
    LET a == p.target IN
    /\ ~ResumesOnHumanMessage(p) /\ IsWatched(p) /\ a \in Agents /\ Due(p, a)
    /\ \/ /\ ~HasBudget(p.used)
          /\ StopPolicy(p, "exhausted")
          /\ job' = Taken(p)
       \/ /\ HasBudget(p.used)
          /\ seen[a] = "idle" => a \notin job.pending
          /\ job' = [job EXCEPT !.at = IF seen[a] = "blocked" THEN "reading" ELSE "waking",
                                !.policy = p, !.agent = a]
          /\ UNCHANGED <<policy, sent, asked, late>>

(* watchChannel, up to its loop over the blocked members.                  *)
WatchChannel(p) ==
    /\ ~ResumesOnHumanMessage(p) /\ IsWatched(p) /\ p.target \in Channels
    /\ LET live == LiveMembers(p.target)
       IN  job' = [job EXCEPT !.at = "members", !.policy = p, !.live = live,
                              !.blocked = {a \in live : seen[a] = "blocked"}, !.used = p.used]
    /\ UNCHANGED <<policy, sent, asked, late>>

TakePolicy ==
    /\ job.at = "policies"
    /\ IF job.todo = {}
       THEN job' = Rest /\ late' = {} /\ UNCHANGED <<policy, sent, asked>>
       ELSE \/ ResumePolicy(NextPolicy)
            \/ SkipPolicy(NextPolicy)
            \/ WatchAgent(NextPolicy)
            \/ WatchChannel(NextPolicy)
    /\ UNCHANGED <<members, human, lastId, routed, retired, status, seen, fresh, inputs>>

(* The loop of watchChannel: a blocked member is closed on its own clock.  *)
TakeMember ==
    /\ job.at = "members" /\ job.blocked # {}
    /\ \E a \in job.blocked :
         \/ /\ ~Waited(job.policy, a)
            /\ job' = [job EXCEPT !.blocked = @ \ {a}]
            /\ UNCHANGED <<policy, sent, asked, late>>
         \/ /\ Waited(job.policy, a) /\ HasBudget(job.used)
            /\ job' = [job EXCEPT !.blocked = @ \ {a}, !.at = "reading", !.agent = a]
            /\ UNCHANGED <<policy, sent, asked, late>>
         \/ /\ Waited(job.policy, a) /\ ~HasBudget(job.used)
            /\ StopPolicy(job.policy, "exhausted")
            /\ job' = ToPolicies
    /\ UNCHANGED <<members, human, lastId, routed, retired, status, seen, fresh, inputs>>

(* decideChannel: every live member is inactive, and all clocks ran out.   *)
ChannelDue(p) ==
    /\ job.live # {}
    /\ \A a \in job.live : seen[a] \in {"idle", "blocked"} /\ a \notin fresh
    /\ p.target \notin fresh /\ ~p.fresh

(* wakeCoordinator, unless a member was acted on.                          *)
TakeCoordinator ==
    /\ job.at = "members" /\ job.blocked = {}
    /\ LET p == job.policy
           c == p.coordinator
           wakes == ~job.acted /\ ChannelDue(p) IN
       \/ /\ wakes /\ ~HasBudget(p.used)
          /\ StopPolicy(p, "exhausted")
          /\ job' = ToPolicies
       \/ /\ wakes /\ HasBudget(p.used)
          /\ c \in job.live /\ seen[c] = "idle" /\ c \notin job.pending
          /\ job' = [job EXCEPT !.at = "waking", !.agent = c]
          /\ UNCHANGED <<policy, sent, asked, late>>
       \/ /\ \/ ~wakes
             \/ /\ HasBudget(p.used)
                /\ ~(c \in job.live /\ seen[c] = "idle" /\ c \notin job.pending)
          /\ job' = ToPolicies
          /\ UNCHANGED <<policy, sent, asked, late>>
    /\ UNCHANGED <<members, human, lastId, routed, retired, status, seen, fresh, inputs>>

(* Herdr did what was asked for the policy of the pass.                    *)
Counted ==
    /\ policy' = Woken(job.policy)
    /\ sent' = IF IsCurrent(job.policy)
               THEN [sent EXCEPT ![job.policy.target] = @ + 1] ELSE sent

(* The pane does as it is told, or nothing comes of it.                    *)
Reacts(S) ==
    \/ \E s \in S : status' = [status EXCEPT ![job.agent] = s]
    \/ UNCHANGED status

(* wake: only a prompt that Herdr reports delivered counts.                *)
WakeAnswered ==
    /\ job.at = "waking"
    /\ \/ Counted /\ Reacts({"working"}) /\ UNCHANGED inputs
       \/ Input /\ UNCHANGED <<policy, sent, status>>
    /\ job' = ToPolicies
    /\ UNCHANGED <<members, human, lastId, routed, retired, seen, fresh, asked, late>>

(* Mutant: the loop compares with what the policy had used at its start.   *)
DialogLeftUncounted ==
    IF job.policy.target \in Agents THEN ToPolicies
    ELSE [job EXCEPT !.at = "members", !.agent = None, !.acted = TRUE, !.checks = 0]

(* closeDialog is over: the loop of a channel goes on, with one wake less  *)
(* whether or not a dialog was closed.                                     *)
DialogLeft ==
    IF job.policy.target \in Agents THEN ToPolicies
    ELSE [job EXCEPT !.at = "members", !.agent = None, !.used = @ + 1, !.acted = TRUE,
                     !.checks = 0]

(* paneRead and classifyBlockedScreen: a screen without a dialog that can  *)
(* be named stops the policy.                                              *)
ScreenRead ==
    /\ job.at = "reading"
    /\ \/ /\ status[job.agent] = "named"
          /\ job' = [job EXCEPT !.at = "confirming"]
          /\ UNCHANGED <<policy, sent, asked, late, inputs>>
       \/ /\ status[job.agent] # "named"
          /\ StopPolicy(job.policy, "unrecognized")
          /\ job' = ToPolicies
          /\ UNCHANGED inputs
       \/ /\ Input
          /\ job' = DialogLeft
          /\ UNCHANGED <<policy, sent, asked, late>>
    /\ UNCHANGED <<members, human, lastId, routed, retired, status, seen, fresh>>

(* paneStatus: a list that fails reads as unknown.                         *)
StillBlocked ==
    /\ job.at = "confirming"
    /\ \/ /\ StatusOf(status[job.agent]) = "blocked"
          /\ job' = [job EXCEPT !.at = "pressing"]
          /\ UNCHANGED inputs
       \/ /\ StatusOf(status[job.agent]) # "blocked"
          /\ job' = DialogLeft
          /\ UNCHANGED inputs
       \/ Input /\ job' = DialogLeft
    /\ UNCHANGED <<dbVars, status, seen, fresh, historyVars>>

(* paneSendKey.                                                            *)
EscapePressed ==
    /\ job.at = "pressing"
    /\ \/ /\ Counted /\ Reacts({"idle", "working"})
          /\ job' = [job EXCEPT !.at = "leaving"]
          /\ UNCHANGED inputs
       \/ Input /\ job' = DialogLeft /\ UNCHANGED <<policy, sent, status>>
    /\ UNCHANGED <<members, human, lastId, routed, retired, seen, fresh, asked, late>>

(* leftBlocked: one check; a pane that is gone reads as unknown.           *)
LeftBlocked ==
    /\ job.at = "leaving"
    /\ \/ /\ status[job.agent] \in {"idle", "working"}
          /\ job' = [job EXCEPT !.at = "explaining"]
          /\ UNCHANGED <<policy, sent, asked, late, inputs>>
       \/ /\ \/ status[job.agent] \notin {"idle", "working"} /\ UNCHANGED inputs
             \/ Input
          /\ IF job.checks + 1 < Checks
             THEN /\ job' = [job EXCEPT !.checks = @ + 1]
                  /\ UNCHANGED <<policy, sent, asked, late>>
             ELSE /\ StopPolicy(job.policy, "stuck")
                  /\ job' = ToPolicies
    /\ UNCHANGED <<members, human, lastId, routed, retired, status, seen, fresh>>

(* The prompt that explains; it counts as nothing, delivered or not.       *)
ExplainAnswered ==
    /\ job.at = "explaining"
    /\ job' = DialogLeft
    /\ UNCHANGED <<dbVars, status, seen, fresh, historyVars, inputs>>

PassStep ==
    \/ PanesArrive \/ PanesFail \/ TakePolicy \/ TakeMember \/ TakeCoordinator
    \/ WakeAnswered \/ ScreenRead \/ StillBlocked \/ EscapePressed \/ LeftBlocked
    \/ ExplainAnswered

-----------------------------------------------------------------------------
(* Requests: each is one transaction between two awaits of the pass.       *)

NewPolicy(t, c) ==
    [target |-> t, id |-> 1 + Newest({policy[u].id : u \in {v \in Targets : policy[v] # None}}
                                     \union {p.id : p \in job.todo}
                                     \union (IF job.policy = None THEN {} ELSE {job.policy.id})),
     coordinator |-> c, state |-> "watching", cause |-> "none", alert |-> 0,
     used |-> 0, mark |-> LatestHuman(t), fresh |-> TRUE]

(* What a request stops or replaces while a pass is in flight.             *)
Stricken(S) == IF job.at = "rest" THEN {} ELSE late \union S

(* setAgentKeepAwake, setChannelKeepAwake: a fresh watch replaces the old. *)
SetKeepAwake(t, c) ==
    /\ Quiet
    /\ t \in Watchable /\ c \in Agents \ retired
    /\ IF t \in Agents THEN c = t ELSE c \in members[t] \intersect Coordinators
    /\ NewPolicy(t, c).id <= MaxPolicies
    /\ policy' = [policy EXCEPT ![t] = NewPolicy(t, c)]
    /\ sent' = [sent EXCEPT ![t] = 0]
    /\ asked' = [asked EXCEPT ![t] = 0]
    /\ late' = Stricken({t})
    /\ UNCHANGED <<members, human, lastId, routed, retired, status, watcherVars, fresh, inputs>>

(* removeAgentKeepAwake, removeChannelKeepAwake.                           *)
RemoveKeepAwake(t) ==
    /\ Input
    /\ policy[t] # None
    /\ t \in Agents => t \notin retired
    /\ policy' = [policy EXCEPT ![t] = None]
    /\ sent' = [sent EXCEPT ![t] = 0]
    /\ asked' = [asked EXCEPT ![t] = 0]
    /\ late' = Stricken({t})
    /\ UNCHANGED <<members, human, lastId, routed, retired, status, watcherVars, fresh>>

(* alertHuman: the message to the human, and every watching policy that    *)
(* would wake the agent stops with it as the cause.  An alert that stops   *)
(* nothing is a message like others.                                       *)
StoppedBy(a) ==
    {t \in Targets : policy[t] # None /\ policy[t].state = "watching" /\ Speaker(policy[t]) = a}

AlertHuman(a) ==
    /\ Quiet
    /\ a \notin retired /\ StoppedBy(a) # {}
    /\ lastId < MaxMessages /\ lastId' = lastId + 1
    /\ members' = [members EXCEPT ![Direct[a]] = {a}]
    /\ policy' = [t \in Targets |->
                    IF t \in StoppedBy(a)
                    THEN [policy[t] EXCEPT !.state = "needs-human", !.cause = "requested",
                                           !.alert = lastId']
                    ELSE policy[t]]
    /\ asked' = [t \in Targets |-> IF t \in StoppedBy(a) THEN lastId' ELSE asked[t]]
    /\ late' = Stricken(StoppedBy(a))
    /\ UNCHANGED <<human, routed, retired, status, watcherVars, fresh, sent, inputs>>

(* A human writes in a conversation: the agents in it have it unread.      *)
HumanWrites(c) ==
    /\ Quiet
    /\ lastId < MaxMessages /\ lastId' = lastId + 1
    /\ c \in Channels \/ members[c] # {}
    /\ human' = [human EXCEPT ![c] = lastId']
    /\ fresh' = fresh \union ({c} \intersect Channels)
    /\ UNCHANGED <<policy, members, routed, retired, status, watcherVars, historyVars, inputs>>

(* addMember, join.                                                        *)
Join(a, c) ==
    /\ Input
    /\ c \in Channels /\ a \notin members[c] /\ a \notin retired
    /\ members' = [members EXCEPT ![c] = @ \union {a}]
    /\ UNCHANGED <<policy, human, lastId, routed, retired, status, watcherVars, fresh, historyVars>>

(* removeMember: a coordinator may leave too.                              *)
Leave(a, c) ==
    /\ Input
    /\ c \in Channels /\ a \in members[c]
    /\ members' = [members EXCEPT ![c] = @ \ {a}]
    /\ UNCHANGED <<policy, human, lastId, routed, retired, status, watcherVars, fresh, historyVars>>

(* deleteChannel: a policy of the channel makes the statement fail, since  *)
(* keep_awake_policies.channel_id references it; an alert in a deleted     *)
(* conversation reads as not recorded.                                     *)
DeleteConversation(c) ==
    /\ Input
    /\ c \in Channels => policy[c] = None
    /\ members[c] # {}
    /\ members' = [members EXCEPT ![c] = {}]
    /\ human' = [human EXCEPT ![c] = 0]
    /\ fresh' = fresh \ {c}
    /\ LET lost == {t \in Targets : policy[t] # None /\ Direct[Speaker(policy[t])] = c}
       IN  /\ policy' = [t \in Targets |->
                            IF t \in lost THEN [policy[t] EXCEPT !.alert = 0] ELSE policy[t]]
           /\ asked' = [t \in Targets |-> IF t \in lost THEN 0 ELSE asked[t]]
    /\ UNCHANGED <<lastId, routed, retired, status, watcherVars, sent, late>>

(* deactivateParticipant.                                                  *)
Deactivate(a) ==
    /\ Input
    /\ a \notin retired
    /\ retired' = retired \union {a} /\ routed' = routed \ {a}
    /\ UNCHANGED <<policy, members, human, lastId, status, watcherVars, fresh, historyVars>>

(* The agent's route ends or returns (Routes).                             *)
RouteChanges(a) ==
    /\ Input
    /\ a \notin retired
    /\ routed' = IF a \in routed THEN routed \ {a} ELSE routed \union {a}
    /\ UNCHANGED <<policy, members, human, lastId, retired, status, watcherVars, fresh, historyVars>>

(* Herdr: what a pane shows changes, by itself, by a human at the pane, or *)
(* by what the hub sent there.                                             *)
PaneChanges(a, s) ==
    /\ Input
    /\ status[a] # s
    /\ status' = [status EXCEPT ![a] = s]
    /\ UNCHANGED <<dbVars, watcherVars, fresh, historyVars>>

(* Nothing happens for long, between two passes: every clock runs out.     *)
TimePasses ==
    /\ job.at = "rest"
    /\ fresh # {} \/ \E t \in Targets : policy[t] # None /\ policy[t].fresh
    /\ fresh' = {}
    /\ policy' = [t \in Targets |->
                    IF policy[t] = None THEN None ELSE [policy[t] EXCEPT !.fresh = FALSE]]
    /\ UNCHANGED <<members, human, lastId, routed, retired, status, watcherVars,
                   historyVars, inputs>>

(* The hub stops at any point and starts again: the rows stay.             *)
HubRestarts ==
    /\ Input
    /\ job' = Rest /\ late' = {}
    /\ seen' = [a \in Agents |-> "gone"]
    /\ UNCHANGED <<dbVars, status, fresh, sent, asked>>

Requests ==
    \/ \E t \in Targets : (\E c \in Agents : SetKeepAwake(t, c)) \/ RemoveKeepAwake(t)
    \/ \E a \in Agents : AlertHuman(a) \/ Deactivate(a) \/ RouteChanges(a)
    \/ \E c \in Conversations : HumanWrites(c) \/ DeleteConversation(c)
    \/ \E a \in Agents, c \in Channels : Join(a, c) \/ Leave(a, c)

KeepAwakeNext ==
    \/ Tick \/ PassStep \/ Requests \/ HubRestarts
    \/ \E a \in Agents, s \in Shown : PaneChanges(a, s)
    \/ TimePasses

(* The interval timer fires, calls to Herdr end (at the latest by their    *)
(* timeout), and time passes.                                              *)
KeepAwakeFairness ==
    WF_vars(Tick) /\ WF_vars(PassStep) /\ SF_vars(TimePasses)

KeepAwakeSpec == KeepAwakeInit /\ [][KeepAwakeNext]_vars
FairKeepAwakeSpec == KeepAwakeSpec /\ KeepAwakeFairness

-----------------------------------------------------------------------------
(* "Every wake and every closed dialog counts against the policy's wake    *)
(* budget" (keep-awake.ts:8): since a watch began, Herdr has reported no   *)
(* more prompts and keys for the policy than its budget, though a channel  *)
(* spends several in one pass and alerts stop the counting in between.     *)
BudgetHolds == \A t \in Targets : sent[t] <= MaxWakes

(* A policy that is stopped, replaced or removed costs its target no more  *)
(* than what the pass in flight had begun: no later pass acts for it.      *)
QuietOnceStopped ==
    job.at \in Acting => IsWatching(job.policy) \/ job.policy.target \in late

(* keep-awake.ts:316: an answer to an agent's alert in the conversation    *)
(* that holds it brings the policy back, also for a channel that does not  *)
(* see that conversation, whatever the watcher was doing meanwhile.        *)
Answered(t) ==
    /\ asked[t] # 0 /\ policy[t] # None
    /\ human[Direct[Speaker(policy[t])]] > asked[t]
AnswerResumes ==
    \A t \in Watchable :
        Answered(t) ~> \/ asked[t] = 0 \/ policy[t] = None
                       \/ Speaker(policy[t]) \in retired

(* A watched agent that stays idle or blocked is not left alone: it is     *)
(* woken until it works or the budget is spent and a human is needed.      *)
Neglected(a) ==
    /\ policy[a] # None /\ policy[a].state = "watching"
    /\ a \in routed \ retired
    /\ status[a] \in {"idle", "named", "unnamed"}
NobodyIsNeglected == \A a \in Agents \intersect Watchable : ~<>[]Neglected(a)

=============================================================================
