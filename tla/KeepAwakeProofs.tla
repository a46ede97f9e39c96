-------------------------- MODULE KeepAwakeProofs ---------------------------
(***************************************************************************)
(* Theorems about keep-awake, for any agents, channels and bounds: the     *)
(* rows and the pass are well typed, a policy costs no more than its       *)
(* budget, and one that was stopped, replaced or removed costs no more     *)
(* than what the pass in flight had begun.                                 *)
(***************************************************************************)
EXTENDS KeepAwake, TLAPS, WellFoundedInduction

USE KeepAwakeAssumption, NoneAssumption

(* What the watcher knows about the policy it has taken.                   *)
Sound(pass) ==
    /\ pass.at = "rest" => pass.todo = {}
    /\ pass.at \in {"rest", "panes", "policies"} => pass.policy = None
    /\ pass.at \in {"members"} \union Acting =>
         pass.policy # None /\ pass.policy.state = "watching"

JobOK(pass) == pass \in Job /\ Sound(pass)

(* The rows of the table.                                                  *)
RowsOK(rows) ==
    /\ rows \in [Targets -> Rows]
    /\ \A t \in Targets : rows[t] # None => rows[t].target = t /\ LegalRow(rows[t])

TypeInv == KeepAwakeTypeOK /\ Sound(job)

-----------------------------------------------------------------------------
(* The store's maximum of a bounded set, and the next policy of a pass.    *)

LEMMA LeastNumber ==
    ASSUME NEW T \in SUBSET Nat, T # {}
    PROVE  \E m \in T : \A k \in T : m <= k
<1> DEFINE Less == {pair \in Nat \X Nat : pair[1] < pair[2]}
<1>1. IsWellFoundedOn(Less, Nat)
    BY NatLessThanWellFounded DEF OpToRel
<1>2. \E m \in T : \A k \in T : ~ (<<k, m>> \in Less)
    <2> HIDE DEF Less
    <2> QED
        BY <1>1, WFMin
<1>3. \A k, m \in T : k < m => <<k, m>> \in Less
    OBVIOUS
<1>4. PICK m \in T : \A k \in T : ~ (k < m)
    <2> HIDE DEF Less
    <2> QED
        BY <1>2, <1>3
<1>5. \A k \in T : m <= k
    BY <1>4
<1> QED
    BY <1>4, <1>5

LEMMA NewestType ==
    ASSUME NEW n \in Nat, NEW S \in SUBSET (0..n)
    PROVE  Newest(S) \in S \union {0} /\ Newest(S) \in 0..n
<1> DEFINE Above == {k \in Nat : \A m \in S : m <= k}
<1>1. n \in Above
    OBVIOUS
<1>2. PICK k \in Above : \A j \in Above : k <= j
    BY <1>1, LeastNumber
<1>3. k \in S \union {0}
    <2>1. ASSUME k # 0
          PROVE  k \in S
        <3>1. k - 1 \in Nat /\ k - 1 \notin Above
            BY <1>2, <2>1
        <3>2. PICK m \in S : ~(m <= k - 1)
            BY <3>1
        <3> QED
            BY <1>2, <3>2
    <2> QED
        BY <2>1
<1>4. \E m \in S \union {0} : \A j \in S \union {0} : j <= m
    BY <1>2, <1>3
<1> QED
    BY <1>4 DEF Newest

LEMMA NextPolicyType ==
    ASSUME job \in Job, job.todo # {}
    PROVE  NextPolicy \in job.todo
<1> DEFINE Numbers == {p.id : p \in job.todo}
<1>1. Numbers \subseteq Nat /\ Numbers # {}
    BY DEF Job, Policy, Ids
<1>2. PICK k \in Numbers : \A j \in Numbers : k <= j
    BY <1>1, LeastNumber
<1>3. PICK p \in job.todo : k = p.id
    BY <1>2
<1>4. \E q \in job.todo : \A r \in job.todo : q.id <= r.id
    BY <1>2, <1>3
<1> QED
    BY <1>4 DEF NextPolicy

LEMMA LatestHumanType ==
    ASSUME KeepAwakeTypeOK, NEW t \in Targets
    PROVE  LatestHuman(t) \in MessageIds
<1>1. CASE t \in Agents
    <2> DEFINE Unread == {human[c] : c \in {d \in Conversations : t \in members[d]}}
    <2>1. Unread \in SUBSET (0..MaxMessages)
        BY DEF KeepAwakeTypeOK, MessageIds
    <2>2. Newest(Unread) \in MessageIds
        BY <2>1, NewestType DEF MessageIds
    <2> QED
        BY <1>1, <2>2 DEF LatestHuman
<1>2. CASE t \notin Agents
    BY <1>2 DEF LatestHuman, KeepAwakeTypeOK, Targets, Conversations
<1> QED
    BY <1>1, <1>2

-----------------------------------------------------------------------------
LEMMA TypeInit == KeepAwakeInit => TypeInv
<1> SUFFICES ASSUME KeepAwakeInit
             PROVE  TypeInv
    OBVIOUS
<1>1. Rest \in Job
    BY DEF Rest, Job, Places, AnAgent, Rows, CheckCounts
<1>2. [a \in Agents |-> "gone"] \in [Agents -> Statuses]
    BY DEF Statuses, Shown, StatusOf
<1>3. [c \in Conversations |-> IF c \in Channels THEN Agents ELSE {}]
        \in [Conversations -> SUBSET Agents]
    OBVIOUS
<1>4. members \in [Conversations -> SUBSET Agents]
    BY DEF KeepAwakeInit
<1>5. status \in [Agents -> Shown]
    BY DEF KeepAwakeInit, Shown
<1>6. KeepAwakeTypeOK
    BY <1>1, <1>2, <1>4, <1>5 DEF KeepAwakeInit, KeepAwakeTypeOK, Rows, MessageIds
<1>7. Sound(job)
    BY DEF KeepAwakeInit, Sound, Rest, Acting
<1> QED
    BY <1>6, <1>7 DEF TypeInv

-----------------------------------------------------------------------------
(* What the parts of a step return.                                        *)

LEMMA RestOK == JobOK(Rest)
<1>1. "rest" \in Places /\ None \in AnAgent /\ None \in Rows /\ 0 \in CheckCounts
    BY DEF Places, AnAgent, Rows, CheckCounts
<1>2. Rest \in Job
    BY <1>1 DEF Rest, Job
<1> QED
    BY <1>2 DEF JobOK, Sound, Rest, Acting

LEMMA TakenOK ==
    ASSUME job \in Job, NEW p
    PROVE  /\ JobOK(Taken(p)) /\ Taken(p).at = "policies"
           /\ Taken(p).policy = None /\ Taken(p).todo = job.todo \ {p}
<1>1. "policies" \in Places
    BY DEF Places
<1>2. Rest \in Job
    BY RestOK DEF JobOK
<1>3. Taken(p) \in Job
    BY <1>1, <1>2 DEF Taken, Job
<1>4. /\ Taken(p).at = "policies" /\ Taken(p).policy = None
      /\ Taken(p).todo = job.todo \ {p}
    BY DEF Taken, Rest
<1> QED
    BY <1>3, <1>4 DEF JobOK, Sound, Acting

LEMMA DialogLeftOK ==
    ASSUME TypeInv, job.at \in Acting
    PROVE  /\ JobOK(DialogLeft)
           /\ \/ DialogLeft = Taken(job.policy)
              \/ /\ job.policy.target \notin Agents
                 /\ DialogLeft.at = "members" /\ DialogLeft.policy = job.policy
                 /\ DialogLeft.todo = job.todo /\ DialogLeft.used = job.used + 1
                 /\ DialogLeft.acted = TRUE
<1>1. job \in Job /\ Sound(job)
    BY DEF TypeInv, KeepAwakeTypeOK
<1>2. CASE job.policy.target \in Agents
    BY <1>1, <1>2, TakenOK DEF DialogLeft, ToPolicies
<1>3. CASE job.policy.target \notin Agents
    <2>1. "members" \in Places /\ None \in AnAgent /\ 0 \in CheckCounts
        BY DEF Places, AnAgent, CheckCounts
    <2>2. job.used + 1 \in Nat
        BY <1>1 DEF Job
    <2>3. DialogLeft = [job EXCEPT !.at = "members", !.agent = None, !.used = job.used + 1,
                                   !.acted = TRUE, !.checks = 0]
        BY <1>3 DEF DialogLeft
    <2>4. DialogLeft \in Job
        BY <1>1, <2>1, <2>2, <2>3 DEF Job
    <2>5. /\ DialogLeft.at = "members" /\ DialogLeft.policy = job.policy
          /\ DialogLeft.todo = job.todo /\ DialogLeft.used = job.used + 1
          /\ DialogLeft.acted = TRUE
        BY <1>1, <2>3 DEF Job
    <2> QED
        BY <1>1, <1>3, <2>4, <2>5 DEF JobOK, Sound
<1> QED
    BY <1>2, <1>3

(* Rows stay legal, whatever a pass writes.                                *)
LEMMA RowOf ==
    ASSUME RowsOK(policy), NEW p \in Policy, IsCurrent(p)
    PROVE  /\ p.target \in Targets /\ policy[p.target] \in Policy
           /\ policy[p.target].target = p.target /\ LegalRow(policy[p.target])
    BY DEF RowsOK, IsCurrent, Policy, Rows

LEMMA WokenOK ==
    ASSUME RowsOK(policy), NEW p \in Policy
    PROVE  RowsOK(Woken(p))
<1> DEFINE Next(q) == [q EXCEPT !.used = @ + 1, !.fresh = TRUE]
<1>1. ASSUME NEW q \in Policy
      PROVE  /\ Next(q) \in Policy /\ Next(q).target = q.target
             /\ LegalRow(q) => LegalRow(Next(q))
    <2>1. q.used + 1 \in Nat
        BY DEF Policy
    <2>2. Next(q) \in Policy
        BY <2>1 DEF Policy
    <2>3. /\ Next(q).target = q.target /\ Next(q).state = q.state
          /\ Next(q).cause = q.cause /\ Next(q).alert = q.alert
        BY DEF Policy
    <2> QED
        BY <2>2, <2>3 DEF LegalRow
<1>2. ASSUME IsWatching(p)
      PROVE  RowsOK(Woken(p))
    <2>1. Woken(p) = [policy EXCEPT ![p.target] = Next(policy[p.target])]
        BY <1>2 DEF Woken
    <2> HIDE DEF Next
    <2> QED
        BY <1>1, <1>2, <2>1, RowOf DEF IsWatching, RowsOK, Rows
<1> QED
    BY <1>2 DEF Woken

LEMMA StoppedOK ==
    ASSUME RowsOK(policy), NEW p \in Policy, NEW cause \in Causes \ {"none", "requested"}
    PROVE  RowsOK(Stopped(p, cause))
<1> DEFINE Next(q) == [q EXCEPT !.state = "needs-human", !.cause = cause]
<1>1. ASSUME NEW q \in Policy, LegalRow(q), q.state = "watching"
      PROVE  Next(q) \in Policy /\ Next(q).target = q.target /\ LegalRow(Next(q))
    <2>1. "needs-human" \in States
        BY DEF States
    <2>2. Next(q) \in Policy
        BY <2>1 DEF Policy
    <2>3. /\ Next(q).target = q.target /\ Next(q).state = "needs-human"
          /\ Next(q).cause = cause /\ Next(q).alert = q.alert
        BY DEF Policy
    <2> QED
        BY <1>1, <2>2, <2>3 DEF LegalRow
<1>2. ASSUME IsWatching(p)
      PROVE  RowsOK(Stopped(p, cause))
    <2>1. Stopped(p, cause) = [policy EXCEPT ![p.target] = Next(policy[p.target])]
        BY <1>2 DEF Stopped
    <2> HIDE DEF Next
    <2> QED
        BY <1>1, <1>2, <2>1, RowOf DEF IsWatching, RowsOK, Rows
<1> QED
    BY <1>2 DEF Stopped

LEMMA ResumedOK ==
    ASSUME RowsOK(policy), NEW p \in Policy, NEW mark \in MessageIds
    PROVE  RowsOK(Resumed(p, mark))
<1> DEFINE Next(q) == [q EXCEPT !.state = "watching", !.cause = "none", !.alert = 0,
                                !.used = 0, !.mark = mark, !.fresh = TRUE]
<1>1. ASSUME NEW q \in Policy
      PROVE  Next(q) \in Policy /\ Next(q).target = q.target /\ LegalRow(Next(q))
    <2>1. "watching" \in States /\ "none" \in Causes /\ 0 \in MessageIds
        BY DEF States, Causes, MessageIds
    <2>2. Next(q) \in Policy
        BY <2>1 DEF Policy
    <2>3. /\ Next(q).target = q.target /\ Next(q).state = "watching"
          /\ Next(q).cause = "none" /\ Next(q).alert = 0
        BY DEF Policy
    <2> QED
        BY <2>2, <2>3 DEF LegalRow
<1>2. ASSUME IsCurrent(p)
      PROVE  RowsOK(Resumed(p, mark))
    <2>1. Resumed(p, mark) = [policy EXCEPT ![p.target] = Next(policy[p.target])]
        BY <1>2 DEF Resumed
    <2> HIDE DEF Next
    <2> QED
        BY <1>1, <1>2, <2>1, RowOf DEF RowsOK, Rows
<1> QED
    BY <1>2 DEF Resumed

-----------------------------------------------------------------------------
(* Every step keeps the types.                                             *)

LEMMA PoliciesAreRows ==
    ASSUME KeepAwakeTypeOK
    PROVE  RowsOK(policy) /\ KeepAwakePolicies \in SUBSET Policy
    BY DEF KeepAwakeTypeOK, RowsOK, Rows, KeepAwakePolicies

LEMMA InputType ==
    ASSUME KeepAwakeTypeOK, Input \/ UNCHANGED inputs
    PROVE  inputs' \in 0..MaxInputs
    BY DEF Input, KeepAwakeTypeOK

(* A pass only moves on, and writes rows of its policies.                  *)
LEMMA TypePanes ==
    ASSUME TypeInv, Tick \/ PanesArrive \/ PanesFail
    PROVE  TypeInv'
<1>1. KeepAwakeTypeOK /\ JobOK(job) /\ JobOK(Rest)
    BY RestOK DEF TypeInv, JobOK, KeepAwakeTypeOK
<1>2. [a \in Agents |-> "gone"] \in [Agents -> Statuses]
    BY DEF Statuses, Shown, StatusOf
<1>3. [a \in Agents |-> StatusOf(status[a])] \in [Agents -> Statuses]
    BY <1>1 DEF KeepAwakeTypeOK, Statuses
<1>4. CASE Tick
    <2>1. KeepAwakePolicies \in SUBSET Policy /\ "panes" \in Places
        BY <1>1, PoliciesAreRows DEF Places, Waiting
    <2>2. JobOK([Rest EXCEPT !.at = "panes", !.todo = KeepAwakePolicies])
        <3> DEFINE begun == [Rest EXCEPT !.at = "panes", !.todo = KeepAwakePolicies]
        <3>1. begun \in Job
            BY <1>1, <2>1 DEF JobOK, Job
        <3>2. begun.at = "panes" /\ begun.policy = None
            BY DEF Rest
        <3> QED
            BY <3>1, <3>2 DEF JobOK, Sound, Acting
    <2>3. JobOK(job')
        BY <1>1, <1>4, <2>2 DEF Tick
    <2> QED
        BY <1>1, <1>2, <1>4, <2>3
        DEF Tick, TypeInv, JobOK, KeepAwakeTypeOK, dbVars, historyVars
<1>5. CASE PanesArrive
    <2>1. PICK untold \in SUBSET Agents :
            job' = [job EXCEPT !.at = "policies", !.pending = untold]
        BY <1>5 DEF PanesArrive
    <2>2. "policies" \in Places /\ job.at = "panes"
        BY <1>5 DEF Places, PanesArrive
    <2>3. job' \in Job
        BY <1>1, <2>1, <2>2 DEF JobOK, Job
    <2>4. job'.at = "policies" /\ job'.policy = job.policy
        BY <1>1, <2>1 DEF JobOK, Job
    <2>5. JobOK(job')
        BY <1>1, <2>2, <2>3, <2>4 DEF JobOK, Sound, Acting
    <2>6. inputs' \in 0..MaxInputs
        <3>1. inputs' = inputs \/ Input
            BY <1>5 DEF PanesArrive
        <3> QED
            BY <1>1, <3>1, InputType
    <2>7. fresh' \subseteq Agents \union Channels
        BY <1>1, <1>5 DEF PanesArrive, KeepAwakeTypeOK
    <2> QED
        BY <1>1, <1>3, <1>5, <2>5, <2>6, <2>7
        DEF PanesArrive, TypeInv, JobOK, KeepAwakeTypeOK, dbVars, historyVars
<1>6. CASE PanesFail
    <2>1. inputs' \in 0..MaxInputs
        BY <1>1, <1>6, InputType DEF PanesFail
    <2> QED
        BY <1>1, <1>6, <2>1
        DEF PanesFail, TypeInv, JobOK, KeepAwakeTypeOK, dbVars
<1> QED
    BY <1>4, <1>5, <1>6

(* What a pass may write between two awaits, and where it may go.          *)
LEMMA TypePassFrame ==
    ASSUME KeepAwakeTypeOK, RowsOK(policy'), JobOK(job'),
           sent' \in [Targets -> Nat], asked' \in [Targets -> MessageIds],
           late' \subseteq Targets, status' \in [Agents -> Shown], inputs' \in 0..MaxInputs,
           UNCHANGED <<members, human, lastId, routed, retired, seen, fresh>>
    PROVE  TypeInv'
    BY DEF TypeInv, JobOK, RowsOK, KeepAwakeTypeOK

LEMMA StopPolicyOK ==
    ASSUME KeepAwakeTypeOK, NEW p \in Policy, NEW cause \in Causes \ {"none", "requested"},
           StopPolicy(p, cause)
    PROVE  /\ RowsOK(policy') /\ late' \subseteq Targets
           /\ sent' \in [Targets -> Nat] /\ asked' \in [Targets -> MessageIds]
<1>1. RowsOK(policy') /\ p.target \in Targets
    BY PoliciesAreRows, StoppedOK DEF StopPolicy, Policy
<1> QED
    BY <1>1 DEF StopPolicy, KeepAwakeTypeOK

LEMMA TypeTakePolicy ==
    ASSUME TypeInv, TakePolicy
    PROVE  TypeInv'
<1>1. KeepAwakeTypeOK /\ job \in Job /\ RowsOK(policy) /\ job.at = "policies" /\ JobOK(Rest)
    BY RestOK, PoliciesAreRows DEF TypeInv, KeepAwakeTypeOK, TakePolicy
<1>2. UNCHANGED <<members, human, lastId, routed, retired, status, seen, fresh, inputs>>
    BY DEF TakePolicy
<1>3. CASE job.todo = {}
    <2>1. job' = Rest /\ late' = {} /\ UNCHANGED <<policy, sent, asked>>
        BY <1>3 DEF TakePolicy
    <2> QED
        BY <1>1, <1>2, <2>1, TypePassFrame DEF KeepAwakeTypeOK
<1>4. CASE job.todo # {}
    <2> DEFINE p == NextPolicy
    <2>1. p \in Policy /\ p \in job.todo /\ p # None /\ p.target \in Targets
        BY <1>1, <1>4, NextPolicyType DEF Job, Policy
    <2>2. JobOK(Taken(p))
        BY <1>1, TakenOK
    <2>3. CASE ResumePolicy(p)
        <3>1. LatestHuman(p.target) \in MessageIds
            BY <1>1, <2>1, LatestHumanType
        <3>2. RowsOK(policy')
            BY <1>1, <2>1, <2>3, <3>1, ResumedOK DEF ResumePolicy
        <3>3. sent \in [Targets -> Nat] /\ asked \in [Targets -> MessageIds] /\ 0 \in MessageIds
            BY <1>1 DEF KeepAwakeTypeOK, MessageIds
        <3>4. sent' \in [Targets -> Nat]
            BY <2>3, <3>3 DEF ResumePolicy
        <3>5. asked' \in [Targets -> MessageIds]
            BY <2>3, <3>3 DEF ResumePolicy
        <3> QED
            BY <1>1, <1>2, <2>2, <2>3, <3>2, <3>4, <3>5, TypePassFrame DEF ResumePolicy, KeepAwakeTypeOK
    <2>4. CASE SkipPolicy(p)
        BY <1>1, <1>2, <2>2, <2>4, TypePassFrame DEF SkipPolicy, KeepAwakeTypeOK
    <2>5. CASE WatchAgent(p)
        <3>1. CASE StopPolicy(p, "exhausted") /\ job' = Taken(p)
            <4>1. "exhausted" \in Causes \ {"none", "requested"}
                BY DEF Causes
            <4> QED
                BY <1>1, <1>2, <2>1, <2>2, <3>1, <4>1, StopPolicyOK, TypePassFrame DEF KeepAwakeTypeOK
        <3>2. CASE /\ job' = [job EXCEPT !.at = IF seen[p.target] = "blocked"
                                                THEN "reading" ELSE "waking",
                                         !.policy = p, !.agent = p.target]
                   /\ UNCHANGED <<policy, sent, asked, late>>
            <4>1. p.target \in AnAgent /\ p \in Rows /\ p.state = "watching"
                BY <2>1, <2>5 DEF AnAgent, Rows, WatchAgent, IsWatched
            <4>2. PICK to \in {"reading", "waking"} :
                    job' = [job EXCEPT !.at = to, !.policy = p, !.agent = p.target]
                BY <3>2
            <4>3. to \in Places /\ to \in Acting
                BY DEF Places, Waiting, Acting
            <4>4. job' \in Job
                BY <1>1, <4>1, <4>2, <4>3 DEF Job
            <4>5. job'.at = to /\ job'.policy = p
                BY <1>1, <4>2 DEF Job
            <4>6. JobOK(job')
                BY <2>1, <4>1, <4>3, <4>4, <4>5 DEF JobOK, Sound, Acting
            <4> QED
                BY <1>1, <1>2, <3>2, <4>6, TypePassFrame DEF KeepAwakeTypeOK
        <3> QED
            BY <2>5, <3>1, <3>2 DEF WatchAgent
    <2>6. CASE WatchChannel(p)
        <3> DEFINE live == LiveMembers(p.target)
                   blocked == {a \in live : seen[a] = "blocked"}
        <3>1. live \in SUBSET Agents /\ blocked \in SUBSET Agents
            BY <1>1, <2>6 DEF LiveMembers, WatchChannel, KeepAwakeTypeOK, Conversations
        <3>2. /\ p \in Rows /\ p.state = "watching" /\ p.used \in Nat
              /\ "members" \in Places
            BY <2>1, <2>6 DEF Rows, WatchChannel, IsWatched, Places, Policy
        <3> HIDE DEF live, blocked
        <3>3. /\ job' = [job EXCEPT !.at = "members", !.policy = p, !.live = live,
                                    !.blocked = blocked, !.used = p.used]
              /\ UNCHANGED <<policy, sent, asked, late>>
            BY <2>6 DEF WatchChannel, live, blocked
        <3>4. job' \in Job
            BY <1>1, <3>1, <3>2, <3>3 DEF Job
        <3>5. job'.at = "members" /\ job'.policy = p
            BY <1>1, <3>3 DEF Job
        <3>6. JobOK(job')
            BY <2>1, <3>2, <3>4, <3>5 DEF JobOK, Sound
        <3> QED
            BY <1>1, <1>2, <3>3, <3>6, TypePassFrame DEF KeepAwakeTypeOK
    <2> QED
        BY <1>4, <2>3, <2>4, <2>5, <2>6 DEF TakePolicy
<1> QED
    BY <1>3, <1>4

LEMMA TypeTakeMember ==
    ASSUME TypeInv, TakeMember
    PROVE  TypeInv'
<1>1. /\ KeepAwakeTypeOK /\ job \in Job /\ RowsOK(policy)
      /\ job.at = "members" /\ job.policy \in Policy /\ job.policy.state = "watching"
    BY PoliciesAreRows DEF TypeInv, Sound, KeepAwakeTypeOK, TakeMember, Job, Rows
<1>2. UNCHANGED <<members, human, lastId, routed, retired, status, seen, fresh, inputs>>
    BY DEF TakeMember
<1>3. PICK a \in job.blocked :
        \/ /\ job' = [job EXCEPT !.blocked = @ \ {a}]
           /\ UNCHANGED <<policy, sent, asked, late>>
        \/ /\ job' = [job EXCEPT !.blocked = @ \ {a}, !.at = "reading", !.agent = a]
           /\ UNCHANGED <<policy, sent, asked, late>>
        \/ /\ StopPolicy(job.policy, "exhausted")
           /\ job' = ToPolicies
    BY DEF TakeMember
<1>4. a \in AnAgent /\ job.blocked \ {a} \in SUBSET Agents /\ "reading" \in Places
    BY <1>1 DEF AnAgent, Places, Waiting, Acting, Job
<1>5. CASE /\ job' = [job EXCEPT !.blocked = @ \ {a}]
           /\ UNCHANGED <<policy, sent, asked, late>>
    <2>1. job' \in Job
        BY <1>1, <1>4, <1>5 DEF Job
    <2>2. job'.at = job.at /\ job'.policy = job.policy
        BY <1>1, <1>5 DEF Job
    <2>3. JobOK(job')
        BY <1>1, <2>1, <2>2 DEF JobOK, Sound
    <2> QED
        BY <1>1, <1>2, <1>5, <2>3, TypePassFrame DEF KeepAwakeTypeOK
<1>6. CASE /\ job' = [job EXCEPT !.blocked = @ \ {a}, !.at = "reading", !.agent = a]
           /\ UNCHANGED <<policy, sent, asked, late>>
    <2>1. job' \in Job
        BY <1>1, <1>4, <1>6 DEF Job
    <2>2. job'.at = "reading" /\ job'.policy = job.policy
        BY <1>1, <1>6 DEF Job
    <2>3. JobOK(job')
        BY <1>1, <2>1, <2>2 DEF JobOK, Sound
    <2> QED
        BY <1>1, <1>2, <1>6, <2>3, TypePassFrame DEF KeepAwakeTypeOK
<1>7. CASE StopPolicy(job.policy, "exhausted") /\ job' = ToPolicies
    <2>1. "exhausted" \in Causes \ {"none", "requested"}
        BY DEF Causes
    <2> QED
        BY <1>1, <1>2, <1>7, <2>1, StopPolicyOK, TakenOK, TypePassFrame
        DEF ToPolicies, KeepAwakeTypeOK
<1> QED
    BY <1>3, <1>5, <1>6, <1>7

LEMMA TypeTakeCoordinator ==
    ASSUME TypeInv, TakeCoordinator
    PROVE  TypeInv'
<1>1. /\ KeepAwakeTypeOK /\ job \in Job /\ RowsOK(policy)
      /\ job.at = "members" /\ job.policy \in Policy /\ job.policy.state = "watching"
    BY PoliciesAreRows DEF TypeInv, Sound, KeepAwakeTypeOK, TakeCoordinator, Job, Rows
<1>2. UNCHANGED <<members, human, lastId, routed, retired, status, seen, fresh, inputs>>
    BY DEF TakeCoordinator
<1>3. \/ StopPolicy(job.policy, "exhausted") /\ job' = ToPolicies
      \/ /\ job' = [job EXCEPT !.at = "waking", !.agent = job.policy.coordinator]
         /\ UNCHANGED <<policy, sent, asked, late>>
      \/ job' = ToPolicies /\ UNCHANGED <<policy, sent, asked, late>>
    BY DEF TakeCoordinator
<1>4. JobOK(ToPolicies)
    BY <1>1, TakenOK DEF ToPolicies
<1>5. CASE StopPolicy(job.policy, "exhausted") /\ job' = ToPolicies
    <2>1. "exhausted" \in Causes \ {"none", "requested"}
        BY DEF Causes
    <2> QED
        BY <1>1, <1>2, <1>4, <1>5, <2>1, StopPolicyOK, TypePassFrame DEF KeepAwakeTypeOK
<1>6. CASE /\ job' = [job EXCEPT !.at = "waking", !.agent = job.policy.coordinator]
           /\ UNCHANGED <<policy, sent, asked, late>>
    <2>1. job.policy.coordinator \in AnAgent /\ "waking" \in Places
        BY <1>1 DEF AnAgent, Places, Waiting, Acting, Policy
    <2>2. job' \in Job
        BY <1>1, <1>6, <2>1 DEF Job
    <2>3. job'.at = "waking" /\ job'.policy = job.policy
        BY <1>1, <1>6 DEF Job
    <2>4. JobOK(job')
        BY <1>1, <2>2, <2>3 DEF JobOK, Sound
    <2> QED
        BY <1>1, <1>2, <1>6, <2>4, TypePassFrame DEF KeepAwakeTypeOK
<1>7. CASE job' = ToPolicies /\ UNCHANGED <<policy, sent, asked, late>>
    BY <1>1, <1>2, <1>4, <1>7, TypePassFrame DEF KeepAwakeTypeOK
<1> QED
    BY <1>3, <1>5, <1>6, <1>7

LEMMA CountedOK ==
    ASSUME KeepAwakeTypeOK, job.policy \in Policy, Counted
    PROVE  RowsOK(policy') /\ sent' \in [Targets -> Nat]
<1>1. RowsOK(policy')
    BY PoliciesAreRows, WokenOK DEF Counted
<1>2. sent \in [Targets -> Nat] /\ job.policy.target \in Targets
    BY DEF KeepAwakeTypeOK, Policy
<1>3. sent' \in [Targets -> Nat]
    BY <1>2 DEF Counted
<1> QED
    BY <1>1, <1>3

LEMMA ReactsOK ==
    ASSUME status \in [Agents -> Shown], NEW S \in SUBSET Shown, Reacts(S)
    PROVE  status' \in [Agents -> Shown]
    BY DEF Reacts

(* The steps of one wake, and of one closed dialog.                        *)
LEMMA TypeActing ==
    ASSUME TypeInv,
           WakeAnswered \/ ScreenRead \/ StillBlocked \/ EscapePressed \/ LeftBlocked
             \/ ExplainAnswered
    PROVE  TypeInv'
<1>1. job.at \in Acting
    BY DEF WakeAnswered, ScreenRead, StillBlocked, EscapePressed, LeftBlocked,
           ExplainAnswered, Acting
<1>2. /\ KeepAwakeTypeOK /\ job \in Job /\ RowsOK(policy)
      /\ job.policy \in Policy /\ job.policy.state = "watching"
      /\ status \in [Agents -> Shown]
    BY <1>1, PoliciesAreRows DEF TypeInv, Sound, KeepAwakeTypeOK, Job, Rows
<1>3. JobOK(ToPolicies) /\ JobOK(DialogLeft)
    BY <1>1, <1>2, TakenOK, DialogLeftOK DEF ToPolicies
<1>4. /\ sent \in [Targets -> Nat] /\ asked \in [Targets -> MessageIds]
      /\ late \subseteq Targets
    BY <1>2 DEF KeepAwakeTypeOK
<1>5. ASSUME NEW to \in Acting
      PROVE  JobOK([job EXCEPT !.at = to])
    <2>1. to \in Places
        BY DEF Places, Waiting
    <2>2. [job EXCEPT !.at = to] \in Job
        BY <1>2, <2>1 DEF Job
    <2>3. [job EXCEPT !.at = to].at = to /\ [job EXCEPT !.at = to].policy = job.policy
        BY <1>2 DEF Job
    <2> QED
        BY <1>2, <2>2, <2>3 DEF JobOK, Sound, Acting
<1>6. CASE WakeAnswered
    <2>1. UNCHANGED <<members, human, lastId, routed, retired, seen, fresh, asked, late>>
        BY <1>6 DEF WakeAnswered
    <2>2. CASE Counted /\ Reacts({"working"}) /\ UNCHANGED inputs
        BY <1>2, <1>3, <1>4, <1>6, <2>1, <2>2, CountedOK, ReactsOK, InputType, TypePassFrame
        DEF WakeAnswered, Shown
    <2>3. CASE Input /\ UNCHANGED <<policy, sent, status>>
        BY <1>2, <1>3, <1>4, <1>6, <2>1, <2>3, InputType, TypePassFrame DEF WakeAnswered
    <2> QED
        BY <1>6, <2>2, <2>3 DEF WakeAnswered
<1>7. CASE ScreenRead
    <2>1. UNCHANGED <<members, human, lastId, routed, retired, status, seen, fresh>>
        BY <1>7 DEF ScreenRead
    <2>2. \/ /\ job' = [job EXCEPT !.at = "confirming"]
             /\ UNCHANGED <<policy, sent, asked, late, inputs>>
          \/ /\ StopPolicy(job.policy, "unrecognized")
             /\ job' = ToPolicies /\ UNCHANGED inputs
          \/ Input /\ job' = DialogLeft /\ UNCHANGED <<policy, sent, asked, late>>
        BY <1>7 DEF ScreenRead
    <2>3. "confirming" \in Acting /\ "unrecognized" \in Causes \ {"none", "requested"}
        BY DEF Acting, Causes
    <2>4. RowsOK(policy') /\ JobOK(job') /\ inputs' \in 0..MaxInputs
        BY <1>2, <1>3, <1>5, <2>2, <2>3, InputType, StopPolicyOK
    <2>5. /\ sent' \in [Targets -> Nat] /\ asked' \in [Targets -> MessageIds]
          /\ late' \subseteq Targets
        BY <1>2, <1>4, <2>2, <2>3, StopPolicyOK
    <2> QED
        BY <1>2, <2>1, <2>4, <2>5, TypePassFrame
<1>8. CASE StillBlocked
    <2>1. "pressing" \in Acting
        BY DEF Acting
    <2>2. JobOK(job') /\ (Input \/ UNCHANGED inputs)
        BY <1>3, <1>5, <1>8, <2>1 DEF StillBlocked
    <2>3. UNCHANGED <<dbVars, status, seen, fresh, historyVars>>
        BY <1>8 DEF StillBlocked
    <2> QED
        BY <1>2, <1>4, <2>2, <2>3, InputType, TypePassFrame DEF dbVars, historyVars
<1>9. CASE EscapePressed
    <2>1. UNCHANGED <<members, human, lastId, routed, retired, seen, fresh, asked, late>>
        BY <1>9 DEF EscapePressed
    <2>2. "leaving" \in Acting /\ {"idle", "working"} \in SUBSET Shown
        BY DEF Acting, Shown
    <2>3. CASE /\ Counted /\ Reacts({"idle", "working"})
               /\ job' = [job EXCEPT !.at = "leaving"] /\ UNCHANGED inputs
        BY <1>2, <1>4, <1>5, <2>1, <2>2, <2>3, CountedOK, ReactsOK, InputType, TypePassFrame
    <2>4. CASE Input /\ job' = DialogLeft /\ UNCHANGED <<policy, sent, status>>
        BY <1>2, <1>3, <1>4, <2>1, <2>4, InputType, TypePassFrame
    <2> QED
        BY <1>9, <2>3, <2>4 DEF EscapePressed
<1>10. CASE LeftBlocked
    <2>1. UNCHANGED <<members, human, lastId, routed, retired, status, seen, fresh>>
        BY <1>10 DEF LeftBlocked
    <2>2. Input \/ UNCHANGED inputs
        BY <1>10 DEF LeftBlocked
    <2>3. \/ /\ job' = [job EXCEPT !.at = "explaining"]
             /\ UNCHANGED <<policy, sent, asked, late>>
          \/ /\ job.checks + 1 < Checks
             /\ job' = [job EXCEPT !.checks = @ + 1]
             /\ UNCHANGED <<policy, sent, asked, late>>
          \/ StopPolicy(job.policy, "stuck") /\ job' = ToPolicies
        BY <1>10 DEF LeftBlocked
    <2>4. "explaining" \in Acting /\ "stuck" \in Causes \ {"none", "requested"}
        BY DEF Acting, Causes
    <2>5. ASSUME job.checks + 1 < Checks
          PROVE  JobOK([job EXCEPT !.checks = @ + 1])
        <3>1. job.checks + 1 \in CheckCounts
            BY <1>2, <2>5 DEF CheckCounts, Job
        <3>2. [job EXCEPT !.checks = @ + 1] \in Job
            BY <1>2, <3>1 DEF Job
        <3>3. /\ [job EXCEPT !.checks = @ + 1].at = job.at
              /\ [job EXCEPT !.checks = @ + 1].policy = job.policy
            BY <1>2 DEF Job
        <3> QED
            BY <1>1, <1>2, <3>2, <3>3 DEF JobOK, Sound, Acting
    <2>6. RowsOK(policy') /\ JobOK(job')
        BY <1>2, <1>3, <1>5, <2>3, <2>4, <2>5, StopPolicyOK
    <2>7. /\ sent' \in [Targets -> Nat] /\ asked' \in [Targets -> MessageIds]
          /\ late' \subseteq Targets
        BY <1>2, <1>4, <2>3, <2>4, StopPolicyOK
    <2> QED
        BY <1>2, <2>1, <2>2, <2>6, <2>7, InputType, TypePassFrame
<1>11. CASE ExplainAnswered
    BY <1>2, <1>3, <1>4, <1>11, InputType, TypePassFrame
    DEF ExplainAnswered, dbVars, historyVars
<1> QED
    BY <1>6, <1>7, <1>8, <1>9, <1>10, <1>11

-----------------------------------------------------------------------------
(* Requests leave the pass alone.                                          *)

LEMMA TypeRequestFrame ==
    ASSUME TypeInv, RowsOK(policy'),
           members' \in [Conversations -> SUBSET Agents],
           human' \in [Conversations -> MessageIds], lastId' \in MessageIds,
           routed' \subseteq Agents, retired' \subseteq Agents, status' \in [Agents -> Shown],
           fresh' \subseteq Agents \union Channels, sent' \in [Targets -> Nat],
           asked' \in [Targets -> MessageIds], late' \subseteq Targets,
           inputs' \in 0..MaxInputs, UNCHANGED watcherVars
    PROVE  TypeInv'
    BY DEF TypeInv, RowsOK, KeepAwakeTypeOK, Sound, watcherVars

LEMMA StrickenOK ==
    ASSUME late \subseteq Targets, NEW S \in SUBSET Targets
    PROVE  Stricken(S) \subseteq Targets
    BY DEF Stricken

LEMMA NewPolicyOK ==
    ASSUME TypeInv, NEW t \in Targets, NEW c \in Agents, NewPolicy(t, c).id <= MaxPolicies
    PROVE  /\ NewPolicy(t, c) \in Policy /\ NewPolicy(t, c).target = t
           /\ LegalRow(NewPolicy(t, c))
<1> DEFINE used == {policy[u].id : u \in {v \in Targets : policy[v] # None}}
                     \union {p.id : p \in job.todo}
                     \union (IF job.policy = None THEN {} ELSE {job.policy.id})
           n == NewPolicy(t, c)
<1>1. /\ \A u \in Targets : policy[u] # None => policy[u] \in Policy
      /\ job.todo \in SUBSET Policy /\ job.policy \in Rows
    BY DEF TypeInv, KeepAwakeTypeOK, Job, Rows
<1>2. used \in SUBSET (0..MaxPolicies)
    BY <1>1 DEF Policy, Ids, Rows
<1>3. Newest(used) \in 0..MaxPolicies
    BY <1>2, NewestType
<1>4. n.id = 1 + Newest(used)
    BY DEF NewPolicy
<1>5. n.id \in Ids
    <2> HIDE DEF n, used
    <2>1. n.id <= MaxPolicies
        BY DEF n
    <2> QED
        BY <1>3, <1>4, <2>1 DEF Ids
<1>6. LatestHuman(t) \in MessageIds
    BY LatestHumanType DEF TypeInv
<1>7. "watching" \in States /\ "none" \in Causes /\ 0 \in MessageIds
    BY DEF States, Causes, MessageIds
<1>8. ASSUME NEW i \in Ids, NEW mark \in MessageIds
      PROVE  LET row == [target |-> t, id |-> i, coordinator |-> c, state |-> "watching",
                         cause |-> "none", alert |-> 0, used |-> 0, mark |-> mark,
                         fresh |-> TRUE]
             IN  row \in Policy /\ row.target = t /\ LegalRow(row)
    BY <1>7 DEF Policy, LegalRow
<1>9. n = [target |-> t, id |-> n.id, coordinator |-> c, state |-> "watching",
           cause |-> "none", alert |-> 0, used |-> 0, mark |-> LatestHuman(t), fresh |-> TRUE]
    BY DEF NewPolicy
<1> HIDE DEF n
<1> QED
    BY <1>5, <1>6, <1>8, <1>9 DEF n

LEMMA TypePolicyRequests ==
    ASSUME TypeInv, NEW t \in Targets, (\E c \in Agents : SetKeepAwake(t, c)) \/ RemoveKeepAwake(t)
    PROVE  TypeInv'
<1>1. KeepAwakeTypeOK /\ RowsOK(policy)
    BY PoliciesAreRows DEF TypeInv
<1>2. sent \in [Targets -> Nat] /\ asked \in [Targets -> MessageIds] /\ 0 \in MessageIds
    BY <1>1 DEF KeepAwakeTypeOK, MessageIds
<1>3. /\ sent' = [sent EXCEPT ![t] = 0] /\ asked' = [asked EXCEPT ![t] = 0]
      /\ late' = Stricken({t})
      /\ UNCHANGED <<members, human, lastId, routed, retired, status, watcherVars, fresh>>
    BY DEF SetKeepAwake, RemoveKeepAwake
<1>4. sent' \in [Targets -> Nat]
    BY <1>2, <1>3
<1>5. asked' \in [Targets -> MessageIds]
    BY <1>2, <1>3
<1>6. late' \subseteq Targets
    BY <1>1, <1>3, StrickenOK DEF KeepAwakeTypeOK
<1>7. inputs' \in 0..MaxInputs
    BY <1>1, InputType DEF SetKeepAwake, RemoveKeepAwake
<1>8. RowsOK(policy')
    <2>1. CASE RemoveKeepAwake(t)
        BY <1>1, <2>1 DEF RemoveKeepAwake, RowsOK, Rows
    <2>2. ASSUME NEW c \in Agents, SetKeepAwake(t, c)
          PROVE  RowsOK(policy')
        <3>1. /\ NewPolicy(t, c) \in Policy /\ NewPolicy(t, c).target = t
              /\ LegalRow(NewPolicy(t, c))
            BY <2>2, NewPolicyOK DEF SetKeepAwake
        <3>2. policy' = [policy EXCEPT ![t] = NewPolicy(t, c)]
            BY <2>2 DEF SetKeepAwake
        <3> QED
            BY <1>1, <3>1, <3>2 DEF RowsOK, Rows
    <2> QED
        BY <2>1, <2>2
<1> QED
    BY <1>1, <1>3, <1>4, <1>5, <1>6, <1>7, <1>8, TypeRequestFrame DEF KeepAwakeTypeOK

LEMMA TypeAlertHuman ==
    ASSUME TypeInv, NEW a \in Agents, AlertHuman(a)
    PROVE  TypeInv'
<1>1. KeepAwakeTypeOK /\ RowsOK(policy) /\ StoppedBy(a) \subseteq Targets
    BY PoliciesAreRows DEF TypeInv, StoppedBy
<1>2. lastId' \in MessageIds
    <2>1. lastId < MaxMessages /\ lastId' = lastId + 1
        BY DEF AlertHuman
    <2> QED
        BY <1>1, <2>1 DEF KeepAwakeTypeOK, MessageIds
<1>3. RowsOK(policy')
    <2> DEFINE Next(q) == [q EXCEPT !.state = "needs-human", !.cause = "requested",
                                    !.alert = lastId']
    <2>1. ASSUME NEW q \in Policy
          PROVE  Next(q) \in Policy /\ Next(q).target = q.target /\ LegalRow(Next(q))
        <3>1. "needs-human" \in States /\ "requested" \in Causes
            BY DEF States, Causes
        <3>2. Next(q) \in Policy
            BY <1>2, <3>1 DEF Policy
        <3>3. /\ Next(q).target = q.target /\ Next(q).state = "needs-human"
              /\ Next(q).cause = "requested"
            BY DEF Policy
        <3> QED
            BY <3>2, <3>3 DEF LegalRow
    <2>2. \A t \in StoppedBy(a) : policy[t] \in Policy /\ policy[t].target = t
        BY <1>1 DEF StoppedBy, RowsOK, Rows
    <2>3. policy' = [t \in Targets |-> IF t \in StoppedBy(a) THEN Next(policy[t]) ELSE policy[t]]
        BY DEF AlertHuman
    <2> HIDE DEF Next
    <2> QED
        BY <1>1, <2>1, <2>2, <2>3 DEF RowsOK, Rows
<1>4. members' \in [Conversations -> SUBSET Agents]
    BY <1>1 DEF AlertHuman, KeepAwakeTypeOK
<1>5. asked' \in [Targets -> MessageIds]
    BY <1>1, <1>2 DEF AlertHuman, KeepAwakeTypeOK
<1>6. late' \subseteq Targets
    BY <1>1, StrickenOK DEF AlertHuman, KeepAwakeTypeOK
<1>7. UNCHANGED <<human, routed, retired, status, watcherVars, fresh, sent, inputs>>
    BY DEF AlertHuman
<1> QED
    BY <1>1, <1>2, <1>3, <1>4, <1>5, <1>6, <1>7, TypeRequestFrame DEF KeepAwakeTypeOK

LEMMA TypeConversations ==
    ASSUME TypeInv, NEW c \in Conversations, HumanWrites(c) \/ DeleteConversation(c)
    PROVE  TypeInv'
<1>1. KeepAwakeTypeOK /\ RowsOK(policy) /\ 0 \in MessageIds
    BY PoliciesAreRows DEF TypeInv, MessageIds
<1>2. CASE HumanWrites(c)
    <2>1. lastId' \in MessageIds
        BY <1>1, <1>2 DEF HumanWrites, KeepAwakeTypeOK, MessageIds
    <2>2. human' \in [Conversations -> MessageIds]
        BY <1>1, <1>2, <2>1 DEF HumanWrites, KeepAwakeTypeOK
    <2>3. fresh' \subseteq Agents \union Channels
        BY <1>1, <1>2 DEF HumanWrites, KeepAwakeTypeOK
    <2>4. UNCHANGED <<policy, members, routed, retired, status, watcherVars, historyVars, inputs>>
        BY <1>2 DEF HumanWrites
    <2> QED
        BY <1>1, <2>1, <2>2, <2>3, <2>4, TypeRequestFrame DEF KeepAwakeTypeOK, historyVars
<1>3. CASE DeleteConversation(c)
    <2> DEFINE lost == {t \in Targets : policy[t] # None /\ Direct[Speaker(policy[t])] = c}
               Next(q) == [q EXCEPT !.alert = 0]
    <2>1. ASSUME NEW q \in Policy
          PROVE  /\ Next(q) \in Policy /\ Next(q).target = q.target
                 /\ LegalRow(q) => LegalRow(Next(q))
        <3>1. Next(q) \in Policy
            BY <1>1 DEF Policy
        <3>2. /\ Next(q).target = q.target /\ Next(q).state = q.state
              /\ Next(q).cause = q.cause /\ Next(q).alert = 0
            BY DEF Policy
        <3> QED
            BY <3>1, <3>2 DEF LegalRow
    <2>2. \A t \in lost : policy[t] \in Policy /\ policy[t].target = t
        BY <1>1 DEF RowsOK, Rows
    <2>3. policy' = [t \in Targets |-> IF t \in lost THEN Next(policy[t]) ELSE policy[t]]
        BY <1>3 DEF DeleteConversation
    <2>4. asked' = [t \in Targets |-> IF t \in lost THEN 0 ELSE asked[t]]
        BY <1>3 DEF DeleteConversation
    <2> HIDE DEF lost, Next
    <2>5. RowsOK(policy')
        BY <1>1, <2>1, <2>2, <2>3 DEF RowsOK, Rows
    <2>6. asked' \in [Targets -> MessageIds]
        BY <1>1, <2>4 DEF KeepAwakeTypeOK
    <2>7. /\ members' = [members EXCEPT ![c] = {}] /\ human' = [human EXCEPT ![c] = 0]
          /\ fresh' = fresh \ {c}
          /\ UNCHANGED <<lastId, routed, retired, status, watcherVars, sent, late>>
        BY <1>3 DEF DeleteConversation
    <2>8. members' \in [Conversations -> SUBSET Agents]
        BY <1>1, <2>7 DEF KeepAwakeTypeOK
    <2>9. human' \in [Conversations -> MessageIds]
        BY <1>1, <2>7 DEF KeepAwakeTypeOK
    <2>10. inputs' \in 0..MaxInputs
        BY <1>1, <1>3, InputType DEF DeleteConversation
    <2> QED
        BY <1>1, <2>5, <2>6, <2>7, <2>8, <2>9, <2>10, TypeRequestFrame DEF KeepAwakeTypeOK
<1> QED
    BY <1>2, <1>3

LEMMA TypeMembers ==
    ASSUME TypeInv, NEW a \in Agents,
           \/ Deactivate(a) \/ RouteChanges(a)
           \/ \E c \in Channels : Join(a, c) \/ Leave(a, c)
           \/ \E s \in Shown : PaneChanges(a, s)
    PROVE  TypeInv'
<1>1. KeepAwakeTypeOK /\ RowsOK(policy)
    BY PoliciesAreRows DEF TypeInv
<1>2. inputs' \in 0..MaxInputs
    BY <1>1, InputType DEF Deactivate, RouteChanges, Join, Leave, PaneChanges
<1>3. members' \in [Conversations -> SUBSET Agents]
    BY <1>1 DEF Deactivate, RouteChanges, Join, Leave, PaneChanges, dbVars, KeepAwakeTypeOK
<1>4. routed' \subseteq Agents /\ retired' \subseteq Agents
    BY <1>1 DEF Deactivate, RouteChanges, Join, Leave, PaneChanges, dbVars, KeepAwakeTypeOK
<1>5. status' \in [Agents -> Shown]
    BY <1>1 DEF Deactivate, RouteChanges, Join, Leave, PaneChanges, dbVars, KeepAwakeTypeOK
<1>6. UNCHANGED <<policy, human, lastId, watcherVars, fresh, historyVars>>
    BY DEF Deactivate, RouteChanges, Join, Leave, PaneChanges, dbVars
<1> QED
    BY <1>1, <1>2, <1>3, <1>4, <1>5, <1>6, TypeRequestFrame DEF KeepAwakeTypeOK, historyVars

LEMMA TypeTime ==
    ASSUME TypeInv, TimePasses
    PROVE  TypeInv'
<1> DEFINE Next(q) == [q EXCEPT !.fresh = FALSE]
<1>1. KeepAwakeTypeOK /\ RowsOK(policy)
    BY PoliciesAreRows DEF TypeInv
<1>2. ASSUME NEW q \in Policy
      PROVE  /\ Next(q) \in Policy /\ Next(q).target = q.target
             /\ LegalRow(q) => LegalRow(Next(q))
    <2>1. Next(q) \in Policy
        BY DEF Policy
    <2>2. /\ Next(q).target = q.target /\ Next(q).state = q.state
          /\ Next(q).cause = q.cause /\ Next(q).alert = q.alert
        BY DEF Policy
    <2> QED
        BY <2>1, <2>2 DEF LegalRow
<1>3. policy' = [t \in Targets |-> IF policy[t] = None THEN None ELSE Next(policy[t])]
    BY DEF TimePasses
<1>4. RowsOK(policy')
    <2> HIDE DEF Next
    <2> QED
        BY <1>1, <1>2, <1>3 DEF RowsOK, Rows
<1>5. /\ fresh' = {}
      /\ UNCHANGED <<members, human, lastId, routed, retired, status, watcherVars,
                     historyVars, inputs>>
    BY DEF TimePasses
<1> QED
    BY <1>1, <1>4, <1>5, TypeRequestFrame DEF KeepAwakeTypeOK, historyVars

LEMMA TypeRestart ==
    ASSUME TypeInv, HubRestarts
    PROVE  TypeInv'
<1>1. KeepAwakeTypeOK /\ JobOK(Rest)
    BY RestOK DEF TypeInv
<1>2. seen' \in [Agents -> Statuses]
    BY DEF HubRestarts, Statuses, Shown, StatusOf
<1>3. inputs' \in 0..MaxInputs
    BY <1>1, InputType DEF HubRestarts
<1> QED
    BY <1>1, <1>2, <1>3 DEF HubRestarts, TypeInv, JobOK, KeepAwakeTypeOK, dbVars

LEMMA TypeStep == TypeInv /\ [KeepAwakeNext]_vars => TypeInv'
<1> SUFFICES ASSUME TypeInv, [KeepAwakeNext]_vars
             PROVE  TypeInv'
    OBVIOUS
<1>1. CASE Tick \/ PanesArrive \/ PanesFail
    BY <1>1, TypePanes
<1>2. CASE TakePolicy
    BY <1>2, TypeTakePolicy
<1>3. CASE TakeMember
    BY <1>3, TypeTakeMember
<1>4. CASE TakeCoordinator
    BY <1>4, TypeTakeCoordinator
<1>5. CASE WakeAnswered \/ ScreenRead \/ StillBlocked \/ EscapePressed \/ LeftBlocked
             \/ ExplainAnswered
    BY <1>5, TypeActing
<1>6. CASE Requests
    BY <1>6, TypePolicyRequests, TypeAlertHuman, TypeMembers, TypeConversations DEF Requests
<1>7. CASE HubRestarts
    BY <1>7, TypeRestart
<1>8. CASE \E a \in Agents, s \in Shown : PaneChanges(a, s)
    BY <1>8, TypeMembers
<1>9. CASE TimePasses
    BY <1>9, TypeTime
<1>10. CASE UNCHANGED vars
    BY <1>10 DEF vars, dbVars, watcherVars, historyVars, TypeInv, Sound, KeepAwakeTypeOK, LegalRow
<1> QED
    BY <1>1, <1>2, <1>3, <1>4, <1>5, <1>6, <1>7, <1>8, <1>9, <1>10
    DEF KeepAwakeNext, PassStep

(* The rows obey the schema's CHECK constraints and the pass is well       *)
(* formed, in every behaviour.                                             *)
THEOREM KeepAwakeTypeCorrect == KeepAwakeSpec => []KeepAwakeTypeOK
<1>1. TypeInv => KeepAwakeTypeOK
    BY DEF TypeInv
<1> QED
    BY <1>1, TypeInit, TypeStep, PTL DEF KeepAwakeSpec

-----------------------------------------------------------------------------
(* What a step does to the rows, apart from counting.                      *)

(* A row keeps its identity and what it has used, or its account is new.   *)
Carried ==
    \A t \in Targets :
        \/ sent'[t] = 0
        \/ /\ sent'[t] = sent[t]
           /\ policy'[t] # None =>
                /\ policy[t] # None
                /\ policy'[t].id = policy[t].id /\ policy'[t].used = policy[t].used
                /\ policy'[t].state = "watching" => policy[t].state = "watching"

(* A watch ends only where the pass can learn of it.                       *)
WatchCarried == \A q \in Policy : IsWatching(q) => IsWatching(q)' \/ q.target \in late'

LEMMA NothingWritten ==
    ASSUME UNCHANGED <<policy, sent>>
    PROVE  Carried /\ WatchCarried
    BY DEF Carried, WatchCarried, IsWatching, IsCurrent

LEMMA StopEffect ==
    ASSUME KeepAwakeTypeOK, NEW p \in Policy, NEW cause, StopPolicy(p, cause)
    PROVE  Carried /\ WatchCarried /\ late \subseteq late'
<1> DEFINE Next(q) == [q EXCEPT !.state = "needs-human", !.cause = cause]
<1>1. RowsOK(policy) /\ p.target \in Targets
    BY PoliciesAreRows DEF Policy
<1>2. late' = late \union {p.target} /\ UNCHANGED <<sent, asked>> /\ policy' = Stopped(p, cause)
    BY DEF StopPolicy
<1>3. CASE ~IsWatching(p)
    BY <1>2, <1>3, NothingWritten DEF Stopped
<1>4. CASE IsWatching(p)
    <2>1. policy[p.target] \in Policy
        BY <1>1, <1>4, RowOf DEF IsWatching
    <2>2. /\ Next(policy[p.target]).id = policy[p.target].id
          /\ Next(policy[p.target]).used = policy[p.target].used
        BY <2>1 DEF Policy
    <2>3. policy' = [policy EXCEPT ![p.target] = Next(policy[p.target])]
        BY <1>2, <1>4 DEF Stopped
    <2>4. policy[p.target].state = "watching" /\ policy[p.target] # None
        BY <1>4 DEF IsWatching, IsCurrent
    <2>5. policy \in [Targets -> Rows]
        BY <1>1 DEF RowsOK
    <2> HIDE DEF Next
    <2>6. Carried
        BY <1>1, <1>2, <2>2, <2>3, <2>4, <2>5 DEF Carried
    <2>7. WatchCarried
        BY <1>1, <1>2, <2>3, <2>5 DEF WatchCarried, IsWatching, IsCurrent, Policy
    <2> QED
        BY <1>2, <2>6, <2>7
<1> QED
    BY <1>3, <1>4

LEMMA ResumeEffect ==
    ASSUME KeepAwakeTypeOK, NEW p \in Policy, ResumePolicy(p)
    PROVE  Carried /\ WatchCarried /\ late' = late
<1> DEFINE mark == LatestHuman(p.target)
           Next(q) == [q EXCEPT !.state = "watching", !.cause = "none", !.alert = 0,
                                !.used = 0, !.mark = mark, !.fresh = TRUE]
<1>1. RowsOK(policy) /\ p.target \in Targets
    BY PoliciesAreRows DEF Policy
<1>2. CASE ~IsCurrent(p)
    BY <1>2, NothingWritten DEF ResumePolicy, Resumed
<1>3. CASE IsCurrent(p)
    <2>1. policy[p.target] \in Policy
        BY <1>1, <1>3, RowOf
    <2>2. /\ Next(policy[p.target]).id = policy[p.target].id
          /\ Next(policy[p.target]).state = "watching"
          /\ Next(policy[p.target]) # None
        <3>1. mark \in MessageIds
            BY <1>1, LatestHumanType
        <3>2. "watching" \in States /\ "none" \in Causes /\ 0 \in MessageIds
            BY DEF States, Causes, MessageIds
        <3> HIDE DEF mark
        <3>3. Next(policy[p.target]) \in Policy
            BY <2>1, <3>1, <3>2 DEF Policy
        <3>4. Next(policy[p.target]).id = policy[p.target].id
            BY <2>1 DEF Policy
        <3>5. Next(policy[p.target]).state = "watching"
            BY <2>1 DEF Policy
        <3> QED
            BY <3>3, <3>4, <3>5
    <2>3. policy' = [policy EXCEPT ![p.target] = Next(policy[p.target])]
        BY <1>3 DEF ResumePolicy, Resumed
    <2>4. sent' = [sent EXCEPT ![p.target] = 0] /\ late' = late
        BY <1>3 DEF ResumePolicy
    <2>5. policy \in [Targets -> Rows] /\ sent \in [Targets -> Nat]
        BY <1>1 DEF RowsOK, KeepAwakeTypeOK
    <2> HIDE DEF Next
    <2>6. Carried
        BY <1>1, <2>3, <2>4, <2>5 DEF Carried
    <2>7. WatchCarried
        BY <1>1, <2>2, <2>3, <2>5 DEF WatchCarried, IsWatching, IsCurrent, Policy
    <2> QED
        BY <2>4, <2>6, <2>7
<1> QED
    BY <1>2, <1>3 DEF ResumePolicy

(* A step between the pass's own: what it ends or replaces, it tells.      *)
Beside ==
    /\ Carried /\ job' = job
    /\ job.at # "rest" => WatchCarried /\ late \subseteq late'

LEMMA PolicyRequestEffect ==
    ASSUME TypeInv, NEW t \in Targets, (\E c \in Agents : SetKeepAwake(t, c)) \/ RemoveKeepAwake(t)
    PROVE  Beside
<1>1. policy \in [Targets -> Rows] /\ sent \in [Targets -> Nat]
    BY DEF TypeInv, KeepAwakeTypeOK
<1>2. /\ sent' = [sent EXCEPT ![t] = 0] /\ late' = Stricken({t}) /\ job' = job
      /\ \E row : policy' = [policy EXCEPT ![t] = row]
    BY DEF SetKeepAwake, RemoveKeepAwake, watcherVars
<1>3. Carried
    BY <1>1, <1>2 DEF Carried
<1>4. ASSUME job.at # "rest"
      PROVE  WatchCarried /\ late \subseteq late'
    <2>1. late' = late \union {t}
        BY <1>2, <1>4 DEF Stricken
    <2> QED
        BY <1>1, <1>2, <2>1 DEF WatchCarried, IsWatching, IsCurrent, Policy
<1> QED
    BY <1>2, <1>3, <1>4 DEF Beside

LEMMA AlertEffect ==
    ASSUME TypeInv, NEW a \in Agents, AlertHuman(a)
    PROVE  Beside
<1> DEFINE Next(q) == [q EXCEPT !.state = "needs-human", !.cause = "requested",
                                !.alert = lastId']
<1>1. policy \in [Targets -> Rows] /\ UNCHANGED sent /\ job' = job
    BY DEF TypeInv, KeepAwakeTypeOK, AlertHuman, watcherVars
<1>2. \A t \in StoppedBy(a) : /\ policy[t] \in Policy /\ policy[t] # None
                              /\ policy[t].state = "watching"
    BY <1>1 DEF StoppedBy, Rows
<1>3. ASSUME NEW q \in Policy
      PROVE  Next(q).id = q.id /\ Next(q).used = q.used
    BY DEF Policy
<1>4. policy' = [t \in Targets |-> IF t \in StoppedBy(a) THEN Next(policy[t]) ELSE policy[t]]
    BY DEF AlertHuman
<1> HIDE DEF Next
<1>5. Carried
    BY <1>1, <1>2, <1>3, <1>4 DEF Carried
<1>6. ASSUME job.at # "rest"
      PROVE  WatchCarried /\ late \subseteq late'
    <2>1. late' = late \union StoppedBy(a)
        BY <1>6 DEF Stricken, AlertHuman
    <2> QED
        BY <1>4, <2>1 DEF WatchCarried, IsWatching, IsCurrent, Policy
<1> QED
    BY <1>1, <1>5, <1>6 DEF Beside

LEMMA RowsTouched ==
    ASSUME TypeInv, UNCHANGED <<sent, late, job>>,
           \A t \in Targets : /\ policy'[t] = None <=> policy[t] = None
                              /\ policy[t] # None =>
                                   /\ policy'[t].id = policy[t].id
                                   /\ policy'[t].used = policy[t].used
                                   /\ policy'[t].state = policy[t].state
    PROVE  Beside
<1>1. WatchCarried
    BY DEF WatchCarried, IsWatching, IsCurrent, Policy
<1> QED
    BY <1>1 DEF Beside, Carried

LEMMA DeleteEffect ==
    ASSUME TypeInv, NEW c \in Conversations, DeleteConversation(c)
    PROVE  Beside
<1> DEFINE lost == {t \in Targets : policy[t] # None /\ Direct[Speaker(policy[t])] = c}
           Next(q) == [q EXCEPT !.alert = 0]
<1>1. policy \in [Targets -> Rows] /\ UNCHANGED <<sent, late, job>>
    BY DEF TypeInv, KeepAwakeTypeOK, DeleteConversation, watcherVars
<1>2. ASSUME NEW q \in Policy
      PROVE  /\ Next(q).id = q.id /\ Next(q).used = q.used /\ Next(q).state = q.state
             /\ Next(q) # None
    <2>1. Next(q) \in Policy
        BY DEF Policy, MessageIds
    <2> QED
        BY <2>1 DEF Policy
<1>3. policy' = [t \in Targets |-> IF t \in lost THEN Next(policy[t]) ELSE policy[t]]
    BY DEF DeleteConversation
<1>4. \A t \in lost : policy[t] \in Policy /\ policy[t] # None
    BY <1>1 DEF Rows
<1> HIDE DEF Next, lost
<1> QED
    BY <1>1, <1>2, <1>3, <1>4, RowsTouched

LEMMA TimeEffect ==
    ASSUME TypeInv, TimePasses
    PROVE  Beside
<1> DEFINE Next(q) == [q EXCEPT !.fresh = FALSE]
<1>1. policy \in [Targets -> Rows] /\ UNCHANGED <<sent, late, job>>
    BY DEF TypeInv, KeepAwakeTypeOK, TimePasses, watcherVars, historyVars
<1>2. ASSUME NEW q \in Policy
      PROVE  /\ Next(q).id = q.id /\ Next(q).used = q.used /\ Next(q).state = q.state
             /\ Next(q) # None
    <2>1. Next(q) \in Policy
        BY DEF Policy
    <2> QED
        BY <2>1 DEF Policy
<1>3. policy' = [t \in Targets |-> IF policy[t] = None THEN None ELSE Next(policy[t])]
    BY DEF TimePasses
<1>4. \A t \in Targets : policy[t] # None => policy[t] \in Policy
    BY <1>1 DEF Rows
<1> HIDE DEF Next
<1> QED
    BY <1>1, <1>2, <1>3, <1>4, RowsTouched

(* Every step that is none of the pass's own, but for a restart.           *)
LEMMA StepsBeside ==
    ASSUME TypeInv,
           Requests \/ TimePasses \/ (\E a \in Agents, s \in Shown : PaneChanges(a, s))
             \/ UNCHANGED vars
    PROVE  Beside
<1>1. ASSUME UNCHANGED <<policy, sent, late, job>>
      PROVE  Beside
    BY <1>1, RowsTouched
<1>2. ASSUME NEW a \in Agents,
             \/ Deactivate(a) \/ RouteChanges(a)
             \/ \E c \in Channels : Join(a, c) \/ Leave(a, c)
             \/ \E s \in Shown : PaneChanges(a, s)
      PROVE  Beside
    BY <1>1, <1>2 DEF Deactivate, RouteChanges, Join, Leave, PaneChanges, dbVars,
                      watcherVars, historyVars
<1>3. ASSUME NEW c \in Conversations, HumanWrites(c)
      PROVE  Beside
    BY <1>1, <1>3 DEF HumanWrites, watcherVars, historyVars
<1>4. ASSUME UNCHANGED vars
      PROVE  Beside
    BY <1>1, <1>4 DEF vars, dbVars, watcherVars, historyVars
<1> QED
    BY <1>2, <1>3, <1>4, PolicyRequestEffect, AlertEffect, DeleteEffect, TimeEffect DEF Requests

-----------------------------------------------------------------------------
(* What the pass believes is watched still is, or is known to be late.     *)
QuietInv ==
    \A p \in (job.todo \union {job.policy}) \ {None} :
        p.state = "watching" => IsWatching(p) \/ p.target \in late

LEMMA QuietCarried ==
    ASSUME TypeInv, QuietInv, WatchCarried, late \subseteq late',
           job'.todo \union {job'.policy} \subseteq job.todo \union {job.policy, None}
    PROVE  QuietInv'
<1>1. (job.todo \union {job.policy}) \ {None} \subseteq Policy
    BY DEF TypeInv, KeepAwakeTypeOK, Job, Rows
<1> QED
    BY <1>1 DEF QuietInv, WatchCarried

LEMMA QuietRest ==
    ASSUME job'.todo = {}, job'.policy = None
    PROVE  QuietInv'
    BY DEF QuietInv

LEMMA WokenEffect ==
    ASSUME KeepAwakeTypeOK, job.policy \in Policy, Counted
    PROVE  WatchCarried
<1> DEFINE p == job.policy
           Next(q) == [q EXCEPT !.used = @ + 1, !.fresh = TRUE]
<1>1. policy \in [Targets -> Rows] /\ p.target \in Targets
    BY DEF KeepAwakeTypeOK, Policy
<1>2. CASE ~IsWatching(p)
    BY <1>2 DEF Counted, Woken, WatchCarried, IsWatching, IsCurrent
<1>3. CASE IsWatching(p)
    <2>1. policy[p.target] \in Policy
        BY <1>1, <1>3 DEF Rows, IsWatching, IsCurrent
    <2>2. policy' = [policy EXCEPT ![p.target] = Next(policy[p.target])]
        BY <1>3 DEF Counted, Woken
    <2>3. /\ Next(policy[p.target]).id = policy[p.target].id
          /\ Next(policy[p.target]).state = policy[p.target].state
          /\ Next(policy[p.target]) # None
        <3>1. policy[p.target].used + 1 \in Nat
            BY <2>1 DEF Policy
        <3>2. Next(policy[p.target]) \in Policy
            BY <2>1, <3>1 DEF Policy
        <3> QED
            BY <2>1, <3>2 DEF Policy
    <2> HIDE DEF Next
    <2> QED
        BY <1>1, <2>2, <2>3 DEF WatchCarried, IsWatching, IsCurrent, Policy
<1> QED
    BY <1>2, <1>3

LEMMA QuietInit == KeepAwakeInit => QuietInv
    BY DEF KeepAwakeInit, QuietInv, Rest

LEMMA QuietTakePolicy ==
    ASSUME TypeInv, QuietInv, TakePolicy
    PROVE  QuietInv'
<1>1. KeepAwakeTypeOK /\ job \in Job
    BY DEF TypeInv, KeepAwakeTypeOK
<1>2. CASE job.todo = {}
    BY <1>2, QuietRest DEF TakePolicy, Rest
<1>3. CASE job.todo # {}
    <2> DEFINE p == NextPolicy
    <2>1. p \in job.todo /\ p \in Policy
        BY <1>1, <1>3, NextPolicyType DEF Job
    <2>2. Taken(p).todo = job.todo \ {p} /\ Taken(p).policy = None
        BY <1>1, TakenOK
    <2>3. CASE ResumePolicy(p)
        BY <1>1, <2>1, <2>2, <2>3, ResumeEffect, QuietCarried DEF ResumePolicy
    <2>4. CASE SkipPolicy(p)
        BY <2>2, <2>4, NothingWritten, QuietCarried DEF SkipPolicy
    <2>5. CASE WatchAgent(p)
        <3>1. CASE StopPolicy(p, "exhausted") /\ job' = Taken(p)
            BY <1>1, <2>1, <2>2, <3>1, StopEffect, QuietCarried
        <3>2. CASE /\ job'.todo = job.todo /\ job'.policy = p
                   /\ UNCHANGED <<policy, sent, asked, late>>
            BY <2>1, <3>2, NothingWritten, QuietCarried
        <3>3. job' = [job EXCEPT !.at = IF seen[p.target] = "blocked" THEN "reading" ELSE "waking",
                                 !.policy = p, !.agent = p.target]
              => job'.todo = job.todo /\ job'.policy = p
            BY <1>1 DEF Job
        <3> QED
            BY <2>5, <3>1, <3>2, <3>3 DEF WatchAgent
    <2>6. CASE WatchChannel(p)
        <3>1. UNCHANGED <<policy, sent, late>>
            BY <2>6 DEF WatchChannel
        <3>2. job'.todo = job.todo /\ job'.policy = p
            BY <1>1, <2>6 DEF WatchChannel, Job
        <3> QED
            BY <2>1, <3>1, <3>2, NothingWritten, QuietCarried
    <2> QED
        BY <1>3, <2>3, <2>4, <2>5, <2>6 DEF TakePolicy
<1> QED
    BY <1>2, <1>3

(* The other steps of a pass, as far as the policy it has taken goes.      *)
Moved(to) ==
    /\ job'.at = to /\ job'.todo = job.todo /\ job'.policy = job.policy
    /\ job'.used = job.used /\ job'.acted = job.acted

LEMMA ExceptMoves ==
    ASSUME job \in Job, NEW to, NEW S, NEW x, NEW n,
           \/ job' = [job EXCEPT !.at = to]
           \/ job' = [job EXCEPT !.at = to, !.agent = x]
           \/ job' = [job EXCEPT !.blocked = S, !.at = to, !.agent = x]
           \/ to = job.at /\ job' = [job EXCEPT !.blocked = S]
           \/ to = job.at /\ job' = [job EXCEPT !.checks = n]
    PROVE  Moved(to)
    BY DEF Moved, Job

LEMMA TakeMemberMoves ==
    ASSUME TypeInv, TakeMember
    PROVE  /\ job.at = "members"
           /\ \/ Moved("members") /\ UNCHANGED <<policy, sent, late>>
              \/ /\ Moved("reading") /\ HasBudget(job.used)
                 /\ UNCHANGED <<policy, sent, late>>
              \/ StopPolicy(job.policy, "exhausted") /\ job' = Taken(job.policy)
<1>1. job \in Job /\ job.at = "members"
    BY DEF TypeInv, KeepAwakeTypeOK, TakeMember
<1>2. PICK a \in job.blocked :
        \/ /\ job' = [job EXCEPT !.blocked = job.blocked \ {a}]
           /\ UNCHANGED <<policy, sent, late>>
        \/ /\ job' = [job EXCEPT !.blocked = job.blocked \ {a}, !.at = "reading", !.agent = a]
           /\ UNCHANGED <<policy, sent, late>> /\ HasBudget(job.used)
        \/ /\ StopPolicy(job.policy, "exhausted")
           /\ job' = ToPolicies
    BY DEF TakeMember
<1> QED
    BY <1>1, <1>2, ExceptMoves DEF ToPolicies

LEMMA TakeCoordinatorMoves ==
    ASSUME TypeInv, TakeCoordinator
    PROVE  /\ job.at = "members"
           /\ \/ StopPolicy(job.policy, "exhausted") /\ job' = Taken(job.policy)
              \/ /\ Moved("waking") /\ HasBudget(job.policy.used) /\ ~job.acted
                 /\ UNCHANGED <<policy, sent, late>>
              \/ job' = Taken(job.policy) /\ UNCHANGED <<policy, sent, late>>
<1>1. job \in Job /\ job.at = "members"
    BY DEF TypeInv, KeepAwakeTypeOK, TakeCoordinator
<1>2. \/ StopPolicy(job.policy, "exhausted") /\ job' = ToPolicies
      \/ /\ job' = [job EXCEPT !.at = "waking", !.agent = job.policy.coordinator]
         /\ HasBudget(job.policy.used) /\ ~job.acted
         /\ UNCHANGED <<policy, sent, late>>
      \/ job' = ToPolicies /\ UNCHANGED <<policy, sent, late>>
    BY DEF TakeCoordinator
<1> QED
    BY <1>1, <1>2, ExceptMoves DEF ToPolicies

LEMMA DialogMoves ==
    ASSUME TypeInv, ScreenRead \/ StillBlocked \/ LeftBlocked \/ ExplainAnswered
    PROVE  /\ job.at \in Acting /\ (job.at = "explaining" => job' = DialogLeft)
           /\ \/ /\ job' = DialogLeft /\ UNCHANGED <<policy, sent, late>>
              \/ /\ job.at \in {"reading", "confirming"}
                 /\ \/ Moved("confirming")
                    \/ Moved("pressing")
                 /\ UNCHANGED <<policy, sent, late>>
              \/ /\ job.at = "leaving"
                 /\ \/ Moved("leaving")
                    \/ Moved("explaining")
                 /\ UNCHANGED <<policy, sent, late>>
              \/ /\ job' = Taken(job.policy)
                 /\ \E cause \in Causes : StopPolicy(job.policy, cause)
<1>1. job \in Job /\ {"unrecognized", "stuck"} \subseteq Causes
    BY DEF TypeInv, KeepAwakeTypeOK, Causes
<1>2. CASE ScreenRead
    <2>1. /\ job.at = "reading"
          /\ \/ job' = [job EXCEPT !.at = "confirming"] /\ UNCHANGED <<policy, sent, late>>
             \/ StopPolicy(job.policy, "unrecognized") /\ job' = ToPolicies
             \/ job' = DialogLeft /\ UNCHANGED <<policy, sent, late>>
        BY <1>2 DEF ScreenRead
    <2> QED
        BY <1>1, <2>1, ExceptMoves DEF ToPolicies, Acting
<1>3. CASE StillBlocked
    <2>1. /\ job.at = "confirming" /\ UNCHANGED <<policy, sent, late>>
          /\ job' = [job EXCEPT !.at = "pressing"] \/ job' = DialogLeft
        BY <1>3 DEF StillBlocked, dbVars, historyVars
    <2> QED
        BY <1>1, <2>1, ExceptMoves DEF Acting
<1>4. CASE LeftBlocked
    <2>1. /\ job.at = "leaving"
          /\ \/ job' = [job EXCEPT !.at = "explaining"] /\ UNCHANGED <<policy, sent, late>>
             \/ job' = [job EXCEPT !.checks = job.checks + 1] /\ UNCHANGED <<policy, sent, late>>
             \/ StopPolicy(job.policy, "stuck") /\ job' = ToPolicies
        BY <1>4 DEF LeftBlocked
    <2> QED
        BY <1>1, <2>1, ExceptMoves DEF ToPolicies, Acting
<1>5. CASE ExplainAnswered
    BY <1>5 DEF ExplainAnswered, Acting, dbVars, historyVars
<1> QED
    BY <1>2, <1>3, <1>4, <1>5

LEMMA CountedMoves ==
    ASSUME TypeInv, WakeAnswered \/ EscapePressed
    PROVE  /\ job.at \in {"waking", "pressing"}
           /\ \/ /\ Counted /\ late' = late
                 /\ \/ job' = Taken(job.policy)
                    \/ Moved("leaving")
              \/ /\ UNCHANGED <<policy, sent, late>>
                 /\ job' = DialogLeft \/ job' = Taken(job.policy)
<1>1. job \in Job
    BY DEF TypeInv, KeepAwakeTypeOK
<1>2. CASE WakeAnswered
    BY <1>2 DEF WakeAnswered, ToPolicies
<1>3. CASE EscapePressed
    <2>1. /\ job.at = "pressing" /\ late' = late
          /\ \/ Counted /\ job' = [job EXCEPT !.at = "leaving"]
             \/ job' = DialogLeft /\ UNCHANGED <<policy, sent, late>>
        BY <1>3 DEF EscapePressed
    <2> QED
        BY <1>1, <2>1, ExceptMoves
<1> QED
    BY <1>2, <1>3

LEMMA QuietStep == TypeInv /\ QuietInv /\ [KeepAwakeNext]_vars => QuietInv'
<1> SUFFICES ASSUME TypeInv, QuietInv, [KeepAwakeNext]_vars
             PROVE  QuietInv'
    OBVIOUS
<1>1. KeepAwakeTypeOK /\ job \in Job
    BY DEF TypeInv, KeepAwakeTypeOK
<1>2. CASE Tick
    <2>1. CASE KeepAwakePolicies = {}
        BY <1>2, <2>1 DEF Tick, QuietInv, IsWatching, IsCurrent, dbVars, historyVars
    <2>2. CASE KeepAwakePolicies # {}
        <3>1. /\ job' = [Rest EXCEPT !.at = "panes", !.todo = KeepAwakePolicies]
              /\ UNCHANGED policy
            BY <1>2, <2>2 DEF Tick, dbVars
        <3>2. job'.todo = KeepAwakePolicies /\ job'.policy = None
            BY <3>1 DEF Rest
        <3>3. \A t \in Targets : policy[t] # None => policy[t].target = t
            BY <1>1 DEF KeepAwakeTypeOK
        <3> QED
            BY <3>1, <3>2, <3>3 DEF QuietInv, IsWatching, IsCurrent, KeepAwakePolicies
    <2> QED
        BY <2>1, <2>2
<1>3. CASE PanesArrive
    <2>1. PICK untold : job' = [job EXCEPT !.at = "policies", !.pending = untold]
        BY <1>3 DEF PanesArrive
    <2>2. job'.todo = job.todo /\ job'.policy = job.policy
        BY <1>1, <2>1 DEF Job
    <2> QED
        BY <1>3, <2>2, NothingWritten, QuietCarried DEF PanesArrive, dbVars, historyVars
<1>4. CASE PanesFail \/ HubRestarts
    BY <1>4, QuietRest DEF PanesFail, HubRestarts, Rest
<1>5. CASE TakePolicy
    BY <1>5, QuietTakePolicy
<1>6. ASSUME \/ job' = Taken(job.policy)
             \/ job' = DialogLeft /\ job.at \in Acting
             \/ job'.todo = job.todo /\ job'.policy = job.policy
      PROVE  job'.todo \union {job'.policy} \subseteq job.todo \union {job.policy, None}
    <2>1. CASE job' = Taken(job.policy)
        BY <1>1, <2>1, TakenOK
    <2>2. CASE job' = DialogLeft /\ job.at \in Acting
        <3>1. /\ DialogLeft.todo \in {job.todo, job.todo \ {job.policy}}
              /\ DialogLeft.policy \in {job.policy, None}
            BY <1>1, <2>2, TakenOK, DialogLeftOK
        <3> QED
            BY <2>2, <3>1
    <2>3. CASE job'.todo = job.todo /\ job'.policy = job.policy
        BY <2>3
    <2> QED
        BY <1>6, <2>1, <2>2, <2>3
<1>7. ASSUME job.at \in {"members"} \union Acting
      PROVE  job.policy \in Policy
    BY <1>1, <1>7 DEF TypeInv, Sound, Job, Rows
<1>8. CASE TakeMember
    <2>1. /\ job.policy \in Policy
          /\ \/ job'.todo = job.todo /\ job'.policy = job.policy
             \/ job' = Taken(job.policy)
          /\ StopPolicy(job.policy, "exhausted") \/ UNCHANGED <<policy, sent, late>>
        BY <1>7, <1>8, TakeMemberMoves DEF Moved
    <2>2. WatchCarried /\ late \subseteq late'
        BY <1>1, <2>1, StopEffect, NothingWritten
    <2>3. job'.todo \union {job'.policy} \subseteq job.todo \union {job.policy, None}
        BY <1>6, <2>1
    <2> QED
        BY <2>2, <2>3, QuietCarried
<1>9. CASE TakeCoordinator
    <2>1. /\ job.policy \in Policy
          /\ \/ job'.todo = job.todo /\ job'.policy = job.policy
             \/ job' = Taken(job.policy)
          /\ StopPolicy(job.policy, "exhausted") \/ UNCHANGED <<policy, sent, late>>
        BY <1>7, <1>9, TakeCoordinatorMoves DEF Moved
    <2>2. WatchCarried /\ late \subseteq late'
        BY <1>1, <2>1, StopEffect, NothingWritten
    <2>3. job'.todo \union {job'.policy} \subseteq job.todo \union {job.policy, None}
        BY <1>6, <2>1
    <2> QED
        BY <2>2, <2>3, QuietCarried
<1>10. CASE ScreenRead \/ StillBlocked \/ LeftBlocked \/ ExplainAnswered
    BY <1>1, <1>6, <1>7, <1>10, DialogMoves, StopEffect, NothingWritten, QuietCarried DEF Moved
<1>11. CASE WakeAnswered \/ EscapePressed
    <2>1. job.at \in Acting
        BY <1>11, CountedMoves DEF Acting
    <2> QED
        BY <1>1, <1>6, <1>7, <1>11, <2>1, CountedMoves, WokenEffect, NothingWritten, QuietCarried
        DEF Moved
<1>12. CASE \/ Requests \/ TimePasses \/ UNCHANGED vars
            \/ \E a \in Agents, s \in Shown : PaneChanges(a, s)
    <2>1. Beside
        BY <1>12, StepsBeside
    <2>2. CASE job.at = "rest"
        BY <2>1, <2>2, QuietRest DEF Beside, TypeInv, Sound
    <2>3. CASE job.at # "rest"
        BY <2>1, <2>3, QuietCarried DEF Beside
    <2> QED
        BY <2>2, <2>3
<1> QED
    BY <1>2, <1>3, <1>4, <1>5, <1>8, <1>9, <1>10, <1>11, <1>12 DEF KeepAwakeNext, PassStep

(* A policy that was stopped, replaced or removed costs its target no more *)
(* than what the pass in flight had begun.                                 *)
THEOREM QuietAlways == KeepAwakeSpec => []QuietOnceStopped
<1>1. TypeInv /\ QuietInv => QuietOnceStopped
    BY DEF TypeInv, QuietInv, QuietOnceStopped, Sound
<1> QED
    BY <1>1, TypeInit, TypeStep, QuietInit, QuietStep, PTL DEF KeepAwakeSpec

-----------------------------------------------------------------------------
(* The account of a watch.  A watching row has used at least what Herdr    *)
(* did for it, so has a row that waits in a pass, as the pass read it, and *)
(* so says the count of the pass for the policy it has taken: a row that   *)
(* is stopped while a dialog is being closed no longer counts, but what    *)
(* the pass does for it stays within what the pass has counted itself.     *)
PaidBy(p, n) == IsCurrent(p) => sent[p.target] <= n

RowsPaid ==
    \A t \in Targets :
        /\ sent[t] <= MaxWakes
        /\ policy[t] # None /\ policy[t].state = "watching" => sent[t] <= policy[t].used

TodoPaid == \A p \in job.todo \ {job.policy} : p.state = "watching" => PaidBy(p, p.used)

OnePolicyEach ==
    \A p \in job.todo, q \in (job.todo \union {job.policy}) \ {None} :
        p.target = q.target => p = q

Level(pass) == IF pass.policy.target \in Agents THEN pass.policy.used ELSE pass.used

PassWithin(pass) ==
    /\ pass.at \in Acting => Level(pass) < MaxWakes
    /\ pass.at = "members" =>
         pass.policy.target \notin Agents /\ (~pass.acted => pass.used = pass.policy.used)
    /\ pass.at \in {"panes", "policies"} => ~pass.acted

PassPaid ==
    /\ job.at \in {"members", "waking", "reading", "confirming", "pressing"} =>
         PaidBy(job.policy, Level(job))
    /\ job.at \in {"leaving", "explaining"} => PaidBy(job.policy, Level(job) + 1)

BudgetInv == RowsPaid /\ TodoPaid /\ OnePolicyEach /\ PassWithin(job) /\ PassPaid

LEMMA BudgetInit == KeepAwakeInit => BudgetInv
    BY DEF KeepAwakeInit, BudgetInv, RowsPaid, TodoPaid, OnePolicyEach, PassWithin, PassPaid,
           Rest, Acting

(* Accounts under a step that counts nothing.                              *)
LEMMA AccountsCarried ==
    ASSUME TypeInv, TypeInv', RowsPaid, Carried
    PROVE  /\ RowsPaid'
           /\ \A q \in Policy, n \in Nat : PaidBy(q, n) => PaidBy(q, n)'
<1>1. sent \in [Targets -> Nat] /\ policy \in [Targets -> Rows]
    BY DEF TypeInv, KeepAwakeTypeOK
<1>2. policy' \in [Targets -> Rows]
    BY DEF TypeInv, KeepAwakeTypeOK
<1>3. RowsPaid'
    <2>1. SUFFICES ASSUME NEW t \in Targets
                   PROVE  /\ sent'[t] <= MaxWakes
                          /\ policy'[t] # None /\ policy'[t].state = "watching"
                               => sent'[t] <= policy'[t].used
        BY DEF RowsPaid
    <2>2. policy'[t] # None => policy'[t].used \in Nat
        BY <1>2 DEF Rows, Policy
    <2>3. CASE sent'[t] = 0
        BY <2>2, <2>3
    <2>4. CASE sent'[t] # 0
        BY <2>1, <2>4 DEF Carried, RowsPaid
    <2> QED
        BY <2>3, <2>4
<1>4. ASSUME NEW q \in Policy, NEW n \in Nat, PaidBy(q, n), IsCurrent(q)'
      PROVE  sent'[q.target] <= n
    <2>1. q.target \in Targets
        BY DEF Policy
    <2>2. CASE sent'[q.target] = 0
        BY <2>2
    <2>3. CASE sent'[q.target] # 0
        BY <1>4, <2>1, <2>3 DEF Carried, PaidBy, IsCurrent
    <2> QED
        BY <2>2, <2>3
<1> QED
    BY <1>3, <1>4 DEF PaidBy

(* Accounts under a step that counts for the policy of the pass.           *)
LEMMA AccountsCounted ==
    ASSUME TypeInv, RowsPaid, Counted, job.policy \in Policy,
           NEW n \in Nat, n < MaxWakes, PaidBy(job.policy, n)
    PROVE  /\ RowsPaid' /\ (IsCurrent(job.policy) => sent'[job.policy.target] <= n + 1)
           /\ \A q \in Policy : IsCurrent(q)' => IsCurrent(q)
           /\ \A q \in Policy, m \in Nat :
                q.target # job.policy.target /\ PaidBy(q, m) => PaidBy(q, m)'
<1> DEFINE p == job.policy
           Next(q) == [q EXCEPT !.used = @ + 1, !.fresh = TRUE]
<1>1. sent \in [Targets -> Nat] /\ policy \in [Targets -> Rows] /\ p.target \in Targets
    BY DEF TypeInv, KeepAwakeTypeOK, Policy
<1>2. CASE ~IsCurrent(p)
    <2>1. UNCHANGED <<policy, sent>>
        BY <1>2 DEF Counted, Woken, IsWatching
    <2> QED
        BY <1>2, <2>1 DEF RowsPaid, PaidBy, IsCurrent
<1>3. CASE IsCurrent(p)
    <2>1. sent' = [sent EXCEPT ![p.target] = sent[p.target] + 1] /\ sent[p.target] <= n
        BY <1>3 DEF Counted, PaidBy
    <2>2. policy[p.target] \in Policy
        BY <1>1, <1>3 DEF Rows, IsCurrent
    <2>3. /\ Next(policy[p.target]).id = policy[p.target].id
          /\ Next(policy[p.target]).used = policy[p.target].used + 1
          /\ policy[p.target].used \in Nat
        BY <2>2 DEF Policy
    <2>4. \/ /\ IsWatching(p)
             /\ policy' = [policy EXCEPT ![p.target] = Next(policy[p.target])]
          \/ ~IsWatching(p) /\ policy' = policy
        BY DEF Counted, Woken
    <2> HIDE DEF Next
    <2>5. ASSUME NEW t \in Targets
          PROVE  /\ sent'[t] <= MaxWakes
                 /\ policy'[t] # None /\ policy'[t].state = "watching"
                      => sent'[t] <= policy'[t].used
        <3>1. CASE t = p.target
            <4>1. sent'[t] = sent[t] + 1 /\ sent[t] \in Nat /\ sent[t] <= n
                BY <1>1, <2>1, <3>1
            <4>2. sent'[t] <= MaxWakes
                BY <4>1
            <4>3. CASE IsWatching(p)
                <5>1. policy'[t].used = policy[t].used + 1
                    BY <1>1, <2>3, <2>4, <3>1, <4>3
                <5>2. sent[t] <= policy[t].used
                    BY <3>1, <4>3 DEF IsWatching, IsCurrent, RowsPaid
                <5> QED
                    BY <2>3, <3>1, <4>1, <4>2, <5>1, <5>2
            <4>4. CASE ~IsWatching(p)
                BY <1>3, <2>4, <3>1, <4>2, <4>4 DEF IsWatching
            <4> QED
                BY <4>3, <4>4
        <3>2. CASE t # p.target
            BY <1>1, <2>1, <2>4, <3>2 DEF RowsPaid
        <3> QED
            BY <3>1, <3>2
    <2>6. sent'[p.target] <= n + 1
        BY <1>1, <2>1
    <2>7. \A q \in Policy : IsCurrent(q)' => IsCurrent(q)
        BY <1>1, <1>3, <2>3, <2>4 DEF IsCurrent, Policy
    <2>8. \A q \in Policy : q.target # p.target => sent'[q.target] = sent[q.target]
        BY <1>1, <2>1 DEF Policy
    <2> QED
        BY <2>5, <2>6, <2>7, <2>8 DEF RowsPaid, PaidBy
<1> QED
    BY <1>2, <1>3

LEMMA LevelType ==
    ASSUME TypeInv, job.at \in {"members"} \union Acting
    PROVE  job.policy \in Policy /\ job.used \in Nat /\ Level(job) \in Nat
    BY DEF TypeInv, Sound, KeepAwakeTypeOK, Job, Rows, Policy, Level

LEMMA BudgetBeside ==
    ASSUME TypeInv, TypeInv', BudgetInv, Beside
    PROVE  BudgetInv'
<1>1. /\ job' = job /\ RowsPaid'
      /\ \A q \in Policy, n \in Nat : PaidBy(q, n) => PaidBy(q, n)'
    BY AccountsCarried DEF Beside, BudgetInv
<1>2. job.todo \in SUBSET Policy /\ \A p \in job.todo : p.used \in Nat
    BY DEF TypeInv, KeepAwakeTypeOK, Job, Policy
<1>3. TodoPaid'
    BY <1>1, <1>2 DEF BudgetInv, TodoPaid
<1>4. OnePolicyEach' /\ PassWithin(job)'
    BY <1>1 DEF BudgetInv, OnePolicyEach, PassWithin, Level
<1>5. PassPaid'
    <2>1. ASSUME job.at \in {"members"} \union Acting
          PROVE  /\ PaidBy(job.policy, Level(job)) => PaidBy(job.policy, Level(job))'
                 /\ PaidBy(job.policy, Level(job) + 1) => PaidBy(job.policy, Level(job) + 1)'
        <3>1. job.policy \in Policy /\ Level(job) \in Nat /\ Level(job) + 1 \in Nat
            BY <2>1, LevelType
        <3>2. job'.policy = job.policy /\ Level(job') = Level(job)
            BY <1>1
        <3>3. \A q \in Policy, n \in Nat :
                (IsCurrent(q) => sent[q.target] <= n) => (IsCurrent(q)' => sent'[q.target] <= n)
            BY <1>1 DEF PaidBy
        <3> QED
            BY <3>1, <3>2, <3>3 DEF PaidBy, IsCurrent
    <2> QED
        BY <1>1, <2>1 DEF BudgetInv, PassPaid, Acting
<1> QED
    BY <1>1, <1>3, <1>4, <1>5 DEF BudgetInv

LEMMA BudgetRest ==
    ASSUME TypeInv, TypeInv', BudgetInv, UNCHANGED <<policy, sent>>, job' = Rest
    PROVE  BudgetInv'
<1>1. RowsPaid'
    BY NothingWritten, AccountsCarried DEF BudgetInv
<1> QED
    BY <1>1 DEF BudgetInv, TodoPaid, OnePolicyEach, PassWithin, PassPaid, Rest, Acting

(* Between two policies.                                                   *)
LEMMA BudgetTaken ==
    ASSUME TypeInv, BudgetInv, NEW p, job.policy \in {None, p}, job' = Taken(p), RowsPaid',
           \A q \in Policy, n \in Nat :
               q \in job.todo \ {p} /\ PaidBy(q, n) => PaidBy(q, n)'
    PROVE  BudgetInv'
<1>1. job.todo \in SUBSET Policy /\ job \in Job /\ \A q \in job.todo : q.used \in Nat
    BY DEF TypeInv, KeepAwakeTypeOK, Job, Policy
<1>2. /\ job'.at = "policies" /\ job'.policy = None /\ job'.todo = job.todo \ {p}
      /\ job'.acted = FALSE
    BY <1>1, TakenOK DEF Taken, Rest
<1>3. TodoPaid'
    <2>1. SUFFICES ASSUME NEW q \in job.todo \ {p}, q.state = "watching"
                   PROVE  PaidBy(q, q.used)'
        BY <1>2 DEF TodoPaid
    <2>2. PaidBy(q, q.used)
        BY <1>1, <2>1 DEF BudgetInv, TodoPaid
    <2> QED
        BY <1>1, <2>1, <2>2
<1>4. OnePolicyEach'
    BY <1>2 DEF BudgetInv, OnePolicyEach
<1>5. PassWithin(job)' /\ PassPaid'
    BY <1>2 DEF PassWithin, PassPaid, Acting
<1> QED
    BY <1>3, <1>4, <1>5 DEF BudgetInv

(* Within one policy, when nothing is counted.                             *)
LEMMA BudgetMoved ==
    ASSUME TypeInv, TypeInv', BudgetInv, Carried, NEW to \in {"members"} \union Acting, Moved(to),
           job.at \in {"members"} \union Acting,
           to \in Acting => Level(job) < MaxWakes,
           to = "members" => job.at = "members",
           to \notin {"leaving", "explaining"} => job.at \notin {"leaving", "explaining"}
    PROVE  BudgetInv'
<1>1. /\ RowsPaid'
      /\ \A q \in Policy, n \in Nat : PaidBy(q, n) => PaidBy(q, n)'
    BY AccountsCarried DEF BudgetInv
<1>2. /\ job.todo \in SUBSET Policy /\ \A p \in job.todo : p.used \in Nat
      /\ job.policy \in Policy /\ Level(job) \in Nat
    BY LevelType DEF TypeInv, KeepAwakeTypeOK, Job, Policy
<1>3. /\ job'.at = to /\ job'.todo = job.todo /\ job'.policy = job.policy
      /\ job'.used = job.used /\ job'.acted = job.acted
    BY DEF Moved
<1>4. Level(job') = Level(job)
    BY <1>3 DEF Level
<1>5. TodoPaid'
    BY <1>1, <1>2, <1>3 DEF BudgetInv, TodoPaid
<1>6. OnePolicyEach'
    BY <1>3 DEF BudgetInv, OnePolicyEach
<1>7. PassWithin(job')
    BY <1>3, <1>4 DEF BudgetInv, PassWithin, Acting
<1>8. PaidBy(job.policy, Level(job)) \/ PaidBy(job.policy, Level(job) + 1)
    BY DEF BudgetInv, PassPaid, Acting
<1>9. PassPaid'
    <2>1. ASSUME to \notin {"leaving", "explaining"}
          PROVE  PaidBy(job.policy, Level(job))'
        <3>1. PaidBy(job.policy, Level(job))
            BY <2>1 DEF BudgetInv, PassPaid, Acting
        <3> QED
            BY <1>1, <1>2, <1>3, <1>4, <3>1 DEF PaidBy, IsCurrent
    <2>2. ASSUME to \in {"leaving", "explaining"}
          PROVE  PaidBy(job.policy, Level(job) + 1)'
        <3>1. PaidBy(job.policy, Level(job) + 1)
            <4>1. IsCurrent(job.policy) => sent[job.policy.target] \in Nat
                BY <1>2 DEF TypeInv, KeepAwakeTypeOK, Policy
            <4> QED
                BY <1>2, <1>8, <4>1 DEF PaidBy
        <3> QED
            BY <1>1, <1>2, <1>3, <1>4, <3>1 DEF PaidBy, IsCurrent
    <2> QED
        BY <1>3, <2>1, <2>2 DEF PassPaid, Acting
<1> QED
    BY <1>1, <1>5, <1>6, <1>7, <1>9 DEF BudgetInv

(* The end of a dialog: the next member, or the next policy.               *)
LEMMA BudgetDialogLeft ==
    ASSUME TypeInv, TypeInv', BudgetInv, UNCHANGED <<policy, sent>>, job.at \in Acting,
           job' = DialogLeft
    PROVE  BudgetInv'
<1>1. /\ RowsPaid'
      /\ \A q \in Policy, n \in Nat : PaidBy(q, n) => PaidBy(q, n)'
    BY NothingWritten, AccountsCarried DEF BudgetInv
<1>2. CASE job' = Taken(job.policy)
    BY <1>1, <1>2, BudgetTaken
<1>3. CASE /\ job.policy.target \notin Agents
           /\ job'.at = "members" /\ job'.policy = job.policy
           /\ job'.todo = job.todo /\ job'.used = job.used + 1
           /\ job'.acted = TRUE
    <2>1. /\ job.todo \in SUBSET Policy /\ \A p \in job.todo : p.used \in Nat
          /\ job.policy \in Policy /\ Level(job) \in Nat
        BY LevelType DEF TypeInv, KeepAwakeTypeOK, Job, Policy
    <2>2. Level(job') = Level(job) + 1
        BY <1>3 DEF Level
    <2>3. TodoPaid'
        BY <1>1, <1>3, <2>1 DEF BudgetInv, TodoPaid
    <2>4. OnePolicyEach'
        BY <1>3 DEF BudgetInv, OnePolicyEach
    <2>5. PassWithin(job')
        BY <1>3 DEF PassWithin, Acting
    <2>6. PassPaid'
        <3>1. PaidBy(job.policy, Level(job)) \/ PaidBy(job.policy, Level(job) + 1)
            BY DEF BudgetInv, PassPaid, Acting
        <3>2. IsCurrent(job.policy) => sent[job.policy.target] \in Nat
            BY <2>1 DEF TypeInv, KeepAwakeTypeOK, Policy
        <3>3. IsCurrent(job.policy) => sent[job.policy.target] <= Level(job) + 1
            BY <2>1, <3>1, <3>2 DEF PaidBy
        <3> QED
            BY <1>3, <2>2, <3>3 DEF PassPaid, PaidBy, IsCurrent
    <2> QED
        BY <1>1, <2>3, <2>4, <2>5, <2>6 DEF BudgetInv
<1> QED
    BY <1>2, <1>3, DialogLeftOK

LEMMA BudgetPanes ==
    ASSUME TypeInv, TypeInv', BudgetInv, Tick \/ PanesArrive
    PROVE  BudgetInv'
<1>1. UNCHANGED <<policy, sent>> /\ job \in Job /\ KeepAwakeTypeOK
    BY DEF Tick, PanesArrive, dbVars, historyVars, TypeInv, KeepAwakeTypeOK
<1>2. /\ RowsPaid'
      /\ \A q \in Policy, n \in Nat : PaidBy(q, n) => PaidBy(q, n)'
    BY <1>1, NothingWritten, AccountsCarried DEF BudgetInv
<1>3. CASE Tick /\ UNCHANGED job
    <2>1. /\ UNCHANGED sent /\ \A t \in Targets : policy'[t] = policy[t]
          /\ UNCHANGED <<late, job>>
        BY <1>1, <1>3 DEF Tick, historyVars
    <2> QED
        BY <2>1, RowsTouched, BudgetBeside
<1>4. CASE /\ Tick
           /\ job' = [Rest EXCEPT !.at = "panes", !.todo = KeepAwakePolicies]
    <2>1. /\ job'.todo = KeepAwakePolicies /\ job'.policy = None /\ job'.at = "panes"
          /\ job'.acted = FALSE
        BY <1>4 DEF Rest
    <2>2. \A p \in KeepAwakePolicies : /\ policy[p.target] = p /\ p.target \in Targets
                                       /\ p # None
        BY <1>1 DEF KeepAwakePolicies, KeepAwakeTypeOK
    <2>3. TodoPaid'
        BY <1>1, <2>1, <2>2 DEF BudgetInv, RowsPaid, TodoPaid, PaidBy, IsCurrent
    <2>4. OnePolicyEach'
        <3>1. \A p, q \in KeepAwakePolicies : p.target = q.target => p = q
            BY <2>2
        <3> QED
            BY <2>1, <3>1 DEF OnePolicyEach
    <2>5. PassWithin(job)' /\ PassPaid'
        BY <2>1 DEF PassWithin, PassPaid, Acting
    <2> QED
        BY <1>2, <2>3, <2>4, <2>5 DEF BudgetInv
<1>5. CASE PanesArrive
    <2>1. PICK untold : job' = [job EXCEPT !.at = "policies", !.pending = untold]
        BY <1>5 DEF PanesArrive
    <2>2. /\ job'.at = "policies" /\ job'.todo = job.todo /\ job'.policy = job.policy
          /\ job'.acted = job.acted
        BY <1>1, <2>1 DEF Job
    <2>3. job.at = "panes" /\ ~job.acted
        BY <1>5 DEF PanesArrive, BudgetInv, PassWithin
    <2>4. job.todo \in SUBSET Policy /\ \A p \in job.todo : p.used \in Nat
        BY <1>1 DEF Job, Policy
    <2>5. TodoPaid'
        BY <1>2, <2>2, <2>4 DEF BudgetInv, TodoPaid
    <2>6. OnePolicyEach'
        BY <2>2 DEF BudgetInv, OnePolicyEach
    <2>7. PassWithin(job)' /\ PassPaid'
        BY <2>2, <2>3 DEF PassWithin, PassPaid, Acting
    <2> QED
        BY <1>2, <2>5, <2>6, <2>7 DEF BudgetInv
<1> QED
    BY <1>3, <1>4, <1>5 DEF Tick

LEMMA BudgetTakePolicy ==
    ASSUME TypeInv, TypeInv', BudgetInv, TakePolicy
    PROVE  BudgetInv'
<1>1. KeepAwakeTypeOK /\ job \in Job /\ job.policy = None /\ ~job.acted
    BY DEF TypeInv, KeepAwakeTypeOK, Sound, TakePolicy, BudgetInv, PassWithin
<1>2. CASE job.todo = {}
    BY <1>2, BudgetRest DEF TakePolicy
<1>3. CASE job.todo # {}
    <2>0. PICK p \in job.todo : p = NextPolicy
        BY <1>1, <1>3, NextPolicyType
    <2>1. p \in job.todo /\ p \in Policy /\ p # None /\ p.used \in Nat
        BY <1>1 DEF Job, Policy
    <2>2. ASSUME Carried
          PROVE  /\ RowsPaid'
                 /\ \A q \in Policy, n \in Nat : PaidBy(q, n) => PaidBy(q, n)'
        BY <2>2, AccountsCarried DEF BudgetInv
    <2>3. ASSUME Carried, job' = Taken(p)
          PROVE  BudgetInv'
        BY <1>1, <2>2, <2>3, BudgetTaken
    <2>4. ASSUME NEW to, job'.at = to, job'.todo = job.todo, job'.policy = p,
                 job'.acted = FALSE, UNCHANGED <<policy, sent>>, p.state = "watching",
                 \/ to \in {"reading", "waking"} /\ p.target \in Agents /\ p.used < MaxWakes
                 \/ to = "members" /\ p.target \notin Agents /\ job'.used = p.used
          PROVE  BudgetInv'
        <3>1. Level(job') = p.used
            BY <2>4 DEF Level
        <3>2. Carried
            BY <2>4, NothingWritten
        <3>3. PaidBy(p, p.used)'
            <4>1. PaidBy(p, p.used)
                BY <1>1, <2>1, <2>4 DEF BudgetInv, TodoPaid
            <4> QED
                BY <2>1, <2>2, <3>2, <4>1
        <3>4. TodoPaid'
            <4>1. SUFFICES ASSUME NEW q \in job.todo, q.state = "watching"
                           PROVE  PaidBy(q, q.used)'
                BY <2>4 DEF TodoPaid
            <4>2. q \in Policy /\ q # None /\ q.used \in Nat
                BY <1>1, <4>1 DEF Job, Policy
            <4>3. PaidBy(q, q.used)
                BY <1>1, <4>1, <4>2 DEF BudgetInv, TodoPaid
            <4> QED
                BY <2>2, <3>2, <4>2, <4>3
        <3>5. OnePolicyEach'
            BY <1>1, <2>1, <2>4 DEF BudgetInv, OnePolicyEach
        <3>6. PassWithin(job)'
            BY <2>4, <3>1 DEF PassWithin, Acting
        <3>7. PassPaid'
            BY <2>4, <3>1, <3>3 DEF PassPaid, PaidBy, IsCurrent
        <3> QED
            BY <2>2, <3>2, <3>4, <3>5, <3>6, <3>7 DEF BudgetInv
    <2>5. CASE ResumePolicy(p)
        BY <1>1, <2>1, <2>3, <2>5, ResumeEffect DEF ResumePolicy
    <2>6. CASE SkipPolicy(p)
        BY <2>3, <2>6, NothingWritten DEF SkipPolicy
    <2>7. CASE WatchAgent(p)
        <3>1. CASE StopPolicy(p, "exhausted") /\ job' = Taken(p)
            BY <1>1, <2>1, <2>3, <3>1, StopEffect
        <3>2. CASE /\ HasBudget(p.used)
                   /\ job' = [job EXCEPT !.at = IF seen[p.target] = "blocked"
                                                THEN "reading" ELSE "waking",
                                         !.policy = p, !.agent = p.target]
                   /\ UNCHANGED <<policy, sent, asked, late>>
            <4>1. PICK to \in {"reading", "waking"} :
                    job' = [job EXCEPT !.at = to, !.policy = p, !.agent = p.target]
                BY <3>2
            <4>2. /\ job'.at = to /\ job'.todo = job.todo /\ job'.policy = p
                  /\ job'.acted = job.acted
                BY <1>1, <4>1 DEF Job
            <4>3. job.acted \in BOOLEAN
                BY <1>1 DEF Job
            <4>4. p.target \in Agents /\ p.state = "watching"
                BY <2>7 DEF WatchAgent, IsWatched
            <4> QED
                BY <1>1, <2>4, <3>2, <4>2, <4>3, <4>4 DEF HasBudget
        <3> QED
            BY <2>7, <3>1, <3>2 DEF WatchAgent
    <2>8. CASE WatchChannel(p)
        <3> DEFINE live == LiveMembers(p.target)
                   blocked == {a \in live : seen[a] = "blocked"}
        <3>1. /\ p.target \in Channels /\ p.state = "watching"
              /\ UNCHANGED <<policy, sent, asked, late>>
              /\ job' = [job EXCEPT !.at = "members", !.policy = p, !.live = live,
                                    !.blocked = blocked, !.used = p.used]
            BY <2>8 DEF WatchChannel, IsWatched
        <3> HIDE DEF live, blocked
        <3>2. /\ job'.at = "members" /\ job'.todo = job.todo /\ job'.policy = p
              /\ job'.acted = job.acted /\ job'.used = p.used
            BY <1>1, <3>1 DEF Job
        <3>3. job.acted \in BOOLEAN /\ p.target \notin Agents
            BY <1>1, <3>1 DEF Job
        <3> QED
            BY <1>1, <2>4, <3>1, <3>2, <3>3
    <2> QED
        BY <1>3, <2>0, <2>5, <2>6, <2>7, <2>8 DEF TakePolicy
<1> QED
    BY <1>2, <1>3

LEMMA BudgetPassOn ==
    ASSUME TypeInv, TypeInv', BudgetInv,
           TakeMember \/ TakeCoordinator \/ ScreenRead \/ StillBlocked \/ LeftBlocked
             \/ ExplainAnswered
    PROVE  BudgetInv'
<1>1. KeepAwakeTypeOK
    BY DEF TypeInv
<1>2. ASSUME job.policy \in Policy, job' = Taken(job.policy), Carried
      PROVE  BudgetInv'
    <2>1. /\ RowsPaid'
          /\ \A q \in Policy, n \in Nat : PaidBy(q, n) => PaidBy(q, n)'
        BY <1>2, AccountsCarried DEF BudgetInv
    <2> QED
        BY <1>2, <2>1, BudgetTaken
<1>3. CASE TakeMember
    <2>1. job.at = "members" /\ job.policy \in Policy
        BY <1>3, TakeMemberMoves, LevelType
    <2>2. Level(job) = job.used
        BY <2>1 DEF BudgetInv, PassWithin, Level
    <2>3. CASE Moved("members") /\ UNCHANGED <<policy, sent, late>>
        BY <2>1, <2>3, NothingWritten, BudgetMoved DEF Acting
    <2>4. CASE Moved("reading") /\ HasBudget(job.used) /\ UNCHANGED <<policy, sent, late>>
        BY <2>1, <2>2, <2>4, NothingWritten, BudgetMoved DEF Acting, HasBudget
    <2>5. CASE StopPolicy(job.policy, "exhausted") /\ job' = Taken(job.policy)
        BY <1>1, <1>2, <2>1, <2>5, StopEffect
    <2> QED
        BY <1>3, <2>3, <2>4, <2>5, TakeMemberMoves
<1>4. CASE TakeCoordinator
    <2>1. job.at = "members" /\ job.policy \in Policy
        BY <1>4, TakeCoordinatorMoves, LevelType
    <2>2. CASE StopPolicy(job.policy, "exhausted") /\ job' = Taken(job.policy)
        BY <1>1, <1>2, <2>1, <2>2, StopEffect
    <2>3. CASE /\ Moved("waking") /\ HasBudget(job.policy.used) /\ ~job.acted
               /\ UNCHANGED <<policy, sent, late>>
        <3>1. Level(job) = job.policy.used
            BY <2>1, <2>3 DEF BudgetInv, PassWithin, Level
        <3> QED
            BY <2>1, <2>3, <3>1, NothingWritten, BudgetMoved DEF Acting, HasBudget
    <2>4. CASE job' = Taken(job.policy) /\ UNCHANGED <<policy, sent, late>>
        BY <1>2, <2>1, <2>4, NothingWritten
    <2> QED
        BY <1>4, <2>2, <2>3, <2>4, TakeCoordinatorMoves
<1>5. CASE ScreenRead \/ StillBlocked \/ LeftBlocked \/ ExplainAnswered
    <2>1. job.at \in Acting /\ job.policy \in Policy
        BY <1>5, DialogMoves, LevelType
    <2>2. Level(job) < MaxWakes
        BY <2>1 DEF BudgetInv, PassWithin
    <2>3. CASE job' = DialogLeft /\ UNCHANGED <<policy, sent, late>>
        BY <2>1, <2>3, BudgetDialogLeft
    <2>4. CASE /\ job.at \in {"reading", "confirming"}
               /\ \/ Moved("confirming")
                  \/ Moved("pressing")
               /\ UNCHANGED <<policy, sent, late>>
        BY <2>1, <2>2, <2>4, NothingWritten, BudgetMoved DEF Acting
    <2>5. CASE /\ job.at = "leaving"
               /\ \/ Moved("leaving")
                  \/ Moved("explaining")
               /\ UNCHANGED <<policy, sent, late>>
        BY <2>1, <2>2, <2>5, NothingWritten, BudgetMoved DEF Acting
    <2>6. CASE /\ job' = Taken(job.policy)
               /\ \E cause \in Causes : StopPolicy(job.policy, cause)
        BY <1>1, <1>2, <2>1, <2>6, StopEffect
    <2> QED
        BY <1>5, <2>3, <2>4, <2>5, <2>6, DialogMoves
<1> QED
    BY <1>3, <1>4, <1>5

LEMMA BudgetCounted ==
    ASSUME TypeInv, TypeInv', BudgetInv, WakeAnswered \/ EscapePressed
    PROVE  BudgetInv'
<1> DEFINE p == job.policy
<1>1. /\ job.at \in {"waking", "pressing"} /\ job.at \in Acting /\ p \in Policy
      /\ Level(job) \in Nat /\ job.todo \in SUBSET Policy
    BY CountedMoves, LevelType DEF Acting, TypeInv, KeepAwakeTypeOK, Job
<1>2. Level(job) < MaxWakes /\ PaidBy(p, Level(job))
    BY <1>1 DEF BudgetInv, PassWithin, PassPaid
<1>3. CASE /\ Counted
           /\ \/ job' = Taken(p)
              \/ Moved("leaving")
    <2>1. /\ RowsPaid' /\ (IsCurrent(p) => sent'[p.target] <= Level(job) + 1)
          /\ \A q \in Policy : IsCurrent(q)' => IsCurrent(q)
          /\ \A q \in Policy, m \in Nat :
               q.target # p.target /\ PaidBy(q, m) => PaidBy(q, m)'
        BY <1>1, <1>2, <1>3, AccountsCounted DEF BudgetInv
    <2>2. \A q \in job.todo \ {p} : q.target # p.target /\ q.used \in Nat
        BY <1>1 DEF BudgetInv, OnePolicyEach, Policy
    <2>3. CASE job' = Taken(p)
        BY <1>1, <2>1, <2>2, <2>3, BudgetTaken
    <2>4. CASE Moved("leaving")
        <3>1. /\ job'.at = "leaving" /\ job'.todo = job.todo /\ job'.policy = p
              /\ job'.used = job.used /\ Level(job') = Level(job)
            BY <2>4 DEF Moved, Level
        <3>2. TodoPaid'
            BY <1>1, <2>1, <2>2, <3>1 DEF BudgetInv, TodoPaid
        <3>3. OnePolicyEach'
            BY <3>1 DEF BudgetInv, OnePolicyEach
        <3>4. PassWithin(job')
            BY <1>2, <3>1 DEF PassWithin
        <3>5. PassPaid'
            <4>1. IsCurrent(p)' => sent'[p.target] <= Level(job) + 1
                BY <1>1, <2>1, <3>1 DEF IsCurrent
            <4> QED
                BY <3>1, <4>1 DEF PassPaid, PaidBy
        <3> QED
            BY <2>1, <3>2, <3>3, <3>4, <3>5 DEF BudgetInv
    <2> QED
        BY <1>3, <2>3, <2>4
<1>4. CASE /\ UNCHANGED <<policy, sent, late>>
           /\ job' = DialogLeft \/ job' = Taken(p)
    <2>1. CASE job' = DialogLeft
        BY <1>1, <1>4, <2>1, BudgetDialogLeft
    <2>2. CASE job' = Taken(p)
        <3>1. /\ RowsPaid'
              /\ \A q \in Policy, n \in Nat : PaidBy(q, n) => PaidBy(q, n)'
            BY <1>4, NothingWritten, AccountsCarried DEF BudgetInv
        <3> QED
            BY <2>2, <3>1, BudgetTaken
    <2> QED
        BY <1>4, <2>1, <2>2
<1> QED
    BY <1>3, <1>4, CountedMoves

LEMMA BudgetStep == TypeInv /\ TypeInv' /\ BudgetInv /\ [KeepAwakeNext]_vars => BudgetInv'
<1> SUFFICES ASSUME TypeInv, TypeInv', BudgetInv, [KeepAwakeNext]_vars
             PROVE  BudgetInv'
    OBVIOUS
<1>1. CASE Tick \/ PanesArrive
    BY <1>1, BudgetPanes
<1>2. CASE PanesFail \/ HubRestarts
    BY <1>2, BudgetRest DEF PanesFail, HubRestarts, dbVars
<1>3. CASE TakePolicy
    BY <1>3, BudgetTakePolicy
<1>4. CASE TakeMember \/ TakeCoordinator \/ ScreenRead \/ StillBlocked \/ LeftBlocked
             \/ ExplainAnswered
    BY <1>4, BudgetPassOn
<1>5. CASE WakeAnswered \/ EscapePressed
    BY <1>5, BudgetCounted
<1>6. CASE \/ Requests \/ TimePasses \/ UNCHANGED vars
           \/ \E a \in Agents, s \in Shown : PaneChanges(a, s)
    BY <1>6, StepsBeside, BudgetBeside
<1> QED
    BY <1>1, <1>2, <1>3, <1>4, <1>5, <1>6 DEF KeepAwakeNext, PassStep

(* Herdr reports no more prompts and keys done for a policy than its       *)
(* budget allows, whatever is replaced, stopped or resumed meanwhile.      *)
THEOREM BudgetAlways == KeepAwakeSpec => []BudgetHolds
<1>1. BudgetInv => BudgetHolds
    BY DEF BudgetInv, RowsPaid, BudgetHolds
<1> QED
    BY <1>1, TypeInit, TypeStep, BudgetInit, BudgetStep, PTL DEF KeepAwakeSpec

-----------------------------------------------------------------------------
(* A pass goes on to its end.                                              *)

(* The policy that is handled still counts among those to handle.          *)
TakenIsListed == job.policy # None => job.policy \in job.todo

(* How far a policy is handled: its loop over members and their dialogs    *)
(* comes before its coordinator.                                           *)
Stage(at) ==
    CASE at = "policies" -> 2
      [] at \in {"members"} \union (Acting \ {"waking"}) -> 1
      [] OTHER -> 0

(* The awaits still to come for one dialog.                                *)
DialogAwaits(pass) ==
    CASE pass.at = "reading"    -> Checks + 5
      [] pass.at = "confirming" -> Checks + 4
      [] pass.at = "pressing"   -> Checks + 3
      [] pass.at = "leaving"    -> Checks + 2 - pass.checks
      [] pass.at = "explaining" -> 1
      [] OTHER                  -> 0

PassEnds ==
    /\ job' = Rest
    /\ job.at \in {"panes", "policies"} /\ (job.at = "policies" => job.todo = {})

PanesTaken == job.at = "panes" /\ job'.at = "policies" /\ job'.todo = job.todo

PolicyHandled == job'.at = "policies" /\ \E p \in job.todo : job'.todo = job.todo \ {p}

(* The next stage; or one blocked member less; or, for a dialog, one await *)
(* less.                                                                   *)
HandlingAdvances ==
    /\ job'.todo = job.todo
    /\ \/ Stage(job'.at) < Stage(job.at)
       \/ /\ Stage(job'.at) = Stage(job.at)
          /\ job'.blocked \subseteq job.blocked
          /\ job'.blocked # job.blocked \/ DialogAwaits(job') < DialogAwaits(job)

PassMovesOn ==
    /\ PassStep => PassEnds \/ PanesTaken \/ PolicyHandled \/ HandlingAdvances
    /\ ~PassStep => \/ job' = job
                    \/ job.at = "rest" /\ job'.at = "panes" /\ job'.todo = KeepAwakePolicies
                    \/ job' = Rest /\ inputs' = inputs + 1

Onward == (PassEnds \/ PanesTaken \/ PolicyHandled \/ HandlingAdvances) /\ TakenIsListed'

LEMMA TakenPolicy ==
    ASSUME TypeInv, TakenIsListed, job.at \in {"members"} \union Acting
    PROVE  job.policy \in job.todo
    BY DEF TypeInv, Sound, TakenIsListed

LEMMA TakenOnward ==
    ASSUME TypeInv, NEW p \in job.todo, job' = Taken(p)
    PROVE  Onward
<1>1. /\ job'.at = "policies" /\ job'.policy = None
      /\ job'.todo = job.todo \ {p}
    BY TakenOK DEF TypeInv, KeepAwakeTypeOK
<1> QED
    BY <1>1 DEF Onward, PolicyHandled, TakenIsListed

(* A dialog that is over leaves the loop of its channel as it was.         *)
LEMMA DialogLeftOnward ==
    ASSUME TypeInv, TakenIsListed, job.at \in Acting \ {"waking"}, job' = DialogLeft
    PROVE  Onward
<1>1. job \in Job /\ job.policy \in job.todo
    BY TakenPolicy DEF TypeInv, KeepAwakeTypeOK
<1>2. CASE job.policy.target \in Agents
    BY <1>1, <1>2, TakenOnward DEF DialogLeft, ToPolicies
<1>3. CASE job.policy.target \notin Agents
    <2>1. job' = [job EXCEPT !.at = "members", !.agent = None, !.used = @ + 1, !.acted = TRUE,
                             !.checks = 0]
        BY <1>3 DEF DialogLeft
    <2>2. /\ job'.at = "members" /\ job'.todo = job.todo /\ job'.policy = job.policy
          /\ job'.blocked = job.blocked
        BY <1>1, <2>1 DEF Job
    <2>3. Stage(job'.at) = 1 /\ Stage(job.at) = 1 /\ DialogAwaits(job') = 0
        BY <2>2 DEF Stage, DialogAwaits, Acting
    <2>4. DialogAwaits(job) > 0
        BY <1>1 DEF DialogAwaits, Acting, Job, CheckCounts
    <2> QED
        BY <1>1, <2>2, <2>3, <2>4 DEF Onward, HandlingAdvances, TakenIsListed
<1> QED
    BY <1>2, <1>3

LEMMA TakePolicyOnward ==
    ASSUME TypeInv, TakenIsListed, TakePolicy
    PROVE  Onward
<1>1. job \in Job /\ job.at = "policies"
    BY DEF TypeInv, KeepAwakeTypeOK, TakePolicy
<1>2. CASE job.todo = {}
    BY <1>1, <1>2 DEF TakePolicy, Onward, PassEnds, TakenIsListed, Rest
<1>3. CASE job.todo # {}
    <2> DEFINE p == NextPolicy
    <2>1. p \in job.todo
        BY <1>1, <1>3, NextPolicyType
    <2>2. CASE job' = Taken(p)
        BY <2>1, <2>2, TakenOnward
    <2>3. CASE WatchAgent(p) /\ job' # Taken(p)
        <3>1. PICK to \in {"reading", "waking"} :
                  job' = [job EXCEPT !.at = to, !.policy = p, !.agent = p.target]
            BY <2>3 DEF WatchAgent
        <3>2. job'.at = to /\ job'.policy = p /\ job'.todo = job.todo
            BY <1>1, <3>1 DEF Job
        <3>3. Stage(job'.at) < Stage(job.at)
            BY <1>1, <3>2 DEF Stage, Acting
        <3> QED
            BY <2>1, <3>2, <3>3 DEF Onward, HandlingAdvances, TakenIsListed
    <2>4. CASE WatchChannel(p)
        <3>1. PICK live, blocked, used :
                  job' = [job EXCEPT !.at = "members", !.policy = p, !.live = live,
                                     !.blocked = blocked, !.used = used]
            BY <2>4 DEF WatchChannel
        <3>2. job'.at = "members" /\ job'.policy = p /\ job'.todo = job.todo
            BY <1>1, <3>1 DEF Job
        <3>3. Stage(job'.at) < Stage(job.at)
            BY <1>1, <3>2 DEF Stage, Acting
        <3> QED
            BY <2>1, <3>2, <3>3 DEF Onward, HandlingAdvances, TakenIsListed
    <2> QED
        BY <1>3, <2>2, <2>3, <2>4 DEF TakePolicy, ResumePolicy, SkipPolicy
<1> QED
    BY <1>2, <1>3

LEMMA MembersOnward ==
    ASSUME TypeInv, TakenIsListed, TakeMember \/ TakeCoordinator
    PROVE  Onward
<1>1. job \in Job /\ job.at = "members" /\ job.policy \in job.todo
    BY TakenPolicy DEF TypeInv, KeepAwakeTypeOK, TakeMember, TakeCoordinator
<1>2. CASE job' = ToPolicies
    BY <1>1, <1>2, TakenOnward DEF ToPolicies
<1>3. CASE TakeMember /\ job' # ToPolicies
    <2>1. PICK a \in job.blocked :
              \/ job' = [job EXCEPT !.blocked = job.blocked \ {a}]
              \/ job' = [job EXCEPT !.blocked = job.blocked \ {a}, !.at = "reading", !.agent = a]
        BY <1>3 DEF TakeMember
    <2>2. /\ job'.at \in {"members", "reading"} /\ job'.todo = job.todo
          /\ job'.policy = job.policy /\ job'.blocked = job.blocked \ {a}
        BY <1>1, <2>1 DEF Job
    <2>3. Stage(job'.at) = Stage(job.at)
        BY <1>1, <2>2 DEF Stage, Acting
    <2> QED
        BY <1>1, <2>2, <2>3 DEF Onward, HandlingAdvances, TakenIsListed
<1>4. CASE TakeCoordinator /\ job' # ToPolicies
    <2>1. job' = [job EXCEPT !.at = "waking", !.agent = job.policy.coordinator]
        BY <1>4 DEF TakeCoordinator
    <2>2. job'.at = "waking" /\ job'.todo = job.todo /\ job'.policy = job.policy
        BY <1>1, <2>1 DEF Job
    <2>3. Stage(job'.at) < Stage(job.at)
        BY <1>1, <2>2 DEF Stage, Acting
    <2> QED
        BY <1>1, <2>2, <2>3 DEF Onward, HandlingAdvances, TakenIsListed
<1> QED
    BY <1>2, <1>3, <1>4

(* The awaits of a dialog follow one another.                              *)
LEMMA AwaitOnward ==
    ASSUME TypeInv, TakenIsListed, NEW to,
           \/ job.at = "reading" /\ to = "confirming"
           \/ job.at = "confirming" /\ to = "pressing"
           \/ job.at = "pressing" /\ to = "leaving"
           \/ job.at = "leaving" /\ to = "explaining",
           job' = [job EXCEPT !.at = to]
    PROVE  Onward
<1>1. job \in Job /\ job.checks \in 0..Checks
    BY DEF TypeInv, KeepAwakeTypeOK, Job, CheckCounts
<1>2. /\ job'.at = to /\ job'.todo = job.todo /\ job'.policy = job.policy
      /\ job'.blocked = job.blocked /\ job'.checks = job.checks
    BY <1>1 DEF Job
<1>3. Stage(job'.at) = 1 /\ Stage(job.at) = 1
    BY <1>2 DEF Stage, Acting
<1>4. DialogAwaits(job') < DialogAwaits(job)
    BY <1>1, <1>2 DEF DialogAwaits
<1> QED
    BY <1>2, <1>3, <1>4 DEF Onward, HandlingAdvances, TakenIsListed

LEMMA ActingOnward ==
    ASSUME TypeInv, TakenIsListed,
           WakeAnswered \/ ScreenRead \/ StillBlocked \/ EscapePressed \/ LeftBlocked
           \/ ExplainAnswered
    PROVE  Onward
<1>1. job \in Job /\ job.at \in Acting
    BY DEF TypeInv, KeepAwakeTypeOK, Acting, WakeAnswered, ScreenRead, StillBlocked,
           EscapePressed, LeftBlocked, ExplainAnswered
<1>2. CASE job' = ToPolicies
    BY <1>1, <1>2, TakenPolicy, TakenOnward DEF ToPolicies
<1>3. CASE ScreenRead \/ StillBlocked \/ EscapePressed \/ ExplainAnswered
    <2>1. /\ job.at \in Acting \ {"waking"}
          /\ \/ job' = DialogLeft \/ job' = ToPolicies
             \/ job.at = "reading" /\ job' = [job EXCEPT !.at = "confirming"]
             \/ job.at = "confirming" /\ job' = [job EXCEPT !.at = "pressing"]
             \/ job.at = "pressing" /\ job' = [job EXCEPT !.at = "leaving"]
        BY <1>3 DEF ScreenRead, StillBlocked, EscapePressed, ExplainAnswered, Acting
    <2> QED
        BY <1>2, <2>1, DialogLeftOnward, AwaitOnward
<1>4. CASE LeftBlocked
    <2>1. /\ job.at = "leaving"
          /\ \/ job' = [job EXCEPT !.at = "explaining"]
             \/ job' = ToPolicies
             \/ /\ job.checks + 1 < Checks
                /\ job' = [job EXCEPT !.checks = job.checks + 1]
        BY <1>4 DEF LeftBlocked
    <2>2. CASE /\ job.checks + 1 < Checks
               /\ job' = [job EXCEPT !.checks = job.checks + 1]
        <3>1. job.checks \in Nat
            BY <1>1 DEF Job, CheckCounts
        <3>2. /\ job'.at = "leaving" /\ job'.todo = job.todo /\ job'.policy = job.policy
              /\ job'.blocked = job.blocked /\ job'.checks = job.checks + 1
            BY <1>1, <2>1, <2>2 DEF Job
        <3>3. DialogAwaits(job') < DialogAwaits(job)
            BY <2>1, <3>1, <3>2 DEF DialogAwaits
        <3> QED
            BY <2>1, <3>2, <3>3 DEF Onward, HandlingAdvances, TakenIsListed
    <2> QED
        BY <1>2, <2>1, <2>2, AwaitOnward
<1>5. CASE WakeAnswered
    BY <1>2, <1>5 DEF WakeAnswered
<1> QED
    BY <1>3, <1>4, <1>5

LEMMA PassOnward ==
    ASSUME TypeInv, TakenIsListed, PassStep
    PROVE  Onward
<1>1. job \in Job
    BY DEF TypeInv, KeepAwakeTypeOK
<1>2. CASE PanesArrive
    <2>1. PICK untold : job' = [job EXCEPT !.at = "policies", !.pending = untold]
        BY <1>2 DEF PanesArrive
    <2>2. job'.at = "policies" /\ job'.todo = job.todo /\ job'.policy = job.policy
        BY <1>1, <2>1 DEF Job
    <2> QED
        BY <1>2, <2>2 DEF PanesArrive, Onward, PanesTaken, TakenIsListed
<1>3. CASE PanesFail
    BY <1>3 DEF PanesFail, Onward, PassEnds, TakenIsListed, Rest
<1> QED
    BY <1>2, <1>3, TakePolicyOnward, MembersOnward, ActingOnward DEF PassStep

LEMMA OthersLeavePass ==
    ASSUME TypeInv, TakenIsListed, KeepAwakeNext \/ UNCHANGED vars, ~PassStep
    PROVE  /\ \/ job' = job
              \/ job.at = "rest" /\ job'.at = "panes" /\ job'.todo = KeepAwakePolicies
              \/ job' = Rest /\ inputs' = inputs + 1
           /\ TakenIsListed'
<1>1. CASE Tick
    <2>1. \/ job' = job
          \/ job.at = "rest" /\ job' = [Rest EXCEPT !.at = "panes", !.todo = KeepAwakePolicies]
        BY <1>1 DEF Tick
    <2> QED
        BY <2>1 DEF Rest, TakenIsListed
<1>2. CASE HubRestarts
    BY <1>2 DEF HubRestarts, Input, Rest, TakenIsListed
<1>3. CASE \/ Requests \/ TimePasses \/ UNCHANGED vars
           \/ \E a \in Agents, s \in Shown : PaneChanges(a, s)
    <2>1. job' = job
        BY <1>3, StepsBeside DEF Beside
    <2> QED
        BY <2>1 DEF TakenIsListed
<1> QED
    BY <1>1, <1>2, <1>3 DEF KeepAwakeNext

(* The safety half of NobodyIsNeglected and AnswerResumes (watch,          *)
(* watchAgent, watchChannel): each step of a pass handles one policy more, *)
(* or comes nearer to that, member by member and await by await; a pass    *)
(* whose panes were listed ends only when every policy that it read has    *)
(* been handled; and nothing beside the pass touches it, but a restart.    *)
THEOREM PassAlwaysMovesOn == KeepAwakeSpec => [][PassMovesOn]_vars
<1>1. KeepAwakeInit => TakenIsListed
    BY DEF KeepAwakeInit, TakenIsListed, Rest
<1>2. TypeInv /\ TakenIsListed /\ [KeepAwakeNext]_vars => [PassMovesOn]_vars /\ TakenIsListed'
    BY PassOnward, OthersLeavePass DEF Onward, PassMovesOn
<1> QED
    BY TypeInit, TypeStep, <1>1, <1>2, PTL DEF KeepAwakeSpec

=============================================================================
