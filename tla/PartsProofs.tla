---------------------------- MODULE PartsProofs ----------------------------
(***************************************************************************)
(* Theorems about the parts that share no state, for any values of their   *)
(* constants: the lock of the hub, the topology watcher, the models of a   *)
(* launcher, the drafts of the web client and the pages of a transcript.   *)
(***************************************************************************)
EXTENDS MCParts, FiniteSetTheorems, WellFoundedInduction, TLAPS

-----------------------------------------------------------------------------
(* The lock of the hub, for any number of processes, when starts do not    *)
(* overlap.  The inductive invariant says what a start knows at each of    *)
(* its steps: before it creates a file the file is not its own, once it    *)
(* decided to remove the file nobody runs, and from then on the file is    *)
(* its own.                                                                *)

OneStarts == \A h, o \in Hubs : (at[h] \in Starting /\ at[o] \in Starting) => h = o

NotYetOwner ==
    \A h \in Hubs : at[h] \in {"new"} \union (Starting \ {"writing", "opening"}) =>
        file.by # h /\ file.pid # h /\ (at[h] = "checking" => holder[h] # h)

OwnerHolds ==
    \A h \in Hubs :
        /\ at[h] = "writing" => file = [by |-> h, pid |-> NoPid]
        /\ at[h] \in {"opening", "running"} => file = [by |-> h, pid |-> h]

StartKnows ==
    \A h \in Hubs :
        /\ at[h] = "checking" => \A o \in Running : holder[h] = o
        /\ at[h] \in {"removing", "recreating"} => Running = {}
        /\ at[h] = "recreating" => file = NoFile

LockInv ==
    /\ HubLockTypeOK
    /\ OneStarts
    /\ NotYetOwner
    /\ OwnerHolds
    /\ StartKnows

LEMMA LockInitInv == HubLockInit => LockInv
    BY HubLockAssumption
    DEF HubLockInit, LockInv, HubLockTypeOK, OneStarts, NotYetOwner, OwnerHolds,
        StartKnows, Steps, Starting, NoFile, Running

LEMMA LockNextInv ==
    ASSUME ~Overlap, LockInv, [HubLockNext]_lockVars
    PROVE  LockInv'
<1> USE HubLockAssumption
    DEF LockInv, HubLockTypeOK, OneStarts, NotYetOwner, OwnerHolds, StartKnows, Steps,
        Starting, NoFile, File, Running, Goes
<1>1. ASSUME NEW h \in Hubs, Start(h)
      PROVE  LockInv'
    BY <1>1 DEF Start
<1>2. ASSUME NEW h \in Hubs, Create(h, "creating", "reading")
      PROVE  LockInv'
    BY <1>2 DEF Create
<1>3. ASSUME NEW h \in Hubs, WritePid(h)
      PROVE  LockInv'
    BY <1>3 DEF WritePid
<1>4. ASSUME NEW h \in Hubs, ReadHolder(h)
      PROVE  LockInv'
    BY <1>4 DEF ReadHolder
<1>5. ASSUME NEW h \in Hubs, CheckHolder(h)
      PROVE  LockInv'
    BY <1>5 DEF CheckHolder, HolderLives, Alive
<1>6. ASSUME NEW h \in Hubs, RemoveFile(h)
      PROVE  LockInv'
    BY <1>6 DEF RemoveFile
<1>7. ASSUME NEW h \in Hubs, Create(h, "recreating", "refused")
      PROVE  LockInv'
    BY <1>7 DEF Create
<1>8. ASSUME NEW h \in Hubs, Opens(h)
      PROVE  LockInv'
    BY <1>8 DEF Opens
<1>9. ASSUME NEW h \in Hubs, OpenFails(h)
      PROVE  LockInv'
    BY <1>9 DEF OpenFails
<1>10. ASSUME NEW h \in Hubs, Stops(h)
       PROVE  LockInv'
    BY <1>10 DEF Stops
<1>11. ASSUME NEW h \in Hubs, Ends(h)
       PROVE  LockInv'
    BY <1>11 DEF Ends, Alive
<1>12. CASE UNCHANGED lockVars
    BY <1>12 DEF lockVars
<1> QED
    BY <1>1, <1>2, <1>3, <1>4, <1>5, <1>6, <1>7, <1>8, <1>9, <1>10, <1>11, <1>12
    DEF HubLockNext

LEMMA LockSpecInv ==
    ASSUME ~Overlap
    PROVE  HubLockSpec => []LockInv
<1>1. LockInv /\ [HubLockNext]_lockVars => LockInv'
    BY LockNextInv
<1> QED
    BY <1>1, LockInitInv, PTL DEF HubLockSpec

(* When starts do not overlap, the lock file and every start's reading of  *)
(* it stay well typed (lock.ts).                                           *)
THEOREM HubLockTypeCorrect ==
    ASSUME ~Overlap
    PROVE  HubLockSpec => []HubLockTypeOK
<1>1. LockInv => HubLockTypeOK
    BY DEF LockInv
<1> QED
    BY <1>1, LockSpecInv, PTL

(* When starts do not overlap, two hubs never serve one database at once,  *)
(* whatever stops and crashes interleave with a start (lock.ts).           *)
THEOREM OneHubServes ==
    ASSUME ~Overlap
    PROVE  HubLockSpec => []OneHub
<1>1. LockInv => OneHub
    BY HubLockAssumption DEF LockInv, OwnerHolds, OneHub, Running
<1> QED
    BY <1>1, LockSpecInv, PTL

(* When starts do not overlap, the lock file names the hub that runs, so   *)
(* that `sheppard stop` finds it (activeHubPid).                           *)
THEOREM RunningHubAlwaysNamed ==
    ASSUME ~Overlap
    PROVE  HubLockSpec => []RunningHubIsNamed
<1>1. LockInv => RunningHubIsNamed
    BY DEF LockInv, OwnerHolds, RunningHubIsNamed, Running
<1> QED
    BY <1>1, LockSpecInv, PTL

(* When starts do not overlap, a crash at any point leaves nothing that    *)
(* refuses the next start: only a living process does (acquireHubLock).    *)
THEOREM CrashNeverLocksOut ==
    ASSUME ~Overlap
    PROVE  HubLockSpec => RefusedForTheLiving
<1>1. ASSUME LockInv, [HubLockNext]_lockVars, NEW h \in Hubs,
             at[h] # "refused", at'[h] = "refused"
      PROVE  \E o \in Hubs \ {h} : Alive(o)
    <2> USE DEF LockInv, HubLockTypeOK, Goes
    <2>1. PICK o \in Hubs :
             \/ CheckHolder(o)
             \/ Create(o, "recreating", "refused")
        BY <1>1 DEF HubLockNext, Start, Create, WritePid, ReadHolder, RemoveFile, Opens,
                    OpenFails, Stops, Ends, lockVars, Steps, Starting
    <2>2. CASE CheckHolder(o)
        <3>1. o = h /\ at[h] = "checking" /\ HolderLives(h)
            BY <1>1, <2>2 DEF CheckHolder
        <3>2. holder[h] # h /\ holder[h] \in Hubs /\ Alive(holder[h])
            BY <1>1, <3>1 DEF HolderLives, NotYetOwner, Starting
        <3> QED
            BY <3>2
    <2>3. CASE Create(o, "recreating", "refused")
        BY <1>1, <2>3 DEF Create, StartKnows
    <2> QED
        BY <2>1, <2>2, <2>3
<1>2. LockInv /\ [HubLockNext]_lockVars =>
        [\A h \in Hubs : (at[h] # "refused" /\ at'[h] = "refused") =>
            \E o \in Hubs \ {h} : Alive(o)]_lockVars
    BY <1>1
<1> QED
    BY <1>2, LockSpecInv, PTL DEF HubLockSpec, RefusedForTheLiving

-----------------------------------------------------------------------------
(* The topology watcher never believes that it watches Herdr when it does  *)
(* not, however often Herdr changes or goes down.  The inductive invariant *)
(* adds to WatchedSocketIsOurs that no attempt to subscribe is under way   *)
(* beside a subscription, and that an open socket whose answer has just    *)
(* come is the one that the attempt under way asked for and got.           *)

WatchTypes ==
    /\ generation \in Nat
    /\ retry \in Nat
    /\ socket \in [state : {"open", "closed"}, gen : Nat]
    /\ connect.gen \in Nat

OneAttempt ==
    /\ subscribed => connect.at = "idle"
    /\ Settling /\ socket.state = "open" => socket.gen = connect.gen /\ connect.ok

WatchInv == WatchTypes /\ OneAttempt /\ WatchedSocketIsOurs

LEMMA WatchInitInv == TopologyInit => WatchInv
<1> SUFFICES ASSUME TopologyInit PROVE WatchInv
    OBVIOUS
<1>1. /\ generation = 1 /\ retry = 0 /\ subscribed = FALSE /\ stopped = FALSE
      /\ socket = NoSocket /\ connect.gen = 1 /\ connect.at = "listing"
    BY DEF TopologyInit
<1>2. WatchTypes
    BY <1>1 DEF WatchTypes, NoSocket
<1>3. OneAttempt /\ WatchedSocketIsOurs
    BY <1>1 DEF OneAttempt, WatchedSocketIsOurs, NoSocket, Settling
<1> QED
    BY <1>2, <1>3 DEF WatchInv

(* Steps that leave the subscription alone.                                *)
LEMMA WatchUntouched ==
    ASSUME WatchInv, stopped' = stopped, generation' = generation,
           retry' = retry, socket' = socket, connect' = connect,
           subscribed' = subscribed
    PROVE  WatchInv'
    BY DEF WatchInv, WatchTypes, OneAttempt, WatchedSocketIsOurs, Settling

(* An attempt that starts, or does not, carries a generation.              *)
LEMMA ConnectingType ==
    ASSUME NEW gen \in Nat, NEW busy
    PROVE  /\ Connecting(gen, busy).gen \in Nat
           /\ Connecting(gen, busy).at # "answered"
           /\ busy => Connecting(gen, busy).at = "idle"
    BY DEF Connecting, NoConnect

LEMMA WatchNextInv ==
    ASSUME WatchInv, [TopologyNext]_topologyVars
    PROVE  WatchInv'
<1> USE DEF WatchInv, WatchTypes, OneAttempt, WatchedSocketIsOurs, Settling
<1>1. ASSUME Tick \/ RequestRefreshes \/ RefreshReads \/ HerdrChanges
             \/ HerdrGoesDown \/ HerdrComesBack \/ EventArrives
      PROVE  WatchInv'
    BY <1>1, WatchUntouched
    DEF Tick, RequestRefreshes, RefreshReads, HerdrChanges, HerdrGoesDown,
        HerdrComesBack, EventArrives, watchVars
<1>2. CASE RefreshEnds
    <2>1. CASE renewing = 0 \/ renewing # generation \/ stopped
        BY <1>2, <2>1, WatchUntouched DEF RefreshEnds, watchVars
    <2>2. CASE ~(renewing = 0 \/ renewing # generation \/ stopped)
        <3>1. /\ generation' = generation + 1 /\ ~subscribed'
              /\ retry' = retry
              /\ connect.at # "answered"
            BY <1>2, <2>2 DEF RefreshEnds
        <3>2. connect'.gen \in Nat /\ connect'.at # "answered"
            <4>1. CASE connect.at = "idle"
                <5>1. connect' = Connecting(generation', FALSE)
                    BY <1>2, <2>2, <4>1 DEF RefreshEnds
                <5>2. generation' \in Nat
                    BY <3>1
                <5> QED
                    BY <5>1, <5>2, ConnectingType
            <4>2. CASE connect.at # "idle"
                <5>1. connect' = connect
                    BY <1>2, <2>2, <4>2 DEF RefreshEnds
                <5> QED
                    BY <3>1, <5>1
            <4> QED
                BY <4>1, <4>2
        <3>3. socket'.state = "closed" /\ socket' \in [state : {"open", "closed"}, gen : Nat]
            <4>1. CASE subscribed
                <5>1. socket' = NoSocket
                    BY <1>2, <2>2, <4>1 DEF RefreshEnds
                <5> QED
                    BY <5>1 DEF NoSocket
            <4>2. CASE ~subscribed
                <5>1. socket' = socket
                    BY <1>2, <2>2, <4>2 DEF RefreshEnds
                <5> QED
                    BY <3>1, <4>2, <5>1
            <4> QED
                BY <4>1, <4>2
        <3> QED
            BY <3>1, <3>2, <3>3
    <2> QED
        BY <2>1, <2>2
<1>3. CASE ConnectLists
    BY <1>3 DEF ConnectLists
<1>4. CASE SubscribeAnswers
    <2>1. PICK ok \in {FALSE, up} :
              /\ connect' = [connect EXCEPT !.at = "answered", !.ok = ok]
              /\ IF ok THEN socket' = [state |-> "open", gen |-> connect.gen] /\ wire' = <<>>
                       ELSE UNCHANGED <<socket, wire>>
        BY <1>4 DEF SubscribeAnswers
    <2>2. /\ connect'.gen = connect.gen /\ connect'.at = "answered"
          /\ ~subscribed /\ connect.at # "answered"
          /\ UNCHANGED <<generation, subscribed, retry, stopped>>
        BY <1>4, <2>1 DEF SubscribeAnswers
    <2>3. CASE ok
        <3>1. connect' = [connect EXCEPT !.at = "answered", !.ok = TRUE]
            BY <2>1, <2>3
        <3>2. connect'.ok
            BY <3>1
        <3> QED
            BY <2>1, <2>2, <2>3, <3>2
    <2>4. CASE ~ok
        BY <2>1, <2>2, <2>4
    <2> QED
        BY <2>3, <2>4
<1>5. CASE ConnectReturns
    <2>1. /\ generation' = generation /\ stopped' = stopped
          /\ connect.at = "answered" /\ ~subscribed
        BY <1>5 DEF ConnectReturns
    <2>2. CASE stopped \/ connect.gen # generation
        <3>1. /\ socket' = NoSocket /\ retry' = retry /\ subscribed' = subscribed
              /\ connect' = Connecting(generation', FALSE)
            BY <1>5, <2>2 DEF ConnectReturns
        <3>2. connect'.gen \in Nat /\ connect'.at # "answered"
            BY <2>1, <3>1, ConnectingType
        <3> QED
            BY <2>1, <3>1, <3>2 DEF NoSocket
    <2>3. CASE ~(stopped \/ connect.gen # generation)
        <3>1. socket' = socket /\ connect'.at = "idle" /\ connect'.gen = 0
            BY <1>5, <2>3 DEF ConnectReturns, NoConnect
        <3>2. CASE connect.ok /\ socket.state = "open"
            <4>1. retry' = retry
                BY <1>5, <2>3, <3>2 DEF ConnectReturns
            <4>2. subscribed'
                BY <1>5, <2>3, <3>2 DEF ConnectReturns
            <4>3. socket = [state |-> "open", gen |-> generation]
                BY <2>1, <2>3, <3>2
            <4> QED
                BY <2>1, <2>3, <3>1, <4>1, <4>2, <4>3
        <3>3. CASE ~(connect.ok /\ socket.state = "open")
            <4>1. subscribed' = subscribed /\ retry' = Scheduled(connect.gen)
                BY <1>5, <2>3, <3>3 DEF ConnectReturns
            <4>2. retry' \in Nat
                BY <4>1 DEF Scheduled
            <4>3. socket.state = "closed"
                BY <2>1, <2>3, <3>3
            <4> QED
                BY <2>1, <2>3, <3>1, <4>1, <4>2, <4>3
        <3> QED
            BY <3>2, <3>3
    <2> QED
        BY <2>2, <2>3
<1>6. CASE RetryFires
    <2>1. /\ generation' = generation /\ stopped' = stopped /\ retry' = 0
          /\ socket' = socket /\ subscribed' = subscribed /\ connect.at # "answered"
          /\ connect' = IF connect.at = "idle" THEN Connecting(retry, subscribed)
                        ELSE connect
        BY <1>6 DEF RetryFires
    <2>2. /\ connect'.gen \in Nat /\ connect'.at # "answered"
          /\ subscribed => connect'.at = "idle"
        BY <2>1, ConnectingType DEF NoConnect
    <2> QED
        BY <2>1, <2>2
<1>7. CASE SocketEnds
    BY <1>7 DEF SocketEnds, Ours, Scheduled
<1>8. CASE Stop
    BY <1>8 DEF Stop, NoSocket
<1>9. CASE UNCHANGED topologyVars
    BY <1>9, WatchUntouched DEF topologyVars
<1> QED
    BY <1>1, <1>2, <1>3, <1>4, <1>5, <1>6, <1>7, <1>8, <1>9 DEF TopologyNext

(* isWatching tells the truth, and no socket stays open that the hub does  *)
(* not own, for any number of changes and outages (topology.ts).           *)
THEOREM WatchingIsTrue == TopologySpec => []WatchedSocketIsOurs
<1>1. WatchInv /\ [TopologyNext]_topologyVars => WatchInv'
    BY WatchNextInv
<1>2. WatchInv => WatchedSocketIsOurs
    BY DEF WatchInv
<1> QED
    BY <1>1, <1>2, WatchInitInv, PTL DEF TopologySpec

(* What is left of an attempt to subscribe.                                *)
Awaits(attempt) ==
    CASE attempt.at = "listing"     -> 3
      [] attempt.at = "subscribing" -> 2
      [] attempt.at = "answered"    -> 1
      [] OTHER                      -> 0

StopInv ==
    /\ connect.at = "idle" => connect = NoConnect
    /\ stopped => retry = 0

WindsDown == stopped => stopped' /\ Awaits(connect') <= Awaits(connect)

LEMMA StopNextInv ==
    ASSUME StopInv, [TopologyNext]_topologyVars
    PROVE  StopInv' /\ WindsDown
<1> USE DEF StopInv, WindsDown, Awaits
<1>1. CASE \/ Tick \/ RequestRefreshes \/ RefreshReads \/ HerdrChanges \/ HerdrGoesDown
           \/ HerdrComesBack \/ EventArrives \/ UNCHANGED topologyVars
    <2>1. connect' = connect /\ retry' = retry /\ stopped' = stopped
        BY <1>1 DEF Tick, RequestRefreshes, RefreshReads, HerdrChanges, HerdrGoesDown,
                    HerdrComesBack, EventArrives, watchVars, topologyVars
    <2> QED
        BY <2>1
<1>2. CASE RefreshEnds
    <2>1. stopped' = stopped /\ retry' = retry
        BY <1>2 DEF RefreshEnds, watchVars
    <2>2. CASE stopped
        <3>1. connect' = connect
            BY <1>2, <2>2 DEF RefreshEnds, watchVars
        <3> QED
            BY <2>1, <3>1
    <2>3. CASE ~stopped
        <3>1. \/ connect' = connect
              \/ connect' = Connecting(generation', FALSE)
            BY <1>2 DEF RefreshEnds, watchVars
        <3> QED
            BY <2>1, <2>3, <3>1 DEF Connecting, NoConnect
    <2> QED
        BY <2>2, <2>3
<1>3. CASE ConnectLists
    <2>1. /\ connect.at = "listing" /\ connect' = [connect EXCEPT !.at = "subscribing"]
          /\ stopped' = stopped /\ retry' = retry
        BY <1>3 DEF ConnectLists
    <2>2. connect'.at = "subscribing" \/ connect' = connect
        BY <2>1
    <2> QED
        BY <2>1, <2>2
<1>4. CASE SubscribeAnswers
    <2>1. /\ connect.at = "subscribing"
          /\ \E ok \in {FALSE, up} : connect' = [connect EXCEPT !.at = "answered", !.ok = ok]
          /\ stopped' = stopped /\ retry' = retry
        BY <1>4 DEF SubscribeAnswers
    <2>2. connect'.at = "answered" \/ connect' = connect
        BY <2>1
    <2> QED
        BY <2>1, <2>2
<1>5. CASE ConnectReturns
    <2>1. connect.at = "answered" /\ stopped' = stopped
        BY <1>5 DEF ConnectReturns, Settling
    <2>2. CASE stopped
        <3>1. connect' = NoConnect /\ retry' = retry
            BY <1>5, <2>2 DEF ConnectReturns, Connecting
        <3> QED
            BY <2>1, <2>2, <3>1 DEF NoConnect
    <2>3. CASE ~stopped
        <3>1. connect' = NoConnect \/ connect' = Connecting(generation', FALSE)
            BY <1>5 DEF ConnectReturns
        <3> QED
            BY <2>1, <2>3, <3>1 DEF Connecting, NoConnect
    <2> QED
        BY <2>2, <2>3
<1>6. CASE RetryFires
    <2>1. ~stopped /\ stopped' = stopped
        BY <1>6 DEF RetryFires
    <2>2. connect' = connect \/ connect' = Connecting(retry, subscribed)
        BY <1>6 DEF RetryFires
    <2> QED
        BY <2>1, <2>2 DEF Connecting, NoConnect
<1>7. CASE SocketEnds
    <2>1. connect' = connect /\ stopped' = stopped /\ (stopped => retry' = retry)
        BY <1>7 DEF SocketEnds, Ours
    <2> QED
        BY <2>1
<1>8. CASE Stop
    BY <1>8 DEF Stop
<1> QED
    BY <1>1, <1>2, <1>3, <1>4, <1>5, <1>6, <1>7, <1>8 DEF TopologyNext

(* The safety of stop: no retry stays set and no subscription stands; the  *)
(* attempt under way only comes nearer to its end, at most three awaits    *)
(* away, and after it no socket is open and nothing starts again           *)
(* (topology.ts: stop, connectSubscription, restartSubscription).          *)
THEOREM StopWindsDown ==
    TopologySpec =>
        /\ [](stopped => /\ retry = 0 /\ ~subscribed
                         /\ connect.at = "idle" => connect = NoConnect /\ socket.state = "closed")
        /\ [][WindsDown]_topologyVars
<1>1. TopologyInit => StopInv
    BY DEF TopologyInit, StopInv
<1>2. StopInv /\ [TopologyNext]_topologyVars => StopInv' /\ [WindsDown]_topologyVars
    BY StopNextInv
<1>3. WatchInv /\ [TopologyNext]_topologyVars => WatchInv'
    BY WatchNextInv
<1>4. WatchInv /\ StopInv =>
        (stopped => /\ retry = 0 /\ ~subscribed
                    /\ connect.at = "idle" => connect = NoConnect /\ socket.state = "closed")
    <2> SUFFICES ASSUME WatchInv, StopInv, stopped
                 PROVE  /\ retry = 0 /\ ~subscribed
                        /\ connect.at = "idle" => connect = NoConnect /\ socket.state = "closed"
        OBVIOUS
    <2>1. retry = 0 /\ (connect.at = "idle" => connect = NoConnect)
        BY DEF StopInv
    <2>2. /\ ~subscribed
          /\ socket.state = "open" => connect.at = "answered"
          /\ socket.state \in {"open", "closed"}
        BY DEF WatchInv, WatchTypes, WatchedSocketIsOurs, Settling
    <2> QED
        BY <2>1, <2>2
<1> QED
    BY <1>1, <1>2, <1>3, <1>4, WatchInitInv, PTL DEF TopologySpec

-----------------------------------------------------------------------------
(* The types of the watcher.  That generations stay within their bound     *)
(* needs a count: a subscription is renewed for a frame that was handled,  *)
(* and a frame behind an end is never handled, so the frames before the    *)
(* first end and the renewal that is due are covered by the changes of     *)
(* Herdr that no generation stands for yet.                                *)

Handled(frames, n) ==
    /\ n \in 0..Len(frames)
    /\ \A i \in 1..n : frames[i] # "end"
    /\ n < Len(frames) => frames[n + 1] = "end"

One(condition) == IF condition THEN 1 ELSE 0

Counts(n) ==
    generation + n + One(renewing # 0) <= 1 + One(stopped) + version

ChangesCoverGenerations == \E n \in Nat : Handled(wire, n) /\ Counts(n)

TopologyInv == TopologyTypeOK /\ ChangesCoverGenerations

LEMMA HandledNone == Handled(<<>>, 0)
BY DEF Handled

LEMMA HandledSent ==
    ASSUME NEW w \in Seq(Frames), NEW f \in Frames, NEW n \in Nat, Handled(w, n)
    PROVE  Handled(Append(w, f), n) \/ Handled(Append(w, f), n + 1)
<1>1. /\ Len(w) \in Nat /\ Len(Append(w, f)) = Len(w) + 1
      /\ \A i \in 1..Len(w) : Append(w, f)[i] = w[i]
      /\ Append(w, f)[Len(w) + 1] = f
    OBVIOUS
<1>2. CASE n < Len(w)
    BY <1>1, <1>2 DEF Handled
<1>3. CASE n = Len(w) /\ f = "end"
    BY <1>1, <1>3 DEF Handled
<1>4. CASE n = Len(w) /\ f # "end"
    BY <1>1, <1>4 DEF Handled
<1> QED
    BY <1>1, <1>2, <1>3, <1>4 DEF Handled

LEMMA HandledEnd ==
    ASSUME NEW w \in Seq(Frames), NEW n \in Nat, Handled(w, n)
    PROVE  Handled(Append(w, "end"), n)
<1>1. /\ Len(w) \in Nat /\ Len(Append(w, "end")) = Len(w) + 1
      /\ \A i \in 1..Len(w) : Append(w, "end")[i] = w[i]
      /\ Append(w, "end")[Len(w) + 1] = "end"
    BY DEF Frames
<1> QED
    BY <1>1 DEF Handled

LEMMA HandledTaken ==
    ASSUME NEW w \in Seq(Frames), w # <<>>, Head(w) # "end", NEW n \in Nat, Handled(w, n)
    PROVE  n > 0 /\ Handled(Tail(w), n - 1)
<1>1. /\ Len(w) \in Nat /\ Len(w) > 0 /\ Head(w) = w[1]
      /\ Len(Tail(w)) = Len(w) - 1
      /\ \A i \in 1..(Len(w) - 1) : Tail(w)[i] = w[i + 1]
    OBVIOUS
<1>2. n > 0
    BY <1>1 DEF Handled
<1>3. n - 1 \in 0..Len(Tail(w))
    BY <1>1, <1>2 DEF Handled
<1>4. \A i \in 1..(n - 1) : Tail(w)[i] # "end"
    BY <1>1, <1>2 DEF Handled
<1>5. n - 1 < Len(Tail(w)) => Tail(w)[n - 1 + 1] = "end"
    BY <1>1, <1>2 DEF Handled
<1> QED
    BY <1>2, <1>3, <1>4, <1>5 DEF Handled

LEMMA TopologyInitInv == TopologyInit => TopologyInv
<1> SUFFICES ASSUME TopologyInit PROVE TopologyInv
    OBVIOUS
<1>1. 0 \in Versions /\ 0 \in Generations /\ 1 \in Generations /\ 0 \in 0..MaxOutages
    BY TopologyAssumption DEF Versions, Generations
<1>2. /\ NoSocket \in [state : {"open", "closed"}, gen : Generations]
      /\ NoRefresh \in [at : {"idle", "reading", "read"}, ok : BOOLEAN, seen : Versions]
      /\ connect \in [at : {"idle", "listing", "subscribing", "answered"},
                      gen : Generations, ok : BOOLEAN]
      /\ wire \in Seq(Frames)
    BY <1>1 DEF TopologyInit, NoSocket, NoRefresh
<1>4. TopologyTypeOK
    BY <1>1, <1>2 DEF TopologyInit, TopologyTypeOK
<1>3. Counts(0) /\ Handled(wire, 0)
    BY HandledNone DEF TopologyInit, Counts, One
<1> QED
    BY <1>3, <1>4 DEF TopologyInv, ChangesCoverGenerations

(* Steps that only refresh.                                                *)
LEMMA RefreshedType ==
    ASSUME TopologyTypeOK, Refreshed
    PROVE  /\ refresh' \in [at : {"idle", "reading", "read"}, ok : BOOLEAN, seen : Versions]
           /\ absorbed' \in BOOLEAN /\ missed' \in BOOLEAN
<1>1. 0 \in Versions
    BY TopologyAssumption DEF Versions
<1> QED
    BY <1>1 DEF TopologyTypeOK, Refreshed, NoRefresh

LEMMA ConnectingTyped ==
    ASSUME generation' \in Generations, NEW gen \in Generations, NEW busy \in BOOLEAN
    PROVE  Connecting(gen, busy) \in [at : {"idle", "listing", "subscribing", "answered"},
                                      gen : Generations, ok : BOOLEAN]
<1>1. 0 \in Generations
    BY TopologyAssumption DEF Generations
<1> QED
    BY <1>1 DEF Connecting, NoConnect

LEMMA TopologyNextInv ==
    ASSUME TopologyInv, [TopologyNext]_topologyVars
    PROVE  TopologyInv'
<1>0. PICK n \in Nat : Handled(wire, n) /\ Counts(n)
    BY DEF TopologyInv, ChangesCoverGenerations
<1>t. /\ version \in Versions /\ up \in BOOLEAN /\ outages \in 0..MaxOutages
      /\ wire \in Seq(Frames)
      /\ socket \in [state : {"open", "closed"}, gen : Generations]
      /\ view \in Versions
      /\ refresh \in [at : {"idle", "reading", "read"}, ok : BOOLEAN, seen : Versions]
      /\ renewing \in Generations
      /\ absorbed \in BOOLEAN /\ missed \in BOOLEAN /\ subscribed \in BOOLEAN
      /\ stopped \in BOOLEAN
      /\ generation \in Generations
      /\ connect \in [at : {"idle", "listing", "subscribing", "answered"},
                      gen : Generations, ok : BOOLEAN]
      /\ retry \in Generations
      /\ TopologyTypeOK
    BY DEF TopologyInv, TopologyTypeOK
<1>z. /\ 0 \in Versions /\ 0 \in Generations /\ NoConnect.at = "idle"
      /\ NoSocket \in [state : {"open", "closed"}, gen : Generations]
      /\ NoConnect \in [at : {"idle", "listing", "subscribing", "answered"},
                        gen : Generations, ok : BOOLEAN]
      /\ NoRefresh \in [at : {"idle", "reading", "read"}, ok : BOOLEAN, seen : Versions]
      /\ <<>> \in Seq(Frames)
    BY TopologyAssumption DEF Versions, Generations, NoSocket, NoConnect, NoRefresh
<1>n. /\ Versions \subseteq Nat /\ Generations \subseteq Nat /\ MaxOutages \in Nat
    BY TopologyAssumption DEF Versions, Generations
<1>k. ASSUME TopologyTypeOK', NEW m \in Nat, Handled(wire', m), Counts(m)'
      PROVE  TopologyInv'
    BY <1>k DEF TopologyInv, ChangesCoverGenerations
<1>s. /\ version \in Nat /\ generation \in Nat
      /\ One(renewing # 0) \in 0..1 /\ One(stopped) \in 0..1
    BY <1>t, <1>n DEF One
<1>d. ASSUME NEW m \in Nat, m <= n, UNCHANGED <<version, generation, renewing, stopped>>
      PROVE  Counts(m)'
    <2>1. generation + m + One(renewing # 0) <= 1 + One(stopped) + version
        BY <1>0, <1>s, <1>d DEF Counts
    <2> QED
        BY <1>d, <2>1 DEF Counts
<1>1. CASE Tick \/ RequestRefreshes
    <2>1. Refreshed /\ UNCHANGED <<version, up, outages, socket, wire, generation, subscribed,
                                   connect, retry, view, renewing, stopped>>
        BY <1>1 DEF Tick, RequestRefreshes, herdrVars, watchVars
    <2>2. TopologyTypeOK'
        BY <1>t, <2>1, RefreshedType DEF TopologyTypeOK
    <2>3. Handled(wire', n) /\ Counts(n)'
        BY <1>0, <2>1 DEF Counts
    <2> QED
        BY <1>k, <2>2, <2>3
<1>2. CASE RefreshReads
    <2>1. UNCHANGED <<version, up, outages, socket, wire, generation, subscribed, connect,
                      retry, view, renewing, absorbed, missed, stopped>>
        BY <1>2 DEF RefreshReads, herdrVars, watchVars
    <2>2. refresh' \in [at : {"idle", "reading", "read"}, ok : BOOLEAN, seen : Versions]
        <3>1. PICK ok \in {FALSE, up} :
                  refresh' = [at |-> "read", ok |-> ok, seen |-> IF ok THEN version ELSE 0]
            BY <1>2 DEF RefreshReads
        <3>2. ok \in BOOLEAN /\ (IF ok THEN version ELSE 0) \in Versions
            BY <1>t, <1>z, <3>1
        <3> QED
            BY <3>1, <3>2
    <2>3. TopologyTypeOK'
        BY <1>t, <2>1, <2>2 DEF TopologyTypeOK
    <2>4. Handled(wire', n) /\ Counts(n)'
        BY <1>0, <2>1 DEF Counts
    <2> QED
        BY <1>k, <2>3, <2>4
<1>3. CASE RefreshEnds
    <2>1. /\ UNCHANGED <<version, up, outages, absorbed, stopped>>
          /\ view' \in Versions /\ refresh' = NoRefresh /\ renewing' = 0
          /\ missed' \in BOOLEAN
        BY <1>3, <1>t DEF RefreshEnds, herdrVars
    <2>2. CASE renewing = 0 \/ renewing # generation \/ stopped
        <3>1. UNCHANGED <<socket, wire, generation, subscribed, connect, retry>>
            BY <1>3, <2>2 DEF RefreshEnds, watchVars
        <3>2. TopologyTypeOK'
            BY <1>t, <1>z, <2>1, <3>1 DEF TopologyTypeOK
        <3>3. Handled(wire', n) /\ Counts(n)'
            BY <1>0, <1>s, <2>1, <3>1 DEF Counts, One
        <3> QED
            BY <1>k, <3>2, <3>3
    <2>3. CASE ~(renewing = 0 \/ renewing # generation \/ stopped)
        <3>1. /\ generation' = generation + 1 /\ subscribed' = FALSE /\ retry' = retry
              /\ (socket' = NoSocket /\ wire' = <<>>) \/ UNCHANGED <<socket, wire>>
              /\ connect' = connect \/ connect' = Connecting(generation', FALSE)
            BY <1>3, <2>3 DEF RefreshEnds
        <3>2. PICK m \in {0, n} : Handled(wire', m)
            BY <1>0, <3>1, HandledNone
        <3>3. m \in Nat /\ m <= n
            BY <3>2
        <3>4. Counts(m)'
            BY <1>0, <1>s, <2>1, <2>3, <3>1, <3>3 DEF Counts, One
        <3>5. generation' \in Generations
            BY <1>n, <1>t, <2>1, <3>1, <3>3, <3>4, TopologyAssumption
            DEF Counts, One, Versions, Generations
        <3>6. connect' \in [at : {"idle", "listing", "subscribing", "answered"},
                            gen : Generations, ok : BOOLEAN]
            BY <1>t, <3>1, <3>5, ConnectingTyped
        <3>7. TopologyTypeOK'
            BY <1>t, <1>z, <2>1, <3>1, <3>5, <3>6 DEF TopologyTypeOK
        <3> QED
            BY <1>k, <3>2, <3>3, <3>4, <3>7
    <2> QED
        BY <2>2, <2>3
<1>4. CASE ConnectLists
    <2>1. UNCHANGED <<version, up, outages, view, refresh, renewing, absorbed, missed, socket, wire,
                      generation, subscribed, retry, stopped>>
        BY <1>4 DEF ConnectLists, herdrVars, refreshVars
    <2>2. connect' \in [at : {"idle", "listing", "subscribing", "answered"},
                        gen : Generations, ok : BOOLEAN]
        BY <1>4, <1>t DEF ConnectLists
    <2>3. TopologyTypeOK'
        BY <1>t, <2>1, <2>2 DEF TopologyTypeOK
    <2>4. Handled(wire', n) /\ Counts(n)'
        BY <1>0, <2>1 DEF Counts
    <2> QED
        BY <1>k, <2>3, <2>4
<1>5. CASE SubscribeAnswers
    <2>1. /\ UNCHANGED <<version, up, outages, view, refresh, renewing, absorbed, missed,
                         generation, subscribed, retry, stopped>>
          /\ \/ socket' = [state |-> "open", gen |-> connect.gen] /\ wire' = <<>>
             \/ UNCHANGED <<socket, wire>>
        BY <1>5 DEF SubscribeAnswers, herdrVars, refreshVars
    <2>2. connect' \in [at : {"idle", "listing", "subscribing", "answered"},
                        gen : Generations, ok : BOOLEAN]
        BY <1>5, <1>t DEF SubscribeAnswers
    <2>3. TopologyTypeOK'
        <3>1. [state |-> "open", gen |-> connect.gen]
                \in [state : {"open", "closed"}, gen : Generations]
            BY <1>t
        <3> QED
            BY <1>t, <1>z, <2>1, <2>2, <3>1 DEF TopologyTypeOK
    <2>4. PICK m \in {0, n} : Handled(wire', m)
        BY <1>0, <2>1, HandledNone
    <2>5. m \in Nat /\ m <= n
        BY <2>4
    <2>6. Counts(m)'
        BY <1>d, <2>1, <2>5
    <2> QED
        BY <1>k, <2>3, <2>4, <2>5, <2>6
<1>6. CASE ConnectReturns
    <2>1. /\ UNCHANGED <<version, up, outages, view, renewing, generation, stopped>>
          /\ Refreshed \/ UNCHANGED <<refresh, absorbed, missed>>
          /\ connect' = NoConnect \/ connect' = Connecting(generation', FALSE)
          /\ retry' \in {retry, Scheduled(connect.gen)}
          /\ (socket' = NoSocket /\ wire' = <<>>) \/ UNCHANGED <<socket, wire>>
        BY <1>6 DEF ConnectReturns, herdrVars
    <2>2. subscribed' \in BOOLEAN
        BY <1>6, <1>t DEF ConnectReturns
    <2>3. /\ refresh' \in [at : {"idle", "reading", "read"}, ok : BOOLEAN, seen : Versions]
          /\ absorbed' \in BOOLEAN /\ missed' \in BOOLEAN
        BY <1>t, <2>1, RefreshedType
    <2>4. connect' \in [at : {"idle", "listing", "subscribing", "answered"},
                        gen : Generations, ok : BOOLEAN]
        <3>1. generation' \in Generations /\ FALSE \in BOOLEAN
            BY <1>t, <2>1
        <3>2. Connecting(generation', FALSE)
                \in [at : {"idle", "listing", "subscribing", "answered"},
                    gen : Generations, ok : BOOLEAN]
            BY <3>1, ConnectingTyped
        <3> QED
            BY <1>z, <2>1, <3>2
    <2>5. retry' \in Generations
        BY <1>t, <2>1 DEF Scheduled
    <2>6. TopologyTypeOK'
        BY <1>t, <1>z, <2>1, <2>2, <2>3, <2>4, <2>5 DEF TopologyTypeOK
    <2>7. PICK m \in {0, n} : Handled(wire', m)
        BY <1>0, <2>1, HandledNone
    <2>8. m \in Nat /\ m <= n
        BY <2>7
    <2>9. Counts(m)'
        BY <1>d, <2>1, <2>8
    <2> QED
        BY <1>k, <2>6, <2>7, <2>8, <2>9
<1>7. CASE RetryFires
    <2>1. /\ UNCHANGED <<version, up, outages, view, refresh, renewing, absorbed, missed, socket, wire,
                         generation, subscribed, stopped>>
          /\ retry' = 0
          /\ connect' = connect \/ connect' = Connecting(retry, subscribed)
        BY <1>7 DEF RetryFires, herdrVars, refreshVars
    <2>2. connect' \in [at : {"idle", "listing", "subscribing", "answered"},
                        gen : Generations, ok : BOOLEAN]
        <3>1. generation' \in Generations /\ retry \in Generations /\ subscribed \in BOOLEAN
            BY <1>t, <2>1
        <3>2. Connecting(retry, subscribed)
                \in [at : {"idle", "listing", "subscribing", "answered"},
                    gen : Generations, ok : BOOLEAN]
            BY <3>1, ConnectingTyped
        <3> QED
            BY <1>t, <2>1, <3>2
    <2>3. TopologyTypeOK'
        BY <1>t, <1>z, <2>1, <2>2 DEF TopologyTypeOK
    <2>4. Handled(wire', n) /\ Counts(n)'
        BY <1>0, <2>1 DEF Counts
    <2> QED
        BY <1>k, <2>3, <2>4
<1>8. CASE EventArrives
    <2>1. /\ UNCHANGED <<version, up, outages, view, socket, generation, subscribed, connect,
                         retry, stopped>>
          /\ Refreshed \/ UNCHANGED <<refresh, absorbed, missed>>
          /\ renewing' \in {renewing, generation}
          /\ wire # <<>> /\ Head(wire) # "end" /\ wire' = Tail(wire)
        BY <1>8 DEF EventArrives, herdrVars
    <2>2. /\ refresh' \in [at : {"idle", "reading", "read"}, ok : BOOLEAN, seen : Versions]
          /\ absorbed' \in BOOLEAN /\ missed' \in BOOLEAN
        BY <1>t, <2>1, RefreshedType
    <2>3. wire' \in Seq(Frames)
        BY <1>t, <2>1
    <2>4. TopologyTypeOK'
        BY <1>t, <2>1, <2>2, <2>3 DEF TopologyTypeOK
    <2>5. n > 0 /\ Handled(wire', n - 1)
        BY <1>0, <1>t, <2>1, HandledTaken
    <2>6. n - 1 \in Nat /\ Counts(n - 1)'
        BY <1>0, <1>s, <2>1, <2>5 DEF Counts, One
    <2> QED
        BY <1>k, <2>4, <2>5, <2>6
<1>9. CASE SocketEnds
    <2>1. /\ UNCHANGED <<version, up, outages, view, refresh, renewing, absorbed, missed, generation,
                         connect, stopped>>
          /\ wire' = <<>> /\ socket' = [socket EXCEPT !.state = "closed"]
          /\ subscribed' \in {subscribed, FALSE}
          /\ retry' \in {retry, Scheduled(socket.gen)}
        BY <1>9 DEF SocketEnds, herdrVars, refreshVars
    <2>2. retry' \in Generations
        BY <1>t, <2>1 DEF Scheduled
    <2>3. TopologyTypeOK'
        BY <1>t, <1>z, <2>1, <2>2 DEF TopologyTypeOK
    <2>4. Handled(wire', 0)
        BY <2>1, HandledNone
    <2>5. Counts(0)'
        BY <1>d, <2>1
    <2> QED
        BY <1>k, <2>3, <2>4, <2>5
<1>10. CASE Stop
    <2>1. /\ UNCHANGED <<version, up, outages, view, refresh, renewing, absorbed, missed, connect>>
          /\ ~stopped /\ stopped' = TRUE /\ generation' = generation + 1
          /\ retry' = 0 /\ subscribed' = FALSE
          /\ (socket' = NoSocket /\ wire' = <<>>) \/ UNCHANGED <<socket, wire>>
        BY <1>10 DEF Stop, herdrVars, refreshVars
    <2>2. PICK m \in {0, n} : Handled(wire', m)
        BY <1>0, <2>1, HandledNone
    <2>3. m \in Nat /\ Counts(m)'
        BY <1>0, <1>s, <2>1, <2>2 DEF Counts, One
    <2>4. generation' \in Generations
        BY <1>n, <1>t, <2>1, <2>3, TopologyAssumption DEF Counts, One, Versions, Generations
    <2>5. TopologyTypeOK'
        BY <1>t, <1>z, <2>1, <2>4 DEF TopologyTypeOK
    <2> QED
        BY <1>k, <2>2, <2>3, <2>5
<1>11. CASE HerdrChanges
    <2>1. /\ UNCHANGED <<up, outages, view, refresh, renewing, absorbed, missed, socket, generation,
                         subscribed, connect, retry, stopped>>
          /\ version < MaxChanges + outages /\ version' = version + 1
        BY <1>11 DEF HerdrChanges, refreshVars
    <2>2. PICK frame \in Frames : Sent(frame)
        BY <1>11 DEF HerdrChanges, Frames
    <2>3. wire' = wire \/ wire' = Append(wire, frame)
        BY <2>2 DEF Sent
    <2>4. wire' \in Seq(Frames)
        BY <1>t, <2>3
    <2>5. version' \in Versions
        BY <1>t, <1>n, <2>1, TopologyAssumption DEF Versions
    <2>6. TopologyTypeOK'
        BY <1>t, <2>1, <2>4, <2>5 DEF TopologyTypeOK
    <2>7. PICK m \in {n, n + 1} : Handled(wire', m)
        <3>1. Handled(Append(wire, frame), n) \/ Handled(Append(wire, frame), n + 1)
            BY <1>0, <1>t, HandledSent
        <3> QED
            BY <1>0, <2>3, <3>1
    <2>8. m \in Nat /\ Counts(m)'
        BY <1>0, <1>s, <2>1, <2>7 DEF Counts, One
    <2> QED
        BY <1>k, <2>6, <2>7, <2>8
<1>12. CASE HerdrGoesDown
    <2>1. /\ UNCHANGED <<version, view, refresh, renewing, absorbed, missed, socket, generation,
                         subscribed, connect, retry, stopped>>
          /\ outages < MaxOutages /\ outages' = outages + 1 /\ up' = FALSE
          /\ wire' = wire \/ wire' = Append(wire, "end")
        BY <1>12 DEF HerdrGoesDown, Sent, refreshVars
    <2>2. wire' \in Seq(Frames)
        BY <1>t, <2>1 DEF Frames
    <2>3. TopologyTypeOK'
        <3>1. outages' \in 0..MaxOutages
            BY <1>t, <1>n, <2>1
        <3> QED
            BY <1>t, <2>1, <2>2, <3>1 DEF TopologyTypeOK
    <2>4. Handled(wire', n)
        BY <1>0, <1>t, <2>1, HandledEnd
    <2>5. Counts(n)'
        BY <1>0, <2>1 DEF Counts
    <2> QED
        BY <1>k, <2>3, <2>4, <2>5
<1>13. CASE HerdrComesBack
    <2>1. /\ UNCHANGED <<outages, wire, view, refresh, renewing, absorbed, missed, socket, generation,
                         subscribed, connect, retry, stopped>>
          /\ up' = TRUE /\ version' \in {version, version + 1} \intersect Versions
        BY <1>13 DEF HerdrComesBack, refreshVars
    <2>2. TopologyTypeOK'
        BY <1>t, <2>1 DEF TopologyTypeOK
    <2>3. Handled(wire', n)
        BY <1>0, <2>1
    <2>4. version \in Nat /\ version' \in Nat /\ version <= version'
        BY <1>t, <1>n, <2>1
    <2>5. generation \in Nat /\ One(renewing # 0) \in Nat /\ One(stopped) \in Nat
        BY <1>t, <1>n DEF One
    <2>6. Counts(n)'
        BY <1>0, <2>1, <2>4, <2>5 DEF Counts
    <2> QED
        BY <1>k, <2>2, <2>3, <2>6
<1>14. CASE UNCHANGED topologyVars
    <2>1. TopologyTypeOK'
        BY <1>t, <1>14 DEF topologyVars, TopologyTypeOK
    <2>2. Handled(wire', n) /\ Counts(n)'
        BY <1>0, <1>14 DEF topologyVars, Counts
    <2> QED
        BY <1>k, <2>1, <2>2
<1> QED
    BY <1>1, <1>2, <1>3, <1>4, <1>5, <1>6, <1>7, <1>8, <1>9, <1>10, <1>11, <1>12, <1>13,
       <1>14 DEF TopologyNext

(* The watcher stays well typed, and a change of Herdr renews its          *)
(* subscription at most once: no more generations are begun than Herdr has *)
(* changed and the hub has stopped (topology.ts, restartSubscription).     *)
THEOREM TopologyTypeCorrect ==
    TopologySpec => [](TopologyTypeOK /\ generation <= 1 + version + One(stopped))
<1>1. TopologyInv => TopologyTypeOK /\ generation <= 1 + version + One(stopped)
    BY TopologyAssumption
    DEF TopologyInv, ChangesCoverGenerations, Counts, One, TopologyTypeOK, Versions, Generations
<1> QED
    BY <1>1, TopologyInitInv, TopologyNextInv, PTL DEF TopologySpec

-----------------------------------------------------------------------------
(* While the hub watches, a change of Herdr is lost on the way to the view *)
(* in two ways only.  The invariant adds that the view and what a refresh  *)
(* has read follow one another, that a socket of a Herdr that is down      *)
(* still has its end to tell, and that a refresh under way clears the      *)
(* account of one that failed.                                             *)

ReadFits(now) ==
    /\ view <= now
    /\ refresh.at = "read" /\ refresh.ok => view <= refresh.seen /\ refresh.seen <= now

EndIsSent == socket.state = "open" /\ ~up => wire # <<>> /\ wire[Len(wire)] = "end"

(* Between a change and the rest: a frame is coming, a read has yet to be  *)
(* made, or has found the change or failed.  At rest: the call joined a    *)
(* refresh that had read already, or the refresh failed.                   *)
OnItsWay ==
    \/ wire # <<>>
    \/ refresh.at = "reading"
    \/ refresh.at = "read" /\ (refresh.ok => refresh.seen = version)
    \/ absorbed
    \/ missed

ChangeIsOnItsWay == up /\ subscribed /\ view # version => OnItsWay

ViewNeverGoesBack == view' >= view

CatchUpInv ==
    /\ ReadFits(version) /\ EndIsSent /\ ChangeIsOnItsWay
    /\ missed => refresh.at = "idle"

(* Nothing is on the wire and no refresh is under way.                     *)
QuietViewIsCurrent ==
    up /\ subscribed /\ wire = <<>> /\ refresh.at = "idle"
        => view = version \/ absorbed \/ missed

LEMMA RefreshedReads ==
    ASSUME TopologyTypeOK, Refreshed
    PROVE  /\ refresh'.at = "reading" \/ absorbed'
           /\ refresh' = refresh \/ refresh'.at = "reading"
           /\ missed' => refresh' = refresh /\ missed
    BY DEF TopologyTypeOK, Refreshed, NoRefresh

LEMMA CatchUpNext ==
    ASSUME TopologyTypeOK, WatchInv, CatchUpInv, [TopologyNext]_topologyVars
    PROVE  CatchUpInv' /\ view' >= view
<1>1. /\ version \in Nat /\ view \in Nat /\ refresh.seen \in Nat /\ wire \in Seq(Frames)
      /\ up \in BOOLEAN /\ subscribed \in BOOLEAN /\ absorbed \in BOOLEAN
      /\ refresh \in [at : {"idle", "reading", "read"}, ok : BOOLEAN, seen : Nat]
    BY TopologyAssumption DEF TopologyTypeOK, Versions
<1>2. /\ subscribed => socket.state = "open" /\ Ours /\ connect.at = "idle"
      /\ socket.state \in {"open", "closed"}
    BY DEF WatchInv, WatchTypes, OneAttempt, WatchedSocketIsOurs, Ours
<1>3. ASSUME NEW f, wire' = Append(wire, f)
      PROVE  wire' # <<>> /\ wire'[Len(wire')] = f
    BY <1>1, <1>3
<1>4. CASE Tick \/ RequestRefreshes
    <2>1. /\ Refreshed
          /\ UNCHANGED <<version, up, view, wire, socket, subscribed>>
        BY <1>4 DEF Tick, RequestRefreshes, herdrVars, watchVars
    <2>2. ReadFits(version)' /\ EndIsSent'
        BY <2>1, RefreshedReads DEF CatchUpInv, ReadFits, EndIsSent
    <2>3. ChangeIsOnItsWay'
        BY <2>1, RefreshedReads DEF ChangeIsOnItsWay, OnItsWay
    <2>4. missed' => refresh'.at = "idle"
        BY <2>1, RefreshedReads DEF CatchUpInv
    <2> QED
        BY <1>1, <2>1, <2>2, <2>3, <2>4 DEF CatchUpInv
<1>5. CASE RefreshReads
    <2>1. /\ \E ok \in {FALSE, up} :
                refresh' = [at |-> "read", ok |-> ok, seen |-> IF ok THEN version ELSE 0]
          /\ refresh.at = "reading"
          /\ UNCHANGED <<version, up, view, wire, socket, subscribed, missed>>
        BY <1>5 DEF RefreshReads, herdrVars, watchVars
    <2>2. ReadFits(version)'
        BY <1>1, <2>1 DEF CatchUpInv, ReadFits
    <2>3. EndIsSent' /\ ChangeIsOnItsWay'
        BY <2>1 DEF CatchUpInv, EndIsSent, ChangeIsOnItsWay, OnItsWay
    <2> QED
        BY <1>1, <2>1, <2>2, <2>3 DEF CatchUpInv
<1>6. CASE RefreshEnds
    <2>1. /\ refresh.at = "read" /\ refresh'.at = "idle"
          /\ view' = IF refresh.ok THEN refresh.seen ELSE view
          /\ missed' = (~refresh.ok /\ subscribed')
          /\ UNCHANGED <<version, up, absorbed>>
        BY <1>6 DEF RefreshEnds, herdrVars, NoRefresh
    <2>2. \/ UNCHANGED <<wire, socket, subscribed>>
          \/ ~subscribed' /\ (socket' = NoSocket \/ UNCHANGED <<socket, wire>>)
        BY <1>6 DEF RefreshEnds, watchVars
    <2>3. ReadFits(version)' /\ view' >= view
        BY <1>1, <2>1 DEF CatchUpInv, ReadFits
    <2>4. EndIsSent'
        BY <2>1, <2>2 DEF CatchUpInv, EndIsSent, NoSocket
    <2>5. ChangeIsOnItsWay'
        <3>1. view = version /\ refresh.ok => refresh.seen = version
            BY <1>1, <2>1 DEF CatchUpInv, ReadFits
        <3>2. ~missed
            BY <2>1 DEF CatchUpInv
        <3> QED
            BY <2>1, <2>2, <3>1, <3>2 DEF CatchUpInv, ChangeIsOnItsWay, OnItsWay
    <2> QED
        BY <2>1, <2>3, <2>4, <2>5 DEF CatchUpInv
<1>7. CASE ConnectLists \/ RetryFires \/ UNCHANGED topologyVars
    <2>1. UNCHANGED <<version, up, view, refresh, absorbed, missed, wire, socket, subscribed>>
        BY <1>7 DEF ConnectLists, RetryFires, herdrVars, refreshVars, topologyVars
    <2> QED
        BY <1>1, <2>1 DEF CatchUpInv, ReadFits, EndIsSent, ChangeIsOnItsWay, OnItsWay
<1>8. CASE SubscribeAnswers
    <2>1. /\ ~subscribed /\ UNCHANGED <<version, up, view, refresh, missed, subscribed>>
        BY <1>2, <1>8 DEF SubscribeAnswers, herdrVars, refreshVars
    <2>2. up \/ UNCHANGED <<socket, wire>>
        <3>1. PICK ok \in {FALSE, up} : ~ok => UNCHANGED <<socket, wire>>
            BY <1>8 DEF SubscribeAnswers
        <3>2. CASE up
            BY <3>2
        <3>3. CASE ~up
            <4>1. ~ok
                BY <1>1, <3>1, <3>3
            <4> QED
                BY <3>1, <4>1
        <3> QED
            BY <1>1, <3>2, <3>3
    <2> QED
        BY <1>1, <2>1, <2>2 DEF CatchUpInv, ReadFits, EndIsSent, ChangeIsOnItsWay
<1>9. CASE ConnectReturns
    <2>1. /\ ~subscribed /\ UNCHANGED <<version, up, view>>
          /\ \/ UNCHANGED <<refresh, absorbed, missed, subscribed>>
             \/ Refreshed
          /\ socket' = NoSocket \/ UNCHANGED <<socket, wire>>
        BY <1>2, <1>9 DEF ConnectReturns, Settling, herdrVars
    <2>2. ReadFits(version)'
        BY <2>1, RefreshedReads DEF CatchUpInv, ReadFits
    <2>3. EndIsSent'
        BY <2>1 DEF CatchUpInv, EndIsSent, NoSocket
    <2>4. ChangeIsOnItsWay'
        BY <2>1, RefreshedReads DEF ChangeIsOnItsWay, OnItsWay
    <2>5. missed' => refresh'.at = "idle"
        BY <2>1, RefreshedReads DEF CatchUpInv
    <2> QED
        BY <1>1, <2>1, <2>2, <2>3, <2>4, <2>5 DEF CatchUpInv
<1>10. CASE EventArrives
    <2>1. /\ wire # <<>> /\ Head(wire) # "end" /\ wire' = Tail(wire)
          /\ UNCHANGED <<version, up, view, socket, subscribed>>
          /\ IF Ours THEN Refreshed ELSE UNCHANGED <<refresh, absorbed, missed>>
        BY <1>10 DEF EventArrives, herdrVars
    <2>2. ReadFits(version)'
        BY <2>1, RefreshedReads DEF CatchUpInv, ReadFits
    <2>3. EndIsSent'
        <3>1. ASSUME wire[Len(wire)] = "end"
              PROVE  Tail(wire) # <<>> /\ Tail(wire)[Len(Tail(wire))] = "end"
            <4>1. /\ Len(wire) \in Nat \ {0} /\ Head(wire) = wire[1]
                  /\ Len(Tail(wire)) = Len(wire) - 1
                  /\ \A i \in 1..(Len(wire) - 1) : Tail(wire)[i] = wire[i + 1]
                BY <1>1, <2>1
            <4>2. Len(wire) # 1
                BY <2>1, <3>1, <4>1
            <4>3. Tail(wire)[Len(wire) - 1] = "end"
                BY <3>1, <4>1, <4>2
            <4>4. Tail(wire) # <<>>
                BY <4>1, <4>2
            <4> QED
                BY <4>1, <4>3, <4>4
        <3> QED
            BY <2>1, <3>1 DEF CatchUpInv, EndIsSent
    <2>4. ChangeIsOnItsWay'
        BY <1>2, <2>1, RefreshedReads DEF ChangeIsOnItsWay, OnItsWay
    <2>5. missed' => refresh'.at = "idle"
        BY <2>1, RefreshedReads DEF CatchUpInv
    <2> QED
        BY <1>1, <2>1, <2>2, <2>3, <2>4, <2>5 DEF CatchUpInv
<1>11. CASE SocketEnds \/ Stop
    <2>1. ~subscribed' /\ UNCHANGED <<version, up, view, refresh, missed>>
        BY <1>2, <1>11 DEF SocketEnds, Stop, herdrVars, refreshVars
    <2>2. socket'.state = "closed" \/ UNCHANGED <<socket, wire>>
        <3>1. [socket EXCEPT !.state = "closed"].state = "closed" /\ NoSocket.state = "closed"
            BY DEF WatchInv, WatchTypes, NoSocket
        <3> QED
            BY <1>11, <3>1 DEF SocketEnds, Stop
    <2> QED
        BY <1>1, <2>1, <2>2 DEF CatchUpInv, ReadFits, EndIsSent, ChangeIsOnItsWay
<1>12. CASE HerdrChanges
    <2>1. /\ up /\ up' = up /\ version' = version + 1 /\ UNCHANGED <<view, refresh, missed, socket, subscribed>>
          /\ socket.state = "open" => \E f : wire' = Append(wire, f)
        BY <1>12 DEF HerdrChanges, Sent, refreshVars
    <2>2. ReadFits(version)'
        BY <1>1, <2>1 DEF CatchUpInv, ReadFits
    <2>3. EndIsSent' /\ ChangeIsOnItsWay'
        BY <1>2, <1>3, <2>1 DEF EndIsSent, ChangeIsOnItsWay, OnItsWay
    <2> QED
        BY <1>1, <2>1, <2>2, <2>3 DEF CatchUpInv
<1>13. CASE HerdrGoesDown
    <2>1. /\ up' = FALSE /\ UNCHANGED <<version, view, refresh, missed, socket, subscribed>>
          /\ socket.state = "open" => wire' = Append(wire, "end")
        BY <1>13 DEF HerdrGoesDown, Sent, refreshVars
    <2> QED
        BY <1>1, <1>3, <2>1 DEF CatchUpInv, ReadFits, EndIsSent, ChangeIsOnItsWay
<1>14. CASE HerdrComesBack
    <2>1. /\ ~up /\ up' = TRUE /\ version' \in {version, version + 1}
          /\ UNCHANGED <<wire, view, refresh, absorbed, missed, socket, subscribed>>
        BY <1>14 DEF HerdrComesBack, refreshVars
    <2>2. ReadFits(version)'
        BY <1>1, <2>1 DEF CatchUpInv, ReadFits
    <2>3. EndIsSent' /\ ChangeIsOnItsWay'
        BY <1>2, <2>1 DEF CatchUpInv, EndIsSent, ChangeIsOnItsWay, OnItsWay
    <2> QED
        BY <1>1, <2>1, <2>2, <2>3 DEF CatchUpInv
<1> QED
    BY <1>4, <1>5, <1>6, <1>7, <1>8, <1>9, <1>10, <1>11, <1>12, <1>13, <1>14 DEF TopologyNext

(* The safety half of ViewCatchesUp (handleTopologyEvent, refresh,         *)
(* isWatching): while the hub watches Herdr, and so makes no refreshes of  *)
(* its own, at rest it shows what Herdr shows, but for the two ways of the *)
(* code to lose a change, a call that a refresh absorbed and a refresh     *)
(* that failed; and the view never goes back, though refreshes fail and    *)
(* are joined.                                                             *)
THEOREM ChangesAreLostInTwoWaysOnly ==
    TopologySpec => []QuietViewIsCurrent /\ [][ViewNeverGoesBack]_topologyVars
<1>1. TopologyInit => CatchUpInv
    BY TopologyAssumption
    DEF TopologyInit, CatchUpInv, ReadFits, EndIsSent, ChangeIsOnItsWay, NoRefresh, NoSocket
<1>2. TopologyInv => TopologyTypeOK
    BY DEF TopologyInv
<1>3. /\ TopologyTypeOK /\ WatchInv /\ CatchUpInv /\ [TopologyNext]_topologyVars
         => CatchUpInv' /\ [ViewNeverGoesBack]_topologyVars
      /\ CatchUpInv => QuietViewIsCurrent
    BY CatchUpNext
    DEF ViewNeverGoesBack, CatchUpInv, QuietViewIsCurrent, ChangeIsOnItsWay, OnItsWay
<1>4. WatchInv /\ [TopologyNext]_topologyVars => WatchInv'
    BY WatchNextInv
<1>5. TopologyInv /\ [TopologyNext]_topologyVars => TopologyInv'
    BY TopologyNextInv
<1> QED
    BY <1>1, <1>2, <1>3, <1>4, <1>5, WatchInitInv, TopologyInitInv, PTL DEF TopologySpec

-----------------------------------------------------------------------------
(* The models of a launcher.                                               *)

(* A list was on offer, for this setup, no longer ago than that.           *)
Seen(setup, models, age) ==
    /\ models \in Offers
    /\ age \in 0..Ttl
    /\ offered[setup][models] \in 0..Ttl
    /\ offered[setup][models] <= age

EntrySeen ==
    entry # Nothing /\ entry.status = "ready" => Seen(entry.of.setup, entry.models, entry.fetched)

(* What a refresh has read it read after its start.                        *)
ReadsSeen ==
    \A r \in Requests :
        refreshes[r] # Nothing =>
            /\ refreshes[r].at \in {"running", "read"} => refreshes[r].started \in 0..Ttl
            /\ refreshes[r].at = "read" =>
                  Seen(refreshes[r].of.setup, refreshes[r].models, refreshes[r].started)

(* A refresh writes into an entry of its own fingerprint or into none.     *)
OursIsKept ==
    \A r \in Requests :
        refreshes[r] # Nothing /\ refreshes[r].ours =>
            entry # Nothing /\ entry.of = refreshes[r].of

OnOffer == \A s \in Setups : offered[s][offer[s]] = 0

RevisionsAreFew == launcher # Nothing => launcher.revision <= edits + 1

CatalogueInv ==
    CatalogueTypeOK /\ EntrySeen /\ ReadsSeen /\ OursIsKept /\ OnOffer /\ RevisionsAreFew

(* The property, in a state that satisfies the invariant.                  *)
LEMMA InvImplies == CatalogueInv => CurrentModelsAreOffered
<1> SUFFICES ASSUME CatalogueInv, Current PROVE
        /\ entry.models # Nothing
        /\ offered[launcher.setup][entry.models] # Nothing
        /\ offered[launcher.setup][entry.models] < Ttl
    BY DEF CurrentModelsAreOffered
<1>1. entry # Nothing /\ entry.of = launcher /\ entry.status = "ready" /\ entry.fetched < Ttl
    BY DEF Current
<1>2. Seen(launcher.setup, entry.models, entry.fetched)
    BY <1>1 DEF CatalogueInv, EntrySeen
<1> QED
    BY <1>1, <1>2, CatalogueAssumption DEF Seen

LEMMA InitInv == CatalogueInit => CatalogueInv
<1> SUFFICES ASSUME CatalogueInit PROVE CatalogueInv
    OBVIOUS
<1>1. launcher \in Fingerprint /\ launcher.revision = 1
    BY CatalogueAssumption DEF CatalogueInit, Fingerprint
<1>2. offered \in [Setups -> [Offers -> Ages]] /\ OnOffer
    BY CatalogueAssumption DEF CatalogueInit, Ages, OnOffer
<1>3. CatalogueTypeOK
    BY <1>1, <1>2, CatalogueAssumption DEF CatalogueInit, CatalogueTypeOK
<1> QED
    BY <1>1, <1>2, <1>3 DEF CatalogueInit, CatalogueInv, EntrySeen, ReadsSeen, OursIsKept,
                            RevisionsAreFew

(* Looking a fingerprint up yields an entry of it.                         *)
LEMMA EntryOfType ==
    ASSUME NEW of \in Fingerprint, entry \in Entry \union {Nothing}
    PROVE  /\ EntryOf(of) \in Entry /\ EntryOf(of) # Nothing
           /\ EntryOf(of).of = of
           /\ Kept(of) => EntryOf(of) = entry
           /\ ~Kept(of) => EntryOf(of).status = "unavailable"
<1>1. Unknown(of) \in Entry
    BY DEF Unknown, Entry, Ages
<1>2. Unknown(of).of = of /\ Unknown(of).status = "unavailable"
    BY DEF Unknown
<1> QED
    BY <1>1, <1>2, CatalogueAssumption DEF EntryOf, Kept

LEMMA OrphanedType ==
    ASSUME NEW of, refreshes \in [Requests -> Refresh \union {Nothing}]
    PROVE  /\ Orphaned(of) \in [Requests -> Refresh \union {Nothing}]
           /\ \A r \in Requests :
                /\ Orphaned(of)[r] = Nothing <=> refreshes[r] = Nothing
                /\ refreshes[r] # Nothing =>
                      /\ Orphaned(of)[r].at = refreshes[r].at
                      /\ Orphaned(of)[r].of = refreshes[r].of
                      /\ Orphaned(of)[r].started = refreshes[r].started
                      /\ Orphaned(of)[r].models = refreshes[r].models
                      /\ Orphaned(of)[r].ours => refreshes[r].ours /\ Kept(of)
<1>1. ASSUME NEW r \in Requests, refreshes[r] # Nothing, ~Kept(of)
      PROVE  /\ [refreshes[r] EXCEPT !.ours = FALSE] \in Refresh
             /\ [refreshes[r] EXCEPT !.ours = FALSE].at = refreshes[r].at
             /\ [refreshes[r] EXCEPT !.ours = FALSE].of = refreshes[r].of
             /\ [refreshes[r] EXCEPT !.ours = FALSE].started = refreshes[r].started
             /\ [refreshes[r] EXCEPT !.ours = FALSE].models = refreshes[r].models
             /\ [refreshes[r] EXCEPT !.ours = FALSE].ours = FALSE
    <2>1. refreshes[r] \in Refresh
        BY <1>1
    <2> QED
        BY <2>1 DEF Refresh
<1>2. ASSUME NEW r \in Requests
      PROVE  Orphaned(of)[r] = IF refreshes[r] = Nothing \/ Kept(of) THEN refreshes[r]
                               ELSE [refreshes[r] EXCEPT !.ours = FALSE]
    BY DEF Orphaned
<1>3. Orphaned(of) \in [Requests -> Refresh \union {Nothing}]
    BY <1>1 DEF Orphaned
<1>4. ASSUME NEW r \in Requests
      PROVE  Orphaned(of)[r] = Nothing <=> refreshes[r] = Nothing
    BY <1>1, <1>2, CatalogueAssumption
<1>5. ASSUME NEW r \in Requests, refreshes[r] # Nothing
      PROVE  /\ Orphaned(of)[r].at = refreshes[r].at
             /\ Orphaned(of)[r].of = refreshes[r].of
             /\ Orphaned(of)[r].started = refreshes[r].started
             /\ Orphaned(of)[r].models = refreshes[r].models
             /\ Orphaned(of)[r].ours => refreshes[r].ours /\ Kept(of)
    <2>1. CASE Kept(of)
        <3>1. Orphaned(of)[r] = refreshes[r]
            BY <1>2, <2>1
        <3> QED
            BY <3>1, <2>1
    <2>2. CASE ~Kept(of)
        <3>1. Orphaned(of)[r] = [refreshes[r] EXCEPT !.ours = FALSE]
            BY <1>2, <1>5, <2>2
        <3> QED
            BY <3>1, <1>1, <1>5, <2>2
    <2> QED
        BY <2>1, <2>2
<1> QED
    BY <1>3, <1>4, <1>5

-----------------------------------------------------------------------------
(* Steps that change nothing but the entry and the refreshes; `of` is what *)
(* is looked up, and `r` the refresh that arrives or answers.              *)
LEMMA LookupKeepsInv ==
    ASSUME CatalogueInv, NEW of \in Fingerprint,
           entry' = EntryOf(of), UNCHANGED <<launcher, offer, offered, edits>>,
           refreshes' \in [Requests -> Refresh \union {Nothing}],
           \A r \in Requests :
               \/ refreshes'[r] = Nothing \/ refreshes'[r] = Orphaned(of)[r]
               \/ refreshes'[r].at = "waiting" /\ refreshes'[r].of = of
    PROVE  CatalogueInv'
<1> USE DEF CatalogueInv
<1>1. /\ entry' \in Entry /\ entry' # Nothing /\ entry'.of = of
      /\ Kept(of) => entry' = entry
      /\ ~Kept(of) => entry'.status = "unavailable"
    BY EntryOfType DEF CatalogueTypeOK
<1>2. /\ \A r \in Requests :
           /\ Orphaned(of)[r] = Nothing <=> refreshes[r] = Nothing
           /\ refreshes[r] # Nothing =>
                 /\ Orphaned(of)[r].at = refreshes[r].at
                 /\ Orphaned(of)[r].of = refreshes[r].of
                 /\ Orphaned(of)[r].started = refreshes[r].started
                 /\ Orphaned(of)[r].models = refreshes[r].models
                 /\ Orphaned(of)[r].ours => refreshes[r].ours /\ Kept(of)
    BY OrphanedType DEF CatalogueTypeOK
<1>3. CatalogueTypeOK'
    BY <1>1 DEF CatalogueTypeOK
<1>4. EntrySeen'
    <2> SUFFICES ASSUME entry'.status = "ready"
                 PROVE  Seen(entry.of.setup, entry.models, entry.fetched)'
        BY DEF EntrySeen
    <2>1. Kept(of) /\ entry' = entry
        BY <1>1
    <2>2. Seen(entry.of.setup, entry.models, entry.fetched)
        BY <2>1 DEF EntrySeen, Kept
    <2> QED
        BY <2>1, <2>2 DEF Seen
<1>5. ReadsSeen'
    <2> SUFFICES ASSUME NEW r \in Requests, refreshes'[r] # Nothing
                 PROVE  /\ refreshes'[r].at \in {"running", "read"} =>
                              refreshes'[r].started \in 0..Ttl
                        /\ refreshes'[r].at = "read" =>
                              Seen(refreshes[r].of.setup, refreshes[r].models,
                                   refreshes[r].started)'
        BY DEF ReadsSeen
    <2>1. CASE refreshes'[r].at = "waiting"
        BY <2>1
    <2>2. CASE refreshes'[r] = Orphaned(of)[r]
        <3>1. /\ refreshes[r] # Nothing
              /\ refreshes'[r].at = refreshes[r].at
              /\ refreshes'[r].of = refreshes[r].of
              /\ refreshes'[r].started = refreshes[r].started
              /\ refreshes'[r].models = refreshes[r].models
            BY <1>2, <2>2
        <3>2. /\ refreshes[r].at \in {"running", "read"} => refreshes[r].started \in 0..Ttl
              /\ refreshes[r].at = "read" =>
                    Seen(refreshes[r].of.setup, refreshes[r].models, refreshes[r].started)
            BY <3>1 DEF ReadsSeen
        <3> QED
            BY <3>1, <3>2 DEF Seen
    <2> QED
        BY <2>1, <2>2
<1>6. OursIsKept'
    <2> SUFFICES ASSUME NEW r \in Requests, refreshes'[r] # Nothing, refreshes'[r].ours
                 PROVE  entry'.of = refreshes'[r].of
        BY <1>1 DEF OursIsKept
    <2>1. CASE refreshes'[r] = Orphaned(of)[r]
        <3>1. refreshes[r] # Nothing /\ refreshes[r].ours /\ Kept(of)
            BY <1>2, <2>1
        <3>2. refreshes'[r].of = refreshes[r].of
            BY <1>2, <2>1, <3>1
        <3>3. entry.of = refreshes[r].of
            BY <3>1 DEF OursIsKept
        <3> QED
            BY <1>1, <3>1, <3>2, <3>3
    <2>2. CASE refreshes'[r].of = of
        BY <1>1, <2>2
    <2> QED
        BY <2>1, <2>2
<1> QED
    BY <1>3, <1>4, <1>5, <1>6 DEF OnOffer, RevisionsAreFew

LEMMA LooksInv == CatalogueInv /\ Looks => CatalogueInv'
<1> SUFFICES ASSUME CatalogueInv, Looks PROVE CatalogueInv'
    OBVIOUS
<1>1. launcher \in Fingerprint
    BY DEF Looks, CatalogueInv, CatalogueTypeOK
<1>2. refreshes' \in [Requests -> Refresh \union {Nothing}]
    BY OrphanedType DEF Looks, CatalogueInv, CatalogueTypeOK
<1> QED
    BY <1>1, <1>2, LookupKeepsInv DEF Looks

LEMMA ArrivesInv == ASSUME CatalogueInv, NEW r \in Requests, RefreshArrives(r)
                    PROVE  CatalogueInv'
<1> DEFINE arrived == [at |-> "waiting", of |-> launcher, ours |-> TRUE, started |-> Nothing,
                       models |-> Nothing]
<1>1. launcher \in Fingerprint
    BY DEF RefreshArrives, CatalogueInv, CatalogueTypeOK
<1>2. Orphaned(launcher) \in [Requests -> Refresh \union {Nothing}]
    BY OrphanedType DEF CatalogueInv, CatalogueTypeOK
<1>3. arrived \in Refresh
    BY <1>1 DEF Refresh, Ages
<1>4. refreshes' = [Orphaned(launcher) EXCEPT ![r] = arrived]
    BY DEF RefreshArrives
<1>5. refreshes' \in [Requests -> Refresh \union {Nothing}]
    BY <1>2, <1>3, <1>4
<1>6. ASSUME NEW q \in Requests
      PROVE  \/ refreshes'[q] = Orphaned(launcher)[q]
             \/ refreshes'[q].at = "waiting" /\ refreshes'[q].of = launcher
    BY <1>2, <1>4
<1> QED
    BY <1>1, <1>5, <1>6, LookupKeepsInv DEF RefreshArrives

LEMMA AnswersInv == ASSUME CatalogueInv, NEW r \in Requests, RefreshAnswers(r)
                    PROVE  CatalogueInv'
<1>1. refreshes[r].of \in Fingerprint
    BY DEF RefreshAnswers, In, CatalogueInv, CatalogueTypeOK, Refresh
<1>2. Orphaned(refreshes[r].of) \in [Requests -> Refresh \union {Nothing}]
    BY OrphanedType DEF CatalogueInv, CatalogueTypeOK
<1>3. refreshes' = [Orphaned(refreshes[r].of) EXCEPT ![r] = Nothing]
    BY DEF RefreshAnswers
<1>4. refreshes' \in [Requests -> Refresh \union {Nothing}]
    BY <1>2, <1>3
<1>5. ASSUME NEW q \in Requests
      PROVE  refreshes'[q] = Nothing \/ refreshes'[q] = Orphaned(refreshes[r].of)[q]
    BY <1>2, <1>3
<1> QED
    BY <1>1, <1>4, <1>5, LookupKeepsInv DEF RefreshAnswers

-----------------------------------------------------------------------------
(* Steps of one refresh, which keeps its fingerprint, whether its entry is *)
(* kept and, once it runs, its start.                                      *)
LEMMA OneRefreshInv ==
    ASSUME CatalogueInv, NEW r \in Requests, refreshes[r] # Nothing,
           UNCHANGED <<launcher, offer, offered, edits>>,
           entry' \in Entry \union {Nothing}, EntrySeen',
           refreshes[r].ours /\ entry # Nothing => entry' # Nothing /\ entry'.of = entry.of,
           ~refreshes[r].ours \/ entry = Nothing => entry' = entry,
           NEW next \in Refresh, refreshes' = [refreshes EXCEPT ![r] = next],
           next.of = refreshes[r].of, next.ours = refreshes[r].ours,
           next.at \in {"running", "read"} => next.started \in 0..Ttl,
           next.at = "read" => Seen(next.of.setup, next.models, next.started)
    PROVE  CatalogueInv'
<1> USE DEF CatalogueInv
<1>1. refreshes' \in [Requests -> Refresh \union {Nothing}]
    BY DEF CatalogueTypeOK
<1>2. CatalogueTypeOK'
    BY <1>1 DEF CatalogueTypeOK
<1>3. refreshes'[r] = next /\ \A q \in Requests \ {r} : refreshes'[q] = refreshes[q]
    BY DEF CatalogueTypeOK
<1>4. ReadsSeen'
    BY <1>3 DEF ReadsSeen, Seen
<1>5. OursIsKept'
    <2> SUFFICES ASSUME NEW q \in Requests, refreshes'[q] # Nothing, refreshes'[q].ours
                 PROVE  entry' # Nothing /\ entry'.of = refreshes'[q].of
        BY DEF OursIsKept
    <2>1. refreshes[q] # Nothing /\ refreshes[q].ours /\ refreshes'[q].of = refreshes[q].of
        <3>1. CASE q = r
            BY <1>3, <3>1
        <3>2. CASE q # r
            BY <1>3, <3>2
        <3> QED
            BY <3>1, <3>2
    <2>2. entry # Nothing /\ entry.of = refreshes[q].of
        BY <2>1 DEF OursIsKept
    <2> QED
        BY <2>1, <2>2
<1> QED
    BY <1>2, <1>4, <1>5 DEF OnOffer, RevisionsAreFew

LEMMA StartsInv == ASSUME CatalogueInv, NEW r \in Requests, RefreshStarts(r)
                   PROVE  CatalogueInv'
<1> DEFINE next == [refreshes[r] EXCEPT !.at = "running", !.started = 0]
<1>1. refreshes[r] # Nothing /\ refreshes[r] \in Refresh
    BY DEF RefreshStarts, In, CatalogueInv, CatalogueTypeOK
<1>2. 0 \in Ages /\ 0 \in 0..Ttl
    BY CatalogueAssumption DEF Ages
<1>3. /\ next \in Refresh /\ next.of = refreshes[r].of /\ next.at = "running"
      /\ next.started = 0 /\ next.ours = refreshes[r].ours
    BY <1>1, <1>2 DEF Refresh
<1>4. refreshes' = [refreshes EXCEPT ![r] = next]
    BY <1>1 DEF RefreshStarts, CatalogueInv, CatalogueTypeOK
<1>5. entry' \in Entry \union {Nothing} /\ EntrySeen' /\ entry' = entry
    BY DEF RefreshStarts, CatalogueInv, CatalogueTypeOK, EntrySeen, Seen
<1>6. UNCHANGED <<launcher, offer, offered, edits>>
    BY DEF RefreshStarts
<1>7. next.started \in 0..Ttl /\ next.at # "read"
    BY <1>2, <1>3
<1> HIDE DEF next
<1> QED
    BY <1>1, <1>3, <1>4, <1>5, <1>6, <1>7, OneRefreshInv

LEMMA ReadsInv == ASSUME CatalogueInv, NEW r \in Requests, CommandReads(r)
                  PROVE  CatalogueInv'
<1> DEFINE setup == refreshes[r].of.setup
           next == [refreshes[r] EXCEPT !.at = "read", !.models = offer[setup]]
<1>1. refreshes[r] # Nothing /\ refreshes[r] \in Refresh /\ refreshes[r].at = "running"
    BY DEF CommandReads, In, CatalogueInv, CatalogueTypeOK
<1>2. setup \in Setups
    BY <1>1 DEF Refresh, Fingerprint
<1>3. offer[setup] \in Offers /\ offered[setup][offer[setup]] = 0
    BY <1>2 DEF CatalogueInv, CatalogueTypeOK, OnOffer
<1>4. /\ next \in Refresh /\ next.of = refreshes[r].of /\ next.at = "read"
      /\ next.started = refreshes[r].started /\ next.models = offer[setup]
    BY <1>1, <1>3 DEF Refresh
<1>5. next.ours = refreshes[r].ours
    BY <1>1 DEF Refresh
<1>6. next.started \in 0..Ttl
    BY <1>1, <1>4 DEF CatalogueInv, ReadsSeen
<1>7. Seen(next.of.setup, next.models, next.started)
    BY <1>3, <1>4, <1>6, CatalogueAssumption DEF Seen
<1>8. refreshes' = [refreshes EXCEPT ![r] = next]
    BY <1>1 DEF CommandReads, CatalogueInv, CatalogueTypeOK
<1>9. entry' \in Entry \union {Nothing} /\ EntrySeen' /\ entry' = entry
    BY DEF CommandReads, CatalogueInv, CatalogueTypeOK, EntrySeen, Seen
<1>10. UNCHANGED <<launcher, offer, offered, edits>>
    BY DEF CommandReads
<1> HIDE DEF next
<1> QED
    BY <1>1, <1>4, <1>5, <1>6, <1>7, <1>8, <1>9, <1>10, OneRefreshInv

LEMMA SucceedsInv == ASSUME CatalogueInv, NEW r \in Requests, RefreshSucceeds(r)
                     PROVE  CatalogueInv'
<1> DEFINE next == [refreshes[r] EXCEPT !.at = "done"]
           ready == [entry EXCEPT !.status = "ready", !.models = refreshes[r].models,
                                  !.fetched = refreshes[r].started]
<1>1. refreshes[r] # Nothing /\ refreshes[r] \in Refresh /\ refreshes[r].at = "read"
    BY DEF RefreshSucceeds, In, CatalogueInv, CatalogueTypeOK
<1>2. /\ next \in Refresh /\ next.of = refreshes[r].of /\ next.at = "done"
      /\ next.ours = refreshes[r].ours
    BY <1>1 DEF Refresh
<1>3. refreshes' = [refreshes EXCEPT ![r] = next]
    BY <1>1 DEF RefreshSucceeds, CatalogueInv, CatalogueTypeOK
<1>4. entry' = IF refreshes[r].ours THEN ready ELSE entry
    BY DEF RefreshSucceeds, Fetched
<1>5. entry \in Entry \union {Nothing} /\ EntrySeen
    BY DEF CatalogueInv, CatalogueTypeOK
<1>6. UNCHANGED <<launcher, offer, offered, edits>>
    BY DEF RefreshSucceeds
<1>7. CASE ~refreshes[r].ours
    <2>1. entry' = entry /\ EntrySeen'
        BY <1>4, <1>5, <1>6, <1>7 DEF EntrySeen, Seen
    <2> HIDE DEF next
    <2> QED
        BY <1>1, <1>2, <1>3, <1>5, <1>6, <1>7, <2>1, OneRefreshInv
<1>8. CASE refreshes[r].ours
    <2>1. entry \in Entry /\ entry # Nothing /\ entry.of = refreshes[r].of
        BY <1>1, <1>5, <1>8 DEF CatalogueInv, OursIsKept
    <2>2. Seen(refreshes[r].of.setup, refreshes[r].models, refreshes[r].started)
        BY <1>1 DEF CatalogueInv, ReadsSeen
    <2>3. refreshes[r].models \in Offers /\ refreshes[r].started \in Ages
        BY <1>1, <2>2 DEF Refresh, Seen
    <2>4. /\ ready \in Entry /\ ready.of = entry.of /\ ready.models = refreshes[r].models
          /\ ready.fetched = refreshes[r].started
        BY <2>1, <2>3 DEF Entry
    <2>5. entry' = ready
        BY <1>4, <1>8
    <2> HIDE DEF ready
    <2>6. entry' # Nothing
        BY <2>4, <2>5, CatalogueAssumption
    <2>7. EntrySeen'
        BY <1>6, <2>1, <2>2, <2>4, <2>5 DEF EntrySeen, Seen
    <2> HIDE DEF next
    <2> QED
        BY <1>1, <1>2, <1>3, <1>6, <1>8, <2>1, <2>4, <2>5, <2>6, <2>7, OneRefreshInv
<1> QED
    BY <1>7, <1>8

LEMMA FailsInv == ASSUME CatalogueInv, NEW r \in Requests, RefreshFails(r)
                  PROVE  CatalogueInv'
<1> DEFINE next == [refreshes[r] EXCEPT !.at = "done"]
<1>1. refreshes[r] # Nothing /\ refreshes[r] \in Refresh
    BY DEF RefreshFails, In, CatalogueInv, CatalogueTypeOK
<1>2. /\ next \in Refresh /\ next.of = refreshes[r].of /\ next.at = "done"
      /\ next.ours = refreshes[r].ours
    BY <1>1 DEF Refresh
<1>3. refreshes' = [refreshes EXCEPT ![r] = next]
    BY <1>1 DEF RefreshFails, CatalogueInv, CatalogueTypeOK
<1>4. entry' = IF refreshes[r].ours THEN Failed ELSE entry
    BY DEF RefreshFails
<1>5. entry \in Entry \union {Nothing} /\ EntrySeen
    BY DEF CatalogueInv, CatalogueTypeOK
<1>6. UNCHANGED <<launcher, offer, offered, edits>>
    BY DEF RefreshFails
<1> HIDE DEF next
<1>7. CASE ~refreshes[r].ours
    <2>1. entry' = entry /\ EntrySeen'
        BY <1>4, <1>5, <1>6, <1>7 DEF EntrySeen, Seen
    <2> QED
        BY <1>1, <1>2, <1>3, <1>5, <1>6, <1>7, <2>1, OneRefreshInv
<1>8. CASE refreshes[r].ours
    <2>1. entry \in Entry /\ entry # Nothing
        BY <1>1, <1>5, <1>8 DEF CatalogueInv, OursIsKept
    <2>2. Failed \in Entry /\ Failed.of = entry.of /\ Failed.status # "ready"
        BY <2>1 DEF Failed, Entry
    <2>3. entry' = Failed /\ entry' # Nothing
        BY <1>4, <1>8, <2>2, CatalogueAssumption
    <2>4. EntrySeen'
        BY <2>2, <2>3 DEF EntrySeen
    <2> QED
        BY <1>1, <1>2, <1>3, <1>6, <1>8, <2>1, <2>2, <2>3, <2>4, OneRefreshInv
<1> QED
    BY <1>7, <1>8

-----------------------------------------------------------------------------
(* The operator and the device.                                            *)
LEMMA SetInv == ASSUME CatalogueInv, NEW s \in Setups, LauncherIsSet(s)
                PROVE  CatalogueInv'
<1> DEFINE revision == IF launcher = Nothing THEN 1 ELSE launcher.revision + 1
<1>1. edits \in 0..MaxEdits /\ edits < MaxEdits /\ edits' = edits + 1
    BY DEF LauncherIsSet, Edit, CatalogueInv, CatalogueTypeOK
<1>2. revision \in 1..(MaxEdits + 1) /\ revision <= edits' + 1
    <2>1. CASE launcher = Nothing
        BY <1>1, <2>1, CatalogueAssumption
    <2>2. CASE launcher # Nothing
        <3>1. launcher.revision \in 1..(MaxEdits + 1) /\ launcher.revision <= edits + 1
            BY <2>2 DEF CatalogueInv, CatalogueTypeOK, RevisionsAreFew, Fingerprint
        <3> QED
            BY <1>1, <2>2, <3>1, CatalogueAssumption
    <2> QED
        BY <2>1, <2>2
<1>3. launcher' = [setup |-> s, revision |-> revision]
    BY DEF LauncherIsSet
<1> HIDE DEF revision
<1>4. launcher' \in Fingerprint /\ launcher'.revision <= edits' + 1
    BY <1>2, <1>3 DEF Fingerprint
<1>5. edits' \in 0..MaxEdits
    BY <1>1, CatalogueAssumption
<1> QED
    BY <1>4, <1>5 DEF LauncherIsSet, CatalogueInv, CatalogueTypeOK, EntrySeen, ReadsSeen, Seen,
                      OursIsKept, OnOffer, RevisionsAreFew

LEMMA DeletedInv == ASSUME CatalogueInv, LauncherIsDeleted PROVE CatalogueInv'
<1>1. edits' \in 0..MaxEdits
    BY CatalogueAssumption DEF LauncherIsDeleted, Edit, CatalogueInv, CatalogueTypeOK
<1> QED
    BY <1>1 DEF LauncherIsDeleted, CatalogueInv, CatalogueTypeOK, EntrySeen, ReadsSeen, Seen,
                OursIsKept, OnOffer, RevisionsAreFew

(* Steps of the device: what was seen stays seen, if no list is counted    *)
(* older than what was fetched or started when it was on offer.            *)
LEMMA OfferInv == ASSUME CatalogueInv, NEW s \in Setups, NEW o \in Offers, OfferChanges(s, o)
                  PROVE  CatalogueInv'
<1> USE DEF CatalogueInv
<1>1. edits' \in 0..MaxEdits
    BY CatalogueAssumption DEF OfferChanges, Edit, CatalogueTypeOK
<1>2. UNCHANGED <<launcher, entry, refreshes>>
    BY DEF OfferChanges
<1>3. /\ offer' = [offer EXCEPT ![s] = o] /\ offered' = [offered EXCEPT ![s][o] = 0]
      /\ offer \in [Setups -> Offers] /\ offered \in [Setups -> [Offers -> Ages]]
    BY DEF OfferChanges, CatalogueTypeOK
<1>4. 0 \in Ages
    BY CatalogueAssumption DEF Ages
<1>5. offer' \in [Setups -> Offers] /\ offered' \in [Setups -> [Offers -> Ages]]
    BY <1>3, <1>4
<1>6. ASSUME NEW t \in Setups, NEW p \in Offers
      PROVE  offered'[t][p] = IF t = s /\ p = o THEN 0 ELSE offered[t][p]
    BY <1>3
<1>7. OnOffer'
    BY <1>3, <1>6 DEF OnOffer
<1>8. ASSUME NEW t \in Setups, NEW p, NEW age, Seen(t, p, age)
      PROVE  Seen(t, p, age)'
    <2>1. p \in Offers /\ age \in 0..Ttl /\ offered[t][p] \in 0..Ttl /\ offered[t][p] <= age
        BY <1>8 DEF Seen
    <2>2. offered'[t][p] \in 0..Ttl /\ offered'[t][p] <= age
        BY <1>6, <2>1, CatalogueAssumption
    <2> QED
        BY <2>1, <2>2 DEF Seen
<1>9. EntrySeen'
    <2> SUFFICES ASSUME entry # Nothing, entry.status = "ready"
                 PROVE  Seen(entry.of.setup, entry.models, entry.fetched)'
        BY <1>2 DEF EntrySeen
    <2>1. entry.of.setup \in Setups
        BY DEF CatalogueTypeOK, Entry, Fingerprint
    <2>2. Seen(entry.of.setup, entry.models, entry.fetched)
        BY DEF EntrySeen
    <2> QED
        BY <1>2, <1>8, <2>1, <2>2 DEF Seen
<1>10. ReadsSeen'
    <2> SUFFICES ASSUME NEW r \in Requests, refreshes[r] # Nothing
                 PROVE  /\ refreshes[r].at \in {"running", "read"} =>
                              refreshes[r].started \in 0..Ttl
                        /\ refreshes[r].at = "read" =>
                              Seen(refreshes[r].of.setup, refreshes[r].models,
                                   refreshes[r].started)'
        BY <1>2 DEF ReadsSeen
    <2>1. refreshes[r].of.setup \in Setups
        BY DEF CatalogueTypeOK, Refresh, Fingerprint
    <2>2. refreshes[r].at = "read" =>
              Seen(refreshes[r].of.setup, refreshes[r].models, refreshes[r].started)
        BY DEF ReadsSeen
    <2> QED
        BY <1>2, <1>8, <2>1, <2>2 DEF ReadsSeen, Seen
<1>11. CatalogueTypeOK'
    BY <1>1, <1>2, <1>5 DEF CatalogueTypeOK
<1>12. OursIsKept'
    BY <1>2 DEF OursIsKept
<1>13. RevisionsAreFew'
    BY <1>2 DEF OfferChanges, Edit, RevisionsAreFew, CatalogueTypeOK, Fingerprint
<1> QED
    BY <1>7, <1>9, <1>10, <1>11, <1>12, <1>13

(* Ages grow, in step, up to the time to live.                             *)
LEMMA OlderType ==
    /\ \A age \in Ages : Older(age) \in Ages
    /\ \A age \in 0..Ttl : Older(age) \in 0..Ttl
    /\ \A a, b \in 0..Ttl : a <= b => Older(a) <= Older(b)
<1>1. \A age \in 0..Ttl : Older(age) \in 0..Ttl
    BY CatalogueAssumption DEF Older
<1>2. Older(Nothing) = Nothing
    BY CatalogueAssumption DEF Older
<1>3. \A age \in Ages : Older(age) \in Ages
    BY <1>1, <1>2 DEF Ages
<1>4. \A a, b \in 0..Ttl : a <= b => Older(a) <= Older(b)
    BY CatalogueAssumption DEF Older
<1> QED
    BY <1>1, <1>3, <1>4

LEMMA PassesInv == ASSUME CatalogueInv, TimePasses PROVE CatalogueInv'
<1> USE DEF CatalogueInv
<1>1. UNCHANGED <<launcher, offer, edits>>
    BY DEF TimePasses
<1>2. offered' \in [Setups -> [Offers -> Ages]]
    <2>1. 0 \in Ages
        BY CatalogueAssumption DEF Ages
    <2>2. \A s \in Setups, o \in Offers : Older(offered[s][o]) \in Ages
        BY OlderType DEF CatalogueTypeOK
    <2> HIDE DEF CatalogueInv
    <2> QED
        BY <2>1, <2>2 DEF TimePasses
<1>3. ASSUME NEW s \in Setups, NEW o \in Offers
      PROVE  offered'[s][o] = IF o = offer[s] THEN 0 ELSE Older(offered[s][o])
    BY DEF TimePasses
<1>4. OnOffer'
    <2> SUFFICES ASSUME NEW s \in Setups PROVE offered'[s][offer'[s]] = 0
        BY DEF OnOffer
    <2>1. offer'[s] = offer[s] /\ offer[s] \in Offers
        BY <1>1 DEF CatalogueTypeOK
    <2> QED
        BY <1>3, <2>1
<1>5. ASSUME NEW s \in Setups, NEW o, NEW age, Seen(s, o, age)
      PROVE  /\ Older(age) \in 0..Ttl /\ o \in Offers
             /\ offered'[s][o] \in 0..Ttl /\ offered'[s][o] <= Older(age)
    <2>1. o \in Offers /\ age \in 0..Ttl /\ offered[s][o] \in 0..Ttl /\ offered[s][o] <= age
        BY <1>5 DEF Seen
    <2>2. Older(age) \in 0..Ttl /\ Older(offered[s][o]) \in 0..Ttl
          /\ Older(offered[s][o]) <= Older(age)
        BY <2>1, OlderType
    <2>3. 0 \in 0..Ttl /\ 0 <= Older(age)
        BY <2>2, CatalogueAssumption
    <2>4. CASE o = offer[s]
        BY <1>3, <2>1, <2>2, <2>3, <2>4
    <2>5. CASE o # offer[s]
        BY <1>3, <2>1, <2>2, <2>5
    <2> QED
        BY <2>4, <2>5
<1>6. /\ entry = Nothing => entry' = Nothing
      /\ entry # Nothing => /\ entry' \in Entry /\ entry' # Nothing
                            /\ entry'.of = entry.of /\ entry'.status = entry.status
                            /\ entry'.models = entry.models
                            /\ entry'.fetched = Older(entry.fetched)
    <2>1. entry = Nothing => entry' = Nothing
        BY DEF TimePasses
    <2>2. ASSUME entry # Nothing
          PROVE  /\ entry' \in Entry /\ entry' # Nothing
                 /\ entry'.of = entry.of /\ entry'.status = entry.status
                 /\ entry'.models = entry.models /\ entry'.fetched = Older(entry.fetched)
        <3>1. entry \in Entry
            BY <2>2 DEF CatalogueTypeOK
        <3>2. Older(entry.fetched) \in Ages
            BY <3>1, OlderType DEF Entry
        <3>3. entry' = [entry EXCEPT !.fetched = Older(entry.fetched)]
            BY <2>2 DEF TimePasses
        <3>4. /\ entry' \in Entry
              /\ entry'.of = entry.of /\ entry'.status = entry.status
              /\ entry'.models = entry.models /\ entry'.fetched = Older(entry.fetched)
            BY <3>1, <3>2, <3>3 DEF Entry
        <3> QED
            BY <3>4, CatalogueAssumption
    <2> QED
        BY <2>1, <2>2
<1>7. ASSUME NEW r \in Requests
      PROVE  /\ refreshes'[r] \in Refresh \union {Nothing}
             /\ refreshes'[r] # Nothing => refreshes[r] # Nothing
             /\ refreshes[r] # Nothing =>
                  /\ refreshes'[r].at = refreshes[r].at /\ refreshes'[r].of = refreshes[r].of
                  /\ refreshes'[r].ours = refreshes[r].ours
                  /\ refreshes'[r].models = refreshes[r].models
                  /\ refreshes'[r].started = Older(refreshes[r].started)
    <2>1. CASE refreshes[r] = Nothing
        BY <2>1 DEF TimePasses
    <2>2. CASE refreshes[r] # Nothing
        <3>1. refreshes[r] \in Refresh
            BY <2>2 DEF CatalogueTypeOK
        <3>2. Older(refreshes[r].started) \in Ages
            BY <3>1, OlderType DEF Refresh
        <3>3. refreshes'[r] = [refreshes[r] EXCEPT !.started = Older(refreshes[r].started)]
            BY <2>2 DEF TimePasses
        <3> QED
            BY <2>2, <3>1, <3>2, <3>3 DEF Refresh
    <2> QED
        BY <2>1, <2>2
<1>8. refreshes' \in [Requests -> Refresh \union {Nothing}]
    <2>1. refreshes' = [r \in Requests |-> refreshes'[r]]
        BY DEF TimePasses
    <2> QED
        BY <1>7, <2>1
<1>9. CatalogueTypeOK'
    BY <1>1, <1>2, <1>6, <1>8 DEF CatalogueTypeOK
<1>10. EntrySeen'
    <2> SUFFICES ASSUME entry' # Nothing, entry'.status = "ready"
                 PROVE  Seen(entry.of.setup, entry.models, entry.fetched)'
        BY DEF EntrySeen
    <2>1. entry # Nothing /\ entry.of.setup \in Setups
        BY <1>6 DEF CatalogueTypeOK, Entry, Fingerprint
    <2>2. Seen(entry.of.setup, entry.models, entry.fetched)
        BY <1>6, <2>1 DEF EntrySeen
    <2> QED
        BY <1>5, <1>6, <2>1, <2>2 DEF Seen
<1>11. ReadsSeen'
    <2> SUFFICES ASSUME NEW r \in Requests, refreshes'[r] # Nothing
                 PROVE  /\ refreshes'[r].at \in {"running", "read"} =>
                              refreshes'[r].started \in 0..Ttl
                        /\ refreshes'[r].at = "read" =>
                              Seen(refreshes[r].of.setup, refreshes[r].models,
                                   refreshes[r].started)'
        BY DEF ReadsSeen
    <2>1. refreshes[r] # Nothing /\ refreshes[r].of.setup \in Setups
        BY <1>7 DEF CatalogueTypeOK, Refresh, Fingerprint
    <2>2. refreshes'[r].at \in {"running", "read"} => refreshes'[r].started \in 0..Ttl
        BY <1>7, <2>1, OlderType DEF ReadsSeen
    <2>3. ASSUME refreshes'[r].at = "read"
          PROVE  Seen(refreshes[r].of.setup, refreshes[r].models, refreshes[r].started)'
        <3>1. Seen(refreshes[r].of.setup, refreshes[r].models, refreshes[r].started)
            BY <1>7, <2>1, <2>3 DEF ReadsSeen
        <3> QED
            BY <1>5, <1>7, <2>1, <3>1 DEF Seen
    <2> QED
        BY <2>2, <2>3
<1>12. OursIsKept'
    BY <1>6, <1>7 DEF OursIsKept
<1> QED
    BY <1>1, <1>4, <1>9, <1>10, <1>11, <1>12 DEF RevisionsAreFew

LEMMA StutterInv == CatalogueInv /\ UNCHANGED catalogueVars => CatalogueInv'
BY DEF catalogueVars, CatalogueInv, CatalogueTypeOK, EntrySeen, ReadsSeen, Seen, OursIsKept,
       OnOffer, RevisionsAreFew

LEMMA NextInv == CatalogueInv /\ [CatalogueNext]_catalogueVars => CatalogueInv'
<1> SUFFICES ASSUME CatalogueInv, CatalogueNext PROVE CatalogueInv'
    BY StutterInv
<1>1. CASE Looks
    BY <1>1, LooksInv
<1>2. ASSUME NEW r \in Requests,
             \/ RefreshArrives(r) \/ RefreshStarts(r) \/ CommandReads(r)
             \/ RefreshSucceeds(r) \/ RefreshFails(r) \/ RefreshAnswers(r)
      PROVE  CatalogueInv'
    BY <1>2, ArrivesInv, StartsInv, ReadsInv, SucceedsInv, FailsInv, AnswersInv
<1>3. ASSUME NEW s \in Setups, LauncherIsSet(s) PROVE CatalogueInv'
    BY <1>3, SetInv
<1>4. CASE LauncherIsDeleted
    BY <1>4, DeletedInv
<1>5. ASSUME NEW s \in Setups, NEW o \in Offers, OfferChanges(s, o) PROVE CatalogueInv'
    BY <1>5, OfferInv
<1>6. CASE TimePasses
    BY <1>6, PassesInv
<1> QED
    BY <1>1, <1>2, <1>3, <1>4, <1>5, <1>6 DEF CatalogueNext

-----------------------------------------------------------------------------
(* Every reachable state is well typed: an entry that was ever ready has a *)
(* list and its age, and revisions are counted by the edits.               *)
THEOREM CatalogueTypeCorrect == CatalogueSpec => []CatalogueTypeOK
<1>1. CatalogueSpec => []CatalogueInv
    BY InitInv, NextInv, PTL DEF CatalogueSpec
<1>2. CatalogueInv => CatalogueTypeOK
    BY DEF CatalogueInv
<1> QED
    BY <1>1, <1>2, PTL

(* Models that a spawn may choose from were on offer for the launcher as   *)
(* it is now, less than the time to live ago (refreshOne, stateFor,        *)
(* resolveSelection): an entry belongs to one fingerprint, what it lists   *)
(* was read after the start that its age counts from, and a refresh whose  *)
(* entry was replaced writes where nobody looks.                           *)
THEOREM CurrentModelsAlwaysOffered == CatalogueSpec => []CurrentModelsAreOffered
<1>1. CatalogueSpec => []CatalogueInv
    BY InitInv, NextInv, PTL DEF CatalogueSpec
<1> QED
    BY <1>1, InvImplies, PTL

-----------------------------------------------------------------------------
(* The drafts of the web client.                                           *)

(* A draft without a text is one whose send is unconfirmed.                *)
EmptyIsUncertain ==
    \A t \in Targets : drafts[t] # None /\ drafts[t].body = None => Is(t, "uncertain")

(* What was not confirmed is still in the store, and marked so.            *)
UnsureIsMarked == \A t \in Targets : unsure[t] => Is(t, "uncertain")

DraftsInv == DraftsTypeOK /\ EmptyIsUncertain /\ LockedWhileSent /\ UnsureIsMarked

LEMMA NoneIsNothingElse ==
    /\ \A d \in Draft : d # None /\ d.body \in Texts \union {Blank, None}
                                 /\ d.delivery \in {"editable", "sending", "uncertain"}
    /\ \A x \in Send : x # None /\ x.target \in Targets /\ x.text \in Texts \union {Blank}
                                /\ x.from \in Views /\ x.at \in {"looking", "posted"}
    /\ \A s \in Sends : s # None
    /\ \A t \in Targets : t # None
    /\ \A b \in Texts \union {Blank} : b # None
BY DraftsAssumption DEF Draft, Send

(* A fresh page of the browser satisfies the invariant, at the start and   *)
(* after a reload.                                                         *)
LEMMA DraftsInitInv == DraftsInit => DraftsInv
<1> SUFFICES ASSUME DraftsInit PROVE DraftsInv
    OBVIOUS
<1>1. drafts = [t \in Targets |-> None] /\ shown = [v \in Views |-> None]
      /\ sends = [s \in Sends |-> None] /\ pending = [v \in Views |-> None]
      /\ unsure = [t \in Targets |-> FALSE]
    BY DEF DraftsInit, Blanked
<1>2. Used = {}
    BY <1>1 DEF Used
<1>3. Cardinality(Used) <= DraftLimit
    BY <1>2, FS_EmptySet, DraftsAssumption
<1>4. DraftsTypeOK
    BY <1>1, <1>3 DEF DraftsInit, DraftsTypeOK, Views
<1>5. \A t \in Targets : Under(t) = {} /\ ~Is(t, "sending")
    BY <1>1 DEF Under, Is
<1> QED
    BY <1>1, <1>4, <1>5 DEF DraftsInv, EmptyIsUncertain, LockedWhileSent, UnsureIsMarked

(* No change of a draft that has a slot takes another slot.                *)
LEMMA UsedBound ==
    ASSUME DraftsTypeOK, NEW t \in Targets, NEW d, drafts' = [drafts EXCEPT ![t] = d],
           d = None \/ t \in Used \/ Cardinality(Used) < DraftLimit
    PROVE  Cardinality(Used)' <= DraftLimit
<1>1. IsFiniteSet(Used) /\ Used \subseteq Targets
    BY FS_Subset, DraftsAssumption DEF Used
<1>2. Cardinality(Used) \in Nat /\ Cardinality(Used) <= DraftLimit /\ DraftLimit \in Nat
    BY <1>1, FS_CardinalityType, DraftsAssumption DEF DraftsTypeOK
<1>3. Used' \subseteq Used \union {t} /\ (d = None => Used' \subseteq Used)
    BY DEF Used, DraftsTypeOK
<1>4. CASE d = None \/ t \in Used
    <2>1. Used' \subseteq Used
        BY <1>3, <1>4
    <2>2. Cardinality(Used') <= Cardinality(Used) /\ Cardinality(Used') \in Nat
        BY <2>1, <1>1, FS_Subset, FS_CardinalityType
    <2> QED
        BY <2>2, <1>2
<1>5. CASE t \notin Used /\ Cardinality(Used) < DraftLimit
    <2>1. IsFiniteSet(Used \union {t}) /\ Cardinality(Used \union {t}) = Cardinality(Used) + 1
        BY <1>1, <1>5, FS_AddElement
    <2>2. Cardinality(Used') <= Cardinality(Used \union {t}) /\ Cardinality(Used') \in Nat
        BY <1>3, <2>1, FS_Subset, FS_CardinalityType
    <2> QED
        BY <2>1, <2>2, <1>2, <1>5
<1> QED
    BY <1>4, <1>5

(* A step that neither begins nor ends a send: the draft of one target     *)
(* changes, and neither was nor becomes locked.                            *)
LEMMA QuietChange ==
    ASSUME DraftsInv, NEW t \in Targets, NEW d \in Draft \union {None},
           drafts' = [drafts EXCEPT ![t] = d], UNCHANGED <<shown, pending, formPending, notice, sends>>,
           d = None \/ t \in Used \/ Cardinality(Used) < DraftLimit,
           ~Is(t, "sending"),
           d # None => d.delivery # "sending",
           d # None /\ d.body = None => d.delivery = "uncertain",
           unsure' \in [Targets -> BOOLEAN],
           \A u \in Targets : u # t => unsure'[u] = unsure[u],
           unsure'[t] => d # None /\ d.delivery = "uncertain"
    PROVE  DraftsInv'
<1>1. DraftsTypeOK'
    BY UsedBound DEF DraftsInv, DraftsTypeOK
<1>2. \A u \in Targets : drafts'[u] = IF u = t THEN d ELSE drafts[u]
    BY DEF DraftsInv, DraftsTypeOK
<1>3. \A u \in Targets : Under(u)' = Under(u)
    BY DEF Under
<1>4. EmptyIsUncertain'
    BY <1>2 DEF DraftsInv, EmptyIsUncertain, Is
<1>5. UnsureIsMarked'
    BY <1>2 DEF DraftsInv, UnsureIsMarked, Is
<1>6. \A u \in Targets : Is(u, "sending")' <=> Is(u, "sending")
    BY <1>2 DEF Is
<1>7. LockedWhileSent'
    <2> SUFFICES ASSUME NEW u \in Targets
        PROVE /\ Is(u, "sending")' <=> Under(u)' # {}
              /\ \A s \in Under(u)' : Under(u)' = {s} /\ drafts'[u].body = sends'[s].text
        BY DEF LockedWhileSent
    <2>1. /\ Is(u, "sending") <=> Under(u) # {}
          /\ \A s \in Under(u) : Under(u) = {s} /\ drafts[u].body = sends[s].text
        BY DEF DraftsInv, LockedWhileSent
    <2> QED
        BY <2>1, <1>2, <1>3, <1>6
<1> QED
    BY <1>1, <1>4, <1>5, <1>7 DEF DraftsInv

LEMMA WriteInv ==
    ASSUME DraftsInv, NEW v \in Views, NEW body \in Texts \union {Blank, None}, Write(v, body)
    PROVE  DraftsInv'
<1>1. PICK t \in Targets :
      /\ t = shown[v] /\ ~Is(t, "sending")
      /\ drafts' = [drafts EXCEPT ![t] = Edited(t, body)]
      /\ UNCHANGED <<shown, pending, formPending, notice, sends, unsure>>
      /\ t \in Used \/ body = None \/ Cardinality(Used) < DraftLimit
    BY DEF Write, DraftsInv, DraftsTypeOK
<1>d. PICK d : d = Edited(t, body)
    OBVIOUS
<1>2. drafts[t] \in Draft \union {None} /\ unsure \in [Targets -> BOOLEAN]
    BY <1>1 DEF DraftsInv, DraftsTypeOK
<1>3. /\ d \in Draft \union {None}
      /\ d # None => d.delivery # "sending"
      /\ d # None /\ d.body = None => d.delivery = "uncertain"
      /\ Is(t, "uncertain") => d # None /\ d.delivery = "uncertain"
      /\ d = None \/ t \in Used \/ body # None
    BY <1>1, <1>d, <1>2, NoneIsNothingElse DEF Edited, Is, Draft, Used
<1>4. unsure'[t] => d # None /\ d.delivery = "uncertain"
    BY <1>1, <1>3 DEF DraftsInv, UnsureIsMarked
<1> QED
    BY <1>1, <1>d, <1>2, <1>3, <1>4, QuietChange

LEMMA AllowInv == ASSUME DraftsInv, NEW v \in Views, Allow(v) PROVE DraftsInv'
<1>1. PICK t \in Targets :
      /\ t = shown[v] /\ Is(t, "uncertain") /\ t \in Used
      /\ drafts' = [drafts EXCEPT ![t] = Marked(t, "editable")]
      /\ unsure' = [unsure EXCEPT ![t] = FALSE]
      /\ UNCHANGED <<shown, pending, formPending, notice, sends>>
    BY DEF Allow, DraftsInv, DraftsTypeOK, Is, Used
<1>d. PICK d : d = Marked(t, "editable")
    OBVIOUS
<1>2. drafts[t] \in Draft \union {None} /\ unsure \in [Targets -> BOOLEAN]
    BY <1>1 DEF DraftsInv, DraftsTypeOK
<1>3. /\ d \in Draft \union {None}
      /\ d # None => d.delivery # "sending" /\ d.body # None
      /\ ~Is(t, "sending")
    BY <1>1, <1>d, <1>2, NoneIsNothingElse DEF Marked, Is, Draft
<1>4. /\ unsure' \in [Targets -> BOOLEAN] /\ ~unsure'[t]
      /\ \A u \in Targets : u # t => unsure'[u] = unsure[u]
    BY <1>1, <1>2
<1> QED
    BY <1>1, <1>d, <1>3, <1>4, QuietChange

LEMMA BeginInv ==
    ASSUME DraftsInv, NEW v \in Views, NEW s \in Sends, SendBegins(v, s)
    PROVE  DraftsInv'
<1>1. PICK t \in Targets :
      /\ t = shown[v] /\ Is(t, "editable") /\ sends[s] = None
      /\ drafts' = [drafts EXCEPT ![t] = Marked(t, "sending")]
      /\ sends' = [sends EXCEPT ![s] = [target |-> t, text |-> drafts[t].body, from |-> v,
                       at |-> IF t \in Terminals THEN "looking" ELSE "posted"]]
      /\ pending' = [pending EXCEPT ![v] = s]
      /\ formPending' = (formPending \/ v = "menu")
      /\ UNCHANGED <<shown, notice, unsure>>
    BY DEF SendBegins, Startable, DraftsInv, DraftsTypeOK
<1>d. PICK d : d = [drafts[t] EXCEPT !.delivery = "sending"]
    OBVIOUS
<1>n. PICK new : new = [target |-> t, text |-> drafts[t].body, from |-> v,
                        at |-> IF t \in Terminals THEN "looking" ELSE "posted"]
    OBVIOUS
<1>2. drafts[t] \in Draft /\ drafts[t].body # None /\ t \in Used /\ Marked(t, "sending") = d
    BY <1>1, <1>d DEF DraftsInv, DraftsTypeOK, EmptyIsUncertain, Is, Used, Marked
<1>3. d \in Draft /\ d # None /\ d.delivery = "sending" /\ d.body = drafts[t].body
    BY <1>2, <1>d, NoneIsNothingElse DEF Draft
<1>4. new \in Send /\ new # None /\ new.target = t /\ new.text = drafts[t].body
    BY <1>1, <1>2, <1>n, NoneIsNothingElse DEF Send, Draft
<1>5. \A u \in Targets : drafts'[u] = IF u = t THEN d ELSE drafts[u]
    BY <1>1, <1>2 DEF DraftsInv, DraftsTypeOK
<1>6. \A x \in Sends : sends'[x] = IF x = s THEN new ELSE sends[x]
    BY <1>1, <1>n DEF DraftsInv, DraftsTypeOK
<1>7. DraftsTypeOK'
    <2>1. Cardinality(Used)' <= DraftLimit
        BY <1>1, <1>2, UsedBound DEF DraftsInv
    <2>2. /\ drafts' \in [Targets -> Draft \union {None}]
          /\ sends' \in [Sends -> Send \union {None}]
          /\ pending' \in [Views -> Sends \union {None}]
          /\ formPending' \in BOOLEAN
        BY <1>1, <1>n, <1>2, <1>3, <1>4 DEF DraftsInv, DraftsTypeOK
    <2> QED
        BY <2>1, <2>2, <1>1 DEF DraftsInv, DraftsTypeOK
<1>8. EmptyIsUncertain'
    BY <1>5, <1>2, <1>3 DEF DraftsInv, EmptyIsUncertain, Is
<1>9. UnsureIsMarked'
    <2>1. ~unsure[t]
        BY <1>1 DEF DraftsInv, UnsureIsMarked, Is
    <2> QED
        BY <2>1, <1>1, <1>5 DEF DraftsInv, UnsureIsMarked, Is
<1>10. LockedWhileSent'
    <2>1. Under(t) = {} /\ s \notin Under(t)
        BY <1>1 DEF DraftsInv, LockedWhileSent, Is
    <2>2. Under(t)' = {s}
        BY <2>1, <1>4, <1>6 DEF Under
    <2>3. \A u \in Targets : u # t => Under(u)' = Under(u) /\ (Is(u, "sending")' <=> Is(u, "sending"))
        BY <1>1, <1>4, <1>5, <1>6 DEF Under, Is
    <2>4. \A u \in Targets : s \notin Under(u)
        BY <1>1 DEF Under
    <2> SUFFICES ASSUME NEW u \in Targets
        PROVE /\ Is(u, "sending")' <=> Under(u)' # {}
              /\ \A x \in Under(u)' : Under(u)' = {x} /\ drafts'[u].body = sends'[x].text
        BY DEF LockedWhileSent
    <2>5. CASE u = t
        BY <2>2, <2>5, <1>3, <1>4, <1>5, <1>6 DEF Is
    <2>6. CASE u # t
        <3>1. /\ Is(u, "sending") <=> Under(u) # {}
              /\ \A x \in Under(u) : Under(u) = {x} /\ drafts[u].body = sends[x].text
            BY DEF DraftsInv, LockedWhileSent
        <3>2. \A x \in Under(u) : x \in Sends /\ x # s
            BY <2>4 DEF Under
        <3> QED
            BY <3>1, <3>2, <2>3, <2>6, <1>5, <1>6
    <2> QED
        BY <2>5, <2>6
<1> QED
    BY <1>7, <1>8, <1>9, <1>10 DEF DraftsInv

(* The end of a send, with any result.                                     *)
LEMMA EndInv ==
    ASSUME DraftsInv, NEW s \in Sends, sends[s] # None, NEW d \in Draft \union {None},
           SendEnds(s, d),
           d # None => d.delivery \in {"editable", "uncertain"} /\ d.body # None,
           shown' = shown \/ shown' = [shown EXCEPT !.menu = None], notice' \in BOOLEAN,
           unsure' = unsure \/ (/\ unsure' = [unsure EXCEPT ![sends[s].target] = TRUE]
                                /\ d # None /\ d.delivery = "uncertain")
    PROVE  DraftsInv'
<1>1. PICK t \in Targets :
      /\ t = sends[s].target /\ s \in Under(t)
      /\ drafts' = [drafts EXCEPT ![t] = d]
      /\ pending' = [v \in Views |-> IF pending[v] = s THEN None ELSE pending[v]]
      /\ formPending' = (formPending /\ sends[s].from # "menu")
      /\ sends' = [sends EXCEPT ![s] = None]
    BY NoneIsNothingElse DEF SendEnds, Settled, DraftsInv, DraftsTypeOK, Under
<1>2. Is(t, "sending") /\ Under(t) = {s} /\ t \in Used /\ ~unsure[t]
    BY <1>1 DEF DraftsInv, LockedWhileSent, UnsureIsMarked, Is, Used
<1>a. unsure' = unsure \/ (unsure' = [unsure EXCEPT ![t] = TRUE] /\ d # None /\ d.delivery = "uncertain")
    BY <1>1
<1>b. \A x \in Sends : sends[x] # None /\ sends[x].target = t => x = s
    BY <1>2 DEF Under
<1>3. \A u \in Targets : drafts'[u] = IF u = t THEN d ELSE drafts[u]
    BY <1>1 DEF DraftsInv, DraftsTypeOK
<1>4. \A x \in Sends : sends'[x] = IF x = s THEN None ELSE sends[x]
    BY <1>1 DEF DraftsInv, DraftsTypeOK
<1>5. /\ unsure' \in [Targets -> BOOLEAN]
      /\ \A u \in Targets : u # t => unsure'[u] = unsure[u]
      /\ unsure'[t] => d # None /\ d.delivery = "uncertain"
    BY <1>1, <1>2, <1>a DEF DraftsInv, DraftsTypeOK
<1>6. DraftsTypeOK'
    <2>1. Cardinality(Used)' <= DraftLimit
        BY <1>1, <1>2, UsedBound DEF DraftsInv
    <2>2. /\ drafts' \in [Targets -> Draft \union {None}]
          /\ sends' \in [Sends -> Send \union {None}]
          /\ pending' \in [Views -> Sends \union {None}]
          /\ formPending' \in BOOLEAN
        BY <1>1 DEF DraftsInv, DraftsTypeOK
    <2>3. shown' \in [Views -> Targets \union {None}] /\ shown'["page"] \in Agents \union {None}
        BY DEF DraftsInv, DraftsTypeOK, Views
    <2> QED
        BY <2>1, <2>2, <2>3, <1>5 DEF DraftsTypeOK
<1>7. EmptyIsUncertain'
    BY <1>3 DEF DraftsInv, EmptyIsUncertain, Is
<1>8. UnsureIsMarked'
    BY <1>3, <1>5 DEF DraftsInv, UnsureIsMarked, Is
<1>9. LockedWhileSent'
    <2>1. Under(t)' = {}
        BY <1>4, <1>b DEF Under
    <2>2. \A u \in Targets : u # t => Under(u)' = Under(u) /\ s \notin Under(u)
        BY <1>1, <1>4 DEF Under
    <2> SUFFICES ASSUME NEW u \in Targets
        PROVE /\ Is(u, "sending")' <=> Under(u)' # {}
              /\ \A x \in Under(u)' : Under(u)' = {x} /\ drafts'[u].body = sends'[x].text
        BY DEF LockedWhileSent
    <2>3. CASE u = t
        BY <2>1, <2>3, <1>3 DEF Is
    <2>4. CASE u # t
        <3>1. /\ Is(u, "sending") <=> Under(u) # {}
              /\ \A x \in Under(u) : Under(u) = {x} /\ drafts[u].body = sends[x].text
            BY DEF DraftsInv, LockedWhileSent
        <3>2. Is(u, "sending")' <=> Is(u, "sending")
            BY <1>3, <2>4 DEF Is
        <3>3. \A x \in Under(u) : x \in Sends /\ x # s
            BY <2>2, <2>4 DEF Under
        <3> QED
            BY <3>1, <3>2, <3>3, <2>2, <2>4, <1>3, <1>4
    <2> QED
        BY <2>3, <2>4
<1> QED
    BY <1>6, <1>7, <1>8, <1>9 DEF DraftsInv

(* A draft under way that is marked with its result keeps its text.        *)
LEMMA MarkedKeepsText ==
    ASSUME DraftsInv, NEW s \in Sends, sends[s] # None,
           NEW delivery \in {"editable", "uncertain"}
    PROVE  LET d == Marked(Settled(s), delivery)
           IN d \in Draft /\ d # None /\ d.delivery = delivery /\ d.body # None
<1> DEFINE t == sends[s].target
<1>1. t \in Targets /\ s \in Under(t)
    BY NoneIsNothingElse DEF DraftsInv, DraftsTypeOK, Under
<1>2. Is(t, "sending")
    BY <1>1 DEF DraftsInv, LockedWhileSent
<1>3. drafts[t] \in Draft /\ drafts[t].body # None
    BY <1>1, <1>2 DEF DraftsInv, DraftsTypeOK, EmptyIsUncertain, Is
<1>4. Marked(t, delivery) = [drafts[t] EXCEPT !.delivery = delivery]
    BY <1>2, <1>3 DEF Marked, Is
<1> HIDE DEF t
<1>5. [drafts[t] EXCEPT !.delivery = delivery] \in Draft
      /\ [drafts[t] EXCEPT !.delivery = delivery].delivery = delivery
      /\ [drafts[t] EXCEPT !.delivery = delivery].body # None
    BY <1>3 DEF Draft
<1> QED
    BY <1>4, <1>5, NoneIsNothingElse DEF t, Settled

LEMMA DraftsNextInv == DraftsInv /\ [DraftsNext]_draftVars => DraftsInv'
<1> SUFFICES ASSUME DraftsInv, [DraftsNext]_draftVars PROVE DraftsInv'
    OBVIOUS
<1>1. ASSUME NEW v \in Views, NEW body \in Texts \union {Blank, None}, Write(v, body)
      PROVE DraftsInv'
    BY <1>1, WriteInv
<1>2. ASSUME NEW v \in Views, NEW s \in Sends, SendBegins(v, s) PROVE DraftsInv'
    BY <1>2, BeginInv
<1>3. ASSUME NEW s \in Sends, PaneFound(s) PROVE DraftsInv'
    <2>1. /\ sends[s] # None /\ sends' = [sends EXCEPT ![s].at = "posted"]
          /\ UNCHANGED <<drafts, shown, pending, formPending, notice, unsure>>
        BY <1>3 DEF PaneFound
    <2>2. sends[s] \in Send
        BY <2>1 DEF DraftsInv, DraftsTypeOK
    <2>3. /\ [sends[s] EXCEPT !.at = "posted"] \in Send
          /\ [sends[s] EXCEPT !.at = "posted"].target = sends[s].target
          /\ [sends[s] EXCEPT !.at = "posted"].text = sends[s].text
        BY <2>2 DEF Send
    <2>4. /\ sends' \in [Sends -> Send \union {None}]
          /\ \A x \in Sends : sends'[x] = IF x = s THEN [sends[s] EXCEPT !.at = "posted"] ELSE sends[x]
        BY <2>1, <2>3 DEF DraftsInv, DraftsTypeOK
    <2>5. \A x \in Sends : /\ sends'[x] # None <=> sends[x] # None
                           /\ sends[x] # None => /\ sends'[x].target = sends[x].target
                                                 /\ sends'[x].text = sends[x].text
        BY <2>1, <2>3, <2>4, NoneIsNothingElse
    <2>6. \A u \in Targets : Under(u)' = Under(u) /\ Under(u) \subseteq Sends
                             /\ (Is(u, "sending")' <=> Is(u, "sending"))
        BY <2>1, <2>5 DEF Under, Is
    <2>7. LockedWhileSent'
        <3> SUFFICES ASSUME NEW u \in Targets
            PROVE /\ Is(u, "sending")' <=> Under(u)' # {}
                  /\ \A x \in Under(u)' : Under(u)' = {x} /\ drafts'[u].body = sends'[x].text
            BY DEF LockedWhileSent
        <3>1. /\ Is(u, "sending") <=> Under(u) # {}
              /\ \A x \in Under(u) : Under(u) = {x} /\ drafts[u].body = sends[x].text
            BY DEF DraftsInv, LockedWhileSent
        <3>2. \A x \in Under(u) : sends'[x].text = sends[x].text
            BY <2>5 DEF Under
        <3> QED
            BY <3>1, <3>2, <2>1, <2>6
    <2>8. DraftsTypeOK'
        BY <2>1, <2>4 DEF DraftsInv, DraftsTypeOK, Used
    <2> QED
        BY <2>1, <2>7, <2>8 DEF DraftsInv, EmptyIsUncertain, UnsureIsMarked, Is
<1>4. ASSUME NEW s \in Sends, Confirmed(s) PROVE DraftsInv'
    <2>1. /\ sends[s] # None /\ SendEnds(s, None) /\ unsure' = unsure
          /\ shown' = shown \/ shown' = [shown EXCEPT !.menu = None]
          /\ notice' \in BOOLEAN
        BY <1>4 DEF Confirmed, DraftsInv, DraftsTypeOK
    <2> QED
        BY <2>1, EndInv
<1>5. ASSUME NEW s \in Sends, Refused(s) PROVE DraftsInv'
    <2> DEFINE d == Marked(Settled(s), "editable")
    <2>1. sends[s] # None /\ SendEnds(s, d) /\ unsure' = unsure /\ shown' = shown
         /\ notice' \in BOOLEAN
        BY <1>5 DEF Refused, DraftsInv, DraftsTypeOK
    <2>2. d \in Draft /\ d # None /\ d.delivery = "editable" /\ d.body # None
        BY <2>1, MarkedKeepsText
    <2> HIDE DEF d
    <2> QED
        BY <2>1, <2>2, EndInv
<1>6. ASSUME NEW s \in Sends, Unconfirmed(s) PROVE DraftsInv'
    <2> DEFINE d == Marked(Settled(s), "uncertain")
    <2>1. /\ sends[s] # None /\ SendEnds(s, d) /\ shown' = shown /\ notice' \in BOOLEAN
          /\ unsure' = [unsure EXCEPT ![sends[s].target] = TRUE]
        BY <1>6 DEF Unconfirmed, DraftsInv, DraftsTypeOK
    <2>2. d \in Draft /\ d # None /\ d.delivery = "uncertain" /\ d.body # None
        BY <2>1, MarkedKeepsText
    <2> HIDE DEF d
    <2> QED
        BY <2>1, <2>2, EndInv
<1>7. ASSUME NEW v \in Views, Allow(v) PROVE DraftsInv'
    BY <1>7, AllowInv
<1>8. ASSUME NEW t \in Targets \union {None}, MenuShows(t) PROVE DraftsInv'
    <2>1. /\ shown' = [shown EXCEPT !.menu = t] /\ pending' = [pending EXCEPT !.menu = None]
          /\ UNCHANGED <<drafts, formPending, notice, sends, unsure>>
        BY <1>8 DEF MenuShows
    <2> QED
        BY <2>1 DEF DraftsInv, DraftsTypeOK, EmptyIsUncertain, LockedWhileSent, UnsureIsMarked,
                    Is, Under, Used, Views
<1>9. ASSUME NEW t \in Agents \union {None}, PageShows(t) PROVE DraftsInv'
    <2>1. /\ shown' = [shown EXCEPT !.page = t] /\ pending' = [pending EXCEPT !.page = None]
          /\ UNCHANGED <<drafts, formPending, notice, sends, unsure>>
        BY <1>9 DEF PageShows
    <2>2. t \in Targets \union {None}
        BY DraftsAssumption
    <2> QED
        BY <2>1, <2>2 DEF DraftsInv, DraftsTypeOK, EmptyIsUncertain, LockedWhileSent,
                    UnsureIsMarked, Is, Under, Used, Views
<1>10. CASE Reload
    <2>1. DraftsInit'
        BY <1>10 DEF Reload, DraftsInit
    <2> QED
        BY <2>1, DraftsInitInv, PTL
<1>11. CASE NoticeOpens
    <2>1. /\ shown' = [shown EXCEPT !.menu = None] /\ pending' = [pending EXCEPT !.menu = None]
          /\ notice' \in BOOLEAN /\ UNCHANGED <<drafts, formPending, sends, unsure>>
        BY <1>11 DEF NoticeOpens
    <2> QED
        BY <2>1 DEF DraftsInv, DraftsTypeOK, EmptyIsUncertain, LockedWhileSent, UnsureIsMarked,
                    Is, Under, Used, Views
<1>12. CASE UNCHANGED draftVars
    BY <1>12 DEF draftVars, DraftsInv, DraftsTypeOK, EmptyIsUncertain, LockedWhileSent,
                 UnsureIsMarked, Is, Under, Used
<1> QED
    BY <1>1, <1>2, <1>3, <1>4, <1>5, <1>6, <1>7, <1>8, <1>9, <1>10, <1>11, <1>12
    DEF DraftsNext

LEMMA DraftsInvariant == DraftsSpec => []DraftsInv
BY DraftsInitInv, DraftsNextInv, PTL DEF DraftsSpec

(* Drafts, views and sends stay well typed, and no more targets than       *)
(* DraftLimit hold a draft, whatever result comes when.                    *)
THEOREM DraftsTypeCorrect == DraftsSpec => []DraftsTypeOK
<1>1. DraftsInv => DraftsTypeOK
    BY DEF DraftsInv
<1> QED
    BY <1>1, DraftsInvariant, PTL

(* A view never edits, sends or keeps locked what another view's send has  *)
(* or no longer has under way.                                             *)
THEOREM AlwaysLockedWhileSent == DraftsSpec => []LockedWhileSent
<1>1. DraftsInv => LockedWhileSent
    BY DEF DraftsInv
<1> QED
    BY <1>1, DraftsInvariant, PTL

(* An unconfirmed send is repeated only when a human has allowed it.       *)
THEOREM NeverBlindRepeat == DraftsSpec => []NoBlindRepeat
<1>1. DraftsInv => NoBlindRepeat
    BY DEF DraftsInv, LockedWhileSent, UnsureIsMarked, NoBlindRepeat, Is
<1> QED
    BY <1>1, DraftsInvariant, PTL

-----------------------------------------------------------------------------
(* The pages of a transcript.                                              *)

(* Bounded sets of numbers have a least and a greatest element.            *)
LEMMA LeastIn ==
    ASSUME NEW S \in SUBSET Nat, S # {}
    PROVE  Min(S) \in S /\ \A k \in S : Min(S) <= k
<1> DEFINE Less == {pair \in Nat \X Nat : pair[1] < pair[2]}
<1>1. IsWellFoundedOn(Less, Nat)
    BY NatLessThanWellFounded DEF OpToRel
<1>2. \E m \in S : \A k \in S : ~ (<<k, m>> \in Less)
    <2> HIDE DEF Less
    <2> QED
        BY <1>1, WFMin
<1>3. \A k, m \in S : k < m => <<k, m>> \in Less
    OBVIOUS
<1>4. PICK m \in S : \A k \in S : ~ (k < m)
    <2> HIDE DEF Less
    <2> QED
        BY <1>2, <1>3
<1>5. \A k \in S : m <= k
    BY <1>4
<1> QED
    BY <1>5 DEF Min

LEMMA GreatestIn ==
    ASSUME NEW n \in Nat, NEW S \in SUBSET (0..n), S # {}
    PROVE  Max(S) \in S /\ \A k \in S : k <= Max(S)
<1> DEFINE Above == {k \in Nat : \A m \in S : m <= k}
<1>1. Above \in SUBSET Nat /\ n \in Above
    OBVIOUS
<1>2. Min(Above) \in Above /\ \A j \in Above : Min(Above) <= j
    <2> HIDE DEF Above
    <2> QED
        BY <1>1, LeastIn
<1> DEFINE k == Min(Above)
<1>3. k \in Nat /\ (\A m \in S : m <= k) /\ \A j \in Nat : (\A m \in S : m <= j) => k <= j
    BY <1>2
<1> HIDE DEF k
<1>4. k \in S
    <2> SUFFICES ASSUME k \notin S
                 PROVE  FALSE
        OBVIOUS
    <2>1. \A m \in S : m <= k - 1
        BY <1>3
    <2>2. \E m \in S : TRUE
        OBVIOUS
    <2>3. k - 1 \in Nat
        BY <1>3, <2>1, <2>2
    <2> QED
        BY <1>3, <2>1, <2>3
<1>5. \A m \in S : k >= m
    BY <1>3
<1> QED
    BY <1>4, <1>5 DEF Max

-----------------------------------------------------------------------------
(* The running totals of the lines.                                        *)

LinesOK ==
    /\ style \in {"file", "chunks", "store"}
    /\ lines \in Seq(WrittenLines)
    /\ \A i \in DOMAIN lines :
        /\ End(i) = Begin(i) + lines[i].size
        /\ lines[i].turns > 0 => lines[i].size > 1
    /\ \A i, j \in 0..Len(lines) : i < j => End(i) < End(j) /\ Told(i) <= Told(j)

LEMMA TotalsType ==
    ASSUME LinesOK
    PROVE  /\ Len(lines) \in Nat /\ DOMAIN lines = 1..Len(lines)
           /\ \A i \in 0..Len(lines) : End(i) \in Nat /\ Told(i) \in Nat
           /\ \A i \in DOMAIN lines : /\ lines[i] \in WrittenLines
                                      /\ Begin(i) \in Nat
                                      /\ i - 1 \in 0..Len(lines)
<1>1. Len(lines) \in Nat /\ DOMAIN lines = 1..Len(lines)
    BY DEF LinesOK
<1>2. \A i \in DOMAIN lines : lines[i] \in WrittenLines
    BY DEF LinesOK
<1>3. \A i \in 0..Len(lines) : End(i) \in Nat /\ Told(i) \in Nat
    BY <1>1, <1>2 DEF WrittenLines, End, Told
<1>4. \A i \in DOMAIN lines : i - 1 \in 0..Len(lines)
    BY <1>1
<1> QED
    BY <1>1, <1>2, <1>3, <1>4 DEF Begin

LEMMA LineType ==
    ASSUME LinesOK, NEW i \in DOMAIN lines
    PROVE  /\ i \in Nat /\ i > 0 /\ (i > 1 => i - 1 \in DOMAIN lines)
           /\ lines[i].size \in Nat \ {0} /\ lines[i].turns \in Nat
           /\ Begin(i) = End(i - 1) /\ Begin(i) \in Nat /\ End(i) \in Nat
           /\ End(i) = Begin(i) + lines[i].size
           /\ i = 1 => Begin(i) = 0
<1>1. i \in Nat /\ i > 0 /\ (i > 1 => i - 1 \in DOMAIN lines)
    BY TotalsType
<1>2. lines[i].size \in Nat \ {0} /\ lines[i].turns \in Nat
    BY TotalsType DEF WrittenLines
<1>3. Begin(i) = End(i - 1) /\ Begin(i) \in Nat /\ (i = 1 => Begin(i) = 0)
    BY TotalsType DEF Begin, End
<1>4. End(i) = Begin(i) + lines[i].size
    BY DEF LinesOK
<1> QED
    BY <1>1, <1>2, <1>3, <1>4

LEMMA LinesRise ==
    ASSUME LinesOK, NEW i \in DOMAIN lines, NEW j \in DOMAIN lines, i < j
    PROVE  End(i) <= Begin(j)
<1>0. i \in Nat /\ j \in Nat
    BY LineType
<1>1. i \in 0..Len(lines) /\ j - 1 \in 0..Len(lines) /\ (i = j - 1 \/ i < j - 1)
    <2>1. i = j - 1 \/ i < j - 1
        BY <1>0
    <2>2. i \in 0..Len(lines)
        BY TotalsType, SMTT(30)
    <2>3. j - 1 \in 0..Len(lines)
        BY TotalsType, SMTT(30)
    <2> QED
        BY <2>1, <2>2, <2>3
<1>2. End(i) \in Nat /\ End(j - 1) \in Nat /\ Begin(j) = End(j - 1)
    BY <1>1, LineType
<1>3. CASE i = j - 1
    BY <1>2, <1>3
<1>4. CASE i < j - 1
    BY <1>1, <1>2, <1>4 DEF LinesOK
<1> QED
    BY <1>1, <1>3, <1>4

(* Where a line begins and ends among the cursors.                         *)
LowEnd(i) == IF style = "store" THEN i - 1 ELSE Begin(i)
HighEnd(i) == IF style = "store" THEN i ELSE End(i) - 1

LEMMA LinesInOrder ==
    ASSUME LinesOK
    PROVE  /\ \A i \in Speaking(DOMAIN lines) :
                LowEnd(i) \in Nat /\ HighEnd(i) \in Nat /\ LowEnd(i) < HighEnd(i)
           /\ \A i, j \in Speaking(DOMAIN lines) : i < j => HighEnd(i) <= LowEnd(j)
<1> USE DEF LowEnd, HighEnd, Speaking
<1>1. \A i \in Speaking(DOMAIN lines) : i \in DOMAIN lines /\ lines[i].size > 1
    BY DEF LinesOK
<1>2. \A i, j \in DOMAIN lines : i < j => End(i) <= Begin(j)
    BY LinesRise
<1>3. \A i \in DOMAIN lines :
         /\ i \in Nat /\ i > 0 /\ Begin(i) \in Nat /\ End(i) \in Nat
         /\ lines[i].size \in Nat /\ End(i) = Begin(i) + lines[i].size
    BY LineType
<1>4. \A i \in Speaking(DOMAIN lines) : LowEnd(i) \in Nat /\ HighEnd(i) \in Nat /\ LowEnd(i) < HighEnd(i)
    BY <1>1, <1>3
<1>5. \A i, j \in Speaking(DOMAIN lines) : i < j => HighEnd(i) <= LowEnd(j)
    <2> SUFFICES ASSUME NEW i \in Speaking(DOMAIN lines), NEW j \in Speaking(DOMAIN lines), i < j
                 PROVE  HighEnd(i) <= LowEnd(j)
        OBVIOUS
    <2>1. End(i) <= Begin(j) /\ i \in Nat /\ j \in Nat /\ Begin(j) \in Nat /\ End(i) \in Nat
        BY <1>2, <1>3
    <2> QED
        BY <2>1
<1> QED
    BY <1>4, <1>5

LEMMA TakenWhole ==
    ASSUME LinesOK, NEW S \in SUBSET DOMAIN lines
    PROVE  /\ Taken(S) \subseteq S
           /\ S # {} => Taken(S) # {}
           /\ \A i \in Taken(S), j \in S : j >= i => j \in Taken(S)
<1>1. Taken(S) \subseteq S
    BY DEF Taken, Merged, Distinct
<1>2. ASSUME S # {}
      PROVE  Taken(S) # {}
    <2>1. S \in SUBSET (0..Len(lines)) /\ Len(lines) \in Nat
        BY TotalsType
    <2> DEFINE m == Max(S)
    <2>2. m \in S /\ \A k \in S : k <= m
        BY <1>2, <2>1, GreatestIn
    <2> HIDE DEF m
    <2>3. NewerThan(S, m) = {} /\ From(S, m) = {m}
        BY <2>1, <2>2 DEF NewerThan, From
    <2>4. CASE style = "chunks"
        <3>1. NewerThan({m}, m) = {}
            BY <2>1, <2>2 DEF NewerThan
        <3>2. Utterances({m}) = {m}
            BY <3>1 DEF Utterances, Joins
        <3>3. Cardinality({m}) = 1
            BY FS_Singleton
        <3>4. m \in Merged(S)
            BY <2>2, <2>3, <3>2, <3>3, PagingAssumption DEF Merged
        <3> QED
            BY <2>4, <3>4 DEF Taken
    <2>5. CASE style # "chunks"
        BY <2>2, <2>3, <2>5 DEF Taken, Distinct, FitsDistinct
    <2> QED
        BY <2>4, <2>5
<1>3. ASSUME NEW i \in Taken(S), NEW j \in S, j >= i
      PROVE  j \in Taken(S)
    <2>1. i \in Int /\ j \in Int /\ \A k \in S : k \in Int
        BY <1>1, TotalsType
    <2>2. From(S, j) \subseteq From(S, i)
        BY <1>3, <2>1 DEF From
    <2> QED
        BY <1>3, <2>2 DEF Taken, Merged, Distinct
<1> QED
    BY <1>1, <1>2, <1>3

LEMMA CountType ==
    ASSUME LinesOK, NEW S \in SUBSET DOMAIN lines
    PROVE  Count(S) \in Nat /\ (S = {} => Count(S) = 0)
<1>1. CASE S = {}
    BY <1>1 DEF Count
<1>2. CASE S # {} /\ style = "chunks"
    <2>1. IsFiniteSet(0..Len(lines)) /\ S \subseteq 0..Len(lines)
        BY TotalsType, FS_Interval
    <2>2. IsFiniteSet(Utterances(S))
        BY <2>1, FS_Subset DEF Utterances
    <2> QED
        BY <1>2, <2>2, FS_CardinalityType DEF Count
<1>3. CASE S # {} /\ style # "chunks"
    <2>1. S \in SUBSET (0..Len(lines)) /\ Len(lines) \in Nat /\ S \in SUBSET Nat
        BY TotalsType
    <2>2. Max(S) \in S /\ Min(S) \in S /\ Min(S) <= Max(S)
        BY <1>3, <2>1, GreatestIn, LeastIn
    <2>3. Told(Max(S)) \in Nat /\ Told(Min(S) - 1) \in Nat /\ Told(Min(S) - 1) <= Told(Max(S))
        BY <2>2, TotalsType DEF LinesOK
    <2> QED
        BY <1>3, <2>3 DEF Count
<1> QED
    BY <1>1, <1>2, <1>3

-----------------------------------------------------------------------------
(* What a page holds: the lines between its cursor and the place it was    *)
(* asked for, and no line lies across its cursor, overlong ones apart.     *)
PageOK(page, before) ==
    /\ page.shown \subseteq Speaking(DOMAIN lines)
    /\ page.next \in Nat /\ page.next <= before
    /\ \A i \in page.shown : page.next <= LowEnd(i) /\ HighEnd(i) <= before
    /\ \A i \in Speaking(DOMAIN lines) :
         page.next <= LowEnd(i) /\ HighEnd(i) <= before => Overlong(i) \/ i \in page.shown
    /\ \A i \in Speaking(DOMAIN lines) :
         LowEnd(i) < page.next /\ page.next < HighEnd(i) => Overlong(i) \/ before < HighEnd(i)

LEMMA StorePageOK ==
    ASSUME LinesOK, style = "store", NEW before \in 0..Len(lines)
    PROVE  /\ PageOK(StorePage(before), before)
           /\ before > 0 => StorePage(before).next < before
<1> DEFINE read == {i \in 1..before : \A j \in i..before : FitsUnit(j, before)}
<1>0. StorePage(before) = [shown |-> Speaking(read), next |-> IF read = {} THEN before ELSE Min(read) - 1]
    BY DEF StorePage
<1>1. before \in Nat /\ Len(lines) \in Nat /\ DOMAIN lines = 1..Len(lines)
    BY TotalsType
<1>2. read \in SUBSET Nat /\ read \subseteq 1..before /\ read \subseteq DOMAIN lines
    BY <1>1
<1>3. \A i \in read, j \in 1..before : j >= i => j \in read
    BY <1>1
<1>4. ASSUME before > 0
      PROVE  before \in read
    <2>1. Told(before) - Told(before) = 0 /\ End(before) - End(before) = 0
        BY TotalsType
    <2>2. MaxRead > 0 /\ Limit > 0
        BY PagingAssumption
    <2>3. FitsUnit(before, before)
        BY <2>1, <2>2 DEF FitsUnit
    <2> QED
        BY <1>1, <1>4, <2>3
<1> HIDE DEF read
<1>5. CASE before = 0
    <2>1. read = {}
        BY <1>2, <1>5
    <2>2. StorePage(before) = [shown |-> {}, next |-> 0]
        BY <1>0, <1>5, <2>1 DEF Speaking
    <2>3. \A i \in Speaking(DOMAIN lines) : HighEnd(i) > 0
        BY <1>1 DEF HighEnd, Speaking
    <2> QED
        BY <1>5, <2>2, <2>3, LinesInOrder DEF PageOK
<1>6. CASE before > 0
    <2> DEFINE m == Min(read)
    <2>1. m \in read /\ \A k \in read : m <= k
        BY <1>2, <1>4, <1>6, LeastIn
    <2>2. StorePage(before) = [shown |-> Speaking(read), next |-> m - 1]
        BY <1>0, <2>1
    <2> HIDE DEF m
    <2>3. m \in 1..before
        BY <1>2, <2>1
    <2>4. \A i \in 1..before : i \in read <=> m <= i
        BY <1>2, <1>3, <2>1, <2>3
    <2>5. Speaking(read) \subseteq Speaking(DOMAIN lines)
        BY <1>2 DEF Speaking
    <2>6. \A i \in Speaking(DOMAIN lines) : i \in 1..Len(lines) /\ (i \in read => i \in Speaking(read))
        BY <1>1 DEF Speaking
    <2>7. \A i \in Speaking(read) : i \in 1..before /\ m <= i
        BY <1>2, <2>4 DEF Speaking
    <2> QED
        BY <1>1, <2>2, <2>3, <2>4, <2>5, <2>6, <2>7 DEF PageOK, LowEnd, HighEnd
<1> QED
    BY <1>1, <1>5, <1>6

LEMMA WindowPageOK ==
    ASSUME LinesOK, style # "store", NEW before \in Nat, NEW span \in Nat \ {0},
           Suffices(before, span)
    PROVE  /\ PageOK(WindowPage(before, span), before)
           /\ before > 0 /\ ~TooLong(before) => WindowPage(before, span).next < before
<1> DEFINE start == Max({0, before - span})
           cuts  == Cuts(start, before)
           first == IF start = 0 THEN 0 ELSE Min(cuts)
           taken == Taken(Speaking(WholeLines(first, before)))
           page  == WindowPage(before, span)
<1>1. page = IF start > 0 /\ cuts = {} THEN [shown |-> {}, next |-> start]
             ELSE [shown |-> taken, next |-> IF taken = {} THEN first ELSE Begin(Min(taken))]
    BY DEF WindowPage
<1>2. start = IF before <= span THEN 0 ELSE before - span
    BY DEF Max
<1>3. cuts = {End(i) : i \in {j \in DOMAIN lines : End(j) - 1 \in start..(before - 1)}}
    BY DEF Cuts
<1>4. /\ start \in Nat /\ start <= before
      /\ start > 0 => before = start + span
    BY <1>2
<1>5. MaxWindow \in Nat \ {0} /\ Limit \in Nat \ {0}
    BY PagingAssumption
<1>6. Count(page.shown) >= Limit \/ start = 0 \/ (span = MaxWindow /\ before = start + MaxWindow)
    BY <1>2, <1>4 DEF Suffices
<1> HIDE DEF start
<1>7. /\ \A i \in DOMAIN lines : start < End(i) /\ End(i) <= before => End(i) \in cuts
      /\ \A c \in cuts : c \in Nat /\ start < c /\ c <= before /\ \E i \in DOMAIN lines : c = End(i)
    <2>1. \A i \in DOMAIN lines : End(i) \in Nat
        BY TotalsType
    <2> QED
        BY <1>3, <1>4, <2>1
<1> HIDE DEF cuts, page
<1>8. \A i \in Speaking(DOMAIN lines) :
         /\ i \in DOMAIN lines /\ i \in Nat /\ i > 0 /\ (i > 1 => i - 1 \in DOMAIN lines) /\ (i = 1 => Begin(i) = 0)
         /\ LowEnd(i) = Begin(i) /\ HighEnd(i) = End(i) - 1 /\ End(i) = Begin(i) + lines[i].size
         /\ Begin(i) \in Nat /\ End(i) \in Nat /\ lines[i].size \in Nat /\ lines[i].size > 1
         /\ Begin(i) = End(i - 1)
    BY LineType DEF LinesOK, Speaking, LowEnd, HighEnd
<1>9. CASE start > 0 /\ cuts = {}
    <2>1. page = [shown |-> {}, next |-> start]
        BY <1>1, <1>9
    <2>2. before = start + MaxWindow
        <3>1. Count({}) = 0
            BY CountType
        <3> QED
            BY <1>5, <1>6, <1>9, <2>1, <3>1
    <2>3. ASSUME NEW i \in Speaking(DOMAIN lines), start <= LowEnd(i), HighEnd(i) <= before
          PROVE  Overlong(i)
        <3>1. End(i) = before + 1
            BY <1>4, <1>7, <1>8, <1>9, <2>3
        <3>2. Begin(i) = start
            <4>1. CASE i = 1
                BY <1>4, <1>8, <1>9, <2>3, <4>1
            <4>2. CASE i > 1
                <5>1. i - 1 \in DOMAIN lines /\ End(i - 1) = Begin(i) /\ Begin(i) <= before
                    BY <1>8, <3>1, <4>2
                <5> QED
                    BY <1>4, <1>7, <1>8, <1>9, <2>3, <5>1
            <4> QED
                BY <1>8, <4>1, <4>2
        <3> QED
            BY <1>5, <1>8, <2>2, <3>1, <3>2 DEF Overlong
    <2>4. ASSUME NEW i \in Speaking(DOMAIN lines), LowEnd(i) < start, start < HighEnd(i), HighEnd(i) <= before
          PROVE  Overlong(i)
        <3>1. End(i) = before + 1
            BY <1>4, <1>7, <1>8, <1>9, <2>4
        <3> QED
            BY <1>4, <1>5, <1>8, <2>2, <2>4, <3>1 DEF Overlong
    <2>5. start < before
        BY <1>4, <1>5, <2>2
    <2>6. PageOK(page, before)
        BY <1>4, <1>8, <2>1, <2>3, <2>4 DEF PageOK
    <2> QED
        BY <2>1, <2>5, <2>6 DEF page
<1>10. CASE ~(start > 0 /\ cuts = {})
    <2> DEFINE S == Speaking(WholeLines(first, before))
    <2>1. page = [shown |-> taken, next |-> IF taken = {} THEN first ELSE Begin(Min(taken))]
        BY <1>1, <1>10
    <2>2. /\ first \in Nat /\ first <= before
          /\ first = 0 \/ (start > 0 /\ first \in cuts /\ \A c \in cuts : first <= c)
        <3>1. CASE start = 0
            BY <3>1
        <3>2. CASE start > 0
            <4>1. cuts \in SUBSET Nat /\ cuts # {}
                BY <1>7, <1>10, <3>2
            <4>2. Min(cuts) \in cuts /\ \A c \in cuts : Min(cuts) <= c
                BY <4>1, LeastIn
            <4> QED
                BY <1>7, <3>2, <4>2
        <3> QED
            BY <1>4, <3>1, <3>2
    <2> HIDE DEF first
    <2>3. S \subseteq Speaking(DOMAIN lines) /\ S \in SUBSET DOMAIN lines
        BY DEF Speaking, WholeLines
    <2>4. \A i \in Speaking(DOMAIN lines) : i \in S <=> first <= Begin(i) /\ End(i) - 1 <= before
        BY <1>8 DEF Speaking, WholeLines
    <2>5. /\ taken \subseteq S /\ (S # {} => taken # {})
          /\ \A i \in taken, j \in S : j >= i => j \in taken
        BY <2>3, TakenWhole
    <2> HIDE DEF S, taken
    <2>6. CASE taken = {}
        <3>1. page.shown = {} /\ page.next = first
            BY <2>1, <2>6
        <3>2. S = {}
            BY <2>5, <2>6
        <3>3. ASSUME NEW i \in Speaking(DOMAIN lines), LowEnd(i) < first, first < HighEnd(i)
              PROVE  FALSE
            <4>1. PICK k \in DOMAIN lines : first = End(k)
                BY <1>7, <1>8, <2>2, <3>3
            <4>2. k \in Nat /\ End(k) \in Nat /\ End(k) = Begin(k) + lines[k].size /\ lines[k].size \in Nat
                BY LineType
            <4>3. (k < i => End(k) <= Begin(i)) /\ (i < k => End(i) <= Begin(k)) /\ Begin(k) \in Nat
                BY <1>8, LinesRise, LineType
            <4> QED
                BY <1>8, <3>3, <4>1, <4>2, <4>3
        <3>4. PageOK(page, before)
            BY <1>8, <2>2, <2>4, <3>1, <3>2, <3>3 DEF PageOK
        <3>5. ASSUME before > 0, ~(first < before)
              PROVE  TooLong(before)
            <4>1. start > 0 /\ first = before /\ first \in cuts
                BY <2>2, <3>5
            <4>2. PICK k \in DOMAIN lines : before = End(k)
                BY <1>7, <4>1
            <4>3. before = start + MaxWindow
                <5>1. Count({}) = 0
                    BY CountType
                <5> QED
                    BY <1>5, <1>6, <3>1, <4>1, <5>1
            <4>4. /\ k \in Nat /\ k > 0 /\ End(k) = Begin(k) + lines[k].size
                  /\ Begin(k) = End(k - 1) /\ Begin(k) \in Nat /\ lines[k].size \in Nat \ {0}
                  /\ (k = 1 => Begin(k) = 0) /\ (k > 1 => k - 1 \in DOMAIN lines)
                BY LineType
            <4>5. Begin(k) <= start
                <5>1. CASE k = 1
                    BY <1>4, <4>4, <5>1
                <5>2. CASE k > 1
                    <6>1. Begin(k) \notin cuts
                        BY <2>2, <4>1, <4>2, <4>4
                    <6> QED
                        BY <1>4, <1>7, <4>2, <4>4, <5>2, <6>1
                <5> QED
                    BY <4>4, <5>1, <5>2
            <4>6. lines[k].size >= MaxWindow /\ before > MaxWindow
                <5>1. before = Begin(k) + lines[k].size /\ lines[k].size \in Nat /\ Begin(k) \in Nat
                    BY <4>2, <4>4
                <5>2. start \in Nat /\ start > 0 /\ MaxWindow \in Nat
                    BY <1>4, <1>5, <4>1
                <5> QED
                    BY <4>3, <4>5, <5>1, <5>2
            <4> QED
                BY <4>2, <4>6 DEF TooLong
        <3> QED
            BY <3>1, <3>4, <3>5, <2>2 DEF page
    <2>7. CASE taken # {}
        <3> DEFINE m == Min(taken)
        <3>1. taken \in SUBSET Nat
            BY <1>8, <2>3, <2>5
        <3>2. m \in taken /\ \A i \in taken : m <= i
            BY <2>7, <3>1, LeastIn
        <3>3. page.shown = taken /\ page.next = Begin(m)
            BY <2>1, <2>7
        <3> HIDE DEF m
        <3>4. m \in Speaking(DOMAIN lines) /\ m \in S /\ first <= Begin(m) /\ End(m) - 1 <= before
            BY <2>3, <2>4, <2>5, <3>2
        <3>5. \A i \in Speaking(DOMAIN lines) : i < m => End(i) <= Begin(m)
            BY <1>8, <3>4, LinesRise
        <3>6. \A i \in Speaking(DOMAIN lines) : m < i => Begin(m) < Begin(i)
            <4>1. \A i \in Speaking(DOMAIN lines) : m < i => HighEnd(m) <= LowEnd(i)
                BY <3>4, LinesInOrder
            <4> QED
                BY <1>8, <3>4, <4>1
        <3>7. \A i \in taken : i \in Speaking(DOMAIN lines) /\ Begin(m) <= Begin(i) /\ End(i) - 1 <= before
            <4> SUFFICES ASSUME NEW i \in taken
                         PROVE  i \in Speaking(DOMAIN lines) /\ Begin(m) <= Begin(i) /\ End(i) - 1 <= before
                OBVIOUS
            <4>1. i \in Speaking(DOMAIN lines) /\ i \in S
                BY <2>3, <2>5
            <4>2. m <= i /\ m \in Int /\ i \in Int
                BY <1>8, <3>2, <3>4, <4>1
            <4>3. Begin(m) <= Begin(i)
                BY <1>8, <3>4, <3>6, <4>1, <4>2
            <4> QED
                BY <2>4, <4>1, <4>3
        <3>8. ASSUME NEW i \in Speaking(DOMAIN lines), Begin(m) <= Begin(i), End(i) - 1 <= before
              PROVE  i \in taken
            <4>1. i >= m
                BY <1>8, <3>4, <3>5, <3>8
            <4>2. i \in S
                BY <1>8, <2>2, <2>4, <3>4, <3>8
            <4> QED
                BY <2>5, <3>2, <4>1, <4>2
        <3>9. ASSUME NEW i \in Speaking(DOMAIN lines), Begin(i) < Begin(m), Begin(m) < End(i) - 1
              PROVE  FALSE
            <4>1. i >= m
                BY <1>8, <3>4, <3>5, <3>9
            <4>2. i \in Int /\ m \in Int
                BY <1>8, <3>4
            <4>3. ~(m < i)
                BY <1>8, <3>4, <3>6, <3>9
            <4> QED
                BY <1>8, <3>4, <3>9, <4>1, <4>2, <4>3
        <3>10. Begin(m) \in Nat /\ Begin(m) < before
            BY <1>8, <3>4
        <3>11. PageOK(page, before)
            BY <1>8, <3>3, <3>7, <3>8, <3>9, <3>10 DEF PageOK
        <3> QED
            BY <3>3, <3>10, <3>11 DEF page
    <2> QED
        BY <2>6, <2>7
<1> QED
    BY <1>4, <1>9, <1>10

LEMMA FilePageOK ==
    ASSUME LinesOK, style # "store", NEW before \in Nat
    PROVE  /\ PageOK(FilePage(before), before)
           /\ before > 0 /\ ~TooLong(before) => FilePage(before).next < before
<1> DEFINE fit == {span \in Spans : Suffices(before, span)}
<1>1. Spans \in SUBSET (Nat \ {0}) /\ MaxWindow \in Spans
    BY PagingAssumption DEF Spans
<1>2. MaxWindow \in fit
    BY <1>1 DEF Suffices
<1>3. fit \in SUBSET Nat /\ fit # {} /\ fit \subseteq Spans
    BY <1>1, <1>2
<1> HIDE DEF fit
<1>4. Min(fit) \in fit
    BY <1>3, LeastIn
<1>5. Suffices(before, Min(fit))
    BY <1>4 DEF fit
<1>6. Min(fit) \in Nat \ {0}
    BY <1>1, <1>3, <1>4
<1>7. FilePage(before) = WindowPage(before, Min(fit))
    BY DEF FilePage, fit
<1> QED
    BY <1>5, <1>6, <1>7, WindowPageOK

(* Every page holds what its cursor says and brings the cursor nearer to   *)
(* the beginning, save at a line that is too long.                         *)
LEMMA PagesOK ==
    ASSUME LinesOK, NEW before \in Nat, before <= Latest, size \in Nat
    PROVE  /\ PageOK(PageAt(before), before)
           /\ before > 0 /\ ~TooLong(before) => PageAt(before).next < before
           /\ Count(PageAt(before).shown) \in Nat
<1>1. Latest \in Nat
    BY TotalsType DEF Latest
<1>2. PageAt(before) = Page(before)
    BY <1>1 DEF PageAt, Min
<1>3. /\ PageOK(PageAt(before), before)
      /\ before > 0 /\ ~TooLong(before) => PageAt(before).next < before
    <2>1. CASE style = "store"
        <3>1. PageAt(before) = StorePage(before)
            BY <1>2, <2>1 DEF Page
        <3>2. before \in 0..Len(lines)
            BY <2>1, TotalsType DEF Latest
        <3> QED
            BY <2>1, <3>1, <3>2, StorePageOK
    <2>2. CASE style # "store"
        <3>1. PageAt(before) = FilePage(before)
            BY <1>2, <2>2 DEF Page
        <3> QED
            BY <2>2, <3>1, FilePageOK
    <2> QED
        BY <2>1, <2>2
<1>4. PageAt(before).shown \in SUBSET DOMAIN lines
    BY <1>3 DEF PageOK, Speaking
<1> QED
    BY <1>3, <1>4, CountType

-----------------------------------------------------------------------------
(* The inductive invariant: what is older than the cursor of the panel is  *)
(* among what its newest page could show, and no line of that lies across  *)
(* the cursor, overlong ones apart.                                        *)
PagingInv ==
    /\ PagingTypeOK
    /\ LinesOK
    /\ style = "store" => size = Written
    /\ panel.next <= Latest
    /\ \A i \in Speaking(DOMAIN lines) : HighEnd(i) <= panel.next => i \in seen
    /\ \A i \in Speaking(seen) : LowEnd(i) < panel.next /\ panel.next < HighEnd(i) => Overlong(i)
    /\ Contiguous

LEMMA PagingInitInv == PagingInit => PagingInv
<1> SUFFICES ASSUME PagingInit
             PROVE  PagingInv
    OBVIOUS
<1>1. style \in Styles /\ lines = <<>> /\ size = 0 /\ asked = "latest" /\ seen = {}
      /\ panel = [pages |-> <<>>, turns |-> 0, next |-> 0]
    BY DEF PagingInit, Empty
<1>2. Len(lines) = 0 /\ DOMAIN lines = {} /\ Written = 0 /\ Latest = 0 /\ lines \in Seq(WrittenLines)
    BY <1>1 DEF Written, End, Latest
<1>3. PagingTypeOK
    BY <1>1, <1>2, PagingAssumption DEF PagingTypeOK
<1>4. LinesOK
    BY <1>1, <1>2, PagingAssumption DEF LinesOK
<1>5. Shown = {} /\ Speaking(DOMAIN lines) = {} /\ Speaking(seen) = {} /\ AtOrAfter(panel.next) = {}
    BY <1>1, <1>2 DEF Shown, Range, Speaking, AtOrAfter
<1>6. Contiguous
    BY <1>1, <1>5 DEF Contiguous, Complete, NothingElse, InOrder, Speaking
<1> QED
    BY <1>1, <1>2, <1>3, <1>4, <1>5, <1>6 DEF PagingInv

(* What the invariant says of the panel, in terms of the cursors.          *)
PanelOK(pages, next, lastSeen) ==
    /\ \A i \in Speaking(DOMAIN lines) : HighEnd(i) <= next => i \in lastSeen
    /\ \A i \in Speaking(lastSeen) : LowEnd(i) < next /\ next < HighEnd(i) => Overlong(i)
    /\ \A i \in Speaking(lastSeen) :
         next <= LowEnd(i) => Overlong(i) \/ \E p \in DOMAIN pages : i \in pages[p]
    /\ \A p \in DOMAIN pages : \A i \in pages[p] : i \in Speaking(lastSeen) /\ next <= LowEnd(i)
    /\ \A p, q \in DOMAIN pages : p < q => \A i \in pages[p], j \in pages[q] : i < j

PanelHolds ==
    /\ style = "store" => size = Written
    /\ panel.next <= Latest
    /\ PanelOK(panel.pages, panel.next, seen)

LEMMA PanelInv == PagingTypeOK /\ LinesOK => (PagingInv <=> PanelHolds)
<1> SUFFICES ASSUME PagingTypeOK, LinesOK
             PROVE  PagingInv <=> PanelHolds
    OBVIOUS
<1>1. \A i \in Speaking(seen) : i \in AtOrAfter(panel.next) <=> panel.next <= LowEnd(i)
    BY LineType DEF PagingTypeOK, AtOrAfter, LowEnd, Speaking
<1>2. \A i : i \in Speaking(AtOrAfter(panel.next)) <=> i \in Speaking(seen) /\ panel.next <= LowEnd(i)
    BY <1>1 DEF Speaking, AtOrAfter
<1>3. \A i : i \in Shown <=> \E p \in DOMAIN panel.pages : i \in panel.pages[p]
    BY DEF Shown, Range
<1> QED
    BY <1>2, <1>3 DEF PagingInv, PanelHolds, Contiguous, Complete, NothingElse, InOrder, PanelOK

LEMMA PanelInvNext == PagingTypeOK' /\ LinesOK' => (PagingInv' <=> PanelHolds')
    BY PanelInv, PTL

(* Another page goes before those that the panel holds.                    *)
LEMMA PrependOK ==
    ASSUME LinesOK, NEW before \in Nat, NEW page, PageOK(page, before),
           NEW pages \in Seq(SUBSET DOMAIN lines), NEW lastSeen \in SUBSET DOMAIN lines,
           PanelOK(pages, before, lastSeen)
    PROVE  /\ AsPage(page.shown) \o pages \in Seq(SUBSET DOMAIN lines)
           /\ PanelOK(AsPage(page.shown) \o pages, page.next, lastSeen)
<1> DEFINE all == AsPage(page.shown) \o pages
<1>1. page.shown \in SUBSET DOMAIN lines
    BY DEF PageOK, Speaking
<1>2. \A i \in Speaking(lastSeen) : i \in Speaking(DOMAIN lines)
    BY DEF Speaking
<1>3. \A i \in Speaking(DOMAIN lines) :
         /\ i \in Nat /\ LowEnd(i) \in Nat /\ HighEnd(i) \in Nat /\ LowEnd(i) < HighEnd(i)
         /\ \A j \in Speaking(DOMAIN lines) : i < j => HighEnd(i) <= LowEnd(j)
    BY LinesInOrder, LineType DEF Speaking
<1>4. page.next \in Nat /\ page.next <= before
    BY DEF PageOK
<1>5. ASSUME NEW i \in Speaking(DOMAIN lines), HighEnd(i) <= page.next
      PROVE  i \in lastSeen
    BY <1>3, <1>4, <1>5 DEF PanelOK
<1>6. ASSUME NEW i \in Speaking(lastSeen), LowEnd(i) < page.next, page.next < HighEnd(i)
      PROVE  Overlong(i)
    <2>1. Overlong(i) \/ before < HighEnd(i)
        BY <1>2, <1>6 DEF PageOK
    <2>2. LowEnd(i) < before
        BY <1>2, <1>3, <1>4, <1>6
    <2> QED
        BY <2>1, <2>2 DEF PanelOK
<1>7. ASSUME NEW i \in Speaking(lastSeen), page.next <= LowEnd(i)
      PROVE  Overlong(i) \/ i \in page.shown \/ \E p \in DOMAIN pages : i \in pages[p]
    <2>1. CASE before <= LowEnd(i)
        BY <2>1 DEF PanelOK
    <2>2. CASE HighEnd(i) <= before
        BY <1>2, <1>7, <2>2 DEF PageOK
    <2>3. CASE LowEnd(i) < before /\ before < HighEnd(i)
        BY <2>3 DEF PanelOK
    <2> QED
        BY <1>2, <1>3, <2>1, <2>2, <2>3
<1>8. ASSUME NEW i \in page.shown
      PROVE  /\ i \in Speaking(lastSeen) /\ page.next <= LowEnd(i)
             /\ \A p \in DOMAIN pages : \A j \in pages[p] : i < j
    <2>1. i \in Speaking(DOMAIN lines) /\ page.next <= LowEnd(i) /\ HighEnd(i) <= before
        BY <1>8 DEF PageOK
    <2>2. i \in Speaking(lastSeen)
        BY <2>1 DEF PanelOK, Speaking
    <2>3. ASSUME NEW p \in DOMAIN pages, NEW j \in pages[p]
          PROVE  i < j
        <3>1. j \in Speaking(DOMAIN lines) /\ before <= LowEnd(j)
            BY <1>2, <2>3 DEF PanelOK
        <3>2. ~(j < i)
            BY <1>3, <2>1, <3>1
        <3>3. i # j
            BY <1>3, <2>1, <3>1
        <3> QED
            BY <1>3, <2>1, <3>1, <3>2, <3>3
    <2> QED
        BY <2>1, <2>2, <2>3
<1>9. ASSUME NEW p \in DOMAIN pages, NEW i \in pages[p]
      PROVE  i \in Speaking(lastSeen) /\ page.next <= LowEnd(i)
    <2>1. i \in Speaking(lastSeen) /\ before <= LowEnd(i)
        BY <1>9 DEF PanelOK
    <2> QED
        BY <1>2, <1>3, <1>4, <2>1
<1>10. CASE page.shown = {}
    <2>1. all = pages
        BY <1>10 DEF AsPage
    <2>2. all \in Seq(SUBSET DOMAIN lines)
        BY <2>1
    <2>3. \A p, q \in DOMAIN pages : p < q => \A i \in pages[p], j \in pages[q] : i < j
        BY DEF PanelOK
    <2>4. PanelOK(pages, page.next, lastSeen)
        BY <1>5, <1>6, <1>7, <1>9, <1>10, <2>3 DEF PanelOK
    <2> QED
        BY <2>1, <2>2, <2>4
<1>11. CASE page.shown # {}
    <2>1. all = <<page.shown>> \o pages
        BY <1>11 DEF AsPage
    <2>2. /\ all \in Seq(SUBSET DOMAIN lines) /\ DOMAIN all = 1..(Len(pages) + 1)
          /\ DOMAIN pages = 1..Len(pages) /\ Len(pages) \in Nat
          /\ all[1] = page.shown
          /\ \A p \in DOMAIN all : p # 1 => p - 1 \in DOMAIN pages /\ all[p] = pages[p - 1]
          /\ \A p \in DOMAIN pages : p + 1 \in DOMAIN all /\ all[p + 1] = pages[p]
        BY <1>1, <2>1
    <2> HIDE DEF all
    <2>3. ASSUME NEW i \in Speaking(lastSeen), page.next <= LowEnd(i)
          PROVE  Overlong(i) \/ \E p \in DOMAIN all : i \in all[p]
        BY <1>7, <2>2, <2>3
    <2>4. ASSUME NEW p \in DOMAIN all, NEW i \in all[p]
          PROVE  i \in Speaking(lastSeen) /\ page.next <= LowEnd(i)
        BY <1>8, <1>9, <2>2, <2>4
    <2>5. ASSUME NEW p \in DOMAIN all, NEW q \in DOMAIN all, p < q, NEW i \in all[p], NEW j \in all[q]
          PROVE  i < j
        <3>1. q # 1 /\ q - 1 \in DOMAIN pages /\ j \in pages[q - 1]
            BY <2>2, <2>5
        <3>2. CASE p = 1
            BY <1>8, <2>2, <2>5, <3>1, <3>2
        <3>3. CASE p # 1
            <4>1. p - 1 \in DOMAIN pages /\ i \in pages[p - 1] /\ p - 1 < q - 1
                BY <2>2, <2>5, <3>3
            <4> QED
                BY <3>1, <4>1 DEF PanelOK
        <3> QED
            BY <3>2, <3>3
    <2>6. PanelOK(all, page.next, lastSeen)
        BY <1>5, <1>6, <2>3, <2>4, <2>5 DEF PanelOK
    <2> QED
        BY <2>2, <2>6 DEF all
<1> QED
    BY <1>10, <1>11

-----------------------------------------------------------------------------
(* The steps.                                                              *)

(* The old lines stay as they are when another one is written.             *)
LEMMA LineWrittenInv ==
    ASSUME PagingInv, NEW l \in Lines, HarnessWrites(l)
    PROVE  PagingInv'
<1>1. LinesOK /\ PagingTypeOK /\ PanelOK(panel.pages, panel.next, seen)
    BY PanelInv DEF PagingInv, PanelHolds
<1>0. PICK n \in Nat : n = Len(lines)
    BY <1>1, TotalsType
<1>2. /\ Len(lines) = n /\ DOMAIN lines = 1..n /\ lines' = Append(lines, Line(l)) /\ Len(lines') = n + 1
      /\ DOMAIN lines' = 1..(n + 1) /\ lines'[n + 1] = Line(l)
      /\ \A i \in 1..n : lines'[i] = lines[i]
    BY <1>0, <1>1, TotalsType DEF HarnessWrites
<1>3. /\ l.size \in Nat \ {0} /\ l.turns \in Nat /\ l.voice \in {"user", "agent", "none"}
      /\ l.turns > 0 => l.size > 1
    BY PagingAssumption
<1>4. Written \in Nat /\ Written = End(n) /\ Told(n) \in Nat
    BY <1>0, <1>1, <1>2, TotalsType DEF Written
<1>5. /\ Line(l) \in WrittenLines /\ Line(l).size = l.size /\ Line(l).turns = l.turns
      /\ Line(l).end = Written + l.size /\ Line(l).told = Told(n) + l.turns
    BY <1>0, <1>3, <1>4 DEF Line, WrittenLines
<1>6. lines' \in Seq(WrittenLines)
    BY <1>1, <1>5 DEF HarnessWrites, LinesOK
<1>7. /\ \A i \in 0..n : End(i)' = End(i) /\ Told(i)' = Told(i)
      /\ End(n + 1)' = Written + l.size /\ Told(n + 1)' = Told(n) + l.turns
      /\ \A i \in 1..n : Begin(i)' = Begin(i)
      /\ Begin(n + 1)' = Written
    <2>1. \A i \in 0..n : End(i)' = End(i) /\ Told(i)' = Told(i)
        BY <1>2 DEF End, Told
    <2>2. End(n + 1)' = Written + l.size /\ Told(n + 1)' = Told(n) + l.turns
        BY <1>2, <1>5 DEF End, Told
    <2>3. \A i \in 1..n : Begin(i)' = Begin(i)
        <3> SUFFICES ASSUME NEW i \in 1..n
                     PROVE  Begin(i)' = Begin(i)
            OBVIOUS
        <3>1. i - 1 \in 0..n
            BY <1>2
        <3> QED
            BY <2>1, <3>1 DEF Begin
    <2>4. Begin(n + 1)' = Written
        <3>1. n + 1 - 1 = n
            BY <1>2
        <3>2. Begin(n + 1)' = End(n)'
            BY <3>1 DEF Begin
        <3> QED
            BY <1>2, <1>4, <2>1, <3>2
    <2> QED
        BY <2>1, <2>2, <2>3, <2>4
<1>8. style' = style /\ asked' = asked /\ panel' = panel /\ seen' = seen /\ n < MaxLines /\ size = Written
      /\ size' \in Nat /\ size' <= Written + l.size /\ size' >= size + 1 /\ (style = "store" => size' = Written + l.size)
    BY <1>0, <1>1, <1>3, <1>4 DEF HarnessWrites
<1>9. LinesOK'
    <2>1. \A i \in DOMAIN lines' : End(i)' = Begin(i)' + lines'[i].size /\ (lines'[i].turns > 0 => lines'[i].size > 1)
        BY <1>1, <1>2, <1>3, <1>5, <1>7 DEF LinesOK
    <2>2. ASSUME NEW i \in 0..Len(lines'), NEW j \in 0..Len(lines'), i < j
          PROVE  End(i)' < End(j)' /\ Told(i)' <= Told(j)'
        <3>1. i \in 0..n
            BY <1>2, <2>2
        <3>2. CASE j \in 0..n
            BY <1>1, <1>2, <1>7, <2>2, <3>1, <3>2 DEF LinesOK
        <3>3. CASE j = n + 1
            <4>1. End(i) <= End(n) /\ Told(i) <= Told(n)
                <5>1. n \in 0..n /\ (i = n \/ i < n)
                    BY <1>2, <3>1
                <5>2. End(i) \in Nat /\ Told(i) \in Nat /\ End(n) \in Nat /\ Told(n) \in Nat
                    BY <1>1, <1>2, <3>1, <5>1, TotalsType
                <5> QED
                    BY <1>1, <1>2, <3>1, <5>1, <5>2 DEF LinesOK
            <4>2. End(i) \in Nat /\ Told(i) \in Nat
                BY <1>1, <1>2, <3>1, TotalsType
            <4> QED
                BY <1>3, <1>4, <1>7, <3>1, <3>3, <4>1, <4>2
        <3> QED
            BY <1>2, <2>2, <3>2, <3>3
    <2> QED
        BY <1>1, <1>6, <1>8, <2>1, <2>2 DEF LinesOK
<1>10. Written' = Written + l.size
    BY <1>2, <1>7 DEF Written
<1>11. PagingTypeOK'
    <2>1. DOMAIN lines \subseteq DOMAIN lines'
        BY <1>2
    <2>2. panel' \in [pages : Seq(SUBSET DOMAIN lines'), turns : Nat, next : Nat]
        BY <1>1, <1>8, <2>1 DEF PagingTypeOK
    <2>3. seen' \subseteq DOMAIN lines'
        BY <1>1, <1>8, <2>1 DEF PagingTypeOK
    <2>4. Len(lines') <= MaxLines
        BY <1>2, <1>8, PagingAssumption
    <2>5. size' \in 0..Written'
        BY <1>3, <1>4, <1>8, <1>10
    <2> QED
        BY <1>1, <1>6, <1>8, <2>2, <2>3, <2>4, <2>5 DEF PagingTypeOK
<1>12. panel.next \in Nat /\ panel.next <= Latest' /\ (style = "store" => panel.next <= n) /\ (style # "store" => panel.next <= size)
    <2>1. panel.next \in Nat /\ size \in Nat
        BY <1>1, <1>4, <1>8 DEF PagingTypeOK
    <2> QED
        BY <1>2, <1>8, <2>1 DEF PagingInv, Latest
<1>13. \A i \in 1..n : LowEnd(i)' = LowEnd(i) /\ HighEnd(i)' = HighEnd(i) /\ (Overlong(i)' <=> Overlong(i))
    BY <1>2, <1>7, <1>8 DEF LowEnd, HighEnd, Overlong
<1>14. Speaking(seen)' = Speaking(seen)
    BY <1>1, <1>2, <1>8 DEF Speaking, PagingTypeOK
<1>15. \A i \in Speaking(seen) : i \in 1..n
    BY <1>1, <1>2 DEF Speaking, PagingTypeOK
<1>16. ASSUME NEW i \in Speaking(DOMAIN lines)', HighEnd(i)' <= panel.next
       PROVE  i \in seen
    <2>1. i \in 1..(n + 1) /\ lines'[i].turns > 0
        BY <1>2 DEF Speaking
    <2>2. CASE i = n + 1
        <3>1. l.size > 1
            BY <1>2, <1>3, <1>5, <2>1, <2>2
        <3>2. CASE style = "store"
            BY <1>2, <1>8, <1>12, <1>16, <2>2, <3>2 DEF HighEnd
        <3>3. CASE style # "store"
            <4>1. HighEnd(i)' = Written + l.size - 1
                <5>1. HighEnd(n + 1)' = End(n + 1)' - 1
                    BY <1>8, <3>3 DEF HighEnd
                <5>2. HighEnd(n + 1)' = Written + l.size - 1
                    BY <1>3, <1>4, <1>7, <5>1
                <5>3. i = n + 1
                    BY <2>2
                <5> HIDE DEF HighEnd
                <5> QED
                    BY <5>2, <5>3
            <4> QED
                BY <1>3, <1>4, <1>8, <1>12, <1>16, <3>1, <3>3, <4>1
        <3> QED
            BY <3>2, <3>3
    <2>3. CASE i \in 1..n
        <3>1. i \in Speaking(DOMAIN lines)
            BY <1>2, <2>1, <2>3 DEF Speaking
        <3> QED
            BY <1>1, <1>13, <1>16, <2>3, <3>1 DEF PanelOK
    <2> QED
        BY <1>2, <2>1, <2>2, <2>3
<1>17. PanelOK(panel.pages, panel.next, seen)'
    <2>1. \A i \in Speaking(seen) : LowEnd(i)' < panel.next /\ panel.next < HighEnd(i)' => Overlong(i)'
        BY <1>1, <1>13, <1>15 DEF PanelOK
    <2>2. \A i \in Speaking(seen) :
             panel.next <= LowEnd(i)' => Overlong(i)' \/ \E p \in DOMAIN panel.pages : i \in panel.pages[p]
        BY <1>1, <1>13, <1>15 DEF PanelOK
    <2>3. \A p \in DOMAIN panel.pages : \A i \in panel.pages[p] : i \in Speaking(seen) /\ panel.next <= LowEnd(i)'
        BY <1>1, <1>13, <1>15 DEF PanelOK
    <2>4. \A p, q \in DOMAIN panel.pages : p < q => \A i \in panel.pages[p], j \in panel.pages[q] : i < j
        BY <1>1 DEF PanelOK
    <2> QED
        BY <1>8, <1>14, <1>16, <2>1, <2>2, <2>3, <2>4 DEF PanelOK
<1>18. style' = "store" => size' = Written'
    BY <1>8, <1>10
<1>19. panel'.next <= Latest'
    BY <1>8, <1>12
<1> QED
    BY <1>9, <1>11, <1>17, <1>18, <1>19, PanelInvNext DEF PanelHolds

LEMMA FinishInv ==
    ASSUME PagingInv, HarnessFinishes
    PROVE  PagingInv'
<1>1. LinesOK /\ PagingTypeOK /\ style \in {"file", "chunks", "store"} /\ Written \in Nat
    BY TotalsType DEF PagingInv, LinesOK, Written
<1>2. /\ style' = style /\ lines' = lines /\ panel' = panel /\ seen' = seen /\ asked' = asked
      /\ style # "store" /\ size' = Written /\ Written' = Written /\ size < Written /\ size \in Nat
    BY <1>1 DEF HarnessFinishes, PagingInv, PagingTypeOK, Written, End
<1>3. panel.next \in Nat /\ panel.next <= Latest'
    BY <1>1, <1>2 DEF PagingInv, Latest, PagingTypeOK
<1>4. PagingTypeOK'
    BY <1>1, <1>2 DEF PagingTypeOK
<1>5. LinesOK'
    BY <1>1, <1>2 DEF LinesOK, End, Told, Begin
<1>6. PanelOK(panel.pages, panel.next, seen)
    BY <1>1, PanelInv DEF PagingInv, PanelHolds
<1>7. /\ Speaking(DOMAIN lines)' = Speaking(DOMAIN lines) /\ Speaking(seen)' = Speaking(seen)
      /\ \A i : LowEnd(i)' = LowEnd(i) /\ HighEnd(i)' = HighEnd(i) /\ (Overlong(i)' <=> Overlong(i))
    BY <1>2 DEF Speaking, LowEnd, HighEnd, Overlong, Begin, End
<1>8. PanelOK(panel.pages, panel.next, seen)'
    BY <1>2, <1>6, <1>7 DEF PanelOK
<1> QED
    BY <1>2, <1>3, <1>4, <1>5, <1>8, PanelInvNext DEF PanelHolds

(* A step of the panel that only asks, or fails.                           *)
LEMMA AskInv ==
    ASSUME PagingInv, UNCHANGED <<style, lines, size, panel, seen>>, asked' \in {"none", "latest", "older"}
    PROVE  PagingInv'
    BY DEF PagingInv, PagingTypeOK, LinesOK, Written, Latest, Contiguous, Complete, NothingElse, InOrder,
           Shown, AtOrAfter, Speaking, LowEnd, HighEnd, Overlong, Begin, End, Told

(* What the panel shows changes, and perhaps what could be seen.           *)
LEMMA ShowInv ==
    ASSUME PagingInv, UNCHANGED <<style, lines, size>>, asked' = "none", seen' \in SUBSET DOMAIN lines,
           NEW all \in Seq(SUBSET DOMAIN lines), NEW count \in Nat, NEW next \in Nat, next <= Latest,
           panel' = [pages |-> all, turns |-> count, next |-> next], PanelOK(all, next, seen')
    PROVE  PagingInv'
<1>1. LinesOK /\ PagingTypeOK
    BY DEF PagingInv
<1>2. panel' \in [pages : Seq(SUBSET DOMAIN lines), turns : Nat, next : Nat]
    OBVIOUS
<1>3. Written' = Written /\ Latest' = Latest
    BY DEF Written, Latest, End
<1>4. PagingTypeOK'
    BY <1>1, <1>2, <1>3 DEF PagingTypeOK
<1>5. LinesOK'
    BY <1>1 DEF LinesOK, End, Told, Begin
<1>6. /\ Speaking(DOMAIN lines)' = Speaking(DOMAIN lines) /\ Speaking(seen)' = Speaking(seen')
      /\ \A i : LowEnd(i)' = LowEnd(i) /\ HighEnd(i)' = HighEnd(i) /\ (Overlong(i)' <=> Overlong(i))
    BY DEF Speaking, LowEnd, HighEnd, Overlong, Begin, End
<1>7. panel'.pages = all /\ panel'.next = next
    OBVIOUS
<1>8. PanelOK(panel.pages, panel.next, seen)'
    BY <1>6, <1>7 DEF PanelOK
<1>9. (style = "store" => size = Written)'
    BY <1>3 DEF PagingInv
<1> QED
    BY <1>3, <1>4, <1>5, <1>7, <1>8, <1>9, PanelInvNext DEF PanelHolds

LEMMA LatestInv ==
    ASSUME PagingInv, LatestArrives
    PROVE  PagingInv'
<1> DEFINE lastSeen == {i \in DOMAIN lines : style = "store" \/ End(i) - 1 <= size}
           page == PageAt(Latest)
<1>1. LinesOK /\ PagingTypeOK /\ size \in Nat /\ Latest \in Nat /\ Latest <= Latest
    BY TotalsType DEF PagingInv, PagingTypeOK, Latest, Written
<1>2. Count(page.shown) \in Nat /\ PageOK(page, Latest)
    BY <1>1, PagesOK
<1>3. lastSeen \in SUBSET DOMAIN lines
    OBVIOUS
<1>4. \A i \in Speaking(DOMAIN lines) : /\ i \in lastSeen <=> HighEnd(i) <= Latest
                                        /\ LowEnd(i) \in Nat /\ HighEnd(i) \in Nat /\ LowEnd(i) < HighEnd(i)
    BY <1>1, LinesInOrder, TotalsType DEF HighEnd, Latest, Speaking
<1>5. \A i \in Speaking(lastSeen) : i \in Speaking(DOMAIN lines) /\ i \in lastSeen
    BY DEF Speaking
<1> HIDE DEF lastSeen
<1>6. PanelOK(<<>>, Latest, lastSeen)
    BY <1>1, <1>4, <1>5 DEF PanelOK
<1>10. page.shown \in SUBSET DOMAIN lines
    BY <1>2 DEF PageOK, Speaking
<1> HIDE DEF page
<1>7. AsPage(page.shown) \in Seq(SUBSET DOMAIN lines)
    <2>1. CASE page.shown = {}
        BY <2>1 DEF AsPage
    <2>2. CASE page.shown # {}
        BY <1>10, <2>2 DEF AsPage
    <2> QED
        BY <2>1, <2>2
<1>8. AsPage(page.shown) \o <<>> = AsPage(page.shown)
    BY <1>7
<1>9. seen' = lastSeen /\ asked' = "none" /\ UNCHANGED <<style, lines, size>>
      /\ panel' = [pages |-> AsPage(page.shown), turns |-> Count(page.shown), next |-> page.next]
    BY DEF LatestArrives, lastSeen, page
<1>11. PanelOK(AsPage(page.shown) \o <<>>, page.next, lastSeen)
    <2>1. <<>> \in Seq(SUBSET DOMAIN lines)
        OBVIOUS
    <2> QED
        BY <1>1, <1>2, <1>3, <1>6, <2>1, PrependOK
<1>12. PanelOK(AsPage(page.shown), page.next, seen') /\ seen' \in SUBSET DOMAIN lines
    BY <1>3, <1>8, <1>9, <1>11
<1>13. page.next \in Nat /\ page.next <= Latest
    BY <1>2 DEF PageOK
<1> DEFINE all == AsPage(page.shown)
<1>14. /\ all \in Seq(SUBSET DOMAIN lines) /\ PanelOK(all, page.next, seen')
       /\ panel' = [pages |-> all, turns |-> Count(page.shown), next |-> page.next]
    BY <1>7, <1>9, <1>12
<1> HIDE DEF all
<1> QED
    BY <1>2, <1>9, <1>12, <1>13, <1>14, ShowInv

LEMMA OlderInv ==
    ASSUME PagingInv, OlderArrives
    PROVE  PagingInv'
<1> DEFINE page == PageAt(panel.next)
           turns == Count(page.shown) + panel.turns
<1>1. LinesOK /\ PagingTypeOK /\ size \in Nat /\ panel.next \in Nat /\ panel.next <= Latest /\ panel.turns \in Nat
    BY TotalsType DEF PagingInv, PagingTypeOK, Written
<1>2. turns \in Nat
    BY <1>1, PagesOK
<1>3. PanelOK(panel.pages, panel.next, seen)
    BY <1>1, PanelInv DEF PagingInv, PanelHolds
<1>4. asked' = "none" /\ UNCHANGED <<style, lines, size, seen>>
      /\ panel' = IF turns > MaxShown THEN panel
                  ELSE [pages |-> AsPage(page.shown) \o panel.pages, turns |-> turns, next |-> page.next]
    BY DEF OlderArrives
<1>5. CASE turns > MaxShown
    BY <1>4, <1>5, AskInv
<1>6. CASE ~(turns > MaxShown)
    <2>1. panel' = [pages |-> AsPage(page.shown) \o panel.pages, turns |-> turns, next |-> page.next]
        BY <1>4, <1>6
    <2>2. seen \in SUBSET DOMAIN lines /\ panel.pages \in Seq(SUBSET DOMAIN lines)
        BY <1>1 DEF PagingTypeOK
    <2>3. PageOK(page, panel.next)
        BY <1>1, PagesOK
    <2>4. page.next \in Nat /\ page.next <= Latest
        BY <1>1, <2>3, TotalsType DEF PageOK, Latest
    <2> HIDE DEF page, turns
    <2> DEFINE all == AsPage(page.shown) \o panel.pages
    <2>5. all \in Seq(SUBSET DOMAIN lines) /\ PanelOK(all, page.next, seen)
        BY <1>1, <1>3, <2>2, <2>3, PrependOK
    <2>6. panel' = [pages |-> all, turns |-> turns, next |-> page.next]
        BY <2>1
    <2> HIDE DEF all
    <2>7. seen' \in SUBSET DOMAIN lines /\ PanelOK(all, page.next, seen')
        BY <1>4, <2>2, <2>5
    <2> QED
        BY <1>2, <1>4, <2>4, <2>5, <2>6, <2>7, ShowInv
<1> QED
    BY <1>5, <1>6

LEMMA PagingNextInv == PagingInv /\ [PagingNext]_pagingVars => PagingInv'
<1> SUFFICES ASSUME PagingInv, [PagingNext]_pagingVars
             PROVE  PagingInv'
    OBVIOUS
<1>1. asked \in {"none", "latest", "older"}
    BY DEF PagingInv, PagingTypeOK
<1>2. ASSUME NEW l \in Lines, HarnessWrites(l)
      PROVE  PagingInv'
    BY <1>2, LineWrittenInv
<1>3. CASE HarnessFinishes
    BY <1>3, FinishInv
<1>4. CASE PanelRefreshes
    BY <1>4, AskInv DEF PanelRefreshes
<1>5. CASE PanelLoadsOlder
    BY <1>5, AskInv DEF PanelLoadsOlder
<1>6. CASE LatestArrives
    BY <1>6, LatestInv
<1>7. CASE OlderArrives
    BY <1>7, OlderInv
<1>8. CASE ReadFails
    BY <1>8, AskInv DEF ReadFails
<1>9. CASE UNCHANGED pagingVars
    BY <1>1, <1>9, AskInv DEF pagingVars
<1> QED
    BY <1>2, <1>3, <1>4, <1>5, <1>6, <1>7, <1>8, <1>9 DEF PagingNext

LEMMA PagingInvariant == PagingSpec => []PagingInv
    BY PagingInitInv, PagingNextInv, PTL DEF PagingSpec

(* A transcript, the cursors into it and the pages of the panel stay well  *)
(* typed, whatever the harness writes between two reads (transcripts.ts).  *)
THEOREM PagingTypeCorrect == PagingSpec => []PagingTypeOK
<1>1. PagingInv => PagingTypeOK
    BY DEF PagingInv
<1> QED
    BY <1>1, PagingInvariant, PTL

(* Paging backward loses no turn, repeats none and does not stand still,   *)
(* for any lines, windows and limits and whatever the harness writes       *)
(* between two reads: only a line as long as the widest window is skipped  *)
(* or stands in the way (pageFrom, readWindow, opencodePage,               *)
(* opencodeStoredPage, useSessionRead).                                    *)
THEOREM PagesAlwaysTile == PagingSpec => []PagesTile
<1>1. PagingInv => PagesTile
    <2> SUFFICES ASSUME PagingInv
                 PROVE  PagesTile
        OBVIOUS
    <2>1. LinesOK /\ size \in Nat /\ panel.next \in Nat /\ panel.next <= Latest /\ Contiguous
        BY TotalsType DEF PagingInv, PagingTypeOK, Written
    <2>2. ~TooLong(panel.next) => MovesOn
        BY <2>1, PagesOK DEF MovesOn
    <2> QED
        BY <2>1, <2>2 DEF PagesTile
<1> QED
    BY <1>1, PagingInvariant, PTL

-----------------------------------------------------------------------------
(* The run of the parts.                                                   *)

(* Each behaviour of the run is a behaviour of every part, so that what    *)
(* was proved of the parts holds of the run.                               *)
THEOREM PartsAreParts ==
    PartsSpec => HubLockSpec /\ TopologySpec /\ PagingSpec /\ CatalogueSpec /\ DraftsSpec
<1>1. PartsInit => HubLockInit /\ TopologyInit /\ PagingInit /\ CatalogueInit /\ DraftsInit
    BY DEF PartsInit
<1>2. [PartsNext]_partsVars =>
          /\ [HubLockNext]_lockVars /\ [TopologyNext]_topologyVars /\ [PagingNext]_pagingVars
          /\ [CatalogueNext]_catalogueVars /\ [DraftsNext]_draftVars
    <2> HIDE DEF HubLockNext, TopologyNext, PagingNext, CatalogueNext, DraftsNext,
                 lockVars, topologyVars, pagingVars, catalogueVars, draftVars
    <2> QED
        BY DEF PartsNext, partsVars
<1> QED
    BY <1>1, <1>2, PTL DEF PartsSpec, HubLockSpec, TopologySpec, PagingSpec, CatalogueSpec, DraftsSpec

(* Every part stays well typed, when starts of the hub do not overlap.     *)
THEOREM PartsTypeCorrect ==
    ASSUME ~Overlap
    PROVE  PartsSpec => []PartsTypeOK
<1>1. HubLockSpec => []HubLockTypeOK
    BY HubLockTypeCorrect
<1>2. /\ TopologySpec => []TopologyTypeOK
      /\ PagingSpec => []PagingTypeOK
      /\ CatalogueSpec => []CatalogueTypeOK
      /\ DraftsSpec => []DraftsTypeOK
    BY TopologyTypeCorrect, PagingTypeCorrect, CatalogueTypeCorrect, DraftsTypeCorrect, PTL
<1>3. HubLockTypeOK /\ TopologyTypeOK /\ PagingTypeOK /\ CatalogueTypeOK /\ DraftsTypeOK => PartsTypeOK
    BY DEF PartsTypeOK
<1> QED
    BY <1>1, <1>2, <1>3, PartsAreParts, PTL

=============================================================================
