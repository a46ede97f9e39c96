------------------------------ MODULE Topology ------------------------------
(***************************************************************************)
(* src/src/topology.ts: how the hub's view of Herdr follows Herdr.         *)
(*                                                                         *)
(* A refresh reads Herdr by three commands and publishes a view; a call    *)
(* while one is in flight joins it.  A command may fail although Herdr is  *)
(* up and its socket open.  A socket subscription delivers an event for    *)
(* each change, and each event asks for a refresh; an event about panes    *)
(* renews the subscription too.  Without a subscription a timer retries,   *)
(* and the notifier's ticks refresh.  Each attempt to subscribe belongs to *)
(* a generation; a step of an old generation does nothing.                 *)
(*                                                                         *)
(* What Herdr shows is a version number.  Routing models what a refresh    *)
(* does to routes.                                                         *)
(***************************************************************************)
EXTENDS Integers, Sequences

CONSTANTS MaxChanges,  \* BOUND: how often what Herdr shows changes
          MaxOutages   \* BOUND: how often Herdr goes down

ASSUME TopologyAssumption == MaxChanges \in Nat /\ MaxOutages \in Nat

VARIABLES
    version,     \* Herdr: what it shows
    up,          \* Herdr: does it answer?
    outages,     \* Herdr: how often it went down
    wire,        \* the frames on their way to the hub's socket
    socket,      \* the hub's end: the generation it was opened for, and its state
    view,        \* current: the version that the hub shows
    refresh,     \* inFlight: the locals of refreshNow
    renewing,    \* the generation whose handler renews after the refresh, or 0
    absorbed,    \* HISTORY: a call joined a refresh that had already read
    missed,      \* HISTORY: the last refresh failed, and the hub watches
    generation,  \* lifecycleGeneration
    subscribed,  \* subscription # null
    connect,     \* subscriptionStarting: the locals of connectSubscription
    retry,       \* the generation that subscriptionRetry was set for, or 0
    stopped

topologyVars == <<version, up, outages, wire, socket, view, refresh, renewing,
                  absorbed, missed, generation, subscribed, connect, retry, stopped>>
herdrVars    == <<version, up, outages>>
refreshVars  == <<view, refresh, renewing, absorbed, missed>>
watchVars    == <<socket, wire, generation, subscribed, connect, retry>>

Versions    == 0..(MaxChanges + MaxOutages)
Generations == 0..(MaxChanges + MaxOutages + 2)
Frames      == {"pane", "other", "end"}
NoRefresh   == [at |-> "idle", ok |-> FALSE, seen |-> 0]
NoConnect   == [at |-> "idle", gen |-> 0, ok |-> FALSE]
NoSocket    == [state |-> "closed", gen |-> 0]

TopologyTypeOK ==
    /\ version \in Versions /\ up \in BOOLEAN /\ outages \in 0..MaxOutages
    /\ wire \in Seq(Frames)
    /\ socket \in [state : {"open", "closed"}, gen : Generations]
    /\ view \in Versions
    /\ refresh \in [at : {"idle", "reading", "read"}, ok : BOOLEAN, seen : Versions]
    /\ renewing \in Generations
    /\ absorbed \in BOOLEAN /\ missed \in BOOLEAN /\ subscribed \in BOOLEAN /\ stopped \in BOOLEAN
    /\ generation \in Generations
    /\ connect \in [at : {"idle", "listing", "subscribing", "answered"},
                    gen : Generations, ok : BOOLEAN]
    /\ retry \in Generations

(* start.                                                                  *)
TopologyInit ==
    /\ version = 0 /\ up \in BOOLEAN /\ outages = 0
    /\ wire = <<>>
    /\ socket = NoSocket
    /\ view = 0
    /\ refresh = NoRefresh
    /\ renewing = 0
    /\ absorbed = FALSE
    /\ missed = FALSE
    /\ generation = 1
    /\ subscribed = FALSE
    /\ connect = [at |-> "listing", gen |-> 1, ok |-> FALSE]
    /\ retry = 0
    /\ stopped = FALSE

-----------------------------------------------------------------------------
(* The synchronous parts, as the next values they give.                    *)

(* refresh: start one, or join the one in flight.                          *)
Refreshed ==
    IF refresh.at = "idle"
    THEN /\ refresh' = [NoRefresh EXCEPT !.at = "reading"]
         /\ absorbed' = FALSE
         /\ missed' = FALSE
    ELSE /\ absorbed' = (absorbed \/ refresh.at = "read")
         /\ UNCHANGED <<refresh, missed>>

(* connectSubscription up to its first await, when no subscription stands. *)
Connecting(gen, busy) ==
    IF stopped \/ gen # generation' \/ busy THEN NoConnect
    ELSE [at |-> "listing", gen |-> gen, ok |-> FALSE]

(* The answer to subscribe has come and connectSubscription goes on in the *)
(* same turn: only frames that came with the answer are handled before.    *)
Settling == connect.at = "answered"

(* scheduleSubscriptionRetry.                                              *)
Scheduled(gen) ==
    IF stopped \/ gen # generation \/ retry # 0 THEN retry ELSE gen

-----------------------------------------------------------------------------
(* Refreshing.                                                             *)

(* The notifier's onTick: refresh() unless the socket is watched.  A tick  *)
(* that joins a refresh in flight changes nothing, and the next one comes. *)
Tick ==
    /\ ~Settling
    /\ ~stopped /\ ~subscribed
    /\ refresh.at = "idle"
    /\ Refreshed
    /\ UNCHANGED <<herdrVars, watchVars, view, renewing, stopped>>

(* A request that shows or uses the topology.                              *)
RequestRefreshes ==
    /\ ~Settling
    /\ ~stopped
    /\ Refreshed
    /\ UNCHANGED <<herdrVars, watchVars, view, renewing, stopped>>

(* Mutant: a read that failed counts as a read of nothing.                 *)
RefreshReadsNothing ==
    /\ refresh.at = "reading"
    /\ \E read \in {FALSE, up} :
          refresh' = [at |-> "read", ok |-> TRUE, seen |-> IF read THEN version ELSE -1]
    /\ UNCHANGED <<herdrVars, watchVars, view, renewing, absorbed, missed, stopped>>

(* The first of the commands reads Herdr; ok says whether all of them will *)
(* succeed.  Each fails when Herdr is down, and may fail when it is up:    *)
(* the process cannot be started, its time runs out, its reply is refused. *)
RefreshReads ==
    /\ refresh.at = "reading"
    /\ \E ok \in {FALSE, up} :
          refresh' = [at |-> "read", ok |-> ok, seen |-> IF ok THEN version ELSE 0]
    /\ UNCHANGED <<herdrVars, watchVars, view, renewing, absorbed, missed, stopped>>

(* The refresh ends, and with it the wait of the handlers that called it:  *)
(* restartSubscription, if one of them asked for it.  None of them looks   *)
(* whether the refresh has failed.                                         *)
RefreshEnds ==
    /\ ~Settling
    /\ refresh.at = "read"
    /\ view' = IF refresh.ok THEN refresh.seen ELSE view
    /\ refresh' = NoRefresh
    /\ renewing' = 0
    /\ IF renewing = 0 \/ renewing # generation \/ stopped
       THEN UNCHANGED <<watchVars>>
       ELSE /\ generation' = generation + 1
            /\ subscribed' = FALSE
            /\ IF subscribed
               THEN socket' = NoSocket /\ wire' = <<>>
               ELSE UNCHANGED <<socket, wire>>
            /\ connect' = IF connect.at = "idle"
                          THEN Connecting(generation', FALSE) ELSE connect
            /\ UNCHANGED retry
    /\ missed' = (~refresh.ok /\ subscribed')
    /\ UNCHANGED <<herdrVars, absorbed, stopped>>

-----------------------------------------------------------------------------
(* Subscribing.                                                            *)

ConnectLists ==
    /\ connect.at = "listing"
    /\ connect' = [connect EXCEPT !.at = "subscribing"]
    /\ UNCHANGED <<herdrVars, refreshVars, socket, wire, generation, subscribed,
                   retry, stopped>>

(* Herdr acknowledges, or the call fails or times out.                     *)
SubscribeAnswers ==
    /\ connect.at = "subscribing"
    /\ \E ok \in {FALSE, up} :
          /\ connect' = [connect EXCEPT !.at = "answered", !.ok = ok]
          /\ IF ok THEN socket' = [state |-> "open", gen |-> connect.gen] /\ wire' = <<>>
                   ELSE UNCHANGED <<socket, wire>>
    /\ UNCHANGED <<herdrVars, refreshVars, generation, subscribed, retry, stopped>>

(* Mutant: the generation is not looked at again after the answer.         *)
ConnectReturnsAnyway ==
    /\ Settling
    /\ connect' = NoConnect
    /\ IF connect.ok /\ socket.state = "open"
       THEN subscribed' = TRUE /\ Refreshed /\ UNCHANGED retry
       ELSE /\ retry' = Scheduled(connect.gen)
            /\ UNCHANGED <<subscribed, refresh, absorbed, missed>>
    /\ UNCHANGED <<herdrVars, socket, wire, view, renewing, generation, stopped>>

(* Mutant: no refresh after the subscription was made.                     *)
ConnectReturnsQuietly ==
    /\ Settling
    /\ UNCHANGED generation
    /\ IF stopped \/ connect.gen # generation
       THEN /\ socket' = NoSocket /\ wire' = <<>>
            /\ connect' = Connecting(generation', FALSE)
            /\ UNCHANGED <<retry, subscribed>>
       ELSE /\ connect' = NoConnect
            /\ IF connect.ok /\ socket.state = "open"
               THEN subscribed' = TRUE /\ UNCHANGED retry
               ELSE retry' = Scheduled(connect.gen) /\ UNCHANGED subscribed
            /\ UNCHANGED <<socket, wire>>
    /\ UNCHANGED <<herdrVars, refreshVars, stopped>>

ConnectReturns ==
    /\ Settling
    /\ UNCHANGED generation
    /\ IF stopped \/ connect.gen # generation
       THEN /\ socket' = NoSocket /\ wire' = <<>>
            /\ connect' = Connecting(generation', FALSE)
            /\ UNCHANGED <<retry, subscribed, refresh, absorbed, missed>>
       ELSE /\ connect' = NoConnect
            /\ IF connect.ok /\ socket.state = "open"
               THEN subscribed' = TRUE /\ Refreshed /\ UNCHANGED retry
               ELSE /\ retry' = Scheduled(connect.gen)
                    /\ UNCHANGED <<subscribed, refresh, absorbed, missed>>
            /\ UNCHANGED <<socket, wire>>
    /\ UNCHANGED <<herdrVars, view, renewing, stopped>>

RetryFires ==
    /\ ~Settling
    /\ retry # 0
    /\ retry' = 0
    /\ UNCHANGED generation
    /\ connect' = IF connect.at = "idle" THEN Connecting(retry, subscribed) ELSE connect
    /\ UNCHANGED <<herdrVars, refreshVars, socket, wire, subscribed, stopped>>

-----------------------------------------------------------------------------
(* The socket.                                                             *)

Ours == socket.gen = generation /\ ~stopped

(* handleTopologyEvent.                                                    *)
EventArrives ==
    /\ socket.state = "open" /\ wire # <<>> /\ Head(wire) # "end"
    /\ wire' = Tail(wire)
    /\ IF Ours
       THEN /\ Refreshed
            /\ renewing' = IF Head(wire) = "pane" THEN generation ELSE renewing
       ELSE UNCHANGED <<refresh, absorbed, missed, renewing>>
    /\ UNCHANGED <<herdrVars, view, socket, generation, subscribed, connect, retry,
                   stopped>>

(* onError: the socket ended, or a frame could not be read.                *)
SocketEnds ==
    /\ socket.state = "open" /\ wire # <<>> /\ Head(wire) = "end"
    /\ wire' = <<>>
    /\ socket' = [socket EXCEPT !.state = "closed"]
    /\ IF Ours
       THEN subscribed' = FALSE /\ retry' = Scheduled(socket.gen)
       ELSE UNCHANGED <<subscribed, retry>>
    /\ UNCHANGED <<herdrVars, refreshVars, generation, connect, stopped>>

(* Mutant: the subscription is forgotten, and its socket stays open.       *)
StopWithoutClosing ==
    /\ ~Settling
    /\ ~stopped
    /\ stopped' = TRUE
    /\ generation' = generation + 1
    /\ retry' = 0
    /\ subscribed' = FALSE
    /\ UNCHANGED <<herdrVars, refreshVars, connect, socket, wire>>

Stop ==
    /\ ~Settling
    /\ ~stopped
    /\ stopped' = TRUE
    /\ generation' = generation + 1
    /\ retry' = 0
    /\ subscribed' = FALSE
    /\ IF subscribed THEN socket' = NoSocket /\ wire' = <<>> ELSE UNCHANGED <<socket, wire>>
    /\ UNCHANGED <<herdrVars, refreshVars, connect>>

-----------------------------------------------------------------------------
(* Herdr.                                                                  *)

Sent(frame) == wire' = IF socket.state = "open" THEN Append(wire, frame) ELSE wire

HerdrChanges ==
    /\ up
    /\ version < MaxChanges + outages
    /\ version' = version + 1
    /\ \E frame \in {"pane", "other"} : Sent(frame)
    /\ UNCHANGED <<up, outages, refreshVars, socket, generation, subscribed, connect,
                   retry, stopped>>

(* A socket that closes says so last.                                      *)
HerdrGoesDown ==
    /\ up
    /\ outages < MaxOutages
    /\ outages' = outages + 1
    /\ up' = FALSE
    /\ Sent("end")
    /\ UNCHANGED <<version, refreshVars, socket, generation, subscribed, connect, retry,
                   stopped>>

HerdrComesBack ==
    /\ ~up
    /\ up' = TRUE
    /\ version' \in {version, version + 1} \intersect Versions
    /\ UNCHANGED <<outages, wire, refreshVars, socket, generation, subscribed, connect,
                   retry, stopped>>

TopologyNext ==
    \/ Tick \/ RequestRefreshes \/ RefreshReads \/ RefreshEnds
    \/ ConnectLists \/ SubscribeAnswers \/ ConnectReturns \/ RetryFires
    \/ EventArrives \/ SocketEnds \/ Stop
    \/ HerdrChanges \/ HerdrGoesDown \/ HerdrComesBack

ReadSucceeds == RefreshReads /\ refresh'.ok
SubscribeSucceeds == SubscribeAnswers /\ connect'.ok

(* Calls to Herdr end, by their timeout at the latest; a frame that was    *)
(* sent arrives; timers fire; the notifier ticks.  A call that is made     *)
(* again and again while Herdr is up does not fail every time.             *)
TopologyFairness ==
    /\ WF_topologyVars(Tick)
    /\ WF_topologyVars(RefreshReads)
    /\ WF_topologyVars(RefreshEnds)
    /\ WF_topologyVars(ConnectLists)
    /\ WF_topologyVars(SubscribeAnswers)
    /\ WF_topologyVars(ConnectReturns)
    /\ WF_topologyVars(RetryFires)
    /\ WF_topologyVars(EventArrives)
    /\ WF_topologyVars(SocketEnds)
    /\ SF_topologyVars(ReadSucceeds)
    /\ SF_topologyVars(SubscribeSucceeds)

TopologySpec == TopologyInit /\ [][TopologyNext]_topologyVars /\ TopologyFairness

-----------------------------------------------------------------------------

(* "True while the Herdr socket is delivering lifecycle events"            *)
(* (isWatching), on which the notifier relies to stop its own refreshes;   *)
(* and no socket stays open that nobody owns, so that no event is handled  *)
(* twice (connectSubscription, restartSubscription).                       *)
WatchedSocketIsOurs ==
    /\ subscribed => socket = [state |-> "open", gen |-> generation] /\ ~stopped
    /\ socket.state = "open" => subscribed \/ Settling

(* stop ends watching for good, even when it comes while a subscription is *)
(* being made or a retry is due (stop, connectSubscription).               *)
StopEndsWatching ==
    stopped ~> [](socket.state = "closed" /\ connect = NoConnect /\ retry = 0)

(* "Refreshes from a Herdr lifecycle event without waiting for a tick"     *)
(* (tests/topology.test.ts), and "the notifier remains a fallback"         *)
(* (topology.ts, start): the hub's view catches up with Herdr, watched or  *)
(* not, and though refreshes fail.  Two ways only leave it old: a refresh  *)
(* that had already read absorbed the call, or the refresh failed while    *)
(* the hub watches, when neither the event nor a tick asks again.          *)
ViewCatchesUp ==
    (up /\ view # version) ~> (view = version \/ absorbed \/ missed \/ ~up \/ stopped)

(* "Starts the event-driven refresh path" (topology.ts, start), with a     *)
(* retry after each failure (scheduleSubscriptionRetry): when Herdr is up, *)
(* the hub does not stay without a subscription.                           *)
WatchComesBack == (up /\ ~subscribed) ~> (subscribed \/ stopped \/ ~up)

=============================================================================
