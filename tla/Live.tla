-------------------------------- MODULE Live --------------------------------
(***************************************************************************)
(* The live message stream of a browser: `eventStream` and the Broadcaster *)
(* of the hub, MessageSseClient and SharedMessageSseClient of the web      *)
(* client, which let the tabs of one browser share a stream, and the       *)
(* message list of use-live-messages, for the channel that is selected.    *)
(*                                                                         *)
(* Messages are their ids, 1 .. stored.  A tab that reloads its page is    *)
(* closed and opened again.  The browser's clock, which stamps the epochs  *)
(* of the leaders, does not step back.                                     *)
(***************************************************************************)
EXTENDS Integers, Sequences, FiniteSets, SequencesExt

CONSTANTS Tabs,        \* the browser's tabs
          Nobody,      \* no tab
          MaxReplay,   \* how many messages one Last-Event-ID replays
          MaxMessages, \* bound: messages
          MaxTransit,  \* bound: events from one tab to another in transit
          MaxTurns     \* bound: pages opened, connections lost, channels selected
                       \* again and list requests that fail, together

ASSUME LiveAssumption ==
    /\ Nobody \notin Tabs
    /\ IsFiniteSet(Tabs)
    /\ {MaxReplay, MaxMessages, MaxTransit, MaxTurns} \subseteq Nat

VARIABLES stored,    \* the newest message
          holder,    \* the tab that holds the Web Lock, the leader
          stamp,     \* the newest epoch, 0 when no tab has led
          tabs,      \* the shared client of every tab
          inbox,     \* inbox[t][s]: what s posted and t has not received
          views,     \* the message list of every tab
          stream,    \* the leader's connection
          turns,     \* how much of MaxTurns is spent
          unheard,   \* ghost: messages published where no stream could see them
          cut,       \* ghost: messages whose frame came cut off
          whole      \* ghost: the tab recovered, and no two loads overlapped since

liveVars == <<stored, holder, stamp, tabs, inbox, views, stream, turns, unheard,
              cut, whole>>

Messages == 1 .. MaxMessages
Unread == -1   \* the hub has not read the list for this request yet

\* What a new page holds: a client without an epoch, an empty list.
Fresh == [running |-> FALSE, epoch |-> 0, sequence |-> 0, lastEventId |-> 0]
EmptyView == [ready |-> FALSE, buffered |-> {}, shown |-> {}, loads |-> <<>>]

\* No connection; lastId is the lastEventId of the leader's MessageSseClient,
\* which is not that of its shared client.
Offline == [phase |-> "none", wire |-> <<>>, again |-> FALSE, lastId |-> 0]

LiveInit ==
    /\ stored = 0 /\ holder = Nobody /\ stamp = 0
    /\ tabs = [t \in Tabs |-> Fresh]
    /\ inbox = [t \in Tabs |-> [s \in Tabs |-> <<>>]]
    /\ views = [t \in Tabs |-> EmptyView]
    /\ stream = Offline
    /\ turns = 0
    /\ unheard = {}
    /\ cut = {}
    /\ whole = [t \in Tabs |-> FALSE]

Running == {t \in Tabs : tabs[t].running}
Turn == turns < MaxTurns /\ turns' = turns + 1

----------------------------------------------------------------------------
(* The message list of a tab. *)

\* Mutant: the channel stays ready while its list is loaded.
LoadingStaysReady(view) == [view EXCEPT !.loads = Append(@, Unread)]

\* `loadSnapshot`: the channel is not ready until the answer comes.
Loading(view) == [view EXCEPT !.ready = FALSE, !.loads = Append(@, Unread)]

\* `onOpen`: only a reconnection loads the list again.
Reopened(view, reconnecting) == IF reconnecting THEN Loading(view) ELSE view

\* `onMessage`: a message that comes during a load is buffered.
Received(view, m) ==
    IF view.ready THEN [view EXCEPT !.shown = @ \union {m}]
                  ELSE [view EXCEPT !.buffered = @ \union {m}]

\* The answer replaces the list with what was read and what was buffered.
Loaded(view, i) ==
    [ready |-> TRUE, buffered |-> {}, shown |-> (1 .. view.loads[i]) \union view.buffered,
     loads |-> RemoveAt(view.loads, i)]

\* A failed load leaves the channel unready.
NotLoaded(view, i) == [view EXCEPT !.loads = RemoveAt(@, i)]

\* What a tab does with an event that its shared client delivers to it.
Delivered(view, event) ==
    CASE event.type = "open" -> Reopened(view, event.reconnecting)
      [] event.type = "message" -> Received(view, event.message)
      [] OTHER -> view

\* Ghost: after a recovery that no other load overlaps, a list has no gap; an
\* open that is no reconnection ends that.
WholeAfter(t, event) ==
    IF event.type = "open" THEN event.reconnecting /\ views[t].loads = <<>> ELSE whole[t]

----------------------------------------------------------------------------
(* The shared client: an event of the leader's epoch, as other tabs take it. *)

\* `postMessage` of t: every other open tab gets the event.
Posted(box, t, event) ==
    [r \in Tabs |-> [s \in Tabs |->
        IF s = t /\ r # t /\ r \in Running THEN Append(box[r][s], event) ELSE box[r][s]]]

Room(t) == \A r \in Running \ {t} : Len(inbox[r][t]) < MaxTransit

\* `acceptEpoch` of a leader's announcement.
AcceptsEpoch(t, event) ==
    LET c == tabs[t] IN
    IF c.epoch = event.epoch THEN event.sequence >= c.sequence
    ELSE c.epoch = 0 \/ (t # holder /\ event.epoch > c.epoch)

NewestId(c, event) == IF event.lastEventId = 0 THEN c.lastEventId ELSE event.lastEventId

EpochAccepted(c, event) ==
    [c EXCEPT !.epoch = event.epoch, !.sequence = event.sequence, !.lastEventId = NewestId(c, event)]

\* `receiveData`: an event of an older epoch, or a repeated one, is dropped.
AcceptsData(t, event) ==
    LET c == tabs[t] IN
    IF c.epoch \in {0, event.epoch} THEN event.sequence > c.sequence
    ELSE event.epoch > c.epoch /\ t # holder

----------------------------------------------------------------------------
(* Pages, and the election of the leader. *)

\* A page opens: `start` says hello, then the channel's list is loaded.
OpenPage(t) ==
    /\ t \notin Running
    /\ Turn /\ Room(t)
    /\ tabs' = [tabs EXCEPT ![t] = [Fresh EXCEPT !.running = TRUE]]
    /\ views' = [views EXCEPT ![t] = Loading(EmptyView)]
    /\ inbox' = Posted(inbox, t, [type |-> "hello"])
    /\ whole' = [whole EXCEPT ![t] = FALSE]
    /\ UNCHANGED <<stored, holder, stamp, stream, unheard, cut>>

\* Mutant: closing a page leaves its connection open.
ClosePageKeepsStream(t) ==
    /\ t \in Running
    /\ tabs' = [tabs EXCEPT ![t] = Fresh]
    /\ views' = [views EXCEPT ![t] = EmptyView]
    /\ inbox' = [inbox EXCEPT ![t] = [s \in Tabs |-> <<>>]]
    /\ whole' = [whole EXCEPT ![t] = FALSE]
    /\ IF t = holder THEN holder' = Nobody ELSE UNCHANGED holder
    /\ UNCHANGED <<stored, stamp, stream, turns, unheard, cut>>

\* A page closes; the browser lets its lock and its connection go.
ClosePage(t) ==
    /\ t \in Running
    /\ tabs' = [tabs EXCEPT ![t] = Fresh]
    /\ views' = [views EXCEPT ![t] = EmptyView]
    /\ inbox' = [inbox EXCEPT ![t] = [s \in Tabs |-> <<>>]]
    /\ whole' = [whole EXCEPT ![t] = FALSE]
    /\ IF t = holder THEN holder' = Nobody /\ stream' = Offline
                     ELSE UNCHANGED <<holder, stream>>
    /\ UNCHANGED <<stored, stamp, turns, unheard, cut>>

\* `tryAcquire`, at the start and on every election timer, and `runAsLeader`
\* when the lock is free: announce the epoch and ask the hub for the stream.
Lead(t) ==
    /\ t \in Running /\ holder = Nobody /\ Room(t)
    /\ holder' = t
    /\ stamp' = stamp + 1
    /\ tabs' = [tabs EXCEPT ![t].epoch = stamp + 1]
    /\ inbox' = Posted(inbox, t, [type |-> "leader", epoch |-> stamp + 1,
                                  sequence |-> tabs[t].sequence, lastEventId |-> tabs[t].lastEventId])
    /\ stream' = [Offline EXCEPT !.phase = "asking", !.lastId = tabs[t].lastEventId]
    /\ UNCHANGED <<stored, views, turns, unheard, cut, whole>>

\* The leader's next event: its stream has opened, has brought m, or has failed.
OpenEvent(id, again) ==
    [type |-> "open", epoch |-> tabs[holder].epoch, sequence |-> tabs[holder].sequence + 1,
     lastEventId |-> id, reconnecting |-> again]
MessageEvent(m) ==
    [type |-> "message", epoch |-> tabs[holder].epoch, sequence |-> tabs[holder].sequence + 1,
     lastEventId |-> m, message |-> m]
ErrorEvent(id) ==
    [type |-> "error", epoch |-> tabs[holder].epoch, sequence |-> tabs[holder].sequence + 1,
     lastEventId |-> id]

\* `publish` by the leader: to the other tabs, and to its own list.
Publishes(event) ==
    /\ Room(holder)
    /\ tabs' = [tabs EXCEPT ![holder].sequence = event.sequence,
                            ![holder].lastEventId = event.lastEventId]
    /\ inbox' = Posted(inbox, holder, event)
    /\ views' = [views EXCEPT ![holder] = Delivered(@, event)]
    /\ whole' = [whole EXCEPT ![holder] = WholeAfter(holder, event)]

\* `receive`: the next event from tab s.
Receive(t, s) ==
    LET event == Head(inbox[t][s])
        rest == [inbox EXCEPT ![t][s] = Tail(@)]
    IN
    /\ t \in Running /\ inbox[t][s] # <<>>
    /\ \/ /\ event.type = "hello"
          /\ t = holder => Room(t)
          /\ inbox' = IF t = holder
                      THEN Posted(rest, t, [type |-> "state", epoch |-> tabs[t].epoch,
                                            sequence |-> tabs[t].sequence,
                                            lastEventId |-> tabs[t].lastEventId])
                      ELSE rest
          /\ UNCHANGED <<tabs, views, whole>>
       \/ /\ event.type \in {"leader", "state"}
          /\ tabs' = IF AcceptsEpoch(t, event) THEN [tabs EXCEPT ![t] = EpochAccepted(@, event)]
                                               ELSE tabs
          /\ inbox' = rest
          /\ UNCHANGED <<views, whole>>
       \/ /\ event.type \in {"open", "message", "error"}
          /\ inbox' = rest
          /\ IF AcceptsData(t, event)
             THEN /\ tabs' = [tabs EXCEPT ![t] = EpochAccepted(@, event)]
                  /\ views' = [views EXCEPT ![t] = Delivered(@, event)]
                  /\ whole' = [whole EXCEPT ![t] = WholeAfter(t, event)]
             ELSE UNCHANGED <<tabs, views, whole>>
    /\ UNCHANGED <<stored, holder, stamp, stream, turns, unheard, cut>>

----------------------------------------------------------------------------
(* The connection: `eventStream` and the Broadcaster, then the client's loop. *)

\* `replayAfter`: the oldest messages after the id, none without one.
Backlog(from) ==
    IF from = 0 THEN <<>>
    ELSE [i \in 1 .. IF stored < from + MaxReplay THEN stored - from ELSE MaxReplay |-> from + i]

\* Ghost: what no replay after the id brings.
Beyond(from) == IF from = 0 THEN 1 .. stored ELSE from + MaxReplay + 1 .. stored

\* The client's request, with the id that it has read last, reaches the hub; the
\* hub reads the backlog, and then awaits the topology.
HubReads ==
    /\ stream.phase = "asking"
    /\ stream' = [stream EXCEPT !.phase = "opening", !.wire = Backlog(stream.lastId)]
    /\ unheard' = unheard \union Beyond(stream.lastId)
    /\ UNCHANGED <<stored, holder, stamp, tabs, inbox, views, turns, cut, whole>>

\* A message is stored and published in one handler, to the streams registered.
Publish ==
    /\ stored < MaxMessages
    /\ stored' = stored + 1
    /\ IF stream.phase = "open"
       THEN stream' = [stream EXCEPT !.wire = Append(@, stored + 1)] ELSE UNCHANGED stream
    /\ unheard' = IF stream.phase = "opening" THEN unheard \union {stored + 1} ELSE unheard
    /\ UNCHANGED <<holder, stamp, tabs, inbox, views, turns, cut, whole>>

\* The topology is read: the backlog is sent, the stream registered, and the
\* client, whose answer this is, calls `onOpen` and `publishOpen`.
Opened ==
    /\ stream.phase = "opening"
    /\ stream' = [stream EXCEPT !.phase = "open", !.again = FALSE]
    /\ Publishes(OpenEvent(tabs[holder].lastEventId, stream.again \/ tabs[holder].sequence > 0))
    /\ UNCHANGED <<stored, holder, stamp, turns, unheard, cut>>

\* The next whole message frame: it moves Last-Event-ID and goes to all tabs.
Frame ==
    /\ stream.phase = "open" /\ stream.wire # <<>>
    /\ stream' = [stream EXCEPT !.wire = Tail(@), !.lastId = Head(stream.wire)]
    /\ Publishes(MessageEvent(Head(stream.wire)))
    /\ UNCHANGED <<stored, holder, stamp, turns, unheard, cut>>

\* The connection ends, and the client asks again.
AsksAgain == [stream EXCEPT !.phase = "asking", !.wire = <<>>, !.again = TRUE]

\* Mutant: Last-Event-ID moves with what was read, before it is dispatched.
DropAfterReading ==
    /\ stream.phase \in {"asking", "opening", "open"}
    /\ Turn
    /\ stream' = [AsksAgain EXCEPT !.lastId =
                    IF stream.phase = "open" /\ stream.wire # <<>> THEN Last(stream.wire) ELSE @]
    /\ Publishes(ErrorEvent(tabs[holder].lastEventId))
    /\ UNCHANGED <<stored, holder, stamp, unheard, cut>>

\* Mutant: the client's loop ends with the connection.
DropForGood ==
    /\ stream.phase \in {"asking", "opening", "open"}
    /\ Turn
    /\ stream' = Offline
    /\ \/ Publishes(ErrorEvent(tabs[holder].lastEventId))
       \/ stream.phase = "open" /\ UNCHANGED <<tabs, inbox, views, whole>>
    /\ UNCHANGED <<stored, holder, stamp, unheard, cut>>

\* The connection is lost between two frames, with what is on the wire, or the
\* request fails; a stream that was open may also just end, which is no error.
Drop ==
    /\ stream.phase \in {"asking", "opening", "open"}
    /\ Turn
    /\ stream' = AsksAgain
    /\ \/ Publishes(ErrorEvent(tabs[holder].lastEventId))
       \/ stream.phase = "open" /\ UNCHANGED <<tabs, inbox, views, whole>>
    /\ UNCHANGED <<stored, holder, stamp, unheard, cut>>

\* The connection ends inside the data of a frame: what came is dispatched, the
\* client's Last-Event-ID moves, and only then does the decoding fail.  (A cut
\* before the data has no effect, and one behind it leaves a whole frame.  One
\* error event stands for two when the read failed too.)
CutFrame ==
    /\ stream.phase = "open" /\ stream.wire # <<>>
    /\ Turn
    /\ stream' = [AsksAgain EXCEPT !.lastId = Head(stream.wire)]
    /\ Publishes(ErrorEvent(tabs[holder].lastEventId))
    /\ cut' = cut \union {Head(stream.wire)}
    /\ UNCHANGED <<stored, holder, stamp, unheard>>

----------------------------------------------------------------------------
(* The list requests of a tab.  They may be answered in any order. *)

\* The user selects the channel again.
Reload(t) ==
    /\ t \in Running
    /\ Turn
    /\ views' = [views EXCEPT ![t] = Loading(@)]
    /\ whole' = [whole EXCEPT ![t] = @ /\ views[t].loads = <<>>]
    /\ UNCHANGED <<stored, holder, stamp, tabs, inbox, stream, unheard, cut>>

\* The hub reads the list for a request.
ListRead(t, i) ==
    /\ views[t].loads[i] = Unread
    /\ views' = [views EXCEPT ![t].loads[i] = stored]
    /\ UNCHANGED <<stored, holder, stamp, tabs, inbox, stream, turns, unheard, cut, whole>>

\* The answer of a request reaches the tab.
ListAnswered(t, i) ==
    /\ views[t].loads[i] # Unread
    /\ views' = [views EXCEPT ![t] = Loaded(@, i)]
    /\ UNCHANGED <<stored, holder, stamp, tabs, inbox, stream, turns, unheard, cut, whole>>

\* A request fails, before or after the hub read the list.
ListFails(t, i) ==
    /\ Turn
    /\ views' = [views EXCEPT ![t] = NotLoaded(@, i)]
    /\ UNCHANGED <<stored, holder, stamp, tabs, inbox, stream, unheard, cut, whole>>

----------------------------------------------------------------------------

ListSteps(t) == \E i \in DOMAIN views[t].loads : ListRead(t, i) \/ ListAnswered(t, i)

Connection == HubReads \/ Opened \/ Frame

LiveNext ==
    \/ Publish \/ HubReads \/ Opened \/ Frame \/ Drop \/ CutFrame
    \/ \E t \in Tabs :
        \/ OpenPage(t) \/ ClosePage(t) \/ Lead(t) \/ Reload(t)
        \/ \E s \in Tabs : Receive(t, s)
        \/ \E i \in DOMAIN views[t].loads : ListRead(t, i) \/ ListAnswered(t, i) \/ ListFails(t, i)

LiveSpec == LiveInit /\ [][LiveNext]_liveVars

\* The hub answers what it gets, frames and events in transit arrive, election
\* and retry timers fire.  Nothing obliges a user, a message or a failure.
FairLiveSpec ==
    /\ LiveSpec
    /\ WF_liveVars(Connection)
    /\ WF_liveVars(\E t \in Tabs : Lead(t))
    /\ \A t \in Tabs : WF_liveVars(ListSteps(t)) /\ WF_liveVars(\E s \in Tabs : Receive(t, s))

----------------------------------------------------------------------------

IdOrZero == 0 .. MaxMessages

Event ==
    [type : {"hello"}]
    \union [type : {"leader", "state", "error"}, epoch : Nat, sequence : Nat, lastEventId : IdOrZero]
    \union [type : {"open"}, epoch : Nat, sequence : Nat, lastEventId : IdOrZero, reconnecting : BOOLEAN]
    \union [type : {"message"}, epoch : Nat, sequence : Nat, lastEventId : IdOrZero, message : Messages]

\* The types, and that only the holder of the lock has a connection: the tab is
\* open (`leaderStop` and `close` of shared-sse.ts), its epoch is the newest.
LiveTypeOK ==
    /\ stored \in IdOrZero
    /\ holder \in Running \union {Nobody}
    /\ stamp \in Nat
    /\ tabs \in [Tabs -> [running : BOOLEAN, epoch : 0 .. stamp, sequence : Nat, lastEventId : 0 .. stored]]
    /\ \A t, s \in Tabs : inbox[t][s] \in Seq(Event)
    /\ \A t \in Tabs :
        /\ views[t].ready \in BOOLEAN
        /\ views[t].buffered \union views[t].shown \subseteq 1 .. stored
        /\ views[t].loads \in Seq({Unread} \union 0 .. stored)
    /\ stream.phase \in {"none", "asking", "opening", "open"}
    /\ stream.wire \in Seq(1 .. stored) /\ stream.lastId \in 0 .. stored
    /\ holder = Nobody <=> stream.phase = "none"
    /\ holder # Nobody => tabs[holder].epoch = stamp
    /\ unheard \union cut \subseteq 1 .. stored
    /\ whole \in [Tabs -> BOOLEAN]

\* What sse.ts:4-6 promises, as far as the code keeps it: nothing that happens
\* while the browser is disconnected, and no change of the leader, loses a
\* message.  A leader's Last-Event-ID passes only messages that were published
\* while the hub was opening a stream, before a stream that asked for no replay,
\* or further back than one replay reaches, or whose frame came cut off.
ReplayCoversDisconnection ==
    [][holder' = holder /\ holder # Nobody =>
         tabs[holder].lastEventId + 1 .. tabs'[holder].lastEventId - 1
             \subseteq unheard \union cut]_liveVars

\* All that was sent to the tab has arrived.
Quiet(t) ==
    /\ t \in Running
    /\ stream.phase = "open" /\ stream.wire = <<>>
    /\ \A s \in Tabs : inbox[t][s] = <<>>
    /\ views[t].ready /\ views[t].loads = <<>>

\* A tab that was told of a reconnection shows every message once all is quiet,
\* whatever was published meanwhile, whoever leads, also the messages that the
\* stream itself lost: the list is read after the stream is registered, and what
\* comes during the load is buffered (use-live-messages.ts:73-106,179-203).
RecoveryHeals ==
    \A t \in Tabs : Quiet(t) /\ whole[t] => views[t].shown = 1 .. stored

\* While a page is open, a stream opens: the leader's retries and the election
\* timers of the others see to it, however leaders close (shared-sse.ts:178-206).
StreamComesBack == Running # {} ~> (Running = {} \/ stream.phase = "open")
=============================================================================
