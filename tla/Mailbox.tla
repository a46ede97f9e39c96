------------------------------ MODULE Mailbox ------------------------------
(***************************************************************************)
(* The message store of src/src/store.ts: channels, memberships, messages  *)
(* and the two watermarks of a membership.  Every action is one store      *)
(* transaction, called by one synchronous request handler of the hub.      *)
(*                                                                         *)
(*   cursor    memberships.cursor_id: the participant has read up to here  *)
(*   notified  memberships.notified_id: a ping has covered up to here      *)
(*                                                                         *)
(* The channels of the model are rows of the channels table: AUTOINCREMENT *)
(* never uses a row id twice, so a channel is created at most once and     *)
(* deleted at most once.  Two channels may have one name, one after the    *)
(* other; requests name the channel, the notifier keeps the row id.        *)
(***************************************************************************)
EXTENDS Roster, Integers, Sequences, FiniteSets

CONSTANTS Chat,           \* rows that createChannel may create
          Direct,         \* rows that sendDirect may create
          Workspace,      \* rows that a broadcast or a spawn may create
          Names,          \* channel names
          NameOf,         \* the name of each row
          Between,        \* the two parties of each direct row
          MaxRows,        \* BOUND: how many channel rows are ever inserted
          MaxMessages     \* BOUND: how many messages are ever sent

Channels == Chat \union Direct \union Workspace

ASSUME MailboxAssumption ==
    /\ Chat \intersect Direct = {}
    /\ Chat \intersect Workspace = {}
    /\ Direct \intersect Workspace = {}
    /\ NameOf \in [Channels -> Names]
    /\ Between \in [Direct -> SUBSET Participants]
    /\ MaxRows \in Nat
    /\ MaxMessages \in Nat

VARIABLES
    status,    \* of each channel row: not yet inserted, there, or deleted
    log,       \* of each channel row: its messages, oldest first
    lastId,    \* the messages table's AUTOINCREMENT value
    member,    \* the memberships rows, by their key <<participant, channel>>
    cursor,    \* cursor_id of a membership (0 where there is none)
    notified,  \* notified_id of a membership (0 where there is none)
    replies,   \* fetch answers a participant may still acknowledge
    shown      \* HISTORY: the ids that fetch has returned to a participant

mailboxVars == <<status, log, lastId, member, cursor, notified, retired,
                 replies, shown>>
rowVars     == <<status, log, lastId, member, cursor, notified>>

Memberships == Participants \X Channels
Message     == [id : Nat, from : Participants]
Reply       == [name : Names, through : Nat]

MailboxTypeOK ==
    /\ status \in [Channels -> {"unborn", "open", "deleted"}]
    /\ log \in [Channels -> Seq(Message)]
    /\ lastId \in Nat
    /\ member \subseteq Memberships
    /\ cursor \in [Memberships -> Nat]
    /\ notified \in [Memberships -> Nat]
    /\ retired \subseteq Participants
    /\ replies \in [Participants -> SUBSET Reply]
    /\ shown \in [Participants -> SUBSET Nat]

Open(c) == status[c] = "open"

NameTaken(n) == \E c \in Channels : NameOf[c] = n /\ Open(c)

Insertable(c) ==
    /\ status[c] = "unborn"
    /\ ~NameTaken(NameOf[c])
    /\ Cardinality({o \in Channels : status[o] # "unborn"}) < MaxRows

Ids(c) == {log[c][i].id : i \in DOMAIN log[c]}

OthersIds(p, c) == {log[c][i].id : i \in {j \in DOMAIN log[c] : log[c][j].from # p}}

HighWater(c) == IF log[c] = <<>> THEN 0 ELSE log[c][Len(log[c])].id

Unread(p, c) == {id \in OthersIds(p, c) : id > cursor[<<p, c>>]}

-----------------------------------------------------------------------------

MailboxInit ==
    /\ status = [c \in Channels |-> "unborn"]
    /\ log = [c \in Channels |-> <<>>]
    /\ lastId = 0
    /\ member = {}
    /\ cursor = [pc \in Memberships |-> 0]
    /\ notified = [pc \in Memberships |-> 0]
    /\ retired = {}
    /\ replies = [p \in Participants |-> {}]
    /\ shown = [p \in Participants |-> {}]

CreateChannel(c) ==
    /\ c \in Chat
    /\ Insertable(c)
    /\ status' = [status EXCEPT ![c] = "open"]
    /\ UNCHANGED <<log, lastId, member, cursor, notified, retired, replies, shown>>

(* The rows of the memberships D go away.                                  *)
EndMemberships(D) ==
    /\ member' = member \ D
    /\ cursor' = [pc \in Memberships |-> IF pc \in D THEN 0 ELSE cursor[pc]]
    /\ notified' = [pc \in Memberships |-> IF pc \in D THEN 0 ELSE notified[pc]]

DeleteChannel(c) ==
    /\ Open(c)
    /\ c \notin Workspace
    /\ status' = [status EXCEPT ![c] = "deleted"]
    /\ log' = [log EXCEPT ![c] = <<>>]
    /\ EndMemberships(Participants \X {c})
    /\ UNCHANGED <<lastId, retired, replies, shown>>

(* W with the memberships J \X {c}, those already there kept as they are,  *)
(* the new ones starting at the high-water mark.                           *)
Joined(W, J, c) ==
    [pc \in Memberships |->
        IF pc \in (J \X {c}) \ member THEN HighWater(c) ELSE W[pc]]

StartMemberships(J, c) ==
    /\ member' = member \union (J \X {c})
    /\ cursor' = Joined(cursor, J, c)
    /\ notified' = Joined(notified, J, c)

Join(p, c) ==
    /\ Open(c)
    /\ c \notin Direct
    /\ p \notin retired
    /\ StartMemberships({p}, c)
    /\ UNCHANGED <<status, log, lastId, retired, replies, shown>>

AddMember(p, c) ==
    /\ Open(c)
    /\ c \notin Direct
    /\ p \notin retired
    /\ <<p, c>> \notin member
    /\ StartMemberships({p}, c)
    /\ UNCHANGED <<status, log, lastId, retired, replies, shown>>

RemoveMember(p, c) ==
    /\ Open(c)
    /\ c \notin Direct
    /\ EndMemberships({<<p, c>>})
    /\ UNCHANGED <<status, log, lastId, retired, replies, shown>>

EnsureWorkspaceMembers(c, J) ==
    /\ c \in Workspace
    /\ Open(c) \/ Insertable(c)
    /\ J \intersect retired = {}
    /\ status' = [status EXCEPT ![c] = "open"]
    /\ StartMemberships(J, c)
    /\ UNCHANGED <<log, lastId, retired, replies, shown>>

RollbackWorkspaceMembers(c, J, deleteIfEmpty) ==
    /\ c \in Workspace
    /\ Open(c)
    /\ EndMemberships(J \X {c})
    /\ status' = IF /\ deleteIfEmpty
                    /\ log[c] = <<>>
                    /\ \A p \in Participants : <<p, c>> \notin member'
                 THEN [status EXCEPT ![c] = "deleted"]
                 ELSE status
    /\ UNCHANGED <<log, lastId, retired, replies, shown>>

(* Mutant: a sender is caught up by its own message whatever it has read.  *)
InsertMessageSkipping(p, c, mem, cur, ntf) ==
    LET id == lastId + 1
    IN  /\ lastId < MaxMessages
        /\ lastId' = id
        /\ log' = [log EXCEPT ![c] = Append(@, [id |-> id, from |-> p])]
        /\ member' = mem
        /\ cursor' = IF <<p, c>> \in mem THEN [cur EXCEPT ![<<p, c>>] = id] ELSE cur
        /\ notified' = IF <<p, c>> \in mem THEN [ntf EXCEPT ![<<p, c>>] = id] ELSE ntf
        /\ UNCHANGED <<retired, replies, shown>>

(* Mutant: only one of the two watermarks of the sender moves.             *)
InsertMessageHalf(p, c, mem, cur, ntf) ==
    LET id       == lastId + 1
        caughtUp == <<p, c>> \in mem /\ cur[<<p, c>>] = HighWater(c)
    IN  /\ lastId < MaxMessages
        /\ lastId' = id
        /\ log' = [log EXCEPT ![c] = Append(@, [id |-> id, from |-> p])]
        /\ member' = mem
        /\ cursor' = IF caughtUp THEN [cur EXCEPT ![<<p, c>>] = id] ELSE cur
        /\ notified' = ntf
        /\ UNCHANGED <<retired, replies, shown>>

(* insertMessage, with the memberships that the transaction has just made. *)
(* A sender that had read everything stays caught up.                      *)
InsertMessage(p, c, mem, cur, ntf) ==
    LET id       == lastId + 1
        caughtUp == <<p, c>> \in mem /\ cur[<<p, c>>] = HighWater(c)
    IN  /\ lastId < MaxMessages
        /\ lastId' = id
        /\ log' = [log EXCEPT ![c] = Append(@, [id |-> id, from |-> p])]
        /\ member' = mem
        /\ cursor' = IF caughtUp THEN [cur EXCEPT ![<<p, c>>] = id] ELSE cur
        /\ notified' = IF caughtUp THEN [ntf EXCEPT ![<<p, c>>] = id] ELSE ntf
        /\ UNCHANGED <<retired, replies, shown>>

Send(p, c) ==
    /\ Open(c)
    /\ p \notin retired
    /\ c \in Direct => /\ <<p, c>> \in member
                       /\ \A q \in retired : <<q, c>> \notin member
    /\ InsertMessage(p, c, member, cursor, notified)
    /\ UNCHANGED status

(* The members of a new direct channel start at 0, the column's default.   *)
SendDirect(p, c) ==
    /\ c \in Direct
    /\ p \in Between[c]
    /\ Between[c] \intersect retired = {}
    /\ Open(c) \/ Insertable(c)
    /\ status' = [status EXCEPT ![c] = "open"]
    /\ InsertMessage(p, c,
                     IF Open(c) THEN member ELSE member \union (Between[c] \X {c}),
                     cursor, notified)

(* R are the recipients that hold an active route.                         *)
BroadcastWorkspace(p, c, R) ==
    /\ c \in Workspace
    /\ Open(c) \/ Insertable(c)
    /\ p \notin retired
    /\ R \intersect retired = {}
    /\ status' = [status EXCEPT ![c] = "open"]
    /\ InsertMessage(p, c, member \union (R \X {c}),
                     Joined(cursor, R, c), Joined(notified, R, c))

(* throughId covers exactly the messages returned.  A client that was      *)
(* shown nothing has nothing to acknowledge.                               *)
Newest(S) == CHOOSE id \in S : \A other \in S : other <= id

Fetch(p, c) ==
    /\ p \notin retired
    /\ Open(c)
    /\ <<p, c>> \in member
    /\ Unread(p, c) # {}
    /\ replies' = [replies EXCEPT ![p] = @ \union
                     {[name |-> NameOf[c], through |-> Newest(Unread(p, c))]}]
    /\ shown' = [shown EXCEPT ![p] = @ \union Unread(p, c)]
    /\ UNCHANGED <<rowVars, retired>>

(* Mutant: the last acknowledgement wins, instead of the largest.          *)
AtLast(W, p, c, through) == [W EXCEPT ![<<p, c>>] = through]

AtLeast(W, p, c, through) ==
    IF W[<<p, c>>] >= through THEN W ELSE [W EXCEPT ![<<p, c>>] = through]

(* An acknowledgement may come late, twice, out of order or never, so an   *)
(* answer stays acknowledgeable.  It names the channel, not its row.       *)
Ack(p, c, through) ==
    /\ p \notin retired
    /\ Open(c)
    /\ [name |-> NameOf[c], through |-> through] \in replies[p]
    /\ <<p, c>> \in member
    /\ through \in Ids(c) \union {0}
    /\ cursor' = AtLeast(cursor, p, c, through)
    /\ notified' = AtLeast(notified, p, c, through)
    /\ UNCHANGED <<status, log, lastId, member, retired, replies, shown>>

Deactivate(p) ==
    /\ retired' = retired \union {p}
    /\ UNCHANGED <<rowVars, replies, shown>>

(* The notifier's two writes.  It kept the row id of the membership from   *)
(* an earlier read: the row may be gone by now, and the write does nothing.*)
MarkNotified(p, c, through) ==
    IF <<p, c>> \in member THEN AtLeast(notified, p, c, through) ELSE notified

RolledBack(ntf, R) ==
    [pc \in Memberships |->
        IF pc \in R /\ cursor[pc] < ntf[pc] THEN cursor[pc] ELSE ntf[pc]]

(* On its own, the store lets a notifier write at any moment.              *)
NotifierWrites(p, c) ==
    /\ \/ \E id \in Ids(c) : notified' = MarkNotified(p, c, id)
       \/ notified' = RolledBack(notified, {<<p, c>>})
    /\ UNCHANGED <<status, log, lastId, member, cursor, retired, replies, shown>>

MailboxNext ==
    \/ \E c \in Channels : CreateChannel(c) \/ DeleteChannel(c)
    \/ \E p \in Participants : Deactivate(p)
    \/ \E p \in Participants, c \in Channels :
          \/ Join(p, c)
          \/ AddMember(p, c)
          \/ RemoveMember(p, c)
          \/ Send(p, c)
          \/ SendDirect(p, c)
          \/ \E R \in SUBSET Participants : BroadcastWorkspace(p, c, R)
          \/ Fetch(p, c)
          \/ \E reply \in replies[p] : Ack(p, c, reply.through)
          \/ NotifierWrites(p, c)
    \/ \E c \in Workspace, J \in SUBSET Participants :
          \/ EnsureWorkspaceMembers(c, J)
          \/ \E deleteIfEmpty \in BOOLEAN :
                RollbackWorkspaceMembers(c, J, deleteIfEmpty)

MailboxSpec == MailboxInit /\ [][MailboxNext]_mailboxVars

-----------------------------------------------------------------------------

(* Inbox's state in terms of this one: unread is what the cursor leaves.   *)
UnreadOf == [pc \in Memberships |->
                IF pc \in member THEN Unread(pc[1], pc[2]) ELSE {}]

Promise == INSTANCE Inbox WITH unread <- UnreadOf

(* The store keeps the promise of Inbox: whatever the order of sends,      *)
(* joins, leaves, deletions, late or repeated acknowledgements and pings,  *)
(* a message leaves a member's unread set only after fetch returned it.    *)
KeepsPromise == Promise!Spec

(* The rows agree: messages stand in id order, a watermark is 0 or the id  *)
(* of a message of its own channel, and no read passes the ping watermark, *)
(* so that MAX(cursor_id, notified_id) of the pending query is notified_id.*)
LogOrdered ==
    \A c \in Channels : \A i, j \in DOMAIN log[c] :
        i < j => log[c][i].id < log[c][j].id

WatermarksInChannel ==
    \A pc \in member :
        /\ cursor[pc] \in Ids(pc[2]) \union {0}
        /\ notified[pc] \in Ids(pc[2]) \union {0}
        /\ cursor[pc] <= notified[pc]

RowsAgree == LogOrdered /\ WatermarksInChannel

(* "Monotonic: neither cursor ever moves backwards" (store.ts, ack): while *)
(* the membership lasts, no request and no notifier write rewinds a read,  *)
(* and a ping is forgotten only down to what has been read.                *)
ReadsNeverRewind ==
    [][\A pc \in member \intersect member' :
          /\ cursor'[pc] >= cursor[pc]
          /\ notified'[pc] >= notified[pc] \/ notified'[pc] = cursor'[pc]]_mailboxVars

(* A row of a deleted channel never reappears, and no answer about it can  *)
(* move a cursor of the channel that took over its name.                   *)
DeletedLeavesNothing ==
    \A c \in Channels : status[c] # "open" =>
        /\ log[c] = <<>>
        /\ \A p \in Participants :
              /\ <<p, c>> \notin member
              /\ cursor[<<p, c>>] = 0 /\ notified[<<p, c>>] = 0

=============================================================================
