------------------------------- MODULE Inbox -------------------------------
(***************************************************************************)
(* What the message store promises a participant, without cursors.         *)
(*                                                                         *)
(* Each membership has a set of unread messages.  A message enters the     *)
(* unread set of every member but its sender at the moment it is posted,   *)
(* and leaves it in one of two ways only: the membership ends, or the      *)
(* participant confirms a message that the store has shown to it.  Nothing *)
(* is skipped, and nothing comes back.                                     *)
(***************************************************************************)
EXTENDS Integers

CONSTANTS Participants,  \* identities that can belong to a channel
          Channels       \* channel identities, each one used once

VARIABLES
    lastId,   \* the newest message id ever given out
    member,   \* the memberships, a set of <<participant, channel>>
    unread,   \* the unread message ids of a membership
    shown     \* the message ids a participant has been shown

vars == <<lastId, member, unread, shown>>

Init ==
    /\ lastId = 0
    /\ member = {}
    /\ unread = [pc \in Participants \X Channels |-> {}]
    /\ shown = [p \in Participants |-> {}]

(* A message by p reaches every member of c but p. J joins just before it. *)
Post(p, c, J) ==
    /\ lastId' = lastId + 1
    /\ member' = member \union (J \X {c})
    /\ unread' = [pc \in Participants \X Channels |->
                    IF pc \in member' /\ pc[2] = c /\ pc[1] # p
                    THEN unread[pc] \union {lastId'}
                    ELSE unread[pc]]
    /\ UNCHANGED shown

(* A new member starts with nothing unread: earlier history is not news.   *)
Join(J, c) ==
    /\ member' = member \union (J \X {c})
    /\ UNCHANGED <<lastId, unread, shown>>

(* Memberships end, and their unread messages with them.                   *)
End ==
    /\ member' \subseteq member
    /\ unread' = [pc \in Participants \X Channels |->
                    IF pc \in member' THEN unread[pc] ELSE {}]
    /\ UNCHANGED <<lastId, shown>>

(* The store shows p everything unread in c.                               *)
Show(p, c) ==
    /\ shown' = [shown EXCEPT ![p] = @ \union unread[<<p, c>>]]
    /\ UNCHANGED <<lastId, member, unread>>

(* p confirms messages of c that it was shown.                             *)
Read(p, c, S) ==
    /\ S \subseteq unread[<<p, c>>] \intersect shown[p]
    /\ unread' = [unread EXCEPT ![<<p, c>>] = @ \ S]
    /\ UNCHANGED <<lastId, member, shown>>

Next ==
    \/ \E p \in Participants, c \in Channels :
          \/ \E J \in SUBSET Participants : Post(p, c, J) \/ Join(J, c)
          \/ Show(p, c)
          \/ \E S \in SUBSET unread[<<p, c>>] : Read(p, c, S)
    \/ End

Spec == Init /\ [][Next]_vars

=============================================================================
