----------------------------- MODULE MCMailbox -----------------------------
(***************************************************************************)
(* The message store with two participants.  All chat rows have one name,  *)
(* so that a channel can be deleted and created again under old requests.  *)
(***************************************************************************)
EXTENDS Mailbox, TLC

MCNameOf ==
    [c \in Channels |-> CASE c \in Chat      -> "backend"
                          [] c \in Direct    -> "dm"
                          [] c \in Workspace -> "ws"]

MCBetween == [c \in Direct |-> Participants]

Interchangeable == Permutations(Participants) \union Permutations(Chat)

=============================================================================
