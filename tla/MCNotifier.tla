----------------------------- MODULE MCNotifier -----------------------------
(***************************************************************************)
(* The notifier with one human.  All chat rows have one name.              *)
(***************************************************************************)
EXTENDS Notifier

CONSTANTS a, b, t, u

MCNameOf == [c \in Channels |-> "backend"]

MCBetween == [c \in Direct |-> {}]

(* Closing the first pane renumbers the one of a.                         *)
MCLayout == <<u, t>>

MCHome == [x \in Agents |-> IF x = a THEN t ELSE u]

=============================================================================
