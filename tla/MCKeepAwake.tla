---------------------------- MODULE MCKeepAwake -----------------------------
(***************************************************************************)
(* Two agents in a channel that one of them coordinates.                   *)
(***************************************************************************)
EXTENDS KeepAwake

CONSTANTS a1, a2, d1, d2

MCDirect == [x \in Agents |-> IF x = a1 THEN d1 ELSE d2]

=============================================================================
