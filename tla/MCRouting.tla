----------------------------- MODULE MCRouting -----------------------------
(***************************************************************************)
(* Two agents and two terminals.  Terminals and agents are interchangeable *)
(* in the specification, so one layout and one registered agent stand for  *)
(* the others.                                                             *)
(***************************************************************************)
EXTENDS Routing

CONSTANTS a, b, t, u

MCLayout == <<t, u>>

=============================================================================
