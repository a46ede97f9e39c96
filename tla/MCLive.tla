------------------------------- MODULE MCLive -------------------------------
(* Two tabs of one browser, which are model values. *)
EXTENDS Live

CONSTANTS x, y
=============================================================================
