----------------------------- MODULE MCPaging -----------------------------
(***************************************************************************)
(* A transcript with a line that fills the widest window.                  *)
(***************************************************************************)
EXTENDS Paging

MCLines == {[size |-> 2, turns |-> 1, voice |-> "agent"],
            [size |-> 5, turns |-> 1, voice |-> "user"]}

=============================================================================
