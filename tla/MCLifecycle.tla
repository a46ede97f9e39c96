---------------------------- MODULE MCLifecycle -----------------------------
(***************************************************************************)
(* Spawns, stops and resumes in a workspace with one or two panes.         *)
(***************************************************************************)
EXTENDS Lifecycle

CONSTANTS root, t1, t2, t3

MCLayout == <<root>>

=============================================================================
