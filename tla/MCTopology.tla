----------------------------- MODULE MCTopology -----------------------------
(***************************************************************************)
(* The topology watcher alone, through one change and one outage of Herdr. *)
(***************************************************************************)
EXTENDS Topology

=============================================================================
