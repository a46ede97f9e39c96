----------------------------- MODULE MCHubLock -----------------------------
(***************************************************************************)
(* Two hub processes whose starts may overlap.                             *)
(***************************************************************************)
EXTENDS HubLock

=============================================================================
