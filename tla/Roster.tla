------------------------------- MODULE Roster -------------------------------
(***************************************************************************)
(* The identities of the participants table that the other modules share.  *)
(***************************************************************************)
CONSTANTS Participants,  \* every identity
          Agents         \* those with kind = 'agent'; the others are human

ASSUME RosterAssumption == Agents \subseteq Participants

VARIABLE retired         \* the identities with deactivated = 1

=============================================================================
