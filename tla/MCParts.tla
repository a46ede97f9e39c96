------------------------------ MODULE MCParts ------------------------------
(***************************************************************************)
(* Five small parts that share no state: the lock file, the topology       *)
(* watcher, the pages of a transcript, the models of a launcher, and the   *)
(* drafts of the web client.                                               *)
(* Each behaviour is one of one part, chosen at the start: steps of        *)
(* another part could not disturb it, and would only multiply the states.  *)
(***************************************************************************)
EXTENDS HubLock, Topology, Paging, Catalogue, Drafts

VARIABLE part

partsVars == <<part, lockVars, topologyVars, pagingVars, catalogueVars, draftVars>>

(* Lines that are shorter than a window, as long as one, that fill the     *)
(* widest with their newline, and that fill it without.                    *)
MCLines == {[size |-> 1, turns |-> 0, voice |-> "none"],
            [size |-> 2, turns |-> 1, voice |-> "agent"],
            [size |-> 3, turns |-> 2, voice |-> "none"],
            [size |-> 5, turns |-> 1, voice |-> "user"],
            [size |-> 6, turns |-> 1, voice |-> "user"]}

(* One of the setups and lists that nothing tells apart yet.               *)
MCFirst == CHOOSE s \in Setups : TRUE
MCList == CHOOSE o \in Offers : TRUE

PartsInit ==
    /\ part \in {"lock", "topology", "paging", "catalogue", "drafts"}
    /\ HubLockInit /\ TopologyInit /\ PagingInit /\ CatalogueInit /\ DraftsInit
    /\ part = "topology" \/ up
    /\ part = "paging" \/ style = CHOOSE s \in Styles : TRUE
    /\ launcher.setup = MCFirst /\ offer[MCFirst] = MCList
    /\ part = "catalogue" \/ \A s \in Setups : offer[s] = MCList

PartsNext ==
    /\ UNCHANGED part
    /\ \/ /\ part = "lock" /\ HubLockNext
          /\ UNCHANGED <<topologyVars, pagingVars, catalogueVars, draftVars>>
       \/ /\ part = "topology" /\ TopologyNext
          /\ UNCHANGED <<lockVars, pagingVars, catalogueVars, draftVars>>
       \/ /\ part = "paging" /\ PagingNext
          /\ UNCHANGED <<lockVars, topologyVars, catalogueVars, draftVars>>
       \/ /\ part = "catalogue" /\ CatalogueNext
          /\ UNCHANGED <<lockVars, topologyVars, pagingVars, draftVars>>
       \/ /\ part = "drafts" /\ DraftsNext
          /\ UNCHANGED <<lockVars, topologyVars, pagingVars, catalogueVars>>

PartsTypeOK ==
    HubLockTypeOK /\ TopologyTypeOK /\ PagingTypeOK /\ CatalogueTypeOK /\ DraftsTypeOK

(* A behaviour of another part is not a fair one of the topology watcher.  *)
PartsSpec == PartsInit /\ [][PartsNext]_partsVars /\ TopologyFairness

=============================================================================
