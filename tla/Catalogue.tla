----------------------------- MODULE Catalogue -----------------------------
(***************************************************************************)
(* The models that a launcher offers on this device, as the hub knows them *)
(* (class DeviceModelCatalogue).  One launcher, by its name: its row may   *)
(* be changed, deleted and created again while refreshes run, each of      *)
(* which waits for the harness's command.  Nothing joins two refreshes of  *)
(* one launcher, and nothing ends one whose launcher is gone.              *)
(*                                                                         *)
(* Several launchers are refreshed one after the other, so a refresh may   *)
(* wait between its arrival and its start.  A list of models, with the     *)
(* efforts of each, is one value.  Which part of the environment, of the   *)
(* arguments or of the executable differs between setups is not modelled.  *)
(* Times are ages, counted up to Ttl, where more makes no difference.      *)
(***************************************************************************)
EXTENDS Integers

CONSTANTS Setups,       \* what a launcher may be set up as: harness, argv, env
          Offers,       \* the lists of models that a command may report
          Nothing,      \* no launcher, no list, no time
          Ttl,          \* CATALOGUE_TTL_MS
          Requests,     \* BOUND: refreshes under way at a time
          MaxEdits      \* BOUND: changes of the launcher's row and of what is on offer

Ages == (0..Ttl) \union {Nothing}
Fingerprint == [setup : Setups, revision : 1..(MaxEdits + 1)]
Entry == [of : Fingerprint, status : {"unavailable", "ready", "stale"},
          models : Offers \union {Nothing}, fetched : Ages]

(* `ours`: the map still holds the entry that the refresh works on.        *)
Refresh == [at : {"waiting", "running", "read", "done"}, of : Fingerprint, ours : BOOLEAN,
            started : Ages, models : Offers \union {Nothing}]

ASSUME CatalogueAssumption ==
    /\ Ttl \in Nat \ {0} /\ MaxEdits \in Nat
    /\ Nothing \notin Offers \union Nat \union Fingerprint \union Entry \union Refresh

VARIABLES
    launcher,  \* the row of the launcher: setup and revision
    offer,     \* the list that each setup's command would report
    offered,   \* HISTORY: how long ago each list was last on offer
    entry,     \* states.get(name): the launcher it is of, and what is known
    refreshes, \* the local variables of each refresh
    edits      \* how many of MaxEdits have come

catalogueVars == <<launcher, offer, offered, entry, refreshes, edits>>

CatalogueInit ==
    /\ launcher \in [setup : Setups, revision : {1}]
    /\ offer \in [Setups -> Offers]
    /\ offered = [s \in Setups |-> [o \in Offers |-> IF o = offer[s] THEN 0 ELSE Nothing]]
    /\ edits = 0
    /\ entry = Nothing
    /\ refreshes = [r \in Requests |-> Nothing]

-----------------------------------------------------------------------------
(* stateFor: an entry is of one fingerprint; another one starts anew.      *)

Unknown(of) == [of |-> of, status |-> "unavailable", models |-> Nothing,
                fetched |-> Nothing]

(* Mutant: an entry is found by the launcher's name.                       *)
EntryByName(of) == IF entry = Nothing THEN Unknown(of) ELSE [entry EXCEPT !.of = of]

EntryOf(of) == IF entry # Nothing /\ entry.of = of THEN entry ELSE Unknown(of)

Kept(of) == entry # Nothing /\ entry.of = of

(* Refreshes of an entry that is replaced go on, on one that nobody reads. *)
Orphaned(of) == [r \in Requests |->
    IF refreshes[r] = Nothing \/ Kept(of) THEN refreshes[r]
    ELSE [refreshes[r] EXCEPT !.ours = FALSE]]

(* failState: what was fetched stays, but is no longer current.            *)
Failed == [entry EXCEPT !.status = IF entry.fetched = Nothing THEN "unavailable" ELSE "stale"]

(* snapshot, hasCurrentCatalogue, resolveSelection.                        *)
Looks ==
    /\ launcher # Nothing
    /\ entry' = EntryOf(launcher)
    /\ refreshes' = Orphaned(launcher)
    /\ UNCHANGED <<launcher, offer, offered, edits>>

RefreshArrives(r) ==
    /\ launcher # Nothing /\ refreshes[r] = Nothing
    /\ entry' = EntryOf(launcher)
    /\ refreshes' = [Orphaned(launcher) EXCEPT ![r] =
            [at |-> "waiting", of |-> launcher, ours |-> TRUE, started |-> Nothing,
             models |-> Nothing]]
    /\ UNCHANGED <<launcher, offer, offered, edits>>

In(r, stages) == refreshes[r] # Nothing /\ refreshes[r].at \in stages

RefreshStarts(r) ==
    /\ In(r, {"waiting"})
    /\ refreshes' = [refreshes EXCEPT ![r].at = "running", ![r].started = 0]
    /\ UNCHANGED <<launcher, offer, offered, entry, edits>>

(* The command reads the device at some time while it runs.                *)
CommandReads(r) ==
    /\ In(r, {"running"})
    /\ refreshes' = [refreshes EXCEPT ![r].at = "read",
                                      ![r].models = offer[refreshes[r].of.setup]]
    /\ UNCHANGED <<launcher, offer, offered, entry, edits>>

(* Mutant: a list is fresh from the moment that its answer came.           *)
FreshFromTheAnswer(r) == 0

Fetched(r) == refreshes[r].started

RefreshSucceeds(r) ==
    /\ In(r, {"read"})
    /\ refreshes' = [refreshes EXCEPT ![r].at = "done"]
    /\ entry' = IF refreshes[r].ours
                THEN [entry EXCEPT !.status = "ready", !.models = refreshes[r].models,
                                   !.fetched = Fetched(r)]
                ELSE entry
    /\ UNCHANGED <<launcher, offer, offered, edits>>

(* The executable is missing, the command fails, or it reports nothing     *)
(* that is valid.                                                          *)
RefreshFails(r) ==
    /\ In(r, {"waiting", "running", "read"})
    /\ refreshes' = [refreshes EXCEPT ![r].at = "done"]
    /\ entry' = IF refreshes[r].ours THEN Failed ELSE entry
    /\ UNCHANGED <<launcher, offer, offered, edits>>

(* The answer shows the launchers as they were when the request arrived,   *)
(* and looking them up so replaces the entry of a launcher that has        *)
(* changed since.                                                          *)
RefreshAnswers(r) ==
    /\ In(r, {"done"})
    /\ entry' = EntryOf(refreshes[r].of)
    /\ refreshes' = [Orphaned(refreshes[r].of) EXCEPT ![r] = Nothing]
    /\ UNCHANGED <<launcher, offer, offered, edits>>

-----------------------------------------------------------------------------
(* The operator and the device.                                            *)

Edit == edits < MaxEdits /\ edits' = edits + 1

(* Revisions count from 1 again for a launcher that is created again.      *)
LauncherIsSet(s) ==
    /\ Edit
    /\ launcher' = [setup |-> s,
                    revision |-> IF launcher = Nothing THEN 1 ELSE launcher.revision + 1]
    /\ UNCHANGED <<offer, offered, entry, refreshes>>

LauncherIsDeleted ==
    /\ Edit
    /\ launcher # Nothing /\ launcher' = Nothing
    /\ UNCHANGED <<offer, offered, entry, refreshes>>

OfferChanges(s, o) ==
    /\ Edit
    /\ offer[s] # o
    /\ offer' = [offer EXCEPT ![s] = o]
    /\ offered' = [offered EXCEPT ![s][o] = 0]
    /\ UNCHANGED <<launcher, entry, refreshes>>

Older(age) == IF age \in 0..(Ttl - 1) THEN age + 1 ELSE age

TimePasses ==
    /\ offered' = [s \in Setups |-> [o \in Offers |->
                        IF o = offer[s] THEN 0 ELSE Older(offered[s][o])]]
    /\ entry' = IF entry = Nothing THEN entry ELSE [entry EXCEPT !.fetched = Older(@)]
    /\ refreshes' = [r \in Requests |-> IF refreshes[r] = Nothing THEN Nothing
                                        ELSE [refreshes[r] EXCEPT !.started = Older(@)]]
    /\ UNCHANGED <<launcher, offer, edits>>

CatalogueNext ==
    \/ Looks
    \/ \E r \in Requests :
          \/ RefreshArrives(r) \/ RefreshStarts(r) \/ CommandReads(r)
          \/ RefreshSucceeds(r) \/ RefreshFails(r) \/ RefreshAnswers(r)
    \/ \E s \in Setups : LauncherIsSet(s)
    \/ LauncherIsDeleted
    \/ \E s \in Setups, o \in Offers : OfferChanges(s, o)
    \/ TimePasses

CatalogueSpec == CatalogueInit /\ [][CatalogueNext]_catalogueVars

-----------------------------------------------------------------------------
CatalogueTypeOK ==
    /\ edits \in 0..MaxEdits
    /\ launcher \in Fingerprint \union {Nothing}
    /\ offer \in [Setups -> Offers]
    /\ offered \in [Setups -> [Offers -> Ages]]
    /\ entry \in Entry \union {Nothing}
    /\ refreshes \in [Requests -> Refresh \union {Nothing}]

(* What a spawn may choose from, or the form shows as ready (visible).     *)
Current == entry # Nothing /\ entry.of = launcher /\ entry.status = "ready" /\ entry.fetched < Ttl

(* "Must not show an invented or stale static model list as an available   *)
(* device catalogue" (product-definition.md): models that are current were *)
(* on offer for the launcher as it is set up now, less than the time to    *)
(* live ago (refreshOne, stateFor, visible, resolveSelection), whatever    *)
(* refreshes of this launcher, or of what it was before, end meanwhile.    *)
CurrentModelsAreOffered ==
    Current => /\ entry.models # Nothing
               /\ offered[launcher.setup][entry.models] # Nothing
               /\ offered[launcher.setup][entry.models] < Ttl

=============================================================================
