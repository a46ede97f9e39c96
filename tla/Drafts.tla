------------------------------- MODULE Drafts -------------------------------
(***************************************************************************)
(* The drafts of the web client (class CommandDraftStore) and the two      *)
(* views that edit and send them: the command menu, which writes to any    *)
(* target, and the page of an agent, which writes to that agent.  Both     *)
(* share one draft of a target.  A send outlives the view that began it,   *)
(* and its answer may leave open whether the hub acted.                    *)
(*                                                                         *)
(* A text stands for all that the human may type.  Dictation writes as     *)
(* typing does.  Left out are the attachments, which only the page sends,  *)
(* the length of a text, and the end of the session, after which no        *)
(* composer writes or sends.                                               *)
(***************************************************************************)
EXTENDS FiniteSets, Integers

CONSTANTS Targets,     \* commandDraftKey: what a draft is for
          Agents,      \* the targets that have a page
          Terminals,   \* the targets whose pane is looked up before the send
          Texts,
          Blank,       \* a text of white space
          None,        \* no draft, no text, no target, no send
          DraftLimit,  \* COMMAND_DRAFT_LIMIT
          Sends        \* BOUND: sends under way at a time

Views == {"menu", "page"}
Draft == [body : Texts \union {Blank, None},
          delivery : {"editable", "sending", "uncertain"}]
Send == [target : Targets, text : Texts \union {Blank}, from : Views,
         at : {"looking", "posted"}]

ASSUME DraftsAssumption ==
    /\ Agents \subseteq Targets /\ Terminals \subseteq Targets \ Agents
    /\ Blank \notin Texts
    /\ None \notin Texts \union Targets \union Draft \union Sends \union Send \union {Blank}
    /\ DraftLimit \in Nat \ {0} /\ IsFiniteSet(Targets)

VARIABLES
    drafts,      \* the store's map
    shown,       \* the target that each view has a composer for
    pending,     \* the send that the view's present composer waits for
    formPending, \* the menu cannot go back
    notice,      \* the menu's last confirmation is still on the screen
    sends,       \* the sends under way in this page of the browser
    unsure       \* HISTORY: the last send was not confirmed, and nobody has checked

draftVars == <<drafts, shown, pending, formPending, notice, sends, unsure>>

(* A fresh page of the browser: no text is written to its storage.         *)
Blanked ==
    [drafts |-> [t \in Targets |-> None], shown |-> [v \in Views |-> None],
     sends |-> [s \in Sends |-> None], unsure |-> [t \in Targets |-> FALSE]]

DraftsInit ==
    /\ drafts = Blanked.drafts /\ shown = Blanked.shown /\ sends = Blanked.sends
    /\ pending = Blanked.shown /\ unsure = Blanked.unsure /\ formPending = FALSE /\ notice = FALSE

-----------------------------------------------------------------------------
(* updateCommandDraft, setDraftDelivery: the map after a change.           *)

Is(t, delivery) == drafts[t] # None /\ drafts[t].delivery = delivery

(* Mutant: an edit begins a new draft.                                     *)
EditedAnew(t, body) == IF body = None THEN None
                       ELSE [body |-> body, delivery |-> "editable"]

(* An edit, even one that erases all, keeps that a send is unconfirmed.    *)
Edited(t, body) ==
    IF body = None /\ ~Is(t, "uncertain") THEN None
    ELSE [body |-> body,
          delivery |-> IF drafts[t] = None THEN "editable" ELSE drafts[t].delivery]

Marked(t, delivery) ==
    IF drafts[t] = None \/ (delivery = "editable" /\ drafts[t].body = None) THEN None
    ELSE [drafts[t] EXCEPT !.delivery = delivery]

Used == {t \in Targets : drafts[t] # None}

(* CommandDraftStore.write, from either view.                              *)
Write(v, body) ==
    LET t == shown[v]
    IN /\ t # None /\ ~Is(t, "sending")
       /\ t \in Used \/ body = None \/ Cardinality(Used) < DraftLimit
       /\ drafts' = [drafts EXCEPT ![t] = Edited(t, body)]
       /\ UNCHANGED <<shown, pending, formPending, notice, sends, unsure>>

-----------------------------------------------------------------------------
(* A send, by the composer that the view has at that time.                 *)

(* start: a draft that is there, is not being sent and is not uncertain.   *)
Startable(t) == Is(t, "editable")

(* The store's lock is set before the send waits for anything.             *)
SendBegins(v, s) ==
    LET t == shown[v]
    IN /\ t # None /\ pending[v] = None /\ sends[s] = None
       /\ Startable(t)
       /\ drafts' = [drafts EXCEPT ![t] = Marked(t, "sending")]
       /\ pending' = [pending EXCEPT ![v] = s]
       /\ formPending' = (formPending \/ v = "menu")
       /\ sends' = [sends EXCEPT ![s] = [target |-> t, text |-> drafts[t].body, from |-> v,
                        at |-> IF t \in Terminals THEN "looking" ELSE "posted"]]
       /\ UNCHANGED <<shown, notice, unsure>>

(* currentAgentPane found the one pane of the agent.                       *)
PaneFound(s) ==
    /\ sends[s] # None /\ sends[s].at = "looking" /\ sends[s].text # Blank
    /\ sends' = [sends EXCEPT ![s].at = "posted"]
    /\ UNCHANGED <<drafts, shown, pending, formPending, notice, unsure>>

(* Mutant: the answer settles the draft that the view shows by now.        *)
SettledNow(s) == IF shown[sends[s].from] = None THEN sends[s].target
                 ELSE shown[sends[s].from]

Settled(s) == sends[s].target

(* Every end of a send: the result goes to the draft that was sent.        *)
SendEnds(s, after) ==
    /\ drafts' = [drafts EXCEPT ![Settled(s)] = after]
    /\ pending' = [v \in Views |-> IF pending[v] = s THEN None ELSE pending[v]]
    /\ formPending' = (formPending /\ sends[s].from # "menu")
    /\ sends' = [sends EXCEPT ![s] = None]

(* The menu goes home after a send of its own.                             *)
Confirmed(s) ==
    /\ sends[s] # None /\ sends[s].at = "posted" /\ sends[s].text # Blank
    /\ SendEnds(s, None)
    /\ shown' = IF sends[s].from = "menu" THEN [shown EXCEPT !.menu = None] ELSE shown
    /\ notice' = (notice \/ sends[s].from = "menu")
    /\ UNCHANGED unsure

(* The text is blank, the pane is not found, or the hub answers 4xx.       *)
Refused(s) ==
    /\ sends[s] # None
    /\ SendEnds(s, Marked(Settled(s), "editable"))
    /\ UNCHANGED <<shown, notice, unsure>>

(* commandWriteFailure: no answer, one that cannot be read, or 5xx.  The   *)
(* hub may have acted, or act yet.                                         *)
Unconfirmed(s) ==
    /\ sends[s] # None /\ sends[s].at = "posted" /\ sends[s].text # Blank
    /\ SendEnds(s, Marked(Settled(s), "uncertain"))
    /\ unsure' = [unsure EXCEPT ![sends[s].target] = TRUE]
    /\ UNCHANGED <<shown, notice>>

(* "I checked; allow another send".                                        *)
Allow(v) ==
    LET t == shown[v]
    IN /\ t # None /\ Is(t, "uncertain")
       /\ drafts' = [drafts EXCEPT ![t] = Marked(t, "editable")]
       /\ unsure' = [unsure EXCEPT ![t] = FALSE]
       /\ UNCHANGED <<shown, pending, formPending, notice, sends>>

-----------------------------------------------------------------------------
(* The views come and go; a composer that comes back is a new one.         *)

(* The menu goes from its lists to a composer and back, or is closed and   *)
(* opened where it was.                                                    *)
MenuShows(t) ==
    /\ shown["menu"] \in {None, t} \/ (t = None /\ ~formPending)
    /\ shown' = [shown EXCEPT !.menu = t]
    /\ pending' = [pending EXCEPT !.menu = None]
    /\ UNCHANGED <<drafts, formPending, notice, sends, unsure>>

(* "Open" brings the menu home whatever it shows by then.                  *)
NoticeOpens ==
    /\ notice /\ notice' = FALSE
    /\ shown' = [shown EXCEPT !.menu = None]
    /\ pending' = [pending EXCEPT !.menu = None]
    /\ UNCHANGED <<drafts, formPending, sends, unsure>>

PageShows(t) ==
    /\ shown' = [shown EXCEPT !.page = t]
    /\ pending' = [pending EXCEPT !.page = None]
    /\ UNCHANGED <<drafts, formPending, notice, sends, unsure>>

(* The browser reloads: drafts and answers are lost.                       *)
Reload ==
    /\ drafts' = Blanked.drafts /\ shown' = Blanked.shown /\ sends' = Blanked.sends
    /\ pending' = Blanked.shown /\ unsure' = Blanked.unsure /\ formPending' = FALSE /\ notice' = FALSE

DraftsNext ==
    \/ \E v \in Views, body \in Texts \union {Blank, None} : Write(v, body)
    \/ \E v \in Views, s \in Sends : SendBegins(v, s)
    \/ \E s \in Sends : PaneFound(s) \/ Confirmed(s) \/ Refused(s) \/ Unconfirmed(s)
    \/ \E v \in Views : Allow(v)
    \/ \E t \in Targets \union {None} : MenuShows(t)
    \/ \E t \in Agents \union {None} : PageShows(t)
    \/ NoticeOpens
    \/ Reload

DraftsSpec == DraftsInit /\ [][DraftsNext]_draftVars

-----------------------------------------------------------------------------
(* Every variable has its type; no more than DraftLimit targets have a     *)
(* draft, whatever a result that comes late marks.                         *)
DraftsTypeOK ==
    /\ drafts \in [Targets -> Draft \union {None}]
    /\ Cardinality(Used) <= DraftLimit
    /\ shown \in [Views -> Targets \union {None}]
    /\ shown["page"] \in Agents \union {None}
    /\ pending \in [Views -> Sends \union {None}]
    /\ formPending \in BOOLEAN /\ notice \in BOOLEAN
    /\ sends \in [Sends -> Send \union {None}]
    /\ unsure \in [Targets -> BOOLEAN]

Under(t) == {s \in Sends : sends[s] # None /\ sends[s].target = t}

(* "Start locks a draft synchronously across views": a draft is locked     *)
(* exactly while one send of it is under way, though views close and move  *)
(* on, and holds the text that is being sent.  So a confirmation removes   *)
(* what was sent and nothing else, and every answer unlocks its draft.     *)
LockedWhileSent ==
    \A t \in Targets :
        /\ Is(t, "sending") <=> Under(t) # {}
        /\ \A s \in Under(t) : Under(t) = {s} /\ drafts[t].body = sends[s].text

(* "Uncertain completion blocks a repeat": while a target's last send is   *)
(* unconfirmed, no view sends to it again before a human has said that it  *)
(* was checked, however the draft was edited or erased meanwhile.          *)
NoBlindRepeat == \A t \in Targets : unsure[t] => Under(t) = {}

=============================================================================
