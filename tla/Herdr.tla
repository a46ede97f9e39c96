------------------------------- MODULE Herdr --------------------------------
(***************************************************************************)
(* Herdr, the external terminal multiplexer, as the hub sees it.           *)
(*                                                                         *)
(* A terminal keeps its identity for life.  A pane id is a compact public  *)
(* id: closing a pane renumbers the others, so it is the place of the      *)
(* terminal in the list of the panes that exist.                           *)
(***************************************************************************)
EXTENDS Integers, Sequences

CONSTANTS Terminals,     \* durable terminal ids
          Kinds,         \* agent kinds a pane can report
          None           \* no agent in the pane, no route, no channel, ...

VARIABLES
    live,      \* the terminals that exist, in pane order
    kind,      \* the agent kind Herdr reports in each terminal
    activity   \* the agent status: "idle" (idle or done), "working" or
               \* "blocked" (blocked, unknown, or a focused pane that is held)

herdrVars == <<live, kind, activity>>

Activities == {"idle", "working", "blocked"}

Exists(t) == \E i \in DOMAIN live : live[i] = t

PaneOf(t) == CHOOSE i \in DOMAIN live : live[i] = t

(* What `pane list` answers.                                               *)
PaneList == {[terminal |-> live[i], pane |-> i,
              agent |-> kind[live[i]], activity |-> activity[live[i]]] :
                i \in DOMAIN live}

PaneRecord == [terminal : Terminals, pane : Nat,
               agent : Kinds \union {None}, activity : Activities]

HerdrTypeOK ==
    /\ live \in Seq(Terminals)
    /\ \A i, j \in DOMAIN live : live[i] = live[j] => i = j
    /\ kind \in [Terminals -> Kinds \union {None}]
    /\ activity \in [Terminals -> Activities]

PaneOpens(t, k) ==
    /\ ~Exists(t)
    /\ live' = Append(live, t)
    /\ kind' = [kind EXCEPT ![t] = k]
    /\ UNCHANGED activity

PaneCloses(t) ==
    /\ Exists(t)
    /\ live' = [i \in 1..(Len(live) - 1) |->
                  IF i < PaneOf(t) THEN live[i] ELSE live[i + 1]]
    /\ UNCHANGED <<kind, activity>>

OccupantChanges(t, k) ==
    /\ Exists(t)
    /\ kind[t] # k
    /\ kind' = [kind EXCEPT ![t] = k]
    /\ UNCHANGED <<live, activity>>

ActivityChanges(t, s) ==
    /\ Exists(t)
    /\ activity[t] # s
    /\ activity' = [activity EXCEPT ![t] = s]
    /\ UNCHANGED <<live, kind>>

HerdrNext ==
    \E t \in Terminals :
        \/ \E k \in Kinds \union {None} : PaneOpens(t, k) \/ OccupantChanges(t, k)
        \/ PaneCloses(t)
        \/ \E s \in Activities : ActivityChanges(t, s)

=============================================================================
