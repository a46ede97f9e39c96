------------------------------- MODULE Paging -------------------------------
(***************************************************************************)
(* The session panel reads an agent's transcript page by page, newest      *)
(* first, while the harness goes on writing it.                            *)
(*                                                                         *)
(* The hub keeps nothing between two pages.  A page is named by a cursor:  *)
(* in a file (readWindow) the byte offset of the oldest line of the page   *)
(* before, in OpenCode's stores (opencodePage, opencodeStoredPage) the     *)
(* units that are older; 0 stands for null, nothing is older.  A transcript *)
(* is a sequence of lines.  A line is known by its size, newline included, *)
(* by how many turns it parses to, by its voice, by which Grok's chunks of *)
(* one utterance are joined, and by the running totals: the offset of its  *)
(* end and the turns told by then.  In a store a line is a row or a        *)
(* message and its size the rows it counts for.  Lines only grow at the    *)
(* end, so that the awaits within one page read do not show.               *)
(***************************************************************************)
EXTENDS Integers, Sequences, FiniteSetsExt, SequencesExt

CONSTANTS Lines,      \* lines a harness may write: [size, turns, voice]
          Styles,     \* among "file", "chunks" (Grok) and "store" (OpenCode)
          Window,     \* WINDOW_BYTES
          MaxWindow,  \* MAX_WINDOW_BYTES
          MaxRead,    \* MAX_OPENCODE_WINDOW_ROWS
          Limit,      \* turns of a page
          MaxShown,   \* SESSION_TURN_LIMIT
          MaxLines    \* BOUND: lines of a transcript

ASSUME PagingAssumption ==
    /\ Lines \subseteq [size : Nat \ {0}, turns : Nat, voice : {"user", "agent", "none"}]
    /\ \A l \in Lines : l.turns > 0 => l.size > 1    \* an empty line says nothing
    /\ Styles \subseteq {"file", "chunks", "store"}
    /\ {Window, MaxWindow, MaxRead, Limit, MaxShown, MaxLines} \subseteq Nat \ {0}
    /\ Window <= MaxWindow

VARIABLES
    style,     \* how the session of the pane is stored
    lines,     \* what its harness has written or is writing
    size,      \* how much of that is on the disk
    asked,     \* the read that the panel waits for
    panel,     \* the pages it shows, the oldest first, each the numbers of its
               \* lines, how many turns they are, and the cursor of the next page
    seen       \* HISTORY: the lines that the last newest page could show

pagingVars == <<style, lines, size, asked, panel, seen>>

Empty == [pages |-> <<>>, turns |-> 0, next |-> 0]

PagingInit ==
    /\ style \in Styles
    /\ lines = <<>> /\ size = 0
    /\ asked = "latest" /\ panel = Empty
    /\ seen = {}

-----------------------------------------------------------------------------
(* One page, as the hub reads it (src/src/transcripts.ts).                 *)

End(i) == IF i = 0 THEN 0 ELSE lines[i].end
Told(i) == IF i = 0 THEN 0 ELSE lines[i].told
Begin(i) == End(i - 1)

Speaking(S) == {i \in S : lines[i].turns > 0}
NewerThan(S, i) == {j \in S : j > i}
From(S, i) == {j \in S : j >= i}

(* The offset at which a window that opens inside a line begins to read:   *)
(* after its first newline.                                                *)
Cuts(start, before) == {End(i) : i \in {j \in DOMAIN lines : End(j) - 1 \in start..(before - 1)}}

(* The lines whose text is wholly in a window that reads from `first`.     *)
WholeLines(first, before) == {i \in DOMAIN lines : Begin(i) >= first /\ End(i) - 1 <= before}

(* pageDistinctTurns: whole lines from the newest one back, as long as     *)
(* they fit; one that is richer than a page makes a page of its own.       *)
FitsDistinct(S, i) == NewerThan(S, i) = {} \/ Told(Max(S)) - Told(i - 1) <= Limit
Distinct(S) == {i \in S : \A j \in From(S, i) : FitsDistinct(S, j)}

(* pageMergedTurns: a chunk is joined to the next newer one that speaks,   *)
(* if both are of one voice; a page holds as many utterances.              *)
Joins(S, i) == LET newer == NewerThan(S, i) IN
    newer # {} /\ lines[i].voice # "none" /\ lines[i].voice = lines[Min(newer)].voice
Utterances(S) == {i \in S : ~Joins(S, i)}
Merged(S) == {i \in S : \A j \in From(S, i) : Cardinality(Utterances(From(S, j))) <= Limit}

Taken(S) == IF style = "chunks" THEN Merged(S) ELSE Distinct(S)

(* The turns of a page, in which no line that speaks is left out between   *)
(* its oldest and its newest one.                                          *)
Count(S) ==
    CASE S = {} -> 0
      [] S # {} /\ style = "chunks" -> Cardinality(Utterances(S))
      [] OTHER -> Told(Max(S)) - Told(Min(S) - 1)

(* Mutant: the next page ends at the edge of this window.                  *)
WindowAtEdge(before, span) ==
    LET start == Max({0, before - span})
        cuts == Cuts(start, before) IN
    IF start > 0 /\ cuts = {} THEN [shown |-> {}, next |-> start]
    ELSE [shown |-> Taken(Speaking(WholeLines(IF start = 0 THEN 0 ELSE Min(cuts), before))),
          next |-> start]

(* pageFrom: the next page ends where the oldest line of this one begins.  *)
WindowPage(before, span) ==
    LET start == Max({0, before - span})
        cuts == Cuts(start, before)
        first == IF start = 0 THEN 0 ELSE Min(cuts)
        taken == Taken(Speaking(WholeLines(first, before))) IN
    IF start > 0 /\ cuts = {} THEN [shown |-> {}, next |-> start]
    ELSE [shown |-> taken, next |-> IF taken = {} THEN first ELSE Begin(Min(taken))]

(* readWindow: the window doubles until the page is full.                  *)
Spans == {MaxWindow} \union {span \in Window..MaxWindow : \E k \in 0..MaxWindow : span = Window * 2^k}
Suffices(before, span) ==
    \/ Count(WindowPage(before, span).shown) >= Limit
    \/ before <= span
    \/ span = MaxWindow
FilePage(before) == WindowPage(before, Min({span \in Spans : Suffices(before, span)}))

(* opencodePage, opencodeStoredPage: unit by unit from the newest one.     *)
FitsUnit(i, before) == LET counted == Told(before) - Told(i) IN
    /\ End(before) - End(i) < MaxRead
    /\ counted < Limit
    /\ lines[i].turns > 0 /\ counted > 0 => counted + lines[i].turns <= Limit
StorePage(before) ==
    LET read == {i \in 1..before : \A j \in i..before : FitsUnit(j, before)} IN
    [shown |-> Speaking(read), next |-> IF read = {} THEN before ELSE Min(read) - 1]

Page(before) == IF style = "store" THEN StorePage(before) ELSE FilePage(before)
Latest == IF style = "store" THEN Len(lines) ELSE size

(* A cursor past the end reads from the end.                               *)
PageAt(before) == Page(Min({before, Latest}))

-----------------------------------------------------------------------------
(* The harness writes, in a file perhaps not all of a line at once.        *)

Writable(l) == CASE style = "chunks" -> l.turns <= 1
                 [] OTHER -> TRUE

Written == End(Len(lines))
Line(l) == [size |-> l.size, turns |-> l.turns, voice |-> l.voice,
            end |-> Written + l.size, told |-> Told(Len(lines)) + l.turns]

HarnessWrites(l) ==
    /\ Len(lines) < MaxLines /\ size = Written /\ Writable(l)
    /\ lines' = Append(lines, Line(l))
    /\ size' \in IF style = "store" THEN {size + l.size} ELSE (size + 1)..(size + l.size)
    /\ UNCHANGED <<style, asked, panel, seen>>

HarnessFinishes ==
    /\ size < Written /\ size' = Written
    /\ UNCHANGED <<style, lines, asked, panel, seen>>

-----------------------------------------------------------------------------
(* The panel (useAgentSession).                                            *)

(* A refresh takes the place of any read under way.                        *)
PanelRefreshes ==
    /\ asked # "latest" /\ asked' = "latest"
    /\ UNCHANGED <<style, lines, size, panel, seen>>

PanelLoadsOlder ==
    /\ asked = "none" /\ panel.next # 0
    /\ asked' = "older"
    /\ UNCHANGED <<style, lines, size, panel, seen>>

(* A page without a turn adds nothing to what the panel shows.             *)
AsPage(S) == IF S = {} THEN <<>> ELSE <<S>>

LatestArrives ==
    /\ asked = "latest" /\ asked' = "none"
    /\ LET page == PageAt(Latest) IN
       panel' = [pages |-> AsPage(page.shown), turns |-> Count(page.shown), next |-> page.next]
    /\ seen' = {i \in DOMAIN lines : style = "store" \/ End(i) - 1 <= size}
    /\ UNCHANGED <<style, lines, size>>

(* Older turns go before those that the panel holds.                       *)
OlderArrives ==
    /\ asked = "older" /\ asked' = "none"
    /\ LET page == PageAt(panel.next)
           turns == Count(page.shown) + panel.turns IN
       panel' = IF turns > MaxShown THEN panel
                ELSE [pages |-> AsPage(page.shown) \o panel.pages, turns |-> turns, next |-> page.next]
    /\ UNCHANGED <<style, lines, size, seen>>

ReadFails ==
    /\ asked # "none" /\ asked' = "none"
    /\ UNCHANGED <<style, lines, size, panel, seen>>

PagingNext ==
    \/ \E l \in Lines : HarnessWrites(l)
    \/ HarnessFinishes
    \/ PanelRefreshes \/ PanelLoadsOlder
    \/ LatestArrives \/ OlderArrives \/ ReadFails

PagingSpec == PagingInit /\ [][PagingNext]_pagingVars

-----------------------------------------------------------------------------
WrittenLines == [size : Nat \ {0}, turns : Nat, voice : {"user", "agent", "none"},
                 end : Nat \ {0}, told : Nat]

PagingTypeOK ==
    /\ style \in Styles
    /\ lines \in Seq(WrittenLines) /\ Len(lines) <= MaxLines
    /\ size \in 0..Written
    /\ asked \in {"none", "latest", "older"}
    /\ panel \in [pages : Seq(SUBSET DOMAIN lines), turns : Nat, next : Nat]
    /\ seen \subseteq DOMAIN lines

(* What a cursor stands before: the lines that are not older.              *)
AtOrAfter(next) == {i \in seen : IF style = "store" THEN i > next ELSE Begin(i) >= next}

(* A line that fills every window by its text alone: while its newline is  *)
(* missing no window shows it, and the cursor goes back into it.           *)
Overlong(i) == style # "store" /\ lines[i].size > MaxWindow

Shown == UNION Range(panel.pages)

(* The panel shows every turn from its cursor on, once and in order.       *)
Complete == \A i \in Speaking(AtOrAfter(panel.next)) : Overlong(i) \/ i \in Shown
NothingElse == Shown \subseteq Speaking(AtOrAfter(panel.next))
InOrder == \A p, q \in DOMAIN panel.pages : p < q =>
    \A i \in panel.pages[p], j \in panel.pages[q] : i < j
Contiguous == Complete /\ NothingElse /\ InOrder

(* Another page brings the panel nearer to the beginning.                  *)
MovesOn == panel.next > 0 => PageAt(panel.next).next < panel.next

(* A line of MaxWindow bytes or more fills every window that ends with it. *)
TooLong(next) == style # "store" /\
    \E i \in DOMAIN lines : End(i) = next /\ next > MaxWindow /\ lines[i].size >= MaxWindow

(* Paging backward loses no turn, repeats none and does not stand still,   *)
(* while the harness writes on and however its lines lie in the windows    *)
(* (pageFrom, readWindow, opencodePage, opencodeStoredPage), save at a     *)
(* line that is too long.                                                  *)
PagesTile == Contiguous /\ (~TooLong(panel.next) => MovesOn)

(* "Paging backward loses no line at the window edge and repeats none"     *)
(* (tests/session.test.ts), whatever its length: from any page the older   *)
(* ones can be reached.                                                    *)
NothingOutOfReach == MovesOn

=============================================================================
