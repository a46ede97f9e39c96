------------------------------ MODULE LiveProofs ------------------------------
(***************************************************************************)
(* The shared stream loses no message unnoticed, and a recovery makes a    *)
(* list whole, for any number of tabs and messages.                        *)
(*                                                                         *)
(* Both rest on one inductive invariant.  The events of the newest epoch   *)
(* come from the leader alone, numbered upwards, above what a follower has *)
(* accepted of that epoch (Senders, Ordered): so a follower drops none of  *)
(* them.  On an open stream, what a tab that has recovered does not show   *)
(* is on its way: on the wire, in its inbox, in the answer of its one load *)
(* or buffered for it; or a new open is, which starts over (Healed).  And  *)
(* what the wire skips behind the id that the connection has read last,    *)
(* and what that id has passed behind the leader's, has been counted as    *)
(* unheard or cut off (Gaps).                                              *)
(***************************************************************************)
EXTENDS Live, TLAPS

Data == {"open", "message", "error"}

Client(n, e) == [running : BOOLEAN, epoch : 0 .. e, sequence : Nat, lastEventId : 0 .. n]

EventUpTo(n, e) ==
    [type : {"hello"}]
    \union [type : {"leader", "state", "error"}, epoch : 1 .. e, sequence : Nat, lastEventId : 0 .. n]
    \union [type : {"open"}, epoch : 1 .. e, sequence : Nat, lastEventId : 0 .. n, reconnecting : BOOLEAN]
    \union [type : {"message"}, epoch : 1 .. e, sequence : Nat, lastEventId : 0 .. n, message : 1 .. n]

View(n) == [ready : BOOLEAN, buffered : SUBSET (1 .. n), shown : SUBSET (1 .. n),
            loads : Seq({Unread} \union 0 .. n)]

Link(n) == [phase : {"none", "asking", "opening", "open"}, wire : Seq(1 .. n), again : BOOLEAN,
            lastId : 0 .. n]

Types ==
    /\ stored \in IdOrZero
    /\ holder \in Tabs \union {Nobody}
    /\ stamp \in Nat
    /\ tabs \in [Tabs -> Client(stored, stamp)]
    /\ inbox \in [Tabs -> [Tabs -> Seq(EventUpTo(stored, stamp))]]
    /\ views \in [Tabs -> View(stored)]
    /\ stream \in Link(stored)
    /\ unheard \subseteq 1 .. stored
    /\ cut \subseteq 1 .. stored
    /\ whole \in [Tabs -> BOOLEAN]

(* The leader is open, with the newest epoch; a tab that is closed is not  *)
(* whole; a client without an epoch has accepted nothing; no tab gets its  *)
(* own events.                                                             *)
Led ==
    /\ holder = Nobody <=> stream.phase = "none"
    /\ holder # Nobody => tabs[holder].running /\ tabs[holder].epoch = stamp /\ stamp > 0
    /\ \A t \in Tabs :
        /\ whole[t] => tabs[t].running
        /\ tabs[t].epoch = 0 => tabs[t].sequence = 0
        /\ inbox[t][t] = <<>>

(* An event of the epoch e.                                                *)
Of(event, e) == event.type # "hello" /\ event.epoch = e

(* While a tab leads, only its events are of the newest epoch.             *)
Senders ==
    holder # Nobody =>
        \A t \in Tabs, s \in Tabs \ {holder} : \A i \in DOMAIN inbox[t][s] : ~Of(inbox[t][s][i], stamp)

(* The events of epoch e in q, whose sender has numbered n, for a client c.*)
Numbered(q, c, n, e) ==
    /\ c.epoch = e => c.sequence <= n
    /\ \A i \in DOMAIN q : Of(q[i], e) =>
        /\ q[i].sequence <= n
        /\ q[i].type \in Data =>
            /\ 0 < q[i].sequence
            /\ c.epoch = e => c.sequence < q[i].sequence
            /\ \A j \in DOMAIN q : j < i /\ Of(q[j], e) => q[j].sequence < q[i].sequence

Ordered ==
    holder # Nobody =>
        \A t \in Tabs \ {holder} : Numbered(inbox[t][holder], tabs[t], tabs[holder].sequence, stamp)

(* A tab that is whole waits for one answer at most.                       *)
Single(v) == v.loads # <<>> => Len(v.loads) = 1 /\ ~v.ready

SingleLoad == \A t \in Tabs : whole[t] => Single(views[t])

(* The message m is in the list, or will be when the answer comes.         *)
Has(v, m) ==
    /\ v.loads = <<>> /\ v.ready => m \in v.shown
    /\ v.loads # <<>> /\ v.loads[1] # Unread => m <= v.loads[1] \/ m \in v.buffered

(* The message m comes with the queue q, or with the wire w.               *)
Comes(m, q, w, e) ==
    \/ \E i \in DOMAIN w : w[i] = m
    \/ \E i \in DOMAIN q : q[i].type = "message" /\ Of(q[i], e) /\ q[i].message = m

Reopens(q, e) == \E i \in DOMAIN q : q[i].type = "open" /\ Of(q[i], e)

Heals(v, q, w, n, e) ==
    Reopens(q, e) \/ \A m \in 1 .. n : Has(v, m) \/ Comes(m, q, w, e)

Healed ==
    stream.phase = "open" =>
        \A t \in Tabs : whole[t] => Heals(views[t], inbox[t][holder], stream.wire, stored, stamp)

(* The wire w is sorted, and skips nothing after id but what is in missed. *)
Skips(w, id, n, missed) ==
    /\ \A i \in DOMAIN w : id < w[i]
    /\ \A i, j \in DOMAIN w : i < j => w[i] < w[j]
    /\ \A m \in id + 1 .. n : m \in missed \/ \E i \in DOMAIN w : w[i] = m

Gaps ==
    /\ stream.phase \in {"opening", "open"} =>
            Skips(stream.wire, stream.lastId, stored, unheard)
    /\ stream.phase # "none" =>
            tabs[holder].lastEventId + 1 .. stream.lastId \subseteq unheard \union cut

LiveInv == Types /\ Led /\ Senders /\ Ordered /\ SingleLoad /\ Healed /\ Gaps

-----------------------------------------------------------------------------
(* Sequences, and the sets of the types as messages and epochs grow.       *)

LEMMA SeqGrows ==
    ASSUME NEW S, NEW T, S \subseteq T
    PROVE  Seq(S) \subseteq Seq(T)
    OBVIOUS

LEMMA EventsGrow ==
    ASSUME NEW n \in Nat, NEW m \in Nat, NEW e \in Nat, NEW f \in Nat, n <= m, e <= f
    PROVE  /\ Client(n, e) \subseteq Client(m, f)
           /\ EventUpTo(n, e) \subseteq EventUpTo(m, f)
           /\ Seq(EventUpTo(n, e)) \subseteq Seq(EventUpTo(m, f))
<1>1. 0 .. n \subseteq 0 .. m /\ 1 .. n \subseteq 1 .. m /\ 0 .. e \subseteq 0 .. f /\ 1 .. e \subseteq 1 .. f
    OBVIOUS
<1>2. Client(n, e) \subseteq Client(m, f)
    BY <1>1 DEF Client
<1>3. EventUpTo(n, e) \subseteq EventUpTo(m, f)
    BY <1>1 DEF EventUpTo
<1> QED
    BY <1>2, <1>3, SeqGrows

LEMMA ViewsGrow ==
    ASSUME NEW n \in Nat, NEW m \in Nat, n <= m
    PROVE  View(n) \subseteq View(m) /\ Link(n) \subseteq Link(m)
<1>1. {Unread} \union 0 .. n \subseteq {Unread} \union 0 .. m /\ 1 .. n \subseteq 1 .. m
    OBVIOUS
<1>2. /\ Seq({Unread} \union 0 .. n) \subseteq Seq({Unread} \union 0 .. m)
      /\ Seq(1 .. n) \subseteq Seq(1 .. m)
      /\ SUBSET (1 .. n) \subseteq SUBSET (1 .. m)
    BY <1>1, SeqGrows
<1>3. View(n) \subseteq View(m)
    BY <1>2 DEF View
<1>4. Link(n) \subseteq Link(m)
    BY <1>2 DEF Link
<1> QED
    BY <1>3, <1>4

LEMMA AppendAt ==
    ASSUME NEW S, NEW q \in Seq(S), NEW x \in S
    PROVE  /\ Append(q, x) \in Seq(S)
           /\ Len(Append(q, x)) = Len(q) + 1
           /\ DOMAIN Append(q, x) = 1 .. Len(q) + 1 /\ DOMAIN q = 1 .. Len(q) /\ Len(q) \in Nat
           /\ \A i \in DOMAIN q : Append(q, x)[i] = q[i]
           /\ Append(q, x)[Len(q) + 1] = x
    OBVIOUS

LEMMA TailAt ==
    ASSUME NEW S, NEW q \in Seq(S), q # <<>>
    PROVE  /\ Tail(q) \in Seq(S) /\ Head(q) \in S /\ Head(q) = q[1]
           /\ DOMAIN Tail(q) = 1 .. Len(q) - 1 /\ DOMAIN q = 1 .. Len(q) /\ Len(q) \in Nat \ {0}
           /\ \A i \in DOMAIN Tail(q) : Tail(q)[i] = q[i + 1] /\ i + 1 \in DOMAIN q
    OBVIOUS

LEMMA OneElement ==
    ASSUME NEW x
    PROVE  Append(<<>>, x) = <<x>> /\ Len(<<x>>) = 1 /\ <<x>>[1] = x /\ <<x>> # <<>>
    OBVIOUS

LEMMA NotEmpty ==
    ASSUME NEW q, Len(q) = 1
    PROVE  q # <<>>
<1>1. Len(<<>>) # 1
    OBVIOUS
<1> QED
    BY <1>1, Zenon

LEMMA ExceptAt ==
    ASSUME NEW S, NEW q \in Seq(S), NEW i \in 1 .. Len(q), NEW x \in S
    PROVE  /\ [q EXCEPT ![i] = x] \in Seq(S)
           /\ Len([q EXCEPT ![i] = x]) = Len(q)
           /\ [q EXCEPT ![i] = x][i] = x
    OBVIOUS

LEMMA Halves ==
    ASSUME NEW S, NEW q \in Seq(S), NEW i \in 1 .. Len(q)
    PROVE  /\ SubSeq(q, 1, i - 1) \in Seq(S) /\ Len(SubSeq(q, 1, i - 1)) = i - 1
           /\ SubSeq(q, i + 1, Len(q)) \in Seq(S) /\ Len(SubSeq(q, i + 1, Len(q))) = Len(q) - i
    OBVIOUS

LEMMA RemoveAtType ==
    ASSUME NEW S, NEW q \in Seq(S), NEW i \in 1 .. Len(q)
    PROVE  RemoveAt(q, i) \in Seq(S) /\ Len(RemoveAt(q, i)) = Len(q) - 1
<1>1. PICK a \in Seq(S) : a = SubSeq(q, 1, i - 1)
    BY Halves
<1>2. PICK b \in Seq(S) : b = SubSeq(q, i + 1, Len(q))
    BY Halves
<1>3. RemoveAt(q, i) = a \o b
    BY <1>1, <1>2 DEF RemoveAt
<1>4. Len(a) = i - 1 /\ Len(b) = Len(q) - i
    BY <1>1, <1>2, Halves
<1>5. a \o b \in Seq(S) /\ Len(a \o b) = Len(q) - 1
    BY <1>4
<1> QED
    BY <1>3, <1>5

(* What the other tabs' inboxes are after tab t has posted an event.       *)
Boxes(S) == [Tabs -> [Tabs -> Seq(S)]]

LEMMA PostedAt ==
    ASSUME NEW S, NEW box \in Boxes(S), NEW t \in Tabs, NEW event \in S
    PROVE  /\ Posted(box, t, event) \in Boxes(S)
           /\ \A r, u \in Tabs :
                /\ u = t /\ r # t /\ tabs[r].running => Posted(box, t, event)[r][u] = Append(box[r][u], event)
                /\ ~(u = t /\ r # t /\ tabs[r].running) => Posted(box, t, event)[r][u] = box[r][u]
<1>1. \A r, u \in Tabs :
        /\ Posted(box, t, event)[r][u] =
              IF u = t /\ r # t /\ r \in Running THEN Append(box[r][u], event) ELSE box[r][u]
        /\ Append(box[r][u], event) \in Seq(S) /\ box[r][u] \in Seq(S)
    BY DEF Posted, Boxes
<1>2. \A r \in Tabs : Posted(box, t, event)[r] \in [Tabs -> Seq(S)]
    BY <1>1 DEF Posted
<1>3. Posted(box, t, event) \in Boxes(S)
    BY <1>2 DEF Posted, Boxes
<1> QED
    BY <1>1, <1>3 DEF Running

-----------------------------------------------------------------------------
(* The order of a queue of events.                                         *)

LEMMA OrderAppends ==
    ASSUME NEW S, NEW q \in Seq(S), NEW c, NEW n \in Nat, NEW e \in Nat, NEW event \in S,
           c.epoch = e => c.sequence \in Nat,
           \A i \in DOMAIN q : Of(q[i], e) => q[i].sequence \in Nat,
           Numbered(q, c, n, e)
    PROVE  /\ Numbered(q, c, n + 1, e)
           /\ Of(event, e) /\ event.sequence = n + 1 => Numbered(Append(q, event), c, n + 1, e)
           /\ event.type \notin Data /\ (Of(event, e) => event.sequence = n)
                => Numbered(Append(q, event), c, n, e)
<1>1. Numbered(q, c, n + 1, e)
    BY DEF Numbered
<1>2. ASSUME Of(event, e), event.sequence = n + 1
      PROVE  Numbered(Append(q, event), c, n + 1, e)
    BY <1>2, AppendAt DEF Numbered
<1>3. ASSUME event.type \notin Data, Of(event, e) => event.sequence = n
      PROVE  Numbered(Append(q, event), c, n, e)
    BY <1>3, AppendAt DEF Numbered
<1> QED
    BY <1>1, <1>2, <1>3

(* The first event is taken; the client keeps what it had, or takes on the *)
(* number of the event.                                                    *)
LEMMA OrderTakes ==
    ASSUME NEW S, NEW q \in Seq(S), q # <<>>, NEW c, NEW d, NEW n \in Nat, NEW e \in Nat,
           Numbered(q, c, n, e),
           \/ d.epoch = e => c.epoch = e /\ d.sequence = c.sequence
           \/ Of(Head(q), e) /\ d.sequence = Head(q).sequence
    PROVE  Numbered(Tail(q), d, n, e)
<1>1. d.epoch = e => d.sequence <= n
    BY TailAt DEF Numbered
<1>2. ASSUME NEW i \in DOMAIN Tail(q), Of(Tail(q)[i], e)
      PROVE  /\ Tail(q)[i].sequence <= n
             /\ Tail(q)[i].type \in Data =>
                 /\ 0 < Tail(q)[i].sequence
                 /\ d.epoch = e => d.sequence < Tail(q)[i].sequence
                 /\ \A j \in DOMAIN Tail(q) :
                        j < i /\ Of(Tail(q)[j], e) => Tail(q)[j].sequence < Tail(q)[i].sequence
    <2>1. /\ Tail(q)[i] = q[i + 1] /\ i + 1 \in DOMAIN q /\ 1 \in DOMAIN q /\ 1 < i + 1
          /\ Head(q) = q[1]
        BY TailAt
    <2>2. q[i + 1].type \in Data /\ d.epoch = e => d.sequence < q[i + 1].sequence
        BY <1>2, <2>1 DEF Numbered
    <2>3. ASSUME NEW j \in DOMAIN Tail(q), j < i, Of(Tail(q)[j], e), q[i + 1].type \in Data
          PROVE  Tail(q)[j].sequence < Tail(q)[i].sequence
        <3>1. Tail(q)[j] = q[j + 1] /\ j + 1 \in DOMAIN q /\ j + 1 < i + 1
            BY <2>3, TailAt
        <3> QED
            BY <1>2, <2>1, <2>3, <3>1 DEF Numbered
    <2> QED
        BY <1>2, <2>1, <2>2, <2>3 DEF Numbered
<1> QED
    BY <1>1, <1>2 DEF Numbered

-----------------------------------------------------------------------------
(* What is shown, buffered, awaited or on its way.                         *)

(* One received message leaves one less to come.                           *)
LEMMA HasReceived ==
    ASSUME NEW n, NEW v \in View(n), Single(v), NEW m
    PROVE  /\ Has(Received(v, m), m)
           /\ Single(Received(v, m))
           /\ \A k : Has(v, k) => Has(Received(v, m), k)
    BY DEF Has, Received, Single, View

LEMMA ReceivedType ==
    ASSUME NEW n \in Nat, NEW v \in View(n), NEW m \in 1 .. n
    PROVE  Received(v, m) \in View(n)
    BY DEF Received, View

LEMMA LoadingType ==
    ASSUME NEW n \in Nat, NEW v \in View(n)
    PROVE  /\ Loading(v) \in View(n)
           /\ v.loads = <<>> => Single(Loading(v)) /\ \A m : Has(Loading(v), m)
<1>1. PICK q \in Seq({Unread} \union 0 .. n) : q = v.loads
    BY DEF View
<1>2. PICK longer \in Seq({Unread} \union 0 .. n) : longer = Append(q, Unread)
    BY AppendAt
<1>3. Loading(v) = [v EXCEPT !.ready = FALSE, !.loads = longer]
    BY <1>1, <1>2 DEF Loading
<1>4. Loading(v) \in View(n) /\ Loading(v).loads = longer /\ ~Loading(v).ready
    BY <1>3 DEF View
<1>5. ASSUME v.loads = <<>>
      PROVE  Len(longer) = 1 /\ longer[1] = Unread /\ longer # <<>>
    BY <1>1, <1>2, <1>5, OneElement
<1>6. ASSUME v.loads = <<>>
      PROVE  Single(Loading(v)) /\ \A m : Has(Loading(v), m)
    <2>1. Single(Loading(v))
        <3>1. PICK w \in View(n) : w = Loading(v) /\ w.loads = longer /\ ~w.ready
            BY <1>4
        <3> QED
            BY <1>5, <1>6, <3>1 DEF Single
    <2>2. \A m : Has(Loading(v), m)
        BY <1>4, <1>5, <1>6 DEF Has
    <2> QED
        BY <2>1, <2>2 DEF Single
<1> QED
    BY <1>4, <1>6

LEMMA LoadedType ==
    ASSUME NEW n \in Nat, NEW v \in View(n), NEW i \in DOMAIN v.loads
    PROVE  /\ v.loads[i] # Unread => Loaded(v, i) \in View(n)
           /\ v.loads[i] # Unread /\ Single(v) =>
                Single(Loaded(v, i)) /\ \A m \in 1 .. n : Has(v, m) => Has(Loaded(v, i), m)
           /\ NotLoaded(v, i) \in View(n)
           /\ Single(v) => Single(NotLoaded(v, i)) /\ \A m : Has(NotLoaded(v, i), m)
<1>1. /\ v.loads \in Seq({Unread} \union 0 .. n) /\ v.loads[i] \in {Unread} \union 0 .. n
      /\ i \in 1 .. Len(v.loads) /\ Len(v.loads) \in Nat
    BY DEF View
<1>2. PICK rest \in Seq({Unread} \union 0 .. n) :
        rest = RemoveAt(v.loads, i) /\ Len(rest) = Len(v.loads) - 1
    BY <1>1, RemoveAtType
<1>3. Loaded(v, i) = [ready |-> TRUE, buffered |-> {}, shown |-> (1 .. v.loads[i]) \union v.buffered,
                      loads |-> rest]
    BY <1>2 DEF Loaded
<1>4. NotLoaded(v, i) = [v EXCEPT !.loads = rest]
    BY <1>2 DEF NotLoaded
<1>5. v.loads[i] # Unread => Loaded(v, i) \in View(n)
    BY <1>1, <1>3 DEF View
<1>6. NotLoaded(v, i) \in View(n)
    BY <1>4 DEF View
<1>7. Single(v) => rest = <<>> /\ i = 1 /\ ~v.ready /\ v.loads # <<>>
    BY <1>1, <1>2 DEF Single
<1>8. ASSUME v.loads[i] # Unread, Single(v)
      PROVE  Single(Loaded(v, i)) /\ \A m \in 1 .. n : Has(v, m) => Has(Loaded(v, i), m)
    BY <1>1, <1>3, <1>7, <1>8 DEF Single, Has
<1>9. ASSUME Single(v)
      PROVE  Single(NotLoaded(v, i)) /\ \A m : Has(NotLoaded(v, i), m)
    BY <1>4, <1>7, <1>9 DEF Single, Has, View
<1> QED
    BY <1>5, <1>6, <1>8, <1>9

(* The hub has read the list for a request.                                *)
WithRead(v, i, n) == [v EXCEPT !.loads[i] = n]

LEMMA ReadType ==
    ASSUME NEW n \in Nat, NEW v \in View(n), NEW i \in DOMAIN v.loads
    PROVE  /\ WithRead(v, i, n) \in View(n)
           /\ Single(v) => Single(WithRead(v, i, n)) /\ \A m \in 1 .. n : Has(WithRead(v, i, n), m)
<1>0. PICK w : w = WithRead(v, i, n)
    BY Zenon
<1>1. PICK q \in Seq({Unread} \union 0 .. n) : q = v.loads /\ i \in 1 .. Len(q)
    BY DEF View
<1>2. PICK loads \in Seq({Unread} \union 0 .. n) :
        loads = [q EXCEPT ![i] = n] /\ Len(loads) = Len(q) /\ loads[i] = n
    <2>1. n \in {Unread} \union 0 .. n
        OBVIOUS
    <2>2. /\ [q EXCEPT ![i] = n] \in Seq({Unread} \union 0 .. n)
          /\ Len([q EXCEPT ![i] = n]) = Len(q)
          /\ [q EXCEPT ![i] = n][i] = n
        BY <1>1, <2>1, ExceptAt
    <2> QED
        BY <2>2
<1>3. w = [v EXCEPT !.loads = loads]
    BY <1>0, <1>1, <1>2 DEF WithRead
<1>5. w \in View(n) /\ w.loads = loads /\ w.ready = v.ready
    BY <1>3 DEF View
<1>6. ASSUME Single(v)
      PROVE  Len(w.loads) = 1 /\ w.loads[1] = n /\ w.loads # <<>> /\ ~w.ready
    <2>1. q # <<>>
        BY <1>1
    <2>2. i = 1 /\ Len(q) = 1 /\ ~v.ready
        BY <1>1, <1>6, <2>1 DEF Single
    <2>3. Len(loads) = 1 /\ loads[1] = n
        BY <1>2, <2>2
    <2>4. loads # <<>>
        BY <2>3, NotEmpty
    <2> QED
        BY <1>5, <2>2, <2>3, <2>4, Zenon
<1>7. ASSUME Single(v)
      PROVE  Single(w) /\ \A m \in 1 .. n : Has(w, m)
    <2>1. Single(w)
        BY <1>6, <1>7 DEF Single
    <2>2. \A m \in 1 .. n : m <= w.loads[1]
        BY <1>6, <1>7
    <2> QED
        BY <1>6, <1>7, <2>1, <2>2 DEF Has
<1> QED
    BY <1>0, <1>5, <1>7

LEMMA TailFinds ==
    ASSUME NEW S, NEW q \in Seq(S), q # <<>>, NEW i \in DOMAIN q, q[i] # Head(q)
    PROVE  \E j \in DOMAIN Tail(q) : Tail(q)[j] = q[i]
<1>1. i # 1 /\ i \in 1 .. Len(q)
    BY TailAt
<1>2. i - 1 \in DOMAIN Tail(q)
    BY <1>1, TailAt
<1> QED
    BY <1>1, <1>2, TailAt

LEMMA HealsMore ==
    ASSUME NEW S, NEW q \in Seq(S), NEW v, NEW w, NEW n, NEW e, NEW event \in S
    PROVE  /\ Heals(v, q, w, n, e) => Heals(v, Append(q, event), w, n, e)
           /\ event.type = "open" /\ Of(event, e) => Heals(v, Append(q, event), w, n, e)
           /\ \A u : (\A m \in 1 .. n : Has(v, m) => Has(u, m)) /\ Heals(v, q, w, n, e)
                => Heals(u, q, w, n, e)
<1>1. /\ \A i \in DOMAIN q : i \in DOMAIN Append(q, event) /\ Append(q, event)[i] = q[i]
      /\ \E i \in DOMAIN Append(q, event) : Append(q, event)[i] = event
    BY AppendAt
<1>2. Reopens(q, e) => Reopens(Append(q, event), e)
    BY <1>1 DEF Reopens
<1>3. \A m : Comes(m, q, w, e) => Comes(m, Append(q, event), w, e)
    BY <1>1 DEF Comes
<1>4. event.type = "open" /\ Of(event, e) => Reopens(Append(q, event), e)
    BY <1>1 DEF Reopens
<1> QED
    BY <1>2, <1>3, <1>4 DEF Heals

(* The frame at the head of the wire goes to a follower's queue.           *)
LEMMA HealsQueued ==
    ASSUME NEW S, NEW q \in Seq(S), NEW v, NEW T, NEW w \in Seq(T), w # <<>>, NEW n, NEW e,
           NEW event \in S, event.type = "message", Of(event, e), event.message = Head(w),
           Heals(v, q, w, n, e)
    PROVE  Heals(v, Append(q, event), Tail(w), n, e)
<1>1. /\ \A i \in DOMAIN q : i \in DOMAIN Append(q, event) /\ Append(q, event)[i] = q[i]
      /\ \E i \in DOMAIN Append(q, event) : Append(q, event)[i] = event
    BY AppendAt
<1>2. Reopens(q, e) => Reopens(Append(q, event), e)
    BY <1>1 DEF Reopens
<1>3. ASSUME NEW m, Comes(m, q, w, e)
      PROVE  Comes(m, Append(q, event), Tail(w), e)
    <2>1. CASE \E i \in DOMAIN w : w[i] = m
        <3>1. m = Head(w) \/ \E j \in DOMAIN Tail(w) : Tail(w)[j] = m
            BY <2>1, TailFinds
        <3> QED
            BY <1>1, <3>1 DEF Comes
    <2>2. CASE \E i \in DOMAIN q : q[i].type = "message" /\ Of(q[i], e) /\ q[i].message = m
        BY <1>1, <2>2 DEF Comes
    <2> QED
        BY <1>3, <2>1, <2>2 DEF Comes
<1> QED
    BY <1>2, <1>3 DEF Heals

(* The leader's own list takes the frame.                                  *)
LEMMA HealsShown ==
    ASSUME NEW q, NEW k, NEW v \in View(k), Single(v), NEW T, NEW w \in Seq(T), w # <<>>, NEW n, NEW e,
           Heals(v, q, w, n, e)
    PROVE  Heals(Received(v, Head(w)), q, Tail(w), n, e)
<1>1. ASSUME NEW m \in 1 .. n, Has(v, m) \/ Comes(m, q, w, e)
      PROVE  Has(Received(v, Head(w)), m) \/ Comes(m, q, Tail(w), e)
    <2>1. CASE Has(v, m)
        BY <2>1, HasReceived
    <2>2. CASE m = Head(w)
        BY <2>2, HasReceived
    <2>3. CASE \E i \in DOMAIN w : w[i] = m /\ m # Head(w)
        <3>1. \E j \in DOMAIN Tail(w) : Tail(w)[j] = m
            BY <2>3, TailFinds
        <3> QED
            BY <3>1 DEF Comes
    <2>4. CASE \E i \in DOMAIN q : q[i].type = "message" /\ Of(q[i], e) /\ q[i].message = m
        BY <2>4 DEF Comes
    <2> QED
        BY <1>1, <2>1, <2>2, <2>3, <2>4 DEF Comes
<1> QED
    BY <1>1 DEF Heals

(* A tab takes the first event of its queue, and its list what it brings.  *)
LEMMA HealsTaken ==
    ASSUME NEW S, NEW q \in Seq(S), q # <<>>, NEW v, NEW u, NEW w, NEW n, NEW e,
           Head(q).type = "open" => ~Of(Head(q), e),
           \A m \in 1 .. n : Has(v, m) => Has(u, m),
           Head(q).type = "message" /\ Of(Head(q), e) => Has(u, Head(q).message),
           Heals(v, q, w, n, e)
    PROVE  Heals(u, Tail(q), w, n, e)
<1>1. Reopens(q, e) => Reopens(Tail(q), e)
    <2> SUFFICES ASSUME NEW i \in DOMAIN q, q[i].type = "open", Of(q[i], e)
                 PROVE  Reopens(Tail(q), e)
        BY DEF Reopens
    <2>1. \E j \in DOMAIN Tail(q) : Tail(q)[j] = q[i]
        BY TailFinds
    <2> QED
        BY <2>1 DEF Reopens
<1>2. ASSUME NEW m \in 1 .. n, Has(v, m) \/ Comes(m, q, w, e)
      PROVE  Has(u, m) \/ Comes(m, Tail(q), w, e)
    <2>1. CASE Has(v, m) \/ \E i \in DOMAIN w : w[i] = m
        BY <2>1 DEF Comes
    <2>2. ASSUME NEW i \in DOMAIN q, q[i].type = "message", Of(q[i], e), q[i].message = m
          PROVE  Has(u, m) \/ Comes(m, Tail(q), w, e)
        <3>1. CASE q[i] = Head(q)
            BY <2>2, <3>1
        <3>2. CASE q[i] # Head(q)
            <4>1. \E j \in DOMAIN Tail(q) : Tail(q)[j] = q[i]
                BY <3>2, TailFinds
            <4> QED
                BY <2>2, <4>1 DEF Comes
        <3> QED
            BY <3>1, <3>2
    <2> QED
        BY <1>2, <2>1, <2>2 DEF Comes
<1> QED
    BY <1>1, <1>2 DEF Heals

LEMMA HealsPublished ==
    ASSUME NEW q, NEW v, NEW n \in Nat, NEW w \in Seq(1 .. n), NEW e, Heals(v, q, w, n, e)
    PROVE  Heals(v, q, Append(w, n + 1), n + 1, e)
<1>1. /\ \A i \in DOMAIN w : i \in DOMAIN Append(w, n + 1) /\ Append(w, n + 1)[i] = w[i]
      /\ \E i \in DOMAIN Append(w, n + 1) : Append(w, n + 1)[i] = n + 1
    <2>1. w \in Seq(Nat) /\ n + 1 \in Nat
        BY SeqGrows
    <2> QED
        BY <2>1, AppendAt
<1>2. \A m : Comes(m, q, w, e) => Comes(m, q, Append(w, n + 1), e)
    BY <1>1 DEF Comes
<1>3. Comes(n + 1, q, Append(w, n + 1), e)
    BY <1>1 DEF Comes
<1>4. \A m \in 1 .. n + 1 : m \in 1 .. n \/ m = n + 1
    OBVIOUS
<1> QED
    BY <1>2, <1>3, <1>4 DEF Heals

-----------------------------------------------------------------------------
(* What the wire skips.                                                    *)

LEMMA SkipsPublished ==
    ASSUME NEW n \in Nat, NEW w \in Seq(1 .. n), NEW id \in 0 .. n, NEW missed, Skips(w, id, n, missed)
    PROVE  /\ Skips(Append(w, n + 1), id, n + 1, missed)
           /\ Skips(w, id, n + 1, missed \union {n + 1})
<1>1. \A m \in id + 1 .. n + 1 : m \in id + 1 .. n \/ m = n + 1
    OBVIOUS
<1>2. Skips(w, id, n + 1, missed \union {n + 1})
    BY <1>1 DEF Skips
<1>3. /\ DOMAIN Append(w, n + 1) = 1 .. Len(w) + 1 /\ DOMAIN w = 1 .. Len(w) /\ Len(w) \in Nat
      /\ \A i \in DOMAIN w : Append(w, n + 1)[i] = w[i] /\ w[i] \in 1 .. n
      /\ Append(w, n + 1)[Len(w) + 1] = n + 1
    <2>1. w \in Seq(Nat) /\ n + 1 \in Nat
        BY SeqGrows
    <2> QED
        BY <2>1, AppendAt
<1>4. \A i \in DOMAIN Append(w, n + 1) : id < Append(w, n + 1)[i]
    BY <1>3 DEF Skips
<1>5. \A i, j \in DOMAIN Append(w, n + 1) : i < j => Append(w, n + 1)[i] < Append(w, n + 1)[j]
    BY <1>3 DEF Skips
<1>6. \A m \in id + 1 .. n + 1 : m \in missed \/ \E i \in DOMAIN Append(w, n + 1) : Append(w, n + 1)[i] = m
    BY <1>1, <1>3 DEF Skips
<1> QED
    BY <1>2, <1>4, <1>5, <1>6 DEF Skips

LEMMA SkipsTaken ==
    ASSUME NEW n \in Nat, NEW w \in Seq(1 .. n), w # <<>>, NEW id \in 0 .. n, NEW missed,
           Skips(w, id, n, missed)
    PROVE  /\ Skips(Tail(w), Head(w), n, missed)
           /\ id + 1 .. Head(w) - 1 \subseteq missed
<1>1. /\ Head(w) \in 1 .. n /\ Head(w) = w[1] /\ 1 \in DOMAIN w
      /\ \A i \in DOMAIN Tail(w) : Tail(w)[i] = w[i + 1] /\ i + 1 \in DOMAIN w /\ i \in Nat /\ 1 < i + 1
      /\ \A i \in DOMAIN w : w[i] \in 1 .. n /\ i \in Nat /\ (i # 1 => 1 < i)
    BY TailAt
<1>2. \A i \in DOMAIN Tail(w) : Head(w) < Tail(w)[i]
    BY <1>1 DEF Skips
<1>3. \A i, j \in DOMAIN Tail(w) : i < j => Tail(w)[i] < Tail(w)[j]
    BY <1>1 DEF Skips
<1>4. ASSUME NEW m \in Head(w) + 1 .. n
      PROVE  m \in missed \/ \E i \in DOMAIN Tail(w) : Tail(w)[i] = m
    <2>1. m \in id + 1 .. n /\ m # Head(w)
        BY <1>1 DEF Skips
    <2>2. m \in missed \/ \E i \in DOMAIN w : w[i] = m
        BY <2>1 DEF Skips
    <2> QED
        BY <2>1, <2>2, TailFinds
<1>5. ASSUME NEW m \in id + 1 .. Head(w) - 1
      PROVE  m \in missed
    <2>1. m \in id + 1 .. n /\ m < Head(w)
        BY <1>1
    <2>2. ASSUME NEW i \in DOMAIN w
          PROVE  m # w[i]
        <3>1. i = 1 \/ 1 < i
            BY <1>1
        <3>2. i = 1 => w[i] = Head(w)
            BY <1>1
        <3>3. 1 < i => Head(w) < w[i]
            BY <1>1 DEF Skips
        <3>4. w[i] \in 1 .. n /\ m \in Nat
            BY <1>1, <2>1
        <3> QED
            BY <1>1, <2>1, <3>1, <3>2, <3>3, <3>4
    <2> QED
        BY <1>1, <2>1, <2>2 DEF Skips
<1> QED
    BY <1>2, <1>3, <1>4, <1>5 DEF Skips

LEMMA SkipsRead ==
    ASSUME stored \in Nat, NEW id \in 0 .. stored
    PROVE  /\ Backlog(id) \in Seq(1 .. stored)
           /\ Beyond(id) \subseteq 1 .. stored
           /\ Skips(Backlog(id), id, stored, unheard \union Beyond(id))
<1>1. CASE id = 0
    BY <1>1 DEF Backlog, Beyond, Skips
<1>2. CASE id # 0
    <2>1. PICK k \in Nat :
            /\ Backlog(id) = [i \in 1 .. k |-> id + i]
            /\ k = IF stored < id + MaxReplay THEN stored - id ELSE MaxReplay
        BY <1>2, LiveAssumption DEF Backlog
    <2>2. MaxReplay \in Nat
        BY LiveAssumption
    <2>3. Backlog(id) \in Seq(1 .. stored) /\ DOMAIN Backlog(id) = 1 .. k
        BY <2>1, <2>2
    <2>4. Beyond(id) = id + MaxReplay + 1 .. stored
        BY <1>2 DEF Beyond
    <2>5. ASSUME NEW m \in id + 1 .. stored, m \notin Beyond(id)
          PROVE  \E i \in DOMAIN Backlog(id) : Backlog(id)[i] = m
        <3>1. m - id \in 1 .. k
            BY <2>1, <2>2, <2>4, <2>5
        <3>2. Backlog(id)[m - id] = id + (m - id)
            BY <2>1, <3>1
        <3> QED
            BY <2>3, <3>1, <3>2
    <2>6. Skips(Backlog(id), id, stored, unheard \union Beyond(id))
        BY <2>1, <2>3, <2>5 DEF Skips
    <2> QED
        BY <2>2, <2>3, <2>4, <2>6
<1> QED
    BY <1>1, <1>2

-----------------------------------------------------------------------------
(* The invariant, action by action.                                        *)

LEMMA LiveInitially ==
    ASSUME LiveInit
    PROVE  LiveInv
<1>1. Types
    BY LiveAssumption DEF LiveInit, Types, IdOrZero, Fresh, EmptyView, Offline, Client, View, Link
<1>2. Led
    BY LiveAssumption DEF LiveInit, Led, Fresh, Offline
<1>3. Senders /\ Ordered /\ SingleLoad /\ Healed /\ Gaps
    BY DEF LiveInit, Senders, Ordered, SingleLoad, Healed, Gaps, Offline
<1> QED
    BY <1>1, <1>2, <1>3 DEF LiveInv

LEMMA Typed ==
    ASSUME LiveInv
    PROVE  /\ stored \in Nat /\ stamp \in Nat
           /\ holder # Nobody => holder \in Tabs
           /\ \A t \in Tabs : tabs[t] \in Client(stored, stamp) /\ views[t] \in View(stored)
           /\ \A t, s \in Tabs : inbox[t][s] \in Seq(EventUpTo(stored, stamp))
           /\ stream.wire \in Seq(1 .. stored) /\ stream.lastId \in 0 .. stored
    BY LiveAssumption DEF LiveInv, Types, IdOrZero, Link

(* The steps in which the list of one tab changes.                         *)
LEMMA ViewStep ==
    ASSUME LiveInv, NEW t \in Tabs, NEW u \in View(stored), views' = [views EXCEPT ![t] = u],
           NEW b \in BOOLEAN, b => whole[t], whole' = [whole EXCEPT ![t] = b],
           UNCHANGED <<stored, holder, stamp, tabs, inbox, stream, unheard, cut>>,
           b /\ Single(views[t]) => Single(u) /\ \A m \in 1 .. stored : Has(views[t], m) => Has(u, m)
    PROVE  LiveInv'
<1>1. Types'
    BY DEF LiveInv, Types
<1>2. Led' /\ Senders' /\ Ordered' /\ Gaps'
    BY DEF LiveInv, Types, Led, Senders, Ordered, Gaps
<1>3. SingleLoad'
    BY DEF LiveInv, Types, SingleLoad
<1>4. Healed'
    <2> SUFFICES ASSUME stream.phase = "open", NEW r \in Tabs, whole'[r]
                 PROVE  Heals(views'[r], inbox[r][holder], stream.wire, stored, stamp)
        BY DEF Healed
    <2>1. Heals(views[r], inbox[r][holder], stream.wire, stored, stamp)
        BY DEF LiveInv, Types, Healed
    <2>2. CASE r = t
        <3>1. \A m \in 1 .. stored : Has(views[t], m) => Has(u, m)
            BY <2>2 DEF LiveInv, Types, SingleLoad
        <3> QED
            BY <2>1, <2>2, <3>1 DEF Heals, LiveInv, Types
    <2>3. CASE r # t
        BY <2>1, <2>3 DEF LiveInv, Types
    <2> QED
        BY <2>2, <2>3
<1> QED
    BY <1>1, <1>2, <1>3, <1>4 DEF LiveInv

LEMMA ReloadKeeps ==
    ASSUME LiveInv, NEW t \in Tabs, Reload(t)
    PROVE  LiveInv'
<1>1. Loading(views[t]) \in View(stored)
    BY Typed, LoadingType
<1>2. PICK b \in BOOLEAN : b = (whole[t] /\ views[t].loads = <<>>)
    BY Zenon
<1>3. b => Single(Loading(views[t])) /\ \A m : Has(Loading(views[t]), m)
    BY <1>2, Typed, LoadingType
<1>4. views' = [views EXCEPT ![t] = Loading(views[t])] /\ whole' = [whole EXCEPT ![t] = b]
    BY <1>2 DEF Reload
<1> QED
    BY <1>1, <1>2, <1>3, <1>4, ViewStep DEF Reload

LEMMA ListReadKeeps ==
    ASSUME LiveInv, NEW t \in Tabs, NEW i \in DOMAIN views[t].loads, ListRead(t, i)
    PROVE  LiveInv'
<1>2. /\ WithRead(views[t], i, stored) \in View(stored)
      /\ Single(views[t]) =>
            /\ Single(WithRead(views[t], i, stored))
            /\ \A m \in 1 .. stored : Has(WithRead(views[t], i, stored), m)
    BY Typed, ReadType
<1>3. views' = [views EXCEPT ![t] = WithRead(views[t], i, stored)]
    BY Typed DEF ListRead, LiveInv, Types, WithRead
<1>4. whole' = [whole EXCEPT ![t] = whole[t]] /\ whole[t] \in BOOLEAN
    BY DEF ListRead, LiveInv, Types
<1> QED
    BY <1>2, <1>3, <1>4, ViewStep DEF ListRead

LEMMA ListAnsweredKeeps ==
    ASSUME LiveInv, NEW t \in Tabs, NEW i \in DOMAIN views[t].loads, ListAnswered(t, i)
    PROVE  LiveInv'
<1>1. /\ Loaded(views[t], i) \in View(stored)
      /\ Single(views[t]) =>
            /\ Single(Loaded(views[t], i))
            /\ \A m \in 1 .. stored : Has(views[t], m) => Has(Loaded(views[t], i), m)
    BY Typed, LoadedType DEF ListAnswered
<1>2. whole' = [whole EXCEPT ![t] = whole[t]] /\ whole[t] \in BOOLEAN
    BY DEF ListAnswered, LiveInv, Types
<1> QED
    BY <1>1, <1>2, ViewStep DEF ListAnswered

LEMMA ListFailsKeeps ==
    ASSUME LiveInv, NEW t \in Tabs, NEW i \in DOMAIN views[t].loads, ListFails(t, i)
    PROVE  LiveInv'
<1>1. /\ NotLoaded(views[t], i) \in View(stored)
      /\ Single(views[t]) => Single(NotLoaded(views[t], i)) /\ \A m : Has(NotLoaded(views[t], i), m)
    BY Typed, LoadedType
<1>2. whole' = [whole EXCEPT ![t] = whole[t]] /\ whole[t] \in BOOLEAN
    BY DEF ListFails, LiveInv, Types
<1>3. views' = [views EXCEPT ![t] = NotLoaded(views[t], i)]
    BY DEF ListFails
<1> QED
    BY <1>1, <1>2, <1>3, ViewStep DEF ListFails

(* The pages, and the leader.                                              *)
LEMMA OpenPageKeeps ==
    ASSUME LiveInv, NEW t \in Tabs, OpenPage(t)
    PROVE  LiveInv'
<1>1. PICK hello \in EventUpTo(stored, stamp) : hello = [type |-> "hello"]
    BY DEF EventUpTo
<1>2. /\ inbox' \in [Tabs -> [Tabs -> Seq(EventUpTo(stored, stamp))]]
      /\ \A r, u \in Tabs :
            \/ inbox'[r][u] = inbox[r][u]
            \/ u = t /\ r # t /\ inbox'[r][u] = Append(inbox[r][u], hello)
    <2>1. inbox \in Boxes(EventUpTo(stored, stamp))
        BY DEF LiveInv, Types, Boxes
    <2>2. inbox' = Posted(inbox, t, hello)
        BY <1>1 DEF OpenPage
    <2>3. /\ Posted(inbox, t, hello) \in Boxes(EventUpTo(stored, stamp))
          /\ \A r, u \in Tabs :
                /\ u = t /\ r # t /\ tabs[r].running => Posted(inbox, t, hello)[r][u] = Append(inbox[r][u], hello)
                /\ ~(u = t /\ r # t /\ tabs[r].running) => Posted(inbox, t, hello)[r][u] = inbox[r][u]
        BY <1>1, <2>1, PostedAt
    <2> QED
        BY <2>2, <2>3 DEF Boxes
<1>3. EmptyView \in View(stored) /\ Loading(EmptyView) \in View(stored)
    <2>1. EmptyView \in View(stored)
        BY DEF EmptyView, View
    <2> QED
        BY <2>1, LoadingType, Typed
<1>4. [Fresh EXCEPT !.running = TRUE] \in Client(stored, stamp) /\ [Fresh EXCEPT !.running = TRUE].epoch = 0
      /\ [Fresh EXCEPT !.running = TRUE].sequence = 0
    <2>1. Fresh \in Client(stored, stamp) /\ Fresh.epoch = 0 /\ Fresh.sequence = 0
        BY Typed DEF Fresh, Client
    <2> QED
        BY <2>1 DEF Client
<1>5. Types'
    BY <1>2, <1>3, <1>4 DEF OpenPage, LiveInv, Types
<1>6. t # holder
    BY LiveAssumption DEF OpenPage, LiveInv, Led, Running
<1>7. Led'
    BY <1>2, <1>4, <1>6 DEF OpenPage, LiveInv, Types, Led
<1>8. Senders'
    <2> SUFFICES ASSUME holder # Nobody, NEW r \in Tabs, NEW s \in Tabs \ {holder},
                        NEW i \in DOMAIN inbox'[r][s]
                 PROVE  ~Of(inbox'[r][s][i], stamp)
        BY DEF Senders, OpenPage
    <2>1. CASE inbox'[r][s] = inbox[r][s]
        BY <2>1 DEF LiveInv, Senders
    <2>2. CASE inbox'[r][s] = Append(inbox[r][s], hello)
        <3>1. \/ i \in DOMAIN inbox[r][s] /\ inbox'[r][s][i] = inbox[r][s][i]
              \/ inbox'[r][s][i].type = "hello"
            BY <1>1, <2>2, AppendAt, Typed
        <3> QED
            BY <3>1 DEF LiveInv, Senders, Of
    <2> QED
        BY <1>2, <2>1, <2>2
<1>9. Ordered'
    <2> SUFFICES ASSUME holder # Nobody, NEW r \in Tabs \ {holder}
                 PROVE  Numbered(inbox'[r][holder], tabs'[r], tabs'[holder].sequence, stamp)
        BY DEF Ordered, OpenPage
    <2>1. inbox'[r][holder] = inbox[r][holder] /\ tabs'[holder] = tabs[holder]
        BY <1>2, <1>6, Typed DEF OpenPage, LiveInv, Types
    <2>2. Numbered(inbox[r][holder], tabs[r], tabs[holder].sequence, stamp)
        BY DEF LiveInv, Ordered
    <2>3. CASE r # t
        BY <2>1, <2>2, <2>3 DEF OpenPage, LiveInv, Types
    <2>4. CASE r = t
        <3>1. tabs'[r].epoch # stamp
            BY <1>4, <2>4 DEF OpenPage, LiveInv, Types, Led
        <3> QED
            BY <2>1, <2>2, <3>1 DEF Numbered
    <2> QED
        BY <2>3, <2>4
<1>10. SingleLoad'
    BY DEF OpenPage, LiveInv, Types, SingleLoad
<1>11. Healed'
    <2> SUFFICES ASSUME stream.phase = "open", NEW r \in Tabs, whole'[r]
                 PROVE  Heals(views'[r], inbox'[r][holder], stream.wire, stored, stamp)
        BY DEF Healed, OpenPage
    <2>1. r # t /\ whole[r]
        BY DEF OpenPage, LiveInv, Types
    <2>2. holder # Nobody
        BY DEF LiveInv, Led
    <2>3. views'[r] = views[r] /\ inbox'[r][holder] = inbox[r][holder]
        BY <1>2, <1>6, <2>1, <2>2, Typed DEF OpenPage, LiveInv, Types
    <2> QED
        BY <2>1, <2>3 DEF LiveInv, Healed
<1>12. Gaps'
    <2>1. stream.phase # "none" => holder # Nobody /\ tabs'[holder] = tabs[holder]
        BY <1>6, Typed DEF OpenPage, LiveInv, Types, Led
    <2> QED
        BY <2>1 DEF OpenPage, LiveInv, Gaps
<1> QED
    BY <1>5, <1>7, <1>8, <1>9, <1>10, <1>11, <1>12 DEF LiveInv

LEMMA ClosePageKeeps ==
    ASSUME LiveInv, NEW t \in Tabs, ClosePage(t)
    PROVE  LiveInv'
<1>1. Fresh \in Client(stored, stamp) /\ Fresh.epoch = 0 /\ Fresh.sequence = 0
    BY Typed DEF Fresh, Client
<1>2. EmptyView \in View(stored) /\ Offline \in Link(stored)
    BY Typed DEF EmptyView, View, Offline, Link
<1>3. Types'
    <2>1. inbox' \in [Tabs -> [Tabs -> Seq(EventUpTo(stored, stamp))]]
        BY DEF ClosePage, LiveInv, Types
    <2>2. /\ tabs' \in [Tabs -> Client(stored, stamp)] /\ views' \in [Tabs -> View(stored)]
          /\ whole' \in [Tabs -> BOOLEAN]
        BY <1>1, <1>2 DEF ClosePage, LiveInv, Types
    <2>3. holder' \in Tabs \union {Nobody} /\ stream' \in Link(stored)
        BY <1>2 DEF ClosePage, LiveInv, Types
    <2> QED
        BY <2>1, <2>2, <2>3 DEF ClosePage, LiveInv, Types
<1>4. Led'
    <2>1. holder' = Nobody <=> stream'.phase = "none"
        BY DEF ClosePage, LiveInv, Led, Offline
    <2>2. holder' # Nobody => holder' = holder /\ holder # t
        BY DEF ClosePage
    <2>3. holder' # Nobody => tabs'[holder].running /\ tabs'[holder].epoch = stamp /\ stamp > 0
        BY <2>2, Typed DEF ClosePage, LiveInv, Types, Led
    <2>4. ASSUME NEW r \in Tabs
          PROVE  /\ whole'[r] => tabs'[r].running
                 /\ tabs'[r].epoch = 0 => tabs'[r].sequence = 0
                 /\ inbox'[r][r] = <<>>
        BY <1>1 DEF ClosePage, LiveInv, Types, Led
    <2> QED
        BY <2>1, <2>2, <2>3, <2>4 DEF Led, ClosePage
<1>5. /\ holder' # Nobody => holder' = holder /\ holder # t /\ stream' = stream /\ holder \in Tabs
      /\ \A r, s \in Tabs : inbox'[r][s] = IF r = t THEN <<>> ELSE inbox[r][s]
    BY Typed DEF ClosePage, LiveInv, Types
<1>6. Senders'
    BY <1>5 DEF ClosePage, LiveInv, Senders
<1>7. Ordered'
    <2> SUFFICES ASSUME holder' # Nobody, NEW r \in Tabs \ {holder}
                 PROVE  Numbered(inbox'[r][holder], tabs'[r], tabs'[holder].sequence, stamp)
        BY <1>5 DEF Ordered, ClosePage
    <2>1. tabs'[holder] = tabs[holder] /\ Numbered(inbox[r][holder], tabs[r], tabs[holder].sequence, stamp)
        BY <1>5 DEF ClosePage, LiveInv, Types, Ordered
    <2>2. CASE r # t
        BY <1>5, <2>1, <2>2 DEF ClosePage, LiveInv, Types
    <2>3. CASE r = t
        <3>1. tabs'[r].epoch # stamp /\ inbox'[r][holder] = <<>>
            BY <1>1, <1>5, <2>3 DEF ClosePage, LiveInv, Types, Led
        <3> QED
            BY <3>1 DEF Numbered
    <2> QED
        BY <2>2, <2>3
<1>8. SingleLoad'
    BY DEF ClosePage, LiveInv, Types, SingleLoad
<1>9. Healed'
    <2> SUFFICES ASSUME stream'.phase = "open", NEW r \in Tabs, whole'[r]
                 PROVE  Heals(views'[r], inbox'[r][holder'], stream'.wire, stored, stamp)
        BY DEF Healed, ClosePage
    <2>1. holder' # Nobody
        BY <1>4 DEF Led
    <2>2. r # t /\ whole[r]
        BY DEF ClosePage, LiveInv, Types
    <2>3. views'[r] = views[r] /\ inbox'[r][holder] = inbox[r][holder]
        BY <1>5, <2>1, <2>2 DEF ClosePage, LiveInv, Types
    <2> QED
        BY <1>5, <2>1, <2>2, <2>3 DEF LiveInv, Healed
<1>10. Gaps'
    <2>1. CASE stream'.phase = "none"
        BY <2>1 DEF Gaps
    <2>2. CASE stream'.phase # "none"
        <3>1. holder' # Nobody
            BY <1>4, <2>2 DEF Led
        <3>2. tabs'[holder] = tabs[holder]
            BY <1>5, <3>1 DEF ClosePage, LiveInv, Types
        <3> QED
            BY <1>5, <3>1, <3>2 DEF ClosePage, LiveInv, Gaps
    <2> QED
        BY <2>1, <2>2
<1> QED
    BY <1>3, <1>4, <1>6, <1>7, <1>8, <1>9, <1>10 DEF LiveInv

(* One more epoch, one more message.                                       *)
LEMMA NextEpoch ==
    ASSUME NEW n \in Nat, NEW e \in Nat
    PROVE  /\ Client(n, e) \subseteq Client(n, e + 1)
           /\ EventUpTo(n, e) \subseteq EventUpTo(n, e + 1)
           /\ Boxes(EventUpTo(n, e)) \subseteq Boxes(EventUpTo(n, e + 1))
<1>1. /\ Client(n, e) \subseteq Client(n, e + 1)
      /\ EventUpTo(n, e) \subseteq EventUpTo(n, e + 1)
      /\ Seq(EventUpTo(n, e)) \subseteq Seq(EventUpTo(n, e + 1))
    <2>1. n <= n /\ e <= e + 1 /\ e + 1 \in Nat
        OBVIOUS
    <2> QED
        BY <2>1, EventsGrow
<1> QED
    BY <1>1 DEF Boxes

LEMMA NextMessage ==
    ASSUME NEW n \in Nat, NEW e \in Nat
    PROVE  /\ Client(n, e) \subseteq Client(n + 1, e)
           /\ Boxes(EventUpTo(n, e)) \subseteq Boxes(EventUpTo(n + 1, e))
           /\ View(n) \subseteq View(n + 1)
<1>1. n <= n + 1 /\ e <= e /\ n + 1 \in Nat
    OBVIOUS
<1>2. /\ Client(n, e) \subseteq Client(n + 1, e)
      /\ Seq(EventUpTo(n, e)) \subseteq Seq(EventUpTo(n + 1, e))
    BY <1>1, EventsGrow
<1> QED
    BY <1>1, <1>2, ViewsGrow DEF Boxes

LEMMA EventTypes ==
    ASSUME NEW n \in Nat, NEW e \in Nat, NEW epoch \in 1 .. e, NEW number \in Nat, NEW id \in 0 .. n,
           NEW again \in BOOLEAN
    PROVE  /\ \A type \in {"leader", "state", "error"} :
                [type |-> type, epoch |-> epoch, sequence |-> number, lastEventId |-> id] \in EventUpTo(n, e)
           /\ [type |-> "open", epoch |-> epoch, sequence |-> number, lastEventId |-> id,
               reconnecting |-> again] \in EventUpTo(n, e)
           /\ id # 0 => [type |-> "message", epoch |-> epoch, sequence |-> number, lastEventId |-> id,
                         message |-> id] \in EventUpTo(n, e)
    BY DEF EventUpTo

(* The events there are, are not of an epoch to come.                      *)
LEMMA NotYet ==
    ASSUME NEW n, NEW e \in Nat, NEW event \in EventUpTo(n, e)
    PROVE  ~Of(event, e + 1)
    BY DEF EventUpTo, Of

LEMMA LeadKeeps ==
    ASSUME LiveInv, NEW t \in Tabs, Lead(t)
    PROVE  LiveInv'
<1>1. PICK event \in EventUpTo(stored, stamp + 1) :
        /\ event = [type |-> "leader", epoch |-> stamp + 1, sequence |-> tabs[t].sequence,
                    lastEventId |-> tabs[t].lastEventId]
        /\ event.type = "leader" /\ event.epoch = stamp + 1 /\ event.sequence = tabs[t].sequence
    <2>1. /\ stored \in Nat /\ stamp + 1 \in Nat /\ stamp + 1 \in 1 .. stamp + 1
          /\ tabs[t].sequence \in Nat /\ tabs[t].lastEventId \in 0 .. stored
        BY Typed DEF Client
    <2>2. [type |-> "leader", epoch |-> stamp + 1, sequence |-> tabs[t].sequence,
           lastEventId |-> tabs[t].lastEventId] \in EventUpTo(stored, stamp + 1)
        BY <2>1, EventTypes
    <2> QED
        BY <2>2
<1>2. inbox \in Boxes(EventUpTo(stored, stamp + 1))
    <2>1. inbox \in Boxes(EventUpTo(stored, stamp))
        BY DEF LiveInv, Types, Boxes
    <2> QED
        BY <2>1, Typed, NextEpoch
<1>3. inbox' = Posted(inbox, t, event)
    BY <1>1 DEF Lead
<1>4. /\ inbox' \in Boxes(EventUpTo(stored, stamp + 1))
      /\ \A r, u \in Tabs :
            \/ inbox'[r][u] = inbox[r][u]
            \/ u = t /\ r # t /\ inbox'[r][u] = Append(inbox[r][u], event)
    BY <1>2, <1>3, PostedAt
<1>5. /\ tabs' \in [Tabs -> Client(stored, stamp + 1)]
      /\ \A r \in Tabs : r # t => tabs'[r] = tabs[r]
      /\ tabs'[t].running = tabs[t].running /\ tabs'[t].epoch = stamp + 1
      /\ tabs'[t].sequence = tabs[t].sequence /\ tabs'[t].lastEventId = tabs[t].lastEventId
    <2>1. tabs \in [Tabs -> Client(stored, stamp + 1)]
        BY Typed, NextEpoch DEF LiveInv, Types
    <2>2. stamp + 1 \in 0 .. stamp + 1
        BY Typed
    <2>3. PICK c \in Client(stored, stamp + 1) :
            /\ tabs' = [tabs EXCEPT ![t] = c]
            /\ c.running = tabs[t].running /\ c.epoch = stamp + 1 /\ c.sequence = tabs[t].sequence
            /\ c.lastEventId = tabs[t].lastEventId
        <3>1. tabs[t] \in Client(stored, stamp + 1)
            BY <2>1
        <3>2. [tabs[t] EXCEPT !.epoch = stamp + 1] \in Client(stored, stamp + 1)
            BY <2>2, <3>1 DEF Client
        <3> QED
            BY <3>1, <3>2 DEF Lead, Client
    <2> QED
        BY <2>1, <2>3
<1>6. stream' \in Link(stored) /\ stream'.phase = "asking" /\ stream'.lastId = tabs[t].lastEventId
    <2>1. Offline \in Link(stored) /\ tabs[t].lastEventId \in 0 .. stored
        BY Typed DEF Offline, Link, Client
    <2> QED
        BY <2>1 DEF Lead, Link
<1>7. Types'
    <2>1. /\ stamp' = stamp + 1 /\ stamp + 1 \in Nat /\ holder' = t /\ stream' \in Link(stored)
          /\ UNCHANGED <<stored, views, unheard, cut, whole>>
        BY <1>6, Typed DEF Lead
    <2>2. inbox' \in [Tabs -> [Tabs -> Seq(EventUpTo(stored', stamp'))]]
        BY <1>4, <2>1 DEF Boxes
    <2>3. tabs' \in [Tabs -> Client(stored', stamp')]
        BY <1>5, <2>1
    <2> QED
        BY <2>1, <2>2, <2>3 DEF LiveInv, Types
<1>8. Led'
    <2>1. ASSUME NEW r \in Tabs
          PROVE  /\ whole'[r] => tabs'[r].running
                 /\ tabs'[r].epoch = 0 => tabs'[r].sequence = 0
                 /\ inbox'[r][r] = <<>>
        BY <1>4, <1>5, Typed DEF Lead, LiveInv, Led
    <2>2. tabs[t].running /\ t # Nobody
        BY LiveAssumption DEF Lead, Running
    <2>3. stamp + 1 > 0
        BY Typed
    <2> QED
        BY <1>5, <1>6, <2>1, <2>2, <2>3 DEF Lead, Led
<1>9. Senders'
    <2> SUFFICES ASSUME NEW r \in Tabs, NEW s \in Tabs \ {t}, NEW i \in DOMAIN inbox'[r][s]
                 PROVE  ~Of(inbox'[r][s][i], stamp + 1)
        BY DEF Senders, Lead
    <2>1. inbox'[r][s] = inbox[r][s] /\ inbox[r][s][i] \in EventUpTo(stored, stamp)
        BY <1>4, Typed
    <2> QED
        BY <2>1, NotYet, Typed
<1>10. Ordered'
    <2> SUFFICES ASSUME NEW r \in Tabs \ {t}
                 PROVE  Numbered(inbox'[r][t], tabs'[r], tabs'[t].sequence, stamp + 1)
        BY DEF Ordered, Lead
    <2>1. PICK q \in Seq(EventUpTo(stored, stamp + 1)) :
            q = inbox[r][t] /\ \A i \in DOMAIN q : ~Of(q[i], stamp + 1)
        <3>1. inbox[r][t] \in Seq(EventUpTo(stored, stamp + 1))
            BY <1>2 DEF Boxes
        <3>2. \A i \in DOMAIN inbox[r][t] : inbox[r][t][i] \in EventUpTo(stored, stamp)
            BY Typed
        <3> QED
            BY <3>1, <3>2, NotYet, Typed
    <2>2. tabs[r].epoch # stamp + 1
        BY Typed DEF Client
    <2>3. Numbered(q, tabs[r], tabs[t].sequence, stamp + 1)
        BY <2>1, <2>2 DEF Numbered
    <2>4. tabs[t].sequence \in Nat /\ stamp + 1 \in Nat
        BY Typed DEF Client
    <2>5. Numbered(Append(q, event), tabs[r], tabs[t].sequence, stamp + 1)
        BY <1>1, <2>1, <2>2, <2>3, <2>4, OrderAppends DEF Data
    <2> QED
        BY <1>4, <1>5, <2>1, <2>3, <2>5
<1>11. SingleLoad' /\ Healed'
    BY <1>6 DEF Lead, LiveInv, SingleLoad, Healed
<1>12. Gaps'
    <2>1. holder' = t /\ tabs[t].lastEventId + 1 .. tabs[t].lastEventId = {}
        BY Typed DEF Lead, Client
    <2> QED
        BY <1>5, <1>6, <2>1 DEF Gaps
<1> QED
    BY <1>7, <1>8, <1>9, <1>10, <1>11, <1>12 DEF LiveInv

(* The hub.                                                                *)
LEMMA PublishKeeps ==
    ASSUME LiveInv, Publish
    PROVE  LiveInv'
<1>1. stored \in Nat /\ stored + 1 \in IdOrZero
    BY Typed, LiveAssumption DEF Publish, IdOrZero
<1>2. stream.wire \in Seq(1 .. stored + 1) /\ Append(stream.wire, stored + 1) \in Seq(1 .. stored + 1)
    <2>1. stream.wire \in Seq(1 .. stored + 1) /\ stored + 1 \in 1 .. stored + 1
        BY <1>1, Typed, ViewsGrow, SeqGrows
    <2> QED
        BY <2>1, AppendAt
<1>3. stream' \in Link(stored + 1) /\ stream'.phase = stream.phase /\ stream'.lastId = stream.lastId
      /\ stream'.wire = IF stream.phase = "open" THEN Append(stream.wire, stored + 1) ELSE stream.wire
    <2>1. 0 .. stored \subseteq 0 .. stored + 1
        BY <1>1
    <2> QED
        BY <1>2, <2>1 DEF Publish, LiveInv, Types, Link
<1>4. Types'
    <2>1. /\ tabs' \in [Tabs -> Client(stored + 1, stamp)]
          /\ inbox' \in Boxes(EventUpTo(stored + 1, stamp))
          /\ views' \in [Tabs -> View(stored + 1)]
        <3>1. inbox \in Boxes(EventUpTo(stored, stamp))
            BY DEF LiveInv, Types, Boxes
        <3> QED
            BY <1>1, <3>1, Typed, NextMessage DEF Publish, LiveInv, Types
    <2>2. unheard' \subseteq 1 .. stored + 1 /\ cut' \subseteq 1 .. stored + 1
        BY <1>1 DEF Publish, LiveInv, Types
    <2> QED
        BY <1>1, <1>3, <2>1, <2>2 DEF Publish, LiveInv, Types, Boxes
<1>5. Led' /\ Senders' /\ Ordered' /\ SingleLoad'
    BY <1>3 DEF Publish, LiveInv, Led, Senders, Ordered, SingleLoad
<1>6. Healed'
    <2> SUFFICES ASSUME stream.phase = "open", NEW t \in Tabs, whole[t]
                 PROVE  Heals(views[t], inbox[t][holder], Append(stream.wire, stored + 1), stored + 1, stamp)
        BY <1>3 DEF Healed, Publish
    <2>1. Heals(views[t], inbox[t][holder], stream.wire, stored, stamp)
        BY DEF LiveInv, Healed
    <2> QED
        BY <1>1, <2>1, HealsPublished, Typed
<1>7. Gaps'
    <2>1. ASSUME stream.phase \in {"opening", "open"}
          PROVE  Skips(stream'.wire, stream.lastId, stored + 1, unheard')
        <3>1. Skips(stream.wire, stream.lastId, stored, unheard)
            BY <2>1 DEF LiveInv, Gaps
        <3> QED
            BY <1>1, <1>3, <2>1, <3>1, Typed, SkipsPublished DEF Publish
    <2>2. UNCHANGED <<tabs, holder, cut>> /\ unheard \subseteq unheard' /\ stored' = stored + 1
        BY DEF Publish
    <2> QED
        BY <1>3, <2>1, <2>2 DEF LiveInv, Gaps
<1> QED
    BY <1>4, <1>5, <1>6, <1>7 DEF LiveInv

LEMMA HubReadsKeeps ==
    ASSUME LiveInv, HubReads
    PROVE  LiveInv'
<1>1. holder # Nobody /\ holder \in Tabs
    BY Typed DEF HubReads, LiveInv, Led
<1>2. PICK id \in 0 .. stored : id = stream.lastId
    BY Typed
<1>3. /\ Backlog(id) \in Seq(1 .. stored)
      /\ Beyond(id) \subseteq 1 .. stored
      /\ Skips(Backlog(id), id, stored, unheard \union Beyond(id))
    BY Typed, SkipsRead
<1>4. stream' = [stream EXCEPT !.phase = "opening", !.wire = Backlog(id)]
      /\ unheard' = unheard \union Beyond(id)
    BY <1>2 DEF HubReads
<1>5. stream' \in Link(stored) /\ stream'.phase = "opening" /\ stream'.wire = Backlog(id)
      /\ stream'.lastId = id
    BY <1>2, <1>3, <1>4 DEF LiveInv, Types, Link
<1>6. Types'
    BY <1>3, <1>4, <1>5 DEF HubReads, LiveInv, Types
<1>7. Led'
    BY <1>1, <1>5 DEF HubReads, LiveInv, Led
<1>8. Senders' /\ Ordered' /\ SingleLoad' /\ Healed'
    BY <1>5 DEF HubReads, LiveInv, Senders, Ordered, SingleLoad, Healed
<1>9. Gaps'
    <2>1. tabs[holder].lastEventId + 1 .. id \subseteq unheard \union cut
        BY <1>2 DEF HubReads, LiveInv, Gaps
    <2>2. UNCHANGED <<stored, holder, tabs, cut>> /\ unheard \subseteq unheard'
        BY <1>4 DEF HubReads
    <2> QED
        BY <1>3, <1>4, <1>5, <2>1, <2>2 DEF Gaps
<1> QED
    BY <1>6, <1>7, <1>8, <1>9 DEF LiveInv

(* What every event of the leader does to the tabs and their inboxes.      *)
LEMMA PublishesKeeps ==
    ASSUME LiveInv, holder \in Tabs, holder # Nobody, NEW event \in EventUpTo(stored, stamp),
           Of(event, stamp), event.type \in Data, event.sequence = tabs[holder].sequence + 1,
           event.lastEventId \in 0 .. stored,
           Publishes(event), UNCHANGED <<stored, holder, stamp>>
    PROVE  /\ tabs' \in [Tabs -> Client(stored, stamp)]
           /\ \A r \in Tabs : tabs'[r].running = tabs[r].running
           /\ tabs'[holder].lastEventId = event.lastEventId
           /\ tabs'[holder].epoch = stamp
           /\ inbox' \in [Tabs -> [Tabs -> Seq(EventUpTo(stored, stamp))]]
           /\ \A r \in Tabs :
                /\ inbox'[r][r] = <<>>
                /\ tabs'[r].epoch = 0 => tabs'[r].sequence = 0
                /\ inbox'[r][holder] =
                        IF r # holder /\ tabs[r].running THEN Append(inbox[r][holder], event)
                        ELSE inbox[r][holder]
           /\ Senders' /\ Ordered'
<1>1. inbox \in Boxes(EventUpTo(stored, stamp)) /\ inbox' = Posted(inbox, holder, event)
    BY DEF Publishes, LiveInv, Types, Boxes
<1>2. /\ inbox' \in Boxes(EventUpTo(stored, stamp))
      /\ \A r, u \in Tabs :
            /\ u = holder /\ r # holder /\ tabs[r].running => inbox'[r][u] = Append(inbox[r][u], event)
            /\ ~(u = holder /\ r # holder /\ tabs[r].running) => inbox'[r][u] = inbox[r][u]
    BY <1>1, PostedAt
<1>3. PICK c \in Client(stored, stamp) :
        /\ tabs' = [tabs EXCEPT ![holder] = c]
        /\ c.running = tabs[holder].running /\ c.epoch = tabs[holder].epoch
        /\ c.sequence = tabs[holder].sequence + 1 /\ c.lastEventId = event.lastEventId
    <2>1. tabs[holder] \in Client(stored, stamp) /\ tabs[holder].sequence + 1 \in Nat
        BY Typed DEF Client
    <2>2. PICK c : c = [tabs[holder] EXCEPT !.sequence = event.sequence, !.lastEventId = event.lastEventId]
        BY Zenon
    <2>3. /\ c \in Client(stored, stamp)
          /\ c.running = tabs[holder].running /\ c.epoch = tabs[holder].epoch
          /\ c.sequence = tabs[holder].sequence + 1 /\ c.lastEventId = event.lastEventId
        BY <2>1, <2>2 DEF Client
    <2>4. tabs' = [tabs EXCEPT ![holder] = c]
        BY <2>1, <2>2 DEF Publishes, LiveInv, Types, Client
    <2> QED
        BY <2>3, <2>4
<1>4. /\ tabs' \in [Tabs -> Client(stored, stamp)]
      /\ tabs'[holder] = c /\ \A r \in Tabs : r # holder => tabs'[r] = tabs[r]
    BY <1>3 DEF LiveInv, Types
<1>5. tabs[holder].epoch = stamp /\ stamp > 0
    BY DEF LiveInv, Led
<1>6. Senders'
    BY <1>2 DEF LiveInv, Senders
<1>7. Ordered'
    <2> SUFFICES ASSUME NEW r \in Tabs \ {holder}
                 PROVE  Numbered(inbox'[r][holder], tabs'[r], tabs[holder].sequence + 1, stamp)
        BY <1>3, <1>4 DEF Ordered
    <2>1. PICK q \in Seq(EventUpTo(stored, stamp)) : q = inbox[r][holder]
        BY Typed
    <2>2. /\ Numbered(q, tabs[r], tabs[holder].sequence, stamp)
          /\ tabs[holder].sequence \in Nat /\ tabs[r].sequence \in Nat /\ stamp \in Nat
        BY <2>1, Typed DEF LiveInv, Ordered, Client
    <2>3. \A i \in DOMAIN q : Of(q[i], stamp) => q[i].sequence \in Nat
        <3>1. \A x \in EventUpTo(stored, stamp) : Of(x, stamp) => x.sequence \in Nat
            BY DEF EventUpTo, Of
        <3> QED
            BY <3>1
    <2>4. /\ Numbered(q, tabs[r], tabs[holder].sequence + 1, stamp)
          /\ Numbered(Append(q, event), tabs[r], tabs[holder].sequence + 1, stamp)
        BY <2>2, <2>3, OrderAppends
    <2> QED
        BY <1>2, <1>4, <2>1, <2>4
<1>8. \A r \in Tabs :
        /\ inbox'[r][r] = <<>>
        /\ tabs'[r].epoch = 0 => tabs'[r].sequence = 0
    <2> TAKE r \in Tabs
    <2>1. inbox'[r][r] = <<>>
        BY <1>2 DEF LiveInv, Led
    <2>2. CASE r = holder
        BY <1>3, <1>4, <1>5, <2>1, <2>2
    <2>3. CASE r # holder
        BY <1>4, <2>1, <2>3 DEF LiveInv, Led
    <2> QED
        BY <2>2, <2>3
<1> QED
    BY <1>2, <1>3, <1>4, <1>5, <1>6, <1>7, <1>8 DEF Boxes

LEMMA OpenedKeeps ==
    ASSUME LiveInv, Opened
    PROVE  LiveInv'
<1>1. holder # Nobody /\ holder \in Tabs /\ tabs[holder].epoch = stamp /\ stamp > 0
    BY Typed DEF Opened, LiveInv, Led
<1>2. PICK again \in BOOLEAN : again = (stream.again \/ tabs[holder].sequence > 0)
    BY Zenon
<1>3. PICK event \in EventUpTo(stored, stamp) :
        /\ event = OpenEvent(tabs[holder].lastEventId, again)
        /\ event.type = "open" /\ event.epoch = stamp /\ event.reconnecting = again
        /\ event.sequence = tabs[holder].sequence + 1 /\ event.lastEventId = tabs[holder].lastEventId
        /\ event.lastEventId \in 0 .. stored
    <2>1. /\ stored \in Nat /\ stamp \in Nat /\ stamp \in 1 .. stamp
          /\ tabs[holder].sequence + 1 \in Nat /\ tabs[holder].lastEventId \in 0 .. stored
        BY <1>1, Typed DEF Client
    <2>2. [type |-> "open", epoch |-> stamp, sequence |-> tabs[holder].sequence + 1,
           lastEventId |-> tabs[holder].lastEventId, reconnecting |-> again] \in EventUpTo(stored, stamp)
        BY <2>1, EventTypes
    <2> QED
        BY <1>1, <2>1, <2>2 DEF OpenEvent
<1>4. /\ Publishes(event)
      /\ stream' = [stream EXCEPT !.phase = "open", !.again = FALSE]
      /\ UNCHANGED <<stored, holder, stamp, turns, unheard, cut>>
    BY <1>2, <1>3 DEF Opened
<1>5. Of(event, stamp) /\ event.type \in Data
    BY <1>3 DEF Of, Data
<1>6. stream' \in Link(stored) /\ stream'.phase = "open" /\ stream'.wire = stream.wire
      /\ stream'.lastId = stream.lastId
    BY <1>4 DEF LiveInv, Types, Link
<1>7. /\ tabs' \in [Tabs -> Client(stored, stamp)]
      /\ \A r \in Tabs : tabs'[r].running = tabs[r].running
      /\ tabs'[holder].lastEventId = tabs[holder].lastEventId
      /\ tabs'[holder].epoch = stamp
      /\ inbox' \in [Tabs -> [Tabs -> Seq(EventUpTo(stored, stamp))]]
      /\ \A r \in Tabs :
            /\ inbox'[r][r] = <<>>
            /\ tabs'[r].epoch = 0 => tabs'[r].sequence = 0
            /\ inbox'[r][holder] = IF r # holder /\ tabs[r].running THEN Append(inbox[r][holder], event)
                                   ELSE inbox[r][holder]
      /\ Senders' /\ Ordered'
    BY <1>1, <1>3, <1>4, <1>5, PublishesKeeps
<1>8. /\ views' = [views EXCEPT ![holder] = Reopened(views[holder], again)]
      /\ whole' = [whole EXCEPT ![holder] = again /\ views[holder].loads = <<>>]
    BY <1>3, <1>4 DEF Publishes, Delivered, WholeAfter
<1>9. /\ Reopened(views[holder], again) \in View(stored)
      /\ again /\ views[holder].loads = <<>> =>
            Single(Reopened(views[holder], again)) /\ \A m : Has(Reopened(views[holder], again), m)
    BY <1>1, Typed, LoadingType DEF Reopened
<1>10. Types'
    BY <1>4, <1>6, <1>7, <1>8, <1>9 DEF LiveInv, Types
<1>11. Led'
    BY <1>1, <1>4, <1>6, <1>7, <1>8 DEF LiveInv, Types, Led
<1>12. SingleLoad'
    BY <1>8, <1>9 DEF LiveInv, Types, SingleLoad
<1>13. Healed'
    <2> SUFFICES ASSUME NEW t \in Tabs, whole'[t]
                 PROVE  Heals(views'[t], inbox'[t][holder], stream.wire, stored, stamp)
        BY <1>4, <1>6 DEF Healed
    <2>1. CASE t = holder
        <3>1. \A m \in 1 .. stored : Has(views'[t], m)
            BY <1>8, <1>9, <2>1 DEF LiveInv, Types
        <3> QED
            BY <3>1 DEF Heals
    <2>2. CASE t # holder
        <3>1. whole[t] /\ tabs[t].running
            BY <1>8, <2>2 DEF LiveInv, Types, Led
        <3>2. PICK q \in Seq(EventUpTo(stored, stamp)) : q = inbox[t][holder]
            BY <1>1, Typed
        <3>3. Heals(views'[t], Append(q, event), stream.wire, stored, stamp)
            BY <1>3, <1>5, HealsMore
        <3> QED
            BY <1>7, <2>2, <3>1, <3>2, <3>3
    <2> QED
        BY <2>1, <2>2
<1>14. Gaps'
    BY <1>4, <1>6, <1>7 DEF Opened, LiveInv, Gaps
<1> QED
    BY <1>7, <1>10, <1>11, <1>12, <1>13, <1>14 DEF LiveInv

LEMMA FrameKeeps ==
    ASSUME LiveInv, Frame
    PROVE  LiveInv'
<1>1. holder # Nobody /\ holder \in Tabs /\ tabs[holder].epoch = stamp /\ stamp > 0
    BY Typed DEF Frame, LiveInv, Led
<1>2. PICK w \in Seq(1 .. stored) : w = stream.wire /\ w # <<>>
    BY Typed DEF Frame
<1>3. PICK m \in 1 .. stored : m = Head(w)
    BY <1>2, TailAt
<1>4. Tail(w) \in Seq(1 .. stored)
    BY <1>2, TailAt
<1>5. PICK event \in EventUpTo(stored, stamp) :
        /\ event = MessageEvent(m)
        /\ event.type = "message" /\ event.epoch = stamp /\ event.message = m
        /\ event.sequence = tabs[holder].sequence + 1 /\ event.lastEventId = m
        /\ event.lastEventId \in 0 .. stored
    <2>1. /\ stored \in Nat /\ stamp \in Nat /\ stamp \in 1 .. stamp
          /\ tabs[holder].sequence + 1 \in Nat /\ m \in 0 .. stored /\ m # 0
        BY <1>1, Typed DEF Client
    <2>2. [type |-> "message", epoch |-> stamp, sequence |-> tabs[holder].sequence + 1,
           lastEventId |-> m, message |-> m] \in EventUpTo(stored, stamp)
        BY <2>1, EventTypes
    <2> QED
        BY <1>1, <2>1, <2>2 DEF MessageEvent
<1>6. /\ Publishes(event)
      /\ stream' = [stream EXCEPT !.wire = Tail(w), !.lastId = m]
      /\ stream.phase = "open"
      /\ UNCHANGED <<stored, holder, stamp, turns, unheard, cut>>
    BY <1>2, <1>3, <1>5 DEF Frame
<1>7. Of(event, stamp) /\ event.type \in Data
    BY <1>5 DEF Of, Data
<1>8. stream' \in Link(stored) /\ stream'.phase = "open" /\ stream'.wire = Tail(w)
      /\ stream'.lastId = m
    <2>1. stream \in Link(stored) /\ m \in 0 .. stored
        BY <1>3, Typed DEF LiveInv, Types
    <2> QED
        BY <1>4, <1>6, <2>1 DEF Link
<1>9. /\ tabs' \in [Tabs -> Client(stored, stamp)]
      /\ \A r \in Tabs : tabs'[r].running = tabs[r].running
      /\ tabs'[holder].lastEventId = m
      /\ tabs'[holder].epoch = stamp
      /\ inbox' \in [Tabs -> [Tabs -> Seq(EventUpTo(stored, stamp))]]
      /\ \A r \in Tabs :
            /\ inbox'[r][r] = <<>>
            /\ tabs'[r].epoch = 0 => tabs'[r].sequence = 0
            /\ inbox'[r][holder] = IF r # holder /\ tabs[r].running THEN Append(inbox[r][holder], event)
                                   ELSE inbox[r][holder]
      /\ Senders' /\ Ordered'
    BY <1>1, <1>5, <1>6, <1>7, PublishesKeeps
<1>10. /\ views' = [views EXCEPT ![holder] = Received(views[holder], m)]
       /\ whole' = [whole EXCEPT ![holder] = whole[holder]]
    BY <1>5, <1>6 DEF Publishes, Delivered, WholeAfter
<1>11. /\ Received(views[holder], m) \in View(stored)
       /\ Single(views[holder]) => Single(Received(views[holder], m))
    BY <1>1, Typed, ReceivedType, HasReceived
<1>12. whole' = whole
    BY <1>10 DEF LiveInv, Types
<1>13. Types'
    BY <1>6, <1>8, <1>9, <1>10, <1>11, <1>12 DEF LiveInv, Types
<1>14. Led'
    BY <1>1, <1>6, <1>8, <1>9, <1>12 DEF LiveInv, Types, Led
<1>15. SingleLoad'
    BY <1>10, <1>11, <1>12 DEF LiveInv, Types, SingleLoad
<1>16. Healed'
    <2> SUFFICES ASSUME NEW t \in Tabs, whole[t]
                 PROVE  Heals(views'[t], inbox'[t][holder], Tail(w), stored, stamp)
        BY <1>6, <1>8, <1>12 DEF Healed
    <2>1. Heals(views[t], inbox[t][holder], w, stored, stamp)
        BY <1>2, <1>6 DEF LiveInv, Healed
    <2>2. CASE t = holder
        <3>1. Single(views[t]) /\ views[t] \in View(stored)
            BY Typed DEF LiveInv, SingleLoad
        <3>2. Heals(Received(views[t], Head(w)), inbox[t][holder], Tail(w), stored, stamp)
            BY <1>2, <2>1, <3>1, HealsShown
        <3> QED
            BY <1>3, <1>9, <1>10, <2>2, <3>2 DEF LiveInv, Types
    <2>3. CASE t # holder
        <3>1. tabs[t].running
            BY DEF LiveInv, Led
        <3>2. PICK q \in Seq(EventUpTo(stored, stamp)) : q = inbox[t][holder]
            BY <1>1, Typed
        <3>3. Heals(views[t], Append(q, event), Tail(w), stored, stamp)
            BY <1>2, <1>3, <1>5, <1>7, <2>1, <3>2, HealsQueued
        <3> QED
            BY <1>9, <1>10, <2>3, <3>1, <3>2, <3>3 DEF LiveInv, Types
    <2> QED
        BY <2>2, <2>3
<1>17. Gaps'
    <2>1. Skips(w, stream.lastId, stored, unheard) /\ stream.lastId \in 0 .. stored
        BY <1>2, <1>6, Typed DEF LiveInv, Gaps
    <2>2. Skips(Tail(w), m, stored, unheard)
        BY <1>2, <1>3, <2>1, SkipsTaken, Typed
    <2>3. m + 1 .. m = {}
        BY <1>3
    <2> QED
        BY <1>6, <1>8, <1>9, <2>2, <2>3 DEF Gaps
<1> QED
    BY <1>9, <1>13, <1>14, <1>15, <1>16, <1>17 DEF LiveInv

(* The connection ends, with or without an error event.                    *)
LEMMA EndKeeps ==
    ASSUME LiveInv, holder # Nobody, stream' \in Link(stored), stream'.phase = "asking",
           UNCHANGED <<stored, holder, stamp, unheard>>, cut \subseteq cut', cut' \subseteq 1 .. stored,
           tabs[holder].lastEventId + 1 .. stream'.lastId \subseteq unheard \union cut',
           UNCHANGED <<tabs, inbox, views, whole>> \/ Publishes(ErrorEvent(tabs[holder].lastEventId))
    PROVE  LiveInv'
<1>1. holder \in Tabs /\ tabs[holder].epoch = stamp /\ stamp > 0
    BY Typed DEF LiveInv, Led
<1>3. Types' /\ Led' /\ Senders' /\ Ordered' /\ SingleLoad' /\ tabs'[holder].lastEventId = tabs[holder].lastEventId
    <2>1. CASE UNCHANGED <<tabs, inbox, views, whole>>
        <3>1. Types'
            BY <2>1 DEF LiveInv, Types
        <3>2. Led'
            BY <1>1, <2>1 DEF LiveInv, Led
        <3>3. Senders' /\ Ordered' /\ SingleLoad'
            BY <2>1 DEF LiveInv, Senders, Ordered, SingleLoad
        <3> QED
            BY <2>1, <3>1, <3>2, <3>3
    <2>2. CASE Publishes(ErrorEvent(tabs[holder].lastEventId))
        <3>1. PICK event \in EventUpTo(stored, stamp) :
                /\ event = ErrorEvent(tabs[holder].lastEventId)
                /\ event.type = "error" /\ event.epoch = stamp
                /\ event.sequence = tabs[holder].sequence + 1 /\ event.lastEventId \in 0 .. stored
                /\ event.lastEventId = tabs[holder].lastEventId
            <4>1. /\ stored \in Nat /\ stamp \in Nat /\ stamp \in 1 .. stamp
                  /\ tabs[holder].sequence + 1 \in Nat /\ tabs[holder].lastEventId \in 0 .. stored
                BY <1>1, Typed DEF Client
            <4>2. [type |-> "error", epoch |-> stamp, sequence |-> tabs[holder].sequence + 1,
                   lastEventId |-> tabs[holder].lastEventId] \in EventUpTo(stored, stamp)
                BY <4>1, EventTypes
            <4> QED
                BY <1>1, <4>1, <4>2 DEF ErrorEvent
        <3>2. Of(event, stamp) /\ event.type \in Data /\ Publishes(event)
            BY <2>2, <3>1 DEF Of, Data
        <3>4. /\ tabs' \in [Tabs -> Client(stored, stamp)]
              /\ \A r \in Tabs : tabs'[r].running = tabs[r].running
              /\ tabs'[holder].lastEventId = tabs[holder].lastEventId
              /\ tabs'[holder].epoch = stamp
              /\ inbox' \in [Tabs -> [Tabs -> Seq(EventUpTo(stored, stamp))]]
              /\ \A r \in Tabs :
                    /\ inbox'[r][r] = <<>>
                    /\ tabs'[r].epoch = 0 => tabs'[r].sequence = 0
              /\ Senders' /\ Ordered'
            BY <1>1, <3>1, <3>2, PublishesKeeps
        <3>5. views' = views /\ whole' = whole
            BY <3>1, <3>2 DEF Publishes, Delivered, WholeAfter, LiveInv, Types
        <3>6. Types'
            BY <3>4, <3>5 DEF LiveInv, Types
        <3>7. Led'
            BY <1>1, <3>4, <3>5 DEF LiveInv, Led
        <3>8. SingleLoad'
            BY <3>5 DEF LiveInv, SingleLoad
        <3> QED
            BY <3>4, <3>6, <3>7, <3>8
    <2> QED
        BY <2>1, <2>2
<1>4. Healed' /\ Gaps'
    BY <1>3 DEF Healed, Gaps
<1> QED
    BY <1>3, <1>4 DEF LiveInv

LEMMA AskingAgain ==
    ASSUME stream \in Link(stored)
    PROVE  AsksAgain \in Link(stored) /\ AsksAgain.phase = "asking" /\ AsksAgain.lastId = stream.lastId
<1>0. <<>> \in Seq(1 .. stored)
    OBVIOUS
<1>1. PICK w \in Seq(1 .. stored) : w = <<>>
    BY <1>0, Zenon
<1>2. AsksAgain = [stream EXCEPT !.phase = "asking", !.wire = w, !.again = TRUE]
    BY <1>1 DEF AsksAgain
<1> QED
    BY <1>2 DEF Link

LEMMA DropKeeps ==
    ASSUME LiveInv, Drop
    PROVE  LiveInv'
<1>1. holder # Nobody
    BY DEF Drop, LiveInv, Led
<1>2. stream' \in Link(stored) /\ stream'.phase = "asking" /\ stream'.lastId = stream.lastId
    <2>1. stream \in Link(stored) /\ stream' = AsksAgain
        BY DEF Drop, LiveInv, Types
    <2> QED
        BY <2>1, AskingAgain
<1>3. tabs[holder].lastEventId + 1 .. stream.lastId \subseteq unheard \union cut
    BY DEF Drop, LiveInv, Gaps
<1>4. /\ UNCHANGED <<stored, holder, stamp, unheard, cut>>
      /\ UNCHANGED <<tabs, inbox, views, whole>> \/ Publishes(ErrorEvent(tabs[holder].lastEventId))
    BY DEF Drop
<1> QED
    BY <1>1, <1>2, <1>3, <1>4, EndKeeps DEF LiveInv, Types

LEMMA CutFrameKeeps ==
    ASSUME LiveInv, CutFrame
    PROVE  LiveInv'
<1>1. holder # Nobody
    BY DEF CutFrame, LiveInv, Led
<1>2. PICK w \in Seq(1 .. stored) : w = stream.wire /\ w # <<>>
    BY Typed DEF CutFrame
<1>3. PICK m \in 1 .. stored : m = Head(w)
    BY <1>2, TailAt
<1>4. stream' \in Link(stored) /\ stream'.phase = "asking" /\ stream'.lastId = m
    <2>1. stream \in Link(stored) /\ stream' = [AsksAgain EXCEPT !.lastId = m] /\ m \in 0 .. stored
        BY <1>2, <1>3, Typed DEF CutFrame, LiveInv, Types
    <2>2. AsksAgain \in Link(stored) /\ AsksAgain.phase = "asking"
        BY <2>1, AskingAgain
    <2> QED
        BY <2>1, <2>2 DEF Link
<1>5. cut' = cut \union {m}
    BY <1>2, <1>3 DEF CutFrame
<1>6. ASSUME NEW k \in tabs[holder].lastEventId + 1 .. m
      PROVE  k \in unheard \union cut'
    <2>1. stream.lastId + 1 .. m - 1 \subseteq unheard
        <3>1. Skips(w, stream.lastId, stored, unheard)
            BY <1>2 DEF CutFrame, LiveInv, Gaps
        <3> QED
            BY <1>2, <1>3, <3>1, SkipsTaken, Typed
    <2>2. tabs[holder].lastEventId + 1 .. stream.lastId \subseteq unheard \union cut
        BY DEF CutFrame, LiveInv, Gaps
    <2>3. tabs[holder].lastEventId \in Nat /\ stream.lastId \in Nat
        BY <1>1, Typed DEF Client
    <2>4. k = m \/ k \in stream.lastId + 1 .. m - 1 \/ k \in tabs[holder].lastEventId + 1 .. stream.lastId
        BY <2>3
    <2> QED
        BY <1>5, <2>1, <2>2, <2>4
<1>7. UNCHANGED <<stored, holder, stamp, unheard>> /\ Publishes(ErrorEvent(tabs[holder].lastEventId))
    BY DEF CutFrame
<1>8. cut \subseteq cut' /\ cut' \subseteq 1 .. stored
    BY <1>5 DEF LiveInv, Types
<1> QED
    BY <1>1, <1>4, <1>6, <1>7, <1>8, EndKeeps

(* A tab takes an event from its inbox: d, u and b are what it is then.    *)
LEMMA TakeStep ==
    ASSUME LiveInv, NEW t \in Tabs, NEW s \in Tabs, inbox[t][s] # <<>>, tabs[t].running,
           inbox' = [inbox EXCEPT ![t][s] = Tail(@)],
           NEW d \in Client(stored, stamp), tabs' = [tabs EXCEPT ![t] = d],
           d.running, d.epoch = 0 => d.sequence = 0, t = holder => d = tabs[t],
           d.epoch = stamp =>
                \/ tabs[t].epoch = stamp /\ d.sequence = tabs[t].sequence
                \/ Of(Head(inbox[t][s]), stamp) /\ d.sequence = Head(inbox[t][s]).sequence,
           NEW u \in View(stored), views' = [views EXCEPT ![t] = u],
           NEW b \in BOOLEAN, whole' = [whole EXCEPT ![t] = b],
           b => Single(u),
           b => \/ \A m \in 1 .. stored : Has(u, m)
                \/ /\ whole[t]
                   /\ \A m \in 1 .. stored : Has(views[t], m) => Has(u, m)
                   /\ s = holder /\ Of(Head(inbox[t][s]), stamp) =>
                        /\ Head(inbox[t][s]).type # "open"
                        /\ Head(inbox[t][s]).type = "message" => Has(u, Head(inbox[t][s]).message),
           UNCHANGED <<stored, holder, stamp, stream, unheard, cut>>
    PROVE  LiveInv'
<1>1. PICK q \in Seq(EventUpTo(stored, stamp)) : q = inbox[t][s] /\ q # <<>>
    BY Typed
<1>2. PICK p \in Seq(EventUpTo(stored, stamp)) : p = Tail(q)
    BY <1>1, TailAt
<1>3. /\ inbox' \in [Tabs -> [Tabs -> Seq(EventUpTo(stored, stamp))]]
      /\ inbox'[t][s] = p
      /\ \A r, x \in Tabs : r # t \/ x # s => inbox'[r][x] = inbox[r][x]
    BY <1>1, <1>2 DEF LiveInv, Types
<1>4. /\ tabs' \in [Tabs -> Client(stored, stamp)] /\ tabs'[t] = d
      /\ views' \in [Tabs -> View(stored)] /\ views'[t] = u
      /\ whole' \in [Tabs -> BOOLEAN] /\ whole'[t] = b
      /\ \A r \in Tabs : r # t => tabs'[r] = tabs[r] /\ views'[r] = views[r] /\ whole'[r] = whole[r]
    BY DEF LiveInv, Types
<1>5. s # t
    BY <1>1 DEF LiveInv, Led
<1>6. holder # Nobody => holder \in Tabs /\ tabs'[holder] = tabs[holder]
    BY <1>4, Typed
<1>7. Types'
    BY <1>3, <1>4 DEF LiveInv, Types
<1>8. Led'
    <2>1. ASSUME NEW r \in Tabs
          PROVE  /\ whole'[r] => tabs'[r].running
                 /\ tabs'[r].epoch = 0 => tabs'[r].sequence = 0
                 /\ inbox'[r][r] = <<>>
        <3>1. CASE r = t
            BY <1>3, <1>4, <1>5, <3>1 DEF LiveInv, Led
        <3>2. CASE r # t
            BY <1>3, <1>4, <3>2 DEF LiveInv, Led
        <3> QED
            BY <3>1, <3>2
    <2> QED
        BY <1>6, <2>1 DEF LiveInv, Led
<1>9. Senders'
    <2> SUFFICES ASSUME holder # Nobody, NEW r \in Tabs, NEW x \in Tabs \ {holder},
                        NEW i \in DOMAIN inbox'[r][x]
                 PROVE  ~Of(inbox'[r][x][i], stamp)
        BY DEF Senders
    <2>1. \E j \in DOMAIN inbox[r][x] : inbox'[r][x][i] = inbox[r][x][j]
        BY <1>1, <1>2, <1>3, TailAt
    <2> QED
        BY <2>1 DEF LiveInv, Senders
<1>10. Ordered'
    <2> SUFFICES ASSUME holder # Nobody, NEW r \in Tabs \ {holder}
                 PROVE  Numbered(inbox'[r][holder], tabs'[r], tabs[holder].sequence, stamp)
        BY <1>6 DEF Ordered
    <2>1. /\ Numbered(inbox[r][holder], tabs[r], tabs[holder].sequence, stamp)
          /\ tabs[holder].sequence \in Nat /\ stamp \in Nat
        BY <1>6, Typed DEF LiveInv, Ordered, Client
    <2>2. CASE r # t
        BY <1>3, <1>4, <1>6, <2>1, <2>2
    <2>3. CASE r = t /\ s = holder
        <3>1. Numbered(q, tabs[t], tabs[holder].sequence, stamp)
            BY <1>1, <2>1, <2>3
        <3>2. Numbered(p, d, tabs[holder].sequence, stamp)
            BY <1>1, <1>2, <2>1, <3>1, OrderTakes
        <3> QED
            BY <1>3, <1>4, <2>3, <3>2
    <2>4. CASE r = t /\ s # holder
        <3>1. ~Of(Head(inbox[t][s]), stamp)
            BY <1>1, <2>4, TailAt DEF LiveInv, Senders
        <3>2. d.epoch = stamp => tabs[t].epoch = stamp /\ d.sequence = tabs[t].sequence
            BY <3>1
        <3> QED
            BY <1>3, <1>4, <1>6, <2>1, <2>4, <3>2 DEF Numbered
    <2> QED
        BY <2>2, <2>3, <2>4
<1>11. SingleLoad'
    BY <1>4 DEF LiveInv, SingleLoad
<1>12. Healed'
    <2> SUFFICES ASSUME stream.phase = "open", NEW r \in Tabs, whole'[r]
                 PROVE  Heals(views'[r], inbox'[r][holder], stream.wire, stored, stamp)
        BY DEF Healed
    <2>1. holder # Nobody
        BY DEF LiveInv, Led
    <2>2. CASE r # t
        BY <1>3, <1>4, <1>6, <2>1, <2>2 DEF LiveInv, Healed
    <2>3. CASE r = t /\ \A m \in 1 .. stored : Has(u, m)
        BY <1>4, <2>3 DEF Heals
    <2>4. CASE r = t /\ ~\A m \in 1 .. stored : Has(u, m)
        <3>1. /\ whole[t]
              /\ \A m \in 1 .. stored : Has(views[t], m) => Has(u, m)
              /\ s = holder /\ Of(Head(q), stamp) =>
                    /\ Head(q).type # "open"
                    /\ Head(q).type = "message" => Has(u, Head(q).message)
            BY <1>1, <1>4, <2>4
        <3>2. Heals(views[t], inbox[t][holder], stream.wire, stored, stamp)
            BY <3>1 DEF LiveInv, Healed
        <3>3. CASE s = holder
            <4>1. Heals(views[t], q, stream.wire, stored, stamp)
                BY <1>1, <3>2, <3>3
            <4>2. Heals(u, p, stream.wire, stored, stamp)
                BY <1>1, <1>2, <3>1, <3>3, <4>1, HealsTaken
            <4> QED
                BY <1>3, <1>4, <2>4, <3>3, <4>2
        <3>4. CASE s # holder
            BY <1>3, <1>4, <1>6, <2>1, <2>4, <3>1, <3>2, <3>4 DEF Heals
        <3> QED
            BY <3>3, <3>4
    <2> QED
        BY <2>2, <2>3, <2>4
<1>13. Gaps'
    <2>1. stream.phase \in {"opening", "open"} => tabs'[holder] = tabs[holder]
        BY <1>6 DEF LiveInv, Led
    <2> QED
        BY <2>1 DEF LiveInv, Gaps
<1> QED
    BY <1>7, <1>8, <1>9, <1>10, <1>11, <1>12, <1>13 DEF LiveInv

(* The leader answers a hello with its state.                              *)
Answers(t, s) ==
    /\ t = holder /\ inbox[t][s] # <<>>
    /\ inbox' = Posted([inbox EXCEPT ![t][s] = Tail(@)], t,
                       [type |-> "state", epoch |-> tabs[t].epoch,
                        sequence |-> tabs[t].sequence, lastEventId |-> tabs[t].lastEventId])
    /\ UNCHANGED <<stored, holder, stamp, tabs, views, stream, unheard, cut, whole>>

LEMMA HelloKeeps ==
    ASSUME LiveInv, NEW t \in Tabs, NEW s \in Tabs, Answers(t, s)
    PROVE  LiveInv'
<1>0. /\ t = holder /\ inbox[t][s] # <<>>
      /\ UNCHANGED <<stored, holder, stamp, tabs, views, stream, unheard, cut, whole>>
    BY DEF Answers
<1>1. holder # Nobody /\ tabs[t].epoch = stamp /\ stamp > 0 /\ s # t
    BY <1>0, LiveAssumption DEF LiveInv, Led
<1>2. PICK event \in EventUpTo(stored, stamp) :
        /\ event = [type |-> "state", epoch |-> tabs[t].epoch,
                    sequence |-> tabs[t].sequence, lastEventId |-> tabs[t].lastEventId]
        /\ event.type = "state" /\ event.sequence = tabs[t].sequence
    <2>1. /\ stored \in Nat /\ stamp \in Nat /\ tabs[t].epoch \in 1 .. stamp
          /\ tabs[t].sequence \in Nat /\ tabs[t].lastEventId \in 0 .. stored
        BY <1>1, Typed DEF Client
    <2>2. [type |-> "state", epoch |-> tabs[t].epoch, sequence |-> tabs[t].sequence,
           lastEventId |-> tabs[t].lastEventId] \in EventUpTo(stored, stamp)
        BY <2>1, EventTypes
    <2> QED
        BY <2>2
<1>3. PICK q \in Seq(EventUpTo(stored, stamp)) : q = inbox[t][s] /\ q # <<>>
    BY <1>0, Typed
<1>4. PICK p \in Seq(EventUpTo(stored, stamp)) : p = Tail(q)
    BY <1>3, TailAt
<1>5. PICK rest : rest = [inbox EXCEPT ![t][s] = Tail(@)]
    BY Zenon
<1>6. /\ rest \in Boxes(EventUpTo(stored, stamp))
      /\ rest[t][s] = p
      /\ \A r, x \in Tabs : r # t \/ x # s => rest[r][x] = inbox[r][x]
    BY <1>3, <1>4, <1>5 DEF LiveInv, Types, Boxes
<1>7. inbox' = Posted(rest, t, event)
    BY <1>2, <1>5 DEF Answers
<1>8. /\ inbox' \in Boxes(EventUpTo(stored, stamp))
      /\ \A r, x \in Tabs :
            /\ x # t \/ r = t => inbox'[r][x] = rest[r][x]
            /\ \/ inbox'[r][x] = rest[r][x]
               \/ inbox'[r][x] = Append(rest[r][x], event)
    <2>1. /\ Posted(rest, t, event) \in Boxes(EventUpTo(stored, stamp))
          /\ \A r, x \in Tabs :
                /\ x = t /\ r # t /\ tabs[r].running => Posted(rest, t, event)[r][x] = Append(rest[r][x], event)
                /\ ~(x = t /\ r # t /\ tabs[r].running) => Posted(rest, t, event)[r][x] = rest[r][x]
        BY <1>2, <1>6, PostedAt
    <2> QED
        BY <1>7, <2>1
<1>9. Types'
    BY <1>0, <1>8 DEF LiveInv, Types, Boxes
<1>10. \A r \in Tabs : inbox'[r][r] = <<>>
    BY <1>1, <1>6, <1>8 DEF LiveInv, Led
<1>11. Led'
    BY <1>0, <1>10 DEF LiveInv, Led
<1>12. Senders'
    <2> SUFFICES ASSUME holder # Nobody, NEW r \in Tabs, NEW x \in Tabs \ {holder},
                        NEW i \in DOMAIN inbox'[r][x]
                 PROVE  ~Of(inbox'[r][x][i], stamp)
        BY <1>0 DEF Senders
    <2>1. inbox'[r][x] = rest[r][x]
        BY <1>0, <1>8
    <2>2. \E j \in DOMAIN inbox[r][x] : inbox'[r][x][i] = inbox[r][x][j]
        <3>1. CASE r = t /\ x = s
            <4>1. inbox'[r][x] = p /\ inbox[r][x] = q
                BY <1>3, <1>6, <2>1, <3>1
            <4>2. i \in DOMAIN p /\ p[i] = q[i + 1] /\ i + 1 \in DOMAIN q
                BY <1>3, <1>4, <4>1, TailAt
            <4> QED
                BY <4>1, <4>2
        <3>2. CASE r # t \/ x # s
            BY <1>6, <2>1, <3>2
        <3> QED
            BY <3>1, <3>2
    <2> QED
        BY <2>2 DEF LiveInv, Senders
<1>13. Ordered'
    <2> SUFFICES ASSUME NEW r \in Tabs \ {t}
                 PROVE  Numbered(inbox'[r][t], tabs[r], tabs[t].sequence, stamp)
        BY <1>0 DEF Ordered
    <2>1. PICK o \in Seq(EventUpTo(stored, stamp)) : o = inbox[r][t]
        BY <1>1, Typed
    <2>2. /\ Numbered(o, tabs[r], tabs[t].sequence, stamp)
          /\ tabs[t].sequence \in Nat /\ tabs[r].sequence \in Nat /\ stamp \in Nat
        BY <1>0, <1>1, <2>1, Typed DEF LiveInv, Ordered, Client
    <2>3. \A i \in DOMAIN o : Of(o[i], stamp) => o[i].sequence \in Nat
        <3>1. \A x \in EventUpTo(stored, stamp) : Of(x, stamp) => x.sequence \in Nat
            BY DEF EventUpTo, Of
        <3> QED
            BY <3>1
    <2>4. event.type \notin Data
        BY <1>2 DEF Data
    <2>5. Numbered(Append(o, event), tabs[r], tabs[t].sequence, stamp)
        BY <1>2, <2>2, <2>3, <2>4, OrderAppends
    <2> QED
        BY <1>1, <1>6, <1>8, <2>1, <2>2, <2>5
<1>14. SingleLoad' /\ Gaps'
    BY <1>0 DEF LiveInv, SingleLoad, Gaps
<1>15. Healed'
    <2> SUFFICES ASSUME stream.phase = "open", NEW r \in Tabs, whole[r]
                 PROVE  Heals(views[r], inbox'[r][t], stream.wire, stored, stamp)
        BY <1>0 DEF Healed
    <2>1. Heals(views[r], inbox[r][t], stream.wire, stored, stamp)
        BY <1>0 DEF LiveInv, Healed
    <2>2. PICK o \in Seq(EventUpTo(stored, stamp)) : o = inbox[r][t]
        BY <1>1, Typed
    <2>3. Heals(views[r], Append(o, event), stream.wire, stored, stamp)
        BY <2>1, <2>2, HealsMore
    <2>4. r = t => inbox'[r][t] = inbox[r][t]
        BY <1>10 DEF LiveInv, Led
    <2> QED
        BY <1>1, <1>6, <1>8, <2>1, <2>2, <2>3, <2>4
<1> QED
    BY <1>9, <1>11, <1>12, <1>13, <1>14, <1>15 DEF LiveInv

(* A follower takes every event of the newest epoch, the leader none.      *)
LEMMA Accepts ==
    ASSUME LiveInv, NEW t \in Tabs, NEW s \in Tabs, inbox[t][s] # <<>>
    PROVE  /\ Head(inbox[t][s]) \in EventUpTo(stored, stamp)
           /\ Head(inbox[t][s]).type # "hello" =>
                /\ t = holder => ~AcceptsEpoch(t, Head(inbox[t][s])) /\ ~AcceptsData(t, Head(inbox[t][s]))
                /\ s = holder /\ Of(Head(inbox[t][s]), stamp) /\ Head(inbox[t][s]).type \in Data
                        /\ holder # Nobody
                        => AcceptsData(t, Head(inbox[t][s]))
<1>1. PICK q \in Seq(EventUpTo(stored, stamp)) : q = inbox[t][s] /\ q # <<>>
    BY Typed
<1>2. PICK event \in EventUpTo(stored, stamp) : event = Head(q) /\ event = q[1] /\ 1 \in DOMAIN q
    BY <1>1, TailAt
<1>3. s # t
    BY <1>1 DEF LiveInv, Led
<1>4. event.type # "hello" => event.epoch \in 1 .. stamp /\ event.sequence \in Nat
    BY <1>2 DEF EventUpTo
<1>5. stamp \in Nat /\ tabs[t].epoch \in 0 .. stamp /\ tabs[t].sequence \in Nat
    BY Typed DEF Client
<1>6. ASSUME event.type # "hello", t = holder
      PROVE  ~AcceptsEpoch(t, event) /\ ~AcceptsData(t, event)
    <2>1. holder # Nobody /\ s # holder /\ tabs[t].epoch = stamp /\ stamp > 0
        BY <1>3, <1>6, LiveAssumption DEF LiveInv, Led
    <2>2. event.epoch # stamp
        BY <1>1, <1>2, <1>6, <2>1 DEF LiveInv, Senders, Of
    <2> QED
        BY <1>4, <1>5, <1>6, <2>1, <2>2 DEF AcceptsEpoch, AcceptsData
<1>7. ASSUME event.type \in Data, s = holder, Of(event, stamp), holder # Nobody
      PROVE  AcceptsData(t, event)
    <2>1. Numbered(q, tabs[t], tabs[holder].sequence, stamp) /\ t # holder
        BY <1>1, <1>3, <1>7 DEF LiveInv, Ordered
    <2>2. 0 < event.sequence /\ (tabs[t].epoch = stamp => tabs[t].sequence < event.sequence)
        BY <1>2, <1>7, <2>1 DEF Numbered
    <2>3. tabs[t].epoch = 0 => tabs[t].sequence = 0
        BY DEF LiveInv, Led
    <2>4. event.epoch = stamp
        BY <1>7 DEF Of
    <2> QED
        BY <1>5, <2>1, <2>2, <2>3, <2>4 DEF AcceptsData
<1> QED
    BY <1>1, <1>2, <1>6, <1>7

LEMMA AcceptedType ==
    ASSUME NEW n \in Nat, NEW e \in Nat, NEW c \in Client(n, e), NEW event \in EventUpTo(n, e),
           event.type # "hello"
    PROVE  /\ EpochAccepted(c, event) \in Client(n, e)
           /\ EpochAccepted(c, event).running = c.running
           /\ EpochAccepted(c, event).epoch = event.epoch /\ event.epoch # 0
           /\ EpochAccepted(c, event).sequence = event.sequence
<1>1. event.epoch \in 1 .. e /\ event.sequence \in Nat /\ event.lastEventId \in 0 .. n
    BY DEF EventUpTo
<1>2. event.epoch \in 0 .. e /\ event.epoch # 0
    BY <1>1
<1>3. NewestId(c, event) \in 0 .. n
    BY <1>1 DEF NewestId, Client
<1> QED
    BY <1>1, <1>2, <1>3 DEF EpochAccepted, Client

(* What a delivered event makes of a list.                                 *)
LEMMA DeliveredTo ==
    ASSUME NEW n \in Nat, NEW e \in Nat, NEW event \in EventUpTo(n, e), event.type \in Data,
           NEW t \in Tabs, views[t] \in View(n), whole[t] \in BOOLEAN,
           whole[t] => Single(views[t])
    PROVE  /\ Delivered(views[t], event) \in View(n)
           /\ WholeAfter(t, event) \in BOOLEAN
           /\ WholeAfter(t, event) =>
                /\ Single(Delivered(views[t], event))
                /\ \/ \A m \in 1 .. n : Has(Delivered(views[t], event), m)
                   \/ /\ whole[t]
                      /\ \A m \in 1 .. n : Has(views[t], m) => Has(Delivered(views[t], event), m)
                      /\ event.type # "open"
                      /\ event.type = "message" => Has(Delivered(views[t], event), event.message)
<1>1. CASE event.type = "open"
    <2>1. event.reconnecting \in BOOLEAN
        BY <1>1 DEF EventUpTo
    <2>2. Delivered(views[t], event) = IF event.reconnecting THEN Loading(views[t]) ELSE views[t]
        BY <1>1 DEF Delivered, Reopened
    <2>3. WholeAfter(t, event) = (event.reconnecting /\ views[t].loads = <<>>)
        BY <1>1 DEF WholeAfter
    <2>4. /\ Loading(views[t]) \in View(n)
          /\ views[t].loads = <<>> => Single(Loading(views[t])) /\ \A m : Has(Loading(views[t]), m)
        BY LoadingType
    <2> QED
        BY <2>1, <2>2, <2>3, <2>4
<1>2. CASE event.type = "message"
    <2>1. event.message \in 1 .. n
        BY <1>2 DEF EventUpTo
    <2>2. Delivered(views[t], event) = Received(views[t], event.message) /\ WholeAfter(t, event) = whole[t]
        BY <1>2 DEF Delivered, WholeAfter
    <2>3. Received(views[t], event.message) \in View(n)
        BY <2>1, ReceivedType
    <2>4. whole[t] =>
            /\ Has(Received(views[t], event.message), event.message)
            /\ Single(Received(views[t], event.message))
            /\ \A k : Has(views[t], k) => Has(Received(views[t], event.message), k)
        BY HasReceived
    <2> QED
        BY <1>2, <2>2, <2>3, <2>4
<1>3. CASE event.type = "error"
    <2>1. Delivered(views[t], event) = views[t] /\ WholeAfter(t, event) = whole[t]
        BY <1>3 DEF Delivered, WholeAfter
    <2> QED
        BY <1>3, <2>1
<1> QED
    BY <1>1, <1>2, <1>3 DEF Data

(* What a tab does with its inbox.                                         *)
LEMMA ReceiveKeeps ==
    ASSUME LiveInv, NEW t \in Tabs, NEW s \in Tabs, Receive(t, s)
    PROVE  LiveInv'
<1>1. /\ tabs[t].running /\ inbox[t][s] # <<>>
      /\ UNCHANGED <<stored, holder, stamp, stream, turns, unheard, cut>>
    BY DEF Receive, Running
<1>2. PICK event \in EventUpTo(stored, stamp) : event = Head(inbox[t][s])
    BY <1>1, Accepts
<1>3. /\ stored \in Nat /\ stamp \in Nat
      /\ tabs[t] \in Client(stored, stamp) /\ views[t] \in View(stored) /\ whole[t] \in BOOLEAN
    BY Typed DEF LiveInv, Types
<1>4. /\ tabs = [tabs EXCEPT ![t] = tabs[t]]
      /\ views = [views EXCEPT ![t] = views[t]]
      /\ whole = [whole EXCEPT ![t] = whole[t]]
    BY DEF LiveInv, Types
<1>5. /\ whole[t] => Single(views[t])
      /\ tabs[t].epoch = 0 => tabs[t].sequence = 0
    BY DEF LiveInv, SingleLoad, Led
<1>6. event.type # "hello" =>
        /\ EpochAccepted(tabs[t], event) \in Client(stored, stamp)
        /\ EpochAccepted(tabs[t], event).running
        /\ EpochAccepted(tabs[t], event).epoch # 0
        /\ EpochAccepted(tabs[t], event).epoch = stamp =>
              Of(event, stamp) /\ EpochAccepted(tabs[t], event).sequence = event.sequence
    <2>1. PICK c \in Client(stored, stamp) : c = tabs[t] /\ c.running
        BY <1>1, <1>3
    <2>2. ASSUME event.type # "hello"
          PROVE  /\ EpochAccepted(c, event) \in Client(stored, stamp)
                 /\ EpochAccepted(c, event).running = c.running
                 /\ EpochAccepted(c, event).epoch = event.epoch /\ event.epoch # 0
                 /\ EpochAccepted(c, event).sequence = event.sequence
        BY <1>2, <1>3, <2>2, AcceptedType
    <2> QED
        BY <2>1, <2>2 DEF Of
<1>7. event.type # "hello" =>
        /\ t = holder => ~AcceptsEpoch(t, event) /\ ~AcceptsData(t, event)
        /\ s = holder /\ Of(event, stamp) /\ event.type \in Data /\ holder # Nobody
              => AcceptsData(t, event)
    BY <1>1, <1>2, Accepts
<1>8. CASE event.type = "hello" /\ t = holder
    <2>1. Answers(t, s)
        BY <1>1, <1>2, <1>8 DEF Receive, Answers
    <2> QED
        BY <2>1, HelloKeeps
<1>9. CASE event.type = "hello" /\ t # holder
    <2>1. inbox' = [inbox EXCEPT ![t][s] = Tail(@)] /\ UNCHANGED <<tabs, views, whole>>
        BY <1>2, <1>9 DEF Receive
    <2>2. ~Of(event, stamp)
        BY <1>9 DEF Of
    <2> QED
        BY <1>1, <1>2, <1>3, <1>4, <1>5, <1>9, <2>1, <2>2, TakeStep
<1>10. CASE event.type \in {"leader", "state"}
    <2>1. /\ inbox' = [inbox EXCEPT ![t][s] = Tail(@)] /\ UNCHANGED <<views, whole>>
          /\ tabs' = IF AcceptsEpoch(t, event) THEN [tabs EXCEPT ![t] = EpochAccepted(@, event)] ELSE tabs
        BY <1>2, <1>10 DEF Receive
    <2>2. event.type \notin {"open", "message"}
        BY <1>10
    <2>3. CASE AcceptsEpoch(t, event)
        <3>1. PICK d \in Client(stored, stamp) :
                /\ d = EpochAccepted(tabs[t], event)
                /\ d.running /\ d.epoch # 0 /\ t # holder
                /\ d.epoch = stamp => Of(event, stamp) /\ d.sequence = event.sequence
            BY <1>6, <1>7, <1>10, <2>3
        <3>2. tabs' = [tabs EXCEPT ![t] = d]
            BY <2>1, <2>3, <3>1
        <3>3. views' = [views EXCEPT ![t] = views[t]] /\ whole' = [whole EXCEPT ![t] = whole[t]]
            BY <1>4, <2>1
        <3> QED
            BY <1>1, <1>2, <1>3, <1>5, <2>1, <2>2, <3>1, <3>2, <3>3, TakeStep
    <2>4. CASE ~AcceptsEpoch(t, event)
        <3>1. tabs' = [tabs EXCEPT ![t] = tabs[t]]
            BY <1>4, <2>1, <2>4
        <3>2. views' = [views EXCEPT ![t] = views[t]] /\ whole' = [whole EXCEPT ![t] = whole[t]]
            BY <1>4, <2>1
        <3> QED
            BY <1>1, <1>2, <1>3, <1>5, <2>1, <2>2, <3>1, <3>2, TakeStep
    <2> QED
        BY <2>3, <2>4
<1>11. CASE event.type \in Data
    <2>1. inbox' = [inbox EXCEPT ![t][s] = Tail(@)]
        BY <1>2, <1>11 DEF Receive, Data
    <2>2. CASE ~AcceptsData(t, event)
        <3>1. UNCHANGED <<tabs, views, whole>>
            BY <1>2, <1>11, <2>2 DEF Receive, Data
        <3>2. ~(s = holder /\ Of(event, stamp))
            <4>1. holder # Nobody \/ s # holder
                BY LiveAssumption
            <4> QED
                BY <1>7, <1>11, <2>2, <4>1 DEF Data
        <3> QED
            BY <1>1, <1>2, <1>3, <1>4, <1>5, <2>1, <3>1, <3>2, TakeStep
    <2>3. CASE AcceptsData(t, event)
        <3>1. /\ tabs' = [tabs EXCEPT ![t] = EpochAccepted(tabs[t], event)]
              /\ views' = [views EXCEPT ![t] = Delivered(views[t], event)]
              /\ whole' = [whole EXCEPT ![t] = WholeAfter(t, event)]
            BY <1>2, <1>11, <2>3 DEF Receive, Data
        <3>2. PICK d \in Client(stored, stamp) :
                /\ d = EpochAccepted(tabs[t], event)
                /\ d.running /\ d.epoch # 0 /\ t # holder
                /\ d.epoch = stamp => Of(event, stamp) /\ d.sequence = event.sequence
            BY <1>6, <1>7, <1>11, <2>3 DEF Data
        <3>3. tabs' = [tabs EXCEPT ![t] = d]
            BY <3>1, <3>2
        <3>4. PICK u \in View(stored), b \in BOOLEAN :
                /\ u = Delivered(views[t], event) /\ b = WholeAfter(t, event)
                /\ b => Single(u)
                /\ b => \/ \A m \in 1 .. stored : Has(u, m)
                        \/ /\ whole[t]
                           /\ \A m \in 1 .. stored : Has(views[t], m) => Has(u, m)
                           /\ event.type # "open"
                           /\ event.type = "message" => Has(u, event.message)
            BY <1>2, <1>3, <1>5, <1>11, DeliveredTo
        <3>5. /\ views' = [views EXCEPT ![t] = u] /\ whole' = [whole EXCEPT ![t] = b]
            BY <3>1, <3>4
        <3> QED
            BY <1>1, <1>2, <2>1, <3>2, <3>3, <3>4, <3>5, TakeStep
    <2> QED
        BY <2>2, <2>3
<1> QED
    BY <1>2, <1>8, <1>9, <1>10, <1>11 DEF EventUpTo, Data

LEMMA LiveStep ==
    ASSUME LiveInv, [LiveNext]_liveVars
    PROVE  LiveInv'
<1>1. CASE UNCHANGED liveVars
    BY <1>1 DEF liveVars, LiveInv, Types, Led, Senders, Ordered, SingleLoad, Healed, Gaps
<1>2. CASE Publish \/ HubReads \/ Opened \/ Frame \/ Drop \/ CutFrame
    BY <1>2, PublishKeeps, HubReadsKeeps, OpenedKeeps, FrameKeeps, DropKeeps, CutFrameKeeps
<1>3. ASSUME NEW t \in Tabs, OpenPage(t) \/ ClosePage(t) \/ Lead(t) \/ Reload(t)
      PROVE  LiveInv'
    BY <1>3, OpenPageKeeps, ClosePageKeeps, LeadKeeps, ReloadKeeps
<1>4. ASSUME NEW t \in Tabs, NEW s \in Tabs, Receive(t, s)
      PROVE  LiveInv'
    BY <1>4, ReceiveKeeps
<1>5. ASSUME NEW t \in Tabs, NEW i \in DOMAIN views[t].loads,
             ListRead(t, i) \/ ListAnswered(t, i) \/ ListFails(t, i)
      PROVE  LiveInv'
    BY <1>5, ListReadKeeps, ListAnsweredKeeps, ListFailsKeeps
<1> QED
    BY <1>1, <1>2, <1>3, <1>4, <1>5 DEF LiveNext

LEMMA LiveAlways == LiveSpec => []LiveInv
<1>1. LiveInit => LiveInv
    BY LiveInitially
<1>2. LiveInv /\ [LiveNext]_liveVars => LiveInv'
    BY LiveStep
<1> QED
    BY <1>1, <1>2, PTL DEF LiveSpec

-----------------------------------------------------------------------------
(* What the invariant says of the stream.                                  *)

(* The state is well typed, and only an open tab, with the newest epoch,   *)
(* has a connection: the holder of the browser's lock.                     *)
THEOREM LiveTypeCorrect == LiveSpec => []LiveTypeOK
<1>1. ASSUME LiveInv
      PROVE  LiveTypeOK
    <2>1. /\ stored \in IdOrZero /\ stored \in Nat /\ stamp \in Nat
          /\ 0 .. stored \subseteq IdOrZero /\ 1 .. stored \subseteq Messages
          /\ 1 .. stamp \subseteq Nat
        BY <1>1, Typed, LiveAssumption DEF LiveInv, Types, IdOrZero, Messages
    <2>2. EventUpTo(stored, stamp) \subseteq Event
        BY <2>1 DEF EventUpTo, Event
    <2>3. \A t, s \in Tabs : inbox[t][s] \in Seq(Event)
        BY <1>1, <2>2, Typed, SeqGrows
    <2>4. ASSUME NEW t \in Tabs
          PROVE  /\ views[t].ready \in BOOLEAN
                 /\ views[t].buffered \union views[t].shown \subseteq 1 .. stored
                 /\ views[t].loads \in Seq({Unread} \union 0 .. stored)
        BY <1>1, Typed DEF View
    <2>5. holder \in Running \union {Nobody}
        BY <1>1 DEF LiveInv, Types, Led, Running
    <2>6. tabs \in [Tabs -> [running : BOOLEAN, epoch : 0 .. stamp, sequence : Nat,
                            lastEventId : 0 .. stored]]
        BY <1>1 DEF LiveInv, Types, Client
    <2>7. /\ stream.phase \in {"none", "asking", "opening", "open"}
          /\ stream.wire \in Seq(1 .. stored) /\ stream.lastId \in 0 .. stored
          /\ unheard \union cut \subseteq 1 .. stored /\ whole \in [Tabs -> BOOLEAN]
        BY <1>1 DEF LiveInv, Types, Link
    <2>8. (holder = Nobody <=> stream.phase = "none") /\ (holder # Nobody => tabs[holder].epoch = stamp)
        BY <1>1 DEF LiveInv, Led
    <2> QED
        BY <2>1, <2>3, <2>4, <2>5, <2>6, <2>7, <2>8 DEF LiveTypeOK
<1> QED
    BY <1>1, LiveAlways, PTL

(* A tab that was told of a reconnection, and has loaded its list since    *)
(* without another load in between, shows every message of the hub when    *)
(* all is quiet, whatever was published, lost or led meanwhile.            *)
THEOREM RecoveryAlwaysHeals == LiveSpec => []RecoveryHeals
<1>1. ASSUME LiveInv
      PROVE  RecoveryHeals
    <2> SUFFICES ASSUME NEW t \in Tabs, Quiet(t), whole[t]
                 PROVE  views[t].shown = 1 .. stored
        BY DEF RecoveryHeals
    <2>1. holder \in Tabs
        BY <1>1, Typed DEF Quiet, LiveInv, Led
    <2>2. Heals(views[t], inbox[t][holder], stream.wire, stored, stamp)
        BY <1>1 DEF LiveInv, Healed, Quiet
    <2>3. /\ inbox[t][holder] = <<>> /\ stream.wire = <<>>
          /\ views[t].ready /\ views[t].loads = <<>>
        BY <2>1 DEF Quiet
    <2>4. \A m \in 1 .. stored : Has(views[t], m)
        BY <2>2, <2>3 DEF Heals, Reopens, Comes
    <2>5. \A m \in 1 .. stored : m \in views[t].shown
        BY <2>3, <2>4 DEF Has
    <2>6. views[t].shown \subseteq 1 .. stored
        BY <1>1, Typed DEF View
    <2> QED
        BY <2>5, <2>6
<1> QED
    BY <1>1, LiveAlways, PTL

(* Last-Event-ID of a leader passes no message but those that were counted *)
(* as unheard, published while the hub was opening a stream or outside     *)
(* what the replay of a request brought, and those whose frame was cut     *)
(* off, in which the id comes before the data.                             *)
THEOREM ReplayAlwaysCovers == LiveSpec => ReplayCoversDisconnection
<1>1. ASSUME LiveInv, [LiveNext]_liveVars, holder' = holder, holder # Nobody
      PROVE  tabs[holder].lastEventId + 1 .. tabs'[holder].lastEventId - 1 \subseteq unheard \union cut
    <2>1. holder \in Tabs /\ tabs[holder].lastEventId \in Nat /\ tabs \in [Tabs -> Client(stored, stamp)]
        BY <1>1, Typed DEF Client, LiveInv, Types
    <2> SUFFICES tabs'[holder].lastEventId = tabs[holder].lastEventId
                 \/ tabs[holder].lastEventId + 1 .. tabs'[holder].lastEventId - 1 \subseteq unheard \union cut
        BY <2>1
    <2>2. CASE UNCHANGED liveVars \/ Publish \/ HubReads
        BY <2>2 DEF liveVars, Publish, HubReads
    <2>3. CASE Opened \/ Drop \/ CutFrame
        BY <2>1, <2>3 DEF Opened, Drop, CutFrame, Publishes, OpenEvent, ErrorEvent, Client
    <2>4. CASE Frame
        <3>1. PICK w \in Seq(1 .. stored) : w = stream.wire /\ w # <<>>
            BY <1>1, <2>4, Typed DEF Frame
        <3>2. PICK id \in 0 .. stored : id = tabs[holder].lastEventId
            BY <1>1, <2>1, Typed DEF Client
        <3>3. PICK read \in 0 .. stored : read = stream.lastId
            BY <1>1, Typed
        <3>6. stream.phase = "open"
            BY <2>4 DEF Frame
        <3>7. Skips(w, read, stored, unheard) /\ id + 1 .. read \subseteq unheard \union cut
            BY <1>1, <3>1, <3>2, <3>3, <3>6 DEF LiveInv, Gaps
        <3>8. read + 1 .. Head(w) - 1 \subseteq unheard /\ Head(w) \in Nat
            BY <1>1, <3>1, <3>7, Typed, SkipsTaken, TailAt
        <3>4. id + 1 .. Head(w) - 1 \subseteq unheard \union cut
            <4> SUFFICES ASSUME NEW k \in id + 1 .. Head(w) - 1
                         PROVE  k \in unheard \union cut
                OBVIOUS
            <4>1. k \in id + 1 .. read \/ k \in read + 1 .. Head(w) - 1
                BY <3>8
            <4> QED
                BY <3>7, <3>8, <4>1
        <3>5. tabs'[holder].lastEventId = Head(w)
            BY <2>1, <2>4, <3>1 DEF Frame, Publishes, MessageEvent, Client
        <3> QED
            BY <3>2, <3>4, <3>5
    <2>5. ASSUME NEW t \in Tabs, OpenPage(t) \/ ClosePage(t) \/ Lead(t) \/ Reload(t)
          PROVE  tabs'[holder] = tabs[holder]
        <3>1. CASE OpenPage(t)
            BY <1>1, <2>1, <3>1 DEF OpenPage, LiveInv, Led, Running
        <3>2. CASE ClosePage(t)
            BY <1>1, <2>1, <3>2 DEF ClosePage
        <3>3. CASE Lead(t) \/ Reload(t)
            BY <1>1, <3>3 DEF Lead, Reload
        <3> QED
            BY <2>5, <3>1, <3>2, <3>3
    <2>6. ASSUME NEW t \in Tabs, NEW s \in Tabs, Receive(t, s)
          PROVE  tabs'[holder] = tabs[holder]
        <3>1. CASE t # holder
            BY <2>1, <2>6, <3>1 DEF Receive
        <3>2. CASE t = holder
            <4>1. inbox[t][s] # <<>>
                BY <2>6 DEF Receive
            <4>2. Head(inbox[t][s]).type # "hello" =>
                    ~AcceptsEpoch(t, Head(inbox[t][s])) /\ ~AcceptsData(t, Head(inbox[t][s]))
                BY <1>1, <3>2, <4>1, Accepts
            <4> QED
                BY <2>6, <4>2 DEF Receive
        <3> QED
            BY <3>1, <3>2
    <2>7. ASSUME NEW t \in Tabs, NEW i \in DOMAIN views[t].loads,
                 ListRead(t, i) \/ ListAnswered(t, i) \/ ListFails(t, i)
          PROVE  tabs'[holder] = tabs[holder]
        BY <2>7 DEF ListRead, ListAnswered, ListFails
    <2> QED
        BY <1>1, <2>2, <2>3, <2>4, <2>5, <2>6, <2>7 DEF LiveNext
<1>2. LiveInv /\ [LiveNext]_liveVars =>
        [holder' = holder /\ holder # Nobody =>
            tabs[holder].lastEventId + 1 .. tabs'[holder].lastEventId - 1 \subseteq unheard \union cut]_liveVars
    BY <1>1
<1> QED
    BY <1>2, LiveAlways, PTL DEF LiveSpec, ReplayCoversDisconnection

=============================================================================
