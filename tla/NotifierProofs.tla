-------------------------- MODULE NotifierProofs ---------------------------
(***************************************************************************)
(* Theorems about the message store and about the notifier over it, for    *)
(* any participants, channels and bounds.  The first part is the store's   *)
(* (MailboxSpec).  Its inductive invariant adds to the checked properties  *)
(* that an id is never greater than the last one given out, which makes    *)
(* the id of a new message larger than every watermark, and that the       *)
(* model's watermarks of a membership that does not exist are 0; its last  *)
(* theorem is the refinement of Inbox.  The second part is the notifier's  *)
(* (NotifierSpec): its invariant adds what the rows and the prompt that a  *)
(* pass holds over its awaits still mean after the requests in between.    *)
(***************************************************************************)
EXTENDS Notifier, RoutesProofs, FiniteSetTheorems, TLAPS

IdsGivenOut == \A c \in Channels : \A i \in DOMAIN log[c] : log[c][i].id \in 1..lastId

NoRowNoMarks ==
    \A pc \in Memberships \ member : cursor[pc] = 0 /\ notified[pc] = 0

MailboxInv ==
    /\ MailboxTypeOK
    /\ IdsGivenOut
    /\ NoRowNoMarks
    /\ RowsAgree
    /\ DeletedLeavesNothing

(* A log's high-water mark is the id of one of its messages, or 0.         *)
LEMMA HighWaterInLog ==
    ASSUME MailboxTypeOK, NEW c \in Channels
    PROVE  HighWater(c) \in Ids(c) \union {0} /\ HighWater(c) \in Nat
<1>1. log[c] \in Seq(Message)
    BY DEF MailboxTypeOK
<1>2. CASE log[c] = <<>>
    BY <1>2 DEF HighWater
<1>3. CASE log[c] # <<>>
    <2>1. Len(log[c]) \in DOMAIN log[c]
        BY <1>1, <1>3
    <2>2. log[c][Len(log[c])] \in Message
        BY <1>1, <2>1
    <2> QED
        BY <1>3, <2>1, <2>2 DEF HighWater, Ids, Message
<1> QED
    BY <1>2, <1>3

LEMMA IdsAreNat ==
    ASSUME MailboxTypeOK, NEW c \in Channels
    PROVE  Ids(c) \subseteq Nat
<1>1. log[c] \in Seq(Message)
    BY DEF MailboxTypeOK
<1>2. \A i \in DOMAIN log[c] : log[c][i] \in Message
    BY <1>1
<1> QED
    BY <1>2 DEF Ids, Message

(* A nonempty set of naturals with an upper bound has a greatest element:  *)
(* the one above which fewest others stand.                                *)
LEMMA GreatestExists ==
    ASSUME NEW S, NEW n \in Nat, S \subseteq 0..n, S # {}
    PROVE  Newest(S) \in S /\ \A other \in S : other <= Newest(S)
<1> DEFINE Above(id) == {other \in S : other > id}
           Aboves    == {Above(id) : id \in S}
<1>1. IsFiniteSet(S)
    <2>1. IsFiniteSet(0..n)
        BY FS_Interval
    <2> QED
        BY <2>1, FS_Subset
<1>2. PICK A \in Aboves : \A B \in Aboves : <<B, A>> \notin StrictSubsetOrdering(S)
    <2>1. IsWellFoundedOn(StrictSubsetOrdering(S), FiniteSubsetsOf(S))
        BY FS_StrictSubsetOrderingWellFounded
    <2>2. FiniteSubsetsOf(S) = SUBSET S
        BY <1>1, FS_FiniteSubsetsOfFinite
    <2>3. Aboves \subseteq SUBSET S /\ Aboves # {}
        OBVIOUS
    <2> HIDE DEF Aboves
    <2> QED
        BY <2>1, <2>2, <2>3, WFMin
<1>3. PICK id \in S : A = Above(id)
    OBVIOUS
<1>4. ASSUME NEW other \in S
      PROVE  other <= id
    <2>1. CASE other > id
        <3>1. \A e \in S : e \in Int
            OBVIOUS
        <3>2. ASSUME NEW e \in Above(other)
              PROVE  e \in Above(id)
            <4>1. e \in S /\ e > other /\ e \in Int /\ other \in Int /\ id \in Int
                BY <3>1
            <4> QED
                BY <2>1, <4>1
        <3>3. other \in Above(id) /\ other \notin Above(other)
            BY <2>1, <3>1
        <3>4. <<Above(other), Above(id)>> \in StrictSubsetOrdering(S)
            BY <3>2, <3>3 DEF StrictSubsetOrdering
        <3> QED
            BY <1>2, <1>3, <3>4
    <2> QED
        BY <2>1
<1> QED
    BY <1>4 DEF Newest

(* What fetch returns ends at the greatest id of the unread messages.      *)
LEMMA FetchCovers ==
    ASSUME MailboxInv, NEW p \in Participants, NEW c \in Channels, Unread(p, c) # {}
    PROVE  /\ Newest(Unread(p, c)) \in Unread(p, c)
           /\ \A id \in Unread(p, c) : id <= Newest(Unread(p, c))
<1>1. Unread(p, c) \subseteq 0..lastId /\ lastId \in Nat
    BY DEF MailboxInv, MailboxTypeOK, IdsGivenOut, Unread, OthersIds
<1> QED
    BY <1>1, GreatestExists

LEMMA InitInv == MailboxInit => MailboxInv
BY DEF MailboxInit, MailboxInv, MailboxTypeOK, IdsGivenOut, RowsAgree, LogOrdered,
       WatermarksInChannel, DeletedLeavesNothing, NoRowNoMarks, Memberships

-----------------------------------------------------------------------------
(* The three ways in which transactions change memberships and logs.       *)

(* Ending memberships disturbs no other membership.                        *)
LEMMA EndKeeps ==
    ASSUME MailboxInv, NEW D, EndMemberships(D), log' = log
    PROVE  /\ member' \subseteq Memberships
           /\ cursor' \in [Memberships -> Nat]
           /\ notified' \in [Memberships -> Nat]
           /\ WatermarksInChannel'
           /\ NoRowNoMarks'
           /\ \A pc \in D : pc \notin member'
           /\ \A pc \in D \intersect Memberships : cursor'[pc] = 0 /\ notified'[pc] = 0
           /\ \A pc \in Memberships :
                  (pc \notin member /\ cursor[pc] = 0 /\ notified[pc] = 0) =>
                  (pc \notin member' /\ cursor'[pc] = 0 /\ notified'[pc] = 0)
<1>1. \A c \in Channels : Ids(c)' = Ids(c)
    BY DEF Ids
<1> QED
    BY <1>1 DEF MailboxInv, MailboxTypeOK, RowsAgree, WatermarksInChannel, EndMemberships,
                NoRowNoMarks, Memberships

(* A new membership starts at an id of its channel, or at 0.               *)
LEMMA StartKeeps ==
    ASSUME MailboxInv, NEW c \in Channels, NEW J \in SUBSET Participants
    PROVE  /\ Joined(cursor, J, c) \in [Memberships -> Nat]
           /\ Joined(notified, J, c) \in [Memberships -> Nat]
           /\ \A pc \in member \union (J \X {c}) :
                  /\ Joined(cursor, J, c)[pc] \in Ids(pc[2]) \union {0}
                  /\ Joined(notified, J, c)[pc] \in Ids(pc[2]) \union {0}
                  /\ Joined(cursor, J, c)[pc] <= Joined(notified, J, c)[pc]
           /\ member \union (J \X {c}) \subseteq Memberships
           /\ \A pc \in Memberships \ (member \union (J \X {c})) :
                  Joined(cursor, J, c)[pc] = 0 /\ Joined(notified, J, c)[pc] = 0
           /\ \A pc \in Memberships : pc[2] # c =>
                  /\ pc \in member \union (J \X {c}) <=> pc \in member
                  /\ Joined(cursor, J, c)[pc] = cursor[pc]
                  /\ Joined(notified, J, c)[pc] = notified[pc]
<1>1. HighWater(c) \in Ids(c) \union {0} /\ HighWater(c) \in Nat
    BY HighWaterInLog DEF MailboxInv
<1> USE DEF Memberships
<1>2. /\ cursor \in [Memberships -> Nat] /\ notified \in [Memberships -> Nat]
      /\ member \subseteq Memberships
    BY DEF MailboxInv, MailboxTypeOK
<1>3. \A pc \in Memberships :
          /\ Joined(cursor, J, c)[pc] =
                IF pc \in (J \X {c}) \ member THEN HighWater(c) ELSE cursor[pc]
          /\ Joined(notified, J, c)[pc] =
                IF pc \in (J \X {c}) \ member THEN HighWater(c) ELSE notified[pc]
    BY DEF Joined
<1>4. /\ Joined(cursor, J, c) \in [Memberships -> Nat]
      /\ Joined(notified, J, c) \in [Memberships -> Nat]
    BY <1>1, <1>2 DEF Joined
<1>5. member \union (J \X {c}) \subseteq Memberships
    BY <1>2
<1>6. ASSUME NEW pc \in member \union (J \X {c})
      PROVE  /\ Joined(cursor, J, c)[pc] \in Ids(pc[2]) \union {0}
             /\ Joined(notified, J, c)[pc] \in Ids(pc[2]) \union {0}
             /\ Joined(cursor, J, c)[pc] <= Joined(notified, J, c)[pc]
    <2>1. pc \in Memberships
        BY <1>5
    <2>2. CASE pc \in member
        BY <1>3, <2>1, <2>2 DEF MailboxInv, RowsAgree, WatermarksInChannel
    <2>3. CASE pc \notin member
        <3>1. pc \in (J \X {c}) \ member /\ pc[2] = c
            BY <2>3
        <3> QED
            BY <1>1, <1>3, <2>1, <3>1
    <2> QED
        BY <2>2, <2>3
<1>7. \A pc \in Memberships : pc[2] # c => pc \notin J \X {c}
    OBVIOUS
<1>8. \A pc \in Memberships \ (member \union (J \X {c})) :
          Joined(cursor, J, c)[pc] = 0 /\ Joined(notified, J, c)[pc] = 0
    BY <1>3 DEF MailboxInv, NoRowNoMarks
<1> QED
    BY <1>3, <1>4, <1>5, <1>6, <1>7, <1>8

(* Memberships and watermarks that a transaction may hand to insertMessage *)
(* for channel c: consistent with the logs, and changed in c only.         *)
Prepared(c, mem, cur, ntf) ==
    /\ mem \in SUBSET Memberships
    /\ cur \in [Memberships -> Nat]
    /\ ntf \in [Memberships -> Nat]
    /\ \A pc \in mem : /\ cur[pc] \in Ids(pc[2]) \union {0}
                       /\ ntf[pc] \in Ids(pc[2]) \union {0}
                       /\ cur[pc] <= ntf[pc]
    /\ \A pc \in Memberships \ mem : cur[pc] = 0 /\ ntf[pc] = 0
    /\ \A pc \in Memberships : pc[2] # c =>
            /\ pc \in mem <=> pc \in member
            /\ cur[pc] = cursor[pc]
            /\ ntf[pc] = notified[pc]

(* An inserted message extends its log, and moves the sender's watermarks  *)
(* to it or leaves them where the transaction had put them.                *)
LEMMA InsertKeeps ==
    ASSUME MailboxInv, NEW p \in Participants, NEW c \in Channels,
           NEW mem, NEW cur, NEW ntf, Prepared(c, mem, cur, ntf),
           status' = [status EXCEPT ![c] = "open"],
           InsertMessage(p, c, mem, cur, ntf)
    PROVE  MailboxInv'
<1> USE DEF Prepared
<1> DEFINE id == lastId + 1
           m  == [id |-> id, from |-> p]
<1>1. /\ lastId \in Nat /\ lastId' = id /\ id \in Nat
      /\ log \in [Channels -> Seq(Message)]
      /\ log' = [log EXCEPT ![c] = Append(log[c], m)]
      /\ m \in Message
    <2>1. lastId \in Nat /\ log \in [Channels -> Seq(Message)]
        BY DEF MailboxInv, MailboxTypeOK
    <2>2. lastId' = id /\ log' = [log EXCEPT ![c] = Append(log[c], m)]
        BY DEF InsertMessage
    <2>3. id \in Nat /\ m \in Message
        BY <2>1 DEF Message
    <2> QED
        BY <2>1, <2>2, <2>3
<1>2. log' \in [Channels -> Seq(Message)]
    BY <1>1
<1>3. \A d \in Channels \ {c} : log'[d] = log[d]
    BY <1>1
<1>4. /\ log'[c] = Append(log[c], m)
      /\ DOMAIN log'[c] = 1..(Len(log[c]) + 1)
      /\ DOMAIN log[c] = 1..Len(log[c])
      /\ Len(log[c]) \in Nat
      /\ \A i \in 1..Len(log[c]) : log'[c][i] = log[c][i]
      /\ log'[c][Len(log[c]) + 1] = m
    BY <1>1
<1>5. Ids(c)' = Ids(c) \union {id}
    <2>1. Ids(c)' \subseteq Ids(c) \union {id}
        BY <1>4 DEF Ids
    <2>2. Ids(c) \subseteq Ids(c)'
        BY <1>4 DEF Ids
    <2>3. id \in Ids(c)'
        BY <1>1, <1>4 DEF Ids
    <2> QED
        BY <2>1, <2>2, <2>3
<1>6. \A d \in Channels \ {c} : Ids(d)' = Ids(d)
    BY <1>3 DEF Ids
<1>7. \A i \in 1..Len(log[c]) : log[c][i].id \in 1..lastId
    BY <1>4 DEF MailboxInv, IdsGivenOut
<1>8. IdsGivenOut'
    <2>1. \A i \in DOMAIN log'[c] : log'[c][i].id \in 1..lastId'
        BY <1>1, <1>4, <1>7
    <2>2. \A d \in Channels \ {c} : \A i \in DOMAIN log'[d] : log'[d][i].id \in 1..lastId'
        BY <1>1, <1>3 DEF MailboxInv, IdsGivenOut
    <2> QED
        BY <2>1, <2>2 DEF IdsGivenOut
<1>9. LogOrdered'
    <2>1. \A i, j \in DOMAIN log'[c] : i < j => log'[c][i].id < log'[c][j].id
        <3> SUFFICES ASSUME NEW i \in DOMAIN log'[c], NEW j \in DOMAIN log'[c], i < j
                     PROVE  log'[c][i].id < log'[c][j].id
            OBVIOUS
        <3>1. i \in 1..Len(log[c])
            BY <1>4
        <3>2. CASE j \in 1..Len(log[c])
            BY <1>4, <3>1, <3>2 DEF MailboxInv, RowsAgree, LogOrdered
        <3>3. CASE j = Len(log[c]) + 1
            BY <1>1, <1>4, <1>7, <3>1, <3>3
        <3> QED
            BY <1>4, <3>2, <3>3
    <2>2. \A d \in Channels \ {c} : \A i, j \in DOMAIN log'[d] :
              i < j => log'[d][i].id < log'[d][j].id
        BY <1>3 DEF MailboxInv, RowsAgree, LogOrdered
    <2> QED
        BY <2>1, <2>2 DEF LogOrdered
<1>10. \/ cursor' = cur /\ notified' = ntf
       \/ <<p, c>> \in mem /\ cursor' = [cur EXCEPT ![<<p, c>>] = id] /\ notified' = [ntf EXCEPT ![<<p, c>>] = id]
    BY DEF InsertMessage
<1>11. /\ member' = mem
       /\ cursor' \in [Memberships -> Nat]
       /\ notified' \in [Memberships -> Nat]
    BY <1>1, <1>10 DEF InsertMessage, Memberships
<1>12. WatermarksInChannel'
    <2> SUFFICES ASSUME NEW pc \in mem
                 PROVE  /\ cursor'[pc] \in Ids(pc[2])' \union {0}
                        /\ notified'[pc] \in Ids(pc[2])' \union {0}
                        /\ cursor'[pc] <= notified'[pc]
        BY <1>11 DEF WatermarksInChannel
    <2>1. pc[2] \in Channels /\ pc = <<pc[1], pc[2]>>
        BY DEF Memberships
    <2>2. Ids(pc[2]) \subseteq Ids(pc[2])'
        BY <1>5, <1>6, <2>1
    <2>3. CASE cursor'[pc] = cur[pc] /\ notified'[pc] = ntf[pc]
        BY <2>2, <2>3
    <2>4. CASE pc = <<p, c>> /\ cursor'[pc] = id /\ notified'[pc] = id
        BY <1>1, <1>5, <2>4
    <2> QED
        BY <1>10, <2>3, <2>4 DEF Memberships
<1>13. DeletedLeavesNothing'
    <2> SUFFICES ASSUME NEW d \in Channels, status'[d] # "open"
                 PROVE  /\ log'[d] = <<>>
                        /\ \A q \in Participants :
                              /\ <<q, d>> \notin member'
                              /\ cursor'[<<q, d>>] = 0 /\ notified'[<<q, d>>] = 0
        BY DEF DeletedLeavesNothing
    <2>1. d # c /\ status[d] # "open"
        BY DEF MailboxInv, MailboxTypeOK
    <2>2. \A q \in Participants : <<q, d>> \in Memberships /\ <<q, d>>[2] = d /\ <<q, d>> # <<p, c>>
        BY <2>1 DEF Memberships
    <2>3. /\ log[d] = <<>>
          /\ \A q \in Participants :
                <<q, d>> \notin member /\ cursor[<<q, d>>] = 0 /\ notified[<<q, d>>] = 0
        BY <2>1 DEF MailboxInv, DeletedLeavesNothing
    <2>4. \A q \in Participants :
              <<q, d>> \notin mem /\ cur[<<q, d>>] = 0 /\ ntf[<<q, d>>] = 0
        BY <2>1, <2>2, <2>3
    <2> QED
        BY <1>3, <1>10, <1>11, <2>1, <2>2, <2>3, <2>4
<1>14. NoRowNoMarks'
    BY <1>10, <1>11 DEF NoRowNoMarks, Memberships
<1>15. MailboxTypeOK'
    BY <1>1, <1>2, <1>11 DEF MailboxInv, MailboxTypeOK, InsertMessage
<1> QED
    BY <1>8, <1>9, <1>12, <1>13, <1>14, <1>15 DEF MailboxInv, RowsAgree

-----------------------------------------------------------------------------

(* What every transaction that writes no message leaves alone.             *)
LEMMA LogsKept ==
    ASSUME MailboxInv, log' = log, lastId' = lastId
    PROVE  /\ IdsGivenOut' /\ LogOrdered'
           /\ \A c \in Channels : Ids(c)' = Ids(c)
BY DEF MailboxInv, IdsGivenOut, RowsAgree, LogOrdered, Ids

(* What a step that writes no row of the four tables leaves alone.         *)
LEMMA RowsKept ==
    ASSUME MailboxInv, UNCHANGED rowVars, retired' \subseteq Participants,
           replies' \in [Participants -> SUBSET Reply],
           shown' \in [Participants -> SUBSET Nat]
    PROVE  MailboxInv'
<1>1. UNCHANGED <<status, log, lastId, member, cursor, notified>>
    BY DEF rowVars
<1>2. IdsGivenOut' /\ LogOrdered' /\ \A c \in Channels : Ids(c)' = Ids(c)
    BY <1>1, LogsKept
<1>3. WatermarksInChannel'
    BY <1>1, <1>2 DEF MailboxInv, MailboxTypeOK, RowsAgree, WatermarksInChannel, Memberships
<1>4. NoRowNoMarks' /\ DeletedLeavesNothing'
    BY <1>1 DEF MailboxInv, NoRowNoMarks, DeletedLeavesNothing
<1> QED
    BY <1>1, <1>2, <1>3, <1>4 DEF MailboxInv, MailboxTypeOK, RowsAgree

(* MAX(w, through) keeps its type, moves one watermark, and moves it up.   *)
LEMMA AtLeastAdvances ==
    ASSUME NEW W \in [Memberships -> Nat], NEW p \in Participants, NEW c \in Channels,
           NEW through \in Nat
    PROVE  /\ AtLeast(W, p, c, through) \in [Memberships -> Nat]
           /\ \A pc \in Memberships : pc # <<p, c>> => AtLeast(W, p, c, through)[pc] = W[pc]
           /\ AtLeast(W, p, c, through)[<<p, c>>] \in {W[<<p, c>>], through}
           /\ \A pc \in Memberships : AtLeast(W, p, c, through)[pc] >= W[pc]
BY DEF AtLeast, Memberships

LEMMA NextInv == MailboxInv /\ [MailboxNext]_mailboxVars => MailboxInv'
<1> SUFFICES ASSUME MailboxInv, [MailboxNext]_mailboxVars
             PROVE  MailboxInv'
    OBVIOUS
<1> USE DEF MailboxInv, MailboxTypeOK
<1>1. ASSUME NEW c \in Channels, CreateChannel(c)
      PROVE  MailboxInv'
    <2>1. IdsGivenOut' /\ LogOrdered' /\ \A d \in Channels : Ids(d)' = Ids(d)
        BY <1>1, LogsKept DEF CreateChannel
    <2>2. WatermarksInChannel'
        BY <1>1, <2>1 DEF CreateChannel, RowsAgree, WatermarksInChannel, Memberships
    <2>3. DeletedLeavesNothing' /\ NoRowNoMarks'
        BY <1>1 DEF CreateChannel, DeletedLeavesNothing, NoRowNoMarks
    <2> QED
        BY <1>1, <2>1, <2>2, <2>3 DEF CreateChannel, RowsAgree
<1>2. ASSUME NEW c \in Channels, DeleteChannel(c)
      PROVE  MailboxInv'
    <2> DEFINE D == Participants \X {c}
    <2>1. /\ status' = [status EXCEPT ![c] = "deleted"]
          /\ log' = [log EXCEPT ![c] = <<>>]
          /\ lastId' = lastId
          /\ EndMemberships(D)
          /\ UNCHANGED <<retired, replies, shown>>
        BY <1>2 DEF DeleteChannel
    <2>2. log' \in [Channels -> Seq(Message)]
        BY <2>1
    <2>3. \A d \in Channels : log'[d] = IF d = c THEN <<>> ELSE log[d]
        BY <2>1
    <2>4. IdsGivenOut' /\ LogOrdered'
        BY <2>1, <2>3 DEF IdsGivenOut, RowsAgree, LogOrdered
    <2>5. \A d \in Channels \ {c} : Ids(d)' = Ids(d)
        BY <2>3 DEF Ids
    <2>6. /\ member' = member \ D
          /\ \A pc \in Memberships :
                /\ cursor'[pc] = IF pc \in D THEN 0 ELSE cursor[pc]
                /\ notified'[pc] = IF pc \in D THEN 0 ELSE notified[pc]
          /\ cursor' \in [Memberships -> Nat]
          /\ notified' \in [Memberships -> Nat]
        BY <2>1 DEF EndMemberships
    <2>7. WatermarksInChannel'
        <3>1. \A pc \in member' : pc \in member /\ pc \in Memberships /\ pc \notin D
                                  /\ pc[2] \in Channels \ {c}
            BY <2>6 DEF Memberships
        <3> QED
            BY <2>5, <2>6, <3>1 DEF RowsAgree, WatermarksInChannel
    <2>8. DeletedLeavesNothing'
        <3>0. \A d \in Channels : status'[d] # "open" => log'[d] = <<>>
            BY <2>1, <2>3 DEF DeletedLeavesNothing
        <3> SUFFICES ASSUME NEW d \in Channels, status'[d] # "open", NEW q \in Participants
                     PROVE  /\ <<q, d>> \notin member'
                            /\ cursor'[<<q, d>>] = 0 /\ notified'[<<q, d>>] = 0
            BY <3>0 DEF DeletedLeavesNothing
        <3>1. <<q, d>> \in Memberships /\ (<<q, d>> \in D <=> d = c)
            BY DEF Memberships
        <3>2. CASE d = c
            BY <2>3, <2>6, <3>1, <3>2
        <3>3. CASE d # c
            <4>1. status[d] # "open"
                BY <2>1, <3>3
            <4>2. /\ log[d] = <<>> /\ <<q, d>> \notin member
                  /\ cursor[<<q, d>>] = 0 /\ notified[<<q, d>>] = 0
                BY <4>1 DEF DeletedLeavesNothing
            <4> QED
                BY <2>3, <2>6, <3>1, <3>3, <4>2
        <3> QED
            BY <3>2, <3>3
    <2>9. NoRowNoMarks'
        BY <2>6 DEF NoRowNoMarks
    <2> QED
        BY <2>1, <2>2, <2>4, <2>6, <2>7, <2>8, <2>9 DEF RowsAgree
<1>3. ASSUME NEW c \in Channels, NEW J \in SUBSET Participants,
             StartMemberships(J, c),
             status' = [status EXCEPT ![c] = "open"],
             UNCHANGED <<log, lastId, retired, replies, shown>>
      PROVE  MailboxInv'
    <2>1. IdsGivenOut' /\ LogOrdered' /\ \A d \in Channels : Ids(d)' = Ids(d)
        BY <1>3, LogsKept
    <2>2. /\ member' = member \union (J \X {c})
          /\ cursor' = Joined(cursor, J, c)
          /\ notified' = Joined(notified, J, c)
        BY <1>3 DEF StartMemberships
    <2>3. /\ cursor' \in [Memberships -> Nat]
          /\ notified' \in [Memberships -> Nat]
          /\ member' \subseteq Memberships
        BY <2>2, StartKeeps
    <2>4. WatermarksInChannel'
        <3> SUFFICES ASSUME NEW pc \in member'
                     PROVE  /\ cursor'[pc] \in Ids(pc[2])' \union {0}
                            /\ notified'[pc] \in Ids(pc[2])' \union {0}
                            /\ cursor'[pc] <= notified'[pc]
            BY DEF WatermarksInChannel
        <3>1. pc[2] \in Channels
            BY <2>3 DEF Memberships
        <3> QED
            BY <2>1, <2>2, <3>1, StartKeeps
    <2>5. DeletedLeavesNothing'
        <3> SUFFICES ASSUME NEW d \in Channels, status'[d] # "open"
                     PROVE  /\ log'[d] = <<>>
                            /\ \A q \in Participants :
                                  /\ <<q, d>> \notin member'
                                  /\ cursor'[<<q, d>>] = 0 /\ notified'[<<q, d>>] = 0
            BY DEF DeletedLeavesNothing
        <3>1. d # c /\ status[d] # "open"
            BY <1>3
        <3>2. \A q \in Participants : <<q, d>> \in Memberships /\ <<q, d>>[2] # c
            BY <3>1 DEF Memberships
        <3>3. \A q \in Participants :
                  /\ <<q, d>> \in member' <=> <<q, d>> \in member
                  /\ cursor'[<<q, d>>] = cursor[<<q, d>>]
                  /\ notified'[<<q, d>>] = notified[<<q, d>>]
            BY <2>2, <3>2, StartKeeps
        <3> QED
            BY <1>3, <3>1, <3>3 DEF DeletedLeavesNothing
    <2>6. NoRowNoMarks'
        <3>1. \A pc \in Memberships \ (member \union (J \X {c})) :
                  Joined(cursor, J, c)[pc] = 0 /\ Joined(notified, J, c)[pc] = 0
            BY StartKeeps
        <3> QED
            BY <2>2, <3>1 DEF NoRowNoMarks
    <2> QED
        BY <1>3, <2>1, <2>3, <2>4, <2>5, <2>6 DEF RowsAgree
<1>4. ASSUME NEW p \in Participants, NEW c \in Channels, Join(p, c) \/ AddMember(p, c)
      PROVE  MailboxInv'
    <2>1. status' = [status EXCEPT ![c] = "open"]
        BY <1>4 DEF Join, AddMember, Open
    <2> QED
        BY <1>3, <1>4, <2>1 DEF Join, AddMember
<1>5. ASSUME NEW c \in Workspace, NEW J \in SUBSET Participants, EnsureWorkspaceMembers(c, J)
      PROVE  MailboxInv'
    BY <1>3, <1>5 DEF EnsureWorkspaceMembers, Channels
<1>6. ASSUME NEW D, EndMemberships(D),
             UNCHANGED <<log, lastId, retired, replies, shown>>,
             status' \in [Channels -> {"unborn", "open", "deleted"}]
      PROVE  MailboxTypeOK' /\ IdsGivenOut' /\ NoRowNoMarks' /\ RowsAgree'
    <2>1. IdsGivenOut' /\ LogOrdered'
        BY <1>6, LogsKept
    <2>2. /\ member' \subseteq Memberships
          /\ cursor' \in [Memberships -> Nat]
          /\ notified' \in [Memberships -> Nat]
          /\ WatermarksInChannel'
          /\ NoRowNoMarks'
        BY <1>6, EndKeeps
    <2>3. /\ log' \in [Channels -> Seq(Message)] /\ lastId' \in Nat
          /\ retired' \subseteq Participants
          /\ replies' \in [Participants -> SUBSET Reply]
          /\ shown' \in [Participants -> SUBSET Nat]
        BY <1>6
    <2> QED
        BY <1>6, <2>1, <2>2, <2>3 DEF RowsAgree
<1>7. ASSUME NEW p \in Participants, NEW c \in Channels, RemoveMember(p, c)
      PROVE  MailboxInv'
    <2>1. MailboxTypeOK' /\ IdsGivenOut' /\ NoRowNoMarks' /\ RowsAgree'
        BY <1>6, <1>7 DEF RemoveMember
    <2>2. DeletedLeavesNothing'
        BY <1>7, EndKeeps DEF RemoveMember, DeletedLeavesNothing, Memberships
    <2> QED
        BY <2>1, <2>2
<1>8. ASSUME NEW c \in Workspace, NEW J \in SUBSET Participants, NEW e \in BOOLEAN,
             RollbackWorkspaceMembers(c, J, e)
      PROVE  MailboxInv'
    <2>1. /\ EndMemberships(J \X {c})
          /\ c \in Channels
          /\ UNCHANGED <<log, lastId, retired, replies, shown>>
          /\ \/ status' = status
             \/ /\ status' = [status EXCEPT ![c] = "deleted"]
                /\ log[c] = <<>>
                /\ \A q \in Participants : <<q, c>> \notin member'
        BY <1>8 DEF RollbackWorkspaceMembers, Channels
    <2>2. MailboxTypeOK' /\ IdsGivenOut' /\ NoRowNoMarks' /\ RowsAgree'
        BY <1>6, <2>1
    <2>3. DeletedLeavesNothing'
        <3> SUFFICES ASSUME NEW d \in Channels, status'[d] # "open", NEW q \in Participants
                     PROVE  /\ log'[d] = <<>> /\ <<q, d>> \notin member'
                            /\ cursor'[<<q, d>>] = 0 /\ notified'[<<q, d>>] = 0
            BY <2>1 DEF DeletedLeavesNothing
        <3>1. <<q, d>> \in Memberships
            BY DEF Memberships
        <3>2. CASE status[d] # "open"
            BY <2>1, <3>1, <3>2, EndKeeps DEF DeletedLeavesNothing
        <3>3. CASE status[d] = "open"
            <4>1. d = c /\ log[c] = <<>> /\ <<q, d>> \notin member'
                BY <2>1, <3>3
            <4> QED
                BY <2>1, <2>2, <3>1, <4>1 DEF NoRowNoMarks
        <3> QED
            BY <3>2, <3>3
    <2> QED
        BY <2>2, <2>3
<1>9. ASSUME NEW p \in Participants, NEW c \in Channels, Send(p, c)
      PROVE  MailboxInv'
    <2>1. status' = [status EXCEPT ![c] = "open"]
        BY <1>9 DEF Send, Open
    <2>2. Prepared(c, member, cursor, notified)
        BY DEF Prepared, RowsAgree, WatermarksInChannel, NoRowNoMarks
    <2>3. InsertMessage(p, c, member, cursor, notified)
        BY <1>9 DEF Send
    <2> QED
        BY <2>1, <2>2, <2>3, InsertKeeps
<1>10. ASSUME NEW p \in Participants, NEW c \in Channels, SendDirect(p, c)
       PROVE  MailboxInv'
    <2> DEFINE mem == IF Open(c) THEN member ELSE member \union (Between[c] \X {c})
    <2>1. /\ status' = [status EXCEPT ![c] = "open"]
          /\ InsertMessage(p, c, mem, cursor, notified)
          /\ Between[c] \in SUBSET Participants
        BY <1>10, MailboxAssumption DEF SendDirect
    <2>2. mem \in SUBSET Memberships
        BY <2>1 DEF Memberships
    <2>3. \A pc \in mem \ member : cursor[pc] = 0 /\ notified[pc] = 0
        BY <2>2 DEF NoRowNoMarks
    <2>4. \A pc \in mem : /\ cursor[pc] \in Ids(pc[2]) \union {0}
                           /\ notified[pc] \in Ids(pc[2]) \union {0}
                           /\ cursor[pc] <= notified[pc]
        BY <2>3 DEF RowsAgree, WatermarksInChannel
    <2>5. \A pc \in Memberships \ mem : cursor[pc] = 0 /\ notified[pc] = 0
        BY DEF NoRowNoMarks
    <2>6. \A pc \in Memberships : pc[2] # c => (pc \in mem <=> pc \in member)
        OBVIOUS
    <2> HIDE DEF mem
    <2>7. Prepared(c, mem, cursor, notified)
        BY <2>2, <2>4, <2>5, <2>6 DEF Prepared
    <2> QED
        BY <2>1, <2>7, InsertKeeps
<1>11. ASSUME NEW p \in Participants, NEW c \in Channels, NEW R \in SUBSET Participants,
              BroadcastWorkspace(p, c, R)
       PROVE  MailboxInv'
    <2> DEFINE mem == member \union (R \X {c})
               cur == Joined(cursor, R, c)
               ntf == Joined(notified, R, c)
    <2>1. /\ status' = [status EXCEPT ![c] = "open"]
          /\ InsertMessage(p, c, mem, cur, ntf)
        BY <1>11 DEF BroadcastWorkspace
    <2>2. Prepared(c, mem, cur, ntf)
        BY StartKeeps DEF Prepared
    <2> HIDE DEF mem, cur, ntf
    <2> QED
        BY <2>1, <2>2, InsertKeeps
<1>13. ASSUME NEW p \in Participants, NEW c \in Channels, Fetch(p, c)
       PROVE  MailboxInv'
    <2>1. UNCHANGED rowVars /\ retired' = retired
        BY <1>13 DEF Fetch
    <2>2. replies' \in [Participants -> SUBSET Reply] /\ shown' \in [Participants -> SUBSET Nat]
        <3>1. Unread(p, c) \subseteq Nat /\ Newest(Unread(p, c)) \in Nat
            <4>1. Unread(p, c) # {}
                BY <1>13 DEF Fetch
            <4>2. Newest(Unread(p, c)) \in Unread(p, c)
                BY <4>1, FetchCovers
            <4>3. Unread(p, c) \subseteq Ids(c) /\ Ids(c) \subseteq Nat
                BY IdsAreNat DEF Unread, OthersIds, Ids
            <4> QED
                BY <4>2, <4>3
        <3>2. [name |-> NameOf[c], through |-> Newest(Unread(p, c))] \in Reply
            BY <3>1, MailboxAssumption DEF Reply
        <3> QED
            BY <1>13, <3>1, <3>2 DEF Fetch
    <2> QED
        BY <2>1, <2>2, RowsKept
<1>14. ASSUME NEW p \in Participants, NEW c \in Channels,
              NEW reply \in replies[p], Ack(p, c, reply.through)
       PROVE  MailboxInv'
    <2> DEFINE through == reply.through
    <2>1. /\ <<p, c>> \in member
          /\ through \in Ids(c) \union {0}
          /\ cursor' = AtLeast(cursor, p, c, through)
          /\ notified' = AtLeast(notified, p, c, through)
          /\ status[c] = "open"
          /\ UNCHANGED <<status, log, lastId, member, retired, replies, shown>>
        BY <1>14 DEF Ack, Open
    <2>2. through \in Nat
        BY <2>1, IdsAreNat
    <2> HIDE DEF through
    <2>3. /\ cursor' \in [Memberships -> Nat]
          /\ notified' \in [Memberships -> Nat]
          /\ \A pc \in Memberships : pc # <<p, c>> =>
                cursor'[pc] = cursor[pc] /\ notified'[pc] = notified[pc]
          /\ cursor'[<<p, c>>] \in {cursor[<<p, c>>], through}
          /\ notified'[<<p, c>>] \in {notified[<<p, c>>], through}
        <3>1. cursor \in [Memberships -> Nat] /\ notified \in [Memberships -> Nat]
            OBVIOUS
        <3> HIDE DEF MailboxInv, MailboxTypeOK
        <3> QED
            BY <2>1, <2>2, <3>1, AtLeastAdvances
    <2>4. cursor'[<<p, c>>] <= notified'[<<p, c>>]
        BY <2>1, <2>2 DEF AtLeast, RowsAgree, WatermarksInChannel, Memberships
    <2>5. IdsGivenOut' /\ LogOrdered' /\ \A d \in Channels : Ids(d)' = Ids(d)
        BY <2>1, LogsKept
    <2>6. WatermarksInChannel'
        <3> SUFFICES ASSUME NEW pc \in member
                     PROVE  /\ cursor'[pc] \in Ids(pc[2])' \union {0}
                            /\ notified'[pc] \in Ids(pc[2])' \union {0}
                            /\ cursor'[pc] <= notified'[pc]
            BY <2>1 DEF WatermarksInChannel
        <3>1. pc \in Memberships /\ pc[2] \in Channels
            BY DEF Memberships
        <3>2. /\ cursor[pc] \in Ids(pc[2]) \union {0}
              /\ notified[pc] \in Ids(pc[2]) \union {0}
              /\ cursor[pc] <= notified[pc]
            BY DEF RowsAgree, WatermarksInChannel
        <3>3. CASE pc = <<p, c>>
            BY <2>1, <2>3, <2>4, <2>5, <3>1, <3>2, <3>3
        <3>4. CASE pc # <<p, c>>
            BY <2>3, <2>5, <3>1, <3>2, <3>4
        <3> QED
            BY <3>3, <3>4
    <2>7. NoRowNoMarks'
        BY <2>1, <2>3 DEF NoRowNoMarks
    <2>8. DeletedLeavesNothing'
        BY <2>1, <2>3 DEF DeletedLeavesNothing, Memberships
    <2> QED
        BY <2>1, <2>3, <2>5, <2>6, <2>7, <2>8 DEF RowsAgree
<1>15. ASSUME NEW p \in Participants, Deactivate(p)
       PROVE  MailboxInv'
    BY <1>15, RowsKept DEF Deactivate
<1>16. ASSUME NEW p \in Participants, NEW c \in Channels, NotifierWrites(p, c)
       PROVE  MailboxInv'
    <2>1. UNCHANGED <<status, log, lastId, member, cursor, retired, replies, shown>>
        BY <1>16 DEF NotifierWrites
    <2>2. IdsGivenOut' /\ LogOrdered' /\ \A d \in Channels : Ids(d)' = Ids(d)
        BY <2>1, LogsKept
    <2>3. /\ notified' \in [Memberships -> Nat]
          /\ \A pc \in Memberships :
                \/ notified'[pc] = notified[pc]
                \/ /\ pc \in member
                   /\ notified'[pc] \in Ids(pc[2]) \union {0}
                   /\ notified'[pc] >= cursor[pc]
        <3>1. CASE \E id \in Ids(c) : notified' = MarkNotified(p, c, id)
            <4>1. PICK id \in Ids(c) : notified' = MarkNotified(p, c, id)
                BY <3>1
            <4>2. id \in Nat
                BY IdsAreNat
            <4>3. CASE <<p, c>> \notin member
                BY <4>1, <4>3 DEF MarkNotified
            <4>4. CASE <<p, c>> \in member
                <5>1. notified' = AtLeast(notified, p, c, id)
                    BY <4>1, <4>4 DEF MarkNotified
                <5>2. cursor[<<p, c>>] <= notified[<<p, c>>] /\ <<p, c>> \in Memberships
                    BY <4>4 DEF RowsAgree, WatermarksInChannel, Memberships
                <5>3. /\ notified' \in [Memberships -> Nat]
                      /\ \A pc \in Memberships : pc # <<p, c>> => notified'[pc] = notified[pc]
                      /\ notified'[<<p, c>>] \in {notified[<<p, c>>], id}
                      /\ \A pc \in Memberships : notified'[pc] >= notified[pc]
                    BY <4>2, <5>1, AtLeastAdvances
                <5>4. CASE notified'[<<p, c>>] = id
                    <6>1. notified'[<<p, c>>] >= cursor[<<p, c>>]
                        BY <5>2, <5>3
                    <6>2. notified'[<<p, c>>] \in Ids(c)
                        BY <5>4
                    <6>3. /\ <<p, c>> \in member
                          /\ notified'[<<p, c>>] \in Ids(<<p, c>>[2]) \union {0}
                        BY <4>4, <6>2
                    <6>4. \A pc \in Memberships : pc = <<p, c>> \/ notified'[pc] = notified[pc]
                        BY <5>3
                    <6> QED
                        BY <5>3, <6>1, <6>3, <6>4
                <5> QED
                    BY <5>3, <5>4
            <4> QED
                BY <4>3, <4>4
        <3>2. CASE notified' = RolledBack(notified, {<<p, c>>})
            <4>1. \A pc \in Memberships :
                      \/ notified'[pc] = notified[pc]
                      \/ cursor[pc] < notified[pc] /\ notified'[pc] = cursor[pc]
                BY <3>2 DEF RolledBack
            <4>2. notified' \in [Memberships -> Nat]
                BY <3>2 DEF RolledBack
            <4>3. ASSUME NEW pc \in Memberships, cursor[pc] < notified[pc]
                  PROVE  pc \in member /\ cursor[pc] \in Ids(pc[2]) \union {0}
                <5>1. pc \in member
                    BY <4>3 DEF NoRowNoMarks
                <5> QED
                    BY <5>1 DEF RowsAgree, WatermarksInChannel
            <4> QED
                BY <4>1, <4>2, <4>3
        <3> QED
            BY <1>16, <3>1, <3>2 DEF NotifierWrites
    <2>4. WatermarksInChannel'
        <3> SUFFICES ASSUME NEW pc \in member
                     PROVE  /\ cursor[pc] \in Ids(pc[2]) \union {0}
                            /\ notified'[pc] \in Ids(pc[2]) \union {0}
                            /\ cursor[pc] <= notified'[pc]
            <4>1. \A pc \in member : Ids(pc[2])' = Ids(pc[2])
                BY <2>2 DEF Memberships
            <4> QED
                BY <2>1, <4>1 DEF WatermarksInChannel
        <3>1. pc \in Memberships
            OBVIOUS
        <3> QED
            BY <2>3, <3>1 DEF RowsAgree, WatermarksInChannel
    <2>5. NoRowNoMarks'
        BY <2>1, <2>3 DEF NoRowNoMarks
    <2>6. DeletedLeavesNothing'
        BY <2>1, <2>3 DEF DeletedLeavesNothing, Memberships
    <2> QED
        BY <2>1, <2>2, <2>3, <2>4, <2>5, <2>6 DEF RowsAgree
<1>17. CASE UNCHANGED mailboxVars
    BY <1>17, RowsKept DEF mailboxVars, rowVars
<1> HIDE DEF MailboxInv, MailboxTypeOK
<1>18. CASE MailboxNext
    <2>1. \/ \E c \in Channels : CreateChannel(c) \/ DeleteChannel(c)
          \/ \E p \in Participants : Deactivate(p)
          \/ \E p \in Participants, c \in Channels :
                \/ Join(p, c) \/ AddMember(p, c) \/ RemoveMember(p, c)
                \/ Send(p, c) \/ SendDirect(p, c)
                \/ Fetch(p, c) \/ NotifierWrites(p, c)
          \/ \E p \in Participants, c \in Channels, R \in SUBSET Participants :
                BroadcastWorkspace(p, c, R)
          \/ \E p \in Participants, c \in Channels : \E reply \in replies[p] :
                Ack(p, c, reply.through)
          \/ \E c \in Workspace, J \in SUBSET Participants : EnsureWorkspaceMembers(c, J)
          \/ \E c \in Workspace, J \in SUBSET Participants, e \in BOOLEAN :
                RollbackWorkspaceMembers(c, J, e)
        BY <1>18 DEF MailboxNext
    <2> QED
        BY <2>1, <1>1, <1>2, <1>4, <1>5, <1>7, <1>8, <1>9, <1>10, <1>11, <1>13, <1>14,
           <1>15, <1>16
<1> QED
    BY <1>17, <1>18

LEMMA SpecInv == MailboxSpec => []MailboxInv
<1>1. MailboxInv /\ [MailboxNext]_mailboxVars => MailboxInv'
    BY NextInv
<1> QED
    BY InitInv, <1>1, PTL DEF MailboxSpec

-----------------------------------------------------------------------------

(* Every variable of the store keeps its type, whatever the constants.     *)
THEOREM TypeCorrect == MailboxSpec => []MailboxTypeOK
<1>1. MailboxInv => MailboxTypeOK
    BY DEF MailboxInv
<1> QED
    BY SpecInv, <1>1, PTL

(* Messages stand in id order, and both watermarks of every membership are *)
(* 0 or ids of messages of its own channel, the read one never the larger: *)
(* for every order of the transactions of store.ts and notifier writes.    *)
THEOREM RowsAlwaysAgree == MailboxSpec => []RowsAgree
<1>1. MailboxInv => RowsAgree
    BY DEF MailboxInv
<1> QED
    BY SpecInv, <1>1, PTL

(* A deleted channel leaves no message, no membership and no watermark,    *)
(* and none comes back, whatever late request or notifier write follows.   *)
THEOREM DeletedAlwaysLeavesNothing == MailboxSpec => []DeletedLeavesNothing
<1>1. MailboxInv => DeletedLeavesNothing
    BY DEF MailboxInv
<1> QED
    BY SpecInv, <1>1, PTL

-----------------------------------------------------------------------------

(* No rewind in one step, for a membership that the step does not end.     *)
NoRewind ==
    \A pc \in member \intersect member' :
        /\ cursor'[pc] >= cursor[pc]
        /\ notified'[pc] >= notified[pc] \/ notified'[pc] = cursor'[pc]

(* Watermarks in which every membership already there has kept its own.    *)
Carried(cur, ntf) ==
    /\ cur \in [Memberships -> Nat]
    /\ ntf \in [Memberships -> Nat]
    /\ \A pc \in member : cur[pc] = cursor[pc] /\ ntf[pc] = notified[pc]

(* An inserted message rewinds nothing that the transaction has not.       *)
LEMMA InsertAdvances ==
    ASSUME MailboxInv, NEW p \in Participants, NEW c \in Channels,
           NEW mem, NEW cur, NEW ntf, Carried(cur, ntf),
           InsertMessage(p, c, mem, cur, ntf)
    PROVE  NoRewind
<1> USE DEF Carried
<1>1. \/ cursor' = cur /\ notified' = ntf
      \/ /\ cursor' = [cur EXCEPT ![<<p, c>>] = lastId + 1]
         /\ notified' = [ntf EXCEPT ![<<p, c>>] = lastId + 1]
    BY DEF InsertMessage
<1>2. ASSUME NEW pc \in member
      PROVE  /\ pc \in Memberships
             /\ cursor[pc] \in 0..lastId /\ notified[pc] \in 0..lastId /\ lastId \in Nat
    <2>1. pc \in Memberships /\ pc[2] \in Channels /\ lastId \in Nat
        BY DEF MailboxInv, MailboxTypeOK, Memberships
    <2>2. \A id \in Ids(pc[2]) : id \in 1..lastId
        BY <2>1 DEF MailboxInv, IdsGivenOut, Ids
    <2>3. cursor[pc] \in Ids(pc[2]) \union {0} /\ notified[pc] \in Ids(pc[2]) \union {0}
        BY DEF MailboxInv, RowsAgree, WatermarksInChannel
    <2> QED
        BY <2>1, <2>2, <2>3
<1> SUFFICES ASSUME NEW pc \in member
             PROVE  cursor'[pc] >= cursor[pc] /\ notified'[pc] >= notified[pc]
    BY DEF NoRewind
<1>3. /\ cursor'[pc] \in {cursor[pc], lastId + 1}
      /\ notified'[pc] \in {notified[pc], lastId + 1}
    BY <1>1, <1>2
<1> QED
    BY <1>2, <1>3

LEMMA NextNoRewind ==
    ASSUME MailboxInv, [MailboxNext]_mailboxVars
    PROVE  NoRewind
<1> USE DEF MailboxInv, MailboxTypeOK
<1>1. \A pc \in member : /\ pc \in Memberships
                          /\ cursor[pc] \in Nat /\ notified[pc] \in Nat
                          /\ cursor[pc] <= notified[pc]
    BY DEF RowsAgree, WatermarksInChannel
<1>2. ASSUME UNCHANGED <<member, cursor, notified>>
      PROVE  NoRewind
    BY <1>1, <1>2 DEF NoRewind
<1>3. ASSUME NEW D, EndMemberships(D)
      PROVE  NoRewind
    BY <1>1, <1>3 DEF NoRewind, EndMemberships
<1>4. ASSUME NEW c \in Channels, NEW J \in SUBSET Participants, StartMemberships(J, c)
      PROVE  NoRewind
    BY <1>1, <1>4 DEF NoRewind, StartMemberships, Joined
<1>5. ASSUME NEW p \in Participants, NEW c \in Channels,
             Send(p, c) \/ SendDirect(p, c)
      PROVE  NoRewind
    <2>1. PICK mem : InsertMessage(p, c, mem, cursor, notified)
        BY <1>5 DEF Send, SendDirect
    <2>2. Carried(cursor, notified)
        BY DEF Carried
    <2> QED
        BY <2>1, <2>2, InsertAdvances
<1>6. ASSUME NEW p \in Participants, NEW c \in Channels, NEW R \in SUBSET Participants,
             BroadcastWorkspace(p, c, R)
      PROVE  NoRewind
    <2> DEFINE cur == Joined(cursor, R, c)
               ntf == Joined(notified, R, c)
    <2>1. InsertMessage(p, c, member \union (R \X {c}), cur, ntf)
        BY <1>6 DEF BroadcastWorkspace
    <2>2. cur \in [Memberships -> Nat] /\ ntf \in [Memberships -> Nat]
        BY StartKeeps
    <2>3. \A pc \in member : cur[pc] = cursor[pc] /\ ntf[pc] = notified[pc]
        BY <1>1 DEF Joined
    <2>4. Carried(cur, ntf)
        BY <2>2, <2>3 DEF Carried
    <2> HIDE DEF cur, ntf
    <2> QED
        BY <2>1, <2>4, InsertAdvances
<1>7. ASSUME NEW p \in Participants, NEW c \in Channels,
             NEW reply \in replies[p], Ack(p, c, reply.through)
      PROVE  NoRewind
    <2>1. /\ reply.through \in Nat
          /\ <<p, c>> \in Memberships
          /\ cursor \in [Memberships -> Nat] /\ notified \in [Memberships -> Nat]
        BY DEF Reply, Memberships
    <2>2. cursor' = AtLeast(cursor, p, c, reply.through) /\ notified' = AtLeast(notified, p, c, reply.through)
        BY <1>7 DEF Ack
    <2>3. \A pc \in Memberships : cursor'[pc] >= cursor[pc] /\ notified'[pc] >= notified[pc]
        <3> HIDE DEF MailboxInv, MailboxTypeOK
        <3> QED
            BY <2>1, <2>2, AtLeastAdvances
    <2> QED
        BY <1>1, <2>3 DEF NoRewind
<1>8. ASSUME NEW p \in Participants, NEW c \in Channels, NotifierWrites(p, c)
      PROVE  NoRewind
    <2>1. member' = member /\ cursor' = cursor
        BY <1>8 DEF NotifierWrites
    <2>2. CASE \E id \in Ids(c) : notified' = MarkNotified(p, c, id)
        <3>1. PICK id \in Ids(c) : notified' = MarkNotified(p, c, id)
            BY <2>2
        <3>2. id \in Nat
            BY IdsAreNat
        <3>3. \A pc \in Memberships : notified'[pc] >= notified[pc]
            <4>1. \A pc \in Memberships : notified[pc] >= notified[pc]
                OBVIOUS
            <4>2. notified' = notified \/ notified' = AtLeast(notified, p, c, id)
                BY <3>1 DEF MarkNotified
            <4>3. notified \in [Memberships -> Nat]
                OBVIOUS
            <4>4. \A pc \in Memberships : AtLeast(notified, p, c, id)[pc] >= notified[pc]
                BY <3>2, <4>3, AtLeastAdvances
            <4> QED
                BY <4>1, <4>2, <4>4
        <3> QED
            BY <1>1, <2>1, <3>3 DEF NoRewind
    <2>3. CASE notified' = RolledBack(notified, {<<p, c>>})
        <3>1. \A pc \in Memberships :
                  notified'[pc] = notified[pc] \/ notified'[pc] = cursor[pc]
            BY <2>3 DEF RolledBack
        <3>2. \A pc \in member :
                  /\ cursor'[pc] >= cursor[pc]
                  /\ notified'[pc] >= notified[pc] \/ notified'[pc] = cursor'[pc]
            BY <1>1, <2>1, <3>1
        <3> QED
            BY <3>2 DEF NoRewind
    <2> QED
        BY <1>8, <2>2, <2>3 DEF NotifierWrites
<1> HIDE DEF MailboxInv, MailboxTypeOK
<1>9. CASE MailboxNext
    <2>1. \A c \in Channels : CreateChannel(c) => UNCHANGED <<member, cursor, notified>>
        BY DEF CreateChannel
    <2>2. \A c \in Channels : DeleteChannel(c) => EndMemberships(Participants \X {c})
        BY DEF DeleteChannel
    <2>3. \A p \in Participants : Deactivate(p) => UNCHANGED <<member, cursor, notified>>
        BY DEF Deactivate, rowVars
    <2>4. \A p \in Participants, c \in Channels :
              /\ Join(p, c) \/ AddMember(p, c) => StartMemberships({p}, c)
              /\ RemoveMember(p, c) => EndMemberships({<<p, c>>})
              /\ Fetch(p, c) => UNCHANGED <<member, cursor, notified>>
        BY DEF Join, AddMember, RemoveMember, Fetch, rowVars
    <2>5. \A c \in Workspace, J \in SUBSET Participants :
              /\ c \in Channels
              /\ EnsureWorkspaceMembers(c, J) => StartMemberships(J, c)
              /\ \A e \in BOOLEAN :
                    RollbackWorkspaceMembers(c, J, e) => EndMemberships(J \X {c})
        BY DEF EnsureWorkspaceMembers, RollbackWorkspaceMembers, Channels
    <2>6. \A p \in Participants : {p} \in SUBSET Participants
        OBVIOUS
    <2> QED
        BY <1>2, <1>3, <1>4, <1>5, <1>6, <1>7, <1>8, <1>9, <2>1, <2>2, <2>3, <2>4, <2>5, <2>6
        DEF MailboxNext
<1>10. CASE UNCHANGED mailboxVars
    BY <1>2, <1>10 DEF mailboxVars
<1> QED
    BY <1>9, <1>10

(* While a membership lasts no request and no notifier write rewinds what  *)
(* its participant has read, and a ping is taken back only down to it.     *)
THEOREM ReadsNeverRewindEver == MailboxSpec => ReadsNeverRewind
<1>1. MailboxInv /\ [MailboxNext]_mailboxVars => [NoRewind]_mailboxVars
    BY NextNoRewind
<1> QED
    BY SpecInv, <1>1, PTL DEF MailboxSpec, ReadsNeverRewind, NoRewind

-----------------------------------------------------------------------------
(* The refinement of Inbox.  Beside MailboxInv it needs to know what the   *)
(* answers that may still be acknowledged cover.                           *)

(* Ids are given out once, so no two channels share one.                   *)
IdsApart == \A c, d \in Channels : c # d => Ids(c) \intersect Ids(d) = {}

(* An answer that may still be acknowledged ends at an id given out, and   *)
(* what is unread up to there was shown with it.                           *)
AnswersGivenOut ==
    \A p \in Participants : \A r \in replies[p] : r.through <= lastId

AnswersCovered ==
    \A p \in Participants, c \in Channels : \A r \in replies[p] :
        r.through \in Ids(c) =>
            \A id \in UnreadOf[<<p, c>>] : id <= r.through => id \in shown[p]

InboxInv ==
    /\ MailboxInv
    /\ IdsApart
    /\ AnswersGivenOut
    /\ AnswersCovered

(* A log is in id order, so its last id is its greatest.                   *)
LEMMA HighWaterGreatest ==
    ASSUME MailboxInv, NEW c \in Channels
    PROVE  \A id \in Ids(c) : id <= HighWater(c)
<1>1. log[c] \in Seq(Message)
    BY DEF MailboxInv, MailboxTypeOK
<1>2. SUFFICES ASSUME NEW i \in DOMAIN log[c]
               PROVE  log[c][i].id <= HighWater(c)
    BY DEF Ids
<1>3. /\ DOMAIN log[c] = 1..Len(log[c]) /\ Len(log[c]) \in Nat
      /\ log[c] # <<>> /\ Len(log[c]) \in DOMAIN log[c]
    BY <1>1
<1>4. HighWater(c) = log[c][Len(log[c])].id
    BY <1>3 DEF HighWater
<1>5. /\ log[c][i].id \in Nat /\ log[c][Len(log[c])].id \in Nat
      /\ i < Len(log[c]) => log[c][i].id < log[c][Len(log[c])].id
    <2>0. \A j \in DOMAIN log[c] : log[c][j] \in Message
        BY <1>1
    <2>1. \A j \in DOMAIN log[c] : log[c][j].id \in Nat
        BY <2>0 DEF Message
    <2>2. i < Len(log[c]) => log[c][i].id < log[c][Len(log[c])].id
        BY <1>3 DEF MailboxInv, RowsAgree, LogOrdered
    <2> QED
        BY <1>3, <2>1, <2>2
<1>6. CASE i = Len(log[c])
    BY <1>4, <1>5, <1>6
<1>7. CASE i < Len(log[c])
    BY <1>4, <1>5, <1>7
<1> QED
    BY <1>3, <1>6, <1>7

(* The unread ids of a membership are ids of its channel.                  *)
LEMMA UnreadInLog ==
    ASSUME MailboxInv, NEW p \in Participants, NEW c \in Channels
    PROVE  /\ OthersIds(p, c) \subseteq Ids(c)
           /\ Unread(p, c) \subseteq OthersIds(p, c)
           /\ Ids(c) \subseteq 1..lastId /\ lastId \in Nat
           /\ <<p, c>> \in member => UnreadOf[<<p, c>>] = Unread(p, c)
           /\ <<p, c>> \notin member => UnreadOf[<<p, c>>] = {}
<1>1. Ids(c) \subseteq 1..lastId /\ lastId \in Nat
    BY DEF MailboxInv, MailboxTypeOK, IdsGivenOut, Ids
<1>2. OthersIds(p, c) \subseteq Ids(c) /\ Unread(p, c) \subseteq OthersIds(p, c)
    BY DEF OthersIds, Ids, Unread
<1>3. <<p, c>> \in Memberships /\ <<p, c>>[1] = p /\ <<p, c>>[2] = c
    BY DEF Memberships
<1> QED
    BY <1>1, <1>2, <1>3 DEF UnreadOf

(* Memberships mem with read watermarks cur leave unread what there was,   *)
(* and nothing to those that have just come.                               *)
Preserves(mem, cur) ==
    /\ member \subseteq mem
    /\ cur \in [Memberships -> Nat]
    /\ \A pc \in mem :
          /\ cur[pc] \in 0..lastId
          /\ {id \in OthersIds(pc[1], pc[2]) : id > cur[pc]} = UnreadOf[pc]

(* A membership that was there keeps what is unread.                       *)
LEMMA MemberPreserves ==
    ASSUME MailboxInv, NEW pc \in member
    PROVE  /\ pc \in Memberships
           /\ cursor[pc] \in 0..lastId
           /\ {id \in OthersIds(pc[1], pc[2]) : id > cursor[pc]} = UnreadOf[pc]
<1>1. pc \in Memberships /\ pc[2] \in Channels /\ lastId \in Nat
    BY DEF MailboxInv, MailboxTypeOK, Memberships
<1>2. cursor[pc] \in Ids(pc[2]) \union {0}
    BY DEF MailboxInv, RowsAgree, WatermarksInChannel
<1>3. Ids(pc[2]) \subseteq 1..lastId
    BY <1>1 DEF MailboxInv, IdsGivenOut, Ids
<1>4. UnreadOf[pc] = Unread(pc[1], pc[2]) /\ pc = <<pc[1], pc[2]>>
    BY <1>1 DEF UnreadOf, Memberships
<1> QED
    BY <1>1, <1>2, <1>3, <1>4 DEF Unread

LEMMA StartPreserves ==
    ASSUME MailboxInv, NEW c \in Channels, NEW J \in SUBSET Participants
    PROVE  Preserves(member \union (J \X {c}), Joined(cursor, J, c))
<1>1. /\ member \subseteq Memberships
      /\ Joined(cursor, J, c) \in [Memberships -> Nat]
    BY StartKeeps DEF MailboxInv, MailboxTypeOK
<1>2. ASSUME NEW p \in Participants, NEW d \in Channels,
             <<p, d>> \in member \union (J \X {c})
      PROVE  {id \in OthersIds(p, d) : id > Joined(cursor, J, c)[<<p, d>>]}
                = UnreadOf[<<p, d>>]
    <2>1. <<p, d>> \in Memberships
        BY DEF Memberships
    <2>2. CASE <<p, d>> \in member
        BY <2>1, <2>2, UnreadInLog DEF Joined, Unread
    <2>3. CASE <<p, d>> \notin member
        <3>1. d = c /\ Joined(cursor, J, c)[<<p, d>>] = HighWater(c)
            BY <1>2, <2>1, <2>3 DEF Joined
        <3>2. /\ \A id \in OthersIds(p, d) : id <= HighWater(c) /\ id \in Nat
              /\ HighWater(c) \in Nat
            BY <3>1, UnreadInLog, HighWaterGreatest, HighWaterInLog DEF MailboxInv
        <3>3. {id \in OthersIds(p, d) : id > HighWater(c)} = {}
            BY <3>2
        <3> QED
            BY <2>3, <3>1, <3>3, UnreadInLog
    <2> QED
        BY <2>2, <2>3
<1>3. \A pc \in member \union (J \X {c}) :
          pc = <<pc[1], pc[2]>> /\ pc[1] \in Participants /\ pc[2] \in Channels
    BY <1>1 DEF Memberships
<1>4. \A pc \in member \union (J \X {c}) : Joined(cursor, J, c)[pc] \in 0..lastId
    <2>1. ASSUME NEW pc \in member \union (J \X {c})
          PROVE  Joined(cursor, J, c)[pc] \in Ids(pc[2]) \union {0}
        BY StartKeeps
    <2>2. lastId \in Nat /\ \A d \in Channels : Ids(d) \subseteq 1..lastId
        BY DEF MailboxInv, MailboxTypeOK, IdsGivenOut, Ids
    <2> QED
        BY <1>3, <2>1, <2>2
<1> QED
    BY <1>1, <1>2, <1>3, <1>4 DEF Preserves

(* A message inserted into such memberships is what Inbox calls a post.    *)
LEMMA InsertPosts ==
    ASSUME MailboxInv, NEW p \in Participants, NEW c \in Channels,
           NEW J \in SUBSET Participants, NEW mem, NEW cur, NEW ntf,
           mem = member \union (J \X {c}), Preserves(mem, cur),
           InsertMessage(p, c, mem, cur, ntf)
    PROVE  /\ Promise!Post(p, c, J)
           /\ Ids(c)' \subseteq Ids(c) \union {lastId + 1}
           /\ \A d \in Channels \ {c} : Ids(d)' \subseteq Ids(d)
<1> DEFINE id == lastId + 1
           m  == [id |-> id, from |-> p]
<1>1. /\ log \in [Channels -> Seq(Message)] /\ lastId \in Nat /\ id \in Nat
      /\ member \subseteq Memberships /\ m \in Message
    <2>1. log \in [Channels -> Seq(Message)] /\ lastId \in Nat /\ member \subseteq Memberships
        BY DEF MailboxInv, MailboxTypeOK
    <2>2. id \in Nat /\ m \in Message
        BY <2>1 DEF Message
    <2> QED
        BY <2>1, <2>2
<1>2. /\ lastId' = id /\ member' = mem /\ shown' = shown
      /\ log' = [log EXCEPT ![c] = Append(log[c], m)]
    BY DEF InsertMessage
<1>3. /\ log'[c] = Append(log[c], m)
      /\ DOMAIN log'[c] = 1..(Len(log[c]) + 1)
      /\ DOMAIN log[c] = 1..Len(log[c])
      /\ Len(log[c]) \in Nat
      /\ \A i \in 1..Len(log[c]) : log'[c][i] = log[c][i]
      /\ log'[c][Len(log[c]) + 1] = m
      /\ \A d \in Channels \ {c} : log'[d] = log[d]
    BY <1>1, <1>2
<1>4. /\ Ids(c)' \subseteq Ids(c) \union {id}
      /\ \A d \in Channels \ {c} : Ids(d)' \subseteq Ids(d)
    BY <1>3 DEF Ids
<1>5. ASSUME NEW q \in Participants
      PROVE  OthersIds(q, c)' = OthersIds(q, c) \union (IF q = p THEN {} ELSE {id})
    <2>1. OthersIds(q, c)' \subseteq OthersIds(q, c) \union (IF q = p THEN {} ELSE {id})
        BY <1>3 DEF OthersIds
    <2>2. OthersIds(q, c) \subseteq OthersIds(q, c)'
        BY <1>3 DEF OthersIds
    <2>3. q # p => id \in OthersIds(q, c)'
        BY <1>3 DEF OthersIds
    <2> QED
        BY <2>1, <2>2, <2>3
<1>6. \A q \in Participants, d \in Channels \ {c} : OthersIds(q, d)' = OthersIds(q, d)
    BY <1>3 DEF OthersIds
<1>7. /\ mem \subseteq Memberships
      /\ \A pc \in mem : pc = <<pc[1], pc[2]>> /\ pc[1] \in Participants /\ pc[2] \in Channels
    BY <1>1 DEF Memberships
<1>8. \/ cursor' = cur
      \/ /\ <<p, c>> \in mem /\ cur[<<p, c>>] = HighWater(c)
         /\ cursor' = [cur EXCEPT ![<<p, c>>] = id]
    BY DEF InsertMessage
<1>9. ASSUME NEW pc \in Memberships
      PROVE  UnreadOf'[pc] = IF pc \in mem /\ pc[2] = c /\ pc[1] # p
                             THEN UnreadOf[pc] \union {id}
                             ELSE UnreadOf[pc]
    <2> DEFINE q == pc[1]
               d == pc[2]
    <2>1. pc = <<q, d>> /\ q \in Participants /\ d \in Channels
        BY DEF Memberships
    <2>2. UnreadOf'[pc] = IF pc \in mem THEN {x \in OthersIds(q, d)' : x > cursor'[pc]} ELSE {}
        BY <1>2, <2>1 DEF UnreadOf, Unread
    <2>3. CASE pc \notin mem
        BY <2>2, <2>3 DEF Preserves, UnreadOf
    <2>4. ASSUME pc \in mem
          PROVE  /\ {x \in OthersIds(q, d) : x > cur[pc]} = UnreadOf[pc]
                 /\ cur[pc] \in Nat
        BY <2>4 DEF Preserves
    <2>5. CASE pc \in mem /\ d # c
        <3>1. cursor'[pc] = cur[pc]
            BY <1>8, <2>1, <2>5 DEF Preserves
        <3> QED
            BY <1>6, <2>1, <2>2, <2>4, <2>5, <3>1
    <2>6. CASE pc \in mem /\ d = c /\ q # p
        <3>1. cursor'[pc] = cur[pc]
            BY <1>8, <2>1, <2>6 DEF Preserves
        <3>2. id > cur[pc]
            BY <1>1, <2>6 DEF Preserves
        <3>3. OthersIds(q, d)' = OthersIds(q, d) \union {id}
            BY <1>5, <2>1, <2>6
        <3> QED
            BY <2>2, <2>4, <2>6, <3>1, <3>2, <3>3
    <2>7. CASE pc = <<p, c>> /\ pc \in mem
        <3>1. OthersIds(q, d)' = OthersIds(q, d) /\ q = p /\ d = c
            BY <1>5, <2>1, <2>7
        <3>2. CASE cursor' = cur
            BY <2>2, <2>4, <2>7, <3>1, <3>2
        <3>3. CASE cur[pc] = HighWater(c) /\ cursor'[pc] = id
            <4>1. \A x \in OthersIds(q, d) : x <= HighWater(c) /\ x \in 1..lastId
                BY <2>1, <3>1, UnreadInLog, HighWaterGreatest
            <4>2. HighWater(c) \in Nat
                BY HighWaterInLog DEF MailboxInv
            <4>3. /\ {x \in OthersIds(q, d) : x > HighWater(c)} = {}
                  /\ {x \in OthersIds(q, d) : x > id} = {}
                BY <1>1, <4>1, <4>2
            <4> QED
                BY <2>2, <2>4, <2>7, <3>1, <3>3, <4>3
        <3> QED
            BY <1>8, <2>7, <3>2, <3>3 DEF Preserves
    <2> QED
        BY <2>1, <2>3, <2>5, <2>6, <2>7
<1>10. UnreadOf' = [pc \in Memberships |->
                      IF pc \in mem /\ pc[2] = c /\ pc[1] # p
                      THEN UnreadOf[pc] \union {id}
                      ELSE UnreadOf[pc]]
    BY <1>9 DEF UnreadOf
<1> QED
    BY <1>2, <1>4, <1>10 DEF Promise!Post, Memberships

(* A step after which no more is unread but the new message, in c only.    *)
Grows(c) ==
    /\ lastId' \in {lastId, lastId + 1}
    /\ \A d \in Channels :
          Ids(d)' \subseteq Ids(d) \union (IF d = c THEN {lastId'} \ {lastId} ELSE {})
    /\ \A pc \in Memberships :
          UnreadOf'[pc] \subseteq UnreadOf[pc] \union ({lastId'} \ {lastId})

LEMMA GrowsApart ==
    ASSUME InboxInv, NEW c \in Channels, Grows(c)
    PROVE  IdsApart'
<1>1. lastId \in Nat /\ \A d \in Channels : Ids(d) \subseteq 1..lastId
    BY DEF InboxInv, MailboxInv, MailboxTypeOK, IdsGivenOut, Ids
<1>2. \A d \in Channels : lastId + 1 \notin Ids(d)
    BY <1>1
<1>3. \A d \in Channels : Ids(d)' \subseteq Ids(d) \union (IF d = c THEN {lastId + 1} ELSE {})
    BY DEF Grows
<1> QED
    BY <1>2, <1>3 DEF InboxInv, IdsApart

(* Unless fetch adds one, the answers stay covered: a new message is newer *)
(* than all of them.                                                       *)
LEMMA GrowsCovered ==
    ASSUME InboxInv, NEW c \in Channels, Grows(c), UNCHANGED <<replies, shown>>
    PROVE  AnswersGivenOut' /\ AnswersCovered'
<1>1. /\ lastId \in Nat /\ lastId' \in Nat /\ lastId <= lastId'
      /\ lastId' # lastId => lastId' = lastId + 1
    BY DEF InboxInv, MailboxInv, MailboxTypeOK, Grows
<1>2. ASSUME NEW p \in Participants, NEW r \in replies[p]
      PROVE  r.through \in Nat /\ r.through <= lastId
    BY DEF InboxInv, MailboxInv, MailboxTypeOK, AnswersGivenOut, Reply
<1>3. AnswersGivenOut'
    BY <1>1, <1>2 DEF AnswersGivenOut
<1>4. ASSUME NEW p \in Participants, NEW d \in Channels, NEW r \in replies[p],
             r.through \in Ids(d)', NEW id \in UnreadOf'[<<p, d>>], id <= r.through
      PROVE  id \in shown[p]
    <2>1. r.through # lastId + 1
        BY <1>1, <1>2
    <2>2. r.through \in Ids(d)
        BY <1>1, <1>2, <1>4, <2>1 DEF Grows
    <2>3. id # lastId + 1
        BY <1>1, <1>2, <1>4
    <2>4. <<p, d>> \in Memberships
        BY DEF Memberships
    <2>5. id \in UnreadOf[<<p, d>>]
        BY <1>1, <1>4, <2>3, <2>4 DEF Grows
    <2> QED
        BY <1>4, <2>2, <2>5 DEF InboxInv, AnswersCovered
<1>5. AnswersCovered'
    BY <1>4 DEF AnswersCovered
<1> QED
    BY <1>3, <1>5

(* What a step of the store is to Inbox, and what it leaves of the facts   *)
(* about answers.                                                          *)
Refines ==
    /\ Promise!Next \/ UNCHANGED <<lastId, member, UnreadOf, shown>>
    /\ IdsApart' /\ AnswersGivenOut' /\ AnswersCovered'

LEMMA PostRefines ==
    ASSUME InboxInv, NEW p \in Participants, NEW c \in Channels,
           NEW J \in SUBSET Participants, NEW mem, NEW cur, NEW ntf,
           mem = member \union (J \X {c}), Preserves(mem, cur),
           InsertMessage(p, c, mem, cur, ntf)
    PROVE  Refines
<1>1. /\ Promise!Post(p, c, J)
      /\ Ids(c)' \subseteq Ids(c) \union {lastId + 1}
      /\ \A d \in Channels \ {c} : Ids(d)' \subseteq Ids(d)
    BY InsertPosts DEF InboxInv
<1>2. lastId' = lastId + 1 /\ UNCHANGED <<replies, shown>> /\ lastId \in Nat
    BY DEF InsertMessage, InboxInv, MailboxInv, MailboxTypeOK
<1>3. \A pc \in Memberships : UnreadOf'[pc] \subseteq UnreadOf[pc] \union {lastId'}
    <2>1. UnreadOf' = [pc \in Memberships |->
                          IF pc \in member' /\ pc[2] = c /\ pc[1] # p
                          THEN UnreadOf[pc] \union {lastId'}
                          ELSE UnreadOf[pc]]
        BY <1>1 DEF Promise!Post, Memberships
    <2> QED
        BY <2>1
<1>4. Grows(c)
    BY <1>1, <1>2, <1>3 DEF Grows
<1>5. Promise!Next
    BY <1>1 DEF Promise!Next
<1> QED
    BY <1>2, <1>4, <1>5, GrowsApart, GrowsCovered DEF Refines

(* Memberships start: a join of Inbox.                                     *)
LEMMA StartRefines ==
    ASSUME InboxInv, NEW c \in Channels, NEW J \in SUBSET Participants,
           StartMemberships(J, c), UNCHANGED <<log, lastId, replies, shown>>
    PROVE  Refines
<1> DEFINE mem == member \union (J \X {c})
           cur == Joined(cursor, J, c)
<1>1. member' = mem /\ cursor' = cur
    BY DEF StartMemberships
<1>2. Preserves(mem, cur)
    BY StartPreserves DEF InboxInv
<1>3. /\ \A q \in Participants, d \in Channels : OthersIds(q, d)' = OthersIds(q, d)
      /\ \A d \in Channels : Ids(d)' = Ids(d)
    BY DEF OthersIds, Ids
<1> HIDE DEF mem, cur
<1>4. ASSUME NEW pc \in Memberships
      PROVE  UnreadOf'[pc] = UnreadOf[pc]
    <2>1. pc = <<pc[1], pc[2]>> /\ pc[1] \in Participants /\ pc[2] \in Channels
        BY DEF Memberships
    <2>2. UnreadOf'[pc] = IF pc \in mem THEN {x \in OthersIds(pc[1], pc[2]) : x > cur[pc]}
                                         ELSE {}
        BY <1>1, <1>3, <2>1 DEF UnreadOf, Unread
    <2>3. CASE pc \in mem
        BY <1>2, <2>2, <2>3 DEF Preserves
    <2>4. CASE pc \notin mem
        BY <1>2, <2>2, <2>4 DEF Preserves, UnreadOf
    <2> QED
        BY <2>3, <2>4
<1>5. UnreadOf' = UnreadOf
    BY <1>4 DEF UnreadOf
<1>6. Promise!Join(J, c)
    BY <1>1, <1>5 DEF Promise!Join, mem
<1>7. Promise!Next \/ UNCHANGED <<lastId, member, UnreadOf, shown>>
    <2>1. CASE J = {}
        BY <1>1, <1>5, <2>1 DEF mem
    <2>2. CASE J # {}
        <3>1. PICK p \in Participants : p \in J
            BY <2>2
        <3> QED
            BY <1>6 DEF Promise!Next
    <2> QED
        BY <2>1, <2>2
<1>8. Grows(c)
    BY <1>3, <1>4 DEF Grows
<1> QED
    BY <1>7, <1>8, GrowsApart, GrowsCovered DEF Refines

(* Memberships end, in all channels or with their channel.                 *)
LEMMA EndRefines ==
    ASSUME InboxInv, NEW c \in Channels, NEW D, EndMemberships(D),
           log' = log \/ (D = Participants \X {c} /\ log' = [log EXCEPT ![c] = <<>>]),
           UNCHANGED <<lastId, replies, shown>>
    PROVE  Refines
<1>1. /\ log \in [Channels -> Seq(Message)]
      /\ member' = member \ D /\ member' \subseteq member
      /\ \A pc \in Memberships \ D : cursor'[pc] = cursor[pc]
    BY DEF InboxInv, MailboxInv, MailboxTypeOK, EndMemberships
<1>2. \A d \in Channels : log'[d] = log[d] \/ (log'[d] = <<>> /\ D = Participants \X {c} /\ d = c)
    BY <1>1
<1>3. \A d \in Channels : Ids(d)' \subseteq Ids(d)
    BY <1>2 DEF Ids
<1>4. ASSUME NEW pc \in Memberships
      PROVE  UnreadOf'[pc] = IF pc \in member' THEN UnreadOf[pc] ELSE {}
    <2>1. pc = <<pc[1], pc[2]>> /\ pc[1] \in Participants /\ pc[2] \in Channels
        BY DEF Memberships
    <2>2. CASE pc \notin member'
        BY <2>2 DEF UnreadOf
    <2>3. CASE pc \in member'
        <3>1. pc \in member /\ pc \notin D /\ cursor'[pc] = cursor[pc]
            BY <1>1, <2>3
        <3>2. log'[pc[2]] = log[pc[2]]
            BY <1>2, <2>1, <3>1
        <3>3. OthersIds(pc[1], pc[2])' = OthersIds(pc[1], pc[2])
            BY <3>2 DEF OthersIds
        <3> QED
            BY <2>1, <2>3, <3>1, <3>3 DEF UnreadOf, Unread
    <2> QED
        BY <2>2, <2>3
<1>5. UnreadOf' = [pc \in Memberships |-> IF pc \in member' THEN UnreadOf[pc] ELSE {}]
    BY <1>4 DEF UnreadOf
<1>6. Promise!Next
    <2>1. Promise!End
        BY <1>1, <1>5 DEF Promise!End, Memberships
    <2> QED
        BY <2>1 DEF Promise!Next
<1>7. Grows(c)
    BY <1>3, <1>4 DEF Grows
<1> QED
    BY <1>6, <1>7, GrowsApart, GrowsCovered DEF Refines

(* A step that Inbox does not see.                                         *)
LEMMA QuietRefines ==
    ASSUME InboxInv, UNCHANGED <<log, lastId, member, cursor, replies, shown>>
    PROVE  Refines
<1>1. UnreadOf' = UnreadOf
    BY DEF UnreadOf, Unread, OthersIds
<1>2. \A c \in Channels : Ids(c)' = Ids(c)
    BY DEF Ids
<1>3. IdsApart' /\ AnswersGivenOut' /\ AnswersCovered'
    BY <1>1, <1>2 DEF InboxInv, IdsApart, AnswersGivenOut, AnswersCovered
<1> QED
    BY <1>1, <1>3 DEF Refines

(* Fetch shows all that is unread, and its answer covers no more than it.  *)
LEMMA FetchRefines ==
    ASSUME InboxInv, NEW p \in Participants, NEW c \in Channels, Fetch(p, c)
    PROVE  Refines
<1> DEFINE r == [name |-> NameOf[c], through |-> Newest(Unread(p, c))]
<1>1. /\ UNCHANGED <<log, lastId, member, cursor>>
      /\ <<p, c>> \in member /\ Unread(p, c) # {}
      /\ replies' = [replies EXCEPT ![p] = @ \union {r}]
      /\ shown' = [shown EXCEPT ![p] = @ \union Unread(p, c)]
      /\ replies \in [Participants -> SUBSET Reply]
      /\ shown \in [Participants -> SUBSET Nat]
    BY DEF Fetch, rowVars, InboxInv, MailboxInv, MailboxTypeOK
<1>2. UnreadOf' = UnreadOf
    BY <1>1 DEF UnreadOf, Unread, OthersIds
<1>3. \A d \in Channels : Ids(d)' = Ids(d)
    BY <1>1 DEF Ids
<1>4. /\ UnreadOf[<<p, c>>] = Unread(p, c)
      /\ Unread(p, c) \subseteq Ids(c) /\ Ids(c) \subseteq 1..lastId /\ lastId \in Nat
    BY <1>1, UnreadInLog DEF InboxInv
<1>5. Newest(Unread(p, c)) \in Unread(p, c)
    BY <1>1, FetchCovers DEF InboxInv
<1>6. Promise!Next
    <2>1. Promise!Show(p, c)
        BY <1>1, <1>2, <1>4 DEF Promise!Show
    <2> QED
        BY <2>1 DEF Promise!Next
<1>7. /\ \A q \in Participants : shown[q] \subseteq shown'[q]
      /\ Unread(p, c) \subseteq shown'[p]
      /\ \A q \in Participants : \A a \in replies'[q] : a \in replies[q] \/ (q = p /\ a = r)
    BY <1>1
<1>8. AnswersGivenOut'
    BY <1>1, <1>4, <1>5, <1>7 DEF InboxInv, AnswersGivenOut
<1>9. ASSUME NEW q \in Participants, NEW d \in Channels, NEW a \in replies'[q],
             a.through \in Ids(d), NEW id \in UnreadOf[<<q, d>>], id <= a.through
      PROVE  id \in shown'[q]
    <2>1. CASE a \in replies[q]
        BY <1>7, <1>9, <2>1 DEF InboxInv, AnswersCovered
    <2>2. CASE q = p /\ a = r
        <3>1. a.through \in Ids(c)
            BY <1>4, <1>5, <2>2
        <3>2. d = c
            BY <1>9, <3>1 DEF InboxInv, IdsApart
        <3> QED
            BY <1>4, <1>7, <1>9, <2>2, <3>2
    <2> QED
        BY <1>7, <2>1, <2>2
<1>10. AnswersCovered'
    BY <1>2, <1>3, <1>9 DEF AnswersCovered
<1> QED
    BY <1>1, <1>3, <1>6, <1>8, <1>10 DEF Refines, InboxInv, IdsApart

(* An acknowledgement confirms only what its answer, or an earlier one,    *)
(* had shown.                                                              *)
LEMMA AckRefines ==
    ASSUME InboxInv, NEW p \in Participants, NEW c \in Channels,
           NEW reply \in replies[p], Ack(p, c, reply.through)
    PROVE  Refines
<1> DEFINE through == reply.through
           S == {id \in Unread(p, c) : id <= through}
<1>1. /\ UNCHANGED <<log, lastId, member, replies, shown>>
      /\ <<p, c>> \in member /\ through \in Ids(c) \union {0}
      /\ cursor' = AtLeast(cursor, p, c, through)
      /\ cursor \in [Memberships -> Nat] /\ <<p, c>> \in Memberships
    BY DEF Ack, InboxInv, MailboxInv, MailboxTypeOK, Memberships
<1>2. /\ UnreadOf[<<p, c>>] = Unread(p, c)
      /\ Unread(p, c) \subseteq Ids(c) /\ Ids(c) \subseteq 1..lastId /\ lastId \in Nat
    BY <1>1, UnreadInLog DEF InboxInv
<1>3. through \in Nat
    BY <1>1, <1>2
<1>4. S \subseteq shown[p]
    <2>1. CASE through = 0
        BY <1>2, <2>1
    <2>2. CASE through \in Ids(c)
        BY <1>2, <2>2 DEF InboxInv, AnswersCovered
    <2> QED
        BY <1>1, <2>1, <2>2
<1>5. /\ \A q \in Participants, d \in Channels : OthersIds(q, d)' = OthersIds(q, d)
      /\ \A d \in Channels : Ids(d)' = Ids(d)
    BY <1>1 DEF OthersIds, Ids
<1>6. ASSUME NEW pc \in Memberships
      PROVE  UnreadOf'[pc] = IF pc = <<p, c>> THEN UnreadOf[pc] \ S ELSE UnreadOf[pc]
    <2>1. pc = <<pc[1], pc[2]>> /\ pc[1] \in Participants /\ pc[2] \in Channels
        BY DEF Memberships
    <2>2. UnreadOf'[pc] = IF pc \in member THEN {x \in OthersIds(pc[1], pc[2]) : x > cursor'[pc]}
                                            ELSE {}
        BY <1>1, <1>5, <2>1 DEF UnreadOf, Unread
    <2>3. CASE pc # <<p, c>>
        <3>1. cursor'[pc] = cursor[pc]
            BY <1>1, <2>3 DEF AtLeast
        <3> QED
            BY <2>1, <2>2, <2>3, <3>1 DEF UnreadOf, Unread
    <2>4. CASE pc = <<p, c>>
        <3>1. cursor'[pc] = IF cursor[pc] >= through THEN cursor[pc] ELSE through
            BY <1>1, <2>4 DEF AtLeast
        <3>2. \A x \in OthersIds(p, c) : x \in Nat
            <4>1. OthersIds(p, c) \subseteq Ids(c)
                BY UnreadInLog DEF InboxInv
            <4> QED
                BY <1>2, <4>1
        <3>3. {x \in OthersIds(p, c) : x > cursor'[pc]} = Unread(p, c) \ S
            <4>1. cursor[pc] \in Nat
                BY <1>1
            <4> QED
                BY <1>3, <2>4, <3>1, <3>2, <4>1 DEF Unread
        <3> QED
            BY <1>1, <1>2, <2>1, <2>2, <2>4, <3>3
    <2> QED
        BY <2>3, <2>4
<1>7. UnreadOf' = [UnreadOf EXCEPT ![<<p, c>>] = @ \ S]
    BY <1>1, <1>6 DEF UnreadOf
<1>8. Promise!Next
    <2>1. S \in SUBSET UnreadOf[<<p, c>>]
        BY <1>2
    <2>2. Promise!Read(p, c, S)
        BY <1>1, <1>2, <1>4, <1>7 DEF Promise!Read
    <2> HIDE DEF S
    <2> QED
        BY <2>1, <2>2 DEF Promise!Next
<1>9. Grows(c)
    BY <1>1, <1>2, <1>5, <1>6 DEF Grows
<1> QED
    BY <1>1, <1>8, <1>9, GrowsApart, GrowsCovered DEF Refines

LEMMA StepRefines ==
    ASSUME InboxInv, [MailboxNext]_mailboxVars
    PROVE  Refines
<1>1. ASSUME NEW c \in Channels, CreateChannel(c)
      PROVE  Refines
    BY <1>1, QuietRefines DEF CreateChannel
<1>2. ASSUME NEW c \in Channels, DeleteChannel(c)
      PROVE  Refines
    BY <1>2, EndRefines DEF DeleteChannel
<1>3. ASSUME NEW p \in Participants, Deactivate(p)
      PROVE  Refines
    BY <1>3, QuietRefines DEF Deactivate, rowVars
<1>4. ASSUME NEW p \in Participants, NEW c \in Channels, Join(p, c) \/ AddMember(p, c)
      PROVE  Refines
    BY <1>4, StartRefines DEF Join, AddMember
<1>5. ASSUME NEW p \in Participants, NEW c \in Channels, RemoveMember(p, c)
      PROVE  Refines
    BY <1>5, EndRefines DEF RemoveMember
<1>6. ASSUME NEW p \in Participants, NEW c \in Channels, Send(p, c)
      PROVE  Refines
    <2>1. InsertMessage(p, c, member, cursor, notified)
        BY <1>6 DEF Send
    <2>2. Preserves(member, cursor)
        BY MemberPreserves DEF Preserves, InboxInv, MailboxInv, MailboxTypeOK
    <2>3. member = member \union ({} \X {c}) /\ {} \in SUBSET Participants
        OBVIOUS
    <2> QED
        BY <2>1, <2>2, <2>3, PostRefines
<1>7. ASSUME NEW p \in Participants, NEW c \in Channels, SendDirect(p, c)
      PROVE  Refines
    <2> DEFINE J   == IF Open(c) THEN {} ELSE Between[c]
               mem == member \union (J \X {c})
    <2>1. InsertMessage(p, c, mem, cursor, notified) /\ J \in SUBSET Participants
        BY <1>7, MailboxAssumption DEF SendDirect
    <2>2. /\ cursor \in [Memberships -> Nat] /\ member \subseteq Memberships
          /\ lastId \in Nat
        BY DEF InboxInv, MailboxInv, MailboxTypeOK
    <2>3. \A pc \in member :
              /\ cursor[pc] \in 0..lastId
              /\ {id \in OthersIds(pc[1], pc[2]) : id > cursor[pc]} = UnreadOf[pc]
        BY MemberPreserves DEF InboxInv
    <2>4. ASSUME NEW pc \in mem, pc \notin member
          PROVE  /\ cursor[pc] \in 0..lastId
                 /\ {id \in OthersIds(pc[1], pc[2]) : id > cursor[pc]} = UnreadOf[pc]
        <3>1. pc \in Memberships /\ pc[2] = c /\ ~Open(c)
            BY <2>1, <2>4 DEF Memberships
        <3>2. log[c] = <<>> /\ cursor[pc] = 0
            BY <2>4, <3>1 DEF InboxInv, MailboxInv, NoRowNoMarks, DeletedLeavesNothing, Open
        <3>3. OthersIds(pc[1], pc[2]) = {}
            BY <3>1, <3>2 DEF OthersIds
        <3> QED
            BY <2>2, <2>4, <3>1, <3>2, <3>3 DEF UnreadOf
    <2> HIDE DEF mem
    <2>5. Preserves(mem, cursor)
        BY <2>2, <2>3, <2>4 DEF Preserves, mem
    <2> HIDE DEF J
    <2> QED
        BY <2>1, <2>5, PostRefines DEF mem
<1>8. ASSUME NEW p \in Participants, NEW c \in Channels, NEW R \in SUBSET Participants,
             BroadcastWorkspace(p, c, R)
      PROVE  Refines
    <2>1. Preserves(member \union (R \X {c}), Joined(cursor, R, c))
        BY StartPreserves DEF InboxInv
    <2> QED
        BY <1>8, <2>1, PostRefines DEF BroadcastWorkspace
<1>9. ASSUME NEW p \in Participants, NEW c \in Channels, NotifierWrites(p, c)
      PROVE  Refines
    BY <1>9, QuietRefines DEF NotifierWrites
<1>10. ASSUME NEW c \in Workspace, NEW J \in SUBSET Participants, EnsureWorkspaceMembers(c, J)
       PROVE  Refines
    BY <1>10, StartRefines DEF EnsureWorkspaceMembers, Channels
<1>11. ASSUME NEW c \in Workspace, NEW J \in SUBSET Participants, NEW e \in BOOLEAN,
              RollbackWorkspaceMembers(c, J, e)
       PROVE  Refines
    BY <1>11, EndRefines DEF RollbackWorkspaceMembers, Channels
<1>12. CASE UNCHANGED mailboxVars
    BY <1>12, QuietRefines DEF mailboxVars
<1>13. CASE MailboxNext
    <2>1. \/ \E c \in Channels : CreateChannel(c) \/ DeleteChannel(c)
          \/ \E p \in Participants : Deactivate(p)
          \/ \E p \in Participants, c \in Channels :
                \/ Join(p, c) \/ AddMember(p, c) \/ RemoveMember(p, c)
                \/ Send(p, c) \/ SendDirect(p, c)
                \/ Fetch(p, c) \/ NotifierWrites(p, c)
          \/ \E p \in Participants, c \in Channels, R \in SUBSET Participants :
                BroadcastWorkspace(p, c, R)
          \/ \E p \in Participants, c \in Channels : \E reply \in replies[p] :
                Ack(p, c, reply.through)
          \/ \E c \in Workspace, J \in SUBSET Participants : EnsureWorkspaceMembers(c, J)
          \/ \E c \in Workspace, J \in SUBSET Participants, e \in BOOLEAN :
                RollbackWorkspaceMembers(c, J, e)
        BY <1>13 DEF MailboxNext
    <2> QED
        BY <2>1, <1>1, <1>2, <1>3, <1>4, <1>5, <1>6, <1>7, <1>8, <1>9, <1>10, <1>11,
           FetchRefines, AckRefines
<1> QED
    BY <1>12, <1>13

(* The store keeps the promise of Inbox, whatever the participants,        *)
(* channels and bounds: a message becomes unread for every member but its  *)
(* sender when it is stored, and stops being so only when the membership   *)
(* ends or when its member acknowledges an answer that fetch gave it, late *)
(* or repeated as the acknowledgement may be.                              *)
THEOREM StoreKeepsPromise == MailboxSpec => KeepsPromise
<1>1. MailboxInit => Promise!Init /\ InboxInv
    <2> SUFFICES ASSUME MailboxInit
                 PROVE  Promise!Init /\ InboxInv
        OBVIOUS
    <2>1. MailboxInv
        BY InitInv
    <2>2. \A c \in Channels : Ids(c) = {}
        BY DEF MailboxInit, Ids
    <2>3. IdsApart /\ AnswersGivenOut /\ AnswersCovered
        BY <2>2 DEF MailboxInit, IdsApart, AnswersGivenOut, AnswersCovered
    <2>4. UnreadOf = [pc \in Participants \X Channels |-> {}]
        BY DEF MailboxInit, UnreadOf, Memberships
    <2> QED
        BY <2>1, <2>3, <2>4 DEF MailboxInit, Promise!Init, InboxInv
<1>2. InboxInv /\ [MailboxNext]_mailboxVars => InboxInv'
    BY NextInv, StepRefines DEF InboxInv, Refines
<1>3. InboxInv /\ [MailboxNext]_mailboxVars => [Promise!Next]_(Promise!vars)
    BY StepRefines DEF Refines, Promise!vars
<1> QED
    BY <1>1, <1>2, <1>3, PTL DEF MailboxSpec, KeepsPromise, Promise!Spec

-----------------------------------------------------------------------------
(* What a request does to the rows that a pass in flight relies on.        *)

(* A membership keeps its marks, or starts or is caught up above every     *)
(* message there was, or its owner, one of P, has read on.                 *)
Moves(P, pc) ==
    \/ pc \in member /\ cursor'[pc] = cursor[pc] /\ notified'[pc] = notified[pc]
    \/ cursor'[pc] = notified'[pc] /\ \A id \in Ids(pc[2]) : id <= cursor'[pc]
    \/ /\ pc \in member /\ pc[1] \in P
       /\ cursor[pc] <= cursor'[pc]
       /\ notified'[pc] = notified[pc] \/ notified'[pc] = cursor'[pc]

StoreStep(P) ==
    /\ MailboxInv'
    /\ \A c \in Channels : \/ status'[c] = "deleted"
                           \/ status[c] # "deleted" /\ Ids(c) \subseteq Ids(c)'
    /\ \A pc \in member' : Moves(P, pc)

LEMMA SameRows ==
    ASSUME MailboxInv', NEW P, UNCHANGED <<status, log, cursor, notified>>,
           member' \subseteq member
    PROVE  StoreStep(P)
<1>1. \A c \in Channels : Ids(c)' = Ids(c)
    BY DEF Ids
<1>2. \A pc \in member' : Moves(P, pc)
    BY DEF Moves
<1> QED
    BY <1>1, <1>2 DEF StoreStep

LEMMA StartSteps ==
    ASSUME MailboxInv, MailboxInv', NEW P, NEW p \in Participants, NEW c \in Channels,
           StartMemberships({p}, c), UNCHANGED <<status, log>>
    PROVE  StoreStep(P)
<1>1. \A d \in Channels : Ids(d)' = Ids(d)
    BY DEF Ids
<1>2. \A id \in Ids(c) : id <= HighWater(c)
    BY HighWaterGreatest
<1>3. ASSUME NEW pc \in member'
      PROVE  Moves(P, pc)
    <2>1. /\ pc \in Memberships
          /\ cursor' = Joined(cursor, {p}, c) /\ notified' = Joined(notified, {p}, c)
          /\ member' = member \union ({p} \X {c})
        BY DEF MailboxInv, MailboxTypeOK, StartMemberships
    <2>2. CASE pc \in member
        <3>1. cursor'[pc] = cursor[pc] /\ notified'[pc] = notified[pc]
            BY <2>1, <2>2 DEF Joined
        <3> QED
            BY <2>2, <3>1 DEF Moves
    <2>3. CASE pc \notin member
        <3>1. pc \in ({p} \X {c}) \ member /\ pc[2] = c
            BY <2>1, <2>3
        <3>2. cursor'[pc] = HighWater(c) /\ notified'[pc] = HighWater(c)
            BY <2>1, <3>1 DEF Joined
        <3> QED
            BY <1>2, <3>1, <3>2 DEF Moves
    <2> QED
        BY <2>2, <2>3
<1> QED
    BY <1>1, <1>3 DEF StoreStep, MailboxInv, DeletedLeavesNothing

LEMMA EndSteps ==
    ASSUME MailboxInv, MailboxInv', NEW P, NEW D, NEW c \in Channels, EndMemberships(D),
           \/ UNCHANGED <<status, log>>
           \/ /\ Open(c) /\ status' = [status EXCEPT ![c] = "deleted"]
              /\ log' = [log EXCEPT ![c] = <<>>]
    PROVE  StoreStep(P)
<1>1. /\ status \in [Channels -> {"unborn", "open", "deleted"}]
      /\ log \in [Channels -> Seq(Message)] /\ member' \subseteq Memberships
    BY DEF MailboxInv, MailboxTypeOK
<1>2. ASSUME NEW d \in Channels
      PROVE  \/ status'[d] = "deleted"
             \/ status[d] # "deleted" /\ Ids(d) \subseteq Ids(d)'
    <2>1. CASE status[d] = "deleted"
        BY <1>1, <2>1
    <2>2. CASE status[d] # "deleted"
        <3>1. status'[d] = "deleted" \/ log'[d] = log[d]
            BY <1>1
        <3> QED
            BY <2>2, <3>1 DEF Ids
    <2> QED
        BY <2>1, <2>2
<1>3. \A pc \in member' : Moves(P, pc)
    BY <1>1 DEF EndMemberships, Moves
<1> QED
    BY <1>2, <1>3 DEF StoreStep

(* A message is newer than all; a sender that had read all is caught up.   *)
LEMMA SendSteps ==
    ASSUME MailboxInv, MailboxInv', NEW P, NEW p \in Participants, NEW c \in Channels, Send(p, c)
    PROVE  StoreStep(P)
<1>1. /\ lastId \in Nat /\ log \in [Channels -> Seq(Message)] /\ member \subseteq Memberships
      /\ cursor \in [Memberships -> Nat] /\ notified \in [Memberships -> Nat]
      /\ \A d \in Channels : Ids(d) \subseteq 1..lastId
    BY DEF MailboxInv, MailboxTypeOK, IdsGivenOut, Ids
<1>2. /\ status' = status /\ member' = member
      /\ log' = [log EXCEPT ![c] = Append(log[c], [id |-> lastId + 1, from |-> p])]
      /\ \/ cursor' = cursor /\ notified' = notified
         \/ /\ cursor' = [cursor EXCEPT ![<<p, c>>] = lastId + 1]
            /\ notified' = [notified EXCEPT ![<<p, c>>] = lastId + 1]
    BY DEF Send, InsertMessage
<1>3. ASSUME NEW d \in Channels
      PROVE  Ids(d) \subseteq Ids(d)'
    <2>1. /\ log[d] \in Seq(Message) /\ DOMAIN log[d] = 1..Len(log[d]) /\ Len(log[d]) \in Nat
        BY <1>1
    <2>2. CASE d # c
        BY <1>1, <1>2, <2>2 DEF Ids
    <2>3. CASE d = c
        <3>1. /\ log'[d] = Append(log[d], [id |-> lastId + 1, from |-> p])
              /\ \A i \in DOMAIN log[d] : i \in DOMAIN log'[d] /\ log'[d][i] = log[d][i]
            BY <1>1, <1>2, <2>1, <2>3
        <3> QED
            BY <3>1 DEF Ids
    <2> QED
        BY <2>2, <2>3
<1>4. ASSUME NEW pc \in member'
      PROVE  Moves(P, pc)
    <2>1. pc \in member /\ pc \in Memberships /\ pc[2] \in Channels
        BY <1>1, <1>2 DEF Memberships
    <2>2. \A id \in Ids(pc[2]) : id <= lastId + 1
        BY <1>1, <2>1
    <2>3. \/ cursor'[pc] = cursor[pc] /\ notified'[pc] = notified[pc]
          \/ cursor'[pc] = lastId + 1 /\ notified'[pc] = lastId + 1
        BY <1>1, <1>2, <2>1
    <2> QED
        BY <2>1, <2>2, <2>3 DEF Moves
<1> QED
    BY <1>2, <1>3, <1>4 DEF StoreStep, MailboxInv, DeletedLeavesNothing

LEMMA AckSteps ==
    ASSUME MailboxInv, MailboxInv', NEW p \in Participants, NEW c \in Channels, NEW through,
           Ack(p, c, through)
    PROVE  StoreStep({p})
<1>1. /\ cursor \in [Memberships -> Nat] /\ notified \in [Memberships -> Nat]
      /\ member \subseteq Memberships /\ <<p, c>> \in member
      /\ UNCHANGED <<status, log, member>>
      /\ cursor' = AtLeast(cursor, p, c, through) /\ notified' = AtLeast(notified, p, c, through)
    BY DEF Ack, MailboxInv, MailboxTypeOK
<1>2. through \in Nat
    BY IdsAreNat DEF Ack, MailboxInv
<1>3. \A d \in Channels : Ids(d)' = Ids(d)
    BY <1>1 DEF Ids
<1>4. ASSUME NEW pc \in member
      PROVE  Moves({p}, pc)
    <2>1. pc \in Memberships /\ cursor[pc] \in Nat /\ notified[pc] \in Nat
          /\ cursor[pc] <= notified[pc]
        BY <1>1 DEF MailboxInv, RowsAgree, WatermarksInChannel
    <2>2. CASE pc # <<p, c>>
        <3>1. cursor'[pc] = cursor[pc] /\ notified'[pc] = notified[pc]
            BY <1>1, <2>1, <2>2 DEF AtLeast
        <3> QED
            BY <3>1 DEF Moves
    <2>3. CASE pc = <<p, c>>
        <3>1. /\ cursor'[pc] = IF cursor[pc] >= through THEN cursor[pc] ELSE through
              /\ notified'[pc] = IF notified[pc] >= through THEN notified[pc] ELSE through
            BY <1>1, <2>1, <2>3 DEF AtLeast
        <3>2. /\ cursor[pc] <= cursor'[pc]
              /\ notified'[pc] = notified[pc] \/ notified'[pc] = cursor'[pc]
            BY <1>2, <2>1, <3>1
        <3> QED
            BY <2>3, <3>2 DEF Moves
    <2> QED
        BY <2>2, <2>3
<1> QED
    BY <1>1, <1>3, <1>4 DEF StoreStep

(* Every request of an agent, and everything that humans do to channels,   *)
(* is such a step.                                                         *)
LEMMA MailboxStep ==
    ASSUME MailboxInv, MailboxNext
    PROVE  MailboxInv'
BY NextInv

LEMMA RequestSteps ==
    ASSUME MailboxInv, NEW p \in Participants, NEW c \in Channels,
           \/ Fetch(p, c)
           \/ Join(p, c)
           \/ \E reply \in replies[p] : Ack(p, c, reply.through)
    PROVE  StoreStep({p})
<1>1. MailboxNext
    BY DEF MailboxNext
<1>2. MailboxInv'
    BY <1>1, MailboxStep
<1>3. CASE Fetch(p, c)
    BY <1>2, <1>3, SameRows DEF Fetch, rowVars
<1>4. CASE Join(p, c)
    BY <1>2, <1>4, StartSteps DEF Join
<1>5. CASE \E reply \in replies[p] : Ack(p, c, reply.through)
    BY <1>2, <1>5, AckSteps
<1> QED
    BY <1>3, <1>4, <1>5

LEMMA SendIsStep ==
    ASSUME MailboxInv, NEW P, NEW p \in Participants, NEW c \in Channels, Send(p, c)
    PROVE  StoreStep(P)
<1>1. MailboxNext
    BY DEF MailboxNext
<1> QED
    BY <1>1, MailboxStep, SendSteps

LEMMA ManagingSteps ==
    ASSUME MailboxInv, NEW c \in Channels,
           \/ CreateChannel(c)
           \/ DeleteChannel(c)
           \/ \E p \in Participants : AddMember(p, c) \/ RemoveMember(p, c)
    PROVE  StoreStep({})
<1>1. MailboxNext
    BY DEF MailboxNext
<1>2. MailboxInv'
    BY <1>1, MailboxStep
<1>3. CASE CreateChannel(c)
    <2>1. /\ UNCHANGED <<log, member, cursor, notified>>
          /\ status' = [status EXCEPT ![c] = "open"] /\ status[c] = "unborn"
          /\ status \in [Channels -> {"unborn", "open", "deleted"}]
        BY <1>3 DEF CreateChannel, Insertable, MailboxInv, MailboxTypeOK
    <2>2. \A d \in Channels : Ids(d)' = Ids(d)
        BY <2>1 DEF Ids
    <2>3. \A d \in Channels : status'[d] = "deleted" \/ status[d] # "deleted"
        BY <2>1
    <2>4. \A pc \in member' : Moves({}, pc)
        BY <2>1 DEF Moves
    <2> QED
        BY <1>2, <2>2, <2>3, <2>4 DEF StoreStep
<1>4. CASE DeleteChannel(c)
    BY <1>2, <1>4, EndSteps DEF DeleteChannel
<1>5. CASE \E p \in Participants : AddMember(p, c) \/ RemoveMember(p, c)
    <2>1. PICK p \in Participants : AddMember(p, c) \/ RemoveMember(p, c)
        BY <1>5
    <2>2. CASE AddMember(p, c)
        BY <1>2, <2>2, StartSteps DEF AddMember
    <2>3. CASE RemoveMember(p, c)
        BY <1>2, <2>3, EndSteps DEF RemoveMember
    <2> QED
        BY <2>1, <2>2, <2>3
<1> QED
    BY <1>3, <1>4, <1>5

LEMMA DeactivateSteps ==
    ASSUME MailboxInv, NEW p \in Participants, Deactivate(p)
    PROVE  StoreStep({})
<1>1. MailboxNext
    BY DEF MailboxNext
<1> QED
    BY <1>1, MailboxStep, SameRows DEF Deactivate, rowVars

LEMMA NothingStored ==
    ASSUME MailboxInv, NEW P, UNCHANGED mailboxVars
    PROVE  StoreStep(P)
<1>1. UNCHANGED <<status, log, lastId, member, cursor, notified, retired, replies, shown>>
    BY DEF mailboxVars
<1>2. MailboxInv'
    BY NextInv
<1> QED
    BY <1>1, <1>2, SameRows

(* The notifier writes one watermark of memberships, within their channel  *)
(* and never below what was read.                                          *)
LEMMA MarksWritten ==
    ASSUME MailboxInv, UNCHANGED <<status, log, lastId, member, cursor, retired, replies, shown>>,
           notified' \in [Memberships -> Nat],
           \A pc \in Memberships \ member : notified'[pc] = notified[pc],
           \A pc \in member : /\ notified'[pc] \in Ids(pc[2]) \union {0}
                              /\ cursor[pc] <= notified'[pc]
    PROVE  MailboxInv' /\ \A c \in Channels : Ids(c)' = Ids(c)
<1>1. IdsGivenOut' /\ LogOrdered' /\ \A c \in Channels : Ids(c)' = Ids(c)
    BY LogsKept
<1>2. WatermarksInChannel'
    BY <1>1 DEF MailboxInv, MailboxTypeOK, RowsAgree, WatermarksInChannel, Memberships
<1>3. NoRowNoMarks'
    BY DEF MailboxInv, NoRowNoMarks
<1>4. DeletedLeavesNothing'
    <2>1. \A c \in Channels, p \in Participants : <<p, c>> \in Memberships
        BY DEF Memberships
    <2> QED
        BY <2>1 DEF MailboxInv, DeletedLeavesNothing
<1> QED
    BY <1>1, <1>2, <1>3, <1>4 DEF MailboxInv, MailboxTypeOK, RowsAgree

-----------------------------------------------------------------------------
(* The invariant of a pass.                                                *)

(* Rows that a pass read end at a message of their channel, while there is *)
(* a channel.                                                              *)
RowsInLog ==
    \A row \in job.rows \union job.pings :
        row.through \in Ids(row.chan) \/ status[row.chan] = "deleted"

(* The rows whose agents the first loop has not handled.                   *)
Left == IF job.at \in {"listing", "listed"} THEN job.rows
        ELSE IF job.at \in {"deliver", "prompting", "prompted"}
             THEN {row \in job.rows : row.who \in job.todo}
        ELSE {}

(* They were news when they were read, and stay so unless they are read:   *)
(* nobody else marks them, since an agent is prompted once in a pass.      *)
StillNews ==
    \A row \in Left : <<row.who, row.chan>> \in member =>
        \/ notified[<<row.who, row.chan>>] < row.through
        \/ row.through <= cursor[<<row.who, row.chan>>]

PromptFits ==
    job.at \in {"prompting", "prompted"} =>
        /\ job.who \in Agents \ job.todo
        /\ confirm[job.who].state = "none"
        /\ \A row \in job.pings : row.who = job.who

(* A mark beyond what was read is the agent's to answer or the notifier's  *)
(* to take back, and the notifier drops only what was answered.            *)
Remembered ==
    /\ \A a \in Agents, c \in Channels :
          (<<a, c>> \in member /\ cursor[<<a, c>>] < notified[<<a, c>>])
              => answered[<<a, c>>] \/ Awaited(a, c)
    /\ \A a \in heard, c \in Channels : Awaited(a, c) => answered[<<a, c>>]

NotifierInv ==
    /\ NotifierTypeOK
    /\ MailboxInv
    /\ OneActivePerTerminal
    /\ RowsInLog
    /\ StillNews
    /\ PromptFits
    /\ restarts = 0 => Remembered

(* What was read of the store, and when, where a step changes the job.     *)
LEMMA JobSteps ==
    ASSUME NotifierInv,
           UNCHANGED <<mailboxVars, herdrVars, known, route, confirm, heard, idleTicks,
                       escalated, answered, restarts>>,
           job' \in Job, queued' \subseteq Names, inputs' \in 0..MaxInputs,
           \A row \in job'.rows \union job'.pings :
               row \in job.rows \union job.pings \/ row.through \in Ids(row.chan),
           Left' \subseteq Left, PromptFits'
    PROVE  NotifierInv'
<1>1. /\ UNCHANGED <<status, log, lastId, member, cursor, notified, retired, replies, shown>>
      /\ UNCHANGED <<live, kind, activity>>
    BY DEF mailboxVars, herdrVars
<1>2. StoreStep({})
    BY NothingStored DEF NotifierInv
<1>3. MailboxInv'
    BY <1>2 DEF StoreStep
<1>4. RoutesTypeOK' /\ OneActivePerTerminal'
    BY <1>1 DEF NotifierInv, NotifierTypeOK, RoutesTypeOK, HerdrTypeOK, OneActivePerTerminal, Active
<1>5. NotifierTypeOK'
    BY <1>3, <1>4 DEF NotifierInv, NotifierTypeOK, MailboxInv
<1>6. \A c \in Channels : Ids(c)' = Ids(c)
    BY <1>1 DEF Ids
<1>7. RowsInLog'
    <2>1. \A row \in job'.rows \union job'.pings : row.chan \in Channels
        BY DEF Job, Row
    <2> QED
        BY <1>1, <1>6, <2>1 DEF NotifierInv, RowsInLog
<1>8. StillNews'
    BY <1>1 DEF NotifierInv, StillNews
<1>9. Remembered => Remembered'
    BY <1>1 DEF Remembered, Awaited
<1> QED
    BY <1>3, <1>4, <1>5, <1>7, <1>8, <1>9 DEF NotifierInv

-----------------------------------------------------------------------------
(* Steps that only move the pass on.                                       *)

LEMMA NoJobFits == NoJob \in Job /\ NoJob.at = "idle" /\ NoJob.rows = {} /\ NoJob.pings = {}
<1>1. Unrouted \in Route
    BY DEF Unrouted, Route
<1>2. [a \in Agents |-> Unrouted] \in [Agents -> Route]
    BY <1>1
<1> QED
    BY <1>2 DEF NoJob, Job, Busy, Waits

LEMMA PendingRows ==
    ASSUME MailboxInv, NEW ntf, NEW scope, NEW state
    PROVE  \A row \in Pending(ntf, scope, state) :
               /\ row \in Row
               /\ <<row.who, row.chan>> \in member
               /\ row.through \in Ids(row.chan)
               /\ row.through > ntf[<<row.who, row.chan>>]
<1> SUFFICES ASSUME NEW row \in Pending(ntf, scope, state)
             PROVE  /\ row \in Row
                    /\ <<row.who, row.chan>> \in member
                    /\ row.through \in Ids(row.chan)
                    /\ row.through > ntf[<<row.who, row.chan>>]
    OBVIOUS
<1>1. PICK pc \in member : /\ pc[1] \in Agents
                           /\ News(pc[1], pc[2], ntf) # {}
                           /\ row = [who |-> pc[1], chan |-> pc[2],
                                     through |-> Newest(News(pc[1], pc[2], ntf))]
    BY DEF Pending
<1>2. pc[2] \in Channels /\ pc = <<pc[1], pc[2]>>
    BY DEF MailboxInv, MailboxTypeOK, Memberships
<1>3. /\ News(pc[1], pc[2], ntf) \subseteq Ids(pc[2])
      /\ \A id \in News(pc[1], pc[2], ntf) : id > ntf[<<pc[1], pc[2]>>]
    BY DEF News, Ids
<1>4. Ids(pc[2]) \subseteq 0..lastId /\ lastId \in Nat
    BY <1>2 DEF MailboxInv, MailboxTypeOK, IdsGivenOut, Ids
<1>5. Newest(News(pc[1], pc[2], ntf)) \in News(pc[1], pc[2], ntf)
    BY <1>1, <1>3, <1>4, GreatestExists
<1> QED
    BY <1>1, <1>2, <1>3, <1>4, <1>5 DEF Row

LEMMA SeenFits ==
    ASSUME RoutesTypeOK, NEW rows
    PROVE  SeenBy(rows) \in [Agents -> Route]
<1>1. Unrouted \in Route
    BY DEF Unrouted, Route
<1> QED
    BY <1>1 DEF SeenBy, RoutesTypeOK

LEMMA FinishedFits ==
    ASSUME job \in Job
    PROVE  /\ Finished \in Job /\ Finished.at \in {"onTick", "drain"}
           /\ Finished.rows = {} /\ Finished.pings = {}
<1>1. job.batch \in SUBSET Names
    BY DEF Job
<1>2. AfterDeliver(job.scope) \in {"onTick", "drain"}
    BY DEF AfterDeliver
<1>3. \A at \in {"onTick", "drain"}, batch \in SUBSET Names :
          /\ [NoJob EXCEPT !.at = at, !.batch = batch] \in Job
          /\ [NoJob EXCEPT !.at = at, !.batch = batch].at = at
          /\ [NoJob EXCEPT !.at = at, !.batch = batch].rows = {}
          /\ [NoJob EXCEPT !.at = at, !.batch = batch].pings = {}
    BY NoJobFits DEF Job, Busy, Waits
<1>4. PICK at \in {"onTick", "drain"} : at = AfterDeliver(job.scope)
    BY <1>2
<1>5. PICK batch \in SUBSET Names : batch = job.batch
    BY <1>1
<1>6. Finished = [NoJob EXCEPT !.at = at, !.batch = batch]
    BY <1>4, <1>5 DEF Finished
<1> QED
    BY <1>3, <1>6

(* A pass that begins, waits or ends outside the first loop has no rows    *)
(* that it will prompt for.                                                *)
LEMMA QuietJobSteps ==
    ASSUME NotifierInv,
           UNCHANGED <<mailboxVars, herdrVars, known, route, confirm, heard, idleTicks,
                       escalated, answered, restarts>>,
           job' \in Job, queued' \subseteq Names, inputs' \in 0..MaxInputs,
           \A row \in job'.rows \union job'.pings :
               row \in job.rows \union job.pings \/ row.through \in Ids(row.chan),
           job'.at \notin {"listing", "listed", "deliver", "prompting", "prompted"}
    PROVE  NotifierInv'
<1>1. Left' = {}
    BY DEF Left
<1>2. PromptFits'
    BY DEF PromptFits
<1> QED
    BY <1>1, <1>2, JobSteps

LEMMA TickKeeps == ASSUME NotifierInv, Tick PROVE NotifierInv'
<1>1. job' = [NoJob EXCEPT !.at = "start"] /\ UNCHANGED <<queued, inputs>>
    BY DEF Tick
<1>2. job' \in Job /\ job'.at = "start" /\ job'.rows = {} /\ job'.pings = {}
    BY <1>1, NoJobFits DEF Job, Busy
<1>3. queued \subseteq Names /\ inputs \in 0..MaxInputs
    BY DEF NotifierInv, NotifierTypeOK
<1> QED
    BY <1>1, <1>2, <1>3, QuietJobSteps DEF Tick

LEMMA PanesListedKeeps == ASSUME NotifierInv, PanesListed PROVE NotifierInv'
<1>1. PaneList \subseteq PaneRecord
    BY PaneListType DEF NotifierInv, NotifierTypeOK, RoutesTypeOK
<1>2. job' = [job EXCEPT !.at = "listed", !.panes = PaneList] /\ job.at = "listing"
    BY DEF PanesListed
<1>3. /\ job' \in Job /\ job'.at = "listed"
      /\ job'.rows = job.rows /\ job'.pings = job.pings
    BY <1>1, <1>2 DEF NotifierInv, NotifierTypeOK, Job, Waits
<1>4. queued \subseteq Names /\ inputs \in 0..MaxInputs
    BY DEF NotifierInv, NotifierTypeOK
<1>5. Left' = Left
    BY <1>2, <1>3 DEF Left
<1>6. PromptFits'
    BY <1>3 DEF PromptFits
<1> QED
    BY <1>3, <1>4, <1>5, <1>6, JobSteps DEF PanesListed

LEMMA ListFailsKeeps == ASSUME NotifierInv, ListFails PROVE NotifierInv'
<1>1. /\ job' = Finished /\ UNCHANGED queued
      /\ inputs < MaxInputs /\ inputs' = inputs + 1
    BY DEF ListFails, Input
<1>2. queued \subseteq Names /\ inputs \in 0..MaxInputs /\ job \in Job /\ MaxInputs \in Nat
    BY NotifierAssumption DEF NotifierInv, NotifierTypeOK
<1>3. inputs' \in 0..MaxInputs
    BY <1>1, <1>2
<1> QED
    BY <1>1, <1>2, <1>3, FinishedFits, QuietJobSteps DEF ListFails

LEMMA ListArrivesKeeps == ASSUME NotifierInv, ListArrives PROVE NotifierInv'
<1>1. /\ job' = [job EXCEPT !.at = "deliver", !.todo = Receivers(job.rows)]
      /\ job.at = "listed" /\ job \in Job
    BY DEF ListArrives, NotifierInv, NotifierTypeOK
<1>2. Receivers(job.rows) \subseteq Agents
    BY <1>1 DEF Receivers, Job, Row
<1>3. /\ job' \in Job /\ job'.at = "deliver"
      /\ job'.rows = job.rows /\ job'.pings = job.pings
    BY <1>1, <1>2 DEF Job, Busy
<1>4. queued \subseteq Names /\ inputs \in 0..MaxInputs
    BY DEF NotifierInv, NotifierTypeOK
<1>5. Left' \subseteq Left
    BY <1>1, <1>3 DEF Left
<1>6. PromptFits'
    BY <1>3 DEF PromptFits
<1> QED
    BY <1>3, <1>4, <1>5, <1>6, JobSteps DEF ListArrives

LEMMA PromptEndsKeeps == ASSUME NotifierInv, HerdrPrompts \/ PromptFails PROVE NotifierInv'
<1>1. PICK answer \in {"ok", "absent", "failed"} :
          job' = [job EXCEPT !.at = "prompted", !.answer = answer]
    BY DEF HerdrPrompts, PromptFails
<1>2. /\ job.at = "prompting" /\ job \in Job
      /\ UNCHANGED <<mailboxVars, herdrVars, known, route, confirm, heard, idleTicks,
                     escalated, queued, answered, restarts>>
    BY DEF HerdrPrompts, PromptFails, NotifierInv, NotifierTypeOK
<1>3. /\ job' \in Job /\ job'.at = "prompted" /\ job'.rows = job.rows
      /\ job'.pings = job.pings /\ job'.todo = job.todo /\ job'.who = job.who
    BY <1>1, <1>2 DEF Job, Waits
<1>4. queued' \subseteq Names /\ inputs' \in 0..MaxInputs
    <2>1. queued \subseteq Names /\ inputs \in 0..MaxInputs /\ MaxInputs \in Nat
        BY NotifierAssumption DEF NotifierInv, NotifierTypeOK
    <2>2. inputs' = inputs \/ (inputs < MaxInputs /\ inputs' = inputs + 1)
        BY DEF HerdrPrompts, PromptFails, Input
    <2> QED
        BY <1>2, <2>1, <2>2
<1>5. Left' = Left
    BY <1>2, <1>3 DEF Left
<1>6. PromptFits'
    BY <1>2, <1>3 DEF PromptFits, NotifierInv
<1> QED
    BY <1>2, <1>3, <1>4, <1>5, <1>6, JobSteps

LEMMA LookForStaleKeeps == ASSUME NotifierInv, LookForStale PROVE NotifierInv'
<1>1. PICK rows : /\ rows = Pending(notified, job.scope, "stale")
                  /\ job' = [job EXCEPT !.at = "stale", !.rows = rows, !.seen = SeenBy(rows),
                                        !.todo = Receivers(rows)]
    BY DEF LookForStale
<1>2. \A row \in rows : row \in Row /\ row.through \in Ids(row.chan)
    BY <1>1, PendingRows DEF NotifierInv
<1>3. SeenBy(rows) \in [Agents -> Route] /\ Receivers(rows) \subseteq Agents
    BY <1>2, SeenFits DEF NotifierInv, NotifierTypeOK, Receivers, Row
<1>4. job \in Job /\ queued \subseteq Names /\ inputs \in 0..MaxInputs
    BY DEF NotifierInv, NotifierTypeOK
<1>5. job' \in Job /\ job'.at = "stale" /\ job'.rows = rows /\ job'.pings = job.pings
    BY <1>1, <1>2, <1>3, <1>4 DEF Job, Busy
<1> QED
    BY <1>2, <1>4, <1>5, QuietJobSteps DEF LookForStale

LEMMA OtherJobsKeep ==
    ASSUME NotifierInv, EscalationAnswered \/ EndDeliver \/ Drain \/ Close
    PROVE  NotifierInv'
<1>1. job \in Job /\ queued \subseteq Names /\ inputs \in 0..MaxInputs
    BY DEF NotifierInv, NotifierTypeOK
<1>2. /\ UNCHANGED <<mailboxVars, herdrVars, known, route, confirm, heard, idleTicks,
                     escalated, answered, restarts>>
      /\ inputs' = inputs /\ queued' \subseteq queued
    BY DEF EscalationAnswered, EndDeliver, Drain, Close
<1>3. CASE EscalationAnswered
    <2>1. job' \in Job /\ job'.at = "stale" /\ job'.rows = job.rows /\ job'.pings = job.pings
        BY <1>1, <1>3 DEF EscalationAnswered, Job, Busy
    <2> QED
        BY <1>1, <1>2, <2>1, QuietJobSteps
<1>4. CASE EndDeliver
    BY <1>1, <1>2, <1>4, FinishedFits, QuietJobSteps DEF EndDeliver
<1>5. CASE Drain
    <2>1. /\ job' \in Job /\ job'.at \in {"start", "drain", "closing"}
          /\ job'.rows \subseteq job.rows /\ job'.pings \subseteq job.pings
        <3>1. CASE \E name \in job.batch :
                      job' = [NoJob EXCEPT !.at = "start", !.scope = name,
                                           !.batch = job.batch \ {name}]
            <4>1. PICK name \in job.batch :
                      job' = [NoJob EXCEPT !.at = "start", !.scope = name,
                                           !.batch = job.batch \ {name}]
                BY <3>1
            <4>2. name \in Names /\ job.batch \ {name} \in SUBSET Names
                BY <1>1 DEF Job
            <4> QED
                BY <4>1, <4>2, NoJobFits DEF Job, Busy
        <3>2. CASE job' = [job EXCEPT !.batch = queued]
            BY <1>1, <1>5, <3>2 DEF Job, Drain
        <3>3. CASE job' = [job EXCEPT !.at = "closing"]
            BY <1>1, <3>3 DEF Job, Waits
        <3> QED
            BY <1>5, <3>1, <3>2, <3>3 DEF Drain
    <2> QED
        BY <1>1, <1>2, <2>1, QuietJobSteps
<1>6. CASE Close
    BY <1>1, <1>2, <1>6, NoJobFits, QuietJobSteps DEF Close
<1> QED
    BY <1>3, <1>4, <1>5, <1>6

-----------------------------------------------------------------------------
(* Requests.                                                               *)

(* What a hub that is not busy may do to the notifier's state while the    *)
(* agents in P make a request.                                             *)
Beside(P) ==
    /\ \/ UNCHANGED <<job, queued>>
       \/ /\ job.at = "idle" /\ UNCHANGED queued
          /\ \E name \in Names : job' = [NoJob EXCEPT !.at = "start", !.scope = name]
       \/ /\ UNCHANGED job
          /\ \E name \in Names : queued' = queued \union {name}
    /\ UNCHANGED <<confirm, idleTicks, escalated, known, restarts>>
    /\ heard \subseteq heard' /\ heard' \subseteq heard \union P
    /\ \/ UNCHANGED answered
       \/ answered' = [pc \in Agents \X Channels |-> answered[pc] \/ pc[1] \in P]
    /\ P # {} => UNCHANGED retired
    /\ \A a \in P, c \in Channels : answered'[<<a, c>>]
    /\ inputs' = inputs \/ Input

LEMMA StepsBeside ==
    ASSUME NotifierInv, NEW P \in SUBSET Agents, StoreStep(P), Beside(P),
           HerdrTypeOK', route' \in [Agents -> Route], OneActivePerTerminal'
    PROVE  NotifierInv'
<1>1. MailboxInv' /\ MailboxTypeOK'
    BY DEF StoreStep, MailboxInv
<1>2. job \in Job /\ queued \subseteq Names
    BY DEF NotifierInv, NotifierTypeOK
<1>3. /\ job' \in Job /\ queued' \subseteq Names
      /\ job' = job \/ (job'.at = "start" /\ job'.rows = {} /\ job'.pings = {})
    <2>1. CASE \E name \in Names : job' = [NoJob EXCEPT !.at = "start", !.scope = name]
        <3>1. PICK name \in Names : job' = [NoJob EXCEPT !.at = "start", !.scope = name]
            BY <2>1
        <3>2. job' \in Job /\ job'.at = "start" /\ job'.rows = {} /\ job'.pings = {}
            BY <3>1, NoJobFits DEF Job, Busy
        <3>3. queued' \subseteq Names
            BY <1>2 DEF Beside
        <3> QED
            BY <3>2, <3>3
    <2>2. CASE job' = job
        BY <1>2, <2>2 DEF Beside
    <2> QED
        BY <2>1, <2>2 DEF Beside
<1>4. /\ inputs' \in 0..MaxInputs
    <2>1. inputs \in 0..MaxInputs /\ MaxInputs \in Nat
        BY NotifierAssumption DEF NotifierInv, NotifierTypeOK
    <2>2. inputs' = inputs \/ (inputs < MaxInputs /\ inputs' = inputs + 1)
        BY DEF Beside, Input
    <2> QED
        BY <2>1, <2>2
<1>5. answered' \in [Agents \X Channels -> BOOLEAN]
      /\ \A pc \in Agents \X Channels : answered[pc] => answered'[pc]
    <2>1. answered \in [Agents \X Channels -> BOOLEAN]
        BY DEF NotifierInv, NotifierTypeOK
    <2> QED
        BY <2>1 DEF Beside
<1>6. NotifierTypeOK'
    <2>1. RoutesTypeOK'
        BY <1>1 DEF RoutesTypeOK, NotifierInv, NotifierTypeOK, Beside, MailboxTypeOK
    <2>2. heard' \subseteq Agents
        BY DEF Beside, NotifierInv, NotifierTypeOK
    <2>3. UNCHANGED <<confirm, idleTicks, escalated, restarts>>
        BY DEF Beside
    <2> QED
        BY <1>1, <1>3, <1>4, <1>5, <2>1, <2>2, <2>3 DEF NotifierInv, NotifierTypeOK
<1>7. RowsInLog'
    <2>1. \A row \in job.rows \union job.pings : row.chan \in Channels
        BY <1>2 DEF Job, Row
    <2>2. \A row \in job.rows \union job.pings :
              row.through \in Ids(row.chan)' \/ status'[row.chan] = "deleted"
        BY <2>1 DEF NotifierInv, RowsInLog, StoreStep
    <2> QED
        BY <1>3, <2>2 DEF RowsInLog
<1>8. StillNews'
    <2> SUFFICES ASSUME NEW row \in Left', <<row.who, row.chan>> \in member'
                 PROVE  \/ notified'[<<row.who, row.chan>>] < row.through
                        \/ row.through <= cursor'[<<row.who, row.chan>>]
        BY DEF StillNews
    <2>1. job' = job /\ row \in Left /\ row \in job.rows
        BY <1>3 DEF Left
    <2>2. row.who \in Agents /\ row.chan \in Channels /\ row.through \in Nat
        BY <1>2, <2>1 DEF Job, Row
    <2> DEFINE pc == <<row.who, row.chan>>
    <2>3. /\ pc[2] = row.chan /\ Moves(P, pc)
          /\ cursor'[pc] \in Nat /\ notified'[pc] \in Nat
        BY <1>1 DEF StoreStep, MailboxTypeOK
    <2>4. pc \in member => /\ cursor[pc] \in Nat /\ notified[pc] \in Nat
                           /\ cursor[pc] <= notified[pc]
        BY DEF NotifierInv, MailboxInv, MailboxTypeOK, RowsAgree, WatermarksInChannel
    <2>5. pc \in member => notified[pc] < row.through \/ row.through <= cursor[pc]
        BY <2>1 DEF NotifierInv, StillNews
    <2>6. CASE \A id \in Ids(row.chan) : id <= cursor'[pc]
        <3>1. status[row.chan] # "deleted"
            <4>1. status'[row.chan] # "deleted"
                BY <1>1, <2>2 DEF MailboxInv, MailboxTypeOK, DeletedLeavesNothing, Memberships
            <4> QED
                BY <2>2, <4>1 DEF StoreStep
        <3>2. row.through \in Ids(row.chan)
            BY <2>1, <3>1 DEF NotifierInv, RowsInLog
        <3> QED
            BY <2>6, <3>2
    <2>7. CASE pc \in member /\ cursor'[pc] = cursor[pc] /\ notified'[pc] = notified[pc]
        BY <2>5, <2>7
    <2>8. CASE /\ pc \in member /\ cursor[pc] <= cursor'[pc]
               /\ notified'[pc] = notified[pc] \/ notified'[pc] = cursor'[pc]
        BY <2>2, <2>3, <2>4, <2>5, <2>8
    <2> QED
        BY <2>3, <2>6, <2>7, <2>8 DEF Moves
<1>9. PromptFits'
    <2>1. confirm' = confirm /\ PromptFits
        BY DEF Beside, NotifierInv
    <2>2. CASE job' = job
        BY <2>1, <2>2 DEF PromptFits
    <2>3. CASE job'.at = "start"
        BY <2>3 DEF PromptFits
    <2> QED
        BY <1>3, <2>2, <2>3
<1>10. ASSUME restarts' = 0
       PROVE  Remembered'
    <2>1. Remembered /\ confirm' = confirm
        BY <1>10 DEF NotifierInv, Beside
    <2>2. ASSUME NEW a \in Agents, NEW c \in Channels,
                 <<a, c>> \in member', cursor'[<<a, c>>] < notified'[<<a, c>>]
          PROVE  answered'[<<a, c>>] \/ Awaited(a, c)'
        <3>1. /\ <<a, c>> \in Agents \X Channels /\ <<a, c>>[1] = a
              /\ cursor'[<<a, c>>] \in Nat /\ notified'[<<a, c>>] \in Nat
              /\ Moves(P, <<a, c>>)
            BY <1>1, <2>2 DEF StoreStep, MailboxTypeOK
        <3>2. CASE a \in P
            BY <3>2 DEF Beside
        <3>3. CASE a \notin P
            <4>1. /\ <<a, c>> \in member
                  /\ cursor'[<<a, c>>] = cursor[<<a, c>>] /\ notified'[<<a, c>>] = notified[<<a, c>>]
                BY <2>2, <3>1, <3>3 DEF Moves
            <4>2. answered[<<a, c>>] \/ Awaited(a, c)
                BY <2>1, <2>2, <4>1 DEF Remembered
            <4> QED
                BY <1>5, <2>1, <3>1, <4>2 DEF Awaited
        <3> QED
            BY <3>2, <3>3
    <2>3. ASSUME NEW a \in heard', NEW c \in Channels, Awaited(a, c)'
          PROVE  answered'[<<a, c>>]
        <3>1. a \in Agents /\ (a \in heard \/ a \in P)
            BY DEF Beside, NotifierInv, NotifierTypeOK
        <3>2. CASE a \in P
            BY <3>2 DEF Beside
        <3>3. CASE a \in heard
            BY <1>5, <2>1, <2>3, <3>1, <3>3 DEF Remembered, Awaited
        <3> QED
            BY <3>1, <3>2, <3>3
    <2> QED
        BY <2>2, <2>3 DEF Remembered
<1> QED
    BY <1>1, <1>6, <1>7, <1>8, <1>9, <1>10 DEF NotifierInv

(* Where the hub sees panes, whoever authenticates binds its own route.    *)
LEMMA AuthenticatedRoutes ==
    ASSUME NotifierInv, NEW a \in Agents, Authenticated(a), retired' = retired
    PROVE  /\ route' \in [Agents -> Route] /\ OneActivePerTerminal'
           /\ heard \subseteq heard' /\ heard' \subseteq heard \union {a}
<1>1. RoutesTypeOK /\ OneActivePerTerminal /\ HerdrTypeOK
    BY DEF NotifierInv, NotifierTypeOK, RoutesTypeOK
<1>2. CASE route' = route
    BY <1>1, <1>2 DEF RoutesTypeOK, OneActivePerTerminal, Active, Authenticated
<1>3. CASE \E t \in Terminals, as \in {a, None} :
              /\ Exists(t)
              /\ Authenticate(as, a, [terminal |-> t, pane |-> PaneOf(t), agent |-> kind[t]])
    <2>1. PICK t \in Terminals, as \in {a, None} :
              /\ Exists(t)
              /\ Authenticate(as, a, [terminal |-> t, pane |-> PaneOf(t), agent |-> kind[t]])
        BY <1>3
    <2>2. route' = Bound(a, t, PaneOf(t), kind[t])
        BY <2>1 DEF Authenticate
    <2>3. PaneOf(t) \in Nat /\ kind[t] \in Kinds \union {None}
        BY <1>1, <2>1, PaneOfPlace DEF HerdrTypeOK
    <2>4. route' \in [Agents -> Route] /\ OneActivePerTerminal'
        BY <1>1, <2>2, <2>3, BoundKeeps
    <2> QED
        BY <2>4 DEF Authenticated
<1> QED
    BY <1>2, <1>3 DEF Authenticated

LEMMA AgentRequestStores ==
    ASSUME NotifierInv, NEW a \in Agents, AgentRequests(a)
    PROVE  StoreStep({a})
<1>1. MailboxInv /\ a \in Participants
    BY RosterAssumption DEF NotifierInv
<1>2. CASE UNCHANGED mailboxVars
    BY <1>1, <1>2, NothingStored
<1>3. CASE \E c \in Channels : \/ Fetch(a, c)
                               \/ Join(a, c)
                               \/ \E reply \in replies[a] : Ack(a, c, reply.through)
    BY <1>1, <1>3, RequestSteps
<1> QED
    BY <1>2, <1>3 DEF AgentRequests

LEMMA AgentRequestsKeeps ==
    ASSUME NotifierInv, NEW a \in Agents, AgentRequests(a)
    PROVE  NotifierInv'
<1>1. StoreStep({a})
    BY AgentRequestStores
<1>2. retired' = retired
    BY DEF AgentRequests, mailboxVars, Fetch, Join, Ack
<1>3. /\ route' \in [Agents -> Route] /\ OneActivePerTerminal'
      /\ heard \subseteq heard' /\ heard' \subseteq heard \union {a}
    BY <1>2, AuthenticatedRoutes DEF AgentRequests
<1>4. HerdrTypeOK'
    BY DEF AgentRequests, Elsewhere, herdrVars, HerdrTypeOK, NotifierInv, NotifierTypeOK, RoutesTypeOK
<1>5. /\ answered' = [pc \in Agents \X Channels |-> answered[pc] \/ pc[1] \in {a}]
      /\ \A c \in Channels : answered'[<<a, c>>]
    BY DEF AgentRequests, Asks
<1>6. Beside({a})
    BY <1>2, <1>3, <1>5 DEF AgentRequests, Beside, Elsewhere
<1> QED
    BY <1>1, <1>3, <1>4, <1>6, StepsBeside

LEMMA NotifyFits ==
    ASSUME NEW name \in Names, NotifyChannel(name)
    PROVE  \/ /\ job.at = "idle" /\ UNCHANGED queued
              /\ \E n \in Names : job' = [NoJob EXCEPT !.at = "start", !.scope = n]
           \/ /\ UNCHANGED job
              /\ \E n \in Names : queued' = queued \union {n}
BY DEF NotifyChannel

LEMMA AgentSendsKeeps ==
    ASSUME NotifierInv, NEW a \in Agents, NEW c \in Channels, AgentSends(a, c)
    PROVE  NotifierInv'
<1>0. a \in Participants /\ NameOf[c] \in Names
    BY RosterAssumption, MailboxAssumption
<1>1. StoreStep({a})
    BY <1>0, SendIsStep DEF NotifierInv, AgentSends
<1>2. retired' = retired
    BY DEF AgentSends, Send, InsertMessage
<1>3. /\ route' \in [Agents -> Route] /\ OneActivePerTerminal'
      /\ heard \subseteq heard' /\ heard' \subseteq heard \union {a}
    BY <1>2, AuthenticatedRoutes DEF AgentSends
<1>4. HerdrTypeOK'
    BY DEF AgentSends, Elsewhere, herdrVars, HerdrTypeOK, NotifierInv, NotifierTypeOK, RoutesTypeOK
<1>5. /\ answered' = [pc \in Agents \X Channels |-> answered[pc] \/ pc[1] \in {a}]
      /\ \A d \in Channels : answered'[<<a, d>>]
    BY DEF AgentSends, Asks
<1>6. Beside({a})
    BY <1>0, <1>2, <1>3, <1>5, NotifyFits DEF AgentSends, Beside, Elsewhere
<1> QED
    BY <1>1, <1>3, <1>4, <1>6, StepsBeside

(* Routes of a step that writes none, and deactivates at most somebody.    *)
LEMMA SameRoutes ==
    ASSUME NotifierInv, UNCHANGED <<route, herdrVars>>, retired \subseteq retired'
    PROVE  HerdrTypeOK' /\ route' \in [Agents -> Route] /\ OneActivePerTerminal'
<1>1. UNCHANGED <<live, kind, activity>>
    BY DEF herdrVars
<1>2. \A x \in Agents \ retired' : Active(x)' => Active(x) /\ route'[x].terminal = route[x].terminal
    BY DEF Active
<1>3. OneActivePerTerminal'
    BY <1>2, NoneActivated DEF NotifierInv
<1> QED
    BY <1>1, <1>3 DEF NotifierInv, NotifierTypeOK, RoutesTypeOK, HerdrTypeOK

LEMMA HumanSendsKeeps ==
    ASSUME NotifierInv, NEW p \in Participants, NEW c \in Channels, HumanSends(p, c)
    PROVE  NotifierInv'
<1>0. NameOf[c] \in Names
    BY MailboxAssumption
<1>1. StoreStep({})
    BY SendIsStep DEF NotifierInv, HumanSends
<1>2. retired' = retired /\ UNCHANGED <<route, herdrVars>>
    BY DEF HumanSends, Send, InsertMessage, Elsewhere
<1>3. HerdrTypeOK' /\ route' \in [Agents -> Route] /\ OneActivePerTerminal'
    BY <1>2, SameRoutes
<1>4. Beside({})
    BY <1>0, NotifyFits DEF HumanSends, Beside, Elsewhere
<1> QED
    BY <1>1, <1>3, <1>4, StepsBeside

LEMMA HumanManagesStores == ASSUME NotifierInv, HumanManages PROVE StoreStep({})
<1>1. PICK c \in Channels : \/ CreateChannel(c)
                            \/ DeleteChannel(c)
                            \/ \E a \in Agents : AddMember(a, c) \/ RemoveMember(a, c)
    BY DEF HumanManages
<1> QED
    BY <1>1, ManagingSteps, RosterAssumption DEF NotifierInv

LEMMA HumanManagesKeeps == ASSUME NotifierInv, HumanManages PROVE NotifierInv'
<1>1. StoreStep({})
    BY HumanManagesStores
<1>2. retired' = retired /\ UNCHANGED <<route, herdrVars>>
    BY DEF HumanManages, CreateChannel, DeleteChannel, AddMember, RemoveMember, Elsewhere
<1>3. HerdrTypeOK' /\ route' \in [Agents -> Route] /\ OneActivePerTerminal'
    BY <1>2, SameRoutes
<1>4. Beside({})
    BY DEF HumanManages, Beside, Elsewhere, memoryVars
<1> QED
    BY <1>1, <1>3, <1>4, StepsBeside

LEMMA DeactivateKeeps ==
    ASSUME NotifierInv, NEW p \in Participants, DeactivateParticipant(p)
    PROVE  NotifierInv'
<1>1. StoreStep({})
    BY DeactivateSteps DEF NotifierInv, DeactivateParticipant
<1>2. retired' = retired \union {p} /\ UNCHANGED herdrVars
    BY DEF DeactivateParticipant, Deactivate, Elsewhere
<1>3. RoutesTypeOK /\ OneActivePerTerminal
    BY DEF NotifierInv, NotifierTypeOK
<1>4. HerdrTypeOK' /\ route' \in [Agents -> Route] /\ OneActivePerTerminal'
    <2>1. CASE p \in Agents
        <3>1. route' \in [Agents -> Route] /\ OneActivePerTerminal'
            BY <1>2, <1>3, <2>1, DeactivatedKeeps DEF DeactivateParticipant
        <3> QED
            BY <1>2, <1>3, <3>1 DEF herdrVars, HerdrTypeOK, RoutesTypeOK
    <2>2. CASE p \notin Agents
        BY <1>2, <2>2, SameRoutes DEF DeactivateParticipant
    <2> QED
        BY <2>1, <2>2
<1>5. Beside({})
    BY DEF DeactivateParticipant, Beside, Elsewhere, memoryVars
<1> QED
    BY <1>1, <1>4, <1>5, StepsBeside

LEMMA HerdrActsKeeps == ASSUME NotifierInv, HerdrActs PROVE NotifierInv'
<1>1. StoreStep({})
    BY NothingStored DEF NotifierInv, HerdrActs
<1>2. UNCHANGED <<route, retired>>
    BY DEF HerdrActs, mailboxVars
<1>3. HerdrTypeOK'
    <2>1. HerdrTypeOK
        BY DEF NotifierInv, NotifierTypeOK, RoutesTypeOK
    <2>2. PICK t \in Terminals :
              \/ \E k \in Kinds \union {None} : PaneOpens(t, k) \/ OccupantChanges(t, k)
              \/ PaneCloses(t)
              \/ \E s \in Activities : ActivityChanges(t, s)
        BY DEF HerdrActs, HerdrNext
    <2>3. CASE \E s \in Activities : ActivityChanges(t, s)
        BY <2>1, <2>3 DEF ActivityChanges, HerdrTypeOK
    <2> QED
        BY <2>1, <2>2, <2>3, HerdrStep
<1>4. route' \in [Agents -> Route] /\ OneActivePerTerminal'
    BY <1>2 DEF NotifierInv, NotifierTypeOK, RoutesTypeOK, OneActivePerTerminal, Active
<1>5. Beside({})
    BY DEF HerdrActs, Beside, memoryVars
<1> QED
    BY <1>1, <1>3, <1>4, <1>5, StepsBeside

-----------------------------------------------------------------------------
(* The steps of a pass that write.                                         *)

(* A ping that expired is taken back down to what was read; one whose      *)
(* agent was heard from is forgotten.                                      *)
LEMMA StartPassKeeps == ASSUME NotifierInv, StartPass PROVE NotifierInv'
<1> DEFINE R == UNION {{a} \X confirm[a].chans : a \in Expired}
<1>1. /\ job.at = "start" /\ notified' = RolledBack(notified, R)
      /\ confirm' = [a \in Agents |-> IF a \in heard \/ a \in Expired
                                      THEN NoConfirmation ELSE confirm[a]]
      /\ heard' = heard \ {a \in Agents : confirm'[a].state = "none"}
      /\ UNCHANGED <<status, log, lastId, member, cursor, retired, replies, shown,
                     herdrVars, known, route, queued, answered, inputs, restarts>>
    BY DEF StartPass
<1>2. /\ cursor \in [Memberships -> Nat] /\ notified \in [Memberships -> Nat]
      /\ member \subseteq Memberships
      /\ \A pc \in member : /\ cursor[pc] \in Ids(pc[2]) \union {0}
                            /\ notified[pc] \in Ids(pc[2]) \union {0}
                            /\ cursor[pc] <= notified[pc]
      /\ \A pc \in Memberships \ member : cursor[pc] = 0 /\ notified[pc] = 0
    BY DEF NotifierInv, MailboxInv, MailboxTypeOK, RowsAgree, WatermarksInChannel, NoRowNoMarks
<1>3. \A pc \in Memberships :
          notified'[pc] = IF pc \in R /\ cursor[pc] < notified[pc] THEN cursor[pc] ELSE notified[pc]
    BY <1>1 DEF RolledBack
<1>4. notified' \in [Memberships -> Nat]
    BY <1>1, <1>2 DEF RolledBack
<1>5. MailboxInv' /\ MailboxTypeOK' /\ \A c \in Channels : Ids(c)' = Ids(c)
    <2>1. \A pc \in Memberships \ member : notified'[pc] = notified[pc]
        BY <1>2, <1>3
    <2>2. \A pc \in member : /\ notified'[pc] \in Ids(pc[2]) \union {0}
                             /\ cursor[pc] <= notified'[pc]
        BY <1>2, <1>3
    <2>3. MailboxInv' /\ \A c \in Channels : Ids(c)' = Ids(c)
        BY <1>1, <1>4, <2>1, <2>2, MarksWritten DEF NotifierInv
    <2> QED
        BY <2>3 DEF MailboxInv
<1>6. RoutesTypeOK' /\ OneActivePerTerminal'
    BY <1>1 DEF NotifierInv, NotifierTypeOK, RoutesTypeOK, HerdrTypeOK, herdrVars,
                OneActivePerTerminal, Active
<1>7. \/ /\ job' \in Job /\ job'.at \in {"onTick", "drain"}
         /\ job'.rows = {} /\ job'.pings = {}
      \/ /\ job' \in Job /\ job'.at = "listing"
         /\ job'.rows = Pending(notified', job.scope, "active") /\ job'.pings = job.pings
    <2>1. job \in Job
        BY DEF NotifierInv, NotifierTypeOK
    <2>2. CASE job' = Finished
        BY <2>1, <2>2, FinishedFits
    <2>3. CASE \E rows : /\ rows = Pending(notified', job.scope, "active")
                         /\ job' = [job EXCEPT !.at = "listing", !.rows = rows,
                                               !.seen = SeenBy(rows)]
        <3>1. PICK rows : /\ rows = Pending(notified', job.scope, "active")
                          /\ job' = [job EXCEPT !.at = "listing", !.rows = rows,
                                                !.seen = SeenBy(rows)]
            BY <2>3
        <3>2. rows \subseteq Row /\ SeenBy(rows) \in [Agents -> Route]
            BY <3>1, PendingRows, SeenFits DEF NotifierInv, NotifierTypeOK
        <3> QED
            BY <2>1, <3>1, <3>2 DEF Job, Waits
    <2> QED
        BY <2>2, <2>3 DEF StartPass
<1>8. NotifierTypeOK'
    <2>1. confirm' \in [Agents -> [state : {"none", "waiting", "expired"}, chans : SUBSET Channels]]
        <3>1. NoConfirmation \in [state : {"none", "waiting", "expired"}, chans : SUBSET Channels]
            BY DEF NoConfirmation
        <3>2. confirm \in [Agents -> [state : {"none", "waiting", "expired"}, chans : SUBSET Channels]]
            BY DEF NotifierInv, NotifierTypeOK
        <3> QED
            BY <1>1, <3>1, <3>2
    <2>2. idleTicks' \in [Agents -> 0..2] /\ escalated' \subseteq Agents
        <3>1. idleTicks \in [Agents -> 0..2] /\ escalated \subseteq Agents
            BY DEF NotifierInv, NotifierTypeOK
        <3>2. \E Z : idleTicks' = [a \in Agents |-> IF a \in Z THEN 0 ELSE idleTicks[a]]
            <4>1. \E stale : idleTicks' = [a \in Agents |->
                                  IF \/ Recovered(a)
                                     \/ job.scope = None /\ a \notin Receivers(stale)
                                  THEN 0 ELSE idleTicks[a]]
                BY DEF StartPass
            <4>2. PICK stale : idleTicks' = [a \in Agents |->
                                  IF \/ Recovered(a)
                                     \/ job.scope = None /\ a \notin Receivers(stale)
                                  THEN 0 ELSE idleTicks[a]]
                BY <4>1
            <4>3. idleTicks' = [a \in Agents |->
                      IF a \in {x \in Agents : \/ Recovered(x)
                                               \/ job.scope = None /\ x \notin Receivers(stale)}
                      THEN 0 ELSE idleTicks[a]]
                BY <4>2
            <4> QED
                BY <4>3
        <3>3. escalated' \subseteq escalated
            BY DEF StartPass
        <3> QED
            BY <3>1, <3>2, <3>3
    <2>3. heard' \subseteq Agents
        BY <1>1 DEF NotifierInv, NotifierTypeOK
    <2> QED
        BY <1>1, <1>5, <1>6, <1>7, <2>1, <2>2, <2>3 DEF NotifierInv, NotifierTypeOK
<1>9. RowsInLog'
    <2>1. job \in Job
        BY DEF NotifierInv, NotifierTypeOK
    <2>2. \A row \in job'.rows \union job'.pings : row.chan \in Channels
        BY <1>7 DEF Job, Row
    <2>3. \A row \in job'.rows : row.through \in Ids(row.chan)'
        <3>1. \A row \in job'.rows : row.through \in Ids(row.chan)
            BY <1>7, PendingRows DEF NotifierInv
        <3> QED
            BY <1>5, <2>2, <3>1
    <2>4. job'.pings \subseteq job.pings
        BY <1>7
    <2> QED
        BY <1>1, <1>5, <2>2, <2>3, <2>4 DEF RowsInLog, NotifierInv
<1>10. StillNews'
    <2>1. Left' \subseteq job'.rows
        BY DEF Left
    <2>2. \A row \in job'.rows : /\ row.through \in Nat
                                 /\ row.through > notified'[<<row.who, row.chan>>]
                                 /\ <<row.who, row.chan>> \in Memberships
        <3>1. job'.rows \subseteq Row
            BY <1>7 DEF Job
        <3>2. \A row \in Row : row.through \in Nat /\ <<row.who, row.chan>> \in Memberships
            BY RosterAssumption DEF Row, Memberships
        <3>3. \A row \in job'.rows : row.through > notified'[<<row.who, row.chan>>]
            BY <1>7, PendingRows DEF NotifierInv
        <3> QED
            BY <3>1, <3>2, <3>3
    <2>3. \A row \in job'.rows : notified'[<<row.who, row.chan>>] < row.through
        BY <1>4, <2>2
    <2> QED
        BY <2>1, <2>3 DEF StillNews
<1>11. PromptFits'
    BY <1>7 DEF PromptFits
<1>12. ASSUME restarts' = 0
       PROVE  Remembered'
    <2>1. Remembered
        BY <1>1, <1>12 DEF NotifierInv
    <2>2. ASSUME NEW a \in Agents, NEW c \in Channels,
                 <<a, c>> \in member', cursor'[<<a, c>>] < notified'[<<a, c>>]
          PROVE  answered'[<<a, c>>] \/ Awaited(a, c)'
        <3>1. /\ <<a, c>> \in member /\ <<a, c>> \in Memberships
              /\ cursor[<<a, c>>] \in Nat /\ notified[<<a, c>>] \in Nat
            BY <1>1, <1>2, <2>2
        <3>2. /\ ~(<<a, c>> \in R /\ cursor[<<a, c>>] < notified[<<a, c>>])
              /\ cursor[<<a, c>>] < notified[<<a, c>>]
            BY <1>1, <1>3, <2>2, <3>1
        <3>3. answered[<<a, c>>] \/ Awaited(a, c)
            BY <2>1, <3>1, <3>2 DEF Remembered
        <3>4. CASE Awaited(a, c)
            <4>1. a \notin Expired
                BY <3>2, <3>4 DEF Awaited
            <4>2. a \in heard => answered[<<a, c>>]
                BY <2>1, <3>4 DEF Remembered
            <4>3. a \notin heard => confirm'[a] = confirm[a]
                BY <1>1, <4>1
            <4> QED
                BY <1>1, <3>4, <4>2, <4>3 DEF Awaited
        <3>5. CASE answered[<<a, c>>]
            BY <1>1, <3>5
        <3> QED
            BY <3>3, <3>4, <3>5
    <2>3. ASSUME NEW a \in heard', NEW c \in Channels, Awaited(a, c)'
          PROVE  answered'[<<a, c>>]
        <3>1. a \in heard /\ a \in Agents
            BY <1>1 DEF NotifierInv, NotifierTypeOK
        <3>2. confirm'[a].state = "none"
            BY <1>1, <3>1 DEF NoConfirmation
        <3> QED
            BY <2>3, <3>2 DEF Awaited
    <2> QED
        BY <2>2, <2>3 DEF Remembered
<1> QED
    BY <1>5, <1>6, <1>8, <1>9, <1>10, <1>11, <1>12 DEF NotifierInv

(* Steps that change routes, the job or the memory, and nothing stored.    *)
LEMMA PassWrites ==
    ASSUME NotifierInv, UNCHANGED <<mailboxVars, herdrVars, known, queued, answered>>,
           inputs' = inputs, restarts' \in 0..MaxRestarts, restarts' = 0 => restarts = 0,
           route' \in [Agents -> Route], OneActivePerTerminal',
           job' \in Job,
           confirm' \in [Agents -> [state : {"none", "waiting", "expired"},
                                    chans : SUBSET Channels]],
           heard' \subseteq heard, idleTicks' \in [Agents -> 0..2], escalated' \subseteq Agents,
           job'.rows \subseteq job.rows,
           \A row \in job'.pings : row \in job.rows \union job.pings,
           Left' \subseteq Left, PromptFits',
           restarts' = 0 => \A a \in Agents, c \in Channels : Awaited(a, c)' <=> Awaited(a, c)
    PROVE  NotifierInv'
<1>1. /\ UNCHANGED <<status, log, lastId, member, cursor, notified, retired, replies, shown>>
      /\ UNCHANGED <<live, kind, activity>>
    BY DEF mailboxVars, herdrVars
<1>2. MailboxInv' /\ MailboxTypeOK'
    <2>1. StoreStep({})
        BY NothingStored DEF NotifierInv
    <2> QED
        BY <2>1 DEF StoreStep, MailboxInv
<1>3. RoutesTypeOK'
    BY <1>1 DEF NotifierInv, NotifierTypeOK, RoutesTypeOK, HerdrTypeOK
<1>4. NotifierTypeOK'
    BY <1>2, <1>3 DEF NotifierInv, NotifierTypeOK
<1>5. \A c \in Channels : Ids(c)' = Ids(c)
    BY <1>1 DEF Ids
<1>6. RowsInLog'
    <2>1. \A row \in job'.rows \union job'.pings : row.chan \in Channels
        BY DEF Job, Row
    <2> QED
        BY <1>1, <1>5, <2>1 DEF NotifierInv, RowsInLog
<1>7. StillNews'
    BY <1>1 DEF NotifierInv, StillNews
<1>8. restarts' = 0 => Remembered'
    <2> SUFFICES ASSUME restarts' = 0 PROVE Remembered'
        OBVIOUS
    <2>1. heard \subseteq Agents
        BY DEF NotifierInv, NotifierTypeOK
    <2>2. Remembered
        BY DEF NotifierInv
    <2>3. ASSUME NEW a \in Agents, NEW c \in Channels,
                 <<a, c>> \in member', cursor'[<<a, c>>] < notified'[<<a, c>>]
          PROVE  answered'[<<a, c>>] \/ Awaited(a, c)'
        BY <1>1, <2>2, <2>3 DEF Remembered
    <2>4. ASSUME NEW a \in heard', NEW c \in Channels, Awaited(a, c)'
          PROVE  answered'[<<a, c>>]
        BY <1>1, <2>1, <2>2, <2>4 DEF Remembered
    <2> QED
        BY <2>3, <2>4 DEF Remembered
<1> QED
    BY <1>2, <1>4, <1>6, <1>7, <1>8 DEF NotifierInv

(* What following a pane, or finding none, does to routes.                 *)
LEMMA RoutesFollowed ==
    ASSUME NotifierInv, NEW a \in Agents, NEW pane \in RoutedPane(a), retired' = retired,
           \/ route' = Followed(a, pane)
           \/ route' = MarkedStale(Followed(a, pane), {a})
    PROVE  route' \in [Agents -> Route] /\ OneActivePerTerminal'
<1>1. route \in [Agents -> Route] /\ OneActivePerTerminal /\ pane.pane \in Nat
    BY DEF NotifierInv, NotifierTypeOK, RoutesTypeOK, RoutedPane, Job, PaneRecord
<1>2. /\ Followed(a, pane) \in [Agents -> Route]
      /\ \A x \in Agents : /\ Followed(a, pane)[x].state = route[x].state
                           /\ Followed(a, pane)[x].terminal = route[x].terminal
    BY <1>1 DEF Followed, Healed, Route
<1>3. PICK rt \in [Agents -> Route] : rt = Followed(a, pane)
    BY <1>2
<1>4. /\ route' \in [Agents -> Route]
      /\ \A x \in Agents : /\ route'[x].terminal = route[x].terminal
                           /\ route'[x].state = "active" => route[x].state = "active"
    <2>1. CASE route' = rt
        BY <1>2, <1>3, <2>1
    <2>2. CASE route' = MarkedStale(rt, {a})
        <3>1. route' \in [Agents -> Route]
            BY <2>2 DEF MarkedStale, Route
        <3>2. \A x \in Agents : route'[x] = rt[x] \/ route'[x] = [rt[x] EXCEPT !.state = "stale"]
            BY <2>2 DEF MarkedStale
        <3>3. \A x \in Agents : /\ route'[x].terminal = rt[x].terminal
                                /\ route'[x].state = "active" => rt[x].state = "active"
            BY <3>2 DEF Route
        <3> QED
            BY <1>2, <1>3, <3>1, <3>3
    <2> QED
        BY <1>3, <2>1, <2>2
<1> QED
    BY <1>1, <1>4, NoneActivated DEF Active

LEMMA DeliverToKeeps ==
    ASSUME NotifierInv, NEW a \in Agents, DeliverTo(a)
    PROVE  NotifierInv'
<1>1. /\ job.at = "deliver" /\ a \in job.todo /\ job \in Job
      /\ UNCHANGED <<mailboxVars, herdrVars, known, confirm, idleTicks, escalated,
                     queued, answered, inputs, restarts>>
      /\ retired' = retired
    BY DEF DeliverTo, NotifierInv, NotifierTypeOK, mailboxVars
<1>2. /\ confirm \in [Agents -> [state : {"none", "waiting", "expired"}, chans : SUBSET Channels]]
      /\ idleTicks \in [Agents -> 0..2] /\ escalated \subseteq Agents
      /\ restarts \in 0..MaxRestarts
    BY DEF NotifierInv, NotifierTypeOK
<1>3. route' \in [Agents -> Route] /\ OneActivePerTerminal'
    <2>1. CASE UNCHANGED route
        BY <1>1, <2>1 DEF NotifierInv, NotifierTypeOK, RoutesTypeOK, OneActivePerTerminal, Active
    <2>2. CASE route' = MarkedStale(route, {a})
        BY <1>1, <2>2, MarkedStaleKeeps DEF NotifierInv, NotifierTypeOK
    <2>3. CASE \E pane \in RoutedPane(a) : \/ route' = Followed(a, pane)
                                           \/ route' = MarkedStale(Followed(a, pane), {a})
        BY <1>1, <2>3, RoutesFollowed
    <2> QED
        BY <2>1, <2>2, <2>3 DEF DeliverTo
<1>4. \/ Skip(a)
      \/ confirm[a].state = "none" /\ \E pane \in RoutedPane(a) : Prompt(a, pane)
    BY DEF DeliverTo
<1>5. /\ job' \in Job /\ heard' \subseteq heard
      /\ job'.rows = job.rows
      /\ job'.pings \subseteq job.rows \union job.pings
      /\ job'.at \in {"deliver", "prompting"} /\ job'.todo \subseteq job.todo
      /\ PromptFits'
    <2>1. CASE Skip(a)
        <3>1. job' = [job EXCEPT !.todo = @ \ {a}] /\ heard' = heard
            BY <2>1 DEF Skip
        <3>2. /\ job' \in Job /\ job'.rows = job.rows /\ job'.pings = job.pings
              /\ job'.at = "deliver" /\ job'.todo \subseteq job.todo
            BY <1>1, <3>1 DEF Job
        <3> QED
            BY <3>1, <3>2 DEF PromptFits
    <2>2. CASE confirm[a].state = "none" /\ \E pane \in RoutedPane(a) : Prompt(a, pane)
        <3>1. PICK pane \in RoutedPane(a) : Prompt(a, pane)
            BY <2>2
        <3>2. pane.pane \in Nat
            BY <1>1 DEF RoutedPane, Job, PaneRecord
        <3>3. PICK pings \in SUBSET Row : /\ pings = StillUnread(RowsOf(a))
                                          /\ pings \subseteq job.rows
                                          /\ \A row \in pings : row.who = a
            <4>1. StillUnread(RowsOf(a)) \subseteq RowsOf(a)
                BY DEF StillUnread
            <4> QED
                BY <1>1, <4>1 DEF RowsOf, Job
        <3>4. /\ job' = [job EXCEPT !.at = "prompting", !.todo = @ \ {a}, !.who = a,
                                    !.pings = pings, !.pane = pane.pane]
              /\ heard' \subseteq heard
            BY <3>1, <3>3 DEF Prompt
        <3>5. /\ job' \in Job /\ job'.rows = job.rows /\ job'.pings = pings
              /\ job'.at = "prompting" /\ job'.todo = job.todo \ {a} /\ job'.who = a
            BY <1>1, <3>2, <3>4 DEF Job, Waits
        <3>6. PromptFits'
            BY <1>1, <2>2, <3>3, <3>5 DEF PromptFits
        <3> QED
            BY <3>3, <3>4, <3>5, <3>6
    <2> QED
        BY <1>4, <2>1, <2>2
<1>6. Left' \subseteq Left
    BY <1>1, <1>5 DEF Left
<1>7. \A x \in Agents, c \in Channels : Awaited(x, c)' <=> Awaited(x, c)
    BY <1>1 DEF Awaited
<1> QED
    BY <1>1, <1>2, <1>3, <1>5, <1>6, <1>7, PassWrites

LEMMA MemoryFits ==
    ASSUME NotifierInv
    PROVE  /\ job \in Job
           /\ confirm \in [Agents -> [state : {"none", "waiting", "expired"},
                                      chans : SUBSET Channels]]
           /\ heard \subseteq Agents /\ idleTicks \in [Agents -> 0..2] /\ escalated \subseteq Agents
           /\ restarts \in 0..MaxRestarts /\ restarts \in Nat
           /\ RoutesTypeOK /\ route \in [Agents -> Route] /\ OneActivePerTerminal
<1>1. MaxRestarts \in Nat
    BY NotifierAssumption
<1> QED
    BY <1>1 DEF NotifierInv, NotifierTypeOK, RoutesTypeOK

LEMMA SaturatedFits == \A n \in 0..2 : Saturated(n + 1) \in 0..2
BY DEF Saturated

LEMMA ConsiderStaleKeeps ==
    ASSUME NotifierInv, NEW a \in Agents, ConsiderStale(a)
    PROVE  NotifierInv'
<1>1. /\ job.at = "stale" /\ job \in Job
      /\ UNCHANGED <<mailboxVars, herdrVars, known, confirm, heard, queued, answered,
                     inputs, restarts>>
      /\ retired' = retired
    BY MemoryFits DEF ConsiderStale, mailboxVars
<1>2. route' \in [Agents -> Route] /\ OneActivePerTerminal'
    <2>1. CASE RoutedPane(a) = {}
        BY <1>1, <2>1, MemoryFits DEF ConsiderStale, OneActivePerTerminal, Active
    <2>2. CASE RoutedPane(a) # {}
        <3>1. PICK pane \in RoutedPane(a) : pane = CHOOSE p \in RoutedPane(a) : TRUE
            BY <2>2
        <3>2. route' = Followed(a, pane)
            BY <2>2, <3>1 DEF ConsiderStale
        <3> QED
            BY <1>1, <3>2, RoutesFollowed
    <2> QED
        BY <2>1, <2>2
<1>3. idleTicks' \in [Agents -> 0..2]
    <2>1. idleTicks \in [Agents -> 0..2]
        BY MemoryFits
    <2>2. PICK n \in {Saturated(idleTicks[a] + 1), 0} : idleTicks' = [idleTicks EXCEPT ![a] = n]
        BY DEF ConsiderStale
    <2>3. n \in 0..2
        BY <2>1, <2>2, SaturatedFits
    <2> QED
        BY <2>1, <2>2, <2>3
<1>4. /\ job' \in Job /\ job'.rows = job.rows /\ job'.pings = job.pings
      /\ job'.at \in {"stale", "escalating"} /\ escalated' \subseteq Agents
    <2>1. \/ job' = [job EXCEPT !.at = "escalating", !.todo = @ \ {a}]
          \/ job' = [job EXCEPT !.todo = @ \ {a}]
        BY DEF ConsiderStale
    <2>2. escalated' = escalated \/ escalated' = escalated \union {a}
        BY DEF ConsiderStale
    <2>3. /\ job' \in Job /\ job'.rows = job.rows /\ job'.pings = job.pings
          /\ job'.at \in {"stale", "escalating"}
        BY <1>1, <2>1 DEF Job, Waits
    <2> QED
        BY <2>2, <2>3, MemoryFits
<1>5. Left' = {} /\ PromptFits'
    BY <1>4 DEF Left, PromptFits
<1>6. \A x \in Agents, c \in Channels : Awaited(x, c)' <=> Awaited(x, c)
    BY <1>1 DEF Awaited
<1> QED
    BY <1>1, <1>2, <1>3, <1>4, <1>5, <1>6, MemoryFits, PassWrites

LEMMA OnTickKeeps == ASSUME NotifierInv, OnTick PROVE NotifierInv'
<1>1. /\ job' = [job EXCEPT !.at = "drain"]
      /\ UNCHANGED <<mailboxVars, herdrVars, known, confirm, heard, idleTicks, escalated,
                     queued, answered, inputs, restarts>>
      /\ retired' = retired
    BY DEF OnTick, mailboxVars
<1>2. route' \in [Agents -> Route] /\ OneActivePerTerminal'
    <2>1. CASE route' = route
        BY <1>1, <2>1, MemoryFits DEF OneActivePerTerminal, Active
    <2>2. CASE route' = Reconciled(PaneList)
        <3>1. PaneList \in SUBSET PaneRecord
            BY MemoryFits, PaneListType DEF RoutesTypeOK
        <3> QED
            BY <1>1, <2>2, <3>1, MemoryFits, ReconciledKeeps
    <2> QED
        BY <2>1, <2>2 DEF OnTick
<1>3. /\ job' \in Job /\ job'.rows = job.rows /\ job'.pings = job.pings /\ job'.at = "drain"
    BY <1>1, MemoryFits DEF Job, Busy
<1>4. Left' = {} /\ PromptFits'
    BY <1>3 DEF Left, PromptFits
<1>5. \A x \in Agents, c \in Channels : Awaited(x, c)' <=> Awaited(x, c)
    BY <1>1 DEF Awaited
<1> QED
    BY <1>1, <1>2, <1>3, <1>4, <1>5, MemoryFits, PassWrites

LEMMA ConfirmationExpiresKeeps ==
    ASSUME NotifierInv, NEW a \in Agents, ConfirmationExpires(a)
    PROVE  NotifierInv'
<1>1. /\ confirm[a].state = "waiting" /\ confirm' = [confirm EXCEPT ![a].state = "expired"]
      /\ UNCHANGED <<mailboxVars, herdrVars, known, route, job, heard, idleTicks, escalated,
                     queued, answered, inputs, restarts>>
      /\ retired' = retired
    BY DEF ConfirmationExpires, mailboxVars
<1>2. confirm' \in [Agents -> [state : {"none", "waiting", "expired"}, chans : SUBSET Channels]]
    BY <1>1, MemoryFits
<1>3. \A x \in Agents : /\ confirm'[x].chans = confirm[x].chans
                        /\ confirm'[x].state = "none" <=> confirm[x].state = "none"
    BY <1>1, MemoryFits
<1>4. route' \in [Agents -> Route] /\ OneActivePerTerminal'
    BY <1>1, MemoryFits DEF OneActivePerTerminal, Active
<1>5. PromptFits'
    BY <1>1, <1>3 DEF PromptFits, NotifierInv
<1>6. Left' = Left
    BY <1>1 DEF Left
<1>7. \A x \in Agents, c \in Channels : Awaited(x, c)' <=> Awaited(x, c)
    BY <1>3 DEF Awaited
<1> QED
    BY <1>1, <1>2, <1>4, <1>5, <1>6, <1>7, MemoryFits, PassWrites

LEMMA HubRestartsKeeps == ASSUME NotifierInv, HubRestarts PROVE NotifierInv'
<1>1. /\ restarts < MaxRestarts /\ restarts' = restarts + 1 /\ job' = NoJob
      /\ confirm' = [a \in Agents |-> NoConfirmation]
      /\ heard' = {} /\ idleTicks' = [a \in Agents |-> 0] /\ escalated' = {} /\ queued' = {}
      /\ UNCHANGED <<mailboxVars, herdrVars, known, route, answered, inputs>>
    BY DEF HubRestarts
<1>2. /\ UNCHANGED <<status, log, lastId, member, cursor, notified, retired, replies, shown>>
      /\ UNCHANGED <<live, kind, activity>>
    BY <1>1 DEF mailboxVars, herdrVars
<1>3. restarts' \in 0..MaxRestarts /\ restarts' # 0
    <2>1. MaxRestarts \in Nat
        BY NotifierAssumption
    <2> QED
        BY <1>1, <2>1, MemoryFits
<1>4. MailboxInv' /\ MailboxTypeOK'
    <2>1. StoreStep({})
        BY <1>1, NothingStored DEF NotifierInv
    <2> QED
        BY <2>1 DEF StoreStep, MailboxInv
<1>5. RoutesTypeOK' /\ OneActivePerTerminal'
    BY <1>1, <1>2 DEF NotifierInv, NotifierTypeOK, RoutesTypeOK, HerdrTypeOK, OneActivePerTerminal, Active
<1>6. NotifierTypeOK'
    <2>1. confirm' \in [Agents -> [state : {"none", "waiting", "expired"}, chans : SUBSET Channels]]
        BY <1>1 DEF NoConfirmation
    <2>2. idleTicks' \in [Agents -> 0..2]
        BY <1>1
    <2> QED
        BY <1>1, <1>3, <1>4, <1>5, <2>1, <2>2, NoJobFits DEF NotifierInv, NotifierTypeOK
<1>7. RowsInLog' /\ StillNews' /\ PromptFits'
    BY <1>1, NoJobFits DEF RowsInLog, StillNews, PromptFits, Left
<1> QED
    BY <1>3, <1>4, <1>5, <1>6, <1>7 DEF NotifierInv

(* A ping marks the rows that it was about, no membership beyond its log,  *)
(* and rewinds none.                                                       *)
LEMMA PingMarks ==
    ASSUME NotifierInv
    PROVE  /\ NotifiedOf(job.pings) \in [Memberships -> Nat]
           /\ \A pc \in Memberships :
                  NotifiedOf(job.pings)[pc] # notified[pc] =>
                      \E row \in job.pings : pc = <<row.who, row.chan>>
           /\ \A pc \in Memberships \ member : NotifiedOf(job.pings)[pc] = notified[pc]
           /\ \A pc \in member : /\ NotifiedOf(job.pings)[pc] \in Ids(pc[2]) \union {0}
                                 /\ notified[pc] <= NotifiedOf(job.pings)[pc]
<1>1. /\ notified \in [Memberships -> Nat] /\ member \subseteq Memberships
      /\ \A pc \in member : notified[pc] \in Ids(pc[2]) \union {0}
      /\ job.pings \subseteq Row
    BY MemoryFits DEF NotifierInv, MailboxInv, MailboxTypeOK, RowsAgree, WatermarksInChannel, Job
<1> DEFINE About(pc) == {r \in job.pings : pc = <<r.who, r.chan>>}
           first(pc) == CHOOSE r \in job.pings : pc = <<r.who, r.chan>>
           marks == NotifiedOf(job.pings)
<1>2. \A pc \in Memberships :
          marks[pc] = IF pc \in member /\ \E row \in job.pings : pc = <<row.who, row.chan>>
                      THEN IF notified[pc] >= first(pc).through THEN notified[pc]
                           ELSE first(pc).through
                      ELSE notified[pc]
    BY DEF NotifiedOf
<1>3. DOMAIN marks = Memberships /\ marks = [pc \in Memberships |-> marks[pc]]
    BY DEF NotifiedOf
<1>4. ASSUME NEW pc \in member, \E row \in job.pings : pc = <<row.who, row.chan>>
      PROVE  first(pc).through \in Ids(pc[2]) /\ first(pc).through \in Nat
    <2>1. PICK r \in job.pings : r = first(pc) /\ pc = <<r.who, r.chan>>
        BY <1>4
    <2> HIDE DEF first
    <2>2. r.chan = pc[2] /\ r.through \in Nat /\ r.chan \in Channels /\ r.who \in Participants
        <3>1. r \in Row
            BY <1>1
        <3>2. r.who \in Agents /\ r.chan \in Channels /\ r.through \in Nat
            BY <3>1 DEF Row
        <3> QED
            BY <2>1, <3>2, RosterAssumption
    <2>3. status[r.chan] = "open"
        BY <2>1, <2>2 DEF NotifierInv, MailboxInv, DeletedLeavesNothing
    <2>4. r.through \in Ids(r.chan)
        BY <2>1, <2>3 DEF NotifierInv, RowsInLog
    <2> QED
        BY <2>1, <2>2, <2>4
<1>5. ASSUME NEW pc \in Memberships
      PROVE  /\ marks[pc] \in Nat
             /\ marks[pc] # notified[pc] => \E row \in job.pings : pc = <<row.who, row.chan>>
             /\ pc \notin member => marks[pc] = notified[pc]
             /\ pc \in member => /\ marks[pc] \in Ids(pc[2]) \union {0}
                                 /\ notified[pc] <= marks[pc]
    <2>1. notified[pc] \in Nat
        BY <1>1
    <2>2. CASE pc \in member /\ \E row \in job.pings : pc = <<row.who, row.chan>>
        <3>1. PICK n \in Nat : n = first(pc).through /\ n \in Ids(pc[2])
            BY <1>4, <2>2
        <3>2. marks[pc] = IF notified[pc] >= n THEN notified[pc] ELSE n
            BY <1>2, <2>2, <3>1
        <3> HIDE DEF marks, first
        <3> QED
            BY <1>1, <2>1, <2>2, <3>1, <3>2
    <2>3. CASE ~(pc \in member /\ \E row \in job.pings : pc = <<row.who, row.chan>>)
        <3>1. marks[pc] = notified[pc]
            BY <1>2, <2>3
        <3> HIDE DEF marks
        <3> QED
            BY <1>1, <2>1, <3>1
    <2> QED
        BY <2>2, <2>3
<1>6. marks \in [Memberships -> Nat]
    BY <1>3, <1>5
<1> HIDE DEF marks
<1>7. /\ \A pc \in Memberships : marks[pc] # notified[pc] =>
             \E row \in job.pings : pc = <<row.who, row.chan>>
      /\ \A pc \in Memberships \ member : marks[pc] = notified[pc]
      /\ \A pc \in member : marks[pc] \in Ids(pc[2]) \union {0} /\ notified[pc] <= marks[pc]
    BY <1>1, <1>5
<1> QED
    BY <1>6, <1>7 DEF marks

LEMMA PromptAnsweredKeeps == ASSUME NotifierInv, PromptAnswered PROVE NotifierInv'
<1>1. /\ job.at = "prompted" /\ job \in Job
      /\ job' = [job EXCEPT !.at = "deliver", !.who = None, !.pings = {}, !.pane = 0,
                            !.answer = "none"]
      /\ heard' = heard \ {job.who}
      /\ UNCHANGED <<status, log, lastId, member, cursor, retired, replies, shown,
                     herdrVars, known, idleTicks, escalated, queued, inputs, restarts>>
    BY MemoryFits DEF PromptAnswered
<1>2. PICK a \in Agents : /\ a = job.who /\ a \notin job.todo
                          /\ confirm[a].state = "none"
                          /\ \A row \in job.pings : row.who = a
    BY <1>1 DEF NotifierInv, PromptFits
<1>3. /\ job' \in Job /\ job'.at = "deliver" /\ job'.rows = job.rows
      /\ job'.pings = {} /\ job'.todo = job.todo
    BY <1>1 DEF Job, Busy
<1>4. /\ notified' \in [Memberships -> Nat]
      /\ \A pc \in Memberships :
             notified'[pc] # notified[pc] =>
                 job.answer = "ok" /\ \E row \in job.pings : pc = <<row.who, row.chan>>
      /\ \A pc \in Memberships \ member : notified'[pc] = notified[pc]
      /\ \A pc \in member : /\ notified'[pc] \in Ids(pc[2]) \union {0}
                            /\ notified[pc] <= notified'[pc]
    <2>1. CASE job.answer = "ok"
        <3>1. notified' = NotifiedOf(job.pings)
            BY <2>1 DEF PromptAnswered
        <3> QED
            BY <2>1, <3>1, PingMarks
    <2>2. CASE job.answer # "ok"
        <3>1. notified' = notified
            BY <2>2 DEF PromptAnswered
        <3>2. /\ notified \in [Memberships -> Nat] /\ member \subseteq Memberships
              /\ \A pc \in member : notified[pc] \in Ids(pc[2]) \union {0}
            BY DEF NotifierInv, MailboxInv, MailboxTypeOK, RowsAgree, WatermarksInChannel
        <3>3. \A pc \in member : notified[pc] \in Nat
            BY <3>2
        <3>4. \A pc \in member : notified[pc] <= notified'[pc]
            BY <3>1, <3>3
        <3> QED
            BY <3>1, <3>2, <3>4
    <2> QED
        BY <2>1, <2>2
<1>5. MailboxInv' /\ MailboxTypeOK' /\ \A c \in Channels : Ids(c)' = Ids(c)
    <2>1. \A pc \in member : cursor[pc] <= notified'[pc]
        <3> SUFFICES ASSUME NEW pc \in member PROVE cursor[pc] <= notified'[pc]
            OBVIOUS
        <3>1. pc \in Memberships /\ cursor[pc] <= notified[pc]
              /\ cursor[pc] \in Nat /\ notified[pc] \in Nat
            BY DEF NotifierInv, MailboxInv, MailboxTypeOK, RowsAgree, WatermarksInChannel
        <3>2. notified[pc] <= notified'[pc] /\ notified'[pc] \in Nat
            BY <1>4, <3>1
        <3> QED
            BY <3>1, <3>2
    <2>2. MailboxInv' /\ \A c \in Channels : Ids(c)' = Ids(c)
        BY <1>1, <1>4, <2>1, MarksWritten DEF NotifierInv
    <2> QED
        BY <2>2 DEF MailboxInv
<1>6. RoutesTypeOK' /\ OneActivePerTerminal'
    <2>1. CASE route' = route
        BY <1>1, <2>1 DEF NotifierInv, NotifierTypeOK, RoutesTypeOK, HerdrTypeOK, herdrVars,
                          OneActivePerTerminal, Active
    <2>2. CASE route' = MarkedStale(route, {job.who})
        <3>1. route' \in [Agents -> Route] /\ OneActivePerTerminal'
            BY <1>1, <2>2, MarkedStaleKeeps, MemoryFits
        <3> QED
            BY <1>1, <3>1, MemoryFits DEF RoutesTypeOK, HerdrTypeOK, herdrVars
    <2> QED
        BY <2>1, <2>2 DEF PromptAnswered
<1>7. /\ confirm' \in [Agents -> [state : {"none", "waiting", "expired"}, chans : SUBSET Channels]]
      /\ \A x \in Agents \ {a} : confirm'[x] = confirm[x]
      /\ (job.answer = "ok" /\ a \notin heard) =>
             /\ confirm'[a].state = "waiting"
             /\ \A row \in job.pings : row.chan \in confirm'[a].chans
      /\ ~(job.answer = "ok" /\ a \notin heard) => confirm'[a] = confirm[a]
    <2> DEFINE chans == {row.chan : row \in job.pings}
               waiting == [state |-> "waiting", chans |-> chans]
    <2>1. chans \in SUBSET Channels
        BY <1>1 DEF Job, Row
    <2>2. waiting \in [state : {"none", "waiting", "expired"}, chans : SUBSET Channels]
        BY <2>1
    <2>3. confirm' = IF job.answer = "ok" /\ a \notin heard
                     THEN [confirm EXCEPT ![a] = waiting] ELSE confirm
        BY <1>2 DEF PromptAnswered
    <2>4. confirm \in [Agents -> [state : {"none", "waiting", "expired"}, chans : SUBSET Channels]]
        BY MemoryFits
    <2>5. waiting.state = "waiting" /\ \A row \in job.pings : row.chan \in waiting.chans
        OBVIOUS
    <2> HIDE DEF waiting, chans
    <2> QED
        BY <2>2, <2>3, <2>4, <2>5
<1>8. /\ answered' \in [Agents \X Channels -> BOOLEAN]
      /\ \A pc \in Agents \X Channels :
             IF job.answer = "ok" /\ \E row \in job.pings : pc = <<row.who, row.chan>>
             THEN answered'[pc] <=> a \in heard
             ELSE answered'[pc] <=> answered[pc]
    <2>1. answered \in [Agents \X Channels -> BOOLEAN]
        BY DEF NotifierInv, NotifierTypeOK
    <2>2. answered' = [pc \in Agents \X Channels |->
                         IF job.answer = "ok" /\ \E row \in job.pings : pc = <<row.who, row.chan>>
                         THEN a \in heard
                         ELSE answered[pc]]
        BY <1>2 DEF PromptAnswered
    <2>3. PICK b \in BOOLEAN : b <=> a \in heard
        OBVIOUS
    <2>4. answered' = [pc \in Agents \X Channels |->
                         IF job.answer = "ok" /\ \E row \in job.pings : pc = <<row.who, row.chan>>
                         THEN b
                         ELSE answered[pc]]
        BY <2>2, <2>3
    <2>5. answered' \in [Agents \X Channels -> BOOLEAN]
        BY <2>1, <2>4
    <2> QED
        BY <2>3, <2>4, <2>5
<1>9. NotifierTypeOK'
    <2>1. heard' \subseteq Agents
        BY <1>1, MemoryFits
    <2> QED
        BY <1>1, <1>3, <1>5, <1>6, <1>7, <1>8, <2>1 DEF NotifierInv, NotifierTypeOK
<1>10. RowsInLog'
    <2>1. \A row \in job.rows : row.chan \in Channels
        BY <1>1 DEF Job, Row
    <2> QED
        BY <1>1, <1>3, <1>5, <2>1 DEF RowsInLog, NotifierInv
<1>11. StillNews'
    <2> SUFFICES ASSUME NEW row \in Left', <<row.who, row.chan>> \in member'
                 PROVE  \/ notified'[<<row.who, row.chan>>] < row.through
                        \/ row.through <= cursor'[<<row.who, row.chan>>]
        BY DEF StillNews
    <2>1. row \in Left /\ row.who # a
        BY <1>1, <1>2, <1>3 DEF Left
    <2>2. <<row.who, row.chan>> \in Memberships
        BY <1>1 DEF NotifierInv, MailboxInv, MailboxTypeOK
    <2>3. ~\E ping \in job.pings : <<row.who, row.chan>> = <<ping.who, ping.chan>>
        BY <1>2, <2>1
    <2>4. notified'[<<row.who, row.chan>>] = notified[<<row.who, row.chan>>]
        BY <1>4, <2>2, <2>3
    <2> QED
        BY <1>1, <2>1, <2>4 DEF NotifierInv, StillNews
<1>12. PromptFits'
    BY <1>3 DEF PromptFits
<1>13. ASSUME restarts' = 0
       PROVE  Remembered'
    <2>1. Remembered
        BY <1>1, <1>13 DEF NotifierInv
    <2>2. ASSUME NEW x \in Agents, NEW c \in Channels,
                 <<x, c>> \in member', cursor'[<<x, c>>] < notified'[<<x, c>>]
          PROVE  answered'[<<x, c>>] \/ Awaited(x, c)'
        <3>1. <<x, c>> \in Agents \X Channels /\ <<x, c>> \in Memberships
            BY RosterAssumption DEF Memberships
        <3>2. CASE job.answer = "ok" /\ \E row \in job.pings : <<x, c>> = <<row.who, row.chan>>
            <4>1. PICK row \in job.pings : x = row.who /\ c = row.chan
                BY <3>2
            <4>2. x = a
                BY <1>2, <4>1
            <4>3. CASE a \in heard
                BY <1>8, <3>1, <3>2, <4>3
            <4>4. CASE a \notin heard
                BY <1>7, <3>2, <4>1, <4>2, <4>4 DEF Awaited
            <4> QED
                BY <4>3, <4>4
        <3>3. CASE ~(job.answer = "ok" /\ \E row \in job.pings : <<x, c>> = <<row.who, row.chan>>)
            <4>1. notified'[<<x, c>>] = notified[<<x, c>>]
                BY <1>4, <3>1, <3>3
            <4>2. answered[<<x, c>>] \/ Awaited(x, c)
                BY <1>1, <2>1, <2>2, <4>1 DEF Remembered
            <4>3. CASE answered[<<x, c>>]
                BY <1>8, <3>1, <3>3, <4>3
            <4>4. CASE Awaited(x, c)
                <5>1. x # a
                    BY <1>2, <4>4 DEF Awaited
                <5> QED
                    BY <1>7, <4>4, <5>1 DEF Awaited
            <4> QED
                BY <4>2, <4>3, <4>4
        <3> QED
            BY <3>2, <3>3
    <2>3. ASSUME NEW x \in heard', NEW c \in Channels, Awaited(x, c)'
          PROVE  answered'[<<x, c>>]
        <3>1. x \in heard /\ x # a /\ x \in Agents /\ <<x, c>> \in Agents \X Channels
            BY <1>1, <1>2, MemoryFits
        <3>2. Awaited(x, c)
            BY <1>7, <2>3, <3>1 DEF Awaited
        <3>3. answered[<<x, c>>]
            BY <2>1, <3>1, <3>2 DEF Remembered
        <3>4. ~\E row \in job.pings : <<x, c>> = <<row.who, row.chan>>
            BY <1>2, <3>1
        <3> QED
            BY <1>8, <3>1, <3>3, <3>4
    <2> QED
        BY <2>2, <2>3 DEF Remembered
<1> QED
    BY <1>5, <1>6, <1>9, <1>10, <1>11, <1>12, <1>13 DEF NotifierInv

-----------------------------------------------------------------------------

LEMMA NotifierInitInv == ASSUME NotifierInit PROVE NotifierInv
<1> USE DEF NotifierInit
<1>1. /\ Layout \in Seq(Terminals)
      /\ \A i, j \in DOMAIN Layout : Layout[i] = Layout[j] => i = j
      /\ Home \in [Agents -> {Layout[i] : i \in DOMAIN Layout}]
      /\ \A a, b \in Agents : Home[a] = Home[b] => a = b
      /\ Chat # {} /\ MaxInputs \in Nat /\ MaxRestarts \in Nat
    BY NotifierAssumption
<1>2. FirstChannel \in Chat /\ FirstChannel \in Channels
    BY <1>1 DEF FirstChannel, Channels
<1>3. member \subseteq Memberships
    BY <1>2, RosterAssumption DEF Memberships
<1>4. MailboxTypeOK
    BY <1>2, <1>3 DEF MailboxTypeOK
<1>5. MailboxInv
    <2>1. IdsGivenOut /\ LogOrdered /\ \A c \in Channels : Ids(c) = {}
        BY DEF IdsGivenOut, LogOrdered, Ids
    <2>2. NoRowNoMarks
        BY DEF NoRowNoMarks
    <2>3. WatermarksInChannel
        BY <1>3 DEF WatermarksInChannel
    <2>4. DeletedLeavesNothing
        BY <1>2 DEF DeletedLeavesNothing, Memberships
    <2> QED
        BY <1>4, <2>1, <2>2, <2>3, <2>4 DEF MailboxInv, RowsAgree
<1>6. HerdrTypeOK
    <2>1. kind \in [Terminals -> Kinds \union {None}]
        OBVIOUS
    <2>2. activity \in [Terminals -> Activities]
        BY DEF Activities
    <2> QED
        BY <1>1, <2>1, <2>2 DEF HerdrTypeOK
<1>7. \A a \in Agents : /\ Home[a] \in Terminals /\ Exists(Home[a])
                        /\ PaneOf(Home[a]) \in Nat
    <2> SUFFICES ASSUME NEW a \in Agents
                 PROVE  Home[a] \in Terminals /\ Exists(Home[a]) /\ PaneOf(Home[a]) \in Nat
        OBVIOUS
    <2>1. PICK i \in DOMAIN Layout : Home[a] = Layout[i]
        BY <1>1
    <2>2. Home[a] \in Terminals
        BY <1>1, <2>1
    <2>3. Exists(Home[a])
        BY <2>1 DEF Exists
    <2> QED
        BY <1>6, <2>2, <2>3, PaneOfPlace
<1>8. /\ route \in [Agents -> Route]
      /\ \A a \in Agents : route[a].terminal = Home[a]
    <2>1. \A a \in Agents : kind[Home[a]] \in Kinds
        BY <1>7
    <2>2. \A a \in Agents :
              [terminal |-> Home[a], pane |-> PaneOf(Home[a]),
               occupant |-> kind[Home[a]], state |-> "active"] \in Route
        BY <1>7, <2>1 DEF Route
    <2> QED
        BY <2>2
<1>9. RoutesTypeOK
    BY <1>6, <1>8 DEF RoutesTypeOK
<1>10. OneActivePerTerminal
    BY <1>1, <1>8 DEF OneActivePerTerminal
<1>11. NotifierTypeOK
    <2>1. confirm \in [Agents -> [state : {"none", "waiting", "expired"}, chans : SUBSET Channels]]
        BY DEF NoConfirmation
    <2>2. inputs \in 0..MaxInputs /\ restarts \in 0..MaxRestarts
        BY <1>1
    <2>3. answered \in [Agents \X Channels -> BOOLEAN]
        OBVIOUS
    <2>4. idleTicks \in [Agents -> 0..2]
        OBVIOUS
    <2> QED
        BY <1>4, <1>9, <2>1, <2>2, <2>3, <2>4, NoJobFits DEF NotifierTypeOK
<1>12. RowsInLog /\ StillNews /\ PromptFits
    BY NoJobFits DEF RowsInLog, StillNews, PromptFits, Left
<1>13. Remembered
    <2>1. \A a \in Agents, c \in Channels : answered[<<a, c>>]
        OBVIOUS
    <2> QED
        BY <2>1 DEF Remembered
<1> QED
    BY <1>5, <1>10, <1>11, <1>12, <1>13 DEF NotifierInv

LEMMA NotifierIdles == ASSUME NotifierInv, UNCHANGED notifierVars PROVE NotifierInv'
<1>1. /\ UNCHANGED <<mailboxVars, herdrVars, known, route, confirm, heard, idleTicks,
                     escalated, answered, restarts, job, queued, inputs>>
    BY DEF notifierVars, memoryVars
<1>2. queued \subseteq Names /\ inputs \in 0..MaxInputs
    BY DEF NotifierInv, NotifierTypeOK
<1>3. Left' = Left /\ PromptFits'
    BY <1>1 DEF Left, PromptFits, NotifierInv
<1> QED
    BY <1>1, <1>2, <1>3, MemoryFits, JobSteps

LEMMA NotifierStep == ASSUME NotifierInv, NotifierNext PROVE NotifierInv'
<1>1. CASE PassStep
    BY <1>1, StartPassKeeps, PanesListedKeeps, ListArrivesKeeps, DeliverToKeeps,
       ConsiderStaleKeeps, PromptEndsKeeps, PromptAnsweredKeeps, LookForStaleKeeps,
       OtherJobsKeep, OnTickKeeps DEF PassStep
<1>2. CASE Tick \/ ListFails \/ PromptFails \/ HumanManages \/ HerdrActs \/ HubRestarts
    BY <1>2, TickKeeps, ListFailsKeeps, PromptEndsKeeps, HumanManagesKeeps, HerdrActsKeeps,
       HubRestartsKeeps
<1>3. CASE \E a \in Agents : \/ AgentRequests(a)
                             \/ \E c \in Channels : AgentSends(a, c)
                             \/ ConfirmationExpires(a)
    BY <1>3, AgentRequestsKeeps, AgentSendsKeeps, ConfirmationExpiresKeeps
<1>4. CASE \/ \E p \in Participants \ Agents, c \in Channels : HumanSends(p, c)
           \/ \E p \in Participants : DeactivateParticipant(p)
    BY <1>4, HumanSendsKeeps, DeactivateKeeps
<1> QED
    BY <1>1, <1>2, <1>3, <1>4 DEF NotifierNext

LEMMA NotifierSpecInv == NotifierSpec => []NotifierInv
<1>1. NotifierInit => NotifierInv
    BY NotifierInitInv
<1>2. NotifierInv /\ [NotifierNext]_notifierVars => NotifierInv'
    BY NotifierStep, NotifierIdles
<1> QED
    BY <1>1, <1>2, PTL DEF NotifierSpec

-----------------------------------------------------------------------------

(* The store, the routes, the pass and what the notifier remembers stay    *)
(* well typed over every interleaving of passes, requests and restarts.    *)
THEOREM NotifierTypeCorrect == NotifierSpec => []NotifierTypeOK
<1>1. NotifierInv => NotifierTypeOK
    BY DEF NotifierInv
<1> QED
    BY NotifierSpecInv, <1>1, PTL

(* The notifier's writes of marks and of routes, decided before it waited, *)
(* leave the rows of store.ts in agreement, bring back nothing of a channel *)
(* that is gone, and make no second owner of a terminal.                   *)
THEOREM NotifierKeepsRows ==
    NotifierSpec => [](RowsAgree /\ DeletedLeavesNothing /\ OneActivePerTerminal)
<1>1. NotifierInv => RowsAgree /\ DeletedLeavesNothing /\ OneActivePerTerminal
    BY DEF NotifierInv, MailboxInv
<1> QED
    BY NotifierSpecInv, <1>1, PTL

LEMMA NewsBeyondCursor ==
    ASSUME NotifierInv, NEW a \in Agents, NEW c \in Channels, <<a, c>> \in member,
           UnreadNews(a, c) # {}, News(a, c, notified) = {}
    PROVE  cursor[<<a, c>>] < notified[<<a, c>>]
<1>1. <<a, c>> \in Memberships
    BY RosterAssumption DEF Memberships
<1>2. PICK i \in DOMAIN log[c] : /\ log[c][i].id > cursor[<<a, c>>]
                                 /\ log[c][i].from \notin retired \union {a}
    BY DEF UnreadNews, News
<1>3. ~(log[c][i].id > notified[<<a, c>>])
    BY <1>2 DEF News
<1>4. log[c][i].id \in Nat /\ cursor[<<a, c>>] \in Nat /\ notified[<<a, c>>] \in Nat
    BY <1>1 DEF NotifierInv, MailboxInv, MailboxTypeOK, IdsGivenOut
<1> QED
    BY <1>2, <1>3, <1>4

(* While the hub has not restarted, a message whose ping the agent did not *)
(* answer is one whose ping the notifier will take back: nobody is left    *)
(* without a ping that may come, however passes, sends, reads, failures    *)
(* and expiries interleave.                                                *)
THEOREM NothingEverForgotten == NotifierSpec => [](restarts = 0 => NothingForgotten)
<1>1. NotifierInv => (restarts = 0 => NothingForgotten)
    <2> SUFFICES ASSUME NotifierInv, restarts = 0, NEW a \in Agents \ retired, NEW c \in Channels,
                        <<a, c>> \in member, UnreadNews(a, c) # {}, News(a, c, notified) = {}
                 PROVE  answered[<<a, c>>] \/ Awaited(a, c)
        BY DEF NothingForgotten
    <2>1. cursor[<<a, c>>] < notified[<<a, c>>]
        BY NewsBeyondCursor
    <2> QED
        BY <2>1 DEF NotifierInv, Remembered
<1> QED
    BY NotifierSpecInv, <1>1, PTL

(* One prompt of one agent.                                                *)
NewsOnly ==
    \A a \in Agents : (job.at = "deliver" /\ job'.at = "prompting" /\ job'.who = a) =>
        /\ ~\E c \in Channels : Awaited(a, c)
        /\ \A row \in job'.pings : <<a, row.chan>> \in member =>
              /\ row.through > notified[<<a, row.chan>>]
              /\ row.through > cursor[<<a, row.chan>>]

LEMMA PromptIsNews ==
    ASSUME NotifierInv, NEW a \in Agents, DeliverTo(a)
    PROVE  NewsOnly
<1> SUFFICES ASSUME job.at = "deliver", job'.at = "prompting"
             PROVE  /\ job'.who = a
                    /\ ~\E c \in Channels : Awaited(a, c)
                    /\ \A row \in job'.pings : <<a, row.chan>> \in member =>
                          /\ row.through > notified[<<a, row.chan>>]
                          /\ row.through > cursor[<<a, row.chan>>]
    BY DEF NewsOnly
<1>1. job \in Job /\ a \in job.todo
    BY MemoryFits DEF DeliverTo
<1>2. ~Skip(a)
    <2> SUFFICES ASSUME Skip(a) PROVE FALSE
        OBVIOUS
    <2>1. job' = [job EXCEPT !.todo = @ \ {a}]
        BY DEF Skip
    <2>2. job'.at = job.at
        BY <1>1, <2>1 DEF Job
    <2> QED
        BY <2>2
<1>3. PICK pane \in RoutedPane(a) : Prompt(a, pane) /\ confirm[a].state = "none"
    BY <1>2 DEF DeliverTo
<1>4. PICK pings : /\ pings = StillUnread(RowsOf(a))
                   /\ job' = [job EXCEPT !.at = "prompting", !.todo = @ \ {a}, !.who = a,
                                         !.pings = pings, !.pane = pane.pane]
    BY <1>3 DEF Prompt
<1>5. job'.who = a /\ job'.pings = pings
    BY <1>1, <1>4 DEF Job
<1>6. ASSUME NEW row \in pings, <<a, row.chan>> \in member
      PROVE  /\ row.through > notified[<<a, row.chan>>]
             /\ row.through > cursor[<<a, row.chan>>]
    <2>1. row \in job.rows /\ row.who = a /\ cursor[<<row.who, row.chan>>] < row.through
        BY <1>4 DEF StillUnread, RowsOf
    <2>2. row \in Left
        BY <1>1, <2>1 DEF Left
    <2>3. /\ row.through \in Nat
          /\ cursor[<<a, row.chan>>] \in Nat /\ notified[<<a, row.chan>>] \in Nat
        BY <1>1, <1>6, <2>1 DEF Job, Row, NotifierInv, MailboxInv, MailboxTypeOK
    <2>4. \/ notified[<<a, row.chan>>] < row.through
          \/ row.through <= cursor[<<a, row.chan>>]
        BY <1>6, <2>1, <2>2 DEF NotifierInv, StillNews
    <2> QED
        BY <2>1, <2>3, <2>4
<1> QED
    BY <1>3, <1>5, <1>6 DEF Awaited

LEMMA OnlyDeliveryPrompts ==
    ASSUME NotifierInv, [NotifierNext]_notifierVars
    PROVE  NewsOnly
<1> SUFFICES ASSUME job.at = "deliver", job'.at = "prompting"
             PROVE  \E a \in Agents : DeliverTo(a)
    BY PromptIsNews DEF NewsOnly
<1>1. job \in Job
    BY MemoryFits
<1>2. CASE PassStep
    <2>1. ~LookForStale
        <3> SUFFICES ASSUME LookForStale PROVE FALSE
            OBVIOUS
        <3>1. PICK rows, seen, todo : job' = [job EXCEPT !.at = "stale", !.rows = rows,
                                                         !.seen = seen, !.todo = todo]
            BY DEF LookForStale
        <3>2. job'.at = "stale"
            BY <1>1, <3>1 DEF Job
        <3> QED
            BY <3>2
    <2> QED
        BY <1>2, <2>1 DEF PassStep, StartPass, PanesListed, ListArrives, ConsiderStale,
              HerdrPrompts, PromptAnswered, EscalationAnswered, EndDeliver, OnTick, Drain, Close
<1>3. CASE Tick \/ ListFails \/ PromptFails
    BY <1>3 DEF Tick, ListFails, PromptFails
<1>4. CASE HubRestarts
    BY <1>4, NoJobFits DEF HubRestarts
<1>5. CASE UNCHANGED job
    BY <1>5
<1>6. ASSUME NEW name, NotifyChannel(name)
      PROVE  FALSE
    <2>1. job' = job
        BY <1>6 DEF NotifyChannel
    <2> QED
        BY <2>1
<1>7. CASE \E a \in Agents : \/ AgentRequests(a)
                             \/ \E c \in Channels : AgentSends(a, c)
                             \/ ConfirmationExpires(a)
    BY <1>5, <1>6, <1>7 DEF AgentRequests, AgentSends, ConfirmationExpires
<1>8. CASE \/ \E p \in Participants \ Agents, c \in Channels : HumanSends(p, c)
           \/ \E p \in Participants : DeactivateParticipant(p)
           \/ HumanManages \/ HerdrActs
    BY <1>5, <1>6, <1>8 DEF HumanSends, DeactivateParticipant, HumanManages, HerdrActs, memoryVars
<1>9. CASE UNCHANGED notifierVars
    BY <1>5, <1>9 DEF notifierVars, memoryVars
<1> QED
    BY <1>2, <1>3, <1>4, <1>7, <1>8, <1>9 DEF NotifierNext

(* An agent is prompted only about what no ping and no read has covered,   *)
(* though the pass read its rows before it waited for the pane list and    *)
(* for the prompts of other agents.                                        *)
THEOREM PingsAlwaysNews == NotifierSpec => PingsAreNews
<1>1. NotifierInv /\ [NotifierNext]_notifierVars => [NewsOnly]_notifierVars
    BY OnlyDeliveryPrompts
<1> QED
    BY NotifierSpecInv, <1>1, PTL DEF NotifierSpec, PingsAreNews, NewsOnly

LEMMA StoreStepAdvances ==
    ASSUME NotifierInv, NEW P, StoreStep(P)
    PROVE  NoRewind
<1> SUFFICES ASSUME NEW pc \in member \intersect member'
             PROVE  /\ cursor'[pc] >= cursor[pc]
                    /\ notified'[pc] >= notified[pc] \/ notified'[pc] = cursor'[pc]
    BY DEF NoRewind
<1>1. /\ pc \in Memberships /\ cursor[pc] \in Nat /\ notified[pc] \in Nat
      /\ cursor[pc] \in Ids(pc[2]) \union {0}
    BY DEF NotifierInv, MailboxInv, MailboxTypeOK, RowsAgree, WatermarksInChannel
<1>2. cursor'[pc] \in Nat /\ notified'[pc] \in Nat /\ Moves(P, pc)
    BY <1>1 DEF StoreStep, MailboxInv, MailboxTypeOK
<1> QED
    BY <1>1, <1>2 DEF Moves

(* A pass pings from rows that it read earlier and takes pings back when   *)
(* their window has passed: neither ever undoes a read, and a ping is      *)
(* taken back only down to what was read, whatever came in between.        *)
THEOREM NotifierNeverRewinds == NotifierSpec => ReadsNeverRewind
<1>1. ASSUME NotifierInv, [NotifierNext]_notifierVars
      PROVE  NoRewind
    <2>1. /\ cursor \in [Memberships -> Nat] /\ notified \in [Memberships -> Nat]
          /\ member \subseteq Memberships
        BY <1>1 DEF NotifierInv, MailboxInv, MailboxTypeOK
    <2>2. CASE UNCHANGED mailboxVars
        BY <1>1, <2>2, NothingStored, StoreStepAdvances DEF NotifierInv
    <2>3. CASE StartPass
        <3>1. PICK R : notified' = RolledBack(notified, R)
            BY <2>3 DEF StartPass
        <3>2. cursor' = cursor
            BY <2>3 DEF StartPass
        <3>3. \A pc \in member : notified'[pc] = notified[pc] \/ notified'[pc] = cursor[pc]
            BY <2>1, <3>1 DEF RolledBack
        <3> QED
            BY <2>1, <3>2, <3>3 DEF NoRewind
    <2>4. CASE PromptAnswered
        <3>1. cursor' = cursor
            BY <2>4 DEF PromptAnswered
        <3>2. \A pc \in member : notified'[pc] >= notified[pc]
            <4>1. CASE notified' = notified
                BY <2>1, <4>1
            <4>2. CASE notified' = NotifiedOf(job.pings)
                <5>1. \A pc \in member : NotifiedOf(job.pings)[pc] \in Nat
                                        /\ notified[pc] <= NotifiedOf(job.pings)[pc]
                    BY <1>1, <2>1, PingMarks
                <5> QED
                    BY <2>1, <4>2, <5>1
            <4> QED
                BY <2>4, <4>1, <4>2 DEF PromptAnswered
        <3> QED
            BY <2>1, <3>1, <3>2 DEF NoRewind
    <2>5. CASE \E a \in Agents : AgentRequests(a) \/ \E c \in Channels : AgentSends(a, c)
        BY <1>1, <2>5, AgentRequestStores, SendIsStep, StoreStepAdvances, RosterAssumption
        DEF AgentSends, NotifierInv
    <2>6. CASE \E p \in Participants, c \in Channels : HumanSends(p, c)
        BY <1>1, <2>6, SendIsStep, StoreStepAdvances DEF HumanSends, NotifierInv
    <2>7. CASE HumanManages \/ \E p \in Participants : DeactivateParticipant(p)
        BY <1>1, <2>7, HumanManagesStores, DeactivateSteps, StoreStepAdvances
        DEF DeactivateParticipant, NotifierInv
    <2>8. CASE \/ Tick \/ ListFails \/ PromptFails \/ HerdrActs \/ HubRestarts
               \/ \E a \in Agents : ConfirmationExpires(a)
        BY <2>2, <2>8 DEF Tick, ListFails, PromptFails, HerdrActs, HubRestarts, ConfirmationExpires
    <2>9. CASE PassStep
        BY <2>2, <2>3, <2>4, <2>9 DEF PassStep, PanesListed, ListArrives, DeliverTo, ConsiderStale,
           HerdrPrompts, LookForStale, EscalationAnswered, EndDeliver, OnTick, Drain, Close
    <2>10. CASE UNCHANGED notifierVars
        BY <2>2, <2>10 DEF notifierVars
    <2> QED
        BY <1>1, <2>5, <2>6, <2>7, <2>8, <2>9, <2>10 DEF NotifierNext
<1>2. NotifierInv /\ [NotifierNext]_notifierVars => [NoRewind]_mailboxVars
    BY <1>1
<1> QED
    BY NotifierSpecInv, <1>2, PTL DEF NotifierSpec, ReadsNeverRewind, NoRewind

(* No step of the notifier breaks what the store promises: with passes,    *)
(* pings that are marked and pings that are taken back among the requests, *)
(* each step is one of Inbox or invisible to it.  (Its initial state has   *)
(* members already, so the promise is about every step from there on.)     *)
THEOREM NotifierKeepsThePromise ==
    NotifierSpec => [][Promise!Next]_<<lastId, member, UnreadOf, shown>>
<1>1. NotifierInit => InboxInv
    <2> SUFFICES ASSUME NotifierInit PROVE InboxInv
        OBVIOUS
    <2>1. MailboxInv
        BY NotifierInitInv DEF NotifierInv
    <2>2. \A c \in Channels : Ids(c) = {}
        BY DEF NotifierInit, Ids
    <2>3. IdsApart /\ AnswersGivenOut /\ AnswersCovered
        BY <2>2 DEF NotifierInit, IdsApart, AnswersGivenOut, AnswersCovered
    <2> QED
        BY <2>1, <2>3 DEF InboxInv
<1>2. ASSUME InboxInv, NotifierInv, [NotifierNext]_notifierVars
      PROVE  Refines
    <2>1. MailboxNext => Refines
        BY <1>2, StepRefines
    <2>2. UNCHANGED mailboxVars => Refines
        BY <1>2, StepRefines
    <2>3. CASE StartPass \/ PromptAnswered
        BY <1>2, <2>3, QuietRefines DEF StartPass, PromptAnswered
    <2>4. ASSUME NEW a \in Agents,
                 AgentRequests(a) \/ (\E c \in Channels : AgentSends(a, c))
          PROVE  Refines
        <3>1. a \in Participants
            BY RosterAssumption
        <3>2. UNCHANGED mailboxVars \/ MailboxNext
            BY <2>4, <3>1 DEF AgentRequests, AgentSends, MailboxNext
        <3> QED
            BY <2>1, <2>2, <3>2
    <2>5. CASE \E p \in Participants, c \in Channels : HumanSends(p, c)
        BY <2>1, <2>5 DEF HumanSends, MailboxNext
    <2>6. CASE HumanManages
        BY <2>1, <2>6, RosterAssumption DEF HumanManages, MailboxNext
    <2>7. CASE \E p \in Participants : DeactivateParticipant(p)
        BY <2>1, <2>7 DEF DeactivateParticipant, MailboxNext
    <2>8. CASE \/ Tick \/ ListFails \/ PromptFails \/ HerdrActs \/ HubRestarts
               \/ \E a \in Agents : ConfirmationExpires(a)
        BY <2>2, <2>8 DEF Tick, ListFails, PromptFails, HerdrActs, HubRestarts, ConfirmationExpires
    <2>9. CASE PassStep
        BY <2>2, <2>3, <2>9 DEF PassStep, PanesListed, ListArrives, DeliverTo, ConsiderStale,
           HerdrPrompts, LookForStale, EscalationAnswered, EndDeliver, OnTick, Drain, Close
    <2>10. CASE UNCHANGED notifierVars
        BY <2>2, <2>10 DEF notifierVars
    <2> QED
        BY <1>2, <2>4, <2>5, <2>6, <2>7, <2>8, <2>9, <2>10 DEF NotifierNext
<1>3. NotifierInv /\ [NotifierNext]_notifierVars => NotifierInv'
    BY NotifierStep, NotifierIdles
<1>4. InboxInv /\ NotifierInv /\ [NotifierNext]_notifierVars =>
        InboxInv' /\ [Promise!Next]_<<lastId, member, UnreadOf, shown>>
    <2>1. NotifierInv => MailboxInv
        BY DEF NotifierInv
    <2>2. NotifierInv' => MailboxInv'
        BY DEF NotifierInv
    <2> QED
        BY <1>2, <1>3, <2>2 DEF Refines, InboxInv
<1> QED
    BY <1>1, <1>3, <1>4, NotifierInitInv, PTL DEF NotifierSpec

-----------------------------------------------------------------------------
(* A pass goes on to its end.                                              *)

(* The phases of a pass still to come, and the awaits within one.          *)
Phase(at) ==
    CASE at = "start"     -> 8
      [] at = "listing"   -> 7
      [] at = "listed"    -> 6
      [] at \in {"deliver", "prompting", "prompted"} -> 5
      [] at \in {"stale", "escalating"} -> 4
      [] at = "onTick"    -> 3
      [] at = "drain"     -> 2
      [] at = "closing"   -> 1
      [] OTHER            -> 0

Awaits(at) ==
    CASE at = "prompting" -> 2
      [] at \in {"prompted", "escalating"} -> 1
      [] OTHER            -> 0

(* The next phase; or, within a phase, one agent less; or, for an agent,   *)
(* one await less.  It ends only with nothing left of its batch.           *)
PassAdvances ==
    /\ job'.batch = job.batch /\ queued' = queued
    /\ job'.at \in {"idle", "closing"} => job.batch = {}
    /\ \/ Phase(job'.at) < Phase(job.at)
       \/ /\ Phase(job'.at) = Phase(job.at)
          /\ job'.todo \subseteq job.todo
          /\ job'.todo # job.todo \/ Awaits(job'.at) < Awaits(job.at)

(* A channel of the batch gets a pass of its own, or the queue becomes the *)
(* batch.                                                                  *)
ChannelTaken ==
    /\ job.at = "drain" /\ job'.at = "start" /\ job'.scope \in job.batch
    /\ job'.batch = job.batch \ {job'.scope} /\ queued' = queued

QueueTaken ==
    /\ job.at = "drain" /\ job'.at = "drain"
    /\ job.batch = {} /\ job'.batch = queued /\ queued # {} /\ queued' = {}

PassWorks == PassStep \/ ListFails \/ PromptFails

PassMovesOn ==
    /\ PassWorks => PassAdvances \/ ChannelTaken \/ QueueTaken
    /\ ~PassWorks => \/ job' = job /\ queued \subseteq queued'
                     \/ job.at = "idle" /\ job'.at = "start" /\ job'.batch = {} /\ queued' = queued
                     \/ restarts' = restarts + 1 /\ job' = NoJob /\ queued' = {}

BatchEmpty == job.at \in {"idle", "closing"} => job.batch = {}

LEMMA FinishedAdvances ==
    ASSUME NotifierInv, job' = Finished, queued' = queued,
           job.at \in {"start", "listing", "stale"}
    PROVE  PassAdvances
<1>1. job \in Job
    BY MemoryFits
<1>2. Finished.at \in {"onTick", "drain"}
    BY <1>1, FinishedFits
<1>3. Finished.batch = job.batch
    BY DEF Finished, NoJob
<1> QED
    BY <1>2, <1>3 DEF PassAdvances, Phase

LEMMA DeliverToAdvances ==
    ASSUME NotifierInv, NEW a \in Agents, DeliverTo(a)
    PROVE  PassAdvances
<1>1. job \in Job /\ job.at = "deliver" /\ a \in job.todo /\ queued' = queued
    BY MemoryFits DEF DeliverTo
<1>2. Skip(a) \/ \E pane : Prompt(a, pane)
    BY DEF DeliverTo
<1>3. CASE Skip(a)
    <2>1. job'.at = "deliver" /\ job'.todo = job.todo \ {a} /\ job'.batch = job.batch
        BY <1>1, <1>3 DEF Skip, Job
    <2> QED
        BY <1>1, <2>1 DEF PassAdvances, Phase
<1>4. ASSUME NEW pane, Prompt(a, pane)
      PROVE  PassAdvances
    <2>1. PICK pings, place :
              job' = [job EXCEPT !.at = "prompting", !.todo = @ \ {a}, !.who = a,
                                 !.pings = pings, !.pane = place]
        BY <1>4 DEF Prompt
    <2>2. job'.at = "prompting" /\ job'.todo = job.todo \ {a} /\ job'.batch = job.batch
        BY <1>1, <2>1 DEF Job
    <2> QED
        BY <1>1, <2>2 DEF PassAdvances, Phase
<1> QED
    BY <1>2, <1>3, <1>4

LEMMA ConsiderStaleAdvances ==
    ASSUME NotifierInv, NEW a \in Agents, ConsiderStale(a)
    PROVE  PassAdvances
<1>1. job \in Job /\ job.at = "stale" /\ a \in job.todo /\ queued' = queued
    BY MemoryFits DEF ConsiderStale
<1>2. \/ job' = [job EXCEPT !.at = "escalating", !.todo = @ \ {a}]
      \/ job' = [job EXCEPT !.todo = @ \ {a}]
    BY DEF ConsiderStale
<1>3. /\ job'.at \in {"stale", "escalating"} /\ job'.todo = job.todo \ {a}
      /\ job'.batch = job.batch
    BY <1>1, <1>2 DEF Job
<1> QED
    BY <1>1, <1>3 DEF PassAdvances, Phase

(* The steps that only change the place of the pass and its local data.    *)
LEMMA PlainAdvances ==
    ASSUME NotifierInv,
           PanesListed \/ ListArrives \/ HerdrPrompts \/ PromptFails \/ PromptAnswered
           \/ LookForStale \/ EscalationAnswered \/ OnTick
    PROVE  PassAdvances
<1>1. job \in Job
    BY MemoryFits
<1>2. CASE PanesListed
    BY <1>1, <1>2 DEF PanesListed, PassAdvances, Phase, Job
<1>3. CASE ListArrives
    BY <1>1, <1>3 DEF ListArrives, PassAdvances, Phase, Job
<1>4. CASE HerdrPrompts \/ PromptFails
    <2>1. /\ job.at = "prompting" /\ queued' = queued
          /\ \E answer : job' = [job EXCEPT !.at = "prompted", !.answer = answer]
        BY <1>4 DEF HerdrPrompts, PromptFails
    <2>2. job'.at = "prompted" /\ job'.todo = job.todo /\ job'.batch = job.batch
        BY <1>1, <2>1 DEF Job
    <2> QED
        BY <2>1, <2>2 DEF PassAdvances, Phase, Awaits
<1>5. CASE PromptAnswered
    <2>1. /\ job.at = "prompted" /\ queued' = queued
          /\ job' = [job EXCEPT !.at = "deliver", !.who = None, !.pings = {}, !.pane = 0,
                                !.answer = "none"]
        BY <1>5 DEF PromptAnswered
    <2>2. job'.at = "deliver" /\ job'.todo = job.todo /\ job'.batch = job.batch
        BY <1>1, <2>1 DEF Job
    <2> QED
        BY <2>1, <2>2 DEF PassAdvances, Phase, Awaits
<1>6. CASE LookForStale
    <2>1. /\ job.at = "deliver" /\ queued' = queued
          /\ \E rows, seen, todo : job' = [job EXCEPT !.at = "stale", !.rows = rows,
                                                      !.seen = seen, !.todo = todo]
        BY <1>6 DEF LookForStale
    <2>2. job'.at = "stale" /\ job'.batch = job.batch
        BY <1>1, <2>1 DEF Job
    <2> QED
        BY <2>1, <2>2 DEF PassAdvances, Phase
<1>7. CASE EscalationAnswered
    <2>1. /\ job.at = "escalating" /\ queued' = queued
          /\ job' = [job EXCEPT !.at = "stale"]
        BY <1>7 DEF EscalationAnswered
    <2>2. job'.at = "stale" /\ job'.todo = job.todo /\ job'.batch = job.batch
        BY <1>1, <2>1 DEF Job
    <2> QED
        BY <2>1, <2>2 DEF PassAdvances, Phase, Awaits
<1>8. CASE OnTick
    BY <1>1, <1>8 DEF OnTick, PassAdvances, Phase, Job
<1> QED
    BY <1>2, <1>3, <1>4, <1>5, <1>6, <1>7, <1>8

LEMMA DrainAdvances ==
    ASSUME NotifierInv, Drain
    PROVE  PassAdvances \/ ChannelTaken \/ QueueTaken
<1>1. job \in Job /\ job.at = "drain"
    BY MemoryFits DEF Drain
<1>2. ASSUME NEW name \in job.batch, queued' = queued,
             job' = [NoJob EXCEPT !.at = "start", !.scope = name, !.batch = job.batch \ {name}]
      PROVE  ChannelTaken
    BY <1>1, <1>2 DEF NoJob, ChannelTaken
<1>3. CASE job.batch = {} /\ queued # {} /\ job' = [job EXCEPT !.batch = queued] /\ queued' = {}
    BY <1>1, <1>3 DEF QueueTaken, Job
<1>4. CASE job.batch = {} /\ job' = [job EXCEPT !.at = "closing"] /\ queued' = queued
    BY <1>1, <1>4 DEF PassAdvances, Phase, Job
<1> QED
    BY <1>2, <1>3, <1>4 DEF Drain

LEMMA PassStepAdvances ==
    ASSUME NotifierInv, BatchEmpty, PassWorks
    PROVE  PassAdvances \/ ChannelTaken \/ QueueTaken
<1>1. job \in Job
    BY MemoryFits
<1>2. CASE StartPass
    <2>0. job.at = "start" /\ queued' = queued
        BY <1>2 DEF StartPass
    <2>1. \/ job' = Finished
          \/ \E rows, seen : job' = [job EXCEPT !.at = "listing", !.rows = rows, !.seen = seen]
        BY <1>2 DEF StartPass
    <2>2. ASSUME NEW rows, NEW seen,
                 job' = [job EXCEPT !.at = "listing", !.rows = rows, !.seen = seen]
          PROVE  job'.at = "listing" /\ job'.batch = job.batch
        BY <1>1, <2>2 DEF Job
    <2>3. ASSUME job'.at = "listing", job'.batch = job.batch
          PROVE  PassAdvances
        <3>1. Phase(job'.at) = 7 /\ Phase(job.at) = 8
            BY <2>0, <2>3 DEF Phase
        <3> QED
            BY <2>0, <2>3, <3>1 DEF PassAdvances
    <2> QED
        BY <2>0, <2>1, <2>2, <2>3, FinishedAdvances
<1>3. CASE ListFails \/ EndDeliver
    BY <1>3, FinishedAdvances DEF ListFails, EndDeliver
<1>4. CASE Close
    <2>1. job.at = "closing" /\ job' = NoJob /\ queued' = queued /\ job.batch = {}
        BY <1>4 DEF Close, BatchEmpty
    <2>2. NoJob.at = "idle" /\ NoJob.batch = {}
        BY DEF NoJob
    <2> QED
        BY <2>1, <2>2 DEF PassAdvances, Phase
<1> QED
    BY <1>2, <1>3, <1>4, DrainAdvances, PlainAdvances, DeliverToAdvances, ConsiderStaleAdvances
    DEF PassWorks, PassStep

LEMMA OthersLeavePass ==
    ASSUME NotifierInv, BatchEmpty, NotifierNext, ~PassWorks
    PROVE  \/ job' = job /\ queued \subseteq queued'
           \/ job.at = "idle" /\ job'.at = "start" /\ job'.batch = {} /\ queued' = queued
           \/ restarts' = restarts + 1 /\ job' = NoJob /\ queued' = {}
<1>1. \A scope : LET begun == [NoJob EXCEPT !.at = "start", !.scope = scope] IN
          begun.at = "start" /\ begun.batch = {}
    BY DEF NoJob
<1>2. CASE Tick
    <2>1. job.at = "idle" /\ job' = [NoJob EXCEPT !.at = "start"] /\ queued' = queued
        BY <1>2 DEF Tick
    <2> QED
        BY <2>1 DEF NoJob
<1>3. ASSUME NEW name, NotifyChannel(name)
      PROVE  \/ job' = job /\ queued \subseteq queued'
             \/ job.at = "idle" /\ job'.at = "start" /\ job'.batch = {} /\ queued' = queued
    BY <1>1, <1>3 DEF NotifyChannel
<1>4. CASE HubRestarts
    BY <1>4 DEF HubRestarts
<1>5. CASE \E a \in Agents : \/ AgentRequests(a)
                             \/ \E c \in Channels : AgentSends(a, c)
                             \/ ConfirmationExpires(a)
    BY <1>3, <1>5 DEF AgentRequests, AgentSends, ConfirmationExpires
<1>6. CASE \/ \E p \in Participants \ Agents, c \in Channels : HumanSends(p, c)
           \/ \E p \in Participants : DeactivateParticipant(p)
           \/ HumanManages \/ HerdrActs
    BY <1>3, <1>6 DEF HumanSends, DeactivateParticipant, HumanManages, HerdrActs, memoryVars
<1> QED
    BY <1>2, <1>4, <1>5, <1>6 DEF NotifierNext, PassWorks

LEMMA PassMoves ==
    ASSUME NotifierInv, BatchEmpty, [NotifierNext]_notifierVars
    PROVE  [PassMovesOn]_notifierVars /\ BatchEmpty'
<1>1. CASE UNCHANGED notifierVars
    BY <1>1 DEF notifierVars, memoryVars, BatchEmpty
<1>2. CASE NotifierNext
    <2>1. PassMovesOn
        BY <1>2, PassStepAdvances, OthersLeavePass DEF PassMovesOn
    <2>2. NoJob.batch = {}
        BY DEF NoJob
    <2>3. BatchEmpty'
        BY <2>1, <2>2
        DEF PassMovesOn, PassAdvances, ChannelTaken, QueueTaken, BatchEmpty
    <2> QED
        BY <2>1, <2>3
<1> QED
    BY <1>1, <1>2

(* The safety half of SilentAgentIsPinged and StaleAgentIsTold             *)
(* (deliverUnsafe, drainQueuedChannels): each step of a pass brings it to  *)
(* its next phase, or leaves one agent less to handle, or one await less   *)
(* for an agent, so that it ends after as many steps as it found agents    *)
(* with news allow; what was queued is taken up channel by channel before  *)
(* the hub rests; and nothing beside the pass touches it, but a restart.   *)
THEOREM PassAlwaysMovesOn == NotifierSpec => [][PassMovesOn]_notifierVars
<1>1. NotifierInit => BatchEmpty
    BY DEF NotifierInit, BatchEmpty, NoJob
<1>2. NotifierInv /\ BatchEmpty /\ [NotifierNext]_notifierVars =>
          [PassMovesOn]_notifierVars /\ BatchEmpty'
    BY PassMoves
<1> QED
    BY NotifierSpecInv, <1>1, <1>2, PTL DEF NotifierSpec

=============================================================================
