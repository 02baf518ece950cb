--------------------------- MODULE TabletSyncProofs ---------------------------
(***************************************************************************)
(* Lemmas about what is drawn on tablets that are signed out, for any      *)
(* tablets, strokes and bounds: an inductive invariant of the steps of     *)
(* TabletSync.  GalleryProofs draws the conclusion.                        *)
(***************************************************************************)
EXTENDS TabletSync, TLAPS

Sent(q) == {q[i] : i \in DOMAIN q}
Online == {s \in Strokes : made[s] = "online"}
Messages == [to : {"info", "merge", "replace"}, date : Nat, strokes : SUBSET Strokes]
TabletStates ==
    [app : {"out", "asking", "fetching", "dated", "watching"}, date : Nat, strokes : SUBSET Strokes,
     created : BOOLEAN, modified : BOOLEAN, thumbnail : Nat, mixed : BOOLEAN, queue : Seq(Messages)]

SyncTypes ==
    /\ node \in [date : Nat, strokes : SUBSET Strokes] /\ undated \subseteq Online
    /\ tablets \in [Tablets -> TabletStates] /\ made \in [Strokes -> Tablets \cup {"nobody", "online"}]
    /\ redated \in BOOLEAN
    /\ leftT \in [online : Nat, offline : Nat, dates : Nat, signIns : Nat] /\ leftT.dates > 1

\* The marks of a tablet are there only while it is signed out, and what it has to
\* send only while it is not.
Modes(t) == IF tablets[t].app = "out" THEN tablets[t].queue = <<>> /\ tablets[t].thumbnail = 0
                                      ELSE ~tablets[t].created /\ ~tablets[t].modified

\* Until an upload writes an old date back, no date is newer than that of the drawing,
\* but for the first one of a drawing that was created on a tablet.
Timely(d) == d < leftT.dates /\ (redated \/ d <= node.date \/ d <= 1)

Seen(S) == S \cap Online \subseteq node.strokes \cup replaced /\ \A s \in S : ~New(s)

GoodMessage(m) == Timely(m.date) /\ Seen(m.strokes)

GoodTablet(t) ==
    /\ Modes(t) /\ Timely(tablets[t].date) /\ Timely(tablets[t].thumbnail) /\ Seen(tablets[t].strokes)
    /\ \A m \in Sent(tablets[t].queue) : GoodMessage(m)

\* A tablet with the date of the drawing has what was drawn and dated online.
UpToDate(t) ==
    ~redated /\ ~tablets[t].mixed /\ tablets[t].date = node.date =>
        (node.strokes \cap Online) \ (undated \cup replaced) \subseteq tablets[t].strokes

TabletAccounted(t) ==
    \A s \in Own(t) :
        \/ s \in tablets[t].strokes /\ (tablets[t].modified \/ tablets[t].created \/ tablets[t].app = "asking")
        \/ \E m \in Sent(tablets[t].queue) : s \in m.strokes
        \/ s \in node.strokes \cup refused \cup cut \cup replaced

TabletInv ==
    /\ SyncTypes /\ wronged = {} /\ node.date < leftT.dates /\ Seen(Online \cup node.strokes)
    /\ ~redated /\ node.date = 0 => Online = {}
    /\ \A t \in Tablets : GoodTablet(t) /\ UpToDate(t) /\ TabletAccounted(t)

-----------------------------------------------------------------------------
(* What is on its way *)

LEMMA SentFacts ==
    ASSUME NEW q \in Seq(Messages)
    PROVE  /\ \A m \in Messages : Append(q, m) \in Seq(Messages) /\ Sent(Append(q, m)) = Sent(q) \cup {m}
           /\ q # <<>> => /\ Head(q) \in Messages /\ Tail(q) \in Seq(Messages)
                          /\ Sent(q) = {Head(q)} \cup Sent(Tail(q))
<1>1. ASSUME NEW m \in Messages
      PROVE  Append(q, m) \in Seq(Messages) /\ Sent(Append(q, m)) = Sent(q) \cup {m}
    <2>1. /\ Append(q, m) \in Seq(Messages) /\ DOMAIN Append(q, m) = DOMAIN q \cup {Len(q) + 1}
          /\ Append(q, m)[Len(q) + 1] = m /\ \A i \in DOMAIN q : Append(q, m)[i] = q[i]
        BY <1>1
    <2> QED
        BY <2>1 DEF Sent
<1>2. ASSUME q # <<>>
      PROVE  Head(q) \in Messages /\ Tail(q) \in Seq(Messages) /\ Sent(q) = {Head(q)} \cup Sent(Tail(q))
    <2>1. /\ Len(q) \in Nat \ {0} /\ DOMAIN q = 1..Len(q) /\ q[1] = Head(q) /\ Head(q) \in Messages
          /\ Tail(q) \in Seq(Messages) /\ DOMAIN Tail(q) = 1..(Len(q) - 1)
          /\ \A i \in 1..(Len(q) - 1) : Tail(q)[i] = q[i + 1]
        BY <1>2
    <2>2. ASSUME NEW i \in DOMAIN q PROVE q[i] \in {Head(q)} \cup Sent(Tail(q))
        <3>1. CASE i = 1
            BY <2>1, <3>1
        <3>2. CASE i # 1
            <4>1. i - 1 \in 1..(Len(q) - 1) /\ Tail(q)[i - 1] = q[i]
                BY <2>1, <3>2
            <4> QED
                BY <2>1, <4>1 DEF Sent
        <3> QED
            BY <3>1, <3>2
    <2>3. ASSUME NEW i \in DOMAIN Tail(q) PROVE Tail(q)[i] \in Sent(q)
        <3>1. i + 1 \in DOMAIN q /\ Tail(q)[i] = q[i + 1]
            BY <2>1
        <3> QED
            BY <3>1 DEF Sent
    <2> QED
        BY <2>1, <2>2, <2>3 DEF Sent
<1> QED
    BY <1>1, <1>2

LEMMA SentOfFew ==
    /\ Sent(<<>>) = {}
    /\ \A m : Sent(<<m>>) = {m}
    /\ \A m, n : Sent(<<m, n>>) = {m, n}
BY DEF Sent

LEMMA TabletFacts ==
    ASSUME TabletInv, NEW t \in Tablets
    PROVE  /\ tablets[t] \in TabletStates /\ tablets[t].queue \in Seq(Messages)
           /\ tablets[t].strokes \in SUBSET Strokes /\ tablets[t].date \in Nat /\ tablets[t].thumbnail \in Nat
           /\ \A m \in Sent(tablets[t].queue) : m \in Messages /\ m.strokes \in SUBSET Strokes /\ m.date \in Nat
<1>1. /\ tablets[t] \in TabletStates /\ tablets[t].queue \in Seq(Messages)
      /\ tablets[t].strokes \in SUBSET Strokes /\ tablets[t].date \in Nat /\ tablets[t].thumbnail \in Nat
    BY DEF TabletInv, SyncTypes, TabletStates
<1>2. \A i \in DOMAIN tablets[t].queue : tablets[t].queue[i] \in Messages
    BY <1>1
<1>3. \A m \in Messages : m.strokes \in SUBSET Strokes /\ m.date \in Nat
    BY DEF Messages
<1> QED
    BY <1>1, <1>2, <1>3 DEF Sent

LEMMA StillGood ==
    ASSUME UNCHANGED <<node, replaced, redated>>, Online' = Online, leftT'.dates = leftT.dates,
           \A s \in Strokes : New(s)' => New(s)
    PROVE  /\ \A d : Timely(d) => Timely(d)'
           /\ \A S \in SUBSET Strokes : Seen(S) => Seen(S)'
           /\ \A m : m.strokes \in SUBSET Strokes /\ GoodMessage(m) => GoodMessage(m)'
<1>1. \A d : Timely(d) => Timely(d)'
    BY DEF Timely
<1>2. \A S \in SUBSET Strokes : Seen(S) => Seen(S)'
    BY DEF Seen
<1> QED
    BY <1>1, <1>2 DEF GoodMessage

LEMMA MessageTypes ==
    /\ \A d \in Nat : Info(d) \in Messages
    /\ \A S \in SUBSET Strokes : Merge(S) \in Messages /\ Replace(S) \in Messages
BY DEF Info, Merge, Replace, Messages

-----------------------------------------------------------------------------
(* The steps *)

LEMMA TabletsAtFirst ==
    ASSUME NEW creator, NEW bounds \in [online : Nat, offline : Nat, dates : Nat, signIns : Nat],
           bounds.dates > 1, TabletInit(creator, bounds)
    PROVE  TabletInv
<1>1. /\ node \in [date : Nat, strokes : SUBSET Strokes] /\ node.strokes = {} /\ node.date <= 1
      /\ undated = {} /\ wronged = {} /\ redated = FALSE /\ leftT = bounds
      /\ made = [s \in Strokes |-> "nobody"] /\ Online = {}
    BY DEF TabletInit, Online
<1>2. ASSUME NEW t \in Tablets
      PROVE  /\ tablets[t] \in TabletStates /\ tablets[t].app = "out" /\ tablets[t].queue = <<>>
             /\ tablets[t].date = 1 /\ tablets[t].thumbnail = 0 /\ tablets[t].strokes = {} /\ Own(t) = {}
    <2>1. /\ tablets[t].app = "out" /\ tablets[t].queue = <<>> /\ tablets[t].date = 1
          /\ tablets[t].thumbnail = 0 /\ tablets[t].strokes = {}
        BY DEF TabletInit, NewTablet
    <2>2. tablets[t] \in TabletStates
        <3>1. tablets[t] = [app |-> "out", date |-> 1, strokes |-> {}, created |-> (t = creator), modified |-> FALSE,
                            thumbnail |-> 0, mixed |-> FALSE, queue |-> <<>>]
            BY DEF TabletInit, NewTablet
        <3>2. (t = creator) \in BOOLEAN /\ <<>> \in Seq(Messages)
            OBVIOUS
        <3> QED
            BY <3>1, <3>2 DEF TabletStates
    <2> QED
        BY <1>1, <2>1, <2>2, TabletsAreNames DEF Own
<1>3. SyncTypes
    <2>1. tablets \in [Tablets -> TabletStates]
        BY <1>2 DEF TabletInit
    <2> QED
        BY <1>1, <2>1 DEF SyncTypes
<1> QED
    BY <1>1, <1>2, <1>3, SentOfFew
    DEF TabletInv, GoodTablet, Modes, Timely, Seen, UpToDate, TabletAccounted

\* What a step of one tablet leaves alone.
LEMMA OneTablet ==
    ASSUME TabletInv, NEW t \in Tablets, SyncTypes',
           UNCHANGED <<node, undated, replaced, wronged, redated>>, Online' = Online,
           \A s \in Strokes : New(s)' => New(s),
           leftT'.dates = leftT.dates, refused \subseteq refused', cut \subseteq cut',
           \A u \in Tablets : u # t => tablets'[u] = tablets[u] /\ Own(u)' = Own(u),
           GoodTablet(t)', UpToDate(t)', TabletAccounted(t)'
    PROVE  TabletInv'
<1>1. ASSUME NEW u \in Tablets, u # t PROVE GoodTablet(u)'
    <2>1. /\ tablets'[u] = tablets[u] /\ GoodTablet(u) /\ tablets[u].strokes \in SUBSET Strokes
          /\ \A m \in Sent(tablets[u].queue) : m.strokes \in SUBSET Strokes
        BY <1>1, TabletFacts DEF TabletInv
    <2> QED
        BY <2>1, StillGood DEF GoodTablet, Modes
<1>2. ASSUME NEW u \in Tablets, u # t PROVE UpToDate(u)' /\ TabletAccounted(u)'
    BY <1>2 DEF TabletInv, UpToDate, TabletAccounted
<1>3. Seen(Online \cup node.strokes)'
    <2>1. Online \cup node.strokes \in SUBSET Strokes
        BY DEF TabletInv, SyncTypes, Online
    <2> QED
        BY <2>1, StillGood DEF TabletInv
<1> QED
    BY <1>1, <1>2, <1>3 DEF TabletInv

LEMMA EditOnlineStep == ASSUME TabletInv, NEW s \in Strokes, EditOnline(s) PROVE TabletInv'
<1>1. /\ node'.date = node.date /\ node.date # 0 /\ node'.strokes = node.strokes \cup {s}
      /\ undated = {} /\ undated' = {s}
      /\ node' \in [date : Nat, strokes : SUBSET Strokes]
      /\ made' = [made EXCEPT ![s] = "online"] /\ New(s) /\ leftT'.dates = leftT.dates
      /\ leftT' \in [online : Nat, offline : Nat, dates : Nat, signIns : Nat]
      /\ UNCHANGED <<tablets, refused, cut, replaced, wronged, redated>>
    BY DEF EditOnline, TabletInv, SyncTypes
<1>2. Online' = Online \cup {s} /\ \A r \in Strokes : New(r)' => New(r)
    BY <1>1 DEF TabletInv, SyncTypes, Online, New
<1>3. SyncTypes'
    BY <1>1, <1>2 DEF TabletInv, SyncTypes
<1>4. \A S \in SUBSET Strokes : Seen(S) => Seen(S)'
    BY <1>1, <1>2 DEF Seen
<1>5. Seen(Online \cup node.strokes)'
    BY <1>1, <1>2 DEF TabletInv, SyncTypes, Seen, New
<1>6. ASSUME NEW t \in Tablets PROVE GoodTablet(t)' /\ UpToDate(t)' /\ TabletAccounted(t)'
    <2>1. tablets[t] \in TabletStates /\ tablets[t].strokes \in SUBSET Strokes
        BY DEF TabletInv, SyncTypes, TabletStates
    <2>2. \A m \in Sent(tablets[t].queue) : m \in Messages /\ m.strokes \in SUBSET Strokes
        BY TabletFacts
    <2>3. GoodTablet(t)'
        <3>1. \A d : Timely(d)' <=> Timely(d)
            BY <1>1 DEF Timely
        <3>2. \A m \in Sent(tablets[t].queue) : GoodMessage(m) => GoodMessage(m)'
            BY <1>4, <2>2, <3>1 DEF GoodMessage
        <3> QED
            BY <1>1, <1>4, <2>1, <3>1, <3>2 DEF TabletInv, GoodTablet, Modes
    <2>4. UpToDate(t)'
        BY <1>1, <1>2 DEF TabletInv, UpToDate
    <2>5. Own(t)' = Own(t)
        BY <1>1, TabletsAreNames DEF TabletInv, SyncTypes, Own, New
    <2> QED
        BY <1>1, <2>3, <2>4, <2>5 DEF TabletInv, TabletAccounted
<1> QED
    BY <1>1, <1>3, <1>5, <1>6 DEF TabletInv

\* The new date is newer than every other.
LEMMA DateOnlineStep == ASSUME TabletInv, DateOnline PROVE TabletInv'
<1>1. /\ node'.date = leftT.dates /\ node'.strokes = node.strokes /\ undated' = {}
      /\ node' \in [date : Nat, strokes : SUBSET Strokes]
      /\ leftT'.dates = leftT.dates + 1 /\ leftT.dates \in Nat /\ leftT.dates > 1
      /\ leftT' \in [online : Nat, offline : Nat, dates : Nat, signIns : Nat]
      /\ UNCHANGED <<tablets, made, refused, cut, replaced, wronged, redated>>
    BY DEF DateOnline, TabletInv, SyncTypes
<1>2. Online' = Online /\ node.date \in Nat /\ node.date < leftT.dates
    BY <1>1 DEF TabletInv, SyncTypes, Online
<1>3. SyncTypes'
    BY <1>1, <1>2 DEF TabletInv, SyncTypes
<1>4. \A S \in SUBSET Strokes : Seen(S) => Seen(S)'
    BY <1>1, <1>2 DEF Seen, New
<1>5. \A d \in Nat : Timely(d) => Timely(d)' /\ d # node'.date
    BY <1>1, <1>2 DEF Timely
<1>6. ASSUME NEW t \in Tablets PROVE GoodTablet(t)' /\ UpToDate(t)' /\ TabletAccounted(t)'
    <2>1. tablets[t] \in TabletStates /\ tablets[t].strokes \in SUBSET Strokes
          /\ tablets[t].date \in Nat /\ tablets[t].thumbnail \in Nat
        BY DEF TabletInv, SyncTypes, TabletStates
    <2>2. \A m \in Sent(tablets[t].queue) : m \in Messages /\ m.strokes \in SUBSET Strokes /\ m.date \in Nat
        BY TabletFacts
    <2>3. GoodTablet(t)'
        BY <1>1, <1>2, <1>4, <1>5, <2>1, <2>2 DEF TabletInv, GoodTablet, Modes, GoodMessage
    <2>4. UpToDate(t)'
        BY <1>1, <1>5, <2>1 DEF TabletInv, UpToDate, GoodTablet
    <2> QED
        BY <1>1, <2>3, <2>4 DEF TabletInv, TabletAccounted, Own
<1>7. Seen(Online \cup node.strokes)'
    BY <1>1, <1>2 DEF TabletInv, Seen, New
<1> QED
    BY <1>1, <1>2, <1>3, <1>6, <1>7 DEF TabletInv

LEMMA EditOfflineStep ==
    ASSUME TabletInv, NEW t \in Tablets, NEW s \in Strokes, EditOffline(t, s) PROVE TabletInv'
<1>1. /\ tablets' = [tablets EXCEPT ![t].strokes = @ \cup {s}, ![t].modified = TRUE] /\ tablets[t].app = "out"
      /\ made' = [made EXCEPT ![s] = t] /\ New(s) /\ leftT'.dates = leftT.dates
      /\ leftT' \in [online : Nat, offline : Nat, dates : Nat, signIns : Nat]
      /\ UNCHANGED <<node, undated, refused, cut, replaced, wronged, redated>>
    BY DEF EditOffline, TabletInv, SyncTypes
<1>2. /\ tablets \in [Tablets -> TabletStates] /\ tablets[t] \in TabletStates
      /\ \A u \in Tablets : u # t => tablets'[u] = tablets[u]
    BY <1>1 DEF TabletInv, SyncTypes
<1>3. /\ tablets'[t].app = "out" /\ tablets'[t].strokes = tablets[t].strokes \cup {s} /\ tablets'[t].modified
      /\ tablets'[t].queue = tablets[t].queue /\ tablets'[t].date = tablets[t].date
      /\ tablets'[t].thumbnail = tablets[t].thumbnail /\ tablets'[t].mixed = tablets[t].mixed
      /\ tablets'[t].created = tablets[t].created
    BY <1>1, <1>2 DEF TabletStates
<1>4. Online' = Online /\ s \notin Online /\ \A r \in Strokes : New(r)' => New(r) /\ r # s
    BY <1>1, TabletsAreNames DEF TabletInv, SyncTypes, Online, New
<1>5. /\ Own(t)' = Own(t) \cup {s}
      /\ \A u \in Tablets : u # t => Own(u)' = Own(u)
    BY <1>1, TabletsAreNames DEF TabletInv, SyncTypes, Own, New
<1>6. SyncTypes'
    <2>1. tablets' \in [Tablets -> TabletStates]
        BY <1>1, <1>2 DEF TabletStates
    <2>2. made' \in [Strokes -> Tablets \cup {"nobody", "online"}]
        BY <1>1 DEF TabletInv, SyncTypes
    <2> QED
        BY <1>1, <1>4, <2>1, <2>2 DEF TabletInv, SyncTypes
<1>7. GoodTablet(t)'
    <2>1. /\ GoodTablet(t) /\ tablets[t].strokes \in SUBSET Strokes
          /\ \A m \in Sent(tablets[t].queue) : m.strokes \in SUBSET Strokes
        BY TabletFacts DEF TabletInv
    <2>2. Seen(tablets[t].strokes)'
        BY <1>1, <1>3, <1>4, <2>1 DEF GoodTablet, Seen
    <2> QED
        BY <1>1, <1>3, <1>4, <2>1, <2>2, StillGood DEF GoodTablet, Modes
<1>8. UpToDate(t)'
    BY <1>1, <1>3, <1>4 DEF TabletInv, UpToDate
<1>9. TabletAccounted(t)'
    BY <1>1, <1>3, <1>5 DEF TabletInv, TabletAccounted
<1> QED
    BY <1>1, <1>2, <1>4, <1>5, <1>6, <1>7, <1>8, <1>9, OneTablet

\* What is drawn on the tablet goes with what was created there, or is asked about.
LEMMA SyncDataStep == ASSUME TabletInv, NEW t \in Tablets, SyncData(t) PROVE TabletInv'
<1>1. PICK has \in BOOLEAN :
        tablets' = [tablets EXCEPT
            ![t].app = IF tablets[t].modified THEN "asking" ELSE "fetching",
            ![t].queue = IF tablets[t].created THEN Sending(t, has) ELSE <<>>,
            ![t].thumbnail = IF has THEN tablets[t].date ELSE 0, ![t].created = FALSE, ![t].modified = FALSE]
    <2>1. PICK h \in {FALSE} \cup {tablets[t].created} :
        tablets' = [tablets EXCEPT
            ![t].app = IF tablets[t].modified THEN "asking" ELSE "fetching",
            ![t].queue = IF tablets[t].created THEN Sending(t, h) ELSE <<>>,
            ![t].thumbnail = IF h THEN tablets[t].date ELSE 0, ![t].created = FALSE, ![t].modified = FALSE]
        BY DEF SyncData
    <2>2. h \in BOOLEAN
        BY <2>1, TabletFacts DEF TabletStates
    <2> QED
        BY <2>1, <2>2, Zenon
<1>2. /\ tablets[t].app = "out" /\ leftT'.dates = leftT.dates
      /\ leftT' \in [online : Nat, offline : Nat, dates : Nat, signIns : Nat]
      /\ UNCHANGED <<node, undated, made, refused, cut, replaced, wronged, redated>>
    BY DEF SyncData, TabletInv, SyncTypes
<1>3. /\ tablets \in [Tablets -> TabletStates] /\ tablets[t] \in TabletStates
      /\ \A u \in Tablets : u # t => tablets'[u] = tablets[u]
    BY <1>1 DEF TabletInv, SyncTypes
<1> DEFINE mine == tablets[t].strokes
           q == IF tablets[t].created THEN Sending(t, has) ELSE <<>>
           next == IF tablets[t].modified THEN "asking" ELSE "fetching"
           thumb == IF has THEN tablets[t].date ELSE 0
<1>4. mine \in SUBSET Strokes /\ tablets[t].date \in Nat /\ thumb \in Nat /\ next \in {"asking", "fetching"}
    BY <1>3 DEF TabletStates
<1>5. q \in Seq(Messages) /\ Sent(q) \subseteq {Merge(mine), Info(tablets[t].date)}
      /\ (Sent(q) # {} => tablets[t].created) /\ (tablets[t].created => Merge(mine) \in Sent(q))
    <2>1. Merge(mine) \in Messages /\ Info(tablets[t].date) \in Messages
        BY <1>4, MessageTypes
    <2> HIDE DEF mine
    <2>2. CASE ~tablets[t].created
        BY <2>2, SentOfFew
    <2>3. CASE tablets[t].created /\ has
        <3>1. q = <<Merge(mine)>>
            BY <2>3 DEF Sending, mine
        <3>2. Sent(q) = {Merge(mine)}
            BY <3>1, SentOfFew
        <3>3. <<Merge(mine)>> \in Seq(Messages)
            BY <2>1
        <3>4. Merge(mine) \in {Merge(mine), Info(tablets[t].date)}
            OBVIOUS
        <3> HIDE DEF q
        <3> QED
            BY <2>3, <3>1, <3>2, <3>3, <3>4
    <2>4. CASE tablets[t].created /\ ~has
        <3>1. q = <<Merge(mine), Info(tablets[t].date)>>
            BY <2>4 DEF Sending, mine
        <3>2. Sent(q) = {Merge(mine), Info(tablets[t].date)}
            BY <3>1, SentOfFew
        <3> HIDE DEF q
        <3> QED
            BY <2>1, <2>4, <3>1, <3>2
    <2> QED
        BY <2>2, <2>3, <2>4
<1>6. tablets' = [tablets EXCEPT ![t].app = next, ![t].queue = q, ![t].thumbnail = thumb,
                                 ![t].created = FALSE, ![t].modified = FALSE]
    BY <1>1
<1> HIDE DEF q, next, thumb
<1>7. /\ tablets'[t].app = next /\ tablets'[t].strokes = mine /\ ~tablets'[t].modified /\ ~tablets'[t].created
      /\ tablets'[t].queue = q /\ tablets'[t].date = tablets[t].date
      /\ tablets'[t].thumbnail = thumb /\ tablets'[t].mixed = tablets[t].mixed
    BY <1>3, <1>6 DEF TabletStates
<1>8. Online' = Online /\ (\A r \in Strokes : New(r)' => New(r)) /\ \A u \in Tablets : Own(u)' = Own(u)
    BY <1>2 DEF Online, New, Own
<1>9. SyncTypes'
    <2>1. tablets' \in [Tablets -> TabletStates]
        BY <1>3, <1>4, <1>5, <1>6 DEF TabletStates
    <2> QED
        BY <1>2, <1>8, <2>1 DEF TabletInv, SyncTypes
<1>10. GoodTablet(t)'
    <2>1. Timely(tablets[t].date) /\ Seen(mine) /\ Timely(0)
        BY <1>3 DEF TabletInv, SyncTypes, GoodTablet, Timely
    <2>2. Timely(thumb)
        BY <2>1 DEF thumb
    <2>3. \A m \in Sent(q) : GoodMessage(m)
        BY <1>5, <2>1 DEF GoodMessage, Merge, Info, Seen
    <2>4. Modes(t)'
        BY <1>4, <1>7 DEF Modes
    <2>5. \A m \in Sent(q) : m.strokes \in SUBSET Strokes
        BY <1>4, <1>5 DEF Merge, Info
    <2> QED
        BY <1>2, <1>4, <1>7, <1>8, <2>1, <2>2, <2>3, <2>4, <2>5, StillGood DEF GoodTablet
<1>11. UpToDate(t)'
    BY <1>2, <1>7, <1>8 DEF TabletInv, UpToDate
<1>12. TabletAccounted(t)'
    <2> SUFFICES ASSUME NEW s \in Own(t)
                 PROVE  (\/ /\ s \in tablets[t].strokes
                            /\ (tablets[t].modified \/ tablets[t].created \/ tablets[t].app = "asking")
                         \/ \E m \in Sent(tablets[t].queue) : s \in m.strokes
                         \/ s \in node.strokes \cup refused \cup cut \cup replaced)'
        BY <1>8 DEF TabletAccounted
    <2>1. \/ s \in mine /\ (tablets[t].modified \/ tablets[t].created)
          \/ s \in node.strokes \cup refused \cup cut \cup replaced
        BY <1>2, SentOfFew DEF TabletInv, TabletAccounted, GoodTablet, Modes
    <2>2. tablets[t].created => Merge(mine) \in Sent(q) /\ Merge(mine).strokes = mine
        BY <1>5 DEF Merge
    <2>3. tablets[t].modified => next = "asking"
        BY DEF next
    <2> QED
        BY <1>2, <1>7, <2>1, <2>2, <2>3
<1> QED
    BY <1>2, <1>3, <1>8, <1>9, <1>10, <1>11, <1>12, OneTablet

LEMMA ThumbnailSavedStep == ASSUME TabletInv, NEW t \in Tablets, ThumbnailSaved(t) PROVE TabletInv'
<1> DEFINE m == Info(tablets[t].thumbnail)
<1>1. /\ tablets' = [tablets EXCEPT ![t].thumbnail = 0, ![t].queue = Append(@, m)] /\ tablets[t].thumbnail # 0
      /\ UNCHANGED <<node, undated, made, refused, cut, replaced, wronged, redated, leftT>>
    BY DEF ThumbnailSaved
<1>2. /\ tablets \in [Tablets -> TabletStates] /\ tablets[t] \in TabletStates
      /\ \A u \in Tablets : u # t => tablets'[u] = tablets[u]
    BY <1>1 DEF TabletInv, SyncTypes
<1>3. /\ m \in Messages /\ Append(tablets[t].queue, m) \in Seq(Messages)
      /\ Sent(Append(tablets[t].queue, m)) = Sent(tablets[t].queue) \cup {m}
    BY TabletFacts, MessageTypes, SentFacts
<1>4. m.strokes = {} /\ m.date = tablets[t].thumbnail
    BY DEF Info
<1> HIDE DEF m
<1>5. /\ tablets'[t].app = tablets[t].app /\ tablets'[t].strokes = tablets[t].strokes
      /\ tablets'[t].modified = tablets[t].modified /\ tablets'[t].created = tablets[t].created
      /\ tablets'[t].queue = Append(tablets[t].queue, m) /\ tablets'[t].date = tablets[t].date
      /\ tablets'[t].thumbnail = 0 /\ tablets'[t].mixed = tablets[t].mixed
    BY <1>1, <1>2 DEF TabletStates
<1>6. Online' = Online /\ (\A r \in Strokes : New(r)' => New(r)) /\ \A u \in Tablets : Own(u)' = Own(u)
    BY <1>1 DEF Online, New, Own
<1>7. SyncTypes'
    <2>1. tablets' \in [Tablets -> TabletStates]
        BY <1>1, <1>2, <1>3 DEF TabletStates
    <2> QED
        BY <1>1, <1>6, <2>1 DEF TabletInv, SyncTypes
<1>8. GoodTablet(t)'
    <2>1. GoodTablet(t) /\ tablets[t].app # "out"
        BY <1>1 DEF TabletInv, GoodTablet, Modes
    <2>2. Timely(0)
        BY DEF TabletInv, SyncTypes, Timely
    <2>3. GoodMessage(m) /\ m.strokes \in SUBSET Strokes
        BY <1>4, <2>1 DEF GoodTablet, GoodMessage, Seen
    <2> QED
        BY <1>1, <1>3, <1>5, <1>6, <2>1, <2>2, <2>3, StillGood, TabletFacts DEF GoodTablet, Modes
<1>9. UpToDate(t)'
    BY <1>1, <1>5, <1>6 DEF TabletInv, UpToDate
<1>10. TabletAccounted(t)'
    BY <1>1, <1>3, <1>5, <1>6 DEF TabletInv, TabletAccounted
<1> QED
    BY <1>1, <1>2, <1>6, <1>7, <1>8, <1>9, <1>10, OneTablet

\* With the date of the drawing, the tablet has what the upload would take away.
LEMMA AnsweredStep == ASSUME TabletInv, NEW t \in Tablets, Answered(t) PROVE TabletInv'
<1> DEFINE here == tablets[t].strokes
           q == IF SameDate(t) THEN <<Info(tablets[t].date), Replace(here)>> ELSE <<>>
<1>1. /\ tablets[t].app = "asking" /\ tablets[t].queue = <<>>
      /\ UNCHANGED <<node, undated, made, cut, replaced, redated, leftT>>
      /\ refused' = IF SameDate(t) THEN refused ELSE refused \cup (Own(t) \cap here)
    BY DEF Answered
<1>2. wronged' = wronged
    <2>1. SameDate(t) => {s \in node.strokes \ here : /\ made[s] = "online" /\ s \notin undated \cup replaced
                                                      /\ ~tablets[t].mixed /\ ~redated} = {}
        <3>1. UpToDate(t) /\ node.strokes \subseteq Strokes
            BY DEF TabletInv, SyncTypes
        <3> QED
            BY <3>1 DEF UpToDate, SameDate, Online
    <2> QED
        BY <2>1 DEF Answered
<1>3. tablets' = [tablets EXCEPT ![t].app = "fetching", ![t].queue = q]
    <2>1. CASE SameDate(t)
        BY <2>1 DEF Answered
    <2>2. CASE ~SameDate(t)
        <3>1. tablets' = [tablets EXCEPT ![t].app = "fetching"] /\ q = <<>>
            BY <2>2 DEF Answered
        <3>2. tablets \in [Tablets -> TabletStates] /\ tablets[t].queue = <<>>
            BY <1>1 DEF TabletInv, SyncTypes
        <3> HIDE DEF q
        <3> QED
            BY <3>1, <3>2 DEF TabletStates
    <2> QED
        BY <2>1, <2>2
<1>4. /\ tablets \in [Tablets -> TabletStates] /\ tablets[t] \in TabletStates
      /\ \A u \in Tablets : u # t => tablets'[u] = tablets[u]
    BY <1>3 DEF TabletInv, SyncTypes
<1>5. q \in Seq(Messages) /\ Sent(q) = IF SameDate(t) THEN {Info(tablets[t].date), Replace(here)} ELSE {}
    <2>1. Info(tablets[t].date) \in Messages /\ Replace(here) \in Messages
        BY TabletFacts, MessageTypes
    <2>2. /\ Sent(<<Info(tablets[t].date), Replace(here)>>) = {Info(tablets[t].date), Replace(here)}
          /\ Sent(<<>>) = {}
        BY SentOfFew
    <2>3. <<Info(tablets[t].date), Replace(here)>> \in Seq(Messages) /\ <<>> \in Seq(Messages)
        BY <2>1
    <2> QED
        BY <2>2, <2>3, Zenon
<1> HIDE DEF q
<1>6. /\ tablets'[t].app = "fetching" /\ tablets'[t].strokes = here
      /\ tablets'[t].modified = tablets[t].modified /\ tablets'[t].created = tablets[t].created
      /\ tablets'[t].queue = q /\ tablets'[t].date = tablets[t].date
      /\ tablets'[t].thumbnail = tablets[t].thumbnail /\ tablets'[t].mixed = tablets[t].mixed
    BY <1>3, <1>4 DEF TabletStates
<1>7. Online' = Online /\ (\A r \in Strokes : New(r)' => New(r)) /\ \A u \in Tablets : Own(u)' = Own(u)
    BY <1>1 DEF Online, New, Own
<1>8. SyncTypes'
    <2>1. tablets' \in [Tablets -> TabletStates]
        BY <1>3, <1>4, <1>5 DEF TabletStates
    <2> QED
        BY <1>1, <1>7, <2>1 DEF TabletInv, SyncTypes
<1>9. GoodTablet(t)'
    <2>1. GoodTablet(t)
        BY DEF TabletInv
    <2>2. \A m \in Sent(q) : GoodMessage(m) /\ m.strokes \in SUBSET Strokes
        <3>1. Timely(0) /\ here \in SUBSET Strokes
            BY TabletFacts DEF TabletInv, SyncTypes, Timely
        <3>2. GoodMessage(Info(tablets[t].date)) /\ GoodMessage(Replace(here))
            BY <2>1, <3>1 DEF GoodTablet, GoodMessage, Info, Replace, Seen
        <3>3. Info(tablets[t].date).strokes \in SUBSET Strokes /\ Replace(here).strokes \in SUBSET Strokes
            BY <3>1 DEF Info, Replace
        <3>4. \A m \in Sent(q) : m = Info(tablets[t].date) \/ m = Replace(here)
            BY <1>5
        <3> HIDE DEF here
        <3> QED
            BY <3>2, <3>3, <3>4
    <2> QED
        BY <1>1, <1>6, <1>7, <2>1, <2>2, StillGood, TabletFacts DEF GoodTablet, Modes
<1>10. UpToDate(t)'
    BY <1>1, <1>6, <1>7 DEF TabletInv, UpToDate
<1>11. TabletAccounted(t)'
    <2>1. ASSUME NEW s \in Own(t)
          PROVE  s \in here \/ s \in node.strokes \cup refused \cup cut \cup replaced
        BY <1>1, SentOfFew DEF TabletInv, TabletAccounted
    <2>2. SameDate(t) => Replace(here) \in Sent(q) /\ Replace(here).strokes = here
        BY <1>5 DEF Replace
    <2>3. ~SameDate(t) => Own(t) \cap here \subseteq refused'
        BY <1>1
    <2> QED
        BY <1>1, <1>6, <1>7, <2>1, <2>2, <2>3 DEF TabletAccounted
<1> QED
    BY <1>1, <1>2, <1>4, <1>7, <1>8, <1>9, <1>10, <1>11, OneTablet

\* What an upload brings of others was in the database, or another one took it away;
\* and it is later than every date only when the drawing had none.
LEMMA SendStep == ASSUME TabletInv, NEW t \in Tablets, Send(t) PROVE TabletInv'
<1> DEFINE first == Head(tablets[t].queue)
           rest == Tail(tablets[t].queue)
<1>1. /\ tablets[t].queue # <<>> /\ tablets' = [tablets EXCEPT ![t].queue = rest]
      /\ node' = [date |-> IF first.to = "info" THEN first.date ELSE node.date,
                  strokes |-> IF first.to = "replace" THEN first.strokes ELSE node.strokes \cup first.strokes]
      /\ replaced' = replaced \cup (node.strokes \ node'.strokes)
      /\ redated' = (redated \/ node'.date < node.date)
      /\ UNCHANGED <<undated, made, refused, cut, wronged, leftT>>
    BY DEF Send
<1>2. /\ first \in Messages /\ rest \in Seq(Messages) /\ Sent(tablets[t].queue) = {first} \cup Sent(rest)
      /\ GoodMessage(first)
    BY <1>1, TabletFacts, SentFacts DEF TabletInv, GoodTablet
<1>3. /\ tablets \in [Tablets -> TabletStates] /\ tablets[t] \in TabletStates
      /\ \A u \in Tablets : u # t => tablets'[u] = tablets[u]
    BY <1>1 DEF TabletInv, SyncTypes
<1>4. first.date \in Nat /\ first.strokes \in SUBSET Strokes
    BY <1>2 DEF Messages
<1> HIDE DEF first, rest
<1>5. /\ tablets'[t].app = tablets[t].app /\ tablets'[t].strokes = tablets[t].strokes
      /\ tablets'[t].modified = tablets[t].modified /\ tablets'[t].created = tablets[t].created
      /\ tablets'[t].queue = rest /\ tablets'[t].date = tablets[t].date
      /\ tablets'[t].thumbnail = tablets[t].thumbnail /\ tablets'[t].mixed = tablets[t].mixed
    BY <1>1, <1>3 DEF TabletStates
<1>6. Online' = Online /\ (\A r \in Strokes : New(r)' <=> New(r)) /\ \A u \in Tablets : Own(u)' = Own(u)
    BY <1>1 DEF Online, New, Own
<1>7. /\ node.date \in Nat /\ node'.date \in Nat /\ leftT.dates \in Nat /\ node.date < leftT.dates
      /\ node.strokes \subseteq Strokes /\ node'.strokes \subseteq node.strokes \cup first.strokes
      /\ first.strokes \subseteq node'.strokes /\ node.strokes \subseteq node'.strokes \cup replaced'
      /\ replaced \subseteq replaced' /\ redated \in BOOLEAN
    BY <1>1, <1>4 DEF TabletInv, SyncTypes
<1>8. node'.date = node.date \/ node'.date = first.date
    BY <1>1
<1>9. ~redated' => ~redated /\ node.date <= node'.date
    <2>1. redated' = (redated \/ node'.date < node.date)
        BY <1>1
    <2>2. ~(node'.date < node.date) => node.date <= node'.date
        BY <1>7
    <2> QED
        BY <2>1, <2>2, Zenon
<1>10. SyncTypes'
    <2>1. tablets' \in [Tablets -> TabletStates]
        BY <1>1, <1>2, <1>3 DEF TabletStates
    <2>2. node' \in [date : Nat, strokes : SUBSET Strokes]
        BY <1>1, <1>4, <1>7
    <2>3. redated' \in BOOLEAN
        BY <1>1
    <2> QED
        BY <1>1, <1>6, <2>1, <2>2, <2>3 DEF TabletInv, SyncTypes
<1>11. \A d \in Nat : Timely(d) => Timely(d)'
    BY <1>1, <1>7, <1>9 DEF Timely
<1>12. \A S \in SUBSET Strokes : Seen(S) => Seen(S)'
    BY <1>6, <1>7 DEF Seen
<1>13. Seen(Online \cup node.strokes)'
    <2>1. Seen(Online) /\ Seen(node.strokes) /\ Seen(first.strokes)
        BY <1>2 DEF TabletInv, GoodMessage, Seen
    <2>2. Online \subseteq Strokes
        BY DEF Online
    <2>3. Seen(Online)' /\ Seen(node.strokes \cup first.strokes)
        BY <1>6, <1>12, <2>1, <2>2 DEF Seen
    <2>4. node.strokes \cup first.strokes \in SUBSET Strokes
        BY <1>4, <1>7
    <2> QED
        BY <1>6, <1>7, <1>12, <2>3, <2>4 DEF Seen
<1>14. node'.date < leftT'.dates /\ (~redated' /\ node'.date = 0 => Online' = {})
    <2>1. first.date < leftT.dates /\ leftT' = leftT
        BY <1>1, <1>2 DEF GoodMessage, Timely
    <2>2. ASSUME ~redated', node'.date = 0 PROVE ~redated /\ node.date = 0
        BY <1>7, <1>9, <2>2
    <2> QED
        BY <1>6, <1>7, <1>8, <2>1, <2>2 DEF TabletInv
<1>15. ASSUME NEW u \in Tablets PROVE GoodTablet(u)' /\ UpToDate(u)' /\ TabletAccounted(u)'
    <2>1. /\ tablets'[u].app = tablets[u].app /\ tablets'[u].strokes = tablets[u].strokes
          /\ tablets'[u].modified = tablets[u].modified /\ tablets'[u].created = tablets[u].created
          /\ tablets'[u].date = tablets[u].date /\ tablets'[u].thumbnail = tablets[u].thumbnail
          /\ tablets'[u].mixed = tablets[u].mixed
          /\ (u # t => tablets'[u].queue = tablets[u].queue) /\ (u = t => tablets'[u].queue = rest)
          /\ Sent(tablets'[u].queue) \subseteq Sent(tablets[u].queue)
          /\ \A m \in Sent(tablets[u].queue) : m \in Sent(tablets'[u].queue) \/ m = first
        BY <1>2, <1>3, <1>5
    <2>2. GoodTablet(u)'
        <3>1. GoodTablet(u) /\ (tablets[u].queue = <<>> => tablets'[u].queue = <<>>)
            BY <1>1, <1>3, <2>1 DEF TabletInv
        <3>2. \A m \in Sent(tablets'[u].queue) : GoodMessage(m)'
            BY <1>11, <1>12, <2>1, <3>1, TabletFacts DEF GoodTablet, GoodMessage
        <3>3. /\ Timely(tablets[u].date)' /\ Timely(tablets[u].thumbnail)' /\ Seen(tablets[u].strokes)'
            BY <1>11, <1>12, <2>1, <3>1, TabletFacts DEF GoodTablet
        <3> QED
            BY <2>1, <3>1, <3>2, <3>3 DEF GoodTablet, Modes
    <2>3. UpToDate(u)'
        <3> SUFFICES ASSUME ~redated', ~tablets[u].mixed, tablets[u].date = node'.date,
                            NEW s \in (node'.strokes \cap Online) \ (undated \cup replaced')
                     PROVE  s \in tablets[u].strokes
            BY <1>1, <1>6, <2>1 DEF UpToDate
        <3>1. node'.date = node.date
            BY <1>2, <1>7, <1>8, <1>9 DEF TabletInv, GoodMessage, Timely
        <3>2. s \in node.strokes /\ s \notin replaced
            BY <1>2, <1>7 DEF GoodMessage, Seen
        <3> QED
            BY <1>9, <3>1, <3>2 DEF TabletInv, UpToDate
    <2>4. TabletAccounted(u)'
        <3> SUFFICES ASSUME NEW s \in Own(u)
                     PROVE  (\/ /\ s \in tablets[u].strokes
                                /\ (tablets[u].modified \/ tablets[u].created \/ tablets[u].app = "asking")
                             \/ \E m \in Sent(tablets[u].queue) : s \in m.strokes
                             \/ s \in node.strokes \cup refused \cup cut \cup replaced)'
            BY <1>6 DEF TabletAccounted
        <3>1. \/ /\ s \in tablets[u].strokes
                 /\ (tablets[u].modified \/ tablets[u].created \/ tablets[u].app = "asking")
              \/ \E m \in Sent(tablets[u].queue) : s \in m.strokes
              \/ s \in node.strokes \cup refused \cup cut \cup replaced
            BY DEF TabletInv, TabletAccounted
        <3> QED
            BY <1>1, <1>7, <2>1, <3>1
    <2> QED
        BY <2>2, <2>3, <2>4
<1> QED
    BY <1>1, <1>10, <1>13, <1>14, <1>15 DEF TabletInv

LEMMA InfoArrivesStep == ASSUME TabletInv, NEW t \in Tablets, InfoArrives(t) PROVE TabletInv'
<1>1. /\ tablets' = [tablets EXCEPT ![t].app = "dated", ![t].date = node.date, ![t].mixed = TRUE]
      /\ tablets[t].app = "fetching"
      /\ UNCHANGED <<node, undated, made, refused, cut, replaced, wronged, redated, leftT>>
    BY DEF InfoArrives
<1>2. /\ tablets \in [Tablets -> TabletStates] /\ tablets[t] \in TabletStates
      /\ \A u \in Tablets : u # t => tablets'[u] = tablets[u]
    BY <1>1 DEF TabletInv, SyncTypes
<1>3. /\ tablets'[t].app = "dated" /\ tablets'[t].strokes = tablets[t].strokes
      /\ tablets'[t].modified = tablets[t].modified /\ tablets'[t].created = tablets[t].created
      /\ tablets'[t].queue = tablets[t].queue /\ tablets'[t].date = node.date
      /\ tablets'[t].thumbnail = tablets[t].thumbnail /\ tablets'[t].mixed
    BY <1>1, <1>2 DEF TabletStates
<1>4. Online' = Online /\ (\A r \in Strokes : New(r)' => New(r)) /\ \A u \in Tablets : Own(u)' = Own(u)
    BY <1>1 DEF Online, New, Own
<1>5. SyncTypes'
    <2>1. node.date \in Nat
        BY DEF TabletInv, SyncTypes
    <2>2. tablets' \in [Tablets -> TabletStates]
        BY <1>1, <1>2, <2>1 DEF TabletStates
    <2> QED
        BY <1>1, <1>4, <2>2 DEF TabletInv, SyncTypes
<1>6. GoodTablet(t)'
    <2>1. GoodTablet(t) /\ Timely(node.date)
        BY DEF TabletInv, SyncTypes, Timely
    <2> QED
        BY <1>1, <1>3, <1>4, <2>1, StillGood, TabletFacts DEF GoodTablet, Modes
<1>7. UpToDate(t)'
    BY <1>3 DEF UpToDate
<1>8. TabletAccounted(t)'
    BY <1>1, <1>3, <1>4 DEF TabletInv, GoodTablet, Modes, TabletAccounted
<1> QED
    BY <1>1, <1>2, <1>4, <1>5, <1>6, <1>7, <1>8, OneTablet

LEMMA StrokesArriveStep == ASSUME TabletInv, NEW t \in Tablets, StrokesArrive(t) PROVE TabletInv'
<1>1. /\ tablets' = [tablets EXCEPT ![t].app = "watching", ![t].strokes = Fetched(t), ![t].mixed = FALSE]
      /\ tablets[t].app \in {"dated", "watching"}
      /\ UNCHANGED <<node, undated, made, refused, cut, replaced, wronged, redated, leftT>>
    BY DEF StrokesArrive
<1>2. /\ tablets \in [Tablets -> TabletStates] /\ tablets[t] \in TabletStates
      /\ \A u \in Tablets : u # t => tablets'[u] = tablets[u]
    BY <1>1 DEF TabletInv, SyncTypes
<1>3. /\ Fetched(t) \in SUBSET Strokes /\ Seen(Fetched(t)) /\ node.strokes \subseteq Fetched(t)
    <2>1. /\ node.strokes \subseteq Strokes /\ Seen(node.strokes)
          /\ Seen(tablets[t].strokes) /\ tablets[t].strokes \in SUBSET Strokes
        BY TabletFacts DEF TabletInv, SyncTypes, GoodTablet, Seen
    <2> QED
        BY <2>1 DEF Fetched
<1>4. /\ tablets'[t].app = "watching" /\ tablets'[t].strokes = Fetched(t)
      /\ tablets'[t].modified = tablets[t].modified /\ tablets'[t].created = tablets[t].created
      /\ tablets'[t].queue = tablets[t].queue /\ tablets'[t].date = tablets[t].date
      /\ tablets'[t].thumbnail = tablets[t].thumbnail
    BY <1>1, <1>2 DEF TabletStates
<1>5. Online' = Online /\ (\A r \in Strokes : New(r)' => New(r)) /\ \A u \in Tablets : Own(u)' = Own(u)
    BY <1>1 DEF Online, New, Own
<1>6. SyncTypes'
    <2>1. tablets' \in [Tablets -> TabletStates]
        BY <1>1, <1>2, <1>3 DEF TabletStates
    <2> QED
        BY <1>1, <1>5, <2>1 DEF TabletInv, SyncTypes
<1>7. GoodTablet(t)'
    <2>1. GoodTablet(t)
        BY DEF TabletInv
    <2> QED
        BY <1>1, <1>3, <1>4, <1>5, <2>1, StillGood, TabletFacts DEF GoodTablet, Modes
<1>8. UpToDate(t)'
    BY <1>1, <1>3, <1>4 DEF UpToDate
<1>9. TabletAccounted(t)'
    BY <1>1, <1>4, <1>5 DEF TabletInv, GoodTablet, Modes, TabletAccounted
<1> QED
    BY <1>1, <1>2, <1>5, <1>6, <1>7, <1>8, <1>9, OneTablet

LEMMA DateArrivesStep == ASSUME TabletInv, NEW t \in Tablets, DateArrives(t) PROVE TabletInv'
<1>1. /\ tablets' = [tablets EXCEPT ![t].date = node.date]
      /\ tablets[t].app = "watching" /\ tablets[t].strokes = Fetched(t)
      /\ UNCHANGED <<node, undated, made, refused, cut, replaced, wronged, redated, leftT>>
    BY DEF DateArrives
<1>2. /\ tablets \in [Tablets -> TabletStates] /\ tablets[t] \in TabletStates
      /\ \A u \in Tablets : u # t => tablets'[u] = tablets[u]
    BY <1>1 DEF TabletInv, SyncTypes
<1>3. /\ tablets'[t].app = tablets[t].app /\ tablets'[t].strokes = tablets[t].strokes
      /\ tablets'[t].modified = tablets[t].modified /\ tablets'[t].created = tablets[t].created
      /\ tablets'[t].queue = tablets[t].queue /\ tablets'[t].date = node.date
      /\ tablets'[t].thumbnail = tablets[t].thumbnail
    BY <1>1, <1>2 DEF TabletStates
<1>4. Online' = Online /\ (\A r \in Strokes : New(r)' => New(r)) /\ \A u \in Tablets : Own(u)' = Own(u)
    BY <1>1 DEF Online, New, Own
<1>5. SyncTypes'
    <2>1. node.date \in Nat
        BY DEF TabletInv, SyncTypes
    <2>2. tablets' \in [Tablets -> TabletStates]
        BY <1>1, <1>2, <2>1 DEF TabletStates
    <2> QED
        BY <1>1, <1>4, <2>2 DEF TabletInv, SyncTypes
<1>6. GoodTablet(t)'
    <2>1. GoodTablet(t) /\ Timely(node.date)
        BY DEF TabletInv, SyncTypes, Timely
    <2> QED
        BY <1>1, <1>3, <1>4, <2>1, StillGood, TabletFacts DEF GoodTablet, Modes
<1>7. UpToDate(t)'
    BY <1>1, <1>3 DEF UpToDate, Fetched
<1>8. TabletAccounted(t)'
    BY <1>1, <1>3, <1>4 DEF TabletInv, TabletAccounted
<1> QED
    BY <1>1, <1>2, <1>4, <1>5, <1>6, <1>7, <1>8, OneTablet

LEMMA EndSessionStep == ASSUME TabletInv, NEW t \in Tablets, EndSession(t) PROVE TabletInv'
<1>1. /\ tablets' = [tablets EXCEPT ![t].app = "out", ![t].queue = <<>>, ![t].thumbnail = 0]
      /\ tablets[t].app # "out"
      /\ cut' = cut \cup {s \in Own(t) : \/ tablets[t].app = "asking" /\ s \in tablets[t].strokes
                                         \/ \E i \in DOMAIN tablets[t].queue : s \in tablets[t].queue[i].strokes}
      /\ UNCHANGED <<node, undated, made, refused, replaced, wronged, redated, leftT>>
    BY DEF EndSession
<1>2. /\ tablets \in [Tablets -> TabletStates] /\ tablets[t] \in TabletStates
      /\ \A u \in Tablets : u # t => tablets'[u] = tablets[u]
    BY <1>1 DEF TabletInv, SyncTypes
<1>3. /\ tablets'[t].app = "out" /\ tablets'[t].strokes = tablets[t].strokes
      /\ tablets'[t].modified = tablets[t].modified /\ tablets'[t].created = tablets[t].created
      /\ tablets'[t].queue = <<>> /\ tablets'[t].date = tablets[t].date
      /\ tablets'[t].thumbnail = 0 /\ tablets'[t].mixed = tablets[t].mixed
    BY <1>1, <1>2 DEF TabletStates
<1>4. Online' = Online /\ (\A r \in Strokes : New(r)' => New(r)) /\ \A u \in Tablets : Own(u)' = Own(u)
    BY <1>1 DEF Online, New, Own
<1>5. SyncTypes'
    <2>1. <<>> \in Seq(Messages)
        OBVIOUS
    <2>2. tablets' \in [Tablets -> TabletStates]
        BY <1>1, <1>2, <2>1 DEF TabletStates
    <2> QED
        BY <1>1, <1>4, <2>2 DEF TabletInv, SyncTypes
<1>6. GoodTablet(t)'
    <2>1. GoodTablet(t) /\ Timely(0)
        BY DEF TabletInv, SyncTypes, Timely
    <2> QED
        BY <1>1, <1>3, <1>4, <2>1, SentOfFew, StillGood, TabletFacts DEF GoodTablet, Modes
<1>7. UpToDate(t)'
    BY <1>1, <1>3, <1>4 DEF TabletInv, UpToDate
<1>8. TabletAccounted(t)'
    <2> SUFFICES ASSUME NEW s \in Own(t)
                 PROVE  \/ s \in tablets[t].strokes /\ (tablets[t].modified \/ tablets[t].created)
                        \/ s \in node.strokes \cup refused \cup cut' \cup replaced
        BY <1>1, <1>3, <1>4 DEF TabletAccounted
    <2>1. \/ s \in tablets[t].strokes /\ (tablets[t].modified \/ tablets[t].created \/ tablets[t].app = "asking")
          \/ \E m \in Sent(tablets[t].queue) : s \in m.strokes
          \/ s \in node.strokes \cup refused \cup cut \cup replaced
        BY DEF TabletInv, TabletAccounted
    <2>2. (\E m \in Sent(tablets[t].queue) : s \in m.strokes) => s \in cut'
        BY <1>1 DEF Sent
    <2> QED
        BY <1>1, <2>1, <2>2
<1> QED
    BY <1>1, <1>2, <1>4, <1>5, <1>6, <1>7, <1>8, OneTablet

-----------------------------------------------------------------------------
(* What follows *)

LEMMA TabletsAreKept == TabletInv /\ (TabletStep \/ UNCHANGED tabletVars) => TabletInv'
<1> SUFFICES ASSUME TabletInv, TabletStep \/ UNCHANGED tabletVars PROVE TabletInv'
    OBVIOUS
<1>1. CASE UNCHANGED tabletVars
    <2>1. UNCHANGED <<node, undated, tablets, made, refused, cut, replaced, wronged, redated, leftT>>
        BY <1>1 DEF tabletVars
    <2> QED
        BY <2>1 DEF TabletInv, SyncTypes, GoodTablet, UpToDate, TabletAccounted, Modes, Timely, Seen, GoodMessage,
                    Online, Own, New
<1>2. CASE TabletStep
    BY <1>2, EditOnlineStep, EditOfflineStep, DateOnlineStep, SyncDataStep, ThumbnailSavedStep, AnsweredStep,
       SendStep, InfoArrivesStep, StrokesArriveStep, DateArrivesStep, EndSessionStep DEF TabletStep, Sdk
<1> QED
    BY <1>1, <1>2

LEMMA TabletsImply == TabletInv => TabletWorkAccounted
<1> SUFFICES ASSUME TabletInv, NEW t \in Tablets, NEW s \in Own(t)
             PROVE  /\ \/ /\ s \in tablets[t].strokes
                          /\ (tablets[t].modified \/ tablets[t].created \/ tablets[t].app = "asking")
                       \/ \E i \in DOMAIN tablets[t].queue : s \in tablets[t].queue[i].strokes
                       \/ s \in node.strokes \cup refused \cup cut \cup replaced
    BY DEF TabletInv, TabletWorkAccounted, OfflineStrokesAccounted, UploadsSpareTheDated
<1> QED
    BY DEF TabletInv, TabletAccounted, Sent
=============================================================================
