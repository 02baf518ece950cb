---------------------------- MODULE CommunityProofs ----------------------------
(***************************************************************************)
(* What lists of messages and conversations, follows and achievements keep *)
(* to, for any writers, openings, presses, metrics, definitions and bounds.*)
(***************************************************************************)
EXTENDS Community, AchievementsProofs

-----------------------------------------------------------------------------
(* Follows *)

FStep == FollowsStep \/ (\E p \in Presses : UpdateFollowing(p))

FollowStages == {"waiting", "followers", "following", "reading", "read", "done"}
Press0 == [stage : FollowStages, want : {"yes", "no"}, read : Entries]

FollowTypes ==
    /\ entry \in [Sides -> Entries]
    /\ page \in [follows : BOOLEAN, loaded : BOOLEAN]
    /\ presses \in [Presses -> Press0]
    /\ last \in Lists /\ disturbed \in BOOLEAN /\ hasty \in BOOLEAN

\* The list of the client that wrote last says what the follower's entry says.
Agree(list) == ~disturbed /\ last = list => entry[list] = entry["followers"]

\* A toggle of the tablet has both of its writes to send, or the second one.
ToSend(side, w) == [side |-> side, want |-> w]
TabletWrites ==
    \/ queue = <<>> /\ Agree("followings")
    \/ \E w \in {"yes", "absent"} :
          \/ queue = <<ToSend("followers", w), ToSend("followings", w)>> /\ Agree("followings")
          \/ /\ queue = <<ToSend("followings", w)>>
             /\ ~disturbed /\ last = "followings" => entry["followers"] = w

\* Undisturbed, one press at a time is between its writes, and knows what it has
\* written if no tablet wrote since.
OneWriter ==
    /\ ~disturbed => \A p, q \in Presses : Writing(p) /\ Writing(q) => p = q
    /\ ~disturbed /\ last = "following" =>
          \A p \in Presses : presses[p].stage = "following" => entry["followers"] = presses[p].want
    /\ (\A p \in Presses : presses[p].stage # "following") => Agree("following")

\* Without haste, who wants to follow has seen that there is no entry, and FALSE comes
\* only from the desktop itself.
NoStaysNo ==
    ~hasty =>
        /\ \A p, q \in Presses : InFlight(p) /\ InFlight(q) => p = q
        /\ \A p \in Presses : Writing(p) /\ presses[p].want = "yes" => entry["followers"] # "no"
        /\ \A p \in Presses : presses[p].stage = "read" /\ presses[p].read = "absent" => entry["followers"] # "no"
        /\ page.loaded /\ ~page.follows /\ (\A p \in Presses : ~InFlight(p)) => entry["followers"] # "no"

FollowsInv == FollowTypes /\ TabletWrites /\ OneWriter /\ NoStaysNo

LEMMA FollowsAtFirst ==
    ASSUME NEW start \in Entries, NEW bounds, FollowsInit(start, bounds)
    PROVE  FollowsInv
<1>1. FollowTypes
    BY DEF FollowsInit, FollowTypes, Waiting, Press0, FollowStages, Entries, Sides, Lists
<1>2. Agree("following") /\ Agree("followings") /\ queue = <<>> /\ ~page.loaded /\ \A p \in Presses : presses[p].stage = "waiting"
    BY DEF FollowsInit, Agree, Sides, Lists, Waiting
<1> QED
    BY <1>1, <1>2 DEF FollowsInv, TabletWrites, OneWriter, NoStaysNo, Writing, InFlight

LEMMA FollowTypesStep == FollowsInv /\ FStep => FollowTypes'
<1> SUFFICES ASSUME FollowsInv, FStep PROVE FollowTypes'
    OBVIOUS
<1> USE DEF FollowsInv, FollowTypes, Press0, FollowStages, Entries, Sides, Lists, InFlight, TabletWrites, ToSend, NextPress
<1>1. ASSUME NEW p \in Presses, Press(p) PROVE FollowTypes'
    BY <1>1 DEF Press
<1>2. ASSUME NEW p \in Presses, UpdateFollowers(p) PROVE FollowTypes'
    BY <1>2 DEF UpdateFollowers
<1>3. ASSUME NEW p \in Presses, Refresh(p) PROVE FollowTypes'
    BY <1>3 DEF Refresh
<1>4. ASSUME NEW p \in Presses, ReadFollowers(p) PROVE FollowTypes'
    BY <1>4 DEF ReadFollowers
<1>5. ASSUME NEW p \in Presses, ShowFollowers(p) PROVE FollowTypes'
    <2> DEFINE b == Listed(presses[p].read)
    <2>1. b \in BOOLEAN
        BY DEF Listed
    <2>2. page' = [follows |-> b, loaded |-> TRUE]
        BY <1>5 DEF ShowFollowers
    <2> HIDE DEF b
    <2>3. page' \in [follows : BOOLEAN, loaded : BOOLEAN]
        BY <2>1, <2>2
    <2>4. presses' \in [Presses -> Press0] /\ UNCHANGED <<entry, last, disturbed, hasty>>
        BY <1>5 DEF ShowFollowers
    <2> QED
        BY <2>3, <2>4
<1>6. ASSUME NEW p \in Presses, EndDesktop(p) PROVE FollowTypes'
    BY <1>6 DEF EndDesktop
<1>7. ASSUME NEW p \in Presses, UpdateFollowing(p) PROVE FollowTypes'
    BY <1>7 DEF UpdateFollowing
<1>8. CASE TabletToggle
    BY <1>8 DEF TabletToggle
<1>9. CASE TabletWrite
    BY <1>9 DEF TabletWrite
<1>10. CASE EndTablet
    BY <1>10 DEF EndTablet
<1> QED
    BY <1>1, <1>2, <1>3, <1>4, <1>5, <1>6, <1>7, <1>8, <1>9, <1>10 DEF FStep, FollowsStep

LEMMA TabletWritesStep == FollowsInv /\ FStep => TabletWrites'
<1> SUFFICES ASSUME FollowsInv, FStep PROVE TabletWrites'
    OBVIOUS
<1> USE DEF FollowsInv, FollowTypes, TabletWrites, OneWriter, Agree, Sides, Lists, Entries, Press0, Writing, ToSend, OthersWrite
<1>1. ASSUME NEW p \in Presses, Press(p) PROVE TabletWrites'
    BY <1>1 DEF Press
<1>2. ASSUME NEW p \in Presses, UpdateFollowers(p) PROVE TabletWrites'
    BY <1>2 DEF UpdateFollowers
<1>3. ASSUME NEW p \in Presses, Refresh(p) PROVE TabletWrites'
    BY <1>3 DEF Refresh
<1>4. ASSUME NEW p \in Presses, ReadFollowers(p) PROVE TabletWrites'
    BY <1>4 DEF ReadFollowers
<1>5. ASSUME NEW p \in Presses, ShowFollowers(p) PROVE TabletWrites'
    BY <1>5 DEF ShowFollowers
<1>6. ASSUME NEW p \in Presses, EndDesktop(p) PROVE TabletWrites'
    BY <1>6 DEF EndDesktop
<1>7. ASSUME NEW p \in Presses, UpdateFollowing(p) PROVE TabletWrites'
    BY <1>7 DEF UpdateFollowing
<1>8. CASE TabletToggle
    BY <1>8 DEF TabletToggle
<1>9. CASE TabletWrite
    <2>1. /\ queue # <<>> /\ entry' = [entry EXCEPT ![Head(queue).side] = Head(queue).want] /\ queue' = Tail(queue)
          /\ last' = IF Head(queue).side = "followers" THEN "followings" ELSE last
          /\ UNCHANGED <<presses, disturbed>>
        BY <1>9 DEF TabletWrite
    <2>2. PICK w \in {"yes", "absent"} :
              \/ queue = <<ToSend("followers", w), ToSend("followings", w)>>
              \/ /\ queue = <<ToSend("followings", w)>>
                 /\ ~disturbed /\ last = "followings" => entry["followers"] = w
        BY <2>1 DEF TabletWrites
    <2>3. CASE queue = <<ToSend("followers", w), ToSend("followings", w)>>
        <3>1. Head(queue) = ToSend("followers", w) /\ queue' = <<ToSend("followings", w)>>
            BY <2>1, <2>3
        <3>2. entry'["followers"] = w
            BY <2>1, <3>1
        <3> QED
            BY <3>1, <3>2
    <2>4. CASE /\ queue = <<ToSend("followings", w)>>
               /\ ~disturbed /\ last = "followings" => entry["followers"] = w
        <3>1. queue' = <<>> /\ Head(queue) = ToSend("followings", w)
            BY <2>1, <2>4
        <3>2. entry'["followings"] = w /\ entry'["followers"] = entry["followers"] /\ last' = last
            BY <2>1, <3>1
        <3> QED
            BY <2>1, <2>4, <3>1, <3>2
    <2> QED
        BY <2>2, <2>3, <2>4
<1>10. CASE EndTablet
    <2>1. /\ queue # <<>> /\ queue' = <<>> /\ disturbed' = (disturbed \/ Len(queue) = 1)
          /\ UNCHANGED <<entry, presses, last>>
        BY <1>10 DEF EndTablet
    <2>2. PICK w \in {"yes", "absent"} :
              \/ queue = <<ToSend("followers", w), ToSend("followings", w)>> /\ Agree("followings")
              \/ queue = <<ToSend("followings", w)>>
        BY <2>1 DEF TabletWrites
    <2>3. Len(<<ToSend("followings", w)>>) = 1
        OBVIOUS
    <2> QED
        BY <2>1, <2>2, <2>3
<1> QED
    BY <1>1, <1>2, <1>3, <1>4, <1>5, <1>6, <1>7, <1>8, <1>9, <1>10 DEF FStep, FollowsStep

LEMMA OneWriterStep == FollowsInv /\ FStep => OneWriter'
<1> SUFFICES ASSUME FollowsInv, FStep PROVE OneWriter'
    OBVIOUS
<1> USE DEF FollowsInv, FollowTypes, TabletWrites, OneWriter, Agree, Sides, Lists, Entries, Press0, Writing, InFlight, ToSend,
            OthersWrite, NextPress
<1>1. ASSUME NEW p \in Presses, Press(p) PROVE OneWriter'
    BY <1>1 DEF Press
<1>2. ASSUME NEW p \in Presses, UpdateFollowers(p) PROVE OneWriter'
    BY <1>2 DEF UpdateFollowers
<1>3. ASSUME NEW p \in Presses, Refresh(p) PROVE OneWriter'
    BY <1>3 DEF Refresh
<1>4. ASSUME NEW p \in Presses, ReadFollowers(p) PROVE OneWriter'
    BY <1>4 DEF ReadFollowers
<1>5. ASSUME NEW p \in Presses, ShowFollowers(p) PROVE OneWriter'
    BY <1>5 DEF ShowFollowers
<1>6. ASSUME NEW p \in Presses, EndDesktop(p) PROVE OneWriter'
    <2>1. /\ presses' = [q \in Presses |-> [presses[q] EXCEPT !.stage = IF InFlight(q) THEN "done" ELSE @]]
          /\ disturbed' = (disturbed \/ \E q \in Presses : presses[q].stage = "following")
          /\ UNCHANGED <<entry, queue, last>>
        BY <1>6 DEF EndDesktop
    <2>2. \A q \in Presses : presses'[q].stage \in {"waiting", "done"}
        BY <2>1
    <2>3. ~disturbed' => ~disturbed /\ \A q \in Presses : presses[q].stage # "following"
        BY <2>1
    <2> QED
        BY <2>1, <2>2, <2>3
<1>7. ASSUME NEW p \in Presses, UpdateFollowing(p) PROVE OneWriter'
    BY <1>7 DEF UpdateFollowing
<1>8. CASE TabletToggle
    BY <1>8 DEF TabletToggle
<1>9. CASE TabletWrite
    <2>1. /\ queue # <<>> /\ entry' = [entry EXCEPT ![Head(queue).side] = Head(queue).want]
          /\ last' = IF Head(queue).side = "followers" THEN "followings" ELSE last
          /\ UNCHANGED <<presses, disturbed>>
        BY <1>9 DEF TabletWrite
    <2>2. Head(queue).side = "followers" \/ Head(queue).side = "followings"
        BY <2>1 DEF TabletWrites
    <2>3. CASE Head(queue).side = "followers"
        BY <2>1, <2>3
    <2>4. CASE Head(queue).side = "followings"
        <3>1. entry'["followers"] = entry["followers"] /\ entry'["following"] = entry["following"]
            BY <2>1, <2>4
        <3> QED
            BY <2>1, <2>4, <3>1
    <2> QED
        BY <2>2, <2>3, <2>4
<1>10. CASE EndTablet
    BY <1>10 DEF EndTablet
<1> QED
    BY <1>1, <1>2, <1>3, <1>4, <1>5, <1>6, <1>7, <1>8, <1>9, <1>10 DEF FStep, FollowsStep

LEMMA NoStaysNoStep == FollowsInv /\ FStep => NoStaysNo'
<1> SUFFICES ASSUME FollowsInv, FStep PROVE NoStaysNo'
    OBVIOUS
<1> USE DEF FollowsInv, FollowTypes, NoStaysNo, TabletWrites, Sides, Lists, Entries, Press0, Writing, InFlight, ToSend,
            Listed, NextPress
<1>1. ASSUME NEW p \in Presses, Press(p) PROVE NoStaysNo'
    BY <1>1 DEF Press
<1>2. ASSUME NEW p \in Presses, UpdateFollowers(p) PROVE NoStaysNo'
    BY <1>2 DEF UpdateFollowers
<1>3. ASSUME NEW p \in Presses, Refresh(p) PROVE NoStaysNo'
    BY <1>3 DEF Refresh
<1>4. ASSUME NEW p \in Presses, ReadFollowers(p) PROVE NoStaysNo'
    BY <1>4 DEF ReadFollowers
<1>5. ASSUME NEW p \in Presses, ShowFollowers(p) PROVE NoStaysNo'
    <2>1. /\ presses[p].stage = "read" /\ page'.follows = Listed(presses[p].read)
          /\ presses' = [presses EXCEPT ![p].stage = "done"] /\ UNCHANGED <<entry, hasty>>
        BY <1>5 DEF ShowFollowers
    <2>2. \A q \in Presses : InFlight(q)' => InFlight(q) /\ presses'[q] = presses[q]
        BY <2>1
    <2>3. ~hasty /\ ~page'.follows => entry["followers"] # "no"
        BY <2>1
    <2> QED
        BY <2>1, <2>2, <2>3
<1>6. ASSUME NEW p \in Presses, EndDesktop(p) PROVE NoStaysNo'
    BY <1>6 DEF EndDesktop
<1>7. ASSUME NEW p \in Presses, UpdateFollowing(p) PROVE NoStaysNo'
    BY <1>7 DEF UpdateFollowing
<1>8. CASE TabletToggle
    BY <1>8 DEF TabletToggle
<1>9. CASE TabletWrite
    BY <1>9 DEF TabletWrite
<1>10. CASE EndTablet
    BY <1>10 DEF EndTablet
<1> QED
    BY <1>1, <1>2, <1>3, <1>4, <1>5, <1>6, <1>7, <1>8, <1>9, <1>10 DEF FStep, FollowsStep

LEMMA FollowsAreKept == FollowsInv /\ (FStep \/ UNCHANGED followsVars) => FollowsInv'
<1>1. FollowsInv /\ FStep => FollowsInv'
    BY FollowTypesStep, TabletWritesStep, OneWriterStep, NoStaysNoStep DEF FollowsInv
<1>2. FollowsInv /\ UNCHANGED followsVars => FollowsInv'
    BY DEF FollowsInv, FollowTypes, TabletWrites, OneWriter, NoStaysNo, Agree, Writing, InFlight, followsVars
<1> QED
    BY <1>1, <1>2

LEMMA FollowsImplies == FollowsInv => FollowsAgree /\ CannotFollowAgain
<1>1. FollowsInv => FollowsAgree
    <2> SUFFICES ASSUME FollowsInv, ~disturbed, queue = <<>>, \A p \in Presses : ~Writing(p)
                 PROVE  entry[last] = entry["followers"]
        BY DEF FollowsAgree
    <2>1. Agree("followings")
        BY DEF FollowsInv, TabletWrites
    <2>2. Agree("following")
        BY DEF FollowsInv, OneWriter, Writing
    <2> QED
        BY <2>1, <2>2 DEF FollowsInv, FollowTypes, Lists, Agree
<1>2. FollowsInv => CannotFollowAgain
    BY DEF FollowsInv, FollowTypes, NoStaysNo, CannotFollowAgain, Press0, Writing
<1> QED
    BY <1>1, <1>2

-----------------------------------------------------------------------------
(* Messaging: lists of keys *)

\* The keys in a list, of which no two have equal items.
Elems(s) == {s[i] : i \in DOMAIN s}
NoRepeat(s) == \A i, j \in DOMAIN s : i < j => items[s[i]] # items[s[j]]

\* A list with one more key.
LEMMA ElemsAppend ==
    ASSUME NEW S, NEW s \in Seq(S), NEW k
    PROVE  /\ Elems(Append(s, k)) = Elems(s) \cup {k}
           /\ NoRepeat(s) /\ ~Contains(s, k) => NoRepeat(Append(s, k))
           /\ DOMAIN Append(s, k) = 1..Len(s) + 1 /\ Len(s) \in Nat
           /\ \A i \in 1..Len(s) : Append(s, k)[i] = s[i]
           /\ Append(s, k)[Len(s) + 1] = k
<1> DEFINE a == Append(s, k)
           n == Len(s)
           R == S \cup {k}
<1>0. s \in Seq(R) /\ k \in R /\ n \in Nat /\ DOMAIN s = 1..n
    <2>1. n \in Nat /\ DOMAIN s = 1..n /\ s \in [1..n -> S]
        BY LenProperties
    <2> HIDE DEF n
    <2>2. s \in [1..n -> R]
        BY <2>1
    <2> QED
        BY <2>1, <2>2
<1> HIDE DEF R
<1>1. a \in Seq(R) /\ Len(a) = n + 1 /\ a[n + 1] = k /\ \A i \in 1..n : a[i] = s[i]
    BY <1>0, AppendProperties
<1>2. DOMAIN a = 1..n + 1
    BY <1>1, LenProperties
<1> HIDE DEF a
<1>3. 1..n + 1 = 1..n \cup {n + 1} /\ n + 1 \notin 1..n
    BY <1>0
<1>4. Elems(a) = Elems(s) \cup {k}
    BY <1>0, <1>1, <1>2, <1>3 DEF Elems
<1>5. ASSUME NoRepeat(s), ~Contains(s, k), NEW i \in 1..n + 1, NEW j \in 1..n + 1, i < j
      PROVE  items[a[i]] # items[a[j]]
    <2>1. i \in 1..n
        BY <1>0, <1>5
    <2>2. CASE j \in 1..n
        BY <1>0, <1>1, <1>5, <2>1, <2>2 DEF NoRepeat
    <2>3. CASE j = n + 1
        BY <1>0, <1>1, <1>5, <2>1, <2>3 DEF Contains
    <2> QED
        BY <1>3, <2>2, <2>3
<1>6. NoRepeat(s) /\ ~Contains(s, k) => NoRepeat(a)
    BY <1>2, <1>5 DEF NoRepeat
<1> QED
    BY <1>0, <1>1, <1>2, <1>4, <1>6 DEF a

\* A list is its head and the rest.
LEMMA ElemsTail ==
    ASSUME NEW S, NEW s \in Seq(S), s # <<>>
    PROVE  /\ Elems(s) = {Head(s)} \cup Elems(Tail(s)) /\ Head(s) \in S /\ Tail(s) \in Seq(S)
<1> DEFINE a == Tail(s)
           n == Len(s)
<1>1. n \in Nat \ {0} /\ DOMAIN s = 1..n
    BY EmptySeq, LenProperties
<1>2. Head(s) = s[1] /\ a \in Seq(S) /\ Len(a) = n - 1 /\ \A i \in 1..n - 1 : a[i] = s[i + 1]
    BY HeadTailProperties
<1>3. DOMAIN a = 1..n - 1
    BY <1>2, LenProperties
<1>4. s[1] \in S
    BY <1>1, ElementOfSeq
<1> HIDE DEF a, n
<1>5. ASSUME NEW i \in 1..n, i # 1 PROVE s[i] \in Elems(a)
    <2>1. i - 1 \in 1..n - 1 /\ i - 1 + 1 = i
        BY <1>1, <1>5
    <2>2. a[i - 1] = s[i - 1 + 1]
        BY <1>2, <2>1
    <2> QED
        BY <1>3, <2>1, <2>2 DEF Elems
<1>6. ASSUME NEW i \in 1..n - 1 PROVE a[i] \in Elems(s)
    <2>1. i + 1 \in 1..n
        BY <1>1
    <2> QED
        BY <1>1, <1>2, <2>1 DEF Elems
<1>7. Elems(a) \subseteq Elems(s)
    BY <1>3, <1>6 DEF Elems
<1>8. Elems(s) \subseteq {s[1]} \cup Elems(a)
    BY <1>1, <1>5 DEF Elems
<1>9. s[1] \in Elems(s)
    BY <1>1 DEF Elems
<1> QED
    BY <1>2, <1>4, <1>7, <1>8, <1>9 DEF a

\* The first part of a list.
LEMMA ElemsSubSeq ==
    ASSUME NEW S, NEW s \in Seq(S), NEW n \in 0..Len(s)
    PROVE  SubSeq(s, 1, n) \in Seq(S) /\ Elems(SubSeq(s, 1, n)) \subseteq Elems(s)
<1> DEFINE a == SubSeq(s, 1, n)
           m == Len(s)
<1>1. m \in Nat /\ DOMAIN s = 1..m /\ n \in Nat /\ n <= m
    BY LenProperties
<1>2. \A i \in 1..n : s[i] \in S
    BY <1>1, ElementOfSeq
<1>3. /\ a \in Seq(S) /\ Len(a) = (IF 1 <= n THEN n - 1 + 1 ELSE 0) /\ \A i \in 1..n - 1 + 1 : a[i] = s[1 + i - 1]
    BY <1>1, <1>2, SubSeqProperties
<1>4. DOMAIN a = 1..Len(a)
    BY <1>3, LenProperties
<1> HIDE DEF a, m
<1>5. ASSUME NEW i \in 1..n PROVE a[i] = s[i] /\ i \in 1..m
    <2>1. i \in 1..n - 1 + 1 /\ 1 + i - 1 = i /\ i \in 1..m
        BY <1>1
    <2> QED
        BY <1>3, <2>1
<1>6. Elems(a) \subseteq Elems(s)
    BY <1>1, <1>3, <1>4, <1>5 DEF Elems
<1> QED
    BY <1>3, <1>6 DEF a

LEMMA ElemsEmpty == Elems(<<>>) = {} /\ NoRepeat(<<>>)
    BY DEF Elems, NoRepeat

\* The keys of a read.
LEMMA ReadInOrder ==
    ASSUME NEW S, IsFiniteSet(S), NEW s \in InOrder(S)
    PROVE  /\ s \in Seq(S) /\ Elems(s) = S
           /\ \A i, j \in DOMAIN s : i < j => s[i] < s[j]
<1>1. Cardinality(S) \in Nat
    BY FS_CardinalityType
<1>2. s \in [1..Cardinality(S) -> S]
    BY DEF InOrder
<1>3. s \in Seq(S)
    BY <1>1, <1>2
<1>4. Elems(s) = S
    BY <1>2 DEF InOrder, Elems
<1> QED
    BY <1>3, <1>4 DEF InOrder

\* Of equal items the read gives the first.
LEMMA ReadWithoutRepeats ==
    ASSUME NEW S, IsFiniteSet(S), NEW s \in WithoutRepeats(S)
    PROVE  s \in Seq(S) /\ Elems(s) \subseteq S /\ NoRepeat(s)
<1> DEFINE R == {k \in S : \A j \in S : j < k => items[j] # items[k]}
<1>1. IsFiniteSet(R) /\ s \in InOrder(R)
    BY FS_Subset DEF WithoutRepeats
<1> HIDE DEF R
<1>2. s \in Seq(R) /\ Elems(s) = R /\ \A i, j \in DOMAIN s : i < j => s[i] < s[j]
    BY <1>1, ReadInOrder
<1>3. R \subseteq S
    BY DEF R
<1>4. s \in Seq(S)
    BY <1>2, <1>3
<1>5. \A i \in DOMAIN s : s[i] \in R
    BY <1>2 DEF Elems
<1>6. NoRepeat(s)
    BY <1>2, <1>5 DEF NoRepeat, R
<1> QED
    BY <1>2, <1>3, <1>4, <1>6

-----------------------------------------------------------------------------
(* Messaging: the invariant *)

Items == [from : {"none", "desktop", "tablet"}, id : Keys0] \cup [from : {"tablet"}, id : Texts]

MessagingTypes ==
    /\ kind \in {"messages", "conversations"} /\ pushed \subseteq Keys
    /\ items \in [Keys -> Items]
    /\ openings \in [Openings -> OpeningTypes] /\ newest \in Openings0 /\ current \in Openings0
    /\ loggedIn \in BOOLEAN /\ crashed \in BOOLEAN

\* A key is given once, and only some have been.
KeysInUse == (\A k \in pushed : items[k] = Nothing) /\ IsFiniteSet(Written \cup pushed)

\* What an opening has read or heard of was written.
KnownOnly(r) ==
    /\ Elems(r.list) \cup Elems(r.events) \subseteq Written /\ r.holding \in Written \cup {0}
    /\ r.page \in {"unopened", "asking"} => r.events = <<>> /\ r.holding = 0 /\ r.stream = "off"
    /\ r.page \notin {"walked", "attached"} => r.view = <<>>

Answered(o) == openings[o].page \notin {"unopened", "asking"}

\* The properties of the service hold openings that were answered.
Properties ==
    /\ newest # 0 => Answered(newest)
    /\ current # 0 => Answered(current)
    /\ (\E o \in Openings : Answered(o)) => newest # 0

\* One task alone tests and adds, so that nothing is added between its test and its addition.
Alone(o) == kind = "conversations" \/ \A p \in Openings \ {o} : openings[p].page = "unopened"
Once(r) ==
    /\ NoRepeat(r.list) /\ NoRepeat(r.view) /\ Elems(r.view) \subseteq Elems(r.list)
    /\ r.holding # 0 => ~Contains(r.list, r.holding)

\* What was written is in the collection, or on its way to it, or was missed; what is in
\* the collection is on the page, or came in the gap before its handler was attached.
Heard(r) ==
    /\ r.stream = "live" => \A k \in Written :
            Contains(r.list, k) \/ k \in r.missed \cup Elems(r.events) \cup {r.holding}
    /\ r.page \in {"walked", "attached"} => \A k \in Elems(r.list) :
            Contains(r.view, k) \/ \E j \in r.gap : items[j] = items[k]

MessagingInv ==
    /\ MessagingTypes /\ KeysInUse /\ Properties
    /\ \A o \in Openings :
        /\ KnownOnly(openings[o])
        /\ Alone(o) => Once(openings[o])
        /\ Collection(o) = o => Heard(openings[o])

\* At first no page is open and nothing is written.
LEMMA MessagingAtFirst ==
    ASSUME NEW k \in {"messages", "conversations"}, NEW bounds, MessagingInit(k, bounds)
    PROVE  MessagingInv
<1>1. /\ kind = k /\ items = [i \in Keys |-> Nothing] /\ pushed = {}
      /\ openings = [o \in Openings |-> Unopened] /\ newest = 0 /\ current = 0 /\ loggedIn = TRUE /\ crashed = FALSE
    BY DEF MessagingInit
<1>2. Written = {}
    BY <1>1 DEF Written
<1>3. Nothing \in Items
    BY DEF Nothing, Items, Keys0
<1>4. <<>> \in Seq(Keys)
    OBVIOUS
<1> DEFINE e == <<>>
<1>5. Unopened = [page |-> "unopened", box |-> "none", list |-> e, size |-> 0, view |-> e,
                  stream |-> "off", events |-> e, holding |-> 0, missed |-> {}, gap |-> {}]
    BY DEF Unopened
<1>6. e \in Seq(Keys) /\ Elems(e) = {} /\ NoRepeat(e) /\ e = <<>>
    BY <1>4, ElemsEmpty
<1> HIDE DEF e
<1>7. /\ Unopened \in OpeningTypes /\ Unopened.page = "unopened" /\ Unopened.stream = "off" /\ Unopened.holding = 0
      /\ Unopened.list = e /\ Unopened.events = e /\ Unopened.view = e
    BY <1>5, <1>6 DEF OpeningTypes, Keys0
<1>8. MessagingTypes
    BY <1>1, <1>3, <1>7 DEF MessagingTypes, Openings0
<1>9. KeysInUse /\ Properties
    BY <1>1, <1>2, <1>7, FS_EmptySet DEF KeysInUse, Properties, Answered
<1>10. KnownOnly(Unopened) /\ Once(Unopened) /\ Heard(Unopened)
    BY <1>2, <1>6, <1>7 DEF KnownOnly, Once, Heard
<1> QED
    BY <1>1, <1>8, <1>9, <1>10 DEF MessagingInv

\* Steps of one opening that neither read nor add, and the end of a session.
LEMMA QuietSteps ==
    ASSUME MessagingInv, MessagingTypes', UNCHANGED <<kind, items, newest>>, KeysInUse', current' \in {current, 0},
           \A o \in Openings :
               LET r == openings[o]
                   s == openings'[o]
               IN  /\ s.list = r.list /\ s.view = r.view /\ s.missed = r.missed /\ s.gap = r.gap /\ s.holding = r.holding
                   /\ Elems(s.events) \subseteq Elems(r.events) /\ (r.events = <<>> => s.events = <<>>)
                   /\ s.stream = r.stream \/ (s.stream # "live" /\ r.stream # "off")
                      \/ (s.stream # "live" /\ r.page \notin {"unopened", "asking"})
                   /\ s.stream = "live" => s.events = r.events
                   /\ \/ s.page = r.page
                      \/ r.page = "unopened" /\ s.page = "asking"
                      \/ r.page = "listed" /\ s.page = "walking"
                      \/ r.page = "walked" /\ s.page = "attached"
    PROVE  MessagingInv'
<1>1. Written' = Written /\ (\A s, k : Contains(s, k)' <=> Contains(s, k)) /\ (\A s : NoRepeat(s)' <=> NoRepeat(s))
    BY DEF Written, Contains, NoRepeat
<1>2. ASSUME NEW o \in Openings PROVE KnownOnly(openings[o])'
    BY <1>1 DEF MessagingInv, KnownOnly
<1>3. ASSUME NEW o \in Openings, Alone(o)' PROVE Once(openings[o])'
    <2>1. Alone(o)
        BY <1>3 DEF Alone
    <2> QED
        BY <1>1, <2>1 DEF MessagingInv, Once
<1>4. ASSUME NEW o \in Openings, Collection(o)' = o PROVE Heard(openings[o])'
    <2>1. Collection(o) = o
        BY <1>4 DEF Collection
    <2> QED
        BY <1>1, <2>1 DEF MessagingInv, Heard
<1>5. Properties'
    <2>1. \A o \in Openings : Answered(o)' <=> Answered(o)
        BY DEF Answered
    <2>2. newest \in Openings0 /\ current \in Openings0
        BY DEF MessagingInv, MessagingTypes
    <2> QED
        BY <2>1, <2>2 DEF MessagingInv, Properties, Openings0
<1> QED
    BY <1>2, <1>3, <1>4, <1>5 DEF MessagingInv

LEMMA Types == MessagingInv => MessagingTypes /\ \A o \in Openings : openings[o] \in OpeningTypes
    BY DEF MessagingInv, MessagingTypes

LEMMA PushKeeps == ASSUME MessagingInv, NEW k \in Keys, Push(k) PROVE MessagingInv'
<1>1. /\ Fresh(k) /\ pushed' = pushed \cup {k}
      /\ UNCHANGED <<kind, items, openings, newest, current, loggedIn, crashed>>
    BY DEF Push
<1>2. KeysInUse'
    <2>1. items[k] = Nothing
        BY <1>1 DEF Fresh, Written
    <2>2. IsFiniteSet((Written \cup pushed) \cup {k})
        BY FS_AddElement DEF MessagingInv, KeysInUse
    <2>3. (Written \cup pushed)' = (Written \cup pushed) \cup {k}
        BY <1>1 DEF Written
    <2> QED
        BY <1>1, <2>1, <2>2, <2>3 DEF MessagingInv, KeysInUse
<1>3. MessagingTypes'
    BY <1>1 DEF MessagingInv, MessagingTypes
<1> QED
    BY <1>1, <1>2, <1>3, QuietSteps

LEMMA WindowKeeps ==
    ASSUME MessagingInv, NEW o \in Openings, Open(o) \/ LeaveTab(o) \/ ReturnToTab(o) \/ StartWalk(o) \/ Attach(o)
    PROVE  MessagingInv'
<1>1. UNCHANGED <<kind, items, pushed, newest, current, loggedIn, crashed>>
    BY DEF Open, LeaveTab, ReturnToTab, StartWalk, Attach
<1>2. \E s \in OpeningTypes :
        /\ openings' = [openings EXCEPT ![o] = s]
        /\ s.list = openings[o].list /\ s.view = openings[o].view /\ s.missed = openings[o].missed
        /\ s.gap = openings[o].gap /\ s.holding = openings[o].holding /\ s.events = openings[o].events
        /\ s.stream = openings[o].stream
        /\ \/ s.page = openings[o].page
           \/ openings[o].page = "unopened" /\ s.page = "asking"
           \/ openings[o].page = "listed" /\ s.page = "walking"
           \/ openings[o].page = "walked" /\ s.page = "attached"
    <2> DEFINE r == openings[o]
    <2>0. r \in OpeningTypes /\ openings \in [Openings -> OpeningTypes]
        BY Types DEF MessagingTypes
    <2>1. CASE Open(o)
        <3> DEFINE s == [r EXCEPT !.page = "asking", !.box = "tab"]
        <3>1. s \in OpeningTypes
            BY <2>0 DEF OpeningTypes
        <3>2. openings' = [openings EXCEPT ![o] = s] /\ r.page = "unopened"
            BY <2>0, <2>1 DEF Open, OpeningTypes
        <3> QED
            BY <2>0, <3>1, <3>2 DEF OpeningTypes
    <2>2. CASE LeaveTab(o) \/ ReturnToTab(o)
        <3>1. PICK b \in {"window", "closed", "tab"} : openings' = [openings EXCEPT ![o].box = b]
            BY <2>2 DEF LeaveTab, ReturnToTab
        <3> DEFINE s == [r EXCEPT !.box = b]
        <3>2. s \in OpeningTypes /\ openings' = [openings EXCEPT ![o] = s]
            BY <2>0, <3>1 DEF OpeningTypes
        <3> QED
            BY <2>0, <3>2 DEF OpeningTypes
    <2>3. CASE StartWalk(o)
        <3> DEFINE s == [r EXCEPT !.page = "walking", !.size = Len(openings[o].list)]
        <3>1. s \in OpeningTypes
            BY <2>0, LenProperties DEF OpeningTypes
        <3>2. openings' = [openings EXCEPT ![o] = s] /\ r.page = "listed"
            BY <2>0, <2>3 DEF StartWalk, OpeningTypes
        <3> QED
            BY <2>0, <3>1, <3>2 DEF OpeningTypes
    <2>4. CASE Attach(o)
        <3> DEFINE s == [r EXCEPT !.page = "attached"]
        <3>1. s \in OpeningTypes /\ openings' = [openings EXCEPT ![o] = s] /\ r.page = "walked"
            BY <2>0, <2>4 DEF Attach, OpeningTypes
        <3> QED
            BY <2>0, <3>1 DEF OpeningTypes
    <2> QED
        BY <2>1, <2>2, <2>3, <2>4
<1>3. PICK s \in OpeningTypes :
        /\ openings' = [openings EXCEPT ![o] = s]
        /\ s.list = openings[o].list /\ s.view = openings[o].view /\ s.missed = openings[o].missed
        /\ s.gap = openings[o].gap /\ s.holding = openings[o].holding /\ s.events = openings[o].events
        /\ s.stream = openings[o].stream
        /\ \/ s.page = openings[o].page
           \/ openings[o].page = "unopened" /\ s.page = "asking"
           \/ openings[o].page = "listed" /\ s.page = "walking"
           \/ openings[o].page = "walked" /\ s.page = "attached"
    BY <1>2
<1>4. MessagingTypes' /\ \A p \in Openings : openings'[p] = IF p = o THEN s ELSE openings[p]
    BY <1>1, <1>3 DEF MessagingInv, MessagingTypes
<1>5. KeysInUse'
    BY <1>1 DEF MessagingInv, KeysInUse, Written
<1> QED
    BY <1>1, <1>3, <1>4, <1>5, QuietSteps

LEMMA DisconnectKeeps == ASSUME MessagingInv, NEW o \in Openings, Disconnect(o) PROVE MessagingInv'
<1> DEFINE r == openings[o]
<1>1. UNCHANGED <<kind, items, pushed, newest, current, loggedIn, crashed>> /\ r.stream = "live"
    BY DEF Disconnect
<1>2. PICK x \in {"connecting", "deaf"} : openings' = [openings EXCEPT ![o].stream = x]
    BY DEF Disconnect
<1> DEFINE s == [r EXCEPT !.stream = x]
<1>3. r \in OpeningTypes /\ openings \in [Openings -> OpeningTypes]
    BY Types DEF MessagingTypes
<1>4. s \in OpeningTypes /\ openings' = [openings EXCEPT ![o] = s]
    BY <1>2, <1>3 DEF OpeningTypes
<1>5. /\ s.list = r.list /\ s.view = r.view /\ s.missed = r.missed /\ s.gap = r.gap /\ s.holding = r.holding
      /\ s.events = r.events /\ s.page = r.page /\ s.stream = x
    BY <1>3 DEF OpeningTypes
<1> HIDE DEF s
<1>6. MessagingTypes' /\ \A p \in Openings : openings'[p] = IF p = o THEN s ELSE openings[p]
    BY <1>1, <1>3, <1>4 DEF MessagingInv, MessagingTypes
<1>7. KeysInUse'
    BY <1>1 DEF MessagingInv, KeysInUse, Written
<1> QED
    BY <1>1, <1>5, <1>6, <1>7, QuietSteps

LEMMA LogoutKeeps == ASSUME MessagingInv, LogoutM PROVE MessagingInv'
<1>1. UNCHANGED <<kind, items, pushed, newest, crashed>> /\ loggedIn' = FALSE
    BY DEF LogoutM
<1>2. KeysInUse'
    BY <1>1 DEF MessagingInv, KeysInUse, Written
<1>3. CASE kind = "conversations" /\ current # 0
    <2> DEFINE o == current
               r == openings[o]
    <2>1. o \in Openings /\ current' = 0
        BY <1>3, Types DEF LogoutM, MessagingTypes, Openings0
    <2>2. PICK n \in 0..Len(r.events) :
            openings' = [openings EXCEPT ![o].stream = "off", ![o].events = SubSeq(@, 1, n)]
        BY <1>3 DEF LogoutM
    <2> DEFINE s == [r EXCEPT !.stream = "off", !.events = SubSeq(r.events, 1, n)]
    <2>3. r \in OpeningTypes /\ openings \in [Openings -> OpeningTypes] /\ r.events \in Seq(Keys)
        BY <2>1, Types DEF MessagingTypes, OpeningTypes
    <2>4. SubSeq(r.events, 1, n) \in Seq(Keys) /\ Elems(SubSeq(r.events, 1, n)) \subseteq Elems(r.events)
        BY <2>3, ElemsSubSeq
    <2>5. s \in OpeningTypes /\ openings' = [openings EXCEPT ![o] = s]
        BY <2>2, <2>3, <2>4 DEF OpeningTypes
    <2>6. /\ s.list = r.list /\ s.view = r.view /\ s.missed = r.missed /\ s.gap = r.gap /\ s.holding = r.holding
          /\ s.events = SubSeq(r.events, 1, n) /\ s.page = r.page /\ s.stream = "off"
        BY <2>3 DEF OpeningTypes
    <2>7. r.events = <<>> => s.events = <<>>
        <3> SUFFICES ASSUME r.events = <<>> PROVE SubSeq(r.events, 1, n) = <<>>
            BY <2>6
        <3>1. Len(r.events) = 0
            OBVIOUS
        <3>2. n = 0
            BY <3>1
        <3> QED
            BY <3>2, SubSeqEmpty
    <2>8. Answered(o)
        BY <1>3 DEF MessagingInv, Properties
    <2> HIDE DEF s
    <2>9. MessagingTypes' /\ \A p \in Openings : openings'[p] = IF p = o THEN s ELSE openings[p]
        BY <1>1, <2>1, <2>3, <2>5 DEF MessagingInv, MessagingTypes, Openings0
    <2>10. Elems(s.events) \subseteq Elems(r.events)
        BY <2>4, <2>6
    <2>11. ASSUME NEW p \in Openings
           PROVE LET q == openings[p]
                     u == openings'[p]
                 IN  /\ u.list = q.list /\ u.view = q.view /\ u.missed = q.missed /\ u.gap = q.gap /\ u.holding = q.holding
                     /\ Elems(u.events) \subseteq Elems(q.events) /\ (q.events = <<>> => u.events = <<>>)
                     /\ u.stream = q.stream \/ (u.stream # "live" /\ q.stream # "off")
                        \/ (u.stream # "live" /\ q.page \notin {"unopened", "asking"})
                     /\ u.stream = "live" => u.events = q.events
                     /\ u.page = q.page
        BY <2>6, <2>7, <2>8, <2>9, <2>10 DEF Answered
    <2> QED
        BY <1>1, <1>2, <2>1, <2>9, <2>11, QuietSteps
<1>4. CASE ~(kind = "conversations" /\ current # 0)
    <2>1. UNCHANGED <<openings, current>>
        BY <1>4 DEF LogoutM
    <2>2. MessagingTypes'
        BY <1>1, <2>1 DEF MessagingInv, MessagingTypes
    <2> QED
        BY <1>1, <1>2, <2>1, <2>2, QuietSteps
<1> QED
    BY <1>3, <1>4

\* A new item differs from none that is listed, and leaves what was compared as it was.
LEMMA WriteKeeps ==
    ASSUME MessagingInv, NEW k \in Keys, items[k] = Nothing, NEW x \in Items, x # Nothing,
           items' = [items EXCEPT ![k] = x], pushed' = pushed \ {k} \/ (pushed' = pushed /\ k \notin pushed),
           UNCHANGED <<kind, newest, current, loggedIn, crashed>>, Announce(k) \/ PassBy(k)
    PROVE  MessagingInv'
<1>1. /\ items \in [Keys -> Items] /\ openings \in [Openings -> OpeningTypes] /\ pushed \subseteq Keys
      /\ \A o \in Openings : openings[o] \in OpeningTypes
    BY Types DEF MessagingTypes
<1>2. Written' = Written \cup {k} /\ k \notin Written /\ \A j \in Written : items'[j] = items[j] /\ j \in Keys
    BY <1>1 DEF Written
<1>3. ASSUME NEW o \in Openings
      PROVE  LET r == openings[o]
                 s == openings'[o]
             IN  /\ s \in OpeningTypes
                 /\ s.page = r.page /\ s.list = r.list /\ s.view = r.view /\ s.holding = r.holding
                 /\ s.stream = r.stream /\ s.gap = r.gap
                 /\ \/ r.stream = "live" /\ s.missed = r.missed /\ Elems(s.events) = Elems(r.events) \cup {k}
                    \/ r.stream = "live" /\ s.missed = r.missed \cup {k} /\ s.events = r.events
                    \/ r.stream # "live" /\ s = r
    <2> DEFINE r == openings[o]
               s == openings'[o]
    <2>1. CASE r.stream # "live"
        <3>1. s = r
            BY <2>1 DEF Announce, PassBy
        <3> QED
            BY <1>1, <2>1, <3>1
    <2>2. CASE r.stream = "live" /\ Announce(k)
        <3>1. s = [r EXCEPT !.events = Append(@, k)]
            BY <2>2 DEF Announce
        <3>2. r.events \in Seq(Keys) /\ r \in OpeningTypes
            BY <1>1 DEF OpeningTypes
        <3>3. Append(r.events, k) \in Seq(Keys) /\ Elems(Append(r.events, k)) = Elems(r.events) \cup {k}
            BY <3>2, ElemsAppend, AppendProperties
        <3>4. s \in OpeningTypes
            BY <3>1, <3>2, <3>3 DEF OpeningTypes
        <3>5. /\ s.events = Append(r.events, k) /\ s.page = r.page /\ s.list = r.list /\ s.view = r.view
              /\ s.holding = r.holding /\ s.stream = r.stream /\ s.missed = r.missed /\ s.gap = r.gap
            BY <3>1, <3>2 DEF OpeningTypes
        <3> QED
            BY <2>2, <3>3, <3>4, <3>5
    <2>3. CASE r.stream = "live" /\ PassBy(k)
        <3>1. s = [r EXCEPT !.missed = @ \cup {k}]
            BY <2>3 DEF PassBy
        <3>2. r \in OpeningTypes
            BY <1>1
        <3>3. s \in OpeningTypes
            <4>1. r.missed \cup {k} \in SUBSET Keys
                BY <3>2 DEF OpeningTypes
            <4> QED
                BY <3>1, <3>2, <4>1 DEF OpeningTypes
        <3>4. /\ s.events = r.events /\ s.page = r.page /\ s.list = r.list /\ s.view = r.view
              /\ s.holding = r.holding /\ s.stream = r.stream /\ s.missed = r.missed \cup {k} /\ s.gap = r.gap
            BY <3>1, <3>2 DEF OpeningTypes
        <3> QED
            BY <2>3, <3>3, <3>4
    <2> QED
        BY <2>1, <2>2, <2>3
<1>4. MessagingTypes'
    <2>1. openings' \in [Openings -> OpeningTypes]
        BY <1>3 DEF Announce, PassBy
    <2>2. items' \in [Keys -> Items]
        BY <1>1
    <2> QED
        BY <2>1, <2>2 DEF MessagingInv, MessagingTypes
<1>5. KeysInUse'
    <2>1. Written' \cup pushed' \subseteq (Written \cup pushed) \cup {k}
        BY <1>2
    <2>2. IsFiniteSet(Written' \cup pushed')
        BY <2>1, FS_AddElement, FS_Subset DEF MessagingInv, KeysInUse
    <2>3. \A j \in pushed' : items'[j] = Nothing
        BY <1>1 DEF MessagingInv, KeysInUse
    <2> QED
        BY <2>2, <2>3 DEF KeysInUse
<1>6. ASSUME NEW o \in Openings PROVE KnownOnly(openings[o])'
    <2>1. KnownOnly(openings[o])
        BY DEF MessagingInv
    <2> QED
        BY <1>2, <1>3, <2>1 DEF KnownOnly
<1>7. ASSUME NEW s, Elems(s) \subseteq Written
      PROVE  (NoRepeat(s)' <=> NoRepeat(s)) /\ \A j \in Written : Contains(s, j)' <=> Contains(s, j)
    <2>1. \A i \in DOMAIN s : s[i] \in Written
        BY <1>7 DEF Elems
    <2> QED
        BY <1>2, <2>1 DEF NoRepeat, Contains
<1>8. ASSUME NEW o \in Openings, Alone(o)' PROVE Once(openings[o])'
    <2>1. Alone(o)
        BY <1>3, <1>8 DEF Alone
    <2>2. Once(openings[o]) /\ KnownOnly(openings[o])
        BY <2>1 DEF MessagingInv
    <2>3. /\ Elems(openings[o].list) \subseteq Written /\ Elems(openings[o].view) \subseteq Written
          /\ openings[o].holding \in Written \cup {0}
        BY <2>2 DEF KnownOnly, Once
    <2>4. /\ openings'[o].list = openings[o].list /\ openings'[o].view = openings[o].view
          /\ openings'[o].holding = openings[o].holding
        BY <1>3
    <2>5. NoRepeat(openings[o].list)' /\ NoRepeat(openings[o].view)'
        BY <1>7, <2>2, <2>3, <2>4 DEF Once
    <2>6. openings[o].holding # 0 => ~Contains(openings[o].list, openings[o].holding)'
        BY <1>7, <2>2, <2>3, <2>4 DEF Once
    <2> QED
        BY <2>2, <2>4, <2>5, <2>6 DEF Once
<1>9. ASSUME NEW o \in Openings, Collection(o)' = o PROVE Heard(openings[o])'
    <2> DEFINE r == openings[o]
               s == openings'[o]
    <2>1. Heard(r) /\ KnownOnly(r)
        BY <1>9 DEF Collection, MessagingInv
    <2>2. Elems(r.list) \subseteq Written
        BY <2>1 DEF KnownOnly
    <2>3. \A j \in Written : Contains(r.list, j)' <=> Contains(r.list, j)
        BY <1>3, <1>7, <2>2
    <2>4. ASSUME s.stream = "live", NEW j \in Written'
          PROVE  Contains(r.list, j)' \/ j \in s.missed \cup Elems(s.events) \cup {s.holding}
        <3>1. CASE j = k
            BY <1>3, <2>4, <3>1
        <3>2. CASE j # k
            <4>1. j \in Written /\ r.stream = "live"
                BY <1>2, <1>3, <2>4, <3>2
            <4>2. Contains(r.list, j) \/ j \in r.missed \cup Elems(r.events) \cup {r.holding}
                BY <2>1, <4>1 DEF Heard
            <4>3. s.list = r.list /\ r.missed \cup Elems(r.events) \cup {r.holding} \subseteq s.missed \cup Elems(s.events) \cup {s.holding}
                BY <1>3
            <4> QED
                BY <2>3, <4>1, <4>2, <4>3
        <3> QED
            BY <3>1, <3>2
    <2>5. ASSUME s.page \in {"walked", "attached"}, NEW j \in Elems(s.list)
          PROVE  Contains(r.view, j)' \/ \E g \in s.gap : items'[g] = items'[j]
        <3>1. s.list = r.list /\ s.view = r.view /\ s.gap = r.gap /\ s.page = r.page
            BY <1>3
        <3>2. j \in Written /\ items'[j] = items[j]
            BY <1>2, <2>2, <2>5, <3>1
        <3>3. Contains(r.view, j) \/ \E g \in r.gap : items[g] = items[j]
            BY <2>1, <2>5, <3>1 DEF Heard
        <3>4. items[j] # Nothing
            BY <3>2 DEF Written
        <3>5. CASE Contains(r.view, j)
            <4>1. PICK i \in DOMAIN r.view : items[r.view[i]] = items[j]
                BY <3>5 DEF Contains
            <4>2. r.view[i] \in Keys
                BY <1>1, LenProperties, ElementOfSeq DEF OpeningTypes
            <4>3. r.view[i] # k
                BY <3>4, <4>1
            <4>4. items'[r.view[i]] = items[r.view[i]]
                BY <1>1, <4>2, <4>3
            <4>5. Contains(r.view, j)'
                BY <3>1, <3>2, <4>1, <4>4 DEF Contains
            <4> QED
                BY <4>5
        <3>6. CASE \E g \in r.gap : items[g] = items[j]
            <4>1. PICK g \in r.gap : items[g] = items[j]
                BY <3>6
            <4>2. g \in Keys /\ g # k
                BY <1>1, <3>4, <4>1 DEF OpeningTypes
            <4>3. items'[g] = items[g]
                BY <1>1, <4>2
            <4> QED
                BY <3>1, <3>2, <4>1, <4>3
        <3> QED
            BY <3>3, <3>5, <3>6
    <2> QED
        BY <2>4, <2>5 DEF Heard
<1>10. Properties'
    <2>1. \A o \in Openings : Answered(o)' <=> Answered(o)
        BY <1>3 DEF Answered
    <2>2. newest \in Openings0 /\ current \in Openings0
        BY DEF MessagingInv, MessagingTypes
    <2> QED
        BY <2>1, <2>2 DEF MessagingInv, Properties, Openings0
<1> QED
    BY <1>4, <1>5, <1>6, <1>8, <1>9, <1>10 DEF MessagingInv

LEMMA SetKeeps == ASSUME MessagingInv, NEW k \in Keys, Set(k) PROVE MessagingInv'
<1>1. items[k] = Nothing
    BY DEF Set, MessagingInv, KeysInUse
<1>2. DesktopItem(k) \in Items /\ DesktopItem(k) # Nothing
    BY DEF DesktopItem, Items, Keys0, Nothing
<1> QED
    BY <1>1, <1>2, WriteKeeps DEF Set

LEMMA TabletSendKeeps == ASSUME MessagingInv, NEW k \in Keys, TabletSend(k) PROVE MessagingInv'
<1>1. items[k] = Nothing /\ k \notin pushed
    BY DEF TabletSend, Fresh, Written
<1>2. PICK x \in IF kind = "messages" THEN Texts ELSE {k} : items' = [items EXCEPT ![k] = TabletItem(x)]
    BY DEF TabletSend
<1>3. TabletItem(x) \in Items /\ TabletItem(x) # Nothing
    BY <1>2 DEF TabletItem, Items, Keys0, Nothing
<1> QED
    BY <1>1, <1>2, <1>3, WriteKeeps DEF TabletSend

-----------------------------------------------------------------------------
(* Messaging: the steps of the page and of the listening tasks *)

\* Contains compares with every key in the list.
LEMMA ContainsElems ==
    \A list, k : Contains(list, k) <=> \E j \in Elems(list) : items[j] = items[k]
    BY DEF Contains, Elems

\* Where one opening alone changes, the others keep what the invariant says of them.
LEMMA OneChanges ==
    ASSUME MessagingInv, NEW o \in Openings, NEW s \in OpeningTypes, openings' = [openings EXCEPT ![o] = s],
           UNCHANGED <<kind, items, pushed, newest, current, loggedIn>>, crashed' \in BOOLEAN,
           Answered(o), s.page \notin {"unopened", "asking"},
           KnownOnly(s), Alone(o) => Once(s), Collection(o) = o => Heard(s)
    PROVE  MessagingInv'
<1>1. MessagingTypes' /\ \A p \in Openings : openings'[p] = IF p = o THEN s ELSE openings[p]
    BY DEF MessagingInv, MessagingTypes
<1>2. KeysInUse' /\ Written' = Written
    BY DEF MessagingInv, KeysInUse, Written
<1>3. \A s1, k : (Contains(s1, k)' <=> Contains(s1, k)) /\ (NoRepeat(s1)' <=> NoRepeat(s1))
    BY DEF Contains, NoRepeat
<1>4. Properties'
    <2>1. \A p \in Openings : Answered(p)' <=> Answered(p)
        BY <1>1 DEF Answered
    <2>2. newest \in Openings0 /\ current \in Openings0
        BY DEF MessagingInv, MessagingTypes
    <2> QED
        BY <2>1, <2>2 DEF MessagingInv, Properties, Openings0
<1>5. ASSUME NEW p \in Openings PROVE KnownOnly(openings[p])'
    <2>1. KnownOnly(openings[p])
        BY DEF MessagingInv
    <2> QED
        BY <1>1, <1>2, <2>1 DEF KnownOnly
<1>6. ASSUME NEW p \in Openings, Alone(p)' PROVE Once(openings[p])'
    <2>1. Alone(p)
        BY <1>1, <1>6 DEF Alone, Answered
    <2>2. Once(openings[p])
        BY <2>1 DEF MessagingInv
    <2>3. CASE p = o
        BY <1>1, <1>3, <2>1, <2>3 DEF Once
    <2>4. CASE p # o
        BY <1>1, <1>3, <2>2, <2>4 DEF Once
    <2> QED
        BY <2>3, <2>4
<1>7. ASSUME NEW p \in Openings, Collection(p)' = p PROVE Heard(openings[p])'
    <2>1. Collection(p) = p
        BY <1>7 DEF Collection
    <2>2. Heard(openings[p])
        BY <2>1 DEF MessagingInv
    <2>3. CASE p = o
        BY <1>1, <1>2, <1>3, <2>1, <2>3 DEF Heard
    <2>4. CASE p # o
        BY <1>1, <1>2, <1>3, <2>2, <2>4 DEF Heard
    <2> QED
        BY <2>3, <2>4
<1> QED
    BY <1>1, <1>2, <1>4, <1>5, <1>6, <1>7 DEF MessagingInv

\* A new collection repeats nothing; what another page showed is no longer added to.
LEMMA OnceAnsweredKeeps == ASSUME MessagingInv, NEW o \in Openings, OnceAnswered(o) PROVE MessagingInv'
<1> DEFINE r == openings[o]
<1>1. /\ UNCHANGED <<kind, items, pushed, loggedIn, crashed>> /\ r.page = "asking"
      /\ newest' = o /\ current' = o
    BY DEF OnceAnswered
<1>2. PICK keys \in WithoutRepeats(Written) :
        openings' = [openings EXCEPT ![o].page = "listed", ![o].list = keys, ![o].stream = "connecting"]
    BY DEF OnceAnswered
<1> DEFINE s == [r EXCEPT !.page = "listed", !.list = keys, !.stream = "connecting"]
<1>3. r \in OpeningTypes /\ openings \in [Openings -> OpeningTypes]
    BY Types DEF MessagingTypes
<1>4. keys \in Seq(Keys) /\ Elems(keys) \subseteq Written /\ NoRepeat(keys)
    <2>1. IsFiniteSet(Written)
        BY FS_Subset DEF MessagingInv, KeysInUse
    <2>2. keys \in Seq(Written) /\ Elems(keys) \subseteq Written /\ NoRepeat(keys)
        BY <2>1, ReadWithoutRepeats
    <2>3. Written \subseteq Keys
        BY DEF Written
    <2> QED
        BY <2>2, <2>3
<1>5. s \in OpeningTypes /\ openings' = [openings EXCEPT ![o] = s]
    BY <1>2, <1>3, <1>4 DEF OpeningTypes
<1>6. /\ s.page = "listed" /\ s.list = keys /\ s.stream = "connecting" /\ s.view = r.view /\ s.events = r.events
      /\ s.holding = r.holding
    BY <1>3 DEF OpeningTypes
<1>7. r.view = <<>> /\ r.events = <<>> /\ r.holding = 0
    BY <1>1 DEF MessagingInv, KnownOnly
<1> HIDE DEF s
<1>8. MessagingTypes' /\ \A p \in Openings : openings'[p] = IF p = o THEN s ELSE openings[p]
    BY <1>1, <1>3, <1>5 DEF MessagingInv, MessagingTypes, Openings0
<1>9. KeysInUse' /\ Written' = Written
    BY <1>1 DEF MessagingInv, KeysInUse, Written
<1>10. \A s1, k : (Contains(s1, k)' <=> Contains(s1, k)) /\ (NoRepeat(s1)' <=> NoRepeat(s1))
    BY <1>1 DEF Contains, NoRepeat
<1>11. KnownOnly(s) /\ Once(s) /\ Heard(s)
    BY <1>4, <1>6, <1>7, ElemsEmpty DEF KnownOnly, Once, Heard
<1>12. Properties'
    BY <1>1, <1>6, <1>8, ZeroIsNone DEF Properties, Answered
<1>13. ASSUME NEW p \in Openings PROVE KnownOnly(openings[p])'
    <2>1. KnownOnly(openings[p])
        BY DEF MessagingInv
    <2> QED
        BY <1>8, <1>9, <1>11, <2>1 DEF KnownOnly
<1>14. ASSUME NEW p \in Openings, Alone(p)' PROVE Once(openings[p])'
    <2>1. CASE p = o
        BY <1>8, <1>10, <1>11, <2>1 DEF Once
    <2>2. CASE p # o
        <3>1. Alone(p)
            BY <1>1, <1>6, <1>8, <1>14, <2>2 DEF Alone
        <3>2. Once(openings[p])
            BY <3>1 DEF MessagingInv
        <3> QED
            BY <1>8, <1>10, <2>2, <3>2 DEF Once
    <2> QED
        BY <2>1, <2>2
<1>15. ASSUME NEW p \in Openings, Collection(p)' = p PROVE Heard(openings[p])'
    <2>1. CASE p = o
        BY <1>1, <1>8, <1>9, <1>10, <1>11, <2>1 DEF Heard
    <2>2. CASE p # o
        <3>1. Collection(p) = p
            BY <1>1, <1>15, <2>2 DEF Collection
        <3>2. Heard(openings[p])
            BY <3>1 DEF MessagingInv
        <3> QED
            BY <1>1, <1>8, <1>9, <1>10, <2>2, <3>2 DEF Heard
    <2> QED
        BY <2>1, <2>2
<1> QED
    BY <1>8, <1>9, <1>12, <1>13, <1>14, <1>15 DEF MessagingInv

\* The page has the whole collection, or the process ended.
LEMMA EndWalkKeeps == ASSUME MessagingInv, NEW o \in Openings, EndWalk(o) PROVE MessagingInv'
<1> DEFINE r == openings[o]
<1>1. UNCHANGED <<kind, items, pushed, newest, current, loggedIn>> /\ r.page = "walking" /\ Answered(o)
    BY DEF EndWalk, Answered
<1>2. r \in OpeningTypes /\ openings \in [Openings -> OpeningTypes] /\ crashed \in BOOLEAN
    BY Types DEF MessagingTypes
<1>3. CASE Len(r.list) = r.size
    <2> DEFINE s == [r EXCEPT !.page = "walked", !.view = r.list]
    <2>1. s \in OpeningTypes /\ openings' = [openings EXCEPT ![o] = s] /\ crashed' \in BOOLEAN
        BY <1>2, <1>3 DEF EndWalk, OpeningTypes
    <2>2. /\ s.page = "walked" /\ s.list = r.list /\ s.view = r.list /\ s.stream = r.stream /\ s.events = r.events
          /\ s.holding = r.holding /\ s.missed = r.missed
        BY <1>2 DEF OpeningTypes
    <2> HIDE DEF s
    <2>3. KnownOnly(s)
        BY <2>2 DEF MessagingInv, KnownOnly
    <2>4. Alone(o) => Once(s)
        BY <2>2 DEF MessagingInv, Once
    <2>5. Collection(o) = o => Heard(s)
        <3> SUFFICES ASSUME Collection(o) = o PROVE Heard(s)
            OBVIOUS
        <3>1. Heard(r)
            BY DEF MessagingInv
        <3>2. \A k \in Elems(s.list) : Contains(s.view, k)
            BY <2>2, ContainsElems
        <3> QED
            BY <2>2, <3>1, <3>2 DEF Heard
    <2> QED
        BY <1>1, <2>1, <2>2, <2>3, <2>4, <2>5, OneChanges
<1>4. CASE Len(r.list) # r.size
    <2>1. openings' = [openings EXCEPT ![o] = r] /\ crashed' \in BOOLEAN
        BY <1>2, <1>4 DEF EndWalk
    <2>2. KnownOnly(r) /\ (Alone(o) => Once(r)) /\ (Collection(o) = o => Heard(r))
        BY DEF MessagingInv
    <2> QED
        BY <1>1, <1>2, <2>1, <2>2, OneChanges
<1> QED
    BY <1>3, <1>4

\* A connection tells of all that is written.
LEMMA ConnectKeeps == ASSUME MessagingInv, NEW o \in Openings, Connect(o) PROVE MessagingInv'
<1> DEFINE r == openings[o]
<1>1. /\ UNCHANGED <<kind, items, pushed, newest, current, loggedIn, crashed>> /\ r.stream = "connecting"
      /\ KnownOnly(r) /\ Answered(o)
    BY DEF Connect, MessagingInv, KnownOnly, Answered
<1>2. r \in OpeningTypes /\ openings \in [Openings -> OpeningTypes] /\ crashed \in BOOLEAN
    BY Types DEF MessagingTypes
<1>3. PICK keys \in InOrder(Written) :
        openings' = [openings EXCEPT ![o].stream = "live", ![o].events = keys, ![o].missed = {}]
    BY DEF Connect
<1>4. keys \in Seq(Keys) /\ Elems(keys) = Written
    <2>1. IsFiniteSet(Written)
        BY FS_Subset DEF MessagingInv, KeysInUse
    <2>2. keys \in Seq(Written) /\ Elems(keys) = Written
        BY <2>1, ReadInOrder
    <2>3. Written \subseteq Keys
        BY DEF Written
    <2> QED
        BY <2>2, <2>3
<1> DEFINE s == [r EXCEPT !.stream = "live", !.events = keys, !.missed = {}]
<1>5. s \in OpeningTypes
    <2>1. {} \in SUBSET Keys
        OBVIOUS
    <2> QED
        BY <1>2, <1>4, <2>1 DEF OpeningTypes
<1>6. openings' = [openings EXCEPT ![o] = s]
    BY <1>2, <1>3 DEF OpeningTypes
<1>7. /\ s.page = r.page /\ s.list = r.list /\ s.view = r.view /\ s.events = keys /\ s.holding = r.holding
      /\ s.gap = r.gap /\ s.stream = "live"
    BY <1>2 DEF OpeningTypes
<1> HIDE DEF s
<1>8. KnownOnly(s)
    BY <1>1, <1>4, <1>7 DEF KnownOnly, Answered
<1>9. Alone(o) => Once(s)
    BY <1>7 DEF MessagingInv, Once
<1>10. Collection(o) = o => Heard(s)
    BY <1>4, <1>7 DEF MessagingInv, Heard
<1> QED
    BY <1>1, <1>2, <1>5, <1>6, <1>7, <1>8, <1>9, <1>10, OneChanges DEF Answered

\* An opening that was answered has a collection to add to, its own if it is the only one.
LEMMA HasCollection ==
    ASSUME MessagingInv, NEW o \in Openings, Answered(o)
    PROVE  /\ Collection(o) \in Openings /\ Answered(Collection(o))
           /\ Alone(o) \/ Alone(Collection(o)) => Collection(o) = o
<1>1. newest \in Openings /\ Answered(newest)
    BY DEF MessagingInv, MessagingTypes, Properties, Openings0
<1> QED
    BY <1>1 DEF Collection, Alone, Answered

\* What the task takes from the events it holds, or the collection has it.
LEMMA TestContainsKeeps == ASSUME MessagingInv, NEW o \in Openings, TestContains(o) PROVE MessagingInv'
<1> DEFINE r == openings[o]
           k == Head(r.events)
           t == openings[Collection(o)].list
           h == IF Contains(t, k) THEN 0 ELSE k
           s == [r EXCEPT !.events = Tail(r.events), !.holding = h]
<1>1. /\ UNCHANGED <<kind, items, pushed, newest, current, loggedIn, crashed>> /\ r.events # <<>> /\ r.holding = 0
      /\ KnownOnly(r) /\ Answered(o)
    BY DEF TestContains, MessagingInv, KnownOnly, Answered
<1>2. /\ r \in OpeningTypes /\ openings \in [Openings -> OpeningTypes] /\ crashed \in BOOLEAN
      /\ r.events \in Seq(Keys)
    BY Types DEF MessagingTypes, OpeningTypes
<1>3. Elems(r.events) = {k} \cup Elems(Tail(r.events)) /\ k \in Keys /\ Tail(r.events) \in Seq(Keys)
    BY <1>1, <1>2, ElemsTail
<1>4. k \in Written /\ k # 0
    BY <1>1, <1>3, ZeroIsNone DEF KnownOnly
<1>5. openings' = [openings EXCEPT ![o] = s]
    BY <1>2 DEF TestContains, OpeningTypes
<1> HIDE DEF k, t
<1>6. h \in Keys0 /\ h \in Written \cup {0}
    BY <1>3, <1>4 DEF Keys0
<1>7. (h # 0 => h = k /\ ~Contains(t, k)) /\ (Contains(t, k) \/ h = k)
    OBVIOUS
<1> HIDE DEF h
<1>8. s \in OpeningTypes
    BY <1>2, <1>3, <1>6 DEF OpeningTypes
<1>9. /\ s.page = r.page /\ s.list = r.list /\ s.view = r.view /\ s.events = Tail(r.events) /\ s.holding = h
      /\ s.gap = r.gap /\ s.stream = r.stream /\ s.missed = r.missed
    BY <1>2 DEF OpeningTypes
<1> HIDE DEF s
<1>10. KnownOnly(s)
    BY <1>1, <1>3, <1>6, <1>9 DEF KnownOnly, Answered
<1>11. Alone(o) => Once(s)
    <2> SUFFICES ASSUME Alone(o) PROVE Once(s)
        OBVIOUS
    <2>1. Once(r) /\ Collection(o) = o
        BY <1>1, HasCollection DEF MessagingInv
    <2>2. t = r.list
        BY <2>1 DEF t
    <2> QED
        BY <1>7, <1>9, <2>1, <2>2 DEF Once
<1>12. Collection(o) = o => Heard(s)
    <2> SUFFICES ASSUME Collection(o) = o PROVE Heard(s)
        OBVIOUS
    <2>1. Heard(r) /\ t = r.list
        BY DEF MessagingInv, t
    <2>2. ASSUME s.stream = "live", NEW j \in Written
          PROVE  Contains(s.list, j) \/ j \in s.missed \cup Elems(s.events) \cup {s.holding}
        <3>1. Contains(r.list, j) \/ j \in r.missed \cup Elems(r.events) \cup {r.holding}
            BY <1>9, <2>1, <2>2 DEF Heard
        <3>2. j # 0
            BY ZeroIsNone DEF Written
        <3> QED
            BY <1>1, <1>3, <1>7, <1>9, <2>1, <3>1, <3>2
    <2>3. s.page \in {"walked", "attached"} => \A j \in Elems(s.list) :
            Contains(s.view, j) \/ \E g \in s.gap : items[g] = items[j]
        BY <1>9, <2>1 DEF Heard
    <2> QED
        BY <2>2, <2>3 DEF Heard
<1> QED
    BY <1>1, <1>2, <1>5, <1>8, <1>9, <1>10, <1>11, <1>12, OneChanges DEF Answered

\* The addition may be to the collection of another opening.
LEMMA AddKeeps == ASSUME MessagingInv, NEW o \in Openings, Add(o) PROVE MessagingInv'
<1> DEFINE k == openings[o].holding
           c == Collection(o)
<1>1. /\ UNCHANGED <<kind, items, pushed, newest, current, loggedIn, crashed>> /\ k # 0
      /\ \A p \in Openings : openings'[p] =
            [openings[p] EXCEPT !.holding = IF p = o THEN 0 ELSE @,
                                !.list = IF p = c THEN Append(@, k) ELSE @,
                                !.view = IF p = c /\ openings[p].page = "attached" THEN Append(@, k) ELSE @,
                                !.gap = IF p = c /\ openings[p].page = "walked" THEN @ \cup {k} ELSE @]
      /\ openings' = [p \in Openings |-> openings'[p]]
    BY DEF Add
<1>2. KnownOnly(openings[o]) /\ k \in Written /\ k \in Keys /\ Answered(o)
    BY <1>1 DEF MessagingInv, KnownOnly, Answered, Written
<1>3. c \in Openings /\ Answered(c) /\ (Alone(o) \/ Alone(c) => c = o)
    BY <1>2, HasCollection
<1> HIDE DEF c, k
<1>4. ASSUME NEW p \in Openings
      PROVE  LET r == openings[p]
                 s == openings'[p]
             IN  /\ s \in OpeningTypes
                 /\ s.page = r.page /\ s.stream = r.stream /\ s.events = r.events /\ s.missed = r.missed
                 /\ s.holding = IF p = o THEN 0 ELSE r.holding
                 /\ p # c => s.list = r.list /\ s.view = r.view /\ s.gap = r.gap
                 /\ p = c => /\ s.list = Append(r.list, k)
                             /\ s.view = IF r.page = "attached" THEN Append(r.view, k) ELSE r.view
                             /\ s.gap = IF r.page = "walked" THEN r.gap \cup {k} ELSE r.gap
                 /\ r.list \in Seq(Keys) /\ r.view \in Seq(Keys)
    <2> DEFINE r == openings[p]
               s == openings'[p]
    <2>1. r \in OpeningTypes /\ r.list \in Seq(Keys) /\ r.view \in Seq(Keys) /\ r.gap \in SUBSET Keys
        BY Types DEF OpeningTypes
    <2> DEFINE h == IF p = o THEN 0 ELSE r.holding
               l == IF p = c THEN Append(r.list, k) ELSE r.list
               v == IF p = c /\ r.page = "attached" THEN Append(r.view, k) ELSE r.view
               g == IF p = c /\ r.page = "walked" THEN r.gap \cup {k} ELSE r.gap
    <2>2. l \in Seq(Keys) /\ v \in Seq(Keys)
        BY <1>2, <2>1, AppendProperties
    <2>3. g \in SUBSET Keys
        BY <1>2, <2>1
    <2>4. h \in Keys0
        BY <2>1 DEF OpeningTypes, Keys0
    <2>5. s = [r EXCEPT !.holding = h, !.list = l, !.view = v, !.gap = g]
        BY <1>1
    <2> HIDE DEF h, l, v, g
    <2>6. s \in OpeningTypes
        BY <2>1, <2>2, <2>3, <2>4, <2>5 DEF OpeningTypes
    <2>7. /\ s.page = r.page /\ s.stream = r.stream /\ s.events = r.events /\ s.missed = r.missed
          /\ s.holding = h /\ s.list = l /\ s.view = v /\ s.gap = g
        BY <2>1, <2>5 DEF OpeningTypes
    <2> QED
        BY <2>1, <2>6, <2>7 DEF h, l, v, g
<1>5. MessagingTypes'
    BY <1>1, <1>4 DEF MessagingInv, MessagingTypes
<1>6. KeysInUse' /\ Written' = Written
    BY <1>1 DEF MessagingInv, KeysInUse, Written
<1>7. \A s, j : (Contains(s, j)' <=> Contains(s, j)) /\ (NoRepeat(s)' <=> NoRepeat(s))
    BY <1>1 DEF Contains, NoRepeat
<1>8. Properties'
    <2>1. \A p \in Openings : Answered(p)' <=> Answered(p)
        BY <1>4 DEF Answered
    <2>2. newest \in Openings0 /\ current \in Openings0
        BY DEF MessagingInv, MessagingTypes
    <2> QED
        BY <1>1, <2>1, <2>2 DEF MessagingInv, Properties, Openings0
<1>9. ASSUME NEW p \in Openings
      PROVE  /\ Elems(openings[p].list) \subseteq Elems(openings'[p].list)
             /\ p = c => Elems(openings'[p].list) = Elems(openings[p].list) \cup {k}
             /\ p = c /\ openings[p].page = "attached" => Elems(openings'[p].view) = Elems(openings[p].view) \cup {k}
             /\ openings[p].page # "attached" => openings'[p].view = openings[p].view
             /\ Elems(openings[p].view) \subseteq Elems(openings'[p].view)
    <2> DEFINE r == openings[p]
               s == openings'[p]
    <2>1. r.list \in Seq(Keys) /\ r.view \in Seq(Keys)
        BY <1>4
    <2>2. Elems(Append(r.list, k)) = Elems(r.list) \cup {k} /\ Elems(Append(r.view, k)) = Elems(r.view) \cup {k}
        BY <2>1, ElemsAppend
    <2>3. CASE p = c
        <3>1. s.list = Append(r.list, k) /\ s.view = IF r.page = "attached" THEN Append(r.view, k) ELSE r.view
            BY <1>4, <2>3
        <3> QED
            BY <2>2, <2>3, <3>1
    <2>4. CASE p # c
        <3>1. s.list = r.list /\ s.view = r.view
            BY <1>4, <2>4
        <3> QED
            BY <2>4, <3>1
    <2> QED
        BY <2>3, <2>4
<1>10. ASSUME NEW p \in Openings PROVE KnownOnly(openings[p])'
    <2>1. KnownOnly(openings[p])
        BY DEF MessagingInv
    <2>2. CASE p = c
        <3> DEFINE r == openings[p]
                   s == openings'[p]
        <3>1. /\ s.page = r.page /\ s.stream = r.stream /\ s.events = r.events
              /\ s.holding = 0 \/ s.holding = r.holding
            BY <1>4
        <3>2. Elems(s.list) = Elems(r.list) \cup {k}
            BY <1>9, <2>2
        <3>3. r.page \notin {"unopened", "asking"}
            BY <1>3, <2>2 DEF Answered
        <3>4. s.page \notin {"walked", "attached"} => s.view = <<>>
            BY <1>9, <2>1, <3>1 DEF KnownOnly
        <3> QED
            BY <1>2, <1>6, <2>1, <3>1, <3>2, <3>3, <3>4 DEF KnownOnly
    <2>3. CASE p # c
        BY <1>4, <1>6, <2>1, <2>3 DEF KnownOnly
    <2> QED
        BY <2>2, <2>3
<1>11. ASSUME NEW p \in Openings, Alone(p)' PROVE Once(openings[p])'
    <2> DEFINE r == openings[p]
               s == openings'[p]
    <2>1. Alone(p)
        BY <1>1, <1>4, <1>11 DEF Alone
    <2>2. Once(r)
        BY <2>1 DEF MessagingInv
    <2>3. CASE p = c
        <3>1. p = o /\ s.holding = 0 /\ ~Contains(r.list, k)
            BY <1>1, <1>3, <1>4, <2>1, <2>2, <2>3 DEF Once, k
        <3>2. ~Contains(r.view, k)
            BY <2>2, <3>1, ContainsElems DEF Once
        <3>3. /\ r.list \in Seq(Keys) /\ r.view \in Seq(Keys) /\ s.list = Append(r.list, k)
              /\ s.view = Append(r.view, k) \/ s.view = r.view
            BY <1>4, <2>3
        <3>4. NoRepeat(s.list) /\ NoRepeat(s.view)
            <4>1. NoRepeat(r.list) /\ NoRepeat(r.view)
                BY <2>2 DEF Once
            <4> HIDE DEF r, s
            <4>2. NoRepeat(Append(r.list, k))
                BY <3>1, <3>3, <4>1, ElemsAppend
            <4>3. NoRepeat(Append(r.view, k))
                BY <3>2, <3>3, <4>1, ElemsAppend
            <4> QED
                BY <3>3, <4>1, <4>2, <4>3
        <3>5. Elems(s.view) \subseteq Elems(s.list)
            BY <1>9, <2>2, <2>3 DEF Once
        <3> QED
            BY <1>7, <3>1, <3>4, <3>5 DEF Once
    <2>4. CASE p # c
        BY <1>4, <1>7, <2>2, <2>4 DEF Once
    <2> QED
        BY <2>3, <2>4
<1>12. ASSUME NEW p \in Openings, Collection(p)' = p PROVE Heard(openings[p])'
    <2> DEFINE r == openings[p]
               s == openings'[p]
    <2>1. Collection(p) = p
        BY <1>1, <1>12 DEF Collection
    <2>2. Heard(r)
        BY <2>1 DEF MessagingInv
    <2>3. CASE p = c
        <3>1. ASSUME s.stream = "live", NEW j \in Written
              PROVE  Contains(s.list, j) \/ j \in s.missed \cup Elems(s.events) \cup {s.holding}
            <4>1. Contains(r.list, j) \/ j \in r.missed \cup Elems(r.events) \cup {r.holding}
                BY <1>4, <2>2, <3>1 DEF Heard
            <4>2. Contains(r.list, j) => Contains(s.list, j)
                BY <1>9, ContainsElems
            <4>3. Contains(s.list, k)
                BY <1>9, <2>3, ContainsElems
            <4>4. p = o => r.holding = k
                BY DEF k
            <4> QED
                BY <1>4, <4>1, <4>2, <4>3, <4>4
        <3>2. ASSUME s.page \in {"walked", "attached"}, NEW j \in Elems(s.list)
              PROVE  Contains(s.view, j) \/ \E g \in s.gap : items[g] = items[j]
            <4>1. CASE j = k
                <5>1. s.page = "walked" => k \in s.gap
                    BY <1>4, <2>3
                <5>2. s.page = "attached" => Contains(s.view, k)
                    BY <1>4, <1>9, <2>3, ContainsElems
                <5> QED
                    BY <3>2, <4>1, <5>1, <5>2
            <4>2. CASE j \in Elems(r.list)
                <5>1. Contains(r.view, j) \/ \E g \in r.gap : items[g] = items[j]
                    BY <1>4, <2>2, <3>2, <4>2 DEF Heard
                <5>2. Contains(r.view, j) => Contains(s.view, j)
                    BY <1>9, ContainsElems
                <5>3. r.gap \subseteq s.gap
                    BY <1>4, <2>3
                <5> QED
                    BY <5>1, <5>2, <5>3
            <4> QED
                BY <1>9, <2>3, <3>2, <4>1, <4>2
        <3> QED
            BY <1>1, <1>6, <1>7, <3>1, <3>2 DEF Heard
    <2>4. CASE p # c
        <3>1. p # o
            BY <2>1, <2>4 DEF c
        <3> QED
            BY <1>1, <1>4, <1>6, <1>7, <2>2, <2>4, <3>1 DEF Heard
    <2> QED
        BY <2>3, <2>4
<1> QED
    BY <1>5, <1>6, <1>8, <1>10, <1>11, <1>12 DEF MessagingInv

\* Steps of the others.
LEMMA MessagingSame ==
    ASSUME MessagingInv, UNCHANGED messagingVars
    PROVE  MessagingInv'
<1>1. UNCHANGED <<kind, items, pushed, openings, newest, current, loggedIn, crashed>>
    BY DEF messagingVars
<1>2. MessagingTypes' /\ KeysInUse'
    BY <1>1 DEF MessagingInv, MessagingTypes, KeysInUse, Written
<1> QED
    BY <1>1, <1>2, QuietSteps

\* Every step of the desktop clients, and what a tablet writes, keeps the invariant.
LEMMA MessagingKeeps ==
    ASSUME MessagingInv,
           MessagingStep \/ (\E k \in Keys : Set(k) \/ TabletSend(k)) \/ UNCHANGED messagingVars
    PROVE  MessagingInv'
<1>1. CASE MessagingStep
    <2>1. CASE \E k \in Keys : Push(k)
        BY <2>1, PushKeeps
    <2>2. CASE LogoutM
        BY <2>2, LogoutKeeps
    <2>3. ASSUME NEW o \in Openings, Open(o) \/ LeaveTab(o) \/ ReturnToTab(o) \/ Page(o) \/ Listener(o) \/ Disconnect(o)
          PROVE  MessagingInv'
        <3>1. CASE Open(o) \/ LeaveTab(o) \/ ReturnToTab(o) \/ StartWalk(o) \/ Attach(o)
            BY <3>1, WindowKeeps
        <3>2. CASE OnceAnswered(o)
            BY <3>2, OnceAnsweredKeeps
        <3>3. CASE EndWalk(o)
            BY <3>3, EndWalkKeeps
        <3>4. CASE Connect(o)
            BY <3>4, ConnectKeeps
        <3>5. CASE TestContains(o)
            BY <3>5, TestContainsKeeps
        <3>6. CASE Add(o)
            BY <3>6, AddKeeps
        <3>7. CASE Disconnect(o)
            BY <3>7, DisconnectKeeps
        <3> QED
            BY <2>3, <3>1, <3>2, <3>3, <3>4, <3>5, <3>6, <3>7 DEF Page, Listener
    <2> QED
        BY <1>1, <2>1, <2>2, <2>3 DEF MessagingStep
<1>2. CASE \E k \in Keys : Set(k) \/ TabletSend(k)
    BY <1>2, SetKeeps, TabletSendKeeps
<1>3. CASE UNCHANGED messagingVars
    BY <1>3, MessagingSame
<1> QED
    BY <1>1, <1>2, <1>3

\* At rest nothing is on its way, so that what was written is listed, and so shown.
LEMMA ListsFollow == MessagingInv => ListsAreComplete
<1> SUFFICES ASSUME MessagingInv PROVE NothingMissed /\ ShownOnce
    BY DEF ListsAreComplete
<1>1. ASSUME NEW o \in Openings, AtRest(o), Collection(o) = o, NEW k \in Written
      PROVE  \/ Contains(openings[o].view, k) \/ k \in openings[o].missed
             \/ \E j \in openings[o].gap : items[j] = items[k]
    <2> DEFINE r == openings[o]
    <2>1. r.page = "attached" /\ r.stream = "live" /\ Elems(r.events) = {} /\ r.holding = 0 /\ k # 0
        BY <1>1, ElemsEmpty, ZeroIsNone DEF AtRest, Written
    <2>2. Contains(r.list, k) \/ k \in r.missed
        BY <1>1, <2>1 DEF MessagingInv, Heard
    <2>3. CASE Contains(r.list, k)
        <3>1. PICK j \in Elems(r.list) : items[j] = items[k]
            BY <2>3, ContainsElems
        <3>2. Contains(r.view, j) \/ \E g \in r.gap : items[g] = items[j]
            BY <1>1, <2>1 DEF MessagingInv, Heard
        <3> QED
            BY <3>1, <3>2 DEF Contains
    <2> QED
        BY <2>2, <2>3
<1>2. NothingMissed
    BY <1>1 DEF NothingMissed
<1>3. ShownOnce
    BY DEF ShownOnce, MessagingInv, Alone, Once, NoRepeat
<1> QED
    BY <1>2, <1>3

-----------------------------------------------------------------------------
(* All together *)

CommunityInv ==
    /\ FollowsInv /\ AchievementsInv /\ MessagingInv
    /\ DOMAIN thresholds \subseteq Definitions

LEMMA CommunityAtFirst == Init => CommunityInv
<1> SUFFICES ASSUME NEW s \in Scenarios, MessagingInit(s.lists, s.messaging),
                    AchievementsInit(s.definitions, s.achievements), FollowsInit(s.entry, s.follows)
             PROVE  CommunityInv
    BY DEF Init
<1>1. FollowsInv
    BY ScenariosAreStates, FollowsAtFirst
<1>2. AchievementsInv
    BY ScenariosAreStates, InvAtFirst
<1>3. MessagingInv
    BY ScenariosAreStates, MessagingAtFirst
<1>4. DOMAIN thresholds \subseteq Definitions
    BY ScenariosAreStates DEF AchievementsInit
<1> QED
    BY <1>1, <1>2, <1>3, <1>4 DEF CommunityInv

\* The definitions of the achievements are code.
LEMMA DefinitionsStay == AStep \/ UNCHANGED achievementsVars => UNCHANGED thresholds
    BY DEF AStep, AchievementsStep, Function, Viewer, ReadMetric, ReadMetrics, SetMetric, WriteCompleted,
           Subscribe, ShowCompleted, ReadCompleted, Share, Drop, FailUpdate, Count, achievementsVars

LEMMA CommunityStep == CommunityInv /\ [Next]_vars => CommunityInv'
<1> SUFFICES ASSUME CommunityInv, [Next]_vars PROVE CommunityInv'
    OBVIOUS
<1>1. {"numberOfMessages", "numberOfFollowings"} \subseteq Metrics \ {Counting}
    BY CountedAreMetrics DEF Counting
<1>2. AStep \/ UNCHANGED achievementsVars
    <2>1. CASE Messages
        BY <1>1, <2>1 DEF Messages, AStep
    <2>2. CASE Following
        BY <1>1, <2>2 DEF Following, AStep
    <2> QED
        BY <2>1, <2>2 DEF Next, MessagingAlone, AchievementsAlone, FollowsAlone, vars, AStep
<1>3. FStep \/ UNCHANGED followsVars
    BY DEF Next, Messages, Following, MessagingAlone, AchievementsAlone, FollowsAlone, vars, FStep
<1>4. MessagingStep \/ (\E k \in Keys : Set(k) \/ TabletSend(k)) \/ UNCHANGED messagingVars
    BY DEF Next, Messages, Following, MessagingAlone, AchievementsAlone, FollowsAlone, vars
<1>5. MessagingInv'
    BY <1>4, MessagingKeeps DEF CommunityInv
<1>6. AchievementsInv' /\ FollowsInv'
    BY <1>2, <1>3, InvIsKept, FollowsAreKept DEF CommunityInv
<1>7. (DOMAIN thresholds \subseteq Definitions)'
    BY <1>2, DefinitionsStay DEF CommunityInv
<1> QED
    BY <1>5, <1>6, <1>7 DEF CommunityInv

\* The invariants hold the types of their variables.
LEMMA CommunityTyped == CommunityInv => TypeOK
<1> SUFFICES ASSUME CommunityInv PROVE TypeOK
    OBVIOUS
<1>1. /\ kind \in {"messages", "conversations"} /\ pushed \subseteq Keys
      /\ items \in [Keys -> [from : {"none", "desktop", "tablet"}, id : Keys0] \cup [from : {"tablet"}, id : Texts]]
      /\ openings \in [Openings -> OpeningTypes] /\ newest \in Openings0 /\ current \in Openings0
      /\ loggedIn \in BOOLEAN /\ crashed \in BOOLEAN
    BY DEF CommunityInv, MessagingInv, MessagingTypes, Items
<1>2. /\ metrics \in [Metrics -> Nat] /\ completed \subseteq DOMAIN thresholds /\ repeated \in BOOLEAN /\ skipped \in BOOLEAN
      /\ shown \in [page : {"closed", "read", "live"}, done : SUBSET completed]
      /\ feed \in Seq(SUBSET completed)
    BY DEF CommunityInv, AchievementsInv, JobTypes, ShownTypes
<1>3. DOMAIN jobs \subseteq Jobs
    <2>1. DOMAIN jobs \subseteq AllJobs
        BY DEF CommunityInv, AchievementsInv, JobTypes, BagToSet
    <2>2. AllJobs \subseteq Jobs
        <3>1. SUBSET DOMAIN thresholds \subseteq SUBSET Definitions
            BY DEF CommunityInv
        <3> QED
            BY <3>1 DEF AllJobs, Jobs
    <2> QED
        BY <2>1, <2>2
<1>4. \A job \in DOMAIN jobs : jobs[job] > 0
    BY DEF CommunityInv, AchievementsInv, JobTypes, IsABag
<1>5. /\ entry \in [Sides -> Entries] /\ page \in [follows : BOOLEAN, loaded : BOOLEAN]
      /\ presses \in [Presses -> [stage : {"waiting", "followers", "following", "reading", "read", "done"},
                                  want : {"yes", "no"}, read : Entries]]
      /\ last \in Lists /\ disturbed \in BOOLEAN /\ hasty \in BOOLEAN
    BY DEF CommunityInv, FollowsInv, FollowTypes, Press0, FollowStages
<1>6. queue \in Seq([side : Sides, want : {"yes", "absent"}])
    <2> DEFINE Writes == [side : Sides, want : {"yes", "absent"}]
    <2>1. \A w \in {"yes", "absent"} : ToSend("followers", w) \in Writes /\ ToSend("followings", w) \in Writes
        BY DEF ToSend, Sides, Lists
    <2>2. \/ queue = <<>>
          \/ \E w \in {"yes", "absent"} : queue = <<ToSend("followers", w), ToSend("followings", w)>>
          \/ \E w \in {"yes", "absent"} : queue = <<ToSend("followings", w)>>
        BY DEF CommunityInv, FollowsInv, TabletWrites
    <2> HIDE DEF Writes
    <2>3. \A v, w \in Writes : <<>> \in Seq(Writes) /\ <<v>> \in Seq(Writes) /\ <<v, w>> \in Seq(Writes)
        OBVIOUS
    <2>4. queue \in Seq(Writes)
        BY <2>1, <2>2, <2>3
    <2> QED
        BY <2>4 DEF Writes
<1> QED
    BY <1>1, <1>2, <1>3, <1>4, <1>5, <1>6 DEF TypeOK

LEMMA CommunityInvariant == Spec => []CommunityInv
    BY CommunityAtFirst, CommunityStep, PTL DEF Spec

-----------------------------------------------------------------------------
(* What follows *)

\* A metric is never more than what happened, and at rest it is exactly that, unless
\* its increments overlapped, one was dropped or a function ran twice
\* (achievements.trigger.ts, increment).
THEOREM MetricsAreExact == Spec => []CountsAreExact
<1>1. CommunityInv => CountsAreExact
    BY InvImplies DEF CommunityInv
<1> QED
    BY CommunityInvariant, <1>1, PTL

\* Whatever increments are lost, at rest all that the metrics reach is completed and
\* shown, but after a last update that failed, and nothing is that was not earned (updateAchievements; AchievementsService.cs).
THEOREM CompletionCatchesUp == Spec => []CompletionFollowsMetrics
<1>1. CommunityInv => CompletionFollowsMetrics
    BY InvImplies DEF CommunityInv
<1> QED
    BY CommunityInvariant, <1>1, PTL

\* No definitions whatever allow an achievement for as many achievements as there are,
\* itself among them, to be completed (achievementsDefinitions.ts, achievements-2).
THEOREM OverachieverNeverCompleted == Spec => []OverachieverIsOutOfReach
<1>1. CommunityInv => OverachieverIsOutOfReach
    BY InvImplies DEF CommunityInv
<1> QED
    BY CommunityInvariant, <1>1, PTL

\* However the toggles of desktops and tablets interleave, the list of the client that
\* wrote last says what the follower's entry says when nobody writes, but for presses
\* that overlapped and toggles cut short (ProfileService.SetIsFollowingUser; UsersService.swift).
THEOREM EntriesAgree == Spec => []FollowsAgree
<1>1. CommunityInv => FollowsAgree
    BY FollowsImplies DEF CommunityInv
<1> QED
    BY CommunityInvariant, <1>1, PTL

\* However often the desktop's button is pressed, in time with the page, who stopped
\* following there does not start again (ProfileService.GetFollowersIds reads keys only).
THEOREM NeverFollowsAgain == Spec => []CannotFollowAgain
<1>1. CommunityInv => CannotFollowAgain
    BY FollowsImplies DEF CommunityInv
<1> QED
    BY CommunityInvariant, <1>1, PTL

\* What a desktop page at rest does not show of the messages or conversations was patched
\* in by a tablet, arrived before its handler was attached, or went to the collection of
\* a later opening; and a list opened once shows nothing twice (Conversation.GetMessages,
\* MessagingService.GetConversations; ChatBoxViewModel, ConversationsListViewModel).
THEOREM ListsShowAll == Spec => []ListsAreComplete
<1>1. CommunityInv => ListsAreComplete
    BY ListsFollow DEF CommunityInv
<1> QED
    BY CommunityInvariant, <1>1, PTL

\* The listening tasks hold at most one item, and no function works for a metric or an
\* achievement that is not defined (Conversation.cs, achievements.trigger.ts).
THEOREM CommunityTypes == Spec => []TypeOK
    BY CommunityInvariant, CommunityTyped, PTL
=============================================================================
