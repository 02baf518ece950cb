------------------------- MODULE DrawingSessionProofs -------------------------
(***************************************************************************)
(* What holds of the page of a drawing for any clients, strokes, openings  *)
(* and bounds: types, a page that keeps up with the node, a private drawing *)
(* that is gone from the pages of others, and locks that follow what is    *)
(* selected.  PageInv is behind the first three: types depend on it too,   *)
(* for the owner's dialog changes a copy that has to be there.  LockInv is *)
(* behind the last: it says of each client and stroke what the requests on *)
(* their way will make of the lock.                                        *)
(***************************************************************************)
EXTENDS DrawingSession, SequenceTheorems, TLAPS

\* The requests of c that are on their way.
Elements(q) == {q[i] : i \in DOMAIN q}
Sent(c) == Elements(requests[c])

-----------------------------------------------------------------------------
(* Requests *)

LEMMA Appended ==
    ASSUME NEW S, NEW q \in Seq(S), NEW r \in S
    PROVE  /\ Append(q, r) \in Seq(S)
           /\ Elements(Append(q, r)) = Elements(q) \cup {r}
<1>1. /\ Append(q, r) \in Seq(S) /\ DOMAIN Append(q, r) = DOMAIN q \cup {Len(q) + 1}
      /\ Append(q, r)[Len(q) + 1] = r /\ \A i \in DOMAIN q : Append(q, r)[i] = q[i]
    OBVIOUS
<1> QED
    BY <1>1 DEF Elements

LEMMA Without ==
    ASSUME NEW S, NEW q \in Seq(S), NEW i \in DOMAIN q
    PROVE  LET rest == SubSeq(q, 1, i - 1) \o SubSeq(q, i + 1, Len(q)) IN
           /\ rest \in Seq(S) /\ DOMAIN rest = 1..(Len(q) - 1)
           /\ \A j \in 1..(Len(q) - 1) : rest[j] = IF j < i THEN q[j] ELSE q[j + 1]
           /\ Elements(rest) \subseteq Elements(q)
           /\ Elements(q) \subseteq Elements(rest) \cup {q[i]}
<1> DEFINE a == SubSeq(q, 1, i - 1)
           b == SubSeq(q, i + 1, Len(q))
           rest == a \o b
<1>1. Len(q) \in Nat /\ DOMAIN q = 1..Len(q) /\ i \in 1..Len(q) /\ \A j \in 1..Len(q) : q[j] \in S
    OBVIOUS
<1>2. /\ a \in Seq(S) /\ Len(a) = i - 1 /\ \A j \in 1..(i - 1) : a[j] = q[j]
    <2>1. \A j \in 1..(i - 1) : q[j] \in S
        BY <1>1
    <2>2. /\ a \in Seq(S) /\ Len(a) = IF 1 <= i - 1 THEN (i - 1) - 1 + 1 ELSE 0
          /\ \A j \in 1..((i - 1) - 1 + 1) : a[j] = q[1 + j - 1]
        BY <1>1, <2>1, SubSeqProperties
    <2> QED
        BY <1>1, <2>2
<1>3. /\ b \in Seq(S) /\ Len(b) = Len(q) - i /\ \A j \in 1..(Len(q) - i) : b[j] = q[i + j]
    <2>1. \A j \in (i + 1)..Len(q) : q[j] \in S
        BY <1>1
    <2> HIDE DEF a, b
    <2>2. /\ b \in Seq(S) /\ Len(b) = IF i + 1 <= Len(q) THEN Len(q) - (i + 1) + 1 ELSE 0
          /\ \A j \in 1..(Len(q) - (i + 1) + 1) : b[j] = q[(i + 1) + j - 1]
        BY <1>1, <2>1, SubSeqProperties DEF b
    <2>3. Len(b) = Len(q) - i
        <3>1. CASE i + 1 <= Len(q)
            BY <1>1, <2>2, <3>1
        <3>2. CASE i = Len(q)
            BY <1>1, <2>2, <3>2
        <3> QED
            BY <1>1, <3>1, <3>2
    <2>4. \A j \in 1..(Len(q) - i) : j \in 1..(Len(q) - (i + 1) + 1) /\ (i + 1) + j - 1 = i + j
        BY <1>1
    <2> QED
        BY <2>2, <2>3, <2>4
<1> HIDE DEF a, b
<1>4. /\ rest \in Seq(S) /\ Len(rest) = Len(q) - 1 /\ DOMAIN rest = 1..(Len(q) - 1)
      /\ \A j \in 1..(Len(q) - 1) : rest[j] = IF j <= i - 1 THEN a[j] ELSE b[j - (i - 1)]
    <2>1. /\ rest \in Seq(S) /\ Len(rest) = Len(a) + Len(b)
          /\ \A j \in 1..(Len(a) + Len(b)) : rest[j] = IF j <= Len(a) THEN a[j] ELSE b[j - Len(a)]
        BY <1>2, <1>3, ConcatProperties
    <2>2. Len(a) + Len(b) = Len(q) - 1
        BY <1>1, <1>2, <1>3
    <2>3. DOMAIN rest = 1..Len(rest)
        BY <2>1, LenProperties
    <2> QED
        BY <1>2, <2>1, <2>2, <2>3
<1> HIDE DEF rest
<1>5. \A j \in 1..(Len(q) - 1) : rest[j] = IF j < i THEN q[j] ELSE q[j + 1]
    <2> TAKE j \in 1..(Len(q) - 1)
    <2>1. CASE j < i
        BY <1>1, <1>2, <1>4, <2>1
    <2>2. CASE ~(j < i)
        <3>1. j - (i - 1) \in 1..(Len(q) - i) /\ i + (j - (i - 1)) = j + 1 /\ ~(j <= i - 1)
            BY <1>1, <2>2
        <3> QED
            BY <1>3, <1>4, <2>2, <3>1
    <2> QED
        BY <2>1, <2>2
<1>6. \A j \in DOMAIN rest : rest[j] \in {q[k] : k \in DOMAIN q}
    BY <1>1, <1>4, <1>5
<1>7. ASSUME NEW j \in DOMAIN q, j # i PROVE q[j] \in {rest[k] : k \in DOMAIN rest}
    <2>1. CASE j < i
        BY <1>1, <1>4, <1>5, <2>1
    <2>2. CASE j > i
        <3>1. j - 1 \in DOMAIN rest /\ rest[j - 1] = q[j]
            BY <1>1, <1>4, <1>5, <2>2
        <3> QED
            BY <3>1
    <2> QED
        BY <1>1, <1>7, <2>1, <2>2
<1>8. Elements(rest) \subseteq Elements(q) /\ Elements(q) \subseteq Elements(rest) \cup {q[i]}
    BY <1>6, <1>7 DEF Elements
<1> QED
    BY <1>4, <1>5, <1>8 DEF rest, a, b

LEMMA RequestTypes ==
    ASSUME NEW o \in Openings, NEW then \in Continuations
    PROVE  /\ \A locks \in Locks, event \in Model \cup {None} :
                  PatchLocks(o, locks, then, event) \in Request
           /\ \A m \in Model \cup {None} : WriteModel(o, m, then) \in Request
<1>1. <<>> \in Locks
    <2>1. <<>> \in [{} -> Clients \cup {NoOne}]
        OBVIOUS
    <2> QED
        BY <2>1 DEF Locks
<1> QED
    BY <1>1 DEF PatchLocks, WriteModel, Request

LEMMA ReleasedTypes == \A S \in SUBSET Strokes : Released(S) \in Locks
<1> SUFFICES ASSUME NEW S \in SUBSET Strokes PROVE Released(S) \in Locks
    OBVIOUS
<1>1. Released(S) \in [S -> Clients \cup {NoOne}]
    BY DEF Released
<1> QED
    BY <1>1 DEF Locks

LEMMA SendTypes ==
    ASSUME TypeOK, NEW c \in Clients, NEW r \in Request, Send(c, r)
    PROVE  /\ requests' \in [Clients -> Seq(Request)]
           /\ Sent(c)' = Sent(c) \cup {r} /\ \A d \in Clients : d # c => Sent(d)' = Sent(d)
<1>1. requests \in [Clients -> Seq(Request)] /\ requests[c] \in Seq(Request)
    BY DEF TypeOK
<1>2. requests' = [requests EXCEPT ![c] = Append(requests[c], r)]
    BY DEF Send
<1>3. requests' \in [Clients -> Seq(Request)] /\ requests'[c] = Append(requests[c], r)
      /\ \A d \in Clients : d # c => requests'[d] = requests[d]
    BY <1>1, <1>2
<1>4. Elements(Append(requests[c], r)) = Elements(requests[c]) \cup {r}
    BY <1>1, Appended
<1> QED
    BY <1>3, <1>4 DEF Sent

LEMMA WithoutTypes ==
    ASSUME TypeOK, NEW c \in Clients, NEW i \in DOMAIN requests[c], requests' = WithoutRequest(c, i)
    PROVE  /\ requests' \in [Clients -> Seq(Request)] /\ requests[c][i] \in Request
           /\ \A d \in Clients : Sent(d)' \subseteq Sent(d) /\ (d # c => Sent(d)' = Sent(d))
           /\ Sent(c) \subseteq Sent(c)' \cup {requests[c][i]}
<1>1. requests \in [Clients -> Seq(Request)] /\ requests[c] \in Seq(Request)
    BY DEF TypeOK
<1> DEFINE rest == SubSeq(requests[c], 1, i - 1) \o SubSeq(requests[c], i + 1, Len(requests[c]))
<1>2. /\ rest \in Seq(Request)
      /\ Elements(rest) \subseteq Elements(requests[c])
      /\ Elements(requests[c]) \subseteq Elements(rest) \cup {requests[c][i]}
    BY <1>1, Without
<1>3. requests' = [requests EXCEPT ![c] = rest]
    BY DEF WithoutRequest
<1> HIDE DEF rest
<1>4. requests' \in [Clients -> Seq(Request)] /\ requests'[c] = rest
      /\ \A d \in Clients : d # c => requests'[d] = requests[d]
    BY <1>1, <1>2, <1>3
<1> QED
    BY <1>1, <1>2, <1>4 DEF Sent

LEMMA WrittenTypes == TypeOK => \A r \in Request : Written(r) \in Model
<1> SUFFICES ASSUME TypeOK, NEW r \in Request PROVE Written(r) \in Model
    OBVIOUS
<1>1. CASE r.model # None
    BY <1>1 DEF Request, Written
<1>2. CASE r.model = None
    <2>1. db \in Model /\ r.locks \in Locks
        BY DEF TypeOK, Request
    <2>2. PICK S \in SUBSET Strokes : r.locks \in [S -> Clients \cup {NoOne}]
        BY <2>1 DEF Locks
    <2>3. db.selectedStrokes \in [Strokes -> Clients \cup {NoOne}]
        BY <2>1 DEF Model
    <2>4. [s \in Strokes |-> IF s \in DOMAIN r.locks THEN r.locks[s] ELSE db.selectedStrokes[s]]
             \in [Strokes -> Clients \cup {NoOne}]
        BY <2>2, <2>3
    <2> QED
        BY <1>2, <2>1, <2>4 DEF Written, Model
<1> QED
    BY <1>1, <1>2

\* What o asks for when its selection becomes now.
LEMMA SelectionTypes ==
    \A o \in Openings, now \in SUBSET Strokes :
        PatchLocks(o, Selection(o, now), "nothing", None) \in Request
<1> SUFFICES ASSUME NEW o \in Openings, NEW now \in SUBSET Strokes
             PROVE  PatchLocks(o, Selection(o, now), "nothing", None) \in Request
    OBVIOUS
<1>1. o[1] \in Clients /\ Mine(o) \cup now \in SUBSET Strokes
    BY DEF Openings, Mine
<1>2. Selection(o, now) \in [Mine(o) \cup now -> Clients \cup {NoOne}]
    BY <1>1 DEF Selection
<1>3. Selection(o, now) \in Locks
    BY <1>1, <1>2 DEF Locks
<1> QED
    BY <1>3, RequestTypes DEF Continuations

LEMMA ChangeSelectionTypes ==
    ASSUME TypeOK, NEW o \in Openings, NEW now \in SUBSET Strokes, ChangeSelection(o, now)
    PROVE  /\ requests' \in [Clients -> Seq(Request)] /\ selected' \in [Openings -> SUBSET Strokes]
           /\ disturbed' \subseteq Strokes \X Clients
           /\ \A c \in Clients : Sent(c) \subseteq Sent(c)'
           /\ \A c \in Clients : \A r \in Sent(c)' :
                  r \in Sent(c) \/ (r.from = o /\ r.then = "nothing")
<1>1. o[1] \in Clients
    BY DEF Openings
<1>2. selected' \in [Openings -> SUBSET Strokes]
    BY DEF ChangeSelection, TypeOK
<1>3. Neglected(o, now) \subseteq Strokes
    BY DEF Neglected, TypeOK
<1>4. disturbed' \subseteq Strokes \X Clients
    BY <1>1, <1>3 DEF ChangeSelection, TypeOK
<1>5. CASE Mine(o) \cup now = {}
    <2>1. requests' = requests
        BY <1>5 DEF ChangeSelection
    <2>2. \A c \in Clients : Sent(c)' = Sent(c)
        BY <2>1 DEF Sent
    <2>3. requests' \in [Clients -> Seq(Request)]
        BY <2>1 DEF TypeOK
    <2> QED
        BY <1>2, <1>4, <2>2, <2>3
<1>6. CASE Mine(o) \cup now # {}
    <2> DEFINE r == PatchLocks(o, Selection(o, now), "nothing", None)
    <2>1. Send(o[1], r)
        BY <1>6 DEF ChangeSelection
    <2>2. r \in Request /\ r.from = o /\ r.then = "nothing"
        BY SelectionTypes DEF PatchLocks
    <2> HIDE DEF r
    <2>3. /\ requests' \in [Clients -> Seq(Request)]
          /\ Sent(o[1])' = Sent(o[1]) \cup {r} /\ \A d \in Clients : d # o[1] => Sent(d)' = Sent(d)
        BY <1>1, <2>1, <2>2, SendTypes
    <2>4. \A c \in Clients : Sent(c) \subseteq Sent(c)' /\ Sent(c)' \subseteq Sent(c) \cup {r}
        BY <1>1, <2>3
    <2>5. \A c \in Clients : \A q \in Sent(c)' : q \in Sent(c) \/ (q.from = o /\ q.then = "nothing")
        BY <2>2, <2>4
    <2> QED
        BY <1>2, <1>4, <2>3, <2>4, <2>5
<1> QED
    BY <1>5, <1>6

\* The bounds that are used up.
LEMMA LeftTypes ==
    ASSUME left \in Bounds
    PROVE
    /\ \A c \in Clients : left.opens[c] > 0 => [left EXCEPT !.opens[c] = @ - 1] \in Bounds
    /\ \A c \in Clients : left.selects[c] > 0 => [left EXCEPT !.selects[c] = @ - 1] \in Bounds
    /\ \A c \in Clients : left.resizes[c] > 0 => [left EXCEPT !.resizes[c] = @ - 1] \in Bounds
    /\ \A c \in Clients : left.backs[c] > 0 => [left EXCEPT !.backs[c] = @ - 1] \in Bounds
    /\ left.configures > 0 => [left EXCEPT !.configures = @ - 1] \in Bounds
    /\ left.failures > 0 => [left EXCEPT !.failures = @ - 1] \in Bounds
<1>1. \A c \in Clients : left.opens[c] > 0 => [left EXCEPT !.opens[c] = @ - 1] \in Bounds
    <2> SUFFICES ASSUME NEW c \in Clients, left.opens[c] > 0
                 PROVE  [left EXCEPT !.opens[c] = @ - 1] \in Bounds
        OBVIOUS
    <2>1. [left.opens EXCEPT ![c] = @ - 1] \in [Clients -> 0..MaxOpens]
        BY BoundsAssumption DEF Bounds
    <2> QED
        BY <2>1 DEF Bounds
<1>2. \A c \in Clients : left.selects[c] > 0 => [left EXCEPT !.selects[c] = @ - 1] \in Bounds
    BY DEF Bounds
<1>3. \A c \in Clients : left.resizes[c] > 0 => [left EXCEPT !.resizes[c] = @ - 1] \in Bounds
    BY DEF Bounds
<1>4. \A c \in Clients : left.backs[c] > 0 => [left EXCEPT !.backs[c] = @ - 1] \in Bounds
    BY DEF Bounds
<1>5. left.configures > 0 => [left EXCEPT !.configures = @ - 1] \in Bounds
    BY DEF Bounds
<1>6. left.failures > 0 => [left EXCEPT !.failures = @ - 1] \in Bounds
    BY DEF Bounds
<1> QED
    BY <1>1, <1>2, <1>3, <1>4, <1>5, <1>6

\* RemoveSelection, wherever it happens.
LEMMA RemoveTypes ==
    ASSUME TypeOK, NEW o \in Openings, NEW then \in Continuations, NEW event \in Model \cup {None},
           RemoveSelection(o, then, event)
    PROVE  /\ requests' \in [Clients -> Seq(Request)]
           /\ \E r \in Request :
                /\ r.from = o /\ r.then = then /\ r.event = event
                /\ Sent(o[1])' = Sent(o[1]) \cup {r}
                /\ \A d \in Clients : d # o[1] => Sent(d)' = Sent(d)
<1> DEFINE r == PatchLocks(o, Released(selected[o]), then, event)
<1>1. o[1] \in Clients /\ selected[o] \in SUBSET Strokes
    BY DEF Openings, TypeOK
<1>2. r \in Request /\ r.from = o /\ r.then = then /\ r.event = event
    BY <1>1, RequestTypes, ReleasedTypes DEF PatchLocks
<1>3. Send(o[1], r)
    BY DEF RemoveSelection
<1> HIDE DEF r
<1> QED
    BY <1>1, <1>2, <1>3, SendTypes

\* A write of the whole model, wherever it happens.
LEMMA WriteTypes ==
    ASSUME TypeOK, NEW c \in Clients, NEW o \in Openings, NEW m \in Model \cup {None},
           NEW then \in Continuations, Send(c, WriteModel(o, m, then))
    PROVE  /\ requests' \in [Clients -> Seq(Request)]
           /\ \E r \in Request :
                /\ r.from = o /\ r.then = then /\ r.model = m
                /\ Sent(c)' = Sent(c) \cup {r}
                /\ \A d \in Clients : d # c => Sent(d)' = Sent(d)
<1> DEFINE r == WriteModel(o, m, then)
<1>1. r \in Request /\ r.from = o /\ r.then = then /\ r.model = m
    BY RequestTypes DEF WriteModel
<1>2. Send(c, r)
    OBVIOUS
<1> HIDE DEF r
<1> QED
    BY <1>1, <1>2, SendTypes

LEMMA GetDrawingTypes == TypeOK /\ (\E o \in Openings : GetDrawing(o)) => TypeOK'
<1> SUFFICES ASSUME TypeOK, NEW o \in Openings, GetDrawing(o) PROVE TypeOK'
    OBVIOUS
<1>1. o[1] \in Clients /\ db \in Model
    BY DEF Openings, TypeOK
<1>2. requests' \in [Clients -> Seq(Request)]
    <2>1. Send(o[1], WriteModel(o, db, "subscribe"))
        BY DEF GetDrawing, ToggleSync
    <2> QED
        BY <1>1, <2>1, WriteTypes DEF Continuations
<1>3. left' \in Bounds
    BY <1>1, LeftTypes DEF GetDrawing, TypeOK
<1>4. page' \in [Clients -> Openings \cup {None}] /\ view' \in [Openings -> ViewStates]
    BY <1>1 DEF GetDrawing, SelectDrawing, TypeOK, ViewStates
<1>5. model' \in [Openings -> Model \cup {None}]
    BY <1>1 DEF GetDrawing, TypeOK
<1> QED
    BY <1>2, <1>3, <1>4, <1>5 DEF GetDrawing, TypeOK, streamVars, historyVars

LEMMA PromptTypes ==
    TypeOK /\ (\E o \in Openings : EnterPassword(o) \/ DismissPrompt(o) \/ BindEvents(o)) => TypeOK'
<1> SUFFICES ASSUME TypeOK, NEW o \in Openings,
                    EnterPassword(o) \/ DismissPrompt(o) \/ BindEvents(o)
             PROVE  TypeOK'
    OBVIOUS
<1>1. o[1] \in Clients
    BY DEF Openings
<1>2. page' \in [Clients -> Openings \cup {None}] /\ view' \in [Openings -> ViewStates]
    <2>1. CASE EnterPassword(o)
        BY <1>1, <2>1 DEF EnterPassword, TypeOK, ViewStates
    <2>2. CASE DismissPrompt(o)
        BY <2>2 DEF DismissPrompt, TypeOK, ViewStates
    <2>3. CASE BindEvents(o)
        BY <2>3 DEF BindEvents, TypeOK, ViewStates
    <2> QED
        BY <2>1, <2>2, <2>3
<1>3. UNCHANGED <<db, requests, answered, model, selected, stream, feed, left, missed, disturbed>>
    <2>1. CASE EnterPassword(o)
        BY <2>1 DEF EnterPassword, nodeVars, streamVars, historyVars
    <2>2. CASE DismissPrompt(o)
        BY <2>2 DEF DismissPrompt, nodeVars, streamVars, historyVars
    <2>3. CASE BindEvents(o)
        BY <2>3 DEF BindEvents, nodeVars, streamVars, historyVars
    <2> QED
        BY <2>1, <2>2, <2>3
<1> QED
    BY <1>2, <1>3 DEF TypeOK

LEMMA StreamTypes ==
    TypeOK /\ (\E o \in Openings : Subscribe(o) \/ Connect(o) \/ EndStream(o)) => TypeOK'
<1> SUFFICES ASSUME TypeOK, NEW o \in Openings, Subscribe(o) \/ Connect(o) \/ EndStream(o)
             PROVE  TypeOK'
    OBVIOUS
<1>1. <<>> \in Seq(Model) /\ <<db>> \in Seq(Model)
    BY DEF TypeOK
<1>2. /\ stream' \in [Openings -> StreamStates] /\ feed' \in [Openings -> Seq(Model)]
      /\ answered' \subseteq Request
    BY <1>1 DEF Subscribe, Connect, EndStream, TypeOK, StreamStates, nodeVars
<1> QED
    BY <1>2 DEF Subscribe, Connect, EndStream, TypeOK, nodeVars, clientVars, historyVars

LEMMA WorkTypes ==
    TypeOK /\ (\E c \in Clients : OnSelectionChanged(c) \/ SaveDimensions(c) \/ GoBack(c))
        => TypeOK'
<1> SUFFICES ASSUME TypeOK, NEW c \in Clients,
                    OnSelectionChanged(c) \/ SaveDimensions(c) \/ GoBack(c)
             PROVE  TypeOK'
    OBVIOUS
<1>1. CASE OnSelectionChanged(c)
    <2>1. PICK o \in Openings, strokes \in SUBSET Strokes :
              ChangeSelection(o, {s \in strokes : ~IsSelectedByOtherUser(o, s)})
        BY <1>1 DEF OnSelectionChanged
    <2>2. {s \in strokes : ~IsSelectedByOtherUser(o, s)} \in SUBSET Strokes
        BY <2>1
    <2>3. /\ requests' \in [Clients -> Seq(Request)] /\ selected' \in [Openings -> SUBSET Strokes]
          /\ disturbed' \subseteq Strokes \X Clients
        BY <2>1, <2>2, ChangeSelectionTypes
    <2>4. left' \in Bounds
        BY <1>1, LeftTypes DEF OnSelectionChanged, TypeOK
    <2> QED
        BY <1>1, <2>3, <2>4 DEF OnSelectionChanged, TypeOK, streamVars
<1>2. CASE SaveDimensions(c)
    <2>1. PICK o \in Openings : Send(c, WriteModel(o, model[o], "nothing")) /\ IsWorking(c, o)
        BY <1>2 DEF SaveDimensions
    <2>2. requests' \in [Clients -> Seq(Request)]
        <3>1. model[o] \in Model \cup {None}
            BY DEF TypeOK
        <3> QED
            BY <2>1, <3>1, WriteTypes DEF Continuations
    <2>3. left' \in Bounds
        BY <1>2, LeftTypes DEF SaveDimensions, TypeOK
    <2> QED
        BY <1>2, <2>2, <2>3 DEF SaveDimensions, TypeOK, clientVars, streamVars, historyVars
<1>3. CASE GoBack(c)
    <2>1. PICK o \in Openings :
              /\ left.backs[c] > 0 /\ left' = [left EXCEPT !.backs[c] = @ - 1]
              /\ RemoveSelection(o, "leave", None)
              /\ stream' = [stream EXCEPT ![o] = CASE @ = "live" -> "stopping"
                                                   [] @ = "connecting" -> "ended"
                                                   [] OTHER -> @]
              /\ UNCHANGED <<db, answered, page, view, model, selected, feed, missed, disturbed>>
        BY <1>3 DEF GoBack, clientVars, historyVars
    <2>2. requests' \in [Clients -> Seq(Request)]
        BY <2>1, RemoveTypes DEF Continuations
    <2>3. left' \in Bounds
        BY <2>1, LeftTypes DEF TypeOK
    <2>4. stream' \in [Openings -> StreamStates]
        <3> DEFINE x == CASE stream[o] = "live" -> "stopping"
                          [] stream[o] = "connecting" -> "ended"
                          [] OTHER -> stream[o]
        <3>1. stream' = [stream EXCEPT ![o] = x] /\ x \in {"stopping", "ended", stream[o]}
            <4>1. CASE stream[o] = "live"
                BY <2>1, <4>1
            <4>2. CASE stream[o] = "connecting"
                BY <2>1, <4>2
            <4>3. CASE stream[o] \notin {"live", "connecting"}
                BY <2>1, <4>3, Zenon
            <4> QED
                BY <4>1, <4>2, <4>3
        <3> HIDE DEF x
        <3> QED
            BY <3>1 DEF TypeOK, StreamStates
    <2> QED
        BY <2>1, <2>2, <2>3, <2>4 DEF TypeOK
<1> QED
    BY <1>1, <1>2, <1>3

\* What the owner's dialog makes of the copy.
Configured(o, setting) ==
    [model[o] EXCEPT !.isPublic = setting[1], !.isProtected = setting[2]]

\* A copy that is changed is there: a fact about TypeOK alone would not do.
LEMMA UpdateSettingsTypes ==
    ASSUME TypeOK, NEW setting \in Setting, NEW o \in Openings,
           model[o] \in Model, Owner \in Clients,
           model' = [model EXCEPT ![o] = Configured(o, setting)],
           Send(Owner, WriteModel(o, Configured(o, setting), "nothing")),
           left.configures > 0 /\ left' = [left EXCEPT !.configures = @ - 1],
           UNCHANGED <<db, answered, page, view, selected, stream, feed, missed, disturbed>>
    PROVE  TypeOK'
<1>1. Configured(o, setting) \in Model
    BY DEF Configured, Model, Setting
<1>2. requests' \in [Clients -> Seq(Request)]
    BY <1>1, WriteTypes DEF Continuations
<1>3. left' \in Bounds
    BY LeftTypes DEF TypeOK
<1>4. model' \in [Openings -> Model \cup {None}]
    BY <1>1 DEF TypeOK
<1> QED
    BY <1>2, <1>3, <1>4 DEF TypeOK

LEMMA SyncTypes == TypeOK /\ (\E o \in Openings : SyncRemoteAttributesToLocal(o)) => TypeOK'
<1> SUFFICES ASSUME TypeOK, NEW o \in Openings, SyncRemoteAttributesToLocal(o) PROVE TypeOK'
    OBVIOUS
<1> DEFINE m == Head(feed[o])
<1>1. feed[o] \in Seq(Model) /\ feed[o] # <<>>
    BY DEF SyncRemoteAttributesToLocal, TypeOK
<1>2. m \in Model /\ Tail(feed[o]) \in Seq(Model) /\ <<>> \in Seq(Model)
    BY <1>1, HeadTailProperties, EmptySeq
<1>3. /\ IF stream[o] = "stopping"
         THEN stream' = [stream EXCEPT ![o] = "ended"] /\ feed' = [feed EXCEPT ![o] = <<>>]
         ELSE feed' = [feed EXCEPT ![o] = Tail(@)] /\ UNCHANGED stream
      /\ IF Excludes(o, m)
         THEN RemoveSelection(o, "kick", m) /\ UNCHANGED model
         ELSE model' = [model EXCEPT ![o] = m] /\ UNCHANGED requests
      /\ UNCHANGED <<db, answered, page, view, selected, left, missed, disturbed>>
    BY DEF SyncRemoteAttributesToLocal, historyVars
<1> HIDE DEF m
<1>4. stream' \in [Openings -> StreamStates] /\ feed' \in [Openings -> Seq(Model)]
    BY <1>2, <1>3 DEF TypeOK, StreamStates
<1>5. requests' \in [Clients -> Seq(Request)] /\ model' \in [Openings -> Model \cup {None}]
    <2>1. CASE Excludes(o, m)
        BY <1>2, <1>3, <2>1, RemoveTypes DEF TypeOK, Continuations
    <2>2. CASE ~Excludes(o, m)
        BY <1>2, <1>3, <2>2 DEF TypeOK
    <2> QED
        BY <2>1, <2>2
<1> QED
    BY <1>3, <1>4, <1>5 DEF TypeOK

LEMMA ContinueKickTypes == TypeOK /\ (\E o \in Openings : ContinueKick(o)) => TypeOK'
<1> SUFFICES ASSUME TypeOK, NEW o \in Openings, ContinueKick(o) PROVE TypeOK'
    OBVIOUS
<1> DEFINE c == o[1]
           p == page[c]
<1>1. PICK r \in answered :
          /\ answered' = answered \ {r}
          /\ model' = [model EXCEPT ![o] = r.event]
          /\ IF view[o] = "bound"
             THEN /\ page' = [page EXCEPT ![c] = None]
                  /\ disturbed' = disturbed \cup
                       IF p \notin {None, o} THEN selected[p] \X {c} ELSE {}
                  /\ UNCHANGED missed
             ELSE missed' = missed \cup {o} /\ UNCHANGED <<page, disturbed>>
          /\ UNCHANGED <<db, requests, view, selected, stream, feed, left>>
    BY DEF ContinueKick, streamVars
<1>2. c \in Clients /\ p \in Openings \cup {None} /\ r \in Request /\ r.event \in Model \cup {None}
    BY <1>1 DEF TypeOK, Openings, Request
<1> HIDE DEF c, p
<1>3. model' \in [Openings -> Model \cup {None}] /\ answered' \subseteq Request
    BY <1>1, <1>2 DEF TypeOK
<1>4. CASE view[o] = "bound"
    <2>1. page' \in [Clients -> Openings \cup {None}]
        BY <1>1, <1>2, <1>4 DEF TypeOK
    <2>2. p \notin {None, o} => selected[p] \subseteq Strokes
        BY <1>2 DEF TypeOK
    <2>3. disturbed' \subseteq Strokes \X Clients
        BY <1>1, <1>2, <1>4, <2>2 DEF TypeOK
    <2> QED
        BY <1>1, <1>3, <1>4, <2>1, <2>3 DEF TypeOK
<1>5. CASE view[o] # "bound"
    BY <1>1, <1>3, <1>5 DEF TypeOK
<1> QED
    BY <1>4, <1>5

LEMMA ContinueGoBackTypes == TypeOK /\ (\E o \in Openings : ContinueGoBack(o)) => TypeOK'
<1> SUFFICES ASSUME TypeOK, NEW o \in Openings, ContinueGoBack(o) PROVE TypeOK'
    OBVIOUS
<1> DEFINE c == o[1]
           p == page[c]
<1>1. PICK r \in answered :
          /\ answered' = answered \ {r}
          /\ page' = [page EXCEPT ![c] = None]
          /\ IF p # None /\ view[p] = "bound" /\ selected[p] # {}
             THEN ChangeSelection(p, {})
             ELSE UNCHANGED <<selected, requests, disturbed>>
          /\ UNCHANGED <<db, view, model, stream, feed, left, missed>>
    BY DEF ContinueGoBack, streamVars
<1>2. c \in Clients /\ p \in Openings \cup {None}
    BY DEF TypeOK, Openings
<1> HIDE DEF c, p
<1>3. page' \in [Clients -> Openings \cup {None}] /\ answered' \subseteq Request
    BY <1>1, <1>2 DEF TypeOK
<1>4. /\ requests' \in [Clients -> Seq(Request)] /\ selected' \in [Openings -> SUBSET Strokes]
      /\ disturbed' \subseteq Strokes \X Clients
    <2>1. CASE p # None /\ view[p] = "bound" /\ selected[p] # {}
        BY <1>1, <1>2, <2>1, ChangeSelectionTypes
    <2>2. CASE ~(p # None /\ view[p] = "bound" /\ selected[p] # {})
        BY <1>1, <2>2 DEF TypeOK
    <2> QED
        BY <2>1, <2>2
<1> QED
    BY <1>1, <1>3, <1>4 DEF TypeOK

LEMMA ApplyTypes == TypeOK /\ (\E c \in Clients : ApplyRequest(c)) => TypeOK'
<1> SUFFICES ASSUME TypeOK, NEW c \in Clients, ApplyRequest(c) PROVE TypeOK'
    OBVIOUS
<1>1. PICK i \in DOMAIN requests[c] :
          LET r == requests[c][i] IN
          /\ db' = Written(r)
          /\ feed' = [o \in Openings |->
                        IF stream[o] \in {"live", "stopping"} /\ db' # db
                        THEN Append(feed[o], db') ELSE feed[o]]
          /\ requests' = WithoutRequest(c, i)
          /\ answered' = IF r.then = "nothing" \/ view[r.from] = "dead" THEN answered
                         ELSE answered \cup {r}
          /\ disturbed' = disturbed \cup Overruled(c, i)
          /\ UNCHANGED <<page, view, model, selected, stream, left, missed>>
    BY DEF ApplyRequest, clientVars
<1>2. requests' \in [Clients -> Seq(Request)] /\ requests[c][i] \in Request
    BY <1>1, WithoutTypes
<1>3. db' \in Model
    BY <1>1, <1>2, WrittenTypes
<1>4. \A o \in Openings : feed[o] \in Seq(Model) /\ Append(feed[o], db') \in Seq(Model)
    BY <1>3, AppendProperties DEF TypeOK
<1>5. feed' \in [Openings -> Seq(Model)]
    BY <1>1, <1>4
<1>6. Overruled(c, i) \subseteq Strokes \X Clients
    BY DEF Overruled
<1>7. answered' \subseteq Request /\ disturbed' \subseteq Strokes \X Clients
    BY <1>1, <1>2, <1>6 DEF TypeOK
<1> QED
    BY <1>1, <1>2, <1>3, <1>5, <1>7 DEF TypeOK

LEMMA EndProcessTypes ==
    ASSUME TypeOK, NEW c \in Clients, EndProcess(c)
    PROVE  /\ page' \in [Clients -> Openings \cup {None}] /\ view' \in [Openings -> ViewStates]
           /\ stream' \in [Openings -> StreamStates] /\ feed' \in [Openings -> Seq(Model)]
           /\ answered' \subseteq Request /\ disturbed' \subseteq Strokes \X Clients
<1> DEFINE of == {o \in Openings : o[1] = c /\ view[o] # "unused"}
<1>1. /\ page' = [page EXCEPT ![c] = None]
      /\ view' = [o \in Openings |-> IF o \in of THEN "dead" ELSE view[o]]
      /\ stream' = [o \in Openings |-> IF o \in of THEN "ended" ELSE stream[o]]
      /\ feed' = [o \in Openings |-> IF o \in of THEN <<>> ELSE feed[o]]
      /\ answered' = {r \in answered : r.from \notin of}
      /\ disturbed' = disturbed \cup (Strokes \X {c})
    BY DEF EndProcess
<1>2. <<>> \in Seq(Model)
    BY EmptySeq
<1> HIDE DEF of
<1> QED
    BY <1>1, <1>2 DEF TypeOK, ViewStates, StreamStates

LEMMA FailTypes ==
    /\ TypeOK /\ (\E c \in Clients : FailRequest(c)) => TypeOK'
    /\ TypeOK /\ (\E o \in Openings : FailBinding(o)) => TypeOK'
<1>1. ASSUME TypeOK, NEW c \in Clients, FailRequest(c) PROVE TypeOK'
    <2>1. PICK i \in DOMAIN requests[c] :
            /\ requests' = WithoutRequest(c, i)
            /\ IF view[requests[c][i].from] = "dead"
               THEN UNCHANGED <<page, view, stream, feed, answered, disturbed>>
               ELSE EndProcess(c)
        BY <1>1 DEF FailRequest, streamVars
    <2>2. requests' \in [Clients -> Seq(Request)]
        BY <1>1, <2>1, WithoutTypes
    <2>3. /\ page' \in [Clients -> Openings \cup {None}] /\ view' \in [Openings -> ViewStates]
          /\ stream' \in [Openings -> StreamStates] /\ feed' \in [Openings -> Seq(Model)]
          /\ answered' \subseteq Request /\ disturbed' \subseteq Strokes \X Clients
        BY <1>1, <2>1, EndProcessTypes DEF TypeOK
    <2>4. left' \in Bounds
        BY <1>1, LeftTypes DEF FailRequest, Fail, TypeOK
    <2>5. UNCHANGED <<db, model, selected, missed>>
        BY <1>1 DEF FailRequest
    <2> QED
        BY <1>1, <2>2, <2>3, <2>4, <2>5 DEF TypeOK
<1>2. ASSUME TypeOK, NEW o \in Openings, FailBinding(o) PROVE TypeOK'
    <2>1. o[1] \in Clients
        BY DEF Openings
    <2>2. /\ page' \in [Clients -> Openings \cup {None}] /\ view' \in [Openings -> ViewStates]
          /\ stream' \in [Openings -> StreamStates] /\ feed' \in [Openings -> Seq(Model)]
          /\ answered' \subseteq Request /\ disturbed' \subseteq Strokes \X Clients
        BY <1>2, <2>1, EndProcessTypes DEF FailBinding
    <2>3. left' \in Bounds
        BY <1>2, LeftTypes DEF FailBinding, Fail, TypeOK
    <2>4. UNCHANGED <<db, requests, model, selected, missed>>
        BY <1>2 DEF FailBinding
    <2> QED
        BY <1>2, <2>2, <2>3, <2>4 DEF TypeOK
<1> QED
    BY <1>1, <1>2

LEMMA InitTypes == Init => TypeOK
<1> SUFFICES ASSUME Init PROVE TypeOK
    OBVIOUS
<1>1. PICK s \in Scenarios :
        /\ db = [isPublic |-> s.initial[1], isProtected |-> s.initial[2],
                 selectedStrokes |-> [x \in Strokes |-> NoOne]]
        /\ left = s.bounds
    BY DEF Init
<1>2. s.initial[1] \in BOOLEAN /\ s.initial[2] \in BOOLEAN /\ s.bounds \in Bounds
    BY ScenariosAssumption DEF Scenario, Setting
<1>3. db \in Model /\ left \in Bounds
    BY <1>1, <1>2 DEF Model
<1>4. <<>> \in Seq(Request) /\ <<>> \in Seq(Model)
    BY EmptySeq
<1>5. /\ requests = [c \in Clients |-> <<>>]
      /\ answered = {}
      /\ page = [c \in Clients |-> None]
      /\ view = [o \in Openings |-> "unused"]
      /\ model = [o \in Openings |-> None]
      /\ selected = [o \in Openings |-> {}]
      /\ stream = [o \in Openings |-> "none"]
      /\ feed = [o \in Openings |-> <<>>]
      /\ missed = {}
      /\ disturbed = {}
    BY DEF Init
<1> QED
    BY <1>3, <1>4, <1>5 DEF TypeOK, ViewStates, StreamStates

-----------------------------------------------------------------------------
(* The invariant of pages *)

\* The page shows o, or will when the password is entered.
Active(o) == view[o] = "prompt" \/ page[o[1]] = o

OnPage == \A c \in Clients :
    page[c] # None => page[c][1] = c /\ view[page[c]] \in {"shown", "bound"}

\* What has begun has a model, and what has not has no subscription.
Begun == \A o \in Openings :
    IF view[o] = "unused" THEN stream[o] = "none" ELSE model[o] # None

\* Requests are those of openings, and a kick brings its event along.
FromBegun == \A c \in Clients : \A r \in answered \cup Sent(c) :
    view[r.from] # "unused" /\ (r.then = "kick" => r.event # None)

\* An active opening will subscribe, or has, or is about to be left.
Streaming == \A o \in Openings : Active(o) =>
    /\ stream[o] = "none" => Awaits(o, "subscribe")
    /\ stream[o] \in {"stopping", "ended"} => view[o] # "prompt" /\ Awaits(o, "leave")

\* The last event tells what the node is; after it, only a change of the
\* opening's own makes the copy differ, and that one is on its way.
UpToDate(o) ==
    IF feed[o] # <<>> THEN feed[o][Len(feed[o])] = db
    ELSE model[o] = db \/ \E r \in Sent(o[1]) : r.from = o /\ r.model = model[o]

Told == \A o \in Openings :
    Active(o) /\ stream[o] = "live" => o \in missed \/ Awaits(o, "kick") \/ UpToDate(o)

\* Whose copy is of a private drawing has left, or missed KickedOut.
PrivateGone == \A o \in Openings :
    o[1] # Owner /\ model[o] # None =>
        model[o].isPublic \/ o \in missed \/ (view[o] \in {"bound", "dead"} /\ page[o[1]] # o)

PageInv == OnPage /\ Begun /\ FromBegun /\ Streaming /\ Told /\ PrivateGone

LEMMA AwaitsMeans ==
    \A o \in Openings, then \in Continuations :
        /\ Awaits(o, then) <=> \E r \in answered \cup Sent(o[1]) : r.from = o /\ r.then = then
        /\ Awaits(o, then)' <=> \E r \in answered' \cup Sent(o[1])' : r.from = o /\ r.then = then
    BY DEF Awaits, Sent, Elements

\* Nobody stops to wait if the requests he waits for are still there.
LEMMA AwaitsKeeps ==
    ASSUME NEW o \in Openings, NEW then \in Continuations,
           \A r \in answered \cup Sent(o[1]) :
               r.from = o /\ r.then = then => r \in answered' \cup Sent(o[1])'
    PROVE  Awaits(o, then) => Awaits(o, then)'
    BY AwaitsMeans

\* Steps that only send requests of openings that have begun.
LEMMA SendingKeeps ==
    ASSUME TypeOK, PageInv,
           UNCHANGED <<db, answered, page, view, model, stream, feed, missed>>,
           \A c \in Clients : Sent(c) \subseteq Sent(c)',
           FromBegun'
    PROVE  PageInv'
<1>1. OnPage' /\ Begun' /\ PrivateGone'
    BY DEF PageInv, OnPage, Begun, PrivateGone
<1>2. \A o \in Openings : o[1] \in Clients
    BY DEF Openings
<1>3. \A o \in Openings, then \in Continuations : Awaits(o, then) => Awaits(o, then)'
    BY <1>2, AwaitsKeeps
<1>4. \A o \in Openings : Active(o)' <=> Active(o)
    BY DEF Active
<1>5. \A o \in Openings : UpToDate(o) => UpToDate(o)'
    BY <1>2 DEF UpToDate
<1>6. Streaming'
    BY <1>3, <1>4 DEF PageInv, Streaming, Continuations
<1>7. Told'
    BY <1>3, <1>4, <1>5 DEF PageInv, Told, Continuations
<1> QED
    BY <1>1, <1>6, <1>7 DEF PageInv

LEMMA SentTypes == TypeOK => \A c \in Clients : Sent(c) \subseteq Request
    BY ElementOfSeq, LenProperties DEF TypeOK, Sent, Elements

\* What is on a page or asks for a password has begun and is no other client's.
LEMMA ActiveHasBegun ==
    ASSUME TypeOK, PageInv, NEW o \in Openings, Active(o)
    PROVE  view[o] \in {"prompt", "shown", "bound"} /\ model[o] \in Model
<1>1. o[1] \in Clients /\ o # None
    BY SentinelAssumption DEF Openings
<1>2. view[o] \in {"prompt", "shown", "bound"}
    BY <1>1 DEF Active, PageInv, OnPage
<1> QED
    BY <1>2 DEF PageInv, Begun, TypeOK

LEMMA GetDrawingKeeps ==
    ASSUME TypeOK, PageInv, NEW o \in Openings, GetDrawing(o)
    PROVE  PageInv'
<1> DEFINE c == o[1]
<1>1. c \in Clients /\ db \in Model /\ db # None /\ o # None /\ \A p \in Openings : p[1] \in Clients
    BY SentinelAssumption DEF Openings, TypeOK
<1>2. PICK r \in Request :
          /\ r.from = o /\ r.then = "subscribe" /\ r.model = db
          /\ Sent(c)' = Sent(c) \cup {r} /\ \A d \in Clients : d # c => Sent(d)' = Sent(d)
    <2>1. Send(o[1], WriteModel(o, db, "subscribe"))
        BY DEF GetDrawing, ToggleSync
    <2> QED
        BY <1>1, <2>1, WriteTypes DEF Continuations
<1>3. /\ view[o] = "unused" /\ page[c] = None /\ (db.isPublic \/ c = Owner)
      /\ model' = [model EXCEPT ![o] = db]
      /\ UNCHANGED <<db, answered, stream, feed, missed>>
    BY DEF GetDrawing, streamVars, historyVars
<1>4. \/ view' = [view EXCEPT ![o] = "prompt"] /\ page' = page
      \/ view' = [view EXCEPT ![o] = "shown"] /\ page' = [page EXCEPT ![c] = o]
    BY DEF GetDrawing, SelectDrawing
<1> HIDE DEF c
<1>5. stream[o] = "none"
    BY <1>3 DEF PageInv, Begun
<1>6. /\ view'[o] \in {"prompt", "shown"} /\ \A p \in Openings : p # o => view'[p] = view[p]
      /\ model'[o] = db /\ \A p \in Openings : p # o => model'[p] = model[p]
      /\ \A d \in Clients : page'[d] = page[d] \/ (d = c /\ page'[d] = o /\ view'[o] = "shown")
    BY <1>1, <1>3, <1>4 DEF TypeOK
<1>7. OnPage'
    <2> SUFFICES ASSUME NEW d \in Clients, page'[d] # None
                 PROVE  page'[d][1] = d /\ view'[page'[d]] \in {"shown", "bound"}
        BY DEF OnPage
    <2>1. CASE page'[d] = page[d]
        <3>1. page[d][1] = d /\ view[page[d]] \in {"shown", "bound"} /\ page[d] \in Openings
            BY <2>1 DEF PageInv, OnPage, TypeOK
        <3>2. page[d] # o
            BY <1>3, <3>1
        <3> QED
            BY <1>6, <2>1, <3>1, <3>2
    <2>2. CASE d = c /\ page'[d] = o /\ view'[o] = "shown"
        BY <2>2 DEF c
    <2> QED
        BY <1>6, <2>1, <2>2
<1>8. Begun'
    BY <1>1, <1>3, <1>5, <1>6 DEF PageInv, Begun
<1>9. FromBegun'
    <2> SUFFICES ASSUME NEW d \in Clients, NEW q \in answered' \cup Sent(d)'
                 PROVE  view'[q.from] # "unused" /\ (q.then = "kick" => q.event # None)
        BY DEF FromBegun
    <2>1. CASE q \in answered \cup Sent(d)
        <3>1. q.from \in Openings /\ view[q.from] # "unused" /\ (q.then = "kick" => q.event # None)
            BY <2>1, SentTypes DEF PageInv, FromBegun, TypeOK, Request
        <3> QED
            BY <1>3, <1>6, <3>1
    <2>2. CASE q = r
        BY <1>2, <1>6, <2>2
    <2> QED
        BY <1>2, <1>3, <2>1, <2>2
<1>10. \A p \in Openings, then \in Continuations : Awaits(p, then) => Awaits(p, then)'
    BY <1>1, <1>2, <1>3, AwaitsKeeps
<1>11. \A p \in Openings : p # o /\ Active(p)' => Active(p)
    BY <1>1, <1>6 DEF Active
<1>12. Streaming'
    <2> SUFFICES ASSUME NEW p \in Openings, Active(p)'
                 PROVE  /\ stream'[p] = "none" => Awaits(p, "subscribe")'
                        /\ stream'[p] \in {"stopping", "ended"} =>
                               view'[p] # "prompt" /\ Awaits(p, "leave")'
        BY DEF Streaming
    <2>1. CASE p = o
        <3>1. Awaits(o, "subscribe")'
            BY <1>2, AwaitsMeans DEF Continuations, c
        <3> QED
            BY <1>3, <1>5, <2>1, <3>1
    <2>2. CASE p # o
        BY <1>3, <1>6, <1>10, <1>11, <2>2 DEF PageInv, Streaming, Continuations
    <2> QED
        BY <2>1, <2>2
<1>13. Told'
    <2> SUFFICES ASSUME NEW p \in Openings, Active(p)', stream'[p] = "live"
                 PROVE  p \in missed' \/ Awaits(p, "kick")' \/ UpToDate(p)'
        BY DEF Told
    <2>1. p # o /\ Active(p) /\ p[1] \in Clients
        BY <1>1, <1>3, <1>5, <1>11
    <2>2. UpToDate(p) => UpToDate(p)'
        BY <1>2, <1>3, <1>6, <2>1 DEF UpToDate
    <2> QED
        BY <1>3, <1>10, <2>1, <2>2 DEF PageInv, Told, Continuations
<1>14. PrivateGone'
    <2> SUFFICES ASSUME NEW p \in Openings, p[1] # Owner, model'[p] # None
                 PROVE  model'[p].isPublic \/ p \in missed'
                        \/ (view'[p] \in {"bound", "dead"} /\ page'[p[1]] # p)
        BY DEF PrivateGone
    <2>1. CASE p = o
        BY <1>3, <1>6, <2>1 DEF c
    <2>2. CASE p # o
        BY <1>1, <1>3, <1>6, <2>2 DEF PageInv, PrivateGone
    <2> QED
        BY <2>1, <2>2
<1> QED
    BY <1>7, <1>8, <1>9, <1>12, <1>13, <1>14 DEF PageInv

\* Steps of the page alone: nothing becomes active, begins or asks again.
LEMMA PageStepKeeps ==
    ASSUME TypeOK, PageInv,
           UNCHANGED <<db, requests, answered, model, stream, feed, missed>>,
           \A p \in Openings :
               /\ Active(p)' => Active(p)
               /\ view'[p] = "unused" <=> view[p] = "unused"
               /\ view'[p] = "prompt" => view[p] = "prompt",
           OnPage', PrivateGone'
    PROVE  PageInv'
<1>1. Begun'
    BY DEF PageInv, Begun
<1>2. \A c \in Clients : Sent(c)' = Sent(c)
    BY DEF Sent
<1>3. \A c \in Clients : \A r \in answered \cup Sent(c) : r.from \in Openings
    BY SentTypes DEF TypeOK, Request
<1>4. FromBegun'
    BY <1>2, <1>3 DEF PageInv, FromBegun
<1>5. \A o \in Openings : o[1] \in Clients
    BY DEF Openings
<1>6. \A o \in Openings, then \in Continuations : Awaits(o, then)' <=> Awaits(o, then)
    BY <1>2, <1>5, AwaitsMeans
<1>7. \A o \in Openings : UpToDate(o) => UpToDate(o)'
    BY <1>2, <1>5 DEF UpToDate
<1>8. Streaming'
    BY <1>6 DEF PageInv, Streaming, Continuations
<1>9. Told'
    BY <1>6, <1>7 DEF PageInv, Told, Continuations
<1> QED
    BY <1>1, <1>4, <1>8, <1>9 DEF PageInv

LEMMA EnterPasswordKeeps ==
    ASSUME TypeOK, PageInv, NEW o \in Openings, EnterPassword(o)
    PROVE  PageInv'
<1>1. o[1] \in Clients /\ o # None /\ \A p \in Openings : p[1] \in Clients
    BY SentinelAssumption DEF Openings
<1>2. /\ view[o] = "prompt" /\ view' = [view EXCEPT ![o] = "shown"]
      /\ page' = [page EXCEPT ![o[1]] = o]
      /\ UNCHANGED <<db, requests, answered, model, stream, feed, missed>>
    BY DEF EnterPassword, nodeVars, streamVars, historyVars
<1>3. /\ view'[o] = "shown" /\ \A p \in Openings : p # o => view'[p] = view[p]
      /\ page'[o[1]] = o /\ \A d \in Clients : d # o[1] => page'[d] = page[d]
    BY <1>1, <1>2 DEF TypeOK
<1>4. \A p \in Openings : Active(p)' => Active(p)
    <2> SUFFICES ASSUME NEW p \in Openings, Active(p)' PROVE Active(p)
        OBVIOUS
    <2>1. CASE p = o
        BY <1>2, <2>1 DEF Active
    <2>2. CASE p # o
        BY <1>1, <1>3, <2>2 DEF Active
    <2> QED
        BY <2>1, <2>2
<1>5. OnPage'
    <2> SUFFICES ASSUME NEW d \in Clients, page'[d] # None
                 PROVE  page'[d][1] = d /\ view'[page'[d]] \in {"shown", "bound"}
        BY DEF OnPage
    <2>1. CASE d = o[1]
        BY <1>3, <2>1
    <2>2. CASE d # o[1]
        <3>1. page[d][1] = d /\ view[page[d]] \in {"shown", "bound"} /\ page[d] \in Openings
            BY <1>3, <2>2 DEF PageInv, OnPage, TypeOK
        <3> QED
            BY <1>3, <2>2, <3>1
    <2> QED
        BY <2>1, <2>2
<1>6. PrivateGone'
    <2> SUFFICES ASSUME NEW p \in Openings, p[1] # Owner, model[p] # None
                 PROVE  model[p].isPublic \/ p \in missed
                        \/ (view'[p] \in {"bound", "dead"} /\ page'[p[1]] # p)
        BY <1>2 DEF PrivateGone
    <2>1. CASE p = o
        BY <1>2, <2>1 DEF PageInv, PrivateGone
    <2>2. CASE p # o
        BY <1>1, <1>3, <2>2 DEF PageInv, PrivateGone
    <2> QED
        BY <2>1, <2>2
<1>7. \A p \in Openings : /\ view'[p] = "unused" <=> view[p] = "unused"
                          /\ view'[p] = "prompt" => view[p] = "prompt"
    BY <1>2, <1>3
<1> QED
    BY <1>2, <1>4, <1>5, <1>6, <1>7, PageStepKeeps

LEMMA ViewKeeps ==
    ASSUME TypeOK, PageInv, NEW o \in Openings, DismissPrompt(o) \/ BindEvents(o)
    PROVE  PageInv'
<1>1. o[1] \in Clients /\ o # None /\ \A p \in Openings : p[1] \in Clients
    BY SentinelAssumption DEF Openings
<1>2. /\ \/ view[o] = "prompt" /\ view' = [view EXCEPT ![o] = "dismissed"]
         \/ view[o] = "shown" /\ view' = [view EXCEPT ![o] = "bound"]
      /\ UNCHANGED <<db, requests, answered, page, model, stream, feed, missed>>
    <2>1. CASE DismissPrompt(o)
        BY <2>1 DEF DismissPrompt, nodeVars, streamVars, historyVars
    <2>2. CASE BindEvents(o)
        BY <2>2 DEF BindEvents, nodeVars, streamVars, historyVars
    <2> QED
        BY <2>1, <2>2
<1>3. /\ \/ view[o] = "prompt" /\ view'[o] = "dismissed"
         \/ view[o] = "shown" /\ view'[o] = "bound"
      /\ \A p \in Openings : p # o => view'[p] = view[p]
    BY <1>2 DEF TypeOK
<1>4. OnPage'
    <2> SUFFICES ASSUME NEW d \in Clients, page[d] # None
                 PROVE  page[d][1] = d /\ view'[page[d]] \in {"shown", "bound"}
        BY <1>2 DEF OnPage
    <2>1. page[d][1] = d /\ view[page[d]] \in {"shown", "bound"} /\ page[d] \in Openings
        BY DEF PageInv, OnPage, TypeOK
    <2> QED
        BY <1>3, <2>1
<1>5. PrivateGone'
    <2> SUFFICES ASSUME NEW p \in Openings, p[1] # Owner, model[p] # None
                 PROVE  model[p].isPublic \/ p \in missed
                        \/ (view'[p] \in {"bound", "dead"} /\ page[p[1]] # p)
        BY <1>2 DEF PrivateGone
    <2> QED
        BY <1>3 DEF PageInv, PrivateGone
<1>6. \A p \in Openings : /\ Active(p)' => Active(p)
                          /\ view'[p] = "unused" <=> view[p] = "unused"
                          /\ view'[p] = "prompt" => view[p] = "prompt"
    BY <1>2, <1>3 DEF Active
<1> QED
    BY <1>2, <1>4, <1>5, <1>6, PageStepKeeps

LEMMA SubscribeKeeps ==
    ASSUME TypeOK, PageInv, NEW o \in Openings, Subscribe(o)
    PROVE  PageInv'
<1>1. PICK r \in answered : /\ r.from = o /\ r.then = "subscribe"
                            /\ answered' = answered \ {r}
                            /\ stream' = [stream EXCEPT ![o] = "connecting"]
    BY DEF Subscribe
<1>2. UNCHANGED <<db, requests, page, view, model, feed, missed>>
    BY DEF Subscribe, clientVars, historyVars
<1>3. /\ \A c \in Clients : Sent(c)' = Sent(c)
      /\ \A p \in Openings :
            p[1] \in Clients /\ (Active(p)' <=> Active(p)) /\ (UpToDate(p)' <=> UpToDate(p))
    BY <1>2 DEF Sent, Active, UpToDate, Openings
<1>4. stream'[o] = "connecting" /\ \A p \in Openings : p # o => stream'[p] = stream[p]
    BY <1>1 DEF TypeOK
<1>5. OnPage' /\ PrivateGone' /\ FromBegun'
    BY <1>1, <1>2, <1>3 DEF PageInv, OnPage, PrivateGone, FromBegun
<1>6. view[o] # "unused"
    BY <1>1, <1>3 DEF PageInv, FromBegun
<1>7. Begun'
    BY <1>2, <1>4, <1>6 DEF PageInv, Begun
<1>8. \A p \in Openings, then \in Continuations : p # o => (Awaits(p, then) => Awaits(p, then)')
    BY <1>1, <1>3, AwaitsKeeps
<1>9. Streaming'
    BY <1>2, <1>3, <1>4, <1>8 DEF PageInv, Streaming, Continuations
<1>10. Told'
    BY <1>2, <1>3, <1>4, <1>8 DEF PageInv, Told, Continuations
<1> QED
    BY <1>5, <1>7, <1>9, <1>10 DEF PageInv

LEMMA StreamKeeps ==
    ASSUME TypeOK, PageInv, NEW o \in Openings, Connect(o) \/ EndStream(o)
    PROVE  PageInv'
<1>1. /\ \/ /\ stream[o] = "connecting" /\ stream' = [stream EXCEPT ![o] = "live"]
            /\ feed' = [feed EXCEPT ![o] = <<db>>]
         \/ /\ stream[o] = "stopping" /\ stream' = [stream EXCEPT ![o] = "ended"]
            /\ feed' = [feed EXCEPT ![o] = <<>>]
      /\ UNCHANGED <<db, requests, answered, page, view, model, missed>>
    <2>1. CASE Connect(o)
        BY <2>1 DEF Connect, nodeVars, clientVars, historyVars
    <2>2. CASE EndStream(o)
        BY <2>2 DEF EndStream, nodeVars, clientVars, historyVars
    <2> QED
        BY <2>1, <2>2
<1>2. /\ \A c \in Clients : Sent(c)' = Sent(c)
      /\ \A p \in Openings : p[1] \in Clients /\ (Active(p)' <=> Active(p))
    BY <1>1 DEF Sent, Active, Openings
<1>3. /\ \A p \in Openings : p # o => stream'[p] = stream[p] /\ feed'[p] = feed[p]
      /\ \/ stream[o] = "connecting" /\ stream'[o] = "live" /\ feed'[o] = <<db>>
         \/ stream[o] = "stopping" /\ stream'[o] = "ended"
    BY <1>1 DEF TypeOK
<1>4. OnPage' /\ PrivateGone' /\ FromBegun'
    BY <1>1, <1>2 DEF PageInv, OnPage, PrivateGone, FromBegun
<1>5. Begun'
    BY <1>1, <1>3 DEF PageInv, Begun
<1>6. \A p \in Openings, then \in Continuations : Awaits(p, then)' <=> Awaits(p, then)
    BY <1>1, <1>2, AwaitsMeans
<1>7. Streaming'
    BY <1>1, <1>2, <1>3, <1>6 DEF PageInv, Streaming, Continuations
<1>8. Told'
    <2> SUFFICES ASSUME NEW p \in Openings, Active(p)', stream'[p] = "live"
                 PROVE  p \in missed' \/ Awaits(p, "kick")' \/ UpToDate(p)'
        BY DEF Told
    <2>1. CASE p = o
        <3>1. feed'[o] = <<db>> /\ db' = db /\ <<db>> # <<>> /\ <<db>>[Len(<<db>>)] = db
            BY <1>1, <1>3, <2>1
        <3> QED
            BY <2>1, <3>1 DEF UpToDate
    <2>2. CASE p # o
        <3>1. UpToDate(p) => UpToDate(p)'
            BY <1>1, <1>2, <1>3, <2>2 DEF UpToDate
        <3> QED
            BY <1>1, <1>2, <1>3, <1>6, <2>2, <3>1 DEF PageInv, Told, Continuations
    <2> QED
        BY <2>1, <2>2
<1> QED
    BY <1>4, <1>5, <1>7, <1>8 DEF PageInv

\* A request that is sent comes from what has begun.
LEMMA SentFromBegun ==
    ASSUME TypeOK, PageInv, UNCHANGED <<answered, view>>, NEW o \in Openings, view[o] # "unused",
           \A c \in Clients : \A r \in Sent(c)' :
               r \in Sent(c) \/ (r.from = o /\ (r.then = "kick" => r.event # None))
    PROVE  FromBegun'
    BY DEF PageInv, FromBegun

LEMMA SelectionKeeps ==
    ASSUME TypeOK, PageInv, NEW c \in Clients, OnSelectionChanged(c) \/ SaveDimensions(c)
    PROVE  PageInv'
<1>1. CASE OnSelectionChanged(c)
    <2>1. PICK o \in Openings, strokes \in SUBSET Strokes :
              /\ IsWorking(c, o)
              /\ ChangeSelection(o, {s \in strokes : ~IsSelectedByOtherUser(o, s)})
        BY <1>1 DEF OnSelectionChanged
    <2>2. UNCHANGED <<db, answered, page, view, model, stream, feed, missed>>
        BY <1>1 DEF OnSelectionChanged, streamVars
    <2>3. {s \in strokes : ~IsSelectedByOtherUser(o, s)} \in SUBSET Strokes
        BY <2>1
    <2>4. /\ \A d \in Clients : Sent(d) \subseteq Sent(d)'
          /\ \A d \in Clients : \A r \in Sent(d)' :
                 r \in Sent(d) \/ (r.from = o /\ r.then = "nothing")
        BY <2>1, <2>3, ChangeSelectionTypes
    <2>5. FromBegun'
        BY <2>1, <2>2, <2>4, SentFromBegun DEF IsWorking
    <2> QED
        BY <2>2, <2>4, <2>5, SendingKeeps
<1>2. CASE SaveDimensions(c)
    <2>1. PICK o \in Openings : Send(c, WriteModel(o, model[o], "nothing")) /\ IsWorking(c, o)
        BY <1>2 DEF SaveDimensions
    <2>2. UNCHANGED <<db, answered, page, view, model, stream, feed, missed>>
        BY <1>2 DEF SaveDimensions, clientVars, streamVars, historyVars
    <2>3. model[o] \in Model \cup {None}
        BY DEF TypeOK
    <2>4. PICK r \in Request : /\ r.from = o /\ r.then = "nothing"
                               /\ Sent(c)' = Sent(c) \cup {r}
                               /\ \A d \in Clients : d # c => Sent(d)' = Sent(d)
        BY <2>1, <2>3, WriteTypes DEF Continuations
    <2>5. FromBegun'
        BY <2>1, <2>2, <2>4, SentFromBegun DEF IsWorking
    <2> QED
        BY <2>2, <2>4, <2>5, SendingKeeps
<1> QED
    BY <1>1, <1>2

LEMMA UpdateSettingsKeeps ==
    ASSUME TypeOK, PageInv, NEW setting \in Setting, UpdateSettings(setting)
    PROVE  PageInv' /\ TypeOK'
<1>1. PICK o \in Openings :
          /\ IsWorking(Owner, o)
          /\ left.configures > 0
          /\ model' = [model EXCEPT ![o] = Configured(o, setting)]
          /\ Send(Owner, WriteModel(o, Configured(o, setting), "nothing"))
          /\ left' = [left EXCEPT !.configures = @ - 1]
          /\ UNCHANGED <<db, answered, page, view, selected, stream, feed, missed, disturbed>>
    BY DEF UpdateSettings, Configured, streamVars, historyVars
<1> DEFINE m == Configured(o, setting)
<1>2. Owner \in Clients /\ page[Owner] = o /\ view[o] = "bound" /\ o # None
    BY <1>1, ClientsAssumption, SentinelAssumption DEF IsWorking
<1>3. o[1] = Owner
    BY <1>2 DEF PageInv, OnPage
<1>4. model[o] \in Model
    BY <1>2 DEF PageInv, Begun, TypeOK
<1>5. m \in Model /\ m # None
    BY <1>4, SentinelAssumption DEF Model, Setting, Configured
<1>6. model' = [model EXCEPT ![o] = m] /\ Send(Owner, WriteModel(o, m, "nothing"))
    BY <1>1
<1>7. TypeOK'
    BY <1>1, <1>2, <1>4, UpdateSettingsTypes
<1> HIDE DEF m
<1>8. UNCHANGED <<db, answered, page, view, stream, feed, missed>>
    BY <1>1
<1>9. PICK r \in Request : /\ r.from = o /\ r.then = "nothing" /\ r.model = m
                           /\ Sent(Owner)' = Sent(Owner) \cup {r}
                           /\ \A d \in Clients : d # Owner => Sent(d)' = Sent(d)
    BY <1>2, <1>5, <1>6, WriteTypes DEF Continuations
<1>10. \A d \in Clients : Sent(d) \subseteq Sent(d)'
    BY <1>9
<1>11. FromBegun'
    BY <1>2, <1>8, <1>9, SentFromBegun
<1>12. model'[o] = m /\ \A p \in Openings : p # o => model'[p] = model[p]
    BY <1>6 DEF TypeOK
<1>13. OnPage' /\ Begun' /\ PrivateGone'
    BY <1>3, <1>5, <1>8, <1>12 DEF PageInv, OnPage, Begun, PrivateGone
<1>14. \A p \in Openings : p[1] \in Clients /\ (Active(p)' <=> Active(p))
    BY <1>8 DEF Openings, Active
<1>15. \A p \in Openings, then \in Continuations : Awaits(p, then) => Awaits(p, then)'
    BY <1>8, <1>10, <1>14, AwaitsKeeps
<1>16. Streaming'
    BY <1>8, <1>14, <1>15 DEF PageInv, Streaming, Continuations
<1>17. \A p \in Openings : UpToDate(p) => UpToDate(p)'
    <2> SUFFICES ASSUME NEW p \in Openings, UpToDate(p) PROVE UpToDate(p)'
        OBVIOUS
    <2>1. CASE feed[p] # <<>>
        BY <1>8, <2>1 DEF UpToDate
    <2>2. CASE feed[p] = <<>> /\ p = o
        BY <1>3, <1>8, <1>9, <1>12, <2>2 DEF UpToDate
    <2>3. CASE feed[p] = <<>> /\ p # o
        BY <1>8, <1>10, <1>12, <1>14, <2>3 DEF UpToDate
    <2> QED
        BY <2>1, <2>2, <2>3
<1>18. Told'
    BY <1>8, <1>14, <1>15, <1>17 DEF PageInv, Told, Continuations
<1> QED
    BY <1>7, <1>11, <1>13, <1>16, <1>18 DEF PageInv

LEMMA GoBackKeeps ==
    ASSUME TypeOK, PageInv, NEW c \in Clients, GoBack(c)
    PROVE  PageInv'
<1>1. PICK o \in Openings :
          /\ page[c] = o
          /\ RemoveSelection(o, "leave", None)
          /\ stream' = [stream EXCEPT ![o] = CASE @ = "live" -> "stopping"
                                               [] @ = "connecting" -> "ended"
                                               [] OTHER -> @]
          /\ UNCHANGED <<db, answered, page, view, model, feed, missed>>
    BY DEF GoBack, clientVars, historyVars
<1>2. o # None /\ \A p \in Openings : p[1] \in Clients /\ (Active(p)' <=> Active(p))
    BY <1>1, SentinelAssumption DEF Openings, Active
<1>3. o[1] = c /\ view[o] \in {"shown", "bound"}
    BY <1>1, <1>2 DEF PageInv, OnPage
<1>4. PICK r \in Request : /\ r.from = o /\ r.then = "leave" /\ r.event = None
                           /\ Sent(o[1])' = Sent(o[1]) \cup {r}
                           /\ \A d \in Clients : d # o[1] => Sent(d)' = Sent(d)
    <2>1. /\ RemoveSelection(o, "leave", None)
          /\ "leave" \in Continuations /\ None \in Model \cup {None}
        BY <1>1 DEF Continuations
    <2> QED
        BY <2>1, RemoveTypes
<1>5. stream'[o] \notin {"live", "connecting"} /\ (stream'[o] = "none" => stream[o] = "none")
    <2>1. CASE stream[o] = "live"
        BY <1>1, <2>1 DEF TypeOK
    <2>2. CASE stream[o] = "connecting"
        BY <1>1, <2>2 DEF TypeOK
    <2>3. CASE stream[o] \notin {"live", "connecting"}
        <3>1. stream' = [stream EXCEPT ![o] = stream[o]]
            BY <1>1, <2>3, Zenon
        <3> QED
            BY <2>3, <3>1 DEF TypeOK
    <2> QED
        BY <2>1, <2>2, <2>3
<1>6. \A p \in Openings : p # o => stream'[p] = stream[p]
    <2>1. PICK x : stream' = [stream EXCEPT ![o] = x]
        BY <1>1
    <2> QED
        BY <2>1 DEF TypeOK
<1>7. FromBegun'
    BY <1>1, <1>3, <1>4, SentFromBegun
<1>8. OnPage' /\ PrivateGone'
    BY <1>1 DEF PageInv, OnPage, PrivateGone
<1>9. Begun'
    BY <1>1, <1>3, <1>6 DEF PageInv, Begun
<1>10. \A p \in Openings, then \in Continuations : Awaits(p, then) => Awaits(p, then)'
    BY <1>1, <1>2, <1>4, AwaitsKeeps
<1>11. Awaits(o, "leave")'
    BY <1>3, <1>4, AwaitsMeans DEF Continuations
<1>12. Streaming'
    BY <1>1, <1>2, <1>3, <1>5, <1>6, <1>10, <1>11 DEF PageInv, Streaming, Continuations
<1>13. \A p \in Openings : UpToDate(p) => UpToDate(p)'
    BY <1>1, <1>2, <1>4 DEF UpToDate
<1>14. Told'
    BY <1>1, <1>2, <1>5, <1>6, <1>10, <1>13 DEF PageInv, Told, Continuations
<1> QED
    BY <1>7, <1>8, <1>9, <1>12, <1>14 DEF PageInv

LEMMA ContinueGoBackKeeps ==
    ASSUME TypeOK, PageInv, NEW o \in Openings, ContinueGoBack(o)
    PROVE  PageInv'
<1> DEFINE p == page[o[1]]
<1>1. PICK r \in answered :
          /\ r.from = o /\ r.then = "leave"
          /\ answered' = answered \ {r}
          /\ page' = [page EXCEPT ![o[1]] = None]
          /\ IF p # None /\ view[p] = "bound" /\ selected[p] # {}
             THEN ChangeSelection(p, {})
             ELSE UNCHANGED <<selected, requests, disturbed>>
          /\ UNCHANGED <<db, view, model, stream, feed, missed>>
    BY DEF ContinueGoBack, streamVars
<1>2. /\ o[1] \in Clients /\ p \in Openings \cup {None} /\ None \notin Openings
      /\ \A q \in Openings : q[1] \in Clients
    BY SentinelAssumption DEF TypeOK, Openings
<1> HIDE DEF p
<1>3. /\ page'[o[1]] = None
      /\ \A d \in Clients : page'[d] = page[d] \/ page'[d] = None
    BY <1>1, <1>2 DEF TypeOK
<1>4. \A q \in Openings : Active(q)' => Active(q) /\ (q = o => view[o] = "prompt")
    BY <1>1, <1>2, <1>3 DEF Active
<1>5. /\ \A d \in Clients : Sent(d) \subseteq Sent(d)'
      /\ \A d \in Clients : \A q \in Sent(d)' :
             \/ q \in Sent(d)
             \/ q.from \in Openings /\ view[q.from] = "bound" /\ q.then = "nothing"
    <2>1. CASE p # None /\ view[p] = "bound" /\ selected[p] # {}
        <3>1. p \in Openings /\ ChangeSelection(p, {}) /\ {} \in SUBSET Strokes
            BY <1>1, <1>2, <2>1
        <3> QED
            BY <2>1, <3>1, ChangeSelectionTypes
    <2>2. CASE ~(p # None /\ view[p] = "bound" /\ selected[p] # {})
        <3>1. \A d \in Clients : Sent(d)' = Sent(d)
            BY <1>1, <2>2 DEF Sent
        <3> QED
            BY <3>1
    <2> QED
        BY <2>1, <2>2
<1>6. FromBegun'
    BY <1>1, <1>5 DEF PageInv, FromBegun
<1>7. OnPage'
    BY <1>1, <1>3 DEF PageInv, OnPage
<1>8. Begun'
    BY <1>1 DEF PageInv, Begun
<1>9. PrivateGone'
    BY <1>1, <1>2, <1>3 DEF PageInv, PrivateGone
<1>10. \A q \in Openings, then \in Continuations :
           q # o \/ then # "leave" => (Awaits(q, then) => Awaits(q, then)')
    BY <1>1, <1>2, <1>5, AwaitsKeeps
<1>11. Streaming'
    BY <1>1, <1>4, <1>10 DEF PageInv, Streaming, Continuations
<1>12. \A q \in Openings : UpToDate(q) => UpToDate(q)'
    BY <1>1, <1>2, <1>5 DEF UpToDate
<1>13. Told'
    BY <1>1, <1>4, <1>10, <1>12 DEF PageInv, Told, Continuations
<1> QED
    BY <1>6, <1>7, <1>8, <1>9, <1>11, <1>13 DEF PageInv

LEMMA ContinueKickKeeps ==
    ASSUME TypeOK, PageInv, NEW o \in Openings, ContinueKick(o)
    PROVE  PageInv'
<1>1. PICK r \in answered :
          /\ r.from = o /\ r.then = "kick"
          /\ answered' = answered \ {r}
          /\ model' = [model EXCEPT ![o] = r.event]
          /\ IF view[o] = "bound"
             THEN page' = [page EXCEPT ![o[1]] = None] /\ UNCHANGED missed
             ELSE missed' = missed \cup {o} /\ UNCHANGED page
          /\ UNCHANGED <<db, requests, view, stream, feed>>
    BY DEF ContinueKick, streamVars
<1>2. /\ o[1] \in Clients /\ None \notin Openings
      /\ \A q \in Openings : q[1] \in Clients
    BY SentinelAssumption DEF Openings
<1>3. /\ \A d \in Clients : page'[d] = page[d] \/ page'[d] = None
      /\ IF view[o] = "bound" THEN page'[o[1]] = None ELSE o \in missed'
      /\ missed \subseteq missed'
    BY <1>1, <1>2 DEF TypeOK
<1>4. view[o] # "unused" /\ r.event # None
    BY <1>1, <1>2 DEF PageInv, FromBegun
<1>5. model'[o] # None /\ \A q \in Openings : q # o => model'[q] = model[q]
    BY <1>1, <1>4 DEF TypeOK
<1>6. \A q \in Openings : Active(q)' => Active(q)
    BY <1>1, <1>2, <1>3 DEF Active
<1>7. \A d \in Clients : Sent(d)' = Sent(d)
    BY <1>1 DEF Sent
<1>8. FromBegun'
    BY <1>1, <1>7 DEF PageInv, FromBegun
<1>9. OnPage' /\ Begun'
    BY <1>1, <1>3, <1>4, <1>5 DEF PageInv, OnPage, Begun
<1>10. PrivateGone'
    BY <1>1, <1>2, <1>3, <1>5 DEF PageInv, PrivateGone
<1>11. \A q \in Openings, then \in Continuations :
           q # o \/ then # "kick" => (Awaits(q, then) => Awaits(q, then)')
    BY <1>1, <1>2, <1>7, AwaitsKeeps
<1>12. Streaming'
    BY <1>1, <1>6, <1>11 DEF PageInv, Streaming, Continuations
<1>13. Told'
    <2> SUFFICES ASSUME NEW q \in Openings, Active(q)', stream'[q] = "live"
                 PROVE  q \in missed' \/ Awaits(q, "kick")' \/ UpToDate(q)'
        BY DEF Told
    <2>1. CASE q = o
        BY <1>1, <1>2, <1>3, <2>1 DEF Active
    <2>2. CASE q # o
        <3>1. UpToDate(q) => UpToDate(q)'
            BY <1>1, <1>2, <1>5, <1>7, <2>2 DEF UpToDate
        <3> QED
            BY <1>1, <1>3, <1>6, <1>11, <2>2, <3>1 DEF PageInv, Told, Continuations
    <2> QED
        BY <2>1, <2>2
<1> QED
    BY <1>8, <1>9, <1>10, <1>12, <1>13 DEF PageInv

LEMMA SyncKeeps ==
    ASSUME TypeOK, PageInv, NEW o \in Openings, SyncRemoteAttributesToLocal(o)
    PROVE  PageInv'
<1> DEFINE m == Head(feed[o])
<1>1. feed[o] \in Seq(Model) /\ feed[o] # <<>> /\ stream[o] \in {"live", "stopping"}
    BY DEF SyncRemoteAttributesToLocal, TypeOK
<1>2. /\ m \in Model /\ m # None /\ Tail(feed[o]) \in Seq(Model)
      /\ IF Tail(feed[o]) # <<>> THEN Tail(feed[o])[Len(Tail(feed[o]))] = feed[o][Len(feed[o])]
         ELSE m = feed[o][Len(feed[o])]
    <2>1. /\ m \in Model /\ Tail(feed[o]) \in Seq(Model) /\ Len(Tail(feed[o])) = Len(feed[o]) - 1
          /\ \A i \in 1..Len(Tail(feed[o])) : Tail(feed[o])[i] = feed[o][i + 1]
          /\ m = feed[o][1]
        BY <1>1, HeadTailProperties
    <2>2. Len(feed[o]) \in Nat \ {0} /\ Len(Tail(feed[o])) \in Nat
        BY <1>1, <2>1, EmptySeq, LenProperties
    <2>3. CASE Tail(feed[o]) # <<>>
        <3>1. Len(Tail(feed[o])) \in 1..Len(Tail(feed[o]))
            BY <2>1, <2>2, <2>3, EmptySeq
        <3> QED
            BY <2>1, <2>2, <2>3, <3>1, SentinelAssumption
    <2>4. CASE Tail(feed[o]) = <<>>
        <3>1. Len(feed[o]) = 1
            <4>1. Len(Tail(feed[o])) = 0
                BY <2>4, EmptySeq
            <4> QED
                BY <2>1, <2>2, <4>1
        <3> QED
            BY <2>1, <2>4, <3>1, SentinelAssumption
    <2> QED
        BY <2>3, <2>4
<1>3. /\ IF stream[o] = "stopping"
         THEN stream' = [stream EXCEPT ![o] = "ended"] /\ feed' = [feed EXCEPT ![o] = <<>>]
         ELSE feed' = [feed EXCEPT ![o] = Tail(@)] /\ UNCHANGED stream
      /\ IF Excludes(o, m)
         THEN RemoveSelection(o, "kick", m) /\ UNCHANGED model
         ELSE model' = [model EXCEPT ![o] = m] /\ UNCHANGED requests
      /\ UNCHANGED <<db, answered, page, view, missed>>
    BY DEF SyncRemoteAttributesToLocal, historyVars
<1>4. \A q \in Openings : q[1] \in Clients /\ (Active(q)' <=> Active(q))
    BY <1>3 DEF Openings, Active
<1>5. view[o] # "unused"
    BY <1>1 DEF PageInv, Begun
<1> HIDE DEF m
<1>6. /\ \A q \in Openings : q # o => /\ stream'[q] = stream[q] /\ feed'[q] = feed[q]
                                      /\ model'[q] = model[q]
      /\ model'[o] = (IF Excludes(o, m) THEN model[o] ELSE m)
      /\ stream'[o] = (IF stream[o] = "stopping" THEN "ended" ELSE stream[o])
      /\ stream[o] # "stopping" => feed'[o] = Tail(feed[o])
    BY <1>3 DEF TypeOK
<1>7. CASE Excludes(o, m)
    <2>1. RemoveSelection(o, "kick", m) /\ "kick" \in Continuations /\ m \in Model \cup {None}
        BY <1>2, <1>3, <1>7 DEF Continuations
    <2>2. PICK r \in Request : /\ r.from = o /\ r.then = "kick" /\ r.event = m
                               /\ Sent(o[1])' = Sent(o[1]) \cup {r}
                               /\ \A d \in Clients : d # o[1] => Sent(d)' = Sent(d)
        BY <2>1, RemoveTypes
    <2>3. FromBegun'
        BY <1>2, <1>3, <1>5, <2>2, SentFromBegun
    <2>4. OnPage' /\ PrivateGone'
        BY <1>3, <1>7 DEF PageInv, OnPage, PrivateGone
    <2>5. Begun'
        BY <1>3, <1>5, <1>6, <1>7 DEF PageInv, Begun
    <2>6. \A q \in Openings, then \in Continuations : Awaits(q, then) => Awaits(q, then)'
        BY <1>3, <1>4, <2>2, AwaitsKeeps
    <2>7. Streaming'
        BY <1>1, <1>3, <1>4, <1>6, <2>6 DEF PageInv, Streaming, Continuations
    <2>8. Told'
        <3>1. Awaits(o, "kick")'
            BY <2>2, AwaitsMeans DEF Continuations
        <3>2. \A q \in Openings : q # o /\ UpToDate(q) => UpToDate(q)'
            BY <1>3, <1>4, <1>6, <2>2 DEF UpToDate
        <3> QED
            BY <1>3, <1>4, <1>6, <2>6, <3>1, <3>2 DEF PageInv, Told, Continuations
    <2> QED
        BY <2>3, <2>4, <2>5, <2>7, <2>8 DEF PageInv
<1>8. CASE ~Excludes(o, m)
    <2>1. model'[o] = m /\ requests' = requests
        BY <1>3, <1>6, <1>8
    <2>2. \A d \in Clients : Sent(d)' = Sent(d)
        BY <2>1 DEF Sent
    <2>3. FromBegun'
        BY <1>3, <2>2 DEF PageInv, FromBegun
    <2>4. OnPage' /\ Begun'
        BY <1>2, <1>3, <1>5, <1>6, <2>1 DEF PageInv, OnPage, Begun
    <2>5. PrivateGone'
        <3>1. o[1] # Owner => m.isPublic \/ model[o].isPublic = m.isPublic
            <4>1. m.isPublic \in BOOLEAN
                BY <1>2 DEF Model
            <4> QED
                BY <1>8, <4>1 DEF Excludes
        <3>2. model[o] # None
            BY <1>5 DEF PageInv, Begun
        <3> QED
            BY <1>3, <1>6, <2>1, <3>1, <3>2 DEF PageInv, PrivateGone
    <2>6. \A q \in Openings, then \in Continuations : Awaits(q, then) => Awaits(q, then)'
        BY <1>3, <1>4, <2>2, AwaitsKeeps
    <2>7. Streaming'
        BY <1>1, <1>3, <1>4, <1>6, <2>6 DEF PageInv, Streaming, Continuations
    <2>8. Told'
        <3> SUFFICES ASSUME NEW q \in Openings, Active(q)', stream'[q] = "live"
                     PROVE  q \in missed' \/ Awaits(q, "kick")' \/ UpToDate(q)'
            BY DEF Told
        <3>1. CASE q # o
            <4>1. UpToDate(q) => UpToDate(q)'
                BY <1>3, <1>4, <1>6, <2>2, <3>1 DEF UpToDate
            <4> QED
                BY <1>3, <1>4, <1>6, <2>6, <3>1, <4>1 DEF PageInv, Told, Continuations
        <3>2. CASE q = o
            <4>1. stream[o] = "live" /\ feed'[o] = Tail(feed[o]) /\ Active(o)
                BY <1>1, <1>4, <1>6, <3>2
            <4>2. UpToDate(o) => UpToDate(o)'
                BY <1>1, <1>2, <1>3, <2>1, <4>1 DEF UpToDate
            <4> QED
                BY <1>3, <2>6, <3>2, <4>1, <4>2 DEF PageInv, Told, Continuations
        <3> QED
            BY <3>1, <3>2
    <2> QED
        BY <2>3, <2>4, <2>5, <2>7, <2>8 DEF PageInv
<1> QED
    BY <1>7, <1>8

LEMMA ApplyKeeps ==
    ASSUME TypeOK, PageInv, NEW c \in Clients, ApplyRequest(c)
    PROVE  PageInv'
<1>1. PICK i \in DOMAIN requests[c] :
          LET r == requests[c][i] IN
          /\ db' = Written(r)
          /\ feed' = [o \in Openings |->
                        IF stream[o] \in {"live", "stopping"} /\ db' # db
                        THEN Append(feed[o], db') ELSE feed[o]]
          /\ requests' = WithoutRequest(c, i)
          /\ answered' = IF r.then = "nothing" \/ view[r.from] = "dead" THEN answered
                         ELSE answered \cup {r}
          /\ UNCHANGED <<page, view, model, stream, missed>>
    BY DEF ApplyRequest, clientVars
<1> DEFINE r == requests[c][i]
<1>2. /\ r \in Request
      /\ \A d \in Clients : Sent(d)' \subseteq Sent(d) /\ (d # c => Sent(d)' = Sent(d))
      /\ Sent(c) \subseteq Sent(c)' \cup {r}
    BY <1>1, WithoutTypes
<1>3. r \in Sent(c)
    BY DEF Sent, Elements
<1>4. /\ db' = Written(r)
      /\ answered' = IF r.then = "nothing" \/ view[r.from] = "dead" THEN answered
                     ELSE answered \cup {r}
    BY <1>1
<1>5. db' \in Model
    BY <1>2, <1>4, WrittenTypes
<1> HIDE DEF r
<1>6. \A o \in Openings : o[1] \in Clients /\ (Active(o)' <=> Active(o))
    BY <1>1 DEF Openings, Active
<1>7. OnPage' /\ Begun' /\ PrivateGone'
    BY <1>1 DEF PageInv, OnPage, Begun, PrivateGone
<1>8. FromBegun'
    BY <1>1, <1>2, <1>3, <1>4 DEF PageInv, FromBegun
<1>9. \A o \in Openings, then \in Continuations :
          Active(o) /\ then # "nothing" => (Awaits(o, then) => Awaits(o, then)')
    <2> SUFFICES ASSUME NEW o \in Openings, NEW then \in Continuations, Active(o), then # "nothing"
                 PROVE  Awaits(o, then) => Awaits(o, then)'
        OBVIOUS
    <2>1. view[o] # "dead"
        BY ActiveHasBegun
    <2>2. \A q \in answered \cup Sent(o[1]) :
              q.from = o /\ q.then = then => q \in answered' \cup Sent(o[1])'
        BY <1>2, <1>4, <1>6, <2>1
    <2> QED
        BY <2>2, AwaitsKeeps
<1>10. Streaming'
    BY <1>1, <1>6, <1>9 DEF PageInv, Streaming, Continuations
<1>11. Told'
    <2> SUFFICES ASSUME NEW o \in Openings, Active(o), stream[o] = "live", UpToDate(o)
                 PROVE  UpToDate(o)'
        BY <1>1, <1>6, <1>9 DEF PageInv, Told, Continuations
    <2>1. CASE db' # db
        <3>1. feed[o] \in Seq(Model) /\ feed'[o] = Append(feed[o], db')
            BY <1>1, <2>1 DEF TypeOK
        <3>2. feed'[o] # <<>> /\ feed'[o][Len(feed'[o])] = db'
            BY <1>5, <3>1, AppendProperties
        <3> QED
            BY <3>2 DEF UpToDate
    <2>2. CASE db' = db
        <3>1. feed'[o] = feed[o]
            BY <1>1, <2>2
        <3>2. CASE feed[o] # <<>> \/ model[o] = db
            BY <1>1, <2>2, <3>1, <3>2 DEF UpToDate
        <3>3. CASE feed[o] = <<>> /\ model[o] # db
            <4>1. PICK q \in Sent(o[1]) : q.from = o /\ q.model = model[o]
                BY <3>3 DEF UpToDate
            <4>2. q # r
                <5>1. model[o] # None
                    BY ActiveHasBegun, SentinelAssumption
                <5> QED
                    BY <1>4, <2>2, <3>3, <4>1, <5>1 DEF Written
            <4>3. q \in Sent(o[1])'
                BY <1>2, <1>6, <4>1, <4>2
            <4> QED
                BY <1>1, <3>1, <3>3, <4>1, <4>3 DEF UpToDate
        <3> QED
            BY <3>2, <3>3
    <2> QED
        BY <2>1, <2>2
<1> QED
    BY <1>7, <1>8, <1>10, <1>11 DEF PageInv

\* A process that ends takes its openings with it and nobody else's.
LEMMA EndProcessKeeps ==
    ASSUME TypeOK, PageInv, NEW c \in Clients, EndProcess(c),
           UNCHANGED <<db, model, missed>>,
           \A d \in Clients : Sent(d)' \subseteq Sent(d) /\ (d # c => Sent(d)' = Sent(d))
    PROVE  PageInv'
<1> DEFINE of == {o \in Openings : o[1] = c /\ view[o] # "unused"}
<1>1. /\ page' = [page EXCEPT ![c] = None]
      /\ view' = [o \in Openings |-> IF o \in of THEN "dead" ELSE view[o]]
      /\ stream' = [o \in Openings |-> IF o \in of THEN "ended" ELSE stream[o]]
      /\ feed' = [o \in Openings |-> IF o \in of THEN <<>> ELSE feed[o]]
      /\ answered' = {r \in answered : r.from \notin of}
    BY DEF EndProcess
<1>2. /\ \A o \in of : o \in Openings /\ o[1] = c /\ view[o] # "unused"
      /\ \A o \in Openings \ of : o[1] # c \/ view[o] = "unused"
    OBVIOUS
<1> HIDE DEF of
<1>3. /\ page'[c] = None /\ \A d \in Clients : d # c => page'[d] = page[d]
      /\ \A o \in of : view'[o] = "dead" /\ stream'[o] = "ended"
      /\ \A o \in Openings \ of : view'[o] = view[o] /\ stream'[o] = stream[o] /\ feed'[o] = feed[o]
    BY <1>1, <1>2 DEF TypeOK
<1>4. \A o \in Openings : o[1] \in Clients /\ o # None
    BY SentinelAssumption DEF Openings
<1>5. OnPage'
    <2> SUFFICES ASSUME NEW d \in Clients, page'[d] # None
                 PROVE  page'[d][1] = d /\ view'[page'[d]] \in {"shown", "bound"}
        BY DEF OnPage
    <2>1. d # c /\ page'[d] = page[d]
        BY <1>3
    <2>2. page[d] \in Openings /\ page[d][1] = d /\ view[page[d]] \in {"shown", "bound"}
        BY <2>1 DEF PageInv, OnPage, TypeOK
    <2>3. page[d] \notin of
        BY <1>2, <2>1, <2>2
    <2> QED
        BY <1>3, <2>1, <2>2, <2>3
<1>6. Begun'
    <2> SUFFICES ASSUME NEW o \in Openings
                 PROVE  IF view'[o] = "unused" THEN stream'[o] = "none" ELSE model'[o] # None
        BY DEF Begun
    <2>1. CASE o \in of
        BY <1>2, <1>3, <2>1 DEF PageInv, Begun
    <2>2. CASE o \notin of
        BY <1>3, <2>2 DEF PageInv, Begun
    <2> QED
        BY <2>1, <2>2
<1>7. FromBegun'
    <2> SUFFICES ASSUME NEW d \in Clients, NEW q \in answered' \cup Sent(d)'
                 PROVE  view'[q.from] # "unused" /\ (q.then = "kick" => q.event # None)
        BY DEF FromBegun
    <2>1. q \in answered \cup Sent(d)
        BY <1>1
    <2>2. q.from \in Openings /\ view[q.from] # "unused" /\ (q.then = "kick" => q.event # None)
        BY <2>1, SentTypes DEF PageInv, FromBegun, TypeOK, Request
    <2> QED
        BY <1>3, <2>2
<1>8. \A o \in Openings : Active(o)' => Active(o) /\ o \notin of /\ o[1] # c
    <2> SUFFICES ASSUME NEW o \in Openings, Active(o)' PROVE Active(o) /\ o \notin of /\ o[1] # c
        OBVIOUS
    <2>1. o \notin of
        <3>1. CASE view'[o] = "prompt"
            BY <1>3, <3>1
        <3>2. CASE page'[o[1]] = o
            BY <1>2, <1>3, <1>4, <3>2
        <3> QED
            BY <3>1, <3>2 DEF Active
    <2>2. Active(o)
        BY <1>3, <1>4, <2>1 DEF Active
    <2>3. view[o] # "unused"
        BY <2>2, ActiveHasBegun
    <2> QED
        BY <1>2, <2>1, <2>2, <2>3
<1>9. \A o \in Openings, then \in Continuations :
          Active(o)' => (Awaits(o, then) => Awaits(o, then)')
    BY <1>1, <1>4, <1>8, AwaitsKeeps
<1>10. Streaming'
    BY <1>3, <1>8, <1>9 DEF PageInv, Streaming, Continuations
<1>11. Told'
    <2> SUFFICES ASSUME NEW o \in Openings, Active(o)', stream'[o] = "live"
                 PROVE  o \in missed' \/ Awaits(o, "kick")' \/ UpToDate(o)'
        BY DEF Told
    <2>1. UpToDate(o) => UpToDate(o)'
        BY <1>3, <1>4, <1>8 DEF UpToDate
    <2> QED
        BY <1>3, <1>8, <1>9, <2>1 DEF PageInv, Told, Continuations
<1>12. PrivateGone'
    <2> SUFFICES ASSUME NEW o \in Openings, o[1] # Owner, model[o] # None
                 PROVE  model[o].isPublic \/ o \in missed
                        \/ (view'[o] \in {"bound", "dead"} /\ page'[o[1]] # o)
        BY DEF PrivateGone
    <2>1. CASE o \in of
        BY <1>2, <1>3, <1>4, <2>1
    <2>2. CASE o \notin of
        BY <1>3, <1>4, <2>2 DEF PageInv, PrivateGone
    <2> QED
        BY <2>1, <2>2
<1> QED
    BY <1>5, <1>6, <1>7, <1>10, <1>11, <1>12 DEF PageInv

\* A request of a process that has ended is missed by nobody.
LEMMA FailKeeps ==
    /\ TypeOK /\ PageInv /\ (\E c \in Clients : FailRequest(c)) => PageInv'
    /\ TypeOK /\ PageInv /\ (\E o \in Openings : FailBinding(o)) => PageInv'
<1>1. ASSUME TypeOK, PageInv, NEW c \in Clients, FailRequest(c) PROVE PageInv'
    <2>1. PICK i \in DOMAIN requests[c] :
            /\ requests' = WithoutRequest(c, i)
            /\ IF view[requests[c][i].from] = "dead"
               THEN UNCHANGED <<page, view, stream, feed, answered>>
               ELSE EndProcess(c)
        BY <1>1 DEF FailRequest, streamVars
    <2> DEFINE r == requests[c][i]
    <2>2. /\ r \in Request
          /\ \A d \in Clients : Sent(d)' \subseteq Sent(d) /\ (d # c => Sent(d)' = Sent(d))
          /\ Sent(c) \subseteq Sent(c)' \cup {r}
        BY <1>1, <2>1, WithoutTypes
    <2>3. UNCHANGED <<db, model, missed>>
        BY <1>1 DEF FailRequest
    <2>4. CASE view[r.from] # "dead"
        BY <1>1, <2>1, <2>2, <2>3, <2>4, EndProcessKeeps
    <2>5. CASE view[r.from] = "dead"
        <3>1. UNCHANGED <<page, view, stream, feed, answered>>
            BY <2>1, <2>5
        <3> HIDE DEF r
        <3>2. \A o \in Openings : o[1] \in Clients /\ (Active(o)' <=> Active(o))
            BY <3>1 DEF Openings, Active
        <3>3. OnPage' /\ Begun' /\ PrivateGone' /\ FromBegun'
            BY <1>1, <2>2, <2>3, <3>1 DEF PageInv, OnPage, Begun, PrivateGone, FromBegun
        <3>4. \A o \in Openings : Active(o) => r.from # o
            BY <1>1, <2>5, ActiveHasBegun
        <3>5. \A o \in Openings, then \in Continuations :
                  Active(o) => (Awaits(o, then) => Awaits(o, then)')
            BY <2>2, <3>1, <3>2, <3>4, AwaitsKeeps
        <3>6. Streaming'
            BY <1>1, <3>1, <3>2, <3>5 DEF PageInv, Streaming, Continuations
        <3>7. \A o \in Openings : Active(o) /\ UpToDate(o) => UpToDate(o)'
            BY <2>2, <2>3, <3>1, <3>2, <3>4 DEF UpToDate
        <3>8. Told'
            BY <1>1, <2>3, <3>1, <3>2, <3>5, <3>7 DEF PageInv, Told, Continuations
        <3> QED
            BY <3>3, <3>6, <3>8 DEF PageInv
    <2> QED
        BY <2>4, <2>5
<1>2. ASSUME TypeOK, PageInv, NEW o \in Openings, FailBinding(o) PROVE PageInv'
    <2>1. o[1] \in Clients /\ EndProcess(o[1]) /\ UNCHANGED <<db, requests, model, missed>>
        BY <1>2 DEF FailBinding, Openings
    <2>2. \A d \in Clients : Sent(d)' = Sent(d)
        BY <2>1 DEF Sent
    <2> QED
        BY <1>2, <2>1, <2>2, EndProcessKeeps
<1> QED
    BY <1>1, <1>2

LEMMA PageInit == Init => PageInv
<1> SUFFICES ASSUME Init PROVE PageInv
    OBVIOUS
<1>1. /\ requests = [c \in Clients |-> <<>>] /\ answered = {}
      /\ page = [c \in Clients |-> None] /\ view = [o \in Openings |-> "unused"]
      /\ model = [o \in Openings |-> None] /\ stream = [o \in Openings |-> "none"]
    BY DEF Init
<1>2. \A c \in Clients : Sent(c) = {}
    <2>1. Elements(<<>>) = {}
        BY DEF Elements
    <2> QED
        BY <1>1, <2>1 DEF Sent
<1>3. \A o \in Openings : o[1] \in Clients /\ ~Active(o)
    BY <1>1, SentinelAssumption DEF Openings, Active
<1>4. OnPage /\ Begun /\ FromBegun
    BY <1>1, <1>2 DEF OnPage, Begun, FromBegun
<1>5. Streaming /\ Told /\ PrivateGone
    BY <1>1, <1>3 DEF Streaming, Told, PrivateGone
<1> QED
    BY <1>4, <1>5 DEF PageInv

LEMMA StepKeeps == TypeOK /\ PageInv /\ [Next]_vars => TypeOK' /\ PageInv'
<1> SUFFICES ASSUME TypeOK, PageInv, [Next]_vars PROVE TypeOK' /\ PageInv'
    OBVIOUS
<1>1. ASSUME NEW c \in Clients, ApplyRequest(c) PROVE TypeOK' /\ PageInv'
    BY <1>1, ApplyTypes, ApplyKeeps
<1>2. ASSUME NEW o \in Openings, BindEvents(o) PROVE TypeOK' /\ PageInv'
    BY <1>2, PromptTypes, ViewKeeps
<1>3. ASSUME NEW o \in Openings, Subscribe(o) PROVE TypeOK' /\ PageInv'
    BY <1>3, StreamTypes, SubscribeKeeps
<1>4. ASSUME NEW o \in Openings, Connect(o) PROVE TypeOK' /\ PageInv'
    BY <1>4, StreamTypes, StreamKeeps
<1>5. ASSUME NEW o \in Openings, SyncRemoteAttributesToLocal(o) PROVE TypeOK' /\ PageInv'
    BY <1>5, SyncTypes, SyncKeeps
<1>6. ASSUME NEW o \in Openings, ContinueKick(o) PROVE TypeOK' /\ PageInv'
    BY <1>6, ContinueKickTypes, ContinueKickKeeps
<1>7. ASSUME NEW o \in Openings, ContinueGoBack(o) PROVE TypeOK' /\ PageInv'
    BY <1>7, ContinueGoBackTypes, ContinueGoBackKeeps
<1>8. ASSUME NEW o \in Openings, GetDrawing(o) PROVE TypeOK' /\ PageInv'
    BY <1>8, GetDrawingTypes, GetDrawingKeeps
<1>9. ASSUME NEW o \in Openings, EnterPassword(o) PROVE TypeOK' /\ PageInv'
    BY <1>9, PromptTypes, EnterPasswordKeeps
<1>10. ASSUME NEW o \in Openings, DismissPrompt(o) PROVE TypeOK' /\ PageInv'
    BY <1>10, PromptTypes, ViewKeeps
<1>11. ASSUME NEW c \in Clients, OnSelectionChanged(c) PROVE TypeOK' /\ PageInv'
    BY <1>11, WorkTypes, SelectionKeeps
<1>12. ASSUME NEW c \in Clients, SaveDimensions(c) PROVE TypeOK' /\ PageInv'
    BY <1>12, WorkTypes, SelectionKeeps
<1>13. ASSUME NEW c \in Clients, GoBack(c) PROVE TypeOK' /\ PageInv'
    BY <1>13, WorkTypes, GoBackKeeps
<1>14. ASSUME NEW setting \in Setting, UpdateSettings(setting) PROVE TypeOK' /\ PageInv'
    BY <1>14, UpdateSettingsKeeps
<1>15. ASSUME NEW c \in Clients, FailRequest(c) PROVE TypeOK' /\ PageInv'
    BY <1>15, FailTypes, FailKeeps
<1>16. ASSUME NEW o \in Openings, FailBinding(o) PROVE TypeOK' /\ PageInv'
    BY <1>16, FailTypes, FailKeeps
<1>17. ASSUME NEW o \in Openings, EndStream(o) PROVE TypeOK' /\ PageInv'
    BY <1>17, StreamTypes, StreamKeeps
<1>18. CASE UNCHANGED vars
    <2>1. UNCHANGED <<db, requests, answered, page, view, model, selected, stream, feed, left,
                      missed, disturbed>>
        BY <1>18 DEF vars, nodeVars, clientVars, streamVars, historyVars
    <2>2. TypeOK'
        BY <2>1 DEF TypeOK
    <2>3. \A c \in Clients : Sent(c)' = Sent(c)
        BY <2>1 DEF Sent
    <2>4. FromBegun'
        BY <2>1, <2>3 DEF PageInv, FromBegun
    <2> QED
        BY <2>1, <2>2, <2>3, <2>4, SendingKeeps
<1> QED
    BY <1>1, <1>2, <1>3, <1>4, <1>5, <1>6, <1>7, <1>8, <1>9, <1>10, <1>11, <1>12, <1>13, <1>14,
       <1>15, <1>16, <1>17, <1>18 DEF Next, System, User, Environment

-----------------------------------------------------------------------------
(* The theorems *)

LEMMA SessionInv == Spec => [](TypeOK /\ PageInv)
<1>1. Init => TypeOK /\ PageInv
    BY InitTypes, PageInit
<1>2. (TypeOK /\ PageInv) /\ [Next]_vars => (TypeOK /\ PageInv)'
    BY StepKeeps
<1> QED
    BY <1>1, <1>2, PTL DEF Spec

\* Every variable has its type in every reachable state; in particular the owner's
\* dialog never changes a copy that is not there (Drawing.UpdateSettings): types
\* alone do not imply that, Begun does.
THEOREM SessionTypes == Spec => []TypeOK
    BY SessionInv, PTL

\* At rest, a page that shows a drawing is subscribed: it gets every event.
LEMMA RestingPage ==
    ASSUME TypeOK, PageInv, Quiet, NEW o \in Openings, page[o[1]] = o
    PROVE  /\ o \in missed \/ model[o] = db
           /\ view[o] \in {"shown", "bound"}
<1>1. Active(o) /\ o[1] \in Clients /\ o # None
    BY SentinelAssumption DEF Active, Openings
<1>2. Sent(o[1]) = {} /\ answered = {}
    BY <1>1 DEF Quiet, Sent, Elements
<1>3. \A then \in Continuations : ~Awaits(o, then)
    BY <1>2, AwaitsMeans
<1>4. stream[o] = "live"
    BY <1>1, <1>3 DEF PageInv, Streaming, Quiet, TypeOK, StreamStates, Continuations
<1>5. o \in missed \/ UpToDate(o)
    BY <1>1, <1>3, <1>4 DEF PageInv, Told, Continuations
<1>6. UpToDate(o) => model[o] = db
    BY <1>2, <1>4 DEF UpToDate, Quiet
<1>7. view[o] \in {"shown", "bound"}
    BY <1>1 DEF PageInv, OnPage
<1> QED
    BY <1>5, <1>6, <1>7

\* However requests, events and the callbacks of several openings interleave, a
\* page at rest decides by the node's own settings and locks (DrawingModel, set
\* by SyncRemoteAttributesToLocal and by UpdateSettings).
THEOREM CopyFollowsNode == Spec => []ModelFollowsNode
<1>1. TypeOK /\ PageInv => ModelFollowsNode
    BY RestingPage DEF ModelFollowsNode
<1> QED
    BY <1>1, SessionInv, PTL

\* At rest nobody but the owner has a private drawing on the page, but those who
\* missed KickedOut while the page was being set up (SyncRemoteAttributesToLocal,
\* SetDrawing): that hole is the only one.
THEOREM PrivateIsGone == Spec => []PrivateMeansGone
<1>1. TypeOK /\ PageInv => PrivateMeansGone
    <2> SUFFICES ASSUME TypeOK, PageInv, Quiet, ~db.isPublic,
                        NEW c \in Clients \ {Owner}, page[c] # None
                 PROVE  page[c] \in missed
        BY DEF PrivateMeansGone
    <2>1. page[c] \in Openings /\ page[c][1] = c
        BY DEF TypeOK, PageInv, OnPage
    <2>2. page[c] \in missed \/ model[page[c]] = db
        BY <2>1, RestingPage
    <2>3. db # None
        BY SentinelAssumption DEF TypeOK
    <2> QED
        BY <2>1, <2>2, <2>3 DEF PageInv, PrivateGone
<1> QED
    BY <1>1, SessionInv, PTL

-----------------------------------------------------------------------------
(* The invariant of locks *)

\* A request sets the lock of s itself; a write of the whole model does not count,
\* for what it changes is disturbed.
Touches(r, s) == r.model = None /\ s \in DOMAIN r.locks

\* c's lock of s once the requests q are applied in order, if held is what it is now.
WillBe(q, held, s, c) ==
    \/ \E i \in DOMAIN q :
         /\ Touches(q[i], s) /\ q[i].locks[s] = c
         /\ \A j \in DOMAIN q : j > i => ~Touches(q[j], s)
    \/ held /\ \A i \in DOMAIN q : ~Touches(q[i], s)

Will(s, c) == WillBe(requests[c], db.selectedStrokes[s] = c, s, c)

LEMMA WillAppended ==
    ASSUME NEW q \in Seq(Request), NEW r \in Request, NEW held \in BOOLEAN, NEW s, NEW c
    PROVE  WillBe(Append(q, r), held, s, c) <=>
               IF Touches(r, s) THEN r.locks[s] = c ELSE WillBe(q, held, s, c)
<1> DEFINE p == Append(q, r)
           n == Len(q) + 1
<1>1. /\ DOMAIN p = DOMAIN q \cup {n} /\ p[n] = r /\ n \in Nat /\ n \notin DOMAIN q
      /\ \A i \in DOMAIN q : p[i] = q[i] /\ i \in Nat /\ i < n /\ ~(n < i)
    OBVIOUS
<1> HIDE DEF p, n
<1>2. CASE Touches(r, s)
    <2>1. \A i \in DOMAIN q : ~(\A j \in DOMAIN p : j > i => ~Touches(p[j], s))
        BY <1>1, <1>2
    <2>2. WillBe(p, held, s, c) <=> r.locks[s] = c
        <3>1. ~(\A i \in DOMAIN p : ~Touches(p[i], s))
            BY <1>1, <1>2
        <3>2. \A j \in DOMAIN p : ~(j > n)
            BY <1>1
        <3> QED
            BY <1>1, <1>2, <2>1, <3>1, <3>2 DEF WillBe
    <2> QED
        BY <1>2, <2>2 DEF p
<1>3. CASE ~Touches(r, s)
    <2>1. \A i \in DOMAIN p : Touches(p[i], s) => i \in DOMAIN q
        BY <1>1, <1>3
    <2>2. \A i \in DOMAIN q : (\A j \in DOMAIN p : j > i => ~Touches(p[j], s))
                                <=> (\A j \in DOMAIN q : j > i => ~Touches(q[j], s))
        BY <1>1, <1>3
    <2>3. (\A i \in DOMAIN p : ~Touches(p[i], s)) <=> (\A i \in DOMAIN q : ~Touches(q[i], s))
        BY <1>1, <1>3
    <2>4. WillBe(p, held, s, c) <=> WillBe(q, held, s, c)
        BY <1>1, <2>1, <2>2, <2>3 DEF WillBe
    <2> QED
        BY <1>3, <2>4 DEF p
<1> QED
    BY <1>2, <1>3

\* A request is applied: one that leaves the lock alone changes nothing, and the
\* earliest that sets it decides until the next.
LEMMA WillApplied ==
    ASSUME NEW q \in Seq(Request), NEW i \in DOMAIN q, NEW held \in BOOLEAN, NEW next \in BOOLEAN,
           NEW s, NEW c, NEW rest, DOMAIN rest = 1..(Len(q) - 1),
           \A j \in 1..(Len(q) - 1) : rest[j] = IF j < i THEN q[j] ELSE q[j + 1]
    PROVE  (IF Touches(q[i], s)
            THEN (\A j \in 1..(i - 1) : ~Touches(q[j], s)) /\ (next <=> q[i].locks[s] = c)
            ELSE next <=> held)
           => (WillBe(rest, next, s, c) <=> WillBe(q, held, s, c))
<1> DEFINE n == Len(q)
<1>1. /\ n \in Nat /\ DOMAIN q = 1..n /\ i \in 1..n
      /\ DOMAIN rest = 1..(n - 1)
      /\ \A j \in 1..(n - 1) : rest[j] = IF j < i THEN q[j] ELSE q[j + 1]
    OBVIOUS
<1> HIDE DEF n
<1> DEFINE Old(j) == IF j < i THEN j ELSE j + 1
           New(k) == IF k < i THEN k ELSE k - 1
<1>2. \A j \in DOMAIN rest : Old(j) \in DOMAIN q /\ Old(j) # i /\ New(Old(j)) = j /\ rest[j] = q[Old(j)]
    BY <1>1
<1>3. \A k \in DOMAIN q : k # i => New(k) \in DOMAIN rest /\ Old(New(k)) = k /\ rest[New(k)] = q[k]
    <2> SUFFICES ASSUME NEW k \in 1..n, k # i
                 PROVE  New(k) \in 1..(n - 1) /\ Old(New(k)) = k /\ rest[New(k)] = q[k]
        BY <1>1
    <2>1. New(k) \in 1..(n - 1) /\ Old(New(k)) = k
        BY <1>1
    <2> QED
        BY <1>1, <2>1
<1>4. \A j, k \in DOMAIN rest : j > k <=> Old(j) > Old(k)
    BY <1>1
<1> HIDE DEF Old, New
<1>5. ASSUME ~Touches(q[i], s), next <=> held
      PROVE  WillBe(rest, next, s, c) <=> WillBe(q, held, s, c)
    <2>1. (\A j \in DOMAIN rest : ~Touches(rest[j], s)) <=> (\A k \in DOMAIN q : ~Touches(q[k], s))
        BY <1>2, <1>3, <1>5
    <2>2. \A k \in DOMAIN rest : (\A j \in DOMAIN rest : j > k => ~Touches(rest[j], s))
                                 <=> (\A j \in DOMAIN q : j > Old(k) => ~Touches(q[j], s))
        BY <1>2, <1>3, <1>4, <1>5
    <2>3. (\E k \in DOMAIN rest : /\ Touches(rest[k], s) /\ rest[k].locks[s] = c
                                  /\ \A j \in DOMAIN rest : j > k => ~Touches(rest[j], s))
          <=> (\E k \in DOMAIN q : /\ Touches(q[k], s) /\ q[k].locks[s] = c
                                   /\ \A j \in DOMAIN q : j > k => ~Touches(q[j], s))
        <3>1. ASSUME NEW k \in DOMAIN rest, Touches(rest[k], s), rest[k].locks[s] = c,
                     \A j \in DOMAIN rest : j > k => ~Touches(rest[j], s)
              PROVE  \E m \in DOMAIN q : /\ Touches(q[m], s) /\ q[m].locks[s] = c
                                         /\ \A j \in DOMAIN q : j > m => ~Touches(q[j], s)
            BY <1>2, <2>2, <3>1
        <3>2. ASSUME NEW m \in DOMAIN q, Touches(q[m], s), q[m].locks[s] = c,
                     \A j \in DOMAIN q : j > m => ~Touches(q[j], s)
              PROVE  \E k \in DOMAIN rest : /\ Touches(rest[k], s) /\ rest[k].locks[s] = c
                                            /\ \A j \in DOMAIN rest : j > k => ~Touches(rest[j], s)
            <4>1. m # i
                BY <1>5, <3>2
            <4> QED
                BY <1>3, <2>2, <3>2, <4>1
        <3> QED
            BY <3>1, <3>2
    <2> QED
        BY <1>5, <2>1, <2>3 DEF WillBe
<1>6. ASSUME Touches(q[i], s), \A j \in 1..(i - 1) : ~Touches(q[j], s), next <=> q[i].locks[s] = c
      PROVE  WillBe(rest, next, s, c) <=> WillBe(q, held, s, c)
    <2>1. ~(\A k \in DOMAIN q : ~Touches(q[k], s))
        BY <1>6
    <2>2. \A k \in DOMAIN q : Touches(q[k], s) => k >= i
        BY <1>1, <1>6
    <2>3. (\A j \in DOMAIN q : j > i => ~Touches(q[j], s)) <=> (\A j \in DOMAIN rest : ~Touches(rest[j], s))
        <3>1. ASSUME NEW j \in DOMAIN rest, Touches(rest[j], s)
              PROVE  Old(j) \in DOMAIN q /\ Old(j) > i /\ Touches(q[Old(j)], s)
            <4>1. Old(j) \in 1..n /\ Old(j) # i /\ Touches(q[Old(j)], s)
                BY <1>1, <1>2, <3>1
            <4>2. Old(j) >= i
                BY <1>1, <2>2, <4>1
            <4> QED
                BY <1>1, <4>1, <4>2
        <3>2. \A j \in DOMAIN q : j > i => j # i
            BY <1>1
        <3> QED
            BY <1>3, <3>1, <3>2
    <2>4. \A k \in DOMAIN rest : (\A j \in DOMAIN rest : j > k => ~Touches(rest[j], s))
                                 <=> (\A j \in DOMAIN q : j > Old(k) /\ j # i => ~Touches(q[j], s))
        BY <1>2, <1>3, <1>4
    <2>5. ASSUME NEW k \in DOMAIN rest, Touches(rest[k], s)
          PROVE  \A j \in DOMAIN q : j > Old(k) => j # i
        BY <1>1, <1>2, <2>2, <2>5
    <2>6. ASSUME NEW k \in DOMAIN rest, Touches(rest[k], s), rest[k].locks[s] = c,
                 \A j \in DOMAIN rest : j > k => ~Touches(rest[j], s)
          PROVE  \E m \in DOMAIN q : /\ Touches(q[m], s) /\ q[m].locks[s] = c
                                     /\ \A j \in DOMAIN q : j > m => ~Touches(q[j], s)
        BY <1>2, <2>4, <2>5, <2>6
    <2>7. ASSUME NEW m \in DOMAIN q, m # i, Touches(q[m], s), q[m].locks[s] = c,
                 \A j \in DOMAIN q : j > m => ~Touches(q[j], s)
          PROVE  \E k \in DOMAIN rest : /\ Touches(rest[k], s) /\ rest[k].locks[s] = c
                                        /\ \A j \in DOMAIN rest : j > k => ~Touches(rest[j], s)
        BY <1>3, <2>4, <2>7
    <2>8. WillBe(rest, next, s, c) => WillBe(q, held, s, c)
        BY <1>6, <2>3, <2>6 DEF WillBe
    <2>9. ASSUME WillBe(q, held, s, c) PROVE WillBe(rest, next, s, c)
        <3>1. PICK m \in DOMAIN q : /\ Touches(q[m], s) /\ q[m].locks[s] = c
                                    /\ \A j \in DOMAIN q : j > m => ~Touches(q[j], s)
            BY <2>1, <2>9 DEF WillBe
        <3>2. CASE m = i
            BY <1>6, <2>3, <3>1, <3>2 DEF WillBe
        <3> QED
            BY <2>7, <3>1, <3>2 DEF WillBe
    <2> QED
        BY <2>8, <2>9
<1> QED
    BY <1>5, <1>6

OwnRequests == \A c \in Clients : \A r \in Sent(c) : r.from[1] = c

\* A client asks for one password at a time, and has no page meanwhile.
Prompted == \A o, p \in Openings : view[o] = "prompt" /\ o[1] = p[1] =>
    page[o[1]] = None /\ (view[p] = "prompt" => p = o)

\* Strokes are selected on a bound page, or were when the process ended.
Unbound == \A o \in Openings : selected[o] # {} => view[o] \in {"bound", "dead"}

DeadDisturbed == \A o \in Openings, s \in Strokes :
    view[o] = "dead" => <<s, o[1]>> \in disturbed

SideInv == OwnRequests /\ Prompted /\ Unbound /\ DeadDisturbed

\* c is going to hold the lock of s only if s is selected on a page that c is not
\* leaving; and if c is not, although s is selected, then c is leaving some page.
Accounted(s, c) ==
    /\ Will(s, c) => Holds(c, s)
    /\ \A o \in Openings : Will(s, c) /\ page[c] = o => ~IsRemoving(o)
    /\ Holds(c, s) /\ ~Will(s, c) =>
         \E o \in Openings : o[1] = c /\ view[o] = "bound" /\ IsRemoving(o)

\* The invariant of locks.
LockInv == SideInv /\ \A s \in Strokes, c \in Clients : <<s, c>> \notin disturbed => Accounted(s, c)

\* What the sender of a RemoveSelection does next.
Leaving == {"leave", "kick"}

LEMMA RemovingMeans ==
    \A o \in Openings :
        /\ IsRemoving(o) <=> \E r \in answered \cup Sent(o[1]) : r.from = o /\ r.then \in Leaving
        /\ IsRemoving(o)' <=> \E r \in answered' \cup Sent(o[1])' : r.from = o /\ r.then \in Leaving
    BY AwaitsMeans DEF IsRemoving, Continuations, Leaving

LEMMA Unaffected ==
    ASSUME NEW s, NEW c \in Clients, Accounted(s, c), page'[c] = page[c],
           page[c] # None => page[c] \in Openings /\ page[c][1] = c,
           \A o \in Openings : o[1] = c =>
               /\ selected'[o] = selected[o] /\ (IsRemoving(o)' <=> IsRemoving(o))
               /\ view[o] = "bound" => view'[o] = "bound",
           Will(s, c)' <=> Will(s, c)
    PROVE  Accounted(s, c)'
<1>1. Holds(c, s)' <=> Holds(c, s)
    BY DEF Holds
<1>2. \A o \in Openings : Will(s, c)' /\ page'[c] = o => ~IsRemoving(o)'
    <2> SUFFICES ASSUME NEW o \in Openings, Will(s, c)', page'[c] = o PROVE ~IsRemoving(o)'
        OBVIOUS
    <2>1. Holds(c, s) /\ ~IsRemoving(o)
        BY DEF Accounted
    <2> QED
        BY <2>1 DEF Holds
<1>3. Holds(c, s)' /\ ~Will(s, c)' =>
          \E o \in Openings : o[1] = c /\ view'[o] = "bound" /\ IsRemoving(o)'
    BY <1>1 DEF Accounted
<1> QED
    BY <1>1, <1>2, <1>3 DEF Accounted

\* Somebody else acts: c's requests and pages stay, and so does his lock.
LEMMA Elsewhere ==
    ASSUME TypeOK, PageInv, NEW s \in Strokes, NEW c \in Clients, Accounted(s, c),
           requests'[c] = requests[c], page'[c] = page[c],
           db'.selectedStrokes[s] = c <=> db.selectedStrokes[s] = c,
           \A o \in Openings : o[1] = c =>
               selected'[o] = selected[o] /\ (view[o] = "bound" => view'[o] = "bound"),
           \A r \in answered \cup answered' : r.from[1] = c => r \in answered /\ r \in answered'
    PROVE  Accounted(s, c)'
<1>1. page[c] # None => page[c] \in Openings /\ page[c][1] = c
    BY DEF PageInv, OnPage, TypeOK
<1>2. Sent(c)' = Sent(c)
    BY DEF Sent
<1>3. \A o \in Openings : o[1] = c => (IsRemoving(o)' <=> IsRemoving(o))
    BY <1>2, RemovingMeans
<1>4. Will(s, c)' <=> Will(s, c)
    BY DEF Will
<1> QED
    BY <1>1, <1>3, <1>4, Unaffected

LEMMA SideKeeps ==
    ASSUME TypeOK, SideInv, view' = view, disturbed \subseteq disturbed',
           \A c \in Clients : page'[c] \in {page[c], None},
           \A o \in Openings : view[o] = "bound" \/ selected'[o] \in {selected[o], {}},
           OwnRequests'
    PROVE  SideInv'
<1>1. \A o \in Openings : o[1] \in Clients
    BY DEF Openings
<1>2. Prompted'
    BY <1>1 DEF SideInv, Prompted
<1>3. Unbound'
    BY DEF SideInv, Unbound
<1>4. DeadDisturbed'
    BY DEF SideInv, DeadDisturbed
<1> QED
    BY <1>2, <1>3, <1>4 DEF SideInv

\* What the requests of c say of his lock after one more.
LEMMA SendWill ==
    ASSUME TypeOK, NEW c \in Clients, NEW r \in Request, Send(c, r), UNCHANGED db
    PROVE  /\ \A d \in Clients : d # c => requests'[d] = requests[d]
           /\ \A s \in Strokes :
                Will(s, c)' <=> IF Touches(r, s) THEN r.locks[s] = c ELSE Will(s, c)
           /\ OwnRequests /\ r.from[1] = c => OwnRequests'
<1>1. requests \in [Clients -> Seq(Request)] /\ requests[c] \in Seq(Request)
    BY DEF TypeOK
<1>2. requests' = [requests EXCEPT ![c] = Append(requests[c], r)]
    BY DEF Send
<1>3. requests'[c] = Append(requests[c], r) /\ \A d \in Clients : d # c => requests'[d] = requests[d]
    BY <1>1, <1>2
<1>4. \A s \in Strokes : Will(s, c)' <=> IF Touches(r, s) THEN r.locks[s] = c ELSE Will(s, c)
    <2> SUFFICES ASSUME NEW s \in Strokes
                 PROVE  Will(s, c)' <=> IF Touches(r, s) THEN r.locks[s] = c ELSE Will(s, c)
        OBVIOUS
    <2> DEFINE held == db.selectedStrokes[s] = c
    <2>1. held \in BOOLEAN
        OBVIOUS
    <2>2. Will(s, c) <=> WillBe(requests[c], held, s, c)
        BY DEF Will
    <2>3. Will(s, c)' <=> WillBe(Append(requests[c], r), held, s, c)
        BY <1>3 DEF Will
    <2> HIDE DEF held
    <2> QED
        BY <1>1, <2>1, <2>2, <2>3, WillAppended
<1>5. OwnRequests /\ r.from[1] = c => OwnRequests'
    BY SendTypes DEF OwnRequests
<1> QED
    BY <1>3, <1>4, <1>5

\* Nothing that the locks depend on changes, but for answers nobody waits for.
LEMMA CalmKeeps ==
    ASSUME TypeOK, PageInv, LockInv,
           UNCHANGED <<db, requests, page, view, selected, disturbed>>,
           answered' \subseteq answered, \A r \in answered : r.then \in Leaving => r \in answered'
    PROVE  LockInv'
<1>1. \A c \in Clients : Sent(c)' = Sent(c)
    BY DEF Sent
<1>2. SideInv'
    <2>1. OwnRequests'
        BY <1>1 DEF LockInv, SideInv, OwnRequests
    <2> QED
        BY <2>1, SideKeeps DEF LockInv
<1>3. \A o \in Openings : o[1] \in Clients /\ (IsRemoving(o)' <=> IsRemoving(o))
    <2>1. \A o \in Openings : o[1] \in Clients
        BY DEF Openings
    <2> QED
        BY <1>1, <2>1, RemovingMeans
<1>4. ASSUME NEW s \in Strokes, NEW c \in Clients, <<s, c>> \notin disturbed' PROVE Accounted(s, c)'
    <2>1. Accounted(s, c)
        BY <1>4 DEF LockInv
    <2>2. page[c] # None => page[c] \in Openings /\ page[c][1] = c
        BY DEF PageInv, OnPage, TypeOK
    <2>3. Will(s, c)' <=> Will(s, c)
        BY DEF Will
    <2> QED
        BY <1>3, <2>1, <2>2, <2>3, Unaffected
<1> QED
    BY <1>2, <1>4 DEF LockInv

LEMMA CalmSteps ==
    ASSUME TypeOK, PageInv, LockInv, NEW o \in Openings,
           \/ Subscribe(o) \/ Connect(o) \/ EndStream(o)
           \/ SyncRemoteAttributesToLocal(o) /\ ~Excludes(o, Head(feed[o]))
    PROVE  LockInv'
<1>1. UNCHANGED <<db, requests, page, view, selected, disturbed>>
    BY DEF Subscribe, Connect, EndStream, SyncRemoteAttributesToLocal, nodeVars, clientVars, historyVars
<1>2. answered' \subseteq answered /\ \A r \in answered : r.then \in Leaving => r \in answered'
    <2>1. CASE Subscribe(o)
        BY <2>1 DEF Subscribe, Leaving
    <2>2. CASE ~Subscribe(o)
        BY <2>2 DEF Connect, EndStream, SyncRemoteAttributesToLocal, nodeVars
    <2> QED
        BY <2>1, <2>2
<1> QED
    BY <1>1, <1>2, CalmKeeps

\* The whole model is written: locks that this changes are disturbed when it is applied.
LEMMA WriteModelKeeps ==
    ASSUME TypeOK, PageInv, LockInv, NEW o \in Openings, NEW m \in Model,
           Send(o[1], WriteModel(o, m, "nothing")),
           UNCHANGED <<db, answered, page, view, selected, disturbed>>
    PROVE  LockInv'
<1> DEFINE c == o[1]
           r == WriteModel(o, m, "nothing")
<1>1. c \in Clients /\ \A p \in Openings : p[1] \in Clients
    BY DEF Openings
<1>2. /\ r \in Request /\ r.from = o /\ r.then \notin Leaving /\ \A s \in Strokes : ~Touches(r, s)
    BY RequestTypes, SentinelAssumption DEF Continuations, WriteModel, Touches, Leaving
<1>3. Send(c, r)
    OBVIOUS
<1> HIDE DEF r
<1>4. OwnRequests' /\ \A s \in Strokes, d \in Clients : Will(s, d)' <=> Will(s, d)
    <2>1. /\ \A d \in Clients : d # c => requests'[d] = requests[d]
          /\ \A s \in Strokes : Will(s, c)' <=> Will(s, c)
          /\ OwnRequests'
        BY <1>1, <1>2, <1>3, SendWill DEF LockInv, SideInv
    <2>2. \A s \in Strokes, d \in Clients : d # c => (Will(s, d)' <=> Will(s, d))
        BY <2>1 DEF Will
    <2> QED
        BY <2>1, <2>2
<1>5. SideInv'
    BY <1>4, SideKeeps DEF LockInv
<1>6. \A p \in Openings : IsRemoving(p)' <=> IsRemoving(p)
    <2>1. Sent(c)' = Sent(c) \cup {r} /\ \A d \in Clients : d # c => Sent(d)' = Sent(d)
        BY <1>1, <1>2, <1>3, SendTypes
    <2> QED
        BY <1>1, <1>2, <2>1, RemovingMeans
<1>7. ASSUME NEW s \in Strokes, NEW d \in Clients, <<s, d>> \notin disturbed' PROVE Accounted(s, d)'
    <2>1. Accounted(s, d)
        BY <1>7 DEF LockInv
    <2>2. page[d] # None => page[d] \in Openings /\ page[d][1] = d
        BY DEF PageInv, OnPage, TypeOK
    <2> QED
        BY <1>4, <1>6, <2>1, <2>2, Unaffected
<1> QED
    BY <1>5, <1>7 DEF LockInv

LEMMA WriteModelSteps ==
    /\ TypeOK /\ PageInv /\ LockInv /\ (\E c \in Clients : SaveDimensions(c)) => LockInv'
    /\ TypeOK /\ PageInv /\ LockInv /\ (\E setting \in Setting : UpdateSettings(setting)) => LockInv'
<1>1. ASSUME TypeOK, PageInv, LockInv, NEW c \in Clients, SaveDimensions(c) PROVE LockInv'
    <2>1. PICK o \in Openings :
            /\ page[c] = o /\ Send(c, WriteModel(o, model[o], "nothing"))
            /\ UNCHANGED <<db, answered, page, view, selected, disturbed>>
        BY <1>1 DEF SaveDimensions, IsWorking, clientVars, historyVars
    <2>2. o[1] = c /\ model[o] \in Model
        <3>1. page[c] # None
            BY <2>1, SentinelAssumption
        <3>2. o[1] = c /\ view[o] # "unused"
            BY <1>1, <2>1, <3>1 DEF PageInv, OnPage
        <3> QED
            BY <1>1, <3>2 DEF PageInv, Begun, TypeOK
    <2> QED
        BY <1>1, <2>1, <2>2, WriteModelKeeps
<1>2. ASSUME TypeOK, PageInv, LockInv, NEW setting \in Setting, UpdateSettings(setting) PROVE LockInv'
    <2>1. PICK o \in Openings :
            LET m == [model[o] EXCEPT !.isPublic = setting[1], !.isProtected = setting[2]] IN
            /\ page[Owner] = o /\ Send(Owner, WriteModel(o, m, "nothing"))
            /\ UNCHANGED <<db, answered, page, view, selected, disturbed>>
        BY <1>2 DEF UpdateSettings, IsWorking, historyVars
    <2> DEFINE m == [model[o] EXCEPT !.isPublic = setting[1], !.isProtected = setting[2]]
    <2>2. o[1] = Owner /\ m \in Model
        <3>1. page[Owner] # None
            BY <2>1, SentinelAssumption
        <3>2. o[1] = Owner /\ view[o] # "unused"
            BY <1>2, <2>1, <3>1, ClientsAssumption DEF PageInv, OnPage
        <3>3. model[o] \in Model
            BY <1>2, <3>2 DEF PageInv, Begun, TypeOK
        <3> QED
            BY <3>2, <3>3 DEF Model, Setting
    <2>3. Send(Owner, WriteModel(o, m, "nothing"))
        BY <2>1
    <2> HIDE DEF m
    <2> QED
        BY <1>2, <2>1, <2>2, <2>3, WriteModelKeeps
<1> QED
    BY <1>1, <1>2

\* RemoveSelection, because the user leaves or is sent away: the locks will go, and
\* who still has the strokes selected is now leaving.
LEMMA RemovalKeeps ==
    ASSUME TypeOK, PageInv, LockInv, NEW o \in Openings, NEW then \in Leaving,
           NEW event \in Model \cup {None}, RemoveSelection(o, then, event),
           UNCHANGED <<db, answered, page, view, selected, disturbed>>
    PROVE  LockInv'
<1> DEFINE c == o[1]
           r == PatchLocks(o, Released(selected[o]), then, event)
<1>1. c \in Clients /\ selected[o] \in SUBSET Strokes /\ \A p \in Openings : p[1] \in Clients
    BY DEF Openings, TypeOK
<1>2. r \in Request /\ r.from = o /\ r.then \in Leaving
    BY <1>1, RequestTypes, ReleasedTypes DEF PatchLocks, Leaving, Continuations
<1>3. \A s \in Strokes : /\ Touches(r, s) <=> s \in selected[o]
                         /\ s \in selected[o] => r.locks[s] # c
    BY <1>1, ClientsAssumption DEF PatchLocks, Released, Touches
<1>4. Send(c, r)
    BY DEF RemoveSelection
<1> HIDE DEF r
<1>5. /\ \A d \in Clients : d # c => requests'[d] = requests[d]
      /\ \A s \in Strokes : Will(s, c)' <=> s \notin selected[o] /\ Will(s, c)
      /\ OwnRequests'
    BY <1>1, <1>2, <1>3, <1>4, SendWill DEF LockInv, SideInv
<1>6. SideInv'
    BY <1>5, SideKeeps DEF LockInv
<1>7. \A p \in Openings : p # o => (IsRemoving(p)' <=> IsRemoving(p))
    <2>1. Sent(c)' = Sent(c) \cup {r} /\ \A d \in Clients : d # c => Sent(d)' = Sent(d)
        BY <1>1, <1>2, <1>4, SendTypes
    <2> QED
        BY <1>1, <1>2, <2>1, RemovingMeans
<1>8. IsRemoving(o)'
    <2>1. r \in Sent(c)'
        BY <1>1, <1>2, <1>4, SendTypes
    <2> QED
        BY <1>2, <2>1, RemovingMeans
<1>9. ASSUME NEW s \in Strokes, <<s, c>> \notin disturbed' PROVE Accounted(s, c)'
    <2>1. Accounted(s, c)
        BY <1>1, <1>9 DEF LockInv
    <2>2. Holds(c, s)' <=> Holds(c, s)
        BY DEF Holds
    <2>3. Will(s, c)' => Holds(c, s)'
        BY <1>5, <2>1, <2>2 DEF Accounted
    <2>4. ASSUME NEW p \in Openings, Will(s, c)', page'[c] = p PROVE ~IsRemoving(p)'
        <3>1. p # o
            BY <1>5, <2>3, <2>4 DEF Holds
        <3> QED
            BY <1>5, <1>7, <2>1, <2>4, <3>1 DEF Accounted
    <2>5. ASSUME Holds(c, s)', ~Will(s, c)'
          PROVE  \E p \in Openings : p[1] = c /\ view'[p] = "bound" /\ IsRemoving(p)'
        <3>1. CASE Will(s, c)
            <4>1. view[o] # "dead"
                BY <1>1, <1>9 DEF LockInv, SideInv, DeadDisturbed
            <4>2. view[o] = "bound"
                BY <1>5, <2>5, <3>1, <4>1 DEF LockInv, SideInv, Unbound
            <4> QED
                BY <1>8, <4>2
        <3>2. CASE ~Will(s, c)
            <4>1. PICK p \in Openings : p[1] = c /\ view[p] = "bound" /\ IsRemoving(p)
                BY <2>1, <2>2, <2>5, <3>2 DEF Accounted
            <4> QED
                BY <1>7, <1>8, <4>1
        <3> QED
            BY <3>1, <3>2
    <2> QED
        BY <2>3, <2>4, <2>5 DEF Accounted
<1>10. ASSUME NEW s \in Strokes, NEW d \in Clients, d # c, <<s, d>> \notin disturbed'
       PROVE  Accounted(s, d)'
    <2>1. Accounted(s, d)
        BY <1>10 DEF LockInv
    <2> QED
        BY <1>5, <1>10, <2>1, Elsewhere
<1> QED
    BY <1>6, <1>9, <1>10 DEF LockInv

LEMMA RemovalSteps ==
    /\ TypeOK /\ PageInv /\ LockInv /\ (\E c \in Clients : GoBack(c)) => LockInv'
    /\ TypeOK /\ PageInv /\ LockInv /\ (\E o \in Openings : SyncRemoteAttributesToLocal(o)) => LockInv'
<1>1. ASSUME TypeOK, PageInv, LockInv, NEW c \in Clients, GoBack(c) PROVE LockInv'
    <2>1. PICK o \in Openings :
            /\ RemoveSelection(o, "leave", None)
            /\ UNCHANGED <<db, answered, page, view, selected, disturbed>>
        BY <1>1 DEF GoBack, clientVars, historyVars
    <2> QED
        BY <1>1, <2>1, RemovalKeeps DEF Leaving
<1>2. ASSUME TypeOK, PageInv, LockInv, NEW o \in Openings, SyncRemoteAttributesToLocal(o) PROVE LockInv'
    <2>1. CASE ~Excludes(o, Head(feed[o]))
        BY <1>2, <2>1, CalmSteps
    <2>2. CASE Excludes(o, Head(feed[o]))
        <3>1. /\ RemoveSelection(o, "kick", Head(feed[o]))
              /\ UNCHANGED <<db, answered, page, view, selected, disturbed>>
            BY <1>2, <2>2 DEF SyncRemoteAttributesToLocal, historyVars
        <3>2. Head(feed[o]) \in Model
            BY <1>2, HeadTailProperties DEF SyncRemoteAttributesToLocal, TypeOK
        <3> QED
            BY <1>2, <3>1, <3>2, RemovalKeeps DEF Leaving
    <2> QED
        BY <2>1, <2>2
<1> QED
    BY <1>1, <1>2

\* The selection of a page becomes now, and so will the locks, unless the copy of the
\* model is behind or the page is being left.
LEMMA SelectionWill ==
    ASSUME TypeOK, PageInv, LockInv, NEW o \in Openings, NEW now \in SUBSET Strokes,
           view[o] = "bound", page[o[1]] = o, ChangeSelection(o, now), UNCHANGED db
    PROVE  /\ \A d \in Clients : d # o[1] => requests'[d] = requests[d]
           /\ OwnRequests' /\ disturbed \subseteq disturbed'
           /\ selected'[o] = now /\ \A p \in Openings : p # o => selected'[p] = selected[p]
           /\ \A s \in Strokes : <<s, o[1]>> \notin disturbed' =>
                  (Will(s, o[1])' <=> s \in now) /\ (s \in now => ~IsRemoving(o))
<1> DEFINE c == o[1]
           r == PatchLocks(o, Selection(o, now), "nothing", None)
<1>1. c \in Clients /\ NoOne # c /\ Mine(o) \subseteq Strokes /\ page[c] # None
    BY ClientsAssumption, SentinelAssumption DEF Openings, Mine
<1>2. r \in Request /\ r.from[1] = c
    BY SelectionTypes DEF PatchLocks
<1>3. \A s \in Strokes : /\ Touches(r, s) <=> s \in Mine(o) \cup now
                         /\ s \in Mine(o) \cup now => (r.locks[s] = c <=> s \in now)
    BY <1>1 DEF PatchLocks, Selection, Touches
<1>4. /\ selected' = [selected EXCEPT ![o] = now]
      /\ disturbed' = disturbed \cup (Neglected(o, now) \X {c})
      /\ IF Mine(o) \cup now = {} THEN UNCHANGED requests ELSE Send(c, r)
    BY DEF ChangeSelection
<1> HIDE DEF r
<1>5. /\ \A d \in Clients : d # c => requests'[d] = requests[d]
      /\ OwnRequests'
      /\ \A s \in Strokes : Will(s, c)' <=> IF s \in Mine(o) \cup now THEN s \in now ELSE Will(s, c)
    <2>1. CASE Mine(o) \cup now = {}
        BY <1>4, <2>1 DEF LockInv, SideInv, OwnRequests, Sent, Will
    <2>2. CASE Mine(o) \cup now # {}
        BY <1>1, <1>2, <1>3, <1>4, <2>2, SendWill DEF LockInv, SideInv
    <2> QED
        BY <2>1, <2>2
<1>6. ASSUME NEW s \in Strokes, <<s, c>> \notin disturbed'
      PROVE  (Will(s, c)' <=> s \in now) /\ (s \in now => ~IsRemoving(o))
    <2>1. s \notin Neglected(o, now) /\ <<s, c>> \notin disturbed
        BY <1>4, <1>6
    <2>2. Accounted(s, c)
        BY <1>1, <2>1 DEF LockInv
    <2>3. s \in now => ~IsRemoving(o)
        BY <2>1 DEF Neglected
    <2>4. CASE s \in Mine(o) \cup now
        BY <1>5, <2>3, <2>4
    <2>5. CASE s \notin Mine(o) \cup now
        <3>1. s \notin selected[o]
            BY <2>1, <2>5 DEF Neglected
        <3>2. ~Will(s, c)
            BY <2>2, <3>1 DEF Accounted, Holds
        <3> QED
            BY <1>5, <2>5, <3>2
    <2> QED
        BY <2>4, <2>5
<1> QED
    BY <1>1, <1>4, <1>5, <1>6 DEF TypeOK

LEMMA SelectionStep == TypeOK /\ PageInv /\ LockInv /\ (\E c \in Clients : OnSelectionChanged(c)) => LockInv'
<1> SUFFICES ASSUME TypeOK, PageInv, LockInv, NEW c \in Clients, OnSelectionChanged(c) PROVE LockInv'
    OBVIOUS
<1>1. PICK o \in Openings, now \in SUBSET Strokes :
        /\ page[c] = o /\ view[o] = "bound" /\ ChangeSelection(o, now)
        /\ UNCHANGED <<db, answered, page, view>>
    BY DEF OnSelectionChanged, IsWorking
<1>2. o[1] = c /\ page[c] # None
    BY <1>1, SentinelAssumption DEF PageInv, OnPage
<1>3. /\ \A d \in Clients : d # c => requests'[d] = requests[d]
      /\ OwnRequests' /\ disturbed \subseteq disturbed'
      /\ selected'[o] = now /\ \A p \in Openings : p # o => selected'[p] = selected[p]
      /\ \A s \in Strokes : <<s, c>> \notin disturbed' =>
             (Will(s, c)' <=> s \in now) /\ (s \in now => ~IsRemoving(o))
    BY <1>1, <1>2, SelectionWill
<1>4. SideInv'
    BY <1>1, <1>3, SideKeeps DEF LockInv
<1>5. IsRemoving(o)' <=> IsRemoving(o)
    <2>1. \A q \in Sent(c)' : q \in Sent(c) \/ q.then = "nothing"
        BY <1>1, ChangeSelectionTypes
    <2>2. Sent(c) \subseteq Sent(c)'
        BY <1>1, ChangeSelectionTypes
    <2> QED
        BY <1>1, <1>2, <2>1, <2>2, RemovingMeans DEF Leaving
<1>6. ASSUME NEW s \in Strokes, <<s, c>> \notin disturbed' PROVE Accounted(s, c)'
    <2>1. Holds(c, s)' <=> s \in now
        BY <1>1, <1>2, <1>3 DEF Holds
    <2> QED
        BY <1>1, <1>3, <1>5, <1>6, <2>1 DEF Accounted
<1>7. ASSUME NEW s \in Strokes, NEW d \in Clients, d # c, <<s, d>> \notin disturbed'
      PROVE  Accounted(s, d)'
    <2>1. Accounted(s, d)
        BY <1>3, <1>7 DEF LockInv
    <2>2. \A p \in Openings : p[1] = d => p # o
        BY <1>2, <1>7
    <2> QED
        BY <1>1, <1>3, <1>7, <2>1, <2>2, Elsewhere
<1> QED
    BY <1>4, <1>6, <1>7 DEF LockInv

\* The page is gone: c holds nothing, and is going to hold nothing.
LEMMA PageGone ==
    ASSUME NEW s, NEW c \in Clients, page'[c] = None, ~Will(s, c)'
    PROVE  Accounted(s, c)'
<1>1. ~Holds(c, s)'
    BY DEF Holds
<1> QED
    BY <1>1 DEF Accounted

LEMMA ContinueGoBackStep ==
    TypeOK /\ PageInv /\ LockInv /\ (\E o \in Openings : ContinueGoBack(o)) => LockInv'
<1> SUFFICES ASSUME TypeOK, PageInv, LockInv, NEW o \in Openings, ContinueGoBack(o) PROVE LockInv'
    OBVIOUS
<1> DEFINE c == o[1]
           p == page[c]
           Clears == p # None /\ view[p] = "bound" /\ selected[p] # {}
<1>1. c \in Clients
    BY DEF Openings
<1>2. PICK r \in answered :
        /\ r.from = o /\ answered' = answered \ {r}
        /\ page' = [page EXCEPT ![c] = None]
        /\ IF Clears THEN ChangeSelection(p, {}) ELSE UNCHANGED <<selected, requests, disturbed>>
        /\ UNCHANGED <<db, view>>
    BY DEF ContinueGoBack
<1> HIDE DEF c
<1>3. page'[c] = None /\ \A d \in Clients : d # c => page'[d] = page[d]
    BY <1>1, <1>2 DEF TypeOK
<1>4. p # None => p \in Openings /\ p[1] = c /\ view[p] \in {"shown", "bound"}
    BY <1>1 DEF PageInv, OnPage, TypeOK
<1> HIDE DEF p
<1>5. /\ \A d \in Clients : d # c => requests'[d] = requests[d]
      /\ OwnRequests' /\ disturbed \subseteq disturbed'
      /\ \A q \in Openings : selected'[q] \in {selected[q], {}} /\ (q[1] # c => selected'[q] = selected[q])
      /\ \A s \in Strokes : <<s, c>> \notin disturbed' => ~Will(s, c)'
    <2>1. CASE Clears
        <3>1. ChangeSelection(p, {}) /\ p \in Openings /\ p[1] = c /\ view[p] = "bound" /\ page[p[1]] = p
            BY <1>2, <1>4, <2>1 DEF p
        <3>2. /\ \A d \in Clients : d # c => requests'[d] = requests[d]
              /\ OwnRequests' /\ disturbed \subseteq disturbed'
              /\ selected'[p] = {} /\ \A q \in Openings : q # p => selected'[q] = selected[q]
              /\ \A s \in Strokes : <<s, c>> \notin disturbed' => (Will(s, c)' <=> s \in {})
            BY <1>2, <3>1, SelectionWill
        <3>3. \A q \in Openings : selected'[q] \in {selected[q], {}} /\ (q[1] # c => selected'[q] = selected[q])
            BY <3>1, <3>2
        <3> QED
            BY <3>2, <3>3
    <2>2. CASE ~Clears
        <3>1. UNCHANGED <<selected, requests, disturbed>>
            BY <1>2, <2>2
        <3>2. \A s \in Strokes : ~Holds(c, s)
            BY <1>4, <2>2 DEF LockInv, SideInv, Unbound, Holds, p
        <3>3. \A s \in Strokes : <<s, c>> \notin disturbed' => ~Will(s, c)'
            BY <1>1, <1>2, <3>1, <3>2 DEF LockInv, Accounted, Will
        <3>4. OwnRequests'
            BY <3>1 DEF LockInv, SideInv, OwnRequests, Sent
        <3> QED
            BY <3>1, <3>3, <3>4
    <2> QED
        BY <2>1, <2>2
<1> HIDE DEF Clears
<1>6. SideInv'
    BY <1>2, <1>3, <1>5, SideKeeps DEF LockInv
<1>7. ASSUME NEW s \in Strokes, <<s, c>> \notin disturbed' PROVE Accounted(s, c)'
    BY <1>1, <1>3, <1>5, <1>7, PageGone
<1>8. ASSUME NEW s \in Strokes, NEW d \in Clients, d # c, <<s, d>> \notin disturbed'
      PROVE  Accounted(s, d)'
    <2>1. Accounted(s, d)
        BY <1>5, <1>8 DEF LockInv
    <2>2. r.from[1] # d
        BY <1>2, <1>8 DEF c
    <2> QED
        BY <1>2, <1>3, <1>5, <1>8, <2>1, <2>2, Elsewhere
<1> QED
    BY <1>6, <1>7, <1>8 DEF LockInv

LEMMA ContinueKickStep ==
    TypeOK /\ PageInv /\ LockInv /\ (\E o \in Openings : ContinueKick(o)) => LockInv'
<1> SUFFICES ASSUME TypeOK, PageInv, LockInv, NEW o \in Openings, ContinueKick(o) PROVE LockInv'
    OBVIOUS
<1> DEFINE c == o[1]
           p == page[c]
<1>1. c \in Clients /\ o # None
    BY SentinelAssumption DEF Openings
<1>2. PICK r \in answered :
        /\ r.from = o /\ r.then = "kick" /\ answered' = answered \ {r}
        /\ IF view[o] = "bound"
           THEN /\ page' = [page EXCEPT ![c] = None]
                /\ disturbed' = disturbed \cup IF p \notin {None, o} THEN selected[p] \X {c} ELSE {}
           ELSE UNCHANGED <<page, disturbed>>
        /\ UNCHANGED <<db, requests, view, selected>>
    BY DEF ContinueKick
<1>3. disturbed \subseteq disturbed' /\ \A d \in Clients : d # c => page'[d] = page[d]
    BY <1>1, <1>2 DEF TypeOK
<1>4. \A s \in Strokes, d \in Clients : Will(s, d)' <=> Will(s, d)
    BY <1>2 DEF Will
<1>5. \A d \in Clients : Sent(d)' = Sent(d)
    BY <1>2 DEF Sent
<1>6. OwnRequests'
    BY <1>5 DEF LockInv, SideInv, OwnRequests
<1>7. SideInv'
    BY <1>2, <1>3, <1>6, SideKeeps DEF LockInv, TypeOK
<1>8. ASSUME NEW s \in Strokes, <<s, c>> \notin disturbed', view[o] = "bound" PROVE Accounted(s, c)'
    <2>1. page'[c] = None
        BY <1>1, <1>2, <1>8 DEF TypeOK
    <2>2. Accounted(s, c)
        BY <1>1, <1>3, <1>8 DEF LockInv
    <2>3. ~Will(s, c)
        <3>1. CASE p = o
            <4>1. IsRemoving(o)
                BY <1>2, RemovingMeans DEF Leaving
            <4> QED
                BY <2>2, <3>1, <4>1 DEF Accounted
        <3>2. CASE p # o
            <4>1. ~Holds(c, s)
                BY <1>2, <1>8, <3>2 DEF Holds
            <4> QED
                BY <2>2, <4>1 DEF Accounted
        <3> QED
            BY <3>1, <3>2
    <2> QED
        BY <1>1, <1>4, <2>1, <2>3, PageGone
<1>9. ASSUME NEW s \in Strokes, <<s, c>> \notin disturbed', view[o] # "bound" PROVE Accounted(s, c)'
    <2>1. Accounted(s, c)
        BY <1>1, <1>3, <1>9 DEF LockInv
    <2>2. UNCHANGED <<page, view, selected>> /\ (Holds(c, s)' <=> Holds(c, s))
        BY <1>2, <1>9 DEF Holds
    <2>3. \A q \in Openings : /\ q[1] \in Clients
                              /\ IsRemoving(q)' => IsRemoving(q)
                              /\ q # o /\ IsRemoving(q) => IsRemoving(q)'
        <3>1. \A q \in Openings : q[1] \in Clients
            BY DEF Openings
        <3> QED
            BY <1>2, <1>5, <3>1, RemovingMeans
    <2> QED
        BY <1>4, <1>9, <2>1, <2>2, <2>3 DEF Accounted
<1>10. ASSUME NEW s \in Strokes, NEW d \in Clients, d # c, <<s, d>> \notin disturbed'
       PROVE  Accounted(s, d)'
    <2>1. Accounted(s, d)
        BY <1>3, <1>10 DEF LockInv
    <2> QED
        BY <1>2, <1>3, <1>10, <2>1, Elsewhere
<1> QED
    BY <1>7, <1>8, <1>9, <1>10 DEF LockInv

\* A new drawing starts with nothing selected, from no page.
LEMMA GetDrawingStep ==
    TypeOK /\ PageInv /\ LockInv /\ (\E o \in Openings : GetDrawing(o)) => LockInv'
<1> SUFFICES ASSUME TypeOK, PageInv, LockInv, NEW o \in Openings, GetDrawing(o) PROVE LockInv'
    OBVIOUS
<1> DEFINE c == o[1]
           r == WriteModel(o, db, "subscribe")
<1>1. c \in Clients /\ o # None /\ \A p \in Openings : p[1] = c => \E n \in 1..MaxOpens : p = <<c, n>>
    BY SentinelAssumption DEF Openings
<1>2. /\ view[o] = "unused" /\ page[c] = None /\ \A n \in 1..MaxOpens : view[<<c, n>>] # "prompt"
      /\ UNCHANGED <<db, answered, selected, disturbed>>
    BY DEF GetDrawing, historyVars
<1>3. \/ view' = [view EXCEPT ![o] = "prompt"] /\ page' = page
      \/ view' = [view EXCEPT ![o] = "shown"] /\ page' = [page EXCEPT ![c] = o]
    BY DEF GetDrawing, SelectDrawing
<1>4. r \in Request /\ r.from = o /\ \A s \in Strokes : ~Touches(r, s)
    BY RequestTypes, SentinelAssumption DEF Continuations, WriteModel, Touches, TypeOK
<1>5. Send(c, r)
    BY DEF GetDrawing, ToggleSync
<1> HIDE DEF r, c
<1>6. /\ \A d \in Clients : d # c => requests'[d] = requests[d]
      /\ \A s \in Strokes : Will(s, c)' <=> Will(s, c)
      /\ OwnRequests'
    BY <1>1, <1>2, <1>4, <1>5, SendWill DEF LockInv, SideInv, c
<1>7. /\ view'[o] \in {"prompt", "shown"} /\ \A p \in Openings : p # o => view'[p] = view[p]
      /\ \A d \in Clients : d # c => page'[d] = page[d]
      /\ page'[c] \in {None, o} /\ (view'[o] = "prompt" => page'[c] = None)
    BY <1>1, <1>2, <1>3 DEF TypeOK
<1>8. selected[o] = {}
    BY <1>2 DEF LockInv, SideInv, Unbound
<1>9. SideInv'
    <2>1. Prompted'
        <3> SUFFICES ASSUME NEW p \in Openings, NEW q \in Openings, view'[p] = "prompt", p[1] = q[1]
                     PROVE  page'[p[1]] = None /\ (view'[q] = "prompt" => q = p)
            BY DEF Prompted
        <3>1. CASE p[1] = c
            BY <1>1, <1>2, <1>7, <3>1
        <3>2. CASE p[1] # c
            <4>1. p # o /\ q # o /\ p[1] \in Clients
                BY <3>2 DEF c, Openings
            <4> QED
                BY <1>7, <3>2, <4>1 DEF LockInv, SideInv, Prompted
        <3> QED
            BY <3>1, <3>2
    <2>2. Unbound'
        BY <1>2, <1>7, <1>8 DEF LockInv, SideInv, Unbound
    <2>3. DeadDisturbed'
        BY <1>2, <1>7 DEF LockInv, SideInv, DeadDisturbed
    <2> QED
        BY <1>6, <2>1, <2>2, <2>3 DEF SideInv
<1>10. ASSUME NEW s \in Strokes, <<s, c>> \notin disturbed' PROVE Accounted(s, c)'
    <2>1. ~Holds(c, s) /\ ~Holds(c, s)'
        BY <1>2, <1>7, <1>8 DEF Holds
    <2>2. ~Will(s, c)
        BY <1>1, <1>2, <1>10, <2>1 DEF LockInv, Accounted
    <2> QED
        BY <1>6, <2>1, <2>2 DEF Accounted
<1>11. ASSUME NEW s \in Strokes, NEW d \in Clients, d # c, <<s, d>> \notin disturbed'
       PROVE  Accounted(s, d)'
    <2>1. Accounted(s, d)
        BY <1>2, <1>11 DEF LockInv
    <2>2. \A p \in Openings : p[1] = d => p # o
        BY <1>11 DEF c
    <2> QED
        BY <1>2, <1>6, <1>7, <1>11, <2>1, <2>2, Elsewhere
<1> QED
    BY <1>9, <1>10, <1>11 DEF LockInv

\* Entering or dismissing the password, and binding the commands.
LEMMA ViewSteps ==
    TypeOK /\ PageInv /\ LockInv
        /\ (\E o \in Openings : EnterPassword(o) \/ DismissPrompt(o) \/ BindEvents(o)) => LockInv'
<1> SUFFICES ASSUME TypeOK, PageInv, LockInv, NEW o \in Openings,
                    EnterPassword(o) \/ DismissPrompt(o) \/ BindEvents(o)
             PROVE  LockInv'
    OBVIOUS
<1> DEFINE c == o[1]
<1>1. c \in Clients /\ o # None /\ UNCHANGED <<db, requests, answered, selected, disturbed>>
    BY SentinelAssumption DEF EnterPassword, DismissPrompt, BindEvents, Openings, nodeVars, historyVars
<1>2. /\ view[o] \in {"prompt", "shown"} /\ view'[o] \in {"shown", "dismissed", "bound"}
      /\ \A p \in Openings : p # o => view'[p] = view[p]
      /\ page' = page \/ (view[o] = "prompt" /\ view'[o] = "shown" /\ page' = [page EXCEPT ![c] = o])
    BY DEF EnterPassword, DismissPrompt, BindEvents, TypeOK
<1>3. selected[o] = {} /\ (view[o] = "prompt" => page[c] = None)
    BY <1>2 DEF LockInv, SideInv, Unbound, Prompted
<1> HIDE DEF c
<1>4. /\ \A d \in Clients : d # c => page'[d] = page[d]
      /\ page'[c] = page[c] \/ (view[o] = "prompt" /\ page'[c] = o)
    BY <1>1, <1>2 DEF TypeOK
<1>5. SideInv'
    <2>1. OwnRequests'
        BY <1>1 DEF LockInv, SideInv, OwnRequests, Sent
    <2>2. Prompted'
        <3> SUFFICES ASSUME NEW p \in Openings, NEW q \in Openings, view'[p] = "prompt", p[1] = q[1]
                     PROVE  page'[p[1]] = None /\ (view'[q] = "prompt" => q = p)
            BY DEF Prompted
        <3>1. p # o /\ view[p] = "prompt" /\ p[1] \in Clients
            BY <1>2 DEF Openings
        <3>2. page[p[1]] = None /\ (view[q] = "prompt" => q = p)
            BY <3>1 DEF LockInv, SideInv, Prompted
        <3>3. p[1] = c => view[o] # "prompt"
            BY <3>1 DEF LockInv, SideInv, Prompted, c
        <3> QED
            BY <1>2, <1>4, <3>1, <3>2, <3>3
    <2>3. Unbound'
        BY <1>1, <1>2, <1>3 DEF LockInv, SideInv, Unbound
    <2>4. DeadDisturbed'
        BY <1>1, <1>2 DEF LockInv, SideInv, DeadDisturbed
    <2> QED
        BY <2>1, <2>2, <2>3, <2>4 DEF SideInv
<1>6. \A p \in Openings : p[1] \in Clients /\ (IsRemoving(p)' <=> IsRemoving(p))
    <2>1. \A p \in Openings : p[1] \in Clients
        BY DEF Openings
    <2>2. \A d \in Clients : Sent(d)' = Sent(d)
        BY <1>1 DEF Sent
    <2> QED
        BY <1>1, <2>1, <2>2, RemovingMeans
<1>7. ASSUME NEW s \in Strokes, NEW d \in Clients, <<s, d>> \notin disturbed' PROVE Accounted(s, d)'
    <2>1. Accounted(s, d)
        BY <1>1, <1>7 DEF LockInv
    <2>2. Will(s, d)' <=> Will(s, d)
        BY <1>1 DEF Will
    <2>3. CASE page'[d] = page[d]
        <3>1. page[d] # None => page[d] \in Openings /\ page[d][1] = d
            BY DEF PageInv, OnPage, TypeOK
        <3> QED
            BY <1>1, <1>2, <1>6, <2>1, <2>2, <2>3, <3>1, Unaffected
    <2>4. CASE page'[d] # page[d]
        <3>1. d = c /\ page[c] = None /\ page'[c] = o
            BY <1>3, <1>4, <2>4
        <3>2. ~Holds(d, s) /\ ~Holds(d, s)'
            BY <1>1, <1>3, <3>1 DEF Holds
        <3> QED
            BY <2>1, <2>2, <3>2 DEF Accounted
    <2> QED
        BY <2>3, <2>4
<1> QED
    BY <1>5, <1>7 DEF LockInv

\* Where a request does not disturb a lock, it writes only what its sender last
\* asked for.
LEMMA NotOverruled ==
    ASSUME TypeOK, NEW c \in Clients, NEW i \in DOMAIN requests[c], NEW s \in Strokes,
           NEW d \in Clients, <<s, d>> \notin Overruled(c, i)
    PROVE  /\ d # c \/ requests[c][i].model # None =>
                  (Written(requests[c][i]).selectedStrokes[s] = d <=> db.selectedStrokes[s] = d)
           /\ d = c /\ Touches(requests[c][i], s) => \A j \in 1..(i - 1) : ~Touches(requests[c][j], s)
<1> DEFINE r == requests[c][i]
           was == db.selectedStrokes
           is == Written(r).selectedStrokes
<1>1. d # c \/ r.model # None => (is[s] = d <=> was[s] = d)
    <2>1. ~(was[s] # is[s] /\ d \in {was[s], is[s]} /\ (d # c \/ r.model # None))
        BY DEF Overruled
    <2> HIDE DEF r, was, is
    <2> QED
        BY <2>1
<1>2. d = c /\ Touches(r, s) => \A j \in 1..(i - 1) : ~Touches(requests[c][j], s)
    BY DEF Overruled, Touches
<1> QED
    BY <1>1, <1>2

LEMMA ApplyStep == TypeOK /\ PageInv /\ LockInv /\ (\E c \in Clients : ApplyRequest(c)) => LockInv'
<1> SUFFICES ASSUME TypeOK, PageInv, LockInv, NEW c \in Clients, ApplyRequest(c) PROVE LockInv'
    OBVIOUS
<1>1. PICK i \in DOMAIN requests[c] :
        LET r == requests[c][i] IN
        /\ db' = Written(r) /\ requests' = WithoutRequest(c, i)
        /\ answered' = IF r.then = "nothing" \/ view[r.from] = "dead" THEN answered ELSE answered \cup {r}
        /\ disturbed' = disturbed \cup Overruled(c, i)
        /\ UNCHANGED <<page, view, selected>>
    BY DEF ApplyRequest, clientVars
<1> DEFINE r == requests[c][i]
           q == requests[c]
           rest == SubSeq(q, 1, i - 1) \o SubSeq(q, i + 1, Len(q))
<1>2. /\ r \in Request /\ r \in Sent(c)
      /\ \A d \in Clients : Sent(d)' \subseteq Sent(d) /\ (d # c => Sent(d)' = Sent(d))
      /\ Sent(c) \subseteq Sent(c)' \cup {r}
    BY <1>1, WithoutTypes DEF Sent, Elements
<1>3. /\ q \in Seq(Request) /\ requests'[c] = rest
      /\ \A d \in Clients : d # c => requests'[d] = requests[d]
    <2>1. q \in Seq(Request) /\ requests \in [Clients -> Seq(Request)]
        BY DEF TypeOK
    <2>2. requests' = [requests EXCEPT ![c] = rest]
        BY <1>1 DEF WithoutRequest
    <2> HIDE DEF rest
    <2> QED
        BY <2>1, <2>2
<1>4. r.from[1] = c /\ r.from \in Openings
    BY <1>2 DEF LockInv, SideInv, OwnRequests, Request
<1>5. SideInv'
    <2>1. OwnRequests'
        BY <1>2 DEF LockInv, SideInv, OwnRequests
    <2> QED
        BY <1>1, <2>1, SideKeeps DEF LockInv
<1>6. ASSUME NEW s \in Strokes, <<s, c>> \notin disturbed' PROVE Accounted(s, c)'
    <2>1. Accounted(s, c) /\ <<s, c>> \notin Overruled(c, i)
        BY <1>1, <1>6 DEF LockInv
    <2>2. page[c] # None => page[c] \in Openings /\ page[c][1] = c
        BY DEF PageInv, OnPage, TypeOK
    <2>3. view[r.from] # "dead"
        BY <1>1, <1>4, <1>6 DEF LockInv, SideInv, DeadDisturbed
    <2>4. \A o \in Openings : o[1] = c => (IsRemoving(o)' <=> IsRemoving(o))
        BY <1>1, <1>2, <2>3, RemovingMeans DEF Leaving
    <2> DEFINE was == db.selectedStrokes[s] = c
               is == db'.selectedStrokes[s] = c
    <2>5. Will(s, c) <=> WillBe(q, was, s, c)
        BY DEF Will
    <2>6. Will(s, c)' <=> WillBe(rest, is, s, c)
        BY <1>3 DEF Will
    <2>7. /\ r.model # None => (is <=> was)
          /\ Touches(r, s) => \A j \in 1..(i - 1) : ~Touches(q[j], s)
        BY <1>1, <2>1, NotOverruled
    <2>8. was \in BOOLEAN /\ is \in BOOLEAN
        OBVIOUS
    <2>9. IF Touches(r, s)
          THEN (\A j \in 1..(i - 1) : ~Touches(q[j], s)) /\ (is <=> r.locks[s] = c)
          ELSE is <=> was
        <3>1. CASE Touches(r, s)
            <4>1. is <=> r.locks[s] = c
                BY <1>1, <3>1 DEF Touches, Written, TypeOK, Model
            <4> QED
                BY <2>7, <3>1, <4>1
        <3>2. CASE ~Touches(r, s)
            <4>1. CASE r.model # None
                BY <2>7, <3>2, <4>1
            <4>2. CASE r.model = None
                <5>1. is <=> was
                    BY <1>1, <3>2, <4>2 DEF Touches, Written, TypeOK, Model
                <5> QED
                    BY <3>2, <5>1
            <4> QED
                BY <4>1, <4>2
        <3> QED
            BY <3>1, <3>2
    <2>10. /\ i \in DOMAIN q /\ r = q[i] /\ DOMAIN rest = 1..(Len(q) - 1)
           /\ \A j \in 1..(Len(q) - 1) : rest[j] = IF j < i THEN q[j] ELSE q[j + 1]
        BY <1>3, Without
    <2> HIDE DEF was, is, rest, q, r
    <2>11. WillBe(rest, is, s, c) <=> WillBe(q, was, s, c)
        BY <1>3, <2>8, <2>9, <2>10, WillApplied
    <2>12. Will(s, c)' <=> Will(s, c)
        BY <2>5, <2>6, <2>11
    <2> QED
        BY <1>1, <2>1, <2>2, <2>4, <2>12, Unaffected
<1>7. ASSUME NEW s \in Strokes, NEW d \in Clients, d # c, <<s, d>> \notin disturbed'
      PROVE  Accounted(s, d)'
    <2>1. Accounted(s, d) /\ <<s, d>> \notin Overruled(c, i)
        BY <1>1, <1>7 DEF LockInv
    <2>2. db'.selectedStrokes[s] = d <=> db.selectedStrokes[s] = d
        BY <1>1, <1>7, <2>1, NotOverruled
    <2>3. \A p \in answered \cup answered' : p.from[1] = d => p \in answered /\ p \in answered'
        BY <1>1, <1>4, <1>7
    <2> QED
        BY <1>1, <1>3, <1>7, <2>1, <2>2, <2>3, Elsewhere
<1> QED
    BY <1>5, <1>6, <1>7 DEF LockInv

\* A process that ends leaves its locks to nobody, and those of others alone.
LEMMA EndProcessStep ==
    ASSUME TypeOK, PageInv, LockInv, NEW c \in Clients, EndProcess(c), UNCHANGED <<db, selected>>,
           OwnRequests', \A d \in Clients : d # c => requests'[d] = requests[d]
    PROVE  LockInv'
<1> DEFINE of == {o \in Openings : o[1] = c /\ view[o] # "unused"}
<1>1. /\ page'[c] = None /\ \A d \in Clients : d # c => page'[d] = page[d]
      /\ \A o \in Openings : view'[o] = IF o \in of THEN "dead" ELSE view[o]
      /\ answered' = {r \in answered : r.from \notin of}
      /\ disturbed' = disturbed \cup (Strokes \X {c})
    BY DEF EndProcess, TypeOK
<1>2. \A o \in of : o \in Openings /\ o[1] = c
    OBVIOUS
<1>3. \A o \in Openings : o[1] \in Clients
    BY DEF Openings
<1>4. \A o \in Openings : view'[o] = "prompt" => view[o] = "prompt" /\ o[1] # c
    BY <1>1
<1> HIDE DEF of
<1>5. SideInv'
    <2>1. Prompted'
        <3> SUFFICES ASSUME NEW p \in Openings, NEW q \in Openings, view'[p] = "prompt", p[1] = q[1]
                     PROVE  page'[p[1]] = None /\ (view'[q] = "prompt" => q = p)
            BY DEF Prompted
        <3> QED
            BY <1>1, <1>3, <1>4 DEF LockInv, SideInv, Prompted
    <2>2. Unbound'
        BY <1>1 DEF LockInv, SideInv, Unbound
    <2>3. DeadDisturbed'
        BY <1>1, <1>2 DEF LockInv, SideInv, DeadDisturbed
    <2> QED
        BY <2>1, <2>2, <2>3 DEF SideInv
<1>6. ASSUME NEW s \in Strokes, NEW d \in Clients, <<s, d>> \notin disturbed' PROVE Accounted(s, d)'
    <2>1. d # c /\ Accounted(s, d)
        BY <1>1, <1>6 DEF LockInv
    <2>2. \A o \in Openings : o[1] = d => view'[o] = view[o]
        BY <1>1, <1>2, <2>1
    <2>3. \A r \in answered \cup answered' : r.from[1] = d => r \in answered /\ r \in answered'
        BY <1>1, <1>2, <2>1
    <2> QED
        BY <1>1, <2>1, <2>2, <2>3, Elsewhere
<1> QED
    BY <1>5, <1>6 DEF LockInv

LEMMA FailSteps ==
    /\ TypeOK /\ PageInv /\ LockInv /\ (\E c \in Clients : FailRequest(c)) => LockInv'
    /\ TypeOK /\ PageInv /\ LockInv /\ (\E o \in Openings : FailBinding(o)) => LockInv'
<1>1. ASSUME TypeOK, PageInv, LockInv, NEW c \in Clients, FailRequest(c) PROVE LockInv'
    <2>1. PICK i \in DOMAIN requests[c] :
            /\ requests' = WithoutRequest(c, i)
            /\ IF view[requests[c][i].from] = "dead"
               THEN UNCHANGED <<page, view, answered, disturbed>>
               ELSE EndProcess(c)
        BY <1>1 DEF FailRequest
    <2> DEFINE r == requests[c][i]
    <2>2. r \in Sent(c) /\ r \in Request /\ \A d \in Clients : Sent(d)' \subseteq Sent(d)
        BY <1>1, <2>1, WithoutTypes DEF Sent, Elements
    <2>3. OwnRequests' /\ r.from[1] = c /\ r.from \in Openings
        BY <1>1, <2>2 DEF LockInv, SideInv, OwnRequests, Request
    <2>4. \A d \in Clients : d # c => requests'[d] = requests[d]
        BY <1>1, <2>1 DEF WithoutRequest, TypeOK
    <2>5. UNCHANGED <<db, selected>>
        BY <1>1 DEF FailRequest
    <2>6. CASE view[r.from] # "dead"
        BY <1>1, <2>1, <2>3, <2>4, <2>5, <2>6, EndProcessStep
    <2>7. CASE view[r.from] = "dead"
        <3>1. UNCHANGED <<page, view, answered, disturbed>>
            BY <2>1, <2>7
        <3>2. SideInv'
            BY <1>1, <2>3, <2>5, <3>1, SideKeeps DEF LockInv
        <3>3. \A s \in Strokes : <<s, c>> \in disturbed
            BY <1>1, <2>3, <2>7 DEF LockInv, SideInv, DeadDisturbed
        <3>4. ASSUME NEW s \in Strokes, NEW d \in Clients, <<s, d>> \notin disturbed' PROVE Accounted(s, d)'
            <4>1. d # c /\ Accounted(s, d)
                BY <1>1, <3>1, <3>3, <3>4 DEF LockInv
            <4> QED
                BY <1>1, <2>4, <2>5, <3>1, <4>1, Elsewhere
        <3> QED
            BY <3>2, <3>4 DEF LockInv
    <2> QED
        BY <2>6, <2>7
<1>2. ASSUME TypeOK, PageInv, LockInv, NEW o \in Openings, FailBinding(o) PROVE LockInv'
    <2>1. o[1] \in Clients /\ EndProcess(o[1]) /\ UNCHANGED <<db, requests, selected>>
        BY <1>2 DEF FailBinding, Openings
    <2>2. OwnRequests'
        BY <1>2, <2>1 DEF LockInv, SideInv, OwnRequests, Sent
    <2> QED
        BY <1>2, <2>1, <2>2, EndProcessStep
<1> QED
    BY <1>1, <1>2

LEMMA LockInit == Init => LockInv
<1> SUFFICES ASSUME Init PROVE LockInv
    OBVIOUS
<1>1. /\ \A s \in Strokes : db.selectedStrokes[s] = NoOne
      /\ requests = [c \in Clients |-> <<>>] /\ page = [c \in Clients |-> None]
      /\ view = [o \in Openings |-> "unused"] /\ selected = [o \in Openings |-> {}]
    BY DEF Init
<1>2. \A c \in Clients : Sent(c) = {} /\ DOMAIN requests[c] = {}
    <2>1. Elements(<<>>) = {} /\ DOMAIN <<>> = {}
        BY DEF Elements
    <2> QED
        BY <1>1, <2>1 DEF Sent
<1>3. SideInv
    BY <1>1, <1>2 DEF SideInv, OwnRequests, Prompted, Unbound, DeadDisturbed
<1>4. ASSUME NEW s \in Strokes, NEW c \in Clients PROVE Accounted(s, c)
    <2>1. ~Will(s, c)
        BY <1>1, <1>2, ClientsAssumption DEF Will, WillBe
    <2>2. ~Holds(c, s)
        BY <1>1 DEF Holds
    <2> QED
        BY <2>1, <2>2 DEF Accounted
<1> QED
    BY <1>3, <1>4 DEF LockInv

LEMMA LockStep == TypeOK /\ PageInv /\ LockInv /\ [Next]_vars => LockInv'
<1> SUFFICES ASSUME TypeOK, PageInv, LockInv, [Next]_vars PROVE LockInv'
    OBVIOUS
<1>1. ASSUME NEW c \in Clients, ApplyRequest(c) PROVE LockInv'
    BY <1>1, ApplyStep
<1>2. ASSUME NEW o \in Openings, BindEvents(o) \/ EnterPassword(o) \/ DismissPrompt(o) PROVE LockInv'
    BY <1>2, ViewSteps
<1>3. ASSUME NEW o \in Openings, Subscribe(o) \/ Connect(o) \/ EndStream(o) PROVE LockInv'
    BY <1>3, CalmSteps
<1>4. ASSUME NEW o \in Openings, SyncRemoteAttributesToLocal(o) PROVE LockInv'
    BY <1>4, RemovalSteps
<1>5. ASSUME NEW o \in Openings, ContinueKick(o) PROVE LockInv'
    BY <1>5, ContinueKickStep
<1>6. ASSUME NEW o \in Openings, ContinueGoBack(o) PROVE LockInv'
    BY <1>6, ContinueGoBackStep
<1>7. ASSUME NEW o \in Openings, GetDrawing(o) PROVE LockInv'
    BY <1>7, GetDrawingStep
<1>8. ASSUME NEW c \in Clients, OnSelectionChanged(c) PROVE LockInv'
    BY <1>8, SelectionStep
<1>9. ASSUME NEW c \in Clients, SaveDimensions(c) PROVE LockInv'
    BY <1>9, WriteModelSteps
<1>10. ASSUME NEW c \in Clients, GoBack(c) PROVE LockInv'
    BY <1>10, RemovalSteps
<1>11. ASSUME NEW setting \in Setting, UpdateSettings(setting) PROVE LockInv'
    BY <1>11, WriteModelSteps
<1>12. ASSUME NEW c \in Clients, FailRequest(c) PROVE LockInv'
    BY <1>12, FailSteps
<1>13. ASSUME NEW o \in Openings, FailBinding(o) PROVE LockInv'
    BY <1>13, FailSteps
<1>14. CASE UNCHANGED vars
    <2>1. UNCHANGED <<db, requests, answered, page, view, selected, disturbed>>
        BY <1>14 DEF vars, nodeVars, clientVars, historyVars
    <2> QED
        BY <2>1, CalmKeeps
<1> QED
    BY <1>1, <1>2, <1>3, <1>4, <1>5, <1>6, <1>7, <1>8, <1>9, <1>10, <1>11, <1>12, <1>13, <1>14
    DEF Next, System, User, Environment

\* However the requests of several users, their answers and the closing of pages
\* interleave, the locks in the node come to be the selections on the pages
\* (OnSelectionChanged, RemoveSelection): every lock that stays behind or is lost
\* was written over in one of the ways that disturbed records.
THEOREM LocksAreFollowed == Spec => []LocksFollowSelections
<1>1. TypeOK /\ LockInv => LocksFollowSelections
    <2> SUFFICES ASSUME TypeOK, LockInv, Quiet, NEW s \in Strokes, NEW c \in Clients,
                        <<s, c>> \notin disturbed
                 PROVE  db.selectedStrokes[s] = c <=> Holds(c, s)
        BY DEF LocksFollowSelections
    <2>1. Accounted(s, c)
        BY DEF LockInv
    <2>2. DOMAIN requests[c] = {} /\ answered = {} /\ \A d \in Clients : Sent(d) = {}
        BY DEF Quiet, Sent, Elements
    <2>3. Will(s, c) <=> db.selectedStrokes[s] = c
        BY <2>2 DEF Will, WillBe
    <2>4. \A o \in Openings : ~IsRemoving(o)
        <3>1. \A o \in Openings : o[1] \in Clients
            BY DEF Openings
        <3> QED
            BY <2>2, <3>1, RemovingMeans
    <2> QED
        BY <2>1, <2>3, <2>4 DEF Accounted
<1>2. Init => TypeOK /\ PageInv /\ LockInv
    BY InitTypes, PageInit, LockInit
<1>3. (TypeOK /\ PageInv /\ LockInv) /\ [Next]_vars => (TypeOK /\ PageInv /\ LockInv)'
    BY StepKeeps, LockStep
<1> QED
    BY <1>1, <1>2, <1>3, PTL DEF Spec
=============================================================================
