-------------------------- MODULE OfflineCacheProofs --------------------------
(***************************************************************************)
(* What becomes of the strokes drawn offline, and of the files of the      *)
(* cache, for any drawings, targets, visits, logins and scenarios: types,  *)
(* a stroke that is written, sent or lost for a known reason, files that   *)
(* are skipped only if they are the ones received, hashes that are missed  *)
(* and strokes that an upload discards.                                    *)
(***************************************************************************)
EXTENDS OfflineCache, SequenceTheorems, TLAPS

\* Whoever works on a page knows its drawing; pages not used yet are empty.
PageOK(v) ==
    /\ pages[v].pending \subseteq pages[v].shown /\ pages[v].file \subseteq pages[v].shown
    /\ pages[v].open \/ pages[v].writer # "idle" \/ pages[v].pending # {} => pages[v].drawing # None
    /\ v > MaxVisits - left.visits => pages[v] = NoPage

\* An upload is sending one drawing, or is between two; it lists after the last one.
\* It looks at drawings with an overridden info only.
UploadOK(n) ==
    /\ \A d \in uploads[n].todo : uploads[n].files["info"][d] # {}
    /\ uploads[n].id # None => uploads[n].left # <<>>
    /\ uploads[n].at = "listing" => uploads[n].id = None /\ uploads[n].todo = {}

Shape == (\A v \in Visits : PageOK(v)) /\ (\A n \in Logins : UploadOK(n))

-----------------------------------------------------------------------------
(* Values *)

LEMMA Put ==
    ASSUME NEW F \in Folder, NEW k \in Kinds, NEW d \in Drawings, NEW c \in Content
    PROVE  [F EXCEPT ![k][d] = c] \in Folder
BY DEF Folder, Values

LEMMA Empty ==
    NoValues \in Values /\ NoFiles \in Folder /\ NoPage \in Page /\ NoUpload \in Upload /\ NoThread \in Thread
<1>1. NoValues \in Values
    BY DEF NoValues, Values, Content
<1>2. NoFiles \in Folder
    BY <1>1 DEF NoFiles, Folder
<1>3. <<>> \in Seq(Kinds)
    OBVIOUS
<1>4. 1 \in DOMAIN Targets /\ 0 \in 0..MaxLogins
    BY TargetsAssumption, BoundsAssumption
<1> QED
    BY <1>1, <1>2, <1>3, <1>4 DEF NoPage, Page, NoUpload, Upload, NoThread, Thread, Content, Folder, Values

LEMMA InitTypes == Init => TypeOK /\ Shape
<1>0. SUFFICES ASSUME NEW s \in Scenarios, Init,
                    left = s.bounds,
                    history = [new |-> s.new, own |-> {}, reached |-> {}, lost |-> {}, begun |-> {},
                               late |-> {}, torn |-> {}, doubtful |-> {}],
                    cache = [k \in Kinds |-> [d \in Drawings |-> IF d \in s.cached THEN {0} ELSE {}]],
                    db = [k \in Kinds |-> [d \in Drawings |->
                            CASE d \in s.outdated /\ k = "strokes" -> {0, 1}
                              [] d \in s.outdated /\ k = "info" -> {2}
                              [] OTHER -> cache[k][d]]]
             PROVE  TypeOK /\ Shape
    BY DEF Init
<1>1. s \in Scenario
    BY ScenariosAssumption
<1>2. left \in Bounds /\ history \in History
    BY <1>0, <1>1 DEF Scenario, History, Content
<1>3. cache \in Folder
    BY <1>0 DEF Folder, Values, Content
<1>4. db \in Folder
    BY <1>0, <1>3 DEF Folder, Values, Content
<1>5. TypeOK
    <2>1. {db, cache, hashes, override} \subseteq Folder
        BY <1>0, <1>3, <1>4, Empty DEF Init
    <2>2. pages \in [Visits -> Page] /\ uploads \in [Logins -> Upload] /\ threads \in [Logins -> Thread]
        BY <1>0, Empty DEF Init
    <2>3. loggedIn \in BOOLEAN /\ newest \in 0..MaxLogins /\ cancelled \subseteq Logins /\ clock \in Nat
        <3>1. loggedIn \in BOOLEAN
            BY <1>0, Zenon DEF Init
        <3>2. newest = 0 /\ cancelled = {} /\ clock = 2
            BY <1>0 DEF Init
        <3> QED
            BY <3>1, <3>2, BoundsAssumption
    <2> QED
        BY <1>2, <2>1, <2>2, <2>3 DEF TypeOK
<1>6. Shape
    <2>1. \A v \in Visits : pages[v] = NoPage
        BY <1>0 DEF Init
    <2>2. \A n \in Logins : uploads[n] = NoUpload
        BY <1>0 DEF Init
    <2>3. \A v \in Visits : PageOK(v)
        <3>1. NoPage.pending = {} /\ NoPage.shown = {} /\ NoPage.file = {} /\ NoPage.open = FALSE /\ NoPage.writer = "idle"
            BY DEF NoPage
        <3> QED
            BY <2>1, <3>1 DEF PageOK
    <2>4. \A n \in Logins : UploadOK(n)
        BY <2>2 DEF UploadOK, NoUpload
    <2> QED
        BY <2>3, <2>4 DEF Shape
<1> QED
    BY <1>5, <1>6

-----------------------------------------------------------------------------
(* The pages *)

LEMMA VisitTypes ==
    ASSUME TypeOK, Shape, NEW d \in Drawings, NEW strokes \in Content, Visit(d, strokes)
    PROVE  /\ pages' \in [Visits -> Page] /\ left' \in Bounds
           /\ \A v \in Visits : PageOK(v)'
           /\ \E v \in Visits : pages[v] = NoPage /\ pages' = [pages EXCEPT ![v] = pages'[v]]
                /\ pages'[v].pending = {} /\ pages'[v].file = {} /\ pages'[v].writer = "idle"
<1> DEFINE v == MaxVisits - left.visits + 1
           new == [NoPage EXCEPT !.open = TRUE, !.drawing = d, !.shown = strokes]
<1>1. left.visits \in 1..MaxVisits /\ v \in Visits /\ MaxVisits \in Nat /\ left \in Bounds
    BY BoundsAssumption DEF Visit, TypeOK, Bounds, Visits
<1>2. left' = [left EXCEPT !.visits = @ - 1] /\ left'.visits = left.visits - 1 /\ left' \in Bounds
    BY <1>1 DEF Visit, Bounds
<1>3. pages' = [pages EXCEPT ![v] = new]
    BY DEF Visit
<1>4. new \in Page /\ new.pending = {} /\ new.file = {} /\ new.writer = "idle" /\ new.drawing = d
    BY DEF NoPage, Page, Content
<1>5. pages[v] = NoPage
    BY <1>1 DEF Shape, PageOK
<1>6. pages' \in [Visits -> Page] /\ pages'[v] = new
    BY <1>1, <1>3, <1>4 DEF TypeOK
<1>7. ASSUME NEW w \in Visits PROVE PageOK(w)'
    <2>1. CASE w = v
        <3>1. ~(w > MaxVisits - left'.visits)
            BY <1>1, <1>2, <2>1
        <3>2. d # None
            BY DrawingsAssumption
        <3> QED
            BY <1>4, <1>6, <2>1, <3>1, <3>2 DEF PageOK
    <2>2. CASE w # v
        <3>1. pages'[w] = pages[w]
            BY <1>3, <2>2 DEF TypeOK
        <3>2. w > MaxVisits - left'.visits => w > MaxVisits - left.visits
            BY <1>1, <1>2 DEF Visits
        <3> QED
            BY <3>1, <3>2 DEF Shape, PageOK
    <2> QED
        BY <2>1, <2>2
<1>8. pages' = [pages EXCEPT ![v] = pages'[v]]
    BY <1>3, <1>6
<1> QED
    BY <1>1, <1>2, <1>4, <1>5, <1>6, <1>7, <1>8

LEMMA OnePage ==
    ASSUME TypeOK, Shape, NEW v \in Visits, NEW p \in Page, pages' = [pages EXCEPT ![v] = p],
           left'.visits = left.visits,
           p.pending \subseteq p.shown, p.file \subseteq p.shown,
           p.open \/ p.writer # "idle" \/ p.pending # {} => p.drawing # None,
           p = NoPage \/ pages[v] # NoPage
    PROVE  /\ pages' \in [Visits -> Page]
           /\ \A w \in Visits : PageOK(w)'
<1>1. pages' \in [Visits -> Page] /\ pages'[v] = p /\ \A w \in Visits \ {v} : pages'[w] = pages[w]
    BY DEF TypeOK
<1>2. PageOK(v)'
    BY <1>1 DEF Shape, PageOK
<1>3. \A w \in Visits \ {v} : PageOK(w)'
    BY <1>1 DEF Shape, PageOK
<1> QED
    BY <1>1, <1>2, <1>3

LEMMA SamePages ==
    ASSUME Shape, pages' = pages, left'.visits = left.visits
    PROVE  \A w \in Visits : PageOK(w)'
BY DEF Shape, PageOK

LEMMA OneUpload ==
    ASSUME TypeOK, Shape, NEW n \in Logins, NEW u \in Upload, uploads' = [uploads EXCEPT ![n] = u],
           \A d \in u.todo : u.files["info"][d] # {},
           u.id # None => u.left # <<>>,
           u.at = "listing" => u.id = None /\ u.todo = {}
    PROVE  /\ uploads' \in [Logins -> Upload]
           /\ \A m \in Logins : UploadOK(m)'
<1>1. uploads' \in [Logins -> Upload] /\ uploads'[n] = u /\ \A m \in Logins \ {n} : uploads'[m] = uploads[m]
    BY DEF TypeOK
<1> QED
    BY <1>1 DEF Shape, UploadOK

LEMMA SameUploads ==
    ASSUME Shape, uploads' = uploads
    PROVE  \A m \in Logins : UploadOK(m)'
BY DEF Shape, UploadOK

LEMMA EmptyShape ==
    /\ NoPage.pending = {} /\ NoPage.shown = {} /\ NoPage.file = {} /\ NoPage.open = FALSE /\ NoPage.writer = "idle"
    /\ NoPage.drawing = None
    /\ NoUpload.at = "none" /\ NoUpload.id = None /\ NoUpload.todo = {} /\ NoUpload.left = <<>>
BY DEF NoPage, NoUpload

-----------------------------------------------------------------------------
(* Offline *)

LEMMA OfflineTypes ==
    ASSUME TypeOK, Shape, NEW d \in Drawings, CreateDrawing(d) \/ GetDrawing(d)
    PROVE  TypeOK' /\ Shape'
<1>1. clock' \in Nat /\ override' \in Folder
    <2>1. CASE CreateDrawing(d)
        <3>1. clock' \in Nat /\ {clock'} \in Content
            BY <2>1 DEF CreateDrawing, TypeOK, Content
        <3>2. [override EXCEPT !["drawings"][d] = {clock'}] \in Folder
            BY <3>1, Put DEF TypeOK, Kinds
        <3>3. override' = [[override EXCEPT !["drawings"][d] = {clock'}] EXCEPT !["info"][d] = {clock'}]
            BY <2>1 DEF CreateDrawing
        <3> QED
            BY <3>1, <3>2, <3>3, Put DEF Kinds
    <2>2. CASE GetDrawing(d)
        BY <2>2 DEF GetDrawing, TypeOK, diskVars
    <2> QED
        BY <2>1, <2>2
<1>2. /\ pages' \in [Visits -> Page] /\ left' \in Bounds
      /\ \A v \in Visits : PageOK(v)'
    <2>1. Get("strokes", d) \in Content /\ {} \in Content
        BY DEF TypeOK, Get, Folder, Values, Content, Kinds
    <2> QED
        BY <2>1, VisitTypes DEF CreateDrawing, GetDrawing
<1>3. history' \in History
    BY DEF CreateDrawing, GetDrawing, NewId, TypeOK, History
<1>4. UNCHANGED <<db, cache, hashes, loggedIn, taskVars>>
    BY DEF CreateDrawing, GetDrawing, diskVars
<1>5. TypeOK'
    BY <1>1, <1>2, <1>3, <1>4 DEF TypeOK, taskVars
<1> QED
    BY <1>2, <1>4, <1>5, SameUploads DEF Shape, taskVars

LEMMA DrawTypes ==
    ASSUME TypeOK, Shape, NEW v \in Visits, UpdateStroke(v)
    PROVE  TypeOK' /\ Shape'
<1> DEFINE p == [pages[v] EXCEPT !.shown = @ \cup {clock'}, !.pending = @ \cup {clock'}]
<1>1. clock' \in Nat /\ left' \in Bounds /\ left'.visits = left.visits
    BY DEF UpdateStroke, TypeOK, Bounds
<1>2. pages[v] \in Page /\ pages[v].open /\ pages[v].drawing # None /\ PageOK(v)
    BY DEF UpdateStroke, TypeOK, Shape, PageOK
<1>3. p \in Page /\ p.pending \subseteq p.shown /\ p.file \subseteq p.shown /\ p.drawing # None
    BY <1>1, <1>2 DEF Page, PageOK, Content
<1>4. pages' = [pages EXCEPT ![v] = p]
    <2>1. /\ pages' = [[pages EXCEPT ![v].shown = @ \cup {clock'}] EXCEPT ![v].pending = @ \cup {clock'}]
          /\ pages \in [Visits -> Page]
        BY DEF UpdateStroke, TypeOK
    <2> QED
        BY <1>2, <2>1
<1>5. pages[v] # NoPage
    BY <1>2, EmptyShape
<1>6. pages' \in [Visits -> Page] /\ \A w \in Visits : PageOK(w)'
    BY <1>1, <1>3, <1>4, <1>5, OnePage
<1>7. history' \in History
    <2>1. pages[v].drawing \in Drawings
        BY <1>2 DEF Page
    <2>2. {<<pages[v].drawing, clock'>>} \subseteq Drawings \X Nat
        BY <1>1, <2>1
    <2>3. PICK L \in {history.lost, history.lost \cup {clock'}} :
            history' = [history EXCEPT !.own = @ \cup {<<pages[v].drawing, clock'>>}, !.lost = L]
        BY DEF UpdateStroke
    <2>4. history \in History /\ history.lost \in Content /\ L \in Content
        BY <1>1, <2>3 DEF TypeOK, History, Content
    <2> QED
        BY <2>2, <2>3, <2>4 DEF History
<1>8. UNCHANGED <<db, diskVars, loggedIn, taskVars>>
    BY DEF UpdateStroke
<1>9. TypeOK'
    BY <1>1, <1>6, <1>7, <1>8 DEF TypeOK, taskVars, diskVars
<1> QED
    BY <1>6, <1>8, <1>9, SameUploads DEF Shape, taskVars

LEMMA ResizeTypes ==
    ASSUME TypeOK, Shape, NEW v \in Visits, SaveDimensions(v)
    PROVE  TypeOK' /\ Shape'
<1>1. clock' \in Nat /\ left' \in Bounds /\ left'.visits = left.visits
    BY DEF SaveDimensions, TypeOK, Bounds
<1>2. pages[v].drawing \in Drawings
    BY DEF SaveDimensions, TypeOK, Shape, PageOK, Page
<1>3. override' \in Folder
    BY <1>1, <1>2, Put DEF SaveDimensions, TypeOK, Kinds, Content
<1>4. UNCHANGED <<db, cache, hashes, loggedIn, pages, taskVars, history>>
    BY DEF SaveDimensions
<1>5. TypeOK'
    BY <1>1, <1>3, <1>4 DEF TypeOK, taskVars
<1> QED
    BY <1>1, <1>4, <1>5, SameUploads, SamePages DEF Shape, taskVars

LEMMA LeaveTypes ==
    ASSUME TypeOK, Shape, NEW v \in Visits, SaveDrawingPreview(v)
    PROVE  TypeOK' /\ Shape'
<1> DEFINE p == IF Unwritten(v) = {} THEN NoPage ELSE [pages[v] EXCEPT !.open = FALSE]
<1>1. pages[v] \in Page /\ pages[v].open /\ pages[v].drawing \in Drawings /\ pages[v].drawing # None /\ PageOK(v)
    BY DEF SaveDrawingPreview, Leave, TypeOK, Shape, PageOK, Page
<1>2. pages' = [pages EXCEPT ![v] = p]
    BY DEF SaveDrawingPreview, Leave
<1>3. p \in Page /\ p.pending \subseteq p.shown /\ p.file \subseteq p.shown /\ (p = NoPage \/ p.drawing # None)
    BY <1>1, Empty, EmptyShape DEF Page, PageOK
<1>4. pages[v] # NoPage /\ UNCHANGED left
    BY <1>1, EmptyShape DEF SaveDrawingPreview, Leave
<1>5. pages' \in [Visits -> Page] /\ \A w \in Visits : PageOK(w)'
    BY <1>2, <1>3, <1>4, EmptyShape, OnePage
<1>6. clock' \in Nat /\ override' \in Folder
    <2>1. CASE clock' = clock + 1 /\ override' = [override EXCEPT !["info"][pages[v].drawing] = {clock'}]
        <3>1. clock' \in Nat /\ {clock'} \in Content /\ override \in Folder /\ "info" \in Kinds
            BY <2>1 DEF TypeOK, Content, Kinds
        <3> QED
            BY <1>1, <2>1, <3>1, Put
    <2> QED
        BY <2>1 DEF SaveDrawingPreview, TypeOK
<1>7. UNCHANGED <<db, cache, hashes, loggedIn, taskVars, left, history>>
    BY DEF SaveDrawingPreview, Leave
<1>8. TypeOK'
    BY <1>5, <1>6, <1>7 DEF TypeOK, taskVars
<1> QED
    BY <1>5, <1>7, <1>8, SameUploads DEF Shape, taskVars

\* A writer, whose page may be gone afterwards.
LEMMA WriterTypes ==
    ASSUME TypeOK, Shape, NEW v \in Visits,
           TakeUpdates(v) \/ WriteStrokes(v) \/ PatchStrokes(v) \/ FailPatch(v)
    PROVE  TypeOK' /\ Shape'
<1>1. /\ pages[v] \in Page /\ pages[v].drawing \in Drawings /\ pages[v].drawing # None
      /\ PageOK(v) /\ pages[v] # NoPage
    BY EmptyShape DEF TakeUpdates, WriteStrokes, FileStrokes, PatchStrokes, FailPatch, TypeOK, Shape, PageOK, Page
<1>2. left' \in Bounds /\ left'.visits = left.visits
    BY DEF TakeUpdates, WriteStrokes, FileStrokes, PatchStrokes, FailPatch, Fail, TypeOK, Bounds
<1>3. \E p \in Page : /\ pages' = [pages EXCEPT ![v] = p]
                      /\ p = NoPage \/ (p.pending \cup p.file \subseteq p.shown /\ p.drawing # None)
    <2>1. CASE TakeUpdates(v)
        <3> DEFINE a == [pages[v] EXCEPT !.writer = "online"]
                   b == [[pages[v] EXCEPT !.writer = "offline"] EXCEPT !.pending = {}]
        <3>1. a \in Page /\ a.pending \cup a.file \subseteq a.shown /\ a.drawing # None
            BY <1>1 DEF Page, PageOK
        <3>2. b \in Page /\ b.pending \cup b.file \subseteq b.shown /\ b.drawing # None
            BY <1>1 DEF Page, PageOK, Content
        <3>3. pages' = [pages EXCEPT ![v] = a] \/ pages' = [pages EXCEPT ![v] = b]
            <4>1. pages \in [Visits -> Page]
                BY DEF TypeOK
            <4>2. CASE loggedIn
                BY <2>1, <4>1, <4>2 DEF TakeUpdates
            <4>3. CASE ~loggedIn
                <5>1. pages' = [[pages EXCEPT ![v].writer = "offline"] EXCEPT ![v].pending = {}]
                    BY <2>1, <4>3 DEF TakeUpdates
                <5> QED
                    BY <4>1, <5>1
            <4> QED
                BY <4>2, <4>3
        <3> QED
            BY <3>1, <3>2, <3>3
    <2>2. CASE WriteStrokes(v)
        <3> DEFINE a == [[pages[v] EXCEPT !.writer = "back"] EXCEPT !.file = {}]
        <3>1. a \in Page /\ a.pending \cup a.file \subseteq a.shown /\ a.drawing # None
            BY <1>1 DEF Page, PageOK, Content
        <3>2. pages \in [Visits -> Page] /\ pages' = [[pages EXCEPT ![v].writer = "back"] EXCEPT ![v].file = {}]
            BY <2>2 DEF WriteStrokes, FileStrokes, TypeOK
        <3>3. pages' = [pages EXCEPT ![v] = a]
            BY <3>2
        <3> QED
            BY <3>1, <3>3
    <2>3. CASE PatchStrokes(v) \/ FailPatch(v)
        BY <2>3, Empty DEF PatchStrokes, FailPatch
    <2> QED
        BY <2>1, <2>2, <2>3
<1>4. pages' \in [Visits -> Page] /\ \A w \in Visits : PageOK(w)'
    BY <1>1, <1>2, <1>3, EmptyShape, OnePage
<1>5. override' \in Folder
    <2>1. CASE WriteStrokes(v)
        BY <1>1, <2>1, Put DEF WriteStrokes, FileStrokes, TypeOK, Kinds, Page
    <2> QED
        BY <2>1 DEF TakeUpdates, PatchStrokes, FailPatch, TypeOK, diskVars
<1>6. db' \in Folder
    <2>1. CASE PatchStrokes(v)
        <3>1. db["strokes"][pages[v].drawing] \cup pages[v].pending \in Content
            BY <1>1 DEF TypeOK, Folder, Values, Kinds, Page, Content
        <3> QED
            BY <1>1, <2>1, <3>1, Put DEF PatchStrokes, TypeOK, Kinds
    <2> QED
        BY <2>1 DEF TakeUpdates, WriteStrokes, FileStrokes, FailPatch, TypeOK
<1>7. history' \in History
    <2> DEFINE d == pages[v].drawing
    <2>1. history \in History /\ pages[v].pending \in Content
        BY <1>1 DEF TypeOK, Page
    <2>2. CASE TakeUpdates(v)
        BY <2>1, <2>2 DEF TakeUpdates
    <2>3. CASE WriteStrokes(v)
        <3>1. override["strokes"][d] \in Content
            BY <1>1 DEF TypeOK, Folder, Values, Kinds
        <3>2. {e \in override["strokes"][d] \ pages[v].file : <<d, e>> \in history.own} \in Content
            BY <3>1 DEF Content
        <3> QED
            BY <1>1, <2>1, <2>3, <3>2 DEF WriteStrokes, FileStrokes, History, Content
    <2>4. CASE PatchStrokes(v)
        <3>1. \A x \in Content : Back("strokes", d, x) \subseteq Kinds \X Drawings
            BY <1>1 DEF Back, Kinds
        <3>2. db["strokes"][d] \cup pages[v].pending \in Content
            BY <1>1 DEF TypeOK, Folder, Values, Kinds, Page, Content
        <3>3. PICK D \in SUBSET (Kinds \X Drawings), T \in SUBSET Drawings :
                history' = [history EXCEPT !.reached = @ \cup pages[v].pending, !.torn = T, !.doubtful = @ \cup D]
            BY <1>1, <2>1, <2>4, <3>1, <3>2 DEF PatchStrokes, History
        <3> QED
            BY <1>1, <2>1, <3>3 DEF History, Content, Page
    <2>5. CASE FailPatch(v)
        BY <2>1, <2>5 DEF FailPatch, History, Content
    <2> QED
        BY <2>2, <2>3, <2>4, <2>5
<1>8. UNCHANGED <<cache, hashes, loggedIn, taskVars, clock>>
    BY DEF TakeUpdates, WriteStrokes, FileStrokes, PatchStrokes, FailPatch, diskVars
<1>9. TypeOK'
    BY <1>2, <1>4, <1>5, <1>6, <1>7, <1>8 DEF TypeOK, taskVars
<1> QED
    BY <1>4, <1>8, <1>9, SameUploads DEF Shape, taskVars

\* The steps of a writer that change nothing but the page and what is lost.
Loop(v) == TakeNothing(v) \/ TestToken(v) \/ SerializeStrokes(v) \/ FailWrite(v)

LostWith(S) == [history EXCEPT !.lost = @ \cup {p[2] : p \in S}]

LEMMA LostTypes ==
    ASSUME TypeOK, NEW S \in SUBSET history.own
    PROVE  /\ {p[2] : p \in S} \subseteq Nat
           /\ LostWith(S) \in History
           /\ LostWith(S).own = history.own /\ LostWith(S).reached = history.reached
           /\ LostWith(S).torn = history.torn /\ LostWith(S).doubtful = history.doubtful
           /\ LostWith(S).begun = history.begun /\ LostWith(S).new = history.new /\ LostWith(S).late = history.late
           /\ LostWith(S).lost = history.lost \cup {p[2] : p \in S}
<1>1. history \in History /\ history.own \subseteq Drawings \X Nat
    BY DEF TypeOK, History
<1>2. {p[2] : p \in S} \subseteq Nat
    BY <1>1
<1> QED
    BY <1>1, <1>2 DEF LostWith, History, Content

LEMMA LoopFacts ==
    ASSUME TypeOK, Shape, NEW v \in Visits, Loop(v)
    PROVE  /\ UNCHANGED <<db, diskVars, loggedIn, taskVars, clock>>
           /\ left' \in Bounds /\ left'.visits = left.visits
           /\ pages[v] # NoPage /\ pages[v].drawing # None /\ pages[v] \in Page
           /\ \E p \in Page : /\ pages' = [pages EXCEPT ![v] = p]
                              /\ \/ p = NoPage
                                 \/ /\ p.drawing = pages[v].drawing /\ p.shown = pages[v].shown
                                    /\ p.pending = pages[v].pending
                                    /\ \/ p.file = pages[v].shown /\ p.writer = "writing"
                                       \/ p.file = pages[v].file /\ p.writer \in {"idle", "back"}
                                       \/ p.file = {} /\ p.writer = "ended"
           /\ history' = history \/ history' = LostWith(UnsavedOn(v))
<1> USE DEF Loop
<1>1. pages[v] \in Page /\ pages \in [Visits -> Page] /\ PageOK(v) /\ left \in Bounds
    BY DEF TypeOK, Shape
<1>2. pages[v] # NoPage /\ pages[v].drawing # None
    BY <1>1, EmptyShape DEF TakeNothing, TestToken, SerializeStrokes, FailWrite, PageOK
<1>3. UNCHANGED <<db, diskVars, loggedIn, taskVars, clock>>
    BY DEF TakeNothing, TestToken, SerializeStrokes, FailWrite
<1>4. left' \in Bounds /\ left'.visits = left.visits
    <2>1. left' = left \/ Fail
        BY DEF TakeNothing, TestToken, SerializeStrokes, FailWrite
    <2> QED
        BY <1>1, <2>1 DEF Fail, Bounds
<1>5. history' = history \/ history' = LostWith(UnsavedOn(v))
    <2>1. CASE TakeNothing(v) \/ SerializeStrokes(v)
        BY <2>1 DEF TakeNothing, SerializeStrokes
    <2>2. CASE TestToken(v)
        <3>1. CASE pages[v].open
            <4>1. history' = [history EXCEPT !.lost = @]
                BY <2>2, <3>1 DEF TestToken
            <4> QED
                BY <4>1 DEF TypeOK, History
        <3>2. CASE ~pages[v].open
            BY <2>2, <3>2 DEF TestToken, LostWith
        <3> QED
            BY <3>1, <3>2
    <2>3. CASE FailWrite(v)
        BY <2>3 DEF FailWrite, LostWith
    <2> QED
        BY <2>1, <2>2, <2>3
<1>6. \E p \in Page : /\ pages' = [pages EXCEPT ![v] = p]
                      /\ \/ p = NoPage
                         \/ /\ p.drawing = pages[v].drawing /\ p.shown = pages[v].shown
                            /\ p.pending = pages[v].pending
                            /\ \/ p.file = pages[v].shown /\ p.writer = "writing"
                               \/ p.file = pages[v].file /\ p.writer \in {"idle", "back"}
                               \/ p.file = {} /\ p.writer = "ended"
    <2>1. CASE TakeNothing(v)
        <3> DEFINE a == [pages[v] EXCEPT !.writer = "back"]
        <3>1. pages' = [pages EXCEPT ![v] = a] /\ a \in Page
            BY <1>1, <2>1 DEF TakeNothing, Page
        <3> QED
            BY <1>1, <3>1 DEF Page
    <2>2. CASE TestToken(v)
        <3> DEFINE a == [pages[v] EXCEPT !.writer = "idle"]
        <3>1. pages' = [pages EXCEPT ![v] = IF pages[v].open THEN a ELSE NoPage] /\ a \in Page
            BY <1>1, <2>2 DEF TestToken, Page
        <3> QED
            BY <1>1, <3>1, Empty DEF Page
    <2>3. CASE SerializeStrokes(v)
        <3> DEFINE a == [[pages[v] EXCEPT !.writer = "writing"] EXCEPT !.file = pages[v].shown]
        <3>1. pages' = [[pages EXCEPT ![v].writer = "writing"] EXCEPT ![v].file = pages[v].shown] /\ a \in Page
            BY <1>1, <2>3 DEF SerializeStrokes, Page
        <3>2. pages' = [pages EXCEPT ![v] = a]
            BY <1>1, <3>1
        <3> QED
            BY <1>1, <3>1, <3>2 DEF Page
    <2>4. CASE FailWrite(v)
        <3> DEFINE a == [[pages[v] EXCEPT !.writer = "ended"] EXCEPT !.file = {}]
        <3>1. pages' = [pages EXCEPT ![v] = IF pages[v].open THEN a ELSE NoPage] /\ a \in Page
            BY <1>1, <2>4 DEF FailWrite, Page, Content
        <3> QED
            BY <1>1, <3>1, Empty DEF Page
    <2> QED
        BY <2>1, <2>2, <2>3, <2>4
<1> QED
    BY <1>1, <1>2, <1>3, <1>4, <1>5, <1>6

LEMMA LoopTypes ==
    ASSUME TypeOK, Shape, NEW v \in Visits, Loop(v)
    PROVE  TypeOK' /\ Shape'
<1>1. UnsavedOn(v) \subseteq history.own
    BY DEF UnsavedOn
<1>2. history' \in History
    BY <1>1, LoopFacts, LostTypes DEF TypeOK
<1>3. PageOK(v)
    BY DEF Shape
<1>4. pages' \in [Visits -> Page] /\ \A w \in Visits : PageOK(w)'
    <2>0. /\ pages[v].drawing # None /\ pages[v].pending \subseteq pages[v].shown
          /\ pages[v].file \subseteq pages[v].shown
        BY <1>3, LoopFacts DEF PageOK
    <2>1. PICK p \in Page :
            /\ pages' = [pages EXCEPT ![v] = p]
            /\ p = NoPage \/ (p.pending \subseteq p.shown /\ p.file \subseteq p.shown /\ p.drawing # None)
        <3>1. PICK p \in Page :
                /\ pages' = [pages EXCEPT ![v] = p]
                /\ \/ p = NoPage
                   \/ /\ p.drawing = pages[v].drawing /\ p.shown = pages[v].shown
                      /\ p.pending = pages[v].pending /\ p.file \in {pages[v].shown, pages[v].file, {}}
            BY LoopFacts
        <3> QED
            BY <2>0, <3>1
    <2>2. pages[v] # NoPage /\ left'.visits = left.visits
        BY LoopFacts
    <2>3. /\ p.pending \subseteq p.shown /\ p.file \subseteq p.shown
          /\ p.open \/ p.writer # "idle" \/ p.pending # {} => p.drawing # None
        BY <2>1, EmptyShape
    <2> QED
        BY <2>1, <2>2, <2>3, OnePage
<1>5. UNCHANGED <<db, diskVars, loggedIn, taskVars, clock>> /\ left' \in Bounds
    BY LoopFacts
<1>6. TypeOK'
    BY <1>2, <1>4, <1>5 DEF TypeOK, diskVars, taskVars
<1> QED
    BY <1>4, <1>5, <1>6, SameUploads DEF Shape, taskVars

-----------------------------------------------------------------------------
(* The end of the process *)

LEMMA StopTypes ==
    ASSUME TypeOK, Shape, StopProcess
    PROVE  /\ pages' \in [Visits -> Page] /\ uploads' \in [Logins -> Upload] /\ threads' \in [Logins -> Thread]
           /\ loggedIn' \in BOOLEAN /\ newest' \in 0..MaxLogins /\ cancelled' \subseteq Logins
           /\ Shape'
<1>1. pages' = [v \in Visits |-> NoPage] /\ newest' = 0 /\ cancelled' = cancelled
    BY DEF StopProcess
<1>2. loggedIn' \in BOOLEAN
    BY Zenon DEF StopProcess
<1>3. [NoUpload EXCEPT !.at = "dead"] \in Upload /\ [NoThread EXCEPT !.at = "ended"] \in Thread
    BY Empty DEF Upload, Thread
<1>4. \A n \in Logins : uploads'[n] \in {uploads[n], [NoUpload EXCEPT !.at = "dead"]}
    BY DEF StopProcess
<1>5. uploads' \in [Logins -> Upload] /\ threads' \in [Logins -> Thread]
    BY <1>3, Empty DEF StopProcess, TypeOK
<1>6. \A v \in Visits : PageOK(v)'
    <2>1. \A v \in Visits : pages'[v] = NoPage
        BY <1>1
    <2> QED
        BY <2>1, EmptyShape DEF PageOK
<1>7. \A n \in Logins : UploadOK(n)'
    <2>1. LET dead == [NoUpload EXCEPT !.at = "dead"] IN dead.at = "dead" /\ dead.id = None /\ dead.todo = {}
        BY DEF NoUpload
    <2> QED
        BY <1>4, <2>1 DEF Shape, UploadOK
<1> QED
    BY <1>1, <1>2, <1>5, <1>6, <1>7, Empty, BoundsAssumption DEF TypeOK, Shape

LEMMA EndTypes ==
    ASSUME TypeOK, Shape, EndProcess, left' \in Bounds, UNCHANGED <<db, diskVars, clock>>
    PROVE  TypeOK' /\ Shape'
<1>1. Unsaved \subseteq history.own
    BY DEF Unsaved, UnsavedOn
<1>2. history' \in History
    BY <1>1, LostTypes DEF EndProcess, LostWith
<1> QED
    <2>1. StopProcess
        BY DEF EndProcess
    <2>2. {db', cache', hashes', override'} \subseteq Folder /\ clock' \in Nat
        BY DEF TypeOK, diskVars
    <2> QED
        BY <1>2, <2>1, <2>2, StopTypes DEF TypeOK

LEMMA CrashTypes ==
    ASSUME TypeOK, Shape, Crash \/ \E d \in Drawings : CrashWhileCreating(d)
    PROVE  TypeOK' /\ Shape'
<1>1. left' \in Bounds
    <2>1. left \in Bounds /\ Fail
        BY Zenon DEF Crash, CrashWhileCreating, TypeOK
    <2> QED
        BY <2>1 DEF Fail, Bounds
<1>2. CASE Crash
    <2>1. EndProcess /\ UNCHANGED <<db, diskVars, clock>>
        BY <1>2 DEF Crash
    <2> QED
        BY <1>1, <2>1, EndTypes
<1>3. CASE \E d \in Drawings : CrashWhileCreating(d)
    <2>1. PICK d \in Drawings : CrashWhileCreating(d)
        BY <1>3
    <2>2. clock' \in Nat /\ override' \in Folder
        <3>1. /\ clock' = clock + 1
              /\ override' = [override EXCEPT !["drawings"][d] = {clock'}]
            BY <2>1 DEF CrashWhileCreating
        <3>2. clock \in Nat /\ override \in Folder
            BY DEF TypeOK
        <3>3. clock' \in Nat /\ {clock'} \in Content /\ "drawings" \in Kinds
            BY <3>1, <3>2 DEF Content, Kinds
        <3> QED
            BY <3>1, <3>2, <3>3, Put
    <2>4. Unsaved \subseteq history.own /\ history \in History
        BY DEF Unsaved, UnsavedOn, TypeOK
    <2>5. history' \in History
        <3>1. {p[2] : p \in Unsaved} \subseteq Nat
            BY <2>4, LostTypes
        <3> QED
            BY <2>1, <2>4, <3>1 DEF CrashWhileCreating, History, Content
    <2>6. StopProcess /\ UNCHANGED <<db, cache, hashes>>
        BY <2>1 DEF CrashWhileCreating
    <2> QED
        BY <1>1, <2>2, <2>5, <2>6, StopTypes DEF TypeOK
<1> QED
    BY <1>2, <1>3

-----------------------------------------------------------------------------
(* Login, logout, upload *)

LEMMA LoginTypes ==
    ASSUME TypeOK, Shape, Login \/ Logout
    PROVE  TypeOK' /\ Shape'
<1>1. CASE Login
    <2> DEFINE n == MaxLogins - left.logins + 1
               u == [NoUpload EXCEPT !.at = "uploading", !.files = override, !.seen = hashes["info"],
                                     !.todo = {d \in Drawings : override["info"][d] # {}}]
    <2>1. left.logins \in 1..MaxLogins /\ MaxLogins \in Nat /\ n \in Logins
        BY <1>1, BoundsAssumption DEF Login, TypeOK, Bounds, Logins
    <2>2. left' \in Bounds /\ left'.visits = left.visits
        BY <1>1, <2>1 DEF Login, TypeOK, Bounds
    <2>3. u \in Upload /\ u.id = None /\ u.at = "uploading" /\ \A d \in u.todo : u.files["info"][d] # {}
        <3>1. override \in Folder /\ hashes["info"] \in Values /\ NoUpload \in Upload
            BY Empty DEF TypeOK, Folder, Kinds
        <3> QED
            BY <3>1, EmptyShape DEF Upload
    <2>4. uploads' = [uploads EXCEPT ![n] = u]
        BY <1>1 DEF Login
    <2>5. uploads' \in [Logins -> Upload] /\ \A m \in Logins : UploadOK(m)'
        BY <2>1, <2>3, <2>4, OneUpload
    <2>6. loggedIn' \in BOOLEAN
        BY <1>1, Zenon DEF Login
    <2>7. UNCHANGED <<db, diskVars, pages, threads, newest, cancelled, clock, history>>
        BY <1>1 DEF Login
    <2>8. TypeOK'
        BY <2>2, <2>5, <2>6, <2>7 DEF TypeOK, diskVars
    <2> QED
        BY <2>2, <2>5, <2>7, <2>8, SamePages DEF Shape
<1>2. CASE Logout
    <2>1. loggedIn' \in BOOLEAN
        BY <1>2, Zenon DEF Logout, SignOut
    <2>2. /\ cancelled' = cancelled \cup ({newest} \ {0})
          /\ UNCHANGED <<db, diskVars, pages, uploads, threads, newest, clock, left, history>>
        BY <1>2 DEF Logout, SignOut
    <2>3. cancelled' \subseteq Logins
        BY <2>2, BoundsAssumption DEF TypeOK, Logins
    <2>4. TypeOK'
        BY <2>1, <2>2, <2>3 DEF TypeOK, diskVars
    <2> QED
        BY <2>2, <2>4, SamePages, SameUploads DEF Shape
<1> QED
    BY <1>1, <1>2

LEMMA ToSendTypes ==
    ASSUME TypeOK, NEW n \in Logins, NEW d \in Drawings
    PROVE  /\ ToSend(n, d) \in Seq(Kinds)
           /\ uploads[n].files["info"][d] # {} => ToSend(n, d) # <<>>
           /\ uploads[n].files["strokes"][d] # {} => "strokes" \in {ToSend(n, d)[i] : i \in DOMAIN ToSend(n, d)}
<1> DEFINE File(k) == IF uploads[n].files[k][d] # {} THEN <<k>> ELSE <<>>
           a == File("drawings")
           b == File("strokes")
           c == File("info")
<1>1. \A k \in Kinds : File(k) \in Seq(Kinds)
    OBVIOUS
<1>2. a \in Seq(Kinds) /\ b \in Seq(Kinds) /\ c \in Seq(Kinds)
    BY <1>1 DEF Kinds
<1>3. ToSend(n, d) = a \o b \o c
    BY DEF ToSend
<1>4. uploads[n].files["info"][d] # {} => c = <<"info">>
    OBVIOUS
<1>5. uploads[n].files["strokes"][d] # {} => b = <<"strokes">>
    OBVIOUS
<1> HIDE DEF a, b, c
<1>6. a \o b \o c \in Seq(Kinds) /\ Len(a \o b \o c) = Len(a) + Len(b) + Len(c)
    BY <1>2
<1>7. ASSUME uploads[n].files["info"][d] # {} PROVE ToSend(n, d) # <<>>
    <2>1. Len(c) = 1 /\ Len(a) \in Nat /\ Len(b) \in Nat
        BY <1>2, <1>4, <1>7
    <2> QED
        BY <1>3, <1>6, <2>1
<1>8. ASSUME uploads[n].files["strokes"][d] # {}
      PROVE  "strokes" \in {ToSend(n, d)[i] : i \in DOMAIN ToSend(n, d)}
    <2>1. Len(b) = 1 /\ b[1] = "strokes" /\ Len(a) \in Nat /\ Len(c) \in Nat
        BY <1>2, <1>5, <1>8
    <2>2. (a \o b \o c)[Len(a) + 1] = "strokes"
        <3> DEFINE ab == a \o b
                   i == Len(a) + 1
        <3>1. i \in 1..(Len(a) + Len(b)) /\ ~(i <= Len(a)) /\ i - Len(a) = 1
            BY <2>1
        <3> HIDE DEF i
        <3>2. ab \in Seq(Kinds) /\ Len(ab) = Len(a) + Len(b) /\ ab[i] = b[i - Len(a)]
            BY <1>2, <3>1, ConcatProperties
        <3> HIDE DEF ab
        <3>3. i \in 1..(Len(ab) + Len(c)) /\ i <= Len(ab)
            BY <2>1, <3>1, <3>2
        <3>4. (ab \o c)[i] = ab[i]
            BY <1>2, <3>2, <3>3, ConcatProperties
        <3>5. (ab \o c)[i] = "strokes"
            BY <2>1, <3>1, <3>2, <3>4
        <3> QED
            BY <3>5 DEF ab, i
    <2>3. Len(a) + 1 \in DOMAIN (a \o b \o c)
        BY <1>2, <1>6, <2>1
    <2> QED
        BY <1>3, <2>2, <2>3
<1> QED
    BY <1>3, <1>6, <1>7, <1>8

LEMMA CheckTypes ==
    ASSUME TypeOK, Shape, NEW n \in Logins, CheckInfo(n)
    PROVE  TypeOK' /\ Shape'
<1>0. UNCHANGED <<db, diskVars, clock, left>> /\ uploads[n] \in Upload /\ UploadOK(n) /\ uploads[n].at = "uploading"
    BY DEF CheckInfo, TypeOK, Shape
<1>1. PICK d \in uploads[n].todo :
         IF KeyNotFound(n, d) THEN EndProcess
         ELSE /\ uploads' = [uploads EXCEPT ![n] =
                    IF Unchanged(n, d)
                    THEN [uploads[n] EXCEPT !.todo = uploads[n].todo \ {d}, !.id = d, !.left = ToSend(n, d),
                                            !.online = db["info"][d]]
                    ELSE [uploads[n] EXCEPT !.todo = uploads[n].todo \ {d},
                                            !.conflicts = uploads[n].conflicts \cup {d}]]
              /\ UNCHANGED <<loggedIn, pages, threads, newest, cancelled, history>>
    BY DEF CheckInfo
<1>2. CASE KeyNotFound(n, d)
    <2>1. left' \in Bounds
        BY <1>0 DEF TypeOK
    <2> QED
        BY <1>0, <1>1, <1>2, <2>1, EndTypes
<1>3. CASE ~KeyNotFound(n, d)
    <2> DEFINE a == [uploads[n] EXCEPT !.todo = uploads[n].todo \ {d}, !.id = d, !.left = ToSend(n, d),
                                       !.online = db["info"][d]]
               b == [uploads[n] EXCEPT !.todo = uploads[n].todo \ {d},
                                       !.conflicts = uploads[n].conflicts \cup {d}]
    <2>1. d \in Drawings /\ uploads[n].files["info"][d] # {}
        BY <1>0 DEF Upload, UploadOK
    <2>2. db["info"][d] \in Content
        BY <2>1 DEF TypeOK, Folder, Values, Kinds
    <2>3. a \in Upload /\ a.left # <<>> /\ a.at = "uploading" /\ \A e \in a.todo : a.files["info"][e] # {}
        BY <1>0, <2>1, <2>2, ToSendTypes DEF Upload, UploadOK
    <2>4. b \in Upload /\ b.at = "uploading" /\ (\A e \in b.todo : b.files["info"][e] # {})
          /\ (b.id # None => b.left # <<>>)
        BY <1>0, <2>1 DEF Upload, UploadOK
    <2>5. uploads' = [uploads EXCEPT ![n] = a] \/ uploads' = [uploads EXCEPT ![n] = b]
        <3>1. CASE Unchanged(n, d)
            BY <1>1, <1>3, <3>1
        <3>2. CASE ~Unchanged(n, d)
            BY <1>1, <1>3, <3>2
        <3> QED
            BY <3>1, <3>2
    <2>6. uploads' \in [Logins -> Upload] /\ \A m \in Logins : UploadOK(m)'
        BY <2>3, <2>4, <2>5, OneUpload
    <2>7. UNCHANGED <<loggedIn, pages, threads, newest, cancelled, history>>
        BY <1>1, <1>3
    <2>8. TypeOK'
        BY <1>0, <2>6, <2>7 DEF TypeOK, diskVars
    <2> QED
        BY <1>0, <2>6, <2>7, <2>8, SamePages DEF Shape
<1> QED
    BY <1>2, <1>3

LEMMA SendTypes ==
    ASSUME TypeOK, Shape, NEW n \in Logins, SendNext(n)
    PROVE  TypeOK' /\ Shape'
<1> DEFINE u == uploads[n]
           k == Head(u.left)
           value == u.files[k][u.id]
           next == [uploads[n] EXCEPT !.left = Tail(@), !.id = IF Tail(u.left) = <<>> THEN None ELSE @]
<1>1. u \in Upload /\ u.at = "uploading" /\ u.id \in Drawings /\ UploadOK(n) /\ u.left \in Seq(Kinds) /\ u.left # <<>>
    BY DEF SendNext, TypeOK, Upload, Shape, UploadOK
<1>2. k \in Kinds /\ Tail(u.left) \in Seq(Kinds)
    BY <1>1, HeadTailProperties
<1>3. value \in Content
    BY <1>1, <1>2 DEF Upload, Folder, Values
<1> HIDE DEF k, value
<1>4. db' \in Folder
    <2>1. db' = [db EXCEPT ![k][u.id] = value] /\ db \in Folder
        BY DEF SendNext, TypeOK, k, value
    <2> QED
        BY <1>1, <1>2, <1>3, <2>1, Put
<1>5. uploads' \in [Logins -> Upload] /\ \A m \in Logins : UploadOK(m)'
    <2>1. uploads' = [uploads EXCEPT ![n] = next]
        <3>1. /\ uploads' = [[uploads EXCEPT ![n].left = Tail(@)] EXCEPT
                                ![n].id = IF Tail(u.left) = <<>> THEN None ELSE @]
              /\ uploads \in [Logins -> Upload]
            BY DEF SendNext, TypeOK
        <3> QED
            BY <1>1, <3>1
    <2>2. next \in Upload /\ next.at = "uploading" /\ (next.id # None => next.left # <<>>)
          /\ \A d \in next.todo : next.files["info"][d] # {}
        BY <1>1, <1>2 DEF Upload, UploadOK
    <2> HIDE DEF next
    <2> QED
        BY <2>1, <2>2, OneUpload
<1>6. history' \in History
    <2>1. Back(k, u.id, value) \subseteq Kinds \X Drawings
        BY <1>1, <1>2 DEF Back
    <2>2. /\ history \in History
          /\ history' = [history EXCEPT
                !.reached = IF k = "strokes" THEN @ \cup value ELSE @,
                !.begun = IF k = "info" THEN @ \cup {u.id} ELSE @,
                !.torn = IF k = "strokes" /\ Late(u.id, value) THEN @ \cup {u.id} ELSE @,
                !.doubtful = @ \cup Back(k, u.id, value)]
        BY DEF SendNext, TypeOK, k, value
    <2> QED
        BY <1>1, <1>3, <2>1, <2>2 DEF History, Content
<1>7. UNCHANGED <<diskVars, loggedIn, pages, threads, newest, cancelled, clock, left>>
    BY DEF SendNext
<1>8. TypeOK'
    BY <1>4, <1>5, <1>6, <1>7 DEF TypeOK, diskVars
<1> QED
    BY <1>5, <1>7, <1>8, SamePages DEF Shape

LEMMA ListTypes ==
    ASSUME TypeOK, Shape, NEW n \in Logins, ListDrawings(n)
    PROVE  TypeOK' /\ Shape'
<1>0. UNCHANGED <<db, diskVars, clock, left>> /\ uploads[n] \in Upload /\ uploads[n].id = None /\ uploads[n].todo = {}
      /\ left' \in Bounds
    BY DEF ListDrawings, TypeOK
<1>1. CASE EndProcess
    BY <1>0, <1>1, EndTypes
<1>2. CASE /\ uploads' = [uploads EXCEPT ![n].at = "listing"]
           /\ UNCHANGED <<loggedIn, pages, threads, newest, cancelled, history>>
    <2> DEFINE u == [uploads[n] EXCEPT !.at = "listing"]
    <2>1. u \in Upload /\ u.id = None /\ u.todo = {}
        BY <1>0 DEF Upload
    <2>2. uploads' = [uploads EXCEPT ![n] = u]
        BY <1>2
    <2>3. uploads' \in [Logins -> Upload] /\ \A m \in Logins : UploadOK(m)'
        BY <2>1, <2>2, OneUpload
    <2>4. TypeOK'
        BY <1>0, <1>2, <2>3 DEF TypeOK, diskVars
    <2> QED
        BY <1>0, <1>2, <2>3, <2>4, SamePages DEF Shape
<1> QED
    BY <1>1, <1>2 DEF ListDrawings

LEMMA ClearTypes ==
    ASSUME TypeOK, Shape, NEW n \in Logins, ClearOverride(n)
    PROVE  TypeOK' /\ Shape'
<1> DEFINE S == {q \in history.own : q[2] \in Forgotten(n, q[1]) \ history.reached}
           u == [NoUpload EXCEPT !.at = "done"]
<1>1. history' \in History
    <2>1. S \in SUBSET history.own /\ history' = LostWith(S)
        BY DEF ClearOverride, LostWith
    <2> HIDE DEF S
    <2> QED
        BY <2>1, LostTypes
<1>2. u \in Upload /\ u.id = None /\ u.todo = {}
    BY Empty, EmptyShape DEF Upload
<1>3. uploads' = [uploads EXCEPT ![n] = u]
    BY DEF ClearOverride
<1>4. uploads' \in [Logins -> Upload] /\ \A m \in Logins : UploadOK(m)'
    BY <1>2, <1>3, OneUpload
<1>5. threads' \in [Logins -> Thread] /\ newest' \in 0..MaxLogins
    <2>1. threads[n] \in Thread
        BY DEF TypeOK
    <2>2. [threads[n] EXCEPT !.at = "queued"] \in Thread
        BY <2>1 DEF Thread
    <2>3. n \in 0..MaxLogins
        BY BoundsAssumption DEF Logins
    <2> QED
        BY <2>2, <2>3 DEF ClearOverride, TypeOK
<1>6. override' \in Folder /\ UNCHANGED <<db, cache, hashes, loggedIn, pages, cancelled, clock, left>>
    BY Empty DEF ClearOverride
<1>7. TypeOK'
    BY <1>1, <1>4, <1>5, <1>6 DEF TypeOK
<1> QED
    BY <1>4, <1>6, <1>7, SamePages DEF Shape

-----------------------------------------------------------------------------
(* The sync threads *)

ThreadStep(n) ==
    \/ StartThread(n) \/ EndThread(n) \/ StartPass(n) \/ Once(n)
    \/ WriteFile(n) \/ FinishTarget(n) \/ FailDownload(n) \/ FailPass(n)

\* A thread inside a pass.
InPass(n, i, h) ==
    [NoThread EXCEPT !.at = "reading", !.watches = threads[n].watches, !.target = i, !.hashes = h]

LEMMA TopTypes ==
    ASSUME TypeOK, NEW n \in Logins
    PROVE  AtTop(n) \in Thread /\ AtTop(n).at \in {"ended", "top"} /\ AtTop(n).hashes = NoValues /\ AtTop(n).objs = NoValues
<1>1. threads[n].watches \in 0..MaxLogins /\ NoThread \in Thread
    BY Empty DEF TypeOK, Thread
<1> QED
    BY <1>1 DEF AtTop, Thread, NoThread

LEMMA PassTypes ==
    ASSUME TypeOK, NEW n \in Logins, NEW i \in DOMAIN Targets, NEW h \in Values
    PROVE  InPass(n, i, h) \in Thread
<1>1. threads[n].watches \in 0..MaxLogins /\ NoThread \in Thread
    BY Empty DEF TypeOK, Thread
<1> QED
    BY <1>1 DEF InPass, Thread

LEMMA ClashTypes ==
    ASSUME TypeOK, NEW n \in Logins, NEW i
    PROVE  Clash(n, i) \subseteq Kinds \X Drawings
<1>1. CASE \E o \in Logins \ {n} : threads[o].target = i
    <2>1. i \in DOMAIN Targets
        BY <1>1 DEF TypeOK, Thread
    <2>2. Targets[i] \in Kinds
        BY <2>1, TargetsAssumption
    <2> QED
        BY <2>2 DEF Clash
<1> QED
    BY <1>1 DEF Clash

LEMMA DoubtTypes ==
    ASSUME TypeOK, NEW D \in SUBSET (Kinds \X Drawings)
    PROVE  [history EXCEPT !.doubtful = @ \cup D] \in History
BY DEF TypeOK, History

LEMMA TurnTypes ==
    ASSUME TypeOK, NEW n \in Logins, NEW i \in Nat \ {0}, NEW h \in Folder, Turn(n, i, h)
    PROVE  threads' \in [Logins -> Thread]
<1>1. CASE i > Len(Targets)
    BY <1>1, TopTypes DEF Turn, TypeOK
<1>2. CASE ~(i > Len(Targets))
    <2>1. i \in DOMAIN Targets /\ Targets[i] \in Kinds
        BY <1>2, TargetsAssumption
    <2>2. h[Targets[i]] \in Values
        BY <2>1 DEF Folder
    <2>3. InPass(n, i, h[Targets[i]]) \in Thread
        BY <2>1, <2>2, PassTypes
    <2>4. threads' = [threads EXCEPT ![n] = InPass(n, i, h[Targets[i]])]
        BY <1>2 DEF Turn, InPass
    <2> QED
        BY <2>3, <2>4 DEF TypeOK
<1> QED
    BY <1>1, <1>2

LEMMA TargetTypes ==
    ASSUME TypeOK, NEW n \in Logins
    PROVE  /\ threads[n] \in Thread
           /\ threads[n].target \in Nat \ {0} /\ threads[n].target + 1 \in Nat \ {0}
           /\ Targets[threads[n].target] \in Kinds
           /\ threads[n].objs \in Values /\ threads[n].hashes \in Values /\ threads[n].todo \subseteq Drawings
<1>1. threads[n] \in Thread
    BY DEF TypeOK
<1>2. threads[n].target \in DOMAIN Targets
    BY <1>1 DEF Thread
<1>3. DOMAIN Targets = 1..Len(Targets) /\ Len(Targets) \in Nat
    BY TargetsAssumption
<1> QED
    BY <1>1, <1>2, <1>3, TargetsAssumption DEF Thread

\* What a step of a thread changes besides: files, hashes and what is doubtful.
LEMMA ThreadTypes ==
    ASSUME TypeOK, Shape, NEW n \in Logins, ThreadStep(n)
    PROVE  TypeOK' /\ Shape'
<1> DEFINE t == threads[n]
           k == Targets[t.target]
<1>1. /\ t \in Thread /\ t.target \in Nat \ {0} /\ t.target + 1 \in Nat \ {0} /\ k \in Kinds
      /\ t.objs \in Values /\ t.hashes \in Values /\ t.todo \subseteq Drawings
    BY TargetTypes
<1> HIDE DEF k
<1>2. threads' \in [Logins -> Thread] /\ cache' \in Folder /\ hashes' \in Folder /\ history' \in History
    <2>1. CASE StartThread(n)
        <3> DEFINE a == [NoThread EXCEPT !.at = "ended"]
                   b == [t EXCEPT !.at = "first", !.watches = newest]
        <3>1. a \in Thread /\ b \in Thread
            BY <1>1, Empty DEF TypeOK, Thread
        <3>2. /\ threads' = [threads EXCEPT ![n] = IF newest \in cancelled THEN a ELSE b]
              /\ UNCHANGED <<diskVars, history>>
            BY <2>1 DEF StartThread, OnlyThreads
        <3> HIDE DEF a, b
        <3> QED
            BY <3>1, <3>2 DEF TypeOK, diskVars
    <2>2. CASE EndThread(n) \/ FailDownload(n) \/ FailPass(n)
        <3>1. [NoThread EXCEPT !.at = "ended"] \in Thread /\ [t EXCEPT !.at = "ended"] \in Thread /\ AtTop(n) \in Thread
            BY <1>1, Empty, TopTypes DEF Thread
        <3>2. /\ \E x \in Thread : threads' = [threads EXCEPT ![n] = x]
              /\ UNCHANGED <<diskVars, history>>
            BY <2>2, <3>1 DEF EndThread, FailDownload, FailPass, OnlyThreads
        <3> QED
            BY <3>2 DEF TypeOK, diskVars
    <2>3. CASE StartPass(n)
        <3>1. /\ Turn(n, 1, hashes) /\ UNCHANGED diskVars
              /\ history' = [history EXCEPT !.doubtful = @ \cup Clash(n, 1)]
            BY <2>3 DEF StartPass, OnlyThreads
        <3>2. hashes \in Folder /\ cache \in Folder
            BY DEF TypeOK
        <3> QED
            BY <3>1, <3>2, TurnTypes, ClashTypes, DoubtTypes DEF diskVars
    <2>4. CASE Once(n)
        <3>1. UNCHANGED diskVars /\ hashes \in Folder /\ cache \in Folder /\ history \in History /\ db \in Folder
            BY <2>4 DEF Once, OnlyThreads, TypeOK
        <3>2. CASE db[k] = NoValues
            <4>1. /\ Turn(n, t.target + 1, hashes)
                  /\ history' = [history EXCEPT !.doubtful = @ \cup Clash(n, t.target + 1)]
                BY <2>4, <3>2 DEF Once, k
            <4> QED
                BY <1>1, <3>1, <4>1, TurnTypes, ClashTypes, DoubtTypes DEF diskVars
        <3>3. CASE db[k] # NoValues
            <4>1. /\ threads' = [[[threads EXCEPT ![n].at = "writing"] EXCEPT ![n].objs = db[k]]
                                    EXCEPT ![n].todo = {d \in Drawings : db[k][d] # {}}]
                  /\ UNCHANGED history
                BY <2>4, <3>3 DEF Once, k
            <4>2. db[k] \in Values
                BY <1>1, <3>1 DEF Folder
            <4>3. [[[t EXCEPT !.at = "writing"] EXCEPT !.objs = db[k]]
                        EXCEPT !.todo = {d \in Drawings : db[k][d] # {}}] \in Thread
                BY <1>1, <4>2 DEF Thread
            <4> QED
                BY <3>1, <4>1, <4>3 DEF TypeOK, diskVars
        <3> QED
            BY <3>2, <3>3
    <2>5. CASE WriteFile(n)
        <3>1. PICK d \in t.todo :
                /\ cache' = IF t.hashes[d] = t.objs[d] THEN cache ELSE [cache EXCEPT ![k][d] = t.objs[d]]
                /\ threads' = [[threads EXCEPT ![n].todo = @ \ {d}] EXCEPT ![n].hashes[d] = t.objs[d]]
            BY <2>5 DEF WriteFile, k
        <3>2. d \in Drawings /\ t.objs[d] \in Content /\ cache \in Folder
            BY <1>1 DEF Values, TypeOK
        <3>3. cache' \in Folder
            BY <1>1, <3>1, <3>2, Put
        <3>4. [t.hashes EXCEPT ![d] = t.objs[d]] \in Values
            BY <1>1, <3>2 DEF Values
        <3>5. [[t EXCEPT !.todo = @ \ {d}] EXCEPT !.hashes = [t.hashes EXCEPT ![d] = t.objs[d]]] \in Thread
            BY <1>1, <3>4 DEF Thread
        <3>6. threads' = [threads EXCEPT ![n] =
                            [[t EXCEPT !.todo = @ \ {d}] EXCEPT !.hashes = [t.hashes EXCEPT ![d] = t.objs[d]]]]
            BY <1>1, <3>1 DEF TypeOK, Thread
        <3>7. UNCHANGED <<hashes, history>>
            BY <2>5 DEF WriteFile
        <3> QED
            BY <3>3, <3>5, <3>6, <3>7 DEF TypeOK
    <2>6. CASE FinishTarget(n)
        <3> DEFINE kept == {d \in Drawings : t.objs[d] # {}}
                   torn == {d \in Drawings :
                    /\ k = "info" /\ t.hashes[d] # hashes[k][d]
                    /\ override["strokes"][d] # {} \/ \E v \in Visits : pages[v].drawing = d}
        <3>1. /\ cache' = [cache EXCEPT ![k] = [d \in Drawings |-> IF d \in kept THEN @[d] ELSE {}]]
              /\ hashes' = [hashes EXCEPT ![k] = t.hashes]
              /\ Turn(n, t.target + 1, hashes')
              /\ history' = [history EXCEPT !.torn = @ \cup torn,
                                            !.doubtful = @ \cup Clash(n, t.target + 1)]
            BY <2>6 DEF FinishTarget, Finish, k
        <3>2. hashes' \in Folder
            BY <1>1, <3>1 DEF TypeOK, Folder
        <3>3. cache' \in Folder
            <4>1. [d \in Drawings |-> IF d \in kept THEN cache[k][d] ELSE {}] \in Values
                BY <1>1 DEF TypeOK, Folder, Values, Content
            <4> QED
                BY <1>1, <3>1, <4>1 DEF TypeOK, Folder
        <3>4. threads' \in [Logins -> Thread]
            BY <1>1, <3>1, <3>2, TurnTypes
        <3>5. history' \in History
            <4>1. history \in History /\ torn \subseteq Drawings /\ Clash(n, t.target + 1) \subseteq Kinds \X Drawings
                BY ClashTypes DEF TypeOK
            <4> HIDE DEF torn
            <4> QED
                BY <3>1, <4>1 DEF History
        <3> QED
            BY <3>2, <3>3, <3>4, <3>5
    <2> QED
        BY <2>1, <2>2, <2>3, <2>4, <2>5, <2>6 DEF ThreadStep
<1>3. UNCHANGED <<db, override, loggedIn, pages, uploads, newest, cancelled, clock>>
    BY DEF ThreadStep, StartThread, EndThread, StartPass, Once, WriteFile, FinishTarget, Finish, FailDownload, FailPass,
           OnlyThreads, diskVars
<1>4. left' \in Bounds /\ left'.visits = left.visits
    <2>1. UNCHANGED left \/ Fail
        BY DEF ThreadStep, StartThread, EndThread, StartPass, Once, WriteFile, FinishTarget, Finish, FailDownload,
               FailPass
    <2>2. left \in Bounds
        BY DEF TypeOK
    <2> QED
        BY <2>1, <2>2 DEF Fail, Bounds
<1>5. TypeOK'
    BY <1>2, <1>3, <1>4 DEF TypeOK
<1> QED
    BY <1>3, <1>4, <1>5, SamePages, SameUploads DEF Shape

-----------------------------------------------------------------------------
(* The other clients, and all steps *)

LEMMA OthersTypes ==
    ASSUME TypeOK, Shape, Others
    PROVE  TypeOK' /\ Shape'
<1>1. PICK d \in Drawings : OnlineCreate(d) \/ OnlineDraw(d) \/ OnlineSave(d) \/ OnlineDelete(d)
    BY DEF Others
<1>2. PICK c \in Changes : Online(c)
    BY <1>1 DEF OnlineCreate, OnlineDraw, OnlineSave, OnlineDelete, Changes
<1>3. left' \in Bounds /\ left'.visits = left.visits
    BY <1>2 DEF Online, TypeOK, Bounds
<1>4. UNCHANGED <<diskVars, loggedIn, pages, taskVars>>
    BY <1>2 DEF Online
<1>5. db \in Folder /\ clock \in Nat /\ history \in History
    BY DEF TypeOK
<1>6. db' \in Folder /\ clock' \in Nat /\ history' \in History
    <2>1. CASE OnlineCreate(d)
        <3>1. /\ clock' = clock + 1
              /\ db' = [[db EXCEPT !["drawings"][d] = {clock'}] EXCEPT !["info"][d] = {clock'}]
              /\ history' = [history EXCEPT !.new = @ \ {d}]
            BY <2>1 DEF OnlineCreate, NewId
        <3>2. clock' \in Nat /\ {clock'} \in Content /\ "drawings" \in Kinds /\ "info" \in Kinds
            BY <1>5, <3>1 DEF Content, Kinds
        <3>3. [db EXCEPT !["drawings"][d] = {clock'}] \in Folder
            BY <1>5, <3>2, Put
        <3>4. history' \in History
            BY <1>5, <3>1 DEF History
        <3> QED
            BY <3>1, <3>2, <3>3, <3>4, Put
    <2>2. CASE OnlineDraw(d)
        <3>1. clock' = clock + 1 /\ db' = [db EXCEPT !["strokes"][d] = @ \cup {clock'}] /\ history' = history
            BY <2>2 DEF OnlineDraw
        <3>2. clock' \in Nat /\ "strokes" \in Kinds /\ db["strokes"][d] \cup {clock'} \in Content
            BY <1>5, <3>1 DEF Folder, Values, Content, Kinds
        <3> QED
            BY <1>5, <3>1, <3>2, Put
    <2>3. CASE OnlineSave(d)
        <3>1. clock' = clock + 1 /\ db' = [db EXCEPT !["info"][d] = {clock'}] /\ history' = history
            BY <2>3 DEF OnlineSave
        <3>2. clock' \in Nat /\ "info" \in Kinds /\ {clock'} \in Content
            BY <1>5, <3>1 DEF Content, Kinds
        <3> QED
            BY <1>5, <3>1, <3>2, Put
    <2>4. CASE OnlineDelete(d)
        <3>1. db' = [k \in Kinds |-> [db[k] EXCEPT ![d] = {}]] /\ clock' = clock /\ history' = history
            BY <2>4 DEF OnlineDelete
        <3> QED
            <4>1. \A k \in Kinds : [db[k] EXCEPT ![d] = {}] \in Values
                BY <1>5 DEF Folder, Values, Content
            <4> QED
                BY <1>5, <3>1, <4>1 DEF Folder
    <2> QED
        BY <1>1, <2>1, <2>2, <2>3, <2>4
<1>7. TypeOK'
    BY <1>3, <1>4, <1>6 DEF TypeOK, diskVars, taskVars
<1> QED
    BY <1>3, <1>4, <1>7, SamePages, SameUploads DEF Shape, taskVars

LEMMA StepTypes == TypeOK /\ Shape /\ [Next]_vars => TypeOK' /\ Shape'
<1> SUFFICES ASSUME TypeOK, Shape, [Next]_vars PROVE TypeOK' /\ Shape'
    OBVIOUS
<1>1. CASE Offline
    BY <1>1, OfflineTypes, DrawTypes, ResizeTypes, LeaveTypes, WriterTypes, LoopTypes DEF Offline, Loop
<1>2. CASE Session
    BY <1>2, LoginTypes, CheckTypes, SendTypes, ListTypes, ClearTypes DEF Session
<1>3. CASE Sync
    BY <1>3, ThreadTypes DEF Sync, ThreadStep
<1>4. CASE Others
    BY <1>4, OthersTypes
<1>5. CASE Failures
    BY <1>5, CrashTypes, WriterTypes, LoopTypes, ThreadTypes DEF Failures, Loop, ThreadStep
<1>6. CASE UNCHANGED vars
    BY <1>6 DEF vars, diskVars, taskVars, TypeOK, Shape, PageOK, UploadOK
<1> QED
    BY <1>1, <1>2, <1>3, <1>4, <1>5, <1>6 DEF Next

LEMMA TypeInvariant == Spec => [](TypeOK /\ Shape)
<1>1. Init => TypeOK /\ Shape
    BY InitTypes
<1>2. TypeOK /\ Shape /\ [Next]_vars => (TypeOK /\ Shape)'
    BY StepTypes
<1> QED
    BY <1>1, <1>2, PTL DEF Spec

-----------------------------------------------------------------------------
(* What becomes of a stroke *)

Safe(p) ==
    \/ p[2] \in history.reached \cup history.lost
    \/ \E v \in Visits : pages[v].drawing = p[1] /\ p[2] \in Unwritten(v)
    \/ p[2] \in override["strokes"][p[1]]

\* An upload that is done with d, and has not found a conflict, has sent its strokes.
Strokes(n) == {i \in DOMAIN uploads[n].left : uploads[n].left[i] = "strokes"}

SentOK(n, d) ==
    uploads[n].at \in {"uploading", "listing"} =>
        \/ uploads[n].files["info"][d] = {} \/ d \in uploads[n].todo \cup uploads[n].conflicts
        \/ uploads[n].id = d /\ Strokes(n) # {}
        \/ uploads[n].files["strokes"][d] \subseteq history.reached

WorkInv ==
    /\ \A p \in history.own : Safe(p)
    /\ \A n \in Logins : \A d \in Drawings : SentOK(n, d)

LEMMA WorkInit == Init => WorkInv
<1> SUFFICES ASSUME Init PROVE WorkInv
    OBVIOUS
<1>1. history.own = {}
    BY DEF Init
<1>2. \A n \in Logins : uploads[n] = NoUpload
    BY DEF Init
<1>3. \A n \in Logins : \A d \in Drawings : SentOK(n, d)
    BY <1>2, EmptyShape DEF SentOK
<1> QED
    BY <1>1, <1>3 DEF WorkInv

LEMMA SameSent ==
    ASSUME WorkInv, uploads' = uploads, history.reached \subseteq history'.reached
    PROVE  \A n \in Logins : \A d \in Drawings : SentOK(n, d)'
BY DEF WorkInv, SentOK, Strokes

\* Whatever leaves the pages and the overrides alone.
LEMMA SameSafe ==
    ASSUME WorkInv, pages' = pages, override'["strokes"] = override["strokes"], history'.own = history.own,
           history.reached \subseteq history'.reached, history.lost \subseteq history'.lost
    PROVE  \A p \in history'.own : Safe(p)'
<1> SUFFICES ASSUME NEW p \in history'.own PROVE Safe(p)'
    OBVIOUS
<1>1. Safe(p)
    BY DEF WorkInv
<1>2. \A v \in Visits : Unwritten(v)' = Unwritten(v)
    BY DEF Unwritten
<1> QED
    BY <1>1, <1>2 DEF Safe

\* One page changes and keeps what it has to write, or has nothing to write.
LEMMA OnePageSafe ==
    ASSUME WorkInv, NEW v \in Visits, Unwritten(v) = {} \/ (Unwritten(v) \subseteq Unwritten(v)' /\ pages'[v].drawing = pages[v].drawing),
           \A w \in Visits \ {v} : pages'[w] = pages[w],
           override'["strokes"] = override["strokes"],
           history.reached \subseteq history'.reached, history.lost \subseteq history'.lost
    PROVE  \A p \in history.own : Safe(p)'
<1> SUFFICES ASSUME NEW p \in history.own PROVE Safe(p)'
    OBVIOUS
<1>1. Safe(p)
    BY DEF WorkInv
<1>2. \A w \in Visits \ {v} : Unwritten(w)' = Unwritten(w)
    BY DEF Unwritten
<1>3. CASE p[2] \in history.reached \cup history.lost \/ p[2] \in override["strokes"][p[1]]
    BY <1>3 DEF Safe
<1>4. ASSUME NEW w \in Visits, pages[w].drawing = p[1], p[2] \in Unwritten(w) PROVE Safe(p)'
    <2>1. pages'[w].drawing = p[1] /\ p[2] \in Unwritten(w)'
        BY <1>2, <1>4
    <2> QED
        BY <2>1 DEF Safe
<1> QED
    BY <1>1, <1>3, <1>4 DEF Safe

LEMMA OtherKind ==
    ASSUME NEW F \in Folder, NEW k \in Kinds, k # "strokes", NEW d, NEW c
    PROVE  [F EXCEPT ![k][d] = c]["strokes"] = F["strokes"]
BY DEF Folder, Kinds

LEMMA VisitWork ==
    ASSUME TypeOK, Shape, WorkInv, NEW d \in Drawings, CreateDrawing(d) \/ GetDrawing(d)
    PROVE  WorkInv'
<1>1. PICK strokes \in Content : Visit(d, strokes)
    <2>1. Get("strokes", d) \in Content /\ {} \in Content
        BY DEF TypeOK, Get, Folder, Values, Content, Kinds
    <2> QED
        BY <2>1 DEF CreateDrawing, GetDrawing
<1>2. PICK v \in Visits : /\ pages[v] = NoPage /\ pages' = [pages EXCEPT ![v] = pages'[v]]
                          /\ pages' \in [Visits -> Page]
    BY <1>1, VisitTypes
<1>3. Unwritten(v) = {} /\ \A w \in Visits \ {v} : pages'[w] = pages[w]
    BY <1>2, EmptyShape DEF Unwritten, TypeOK
<1>4. override'["strokes"] = override["strokes"]
    <2>1. CASE CreateDrawing(d)
        <3> DEFINE F == [override EXCEPT !["drawings"][d] = {clock'}]
        <3>1. override' = [F EXCEPT !["info"][d] = {clock'}]
            BY <2>1 DEF CreateDrawing
        <3>2. override \in Folder /\ {clock'} \in Content
            BY <2>1 DEF CreateDrawing, TypeOK, Content
        <3>3. F \in Folder /\ F["strokes"] = override["strokes"]
            BY <3>2, OtherKind, Put DEF Kinds
        <3> HIDE DEF F
        <3> QED
            BY <3>1, <3>3, OtherKind DEF Kinds
    <2>2. CASE GetDrawing(d)
        BY <2>2 DEF GetDrawing, diskVars
    <2> QED
        BY <2>1, <2>2
<1>5. /\ history'.own = history.own /\ history'.reached = history.reached /\ history'.lost = history.lost
      /\ uploads' = uploads
    BY DEF CreateDrawing, GetDrawing, NewId, TypeOK, History, taskVars
<1>6. \A p \in history'.own : Safe(p)'
    BY <1>3, <1>4, <1>5, OnePageSafe
<1> QED
    BY <1>5, <1>6, SameSent DEF WorkInv

LEMMA DrawWork ==
    ASSUME TypeOK, Shape, WorkInv, NEW v \in Visits, UpdateStroke(v)
    PROVE  WorkInv'
<1>1. pages[v] \in Page /\ pages \in [Visits -> Page] /\ history \in History
    BY DEF TypeOK
<1>2. /\ pages'[v].drawing = pages[v].drawing /\ pages'[v].writer = pages[v].writer
      /\ pages'[v].shown = pages[v].shown \cup {clock'} /\ pages'[v].pending = pages[v].pending \cup {clock'}
      /\ pages'[v].file = pages[v].file
      /\ \A w \in Visits \ {v} : pages'[w] = pages[w]
    BY <1>1 DEF UpdateStroke, Page
<1>3. /\ history'.own = history.own \cup {<<pages[v].drawing, clock'>>}
      /\ history'.reached = history.reached /\ history.lost \subseteq history'.lost
      /\ pages[v].writer = "ended" => clock' \in history'.lost
    BY <1>1 DEF UpdateStroke, History
<1>4. override' = override /\ uploads' = uploads
    BY DEF UpdateStroke, diskVars, taskVars
<1>5. Unwritten(v) \subseteq Unwritten(v)' /\ (clock' \in Unwritten(v)' \/ clock' \in history'.lost)
    BY <1>2, <1>3 DEF Unwritten
<1>6. \A p \in history.own : Safe(p)'
    BY <1>2, <1>3, <1>4, <1>5, OnePageSafe
<1>7. \A p \in {<<pages[v].drawing, clock'>>} : Safe(p)'
    BY <1>2, <1>5 DEF Safe
<1> QED
    BY <1>3, <1>4, <1>6, <1>7, SameSent DEF WorkInv

LEMMA ResizeWork ==
    ASSUME TypeOK, Shape, WorkInv, NEW v \in Visits, SaveDimensions(v)
    PROVE  WorkInv'
<1>1. override'["strokes"] = override["strokes"]
    BY OtherKind DEF SaveDimensions, TypeOK, Kinds
<1>2. UNCHANGED <<pages, uploads, history>>
    BY DEF SaveDimensions, taskVars
<1> QED
    BY <1>1, <1>2, SameSafe, SameSent DEF WorkInv

LEMMA LeaveWork ==
    ASSUME TypeOK, Shape, WorkInv, NEW v \in Visits, SaveDrawingPreview(v)
    PROVE  WorkInv'
<1>1. override'["strokes"] = override["strokes"]
    <2>1. override \in Folder /\ "info" \in Kinds
        BY DEF TypeOK, Kinds
    <2>2. \/ override' = override
          \/ override' = [override EXCEPT !["info"][pages[v].drawing] = {clock'}]
        <3>1. IF Get("info", pages[v].drawing) = {} THEN override' = override
              ELSE override' = [override EXCEPT !["info"][pages[v].drawing] = {clock'}]
            BY DEF SaveDrawingPreview
        <3> QED
            BY <3>1
    <2>3. [override EXCEPT !["info"][pages[v].drawing] = {clock'}]["strokes"] = override["strokes"]
        BY <2>1, OtherKind
    <2> QED
        BY <2>2, <2>3
<1>2. pages[v] \in Page /\ pages \in [Visits -> Page]
    BY DEF TypeOK
<1>3. pages' = [pages EXCEPT ![v] = IF Unwritten(v) = {} THEN NoPage ELSE [pages[v] EXCEPT !.open = FALSE]]
    BY DEF SaveDrawingPreview, Leave
<1>4. \A w \in Visits \ {v} : pages'[w] = pages[w]
    BY <1>2, <1>3
<1>5. Unwritten(v) = {} \/ (Unwritten(v) \subseteq Unwritten(v)' /\ pages'[v].drawing = pages[v].drawing)
    <2>1. CASE Unwritten(v) = {}
        BY <2>1 DEF Unwritten
    <2>2. CASE Unwritten(v) # {}
        <3>1. /\ pages'[v].drawing = pages[v].drawing /\ pages'[v].writer = pages[v].writer
              /\ pages'[v].shown = pages[v].shown /\ pages'[v].pending = pages[v].pending
              /\ pages'[v].file = pages[v].file
            BY <1>2, <1>3, <2>2 DEF Page
        <3> QED
            BY <3>1 DEF Unwritten
    <2> QED
        BY <2>1, <2>2
<1>6. history' = history /\ uploads' = uploads
    BY DEF SaveDrawingPreview, Leave, taskVars
<1>7. \A p \in history'.own : Safe(p)'
    BY <1>1, <1>4, <1>5, <1>6, OnePageSafe
<1> QED
    BY <1>6, <1>7, SameSent DEF WorkInv

LEMMA TakeWork ==
    ASSUME TypeOK, Shape, WorkInv, NEW v \in Visits, TakeUpdates(v)
    PROVE  WorkInv'
<1>1. pages[v] \in Page /\ pages \in [Visits -> Page] /\ pages[v].writer = "idle" /\ PageOK(v)
    BY DEF TakeUpdates, TypeOK, Shape
<1>2. /\ pages'[v].drawing = pages[v].drawing /\ pages'[v].shown = pages[v].shown /\ pages'[v].file = pages[v].file
      /\ \/ pages'[v].writer = "offline"
         \/ pages'[v].writer = "online" /\ pages'[v].pending = pages[v].pending
      /\ \A w \in Visits \ {v} : pages'[w] = pages[w]
    <2>1. CASE loggedIn
        BY <1>1, <2>1 DEF TakeUpdates, Page
    <2>2. CASE ~loggedIn
        BY <1>1, <2>2 DEF TakeUpdates, Page
    <2> QED
        BY <2>1, <2>2
<1>3. Unwritten(v) \subseteq Unwritten(v)'
    BY <1>1, <1>2 DEF Unwritten, PageOK
<1>4. UNCHANGED <<diskVars, taskVars, history>>
    BY DEF TakeUpdates
<1>5. \A p \in history'.own : Safe(p)'
    BY <1>2, <1>3, <1>4, OnePageSafe DEF diskVars
<1> QED
    BY <1>4, <1>5, SameSent DEF WorkInv, taskVars

LEMMA WriteWork ==
    ASSUME TypeOK, Shape, WorkInv, NEW v \in Visits, WriteStrokes(v)
    PROVE  WorkInv'
<1> DEFINE d == pages[v].drawing
           over == {e \in override["strokes"][d] \ pages[v].file : <<d, e>> \in history.own}
<1>1. /\ pages[v] \in Page /\ pages \in [Visits -> Page] /\ history \in History /\ override \in Folder
      /\ pages[v].writer = "writing" /\ PageOK(v) /\ d \in Drawings
    BY DEF WriteStrokes, FileStrokes, TypeOK, Shape, PageOK, Page
<1>2. /\ pages' = [[pages EXCEPT ![v].writer = "back"] EXCEPT ![v].file = {}]
      /\ override' = [override EXCEPT !["strokes"][d] = pages[v].file]
      /\ UNCHANGED <<taskVars>>
    BY DEF WriteStrokes, FileStrokes
<1>3. /\ history'.own = history.own /\ history'.reached = history.reached
      /\ history'.lost = history.lost \cup over
    BY <1>1 DEF WriteStrokes, FileStrokes, History
<1>4. /\ override'["strokes"][d] = pages[v].file
      /\ \A e \in Drawings \ {d} : override'["strokes"][e] = override["strokes"][e]
    BY <1>1, <1>2 DEF Folder, Values, Kinds
<1>5. /\ \A w \in Visits \ {v} : pages'[w] = pages[w]
      /\ pages'[v].drawing = d /\ pages'[v].pending = pages[v].pending /\ pages'[v].writer = "back"
    BY <1>1, <1>2 DEF Page
<1>6. ASSUME NEW p \in history.own PROVE Safe(p)'
    <2>1. p \in Drawings \X Nat /\ p = <<p[1], p[2]>> /\ p[1] \in Drawings
        BY <1>1 DEF History
    <2>2. CASE p[2] \in history.reached \cup history.lost
        BY <1>3, <2>2 DEF Safe
    <2>3. CASE p[2] \in override["strokes"][p[1]] /\ p[1] # d
        BY <1>4, <2>1, <2>3 DEF Safe
    <2>4. CASE p[2] \in override["strokes"][p[1]] /\ p[1] = d
        <3>1. CASE p[2] \in pages[v].file
            BY <1>4, <2>4, <3>1 DEF Safe
        <3>2. CASE p[2] \notin pages[v].file
            <4>1. p[2] \in over
                BY <2>1, <2>4, <3>2
            <4> QED
                BY <1>3, <4>1 DEF Safe
        <3> QED
            BY <3>1, <3>2
    <2>5. CASE pages[v].drawing = p[1] /\ p[2] \in Unwritten(v)
        <3>1. p[2] \in pages[v].file \/ p[2] \in pages[v].pending
            BY <1>1, <2>5 DEF Unwritten
        <3>2. pages[v].pending \subseteq Unwritten(v)'
            BY <1>5 DEF Unwritten
        <3> QED
            BY <1>4, <1>5, <2>5, <3>1, <3>2 DEF Safe
    <2>6. ASSUME NEW w \in Visits \ {v}, pages[w].drawing = p[1], p[2] \in Unwritten(w) PROVE Safe(p)'
        <3>1. pages'[w].drawing = p[1] /\ p[2] \in Unwritten(w)'
            BY <1>5, <2>6 DEF Unwritten
        <3> QED
            BY <3>1 DEF Safe
    <2> QED
        BY <2>2, <2>3, <2>4, <2>5, <2>6 DEF WorkInv, Safe
<1> QED
    BY <1>2, <1>3, <1>6, SameSent DEF WorkInv, taskVars

LEMMA PatchWork ==
    ASSUME TypeOK, Shape, WorkInv, NEW v \in Visits, PatchStrokes(v) \/ FailPatch(v)
    PROVE  WorkInv'
<1>1. /\ pages \in [Visits -> Page] /\ history \in History /\ pages[v].writer = "online"
      /\ UNCHANGED <<diskVars, taskVars>>
    BY DEF PatchStrokes, FailPatch, TypeOK
<1>2. /\ pages' = [pages EXCEPT ![v] = NoPage] /\ history'.own = history.own
      /\ history.reached \subseteq history'.reached /\ history.lost \subseteq history'.lost
      /\ pages[v].pending \subseteq history'.reached \cup history'.lost
    <2>1. CASE PatchStrokes(v)
        <3>1. PICK T, D : history' = [history EXCEPT !.reached = @ \cup pages[v].pending, !.torn = T,
                                                    !.doubtful = D]
            BY <2>1 DEF PatchStrokes
        <3> QED
            BY <1>1, <2>1, <3>1 DEF PatchStrokes, History
    <2>2. CASE FailPatch(v)
        BY <1>1, <2>2 DEF FailPatch, History
    <2> QED
        BY <2>1, <2>2
<1>3. ASSUME NEW p \in history.own PROVE Safe(p)'
    <2>1. CASE p[2] \in history.reached \cup history.lost \/ p[2] \in override["strokes"][p[1]]
        BY <1>1, <1>2, <2>1 DEF Safe, diskVars
    <2>2. CASE p[2] \in Unwritten(v)
        BY <1>1, <1>2, <2>2 DEF Safe, Unwritten
    <2>3. ASSUME NEW w \in Visits \ {v}, pages[w].drawing = p[1], p[2] \in Unwritten(w) PROVE Safe(p)'
        <3>1. pages'[w].drawing = p[1] /\ p[2] \in Unwritten(w)'
            BY <1>1, <1>2, <2>3 DEF Unwritten
        <3> QED
            BY <3>1 DEF Safe
    <2> QED
        BY <2>1, <2>2, <2>3 DEF WorkInv, Safe
<1> QED
    BY <1>1, <1>2, <1>3, SameSent DEF WorkInv, taskVars

\* Of what is recorded only the losses grow.
LEMMA LoopHistory ==
    ASSUME TypeOK, Shape, NEW v \in Visits, Loop(v)
    PROVE  /\ history'.torn = history.torn /\ history'.doubtful = history.doubtful
           /\ history'.begun = history.begun /\ history'.new = history.new
<1>1. UnsavedOn(v) \in SUBSET history.own
    BY DEF UnsavedOn
<1> QED
    BY <1>1, LoopFacts, LostTypes

\* What a page has to write when its writer ends is among the losses.
LEMMA LoopWork ==
    ASSUME TypeOK, Shape, WorkInv, NEW v \in Visits, Loop(v)
    PROVE  WorkInv'
<1>1. PICK p \in Page : /\ pages' = [pages EXCEPT ![v] = p]
                        /\ \/ p = NoPage
                           \/ p.drawing = pages[v].drawing /\ p.shown = pages[v].shown /\ p.pending = pages[v].pending
    BY LoopFacts
<1>2. UNCHANGED <<diskVars, taskVars>> /\ (history' = history \/ history' = LostWith(UnsavedOn(v)))
    BY LoopFacts
<1>3. UnsavedOn(v) \subseteq history.own
    BY DEF UnsavedOn
<1>4. /\ history'.own = history.own /\ history'.reached = history.reached /\ history.lost \subseteq history'.lost
      /\ history' = history \/ history'.lost = history.lost \cup {q[2] : q \in UnsavedOn(v)}
    BY <1>2, <1>3, LostTypes
<1>5. \A w \in Visits \ {v} : pages'[w] = pages[w]
    BY <1>1 DEF TypeOK
<1>6. CASE TakeNothing(v) \/ SerializeStrokes(v) \/ (TestToken(v) /\ pages[v].open)
    <2>1. pages[v] \in Page /\ pages \in [Visits -> Page] /\ PageOK(v)
        BY DEF TypeOK, Shape
    <2>2. Unwritten(v) \subseteq Unwritten(v)' /\ pages'[v].drawing = pages[v].drawing
        <3>1. CASE TakeNothing(v)
            BY <2>1, <3>1 DEF TakeNothing, Unwritten, Page
        <3>2. CASE SerializeStrokes(v)
            BY <2>1, <3>2 DEF SerializeStrokes, Unwritten, Page, PageOK
        <3>3. CASE TestToken(v) /\ pages[v].open
            BY <2>1, <3>3 DEF TestToken, Unwritten, Page
        <3> QED
            BY <1>6, <3>1, <3>2, <3>3
    <2>3. \A q \in history.own : Safe(q)'
        BY <1>2, <1>4, <1>5, <2>2, OnePageSafe DEF diskVars
    <2> QED
        BY <1>2, <1>4, <2>3, SameSent DEF WorkInv, taskVars
<1>7. CASE FailWrite(v) \/ (TestToken(v) /\ ~pages[v].open)
    <2>1. history'.lost = history.lost \cup {q[2] : q \in UnsavedOn(v)}
        <3>1. history' = LostWith(UnsavedOn(v))
            BY <1>7 DEF FailWrite, TestToken, LostWith
        <3> QED
            BY <1>3, <3>1, LostTypes
    <2>2. ASSUME NEW q \in history.own PROVE Safe(q)'
        <3>1. CASE q[2] \in history.reached \cup history.lost \/ q[2] \in override["strokes"][q[1]]
            BY <1>2, <1>4, <3>1 DEF Safe, diskVars
        <3>2. CASE /\ ~(q[2] \in history.reached \cup history.lost \/ q[2] \in override["strokes"][q[1]])
                   /\ pages[v].drawing = q[1] /\ q[2] \in Unwritten(v)
            <4>1. q \in UnsavedOn(v)
                BY <3>2 DEF UnsavedOn
            <4> QED
                BY <2>1, <4>1 DEF Safe
        <3>3. ASSUME NEW w \in Visits \ {v}, pages[w].drawing = q[1], q[2] \in Unwritten(w) PROVE Safe(q)'
            <4>1. pages'[w].drawing = q[1] /\ q[2] \in Unwritten(w)'
                BY <1>5, <3>3 DEF Unwritten
            <4> QED
                BY <4>1 DEF Safe
        <3> QED
            BY <3>1, <3>2, <3>3 DEF WorkInv, Safe
    <2> QED
        BY <1>2, <1>4, <2>2, SameSent DEF WorkInv, taskVars
<1> QED
    BY <1>6, <1>7 DEF Loop

\* ... and so it is on all pages when the process ends.
LEMMA EndWork ==
    ASSUME TypeOK, Shape, WorkInv, StopProcess, override'["strokes"] = override["strokes"],
           history'.own = history.own, history'.reached = history.reached,
           history'.lost = history.lost \cup {p[2] : p \in Unsaved}
    PROVE  WorkInv'
<1>1. ASSUME NEW p \in history.own PROVE Safe(p)'
    <2>1. CASE p[2] \in history.reached \cup history.lost \/ p[2] \in override["strokes"][p[1]]
        BY <2>1 DEF Safe
    <2>2. ASSUME NEW v \in Visits, pages[v].drawing = p[1], p[2] \in Unwritten(v) PROVE Safe(p)'
        <3>1. p[2] \in Unwritten(v)
            BY <2>2 DEF Unwritten
        <3>2. CASE p[2] \in history.reached \/ p[2] \in override["strokes"][p[1]]
            BY <2>1, <3>2
        <3>3. CASE ~(p[2] \in history.reached \/ p[2] \in override["strokes"][p[1]])
            <4>1. p \in UnsavedOn(v)
                BY <2>2, <3>1, <3>3 DEF UnsavedOn
            <4>2. p \in Unsaved
                BY <4>1 DEF Unsaved
            <4> QED
                BY <4>2 DEF Safe
        <3> QED
            BY <3>2, <3>3
    <2> QED
        BY <2>1, <2>2 DEF WorkInv, Safe
<1>2. \A n \in Logins : uploads'[n] = uploads[n] \/ uploads'[n].at = "dead"
    BY DEF StopProcess, NoUpload
<1>3. \A n \in Logins : \A d \in Drawings : SentOK(n, d)'
    <2> SUFFICES ASSUME NEW n \in Logins, NEW d \in Drawings PROVE SentOK(n, d)'
        OBVIOUS
    <2>1. CASE uploads'[n] = uploads[n]
        BY <2>1 DEF WorkInv, SentOK, Strokes
    <2>2. CASE uploads'[n].at = "dead"
        BY <2>2 DEF SentOK
    <2> QED
        BY <1>2, <2>1, <2>2
<1> QED
    BY <1>1, <1>3 DEF WorkInv

LEMMA CrashWork ==
    ASSUME TypeOK, Shape, WorkInv,
           \/ EndProcess /\ UNCHANGED override
           \/ \E d \in Drawings : CrashWhileCreating(d)
    PROVE  WorkInv'
<1>1. StopProcess /\ override \in Folder /\ history \in History
    BY DEF EndProcess, CrashWhileCreating, TypeOK
<1>2. override'["strokes"] = override["strokes"]
    <2>1. ASSUME NEW d \in Drawings, CrashWhileCreating(d) PROVE override'["strokes"] = override["strokes"]
        <3>1. override' = [override EXCEPT !["drawings"][d] = {clock'}]
            BY <2>1 DEF CrashWhileCreating
        <3> QED
            BY <1>1, <3>1, OtherKind DEF Kinds
    <2> QED
        BY <2>1
<1>3. /\ history'.own = history.own /\ history'.reached = history.reached
      /\ history'.lost = history.lost \cup {p[2] : p \in Unsaved}
    BY <1>1 DEF EndProcess, CrashWhileCreating, History
<1> QED
    BY <1>1, <1>2, <1>3, EndWork

LEMMA LoginWork ==
    ASSUME TypeOK, Shape, WorkInv, Login \/ Logout
    PROVE  WorkInv'
<1>1. UNCHANGED <<diskVars, pages, history>>
    BY DEF Login, Logout, SignOut
<1>2. \A p \in history'.own : Safe(p)'
    BY <1>1, SameSafe DEF diskVars
<1>3. CASE Login
    <2> DEFINE n == MaxLogins - left.logins + 1
               u == [NoUpload EXCEPT !.at = "uploading", !.files = override, !.seen = hashes["info"],
                                     !.todo = {d \in Drawings : override["info"][d] # {}}]
    <2>1. uploads' = [uploads EXCEPT ![n] = u] /\ uploads \in [Logins -> Upload]
        BY <1>3 DEF Login, TypeOK
    <2>2. u.files = override /\ u.todo = {d \in Drawings : override["info"][d] # {}}
        BY DEF NoUpload
    <2> HIDE DEF n, u
    <2>3. ASSUME NEW m \in Logins, NEW d \in Drawings PROVE SentOK(m, d)'
        <3>1. CASE m = n
            <4>1. uploads'[m] = u
                BY <2>1, <3>1
            <4> QED
                BY <2>2, <4>1 DEF SentOK
        <3>2. CASE m # n
            <4>1. uploads'[m] = uploads[m]
                BY <2>1, <3>2
            <4> QED
                BY <1>1, <4>1 DEF WorkInv, SentOK, Strokes
        <3> QED
            BY <3>1, <3>2
    <2> QED
        BY <1>2, <2>3 DEF WorkInv
<1>4. CASE Logout
    BY <1>1, <1>2, <1>4, SameSent DEF WorkInv, Logout, SignOut
<1> QED
    BY <1>3, <1>4

LEMMA CheckWork ==
    ASSUME TypeOK, Shape, WorkInv, NEW n \in Logins, CheckInfo(n)
    PROVE  WorkInv'
<1> DEFINE u == uploads[n]
<1>0. UNCHANGED <<db, diskVars, clock, left>> /\ u \in Upload /\ u.at = "uploading" /\ u.id = None
      /\ uploads \in [Logins -> Upload]
    BY DEF CheckInfo, TypeOK
<1>1. PICK d \in u.todo :
         IF KeyNotFound(n, d) THEN EndProcess
         ELSE /\ uploads' = [uploads EXCEPT ![n] =
                    IF Unchanged(n, d)
                    THEN [u EXCEPT !.todo = u.todo \ {d}, !.id = d, !.left = ToSend(n, d),
                                   !.online = db["info"][d]]
                    ELSE [u EXCEPT !.todo = u.todo \ {d}, !.conflicts = u.conflicts \cup {d}]]
              /\ UNCHANGED <<loggedIn, pages, threads, newest, cancelled, history>>
    BY DEF CheckInfo
<1>2. CASE KeyNotFound(n, d)
    BY <1>0, <1>1, <1>2, CrashWork DEF diskVars
<1>3. CASE ~KeyNotFound(n, d)
    <2>1. /\ uploads'[n].files = u.files /\ uploads'[n].todo = u.todo \ {d}
          /\ \A m \in Logins \ {n} : uploads'[m] = uploads[m]
          /\ \/ uploads'[n].conflicts = u.conflicts \cup {d}
             \/ uploads'[n].id = d /\ uploads'[n].left = ToSend(n, d) /\ uploads'[n].conflicts = u.conflicts
          /\ history' = history /\ pages' = pages
        <3> DEFINE a == [u EXCEPT !.todo = u.todo \ {d}, !.id = d, !.left = ToSend(n, d), !.online = db["info"][d]]
                   b == [u EXCEPT !.todo = u.todo \ {d}, !.conflicts = u.conflicts \cup {d}]
        <3>1. a.files = u.files /\ a.todo = u.todo \ {d} /\ a.id = d /\ a.left = ToSend(n, d) /\ a.conflicts = u.conflicts
            BY <1>0 DEF Upload
        <3>2. b.files = u.files /\ b.todo = u.todo \ {d} /\ b.conflicts = u.conflicts \cup {d}
            BY <1>0 DEF Upload
        <3>3. uploads' = [uploads EXCEPT ![n] = a] \/ uploads' = [uploads EXCEPT ![n] = b]
            <4>1. CASE Unchanged(n, d)
                BY <1>1, <1>3, <4>1
            <4>2. CASE ~Unchanged(n, d)
                BY <1>1, <1>3, <4>2
            <4> QED
                BY <4>1, <4>2
        <3>4. history' = history /\ pages' = pages
            BY <1>1, <1>3
        <3> HIDE DEF a, b
        <3> QED
            BY <1>0, <3>1, <3>2, <3>3, <3>4
    <2>2. d \in Drawings
        BY <1>0 DEF Upload
    <2>3. ASSUME NEW e \in Drawings PROVE SentOK(n, e)'
        <3>1. CASE e # d
            <4>1. SentOK(n, e) /\ e # None
                BY DrawingsAssumption DEF WorkInv
            <4> QED
                BY <1>0, <2>1, <3>1, <4>1 DEF SentOK
        <3>2. CASE e = d
            <4>1. CASE uploads'[n].conflicts = u.conflicts \cup {d}
                BY <3>2, <4>1 DEF SentOK
            <4>2. CASE uploads'[n].id = d /\ uploads'[n].left = ToSend(n, d)
                <5>1. CASE u.files["strokes"][d] = {}
                    BY <2>1, <3>2, <5>1 DEF SentOK
                <5>2. CASE u.files["strokes"][d] # {}
                    <6>1. PICK i \in DOMAIN ToSend(n, d) : ToSend(n, d)[i] = "strokes"
                        BY <2>2, <5>2, ToSendTypes
                    <6>2. Strokes(n)' # {}
                        BY <4>2, <6>1 DEF Strokes
                    <6> QED
                        BY <3>2, <4>2, <6>2 DEF SentOK
                <5> QED
                    BY <5>1, <5>2
            <4> QED
                BY <2>1, <4>1, <4>2
        <3> QED
            BY <3>1, <3>2
    <2>4. \A m \in Logins \ {n} : \A e \in Drawings : SentOK(m, e)'
        BY <2>1 DEF WorkInv, SentOK, Strokes
    <2>5. \A p \in history'.own : Safe(p)'
        BY <1>0, <2>1, SameSafe DEF diskVars
    <2> QED
        BY <2>3, <2>4, <2>5 DEF WorkInv
<1> QED
    BY <1>2, <1>3

LEMMA SendWork ==
    ASSUME TypeOK, Shape, WorkInv, NEW n \in Logins, SendNext(n)
    PROVE  WorkInv'
<1> DEFINE u == uploads[n]
           k == Head(u.left)
           value == u.files[k][u.id]
<1>1. /\ uploads \in [Logins -> Upload] /\ u \in Upload /\ u.at = "uploading" /\ u.id \in Drawings
      /\ u.left \in Seq(Kinds) /\ u.left # <<>> /\ history \in History
    BY DEF SendNext, TypeOK, Upload, Shape, UploadOK
<1>2. /\ uploads'[n].at = u.at /\ uploads'[n].files = u.files /\ uploads'[n].todo = u.todo
      /\ uploads'[n].conflicts = u.conflicts /\ uploads'[n].left = Tail(u.left)
      /\ Tail(u.left) # <<>> => uploads'[n].id = u.id
      /\ \A m \in Logins \ {n} : uploads'[m] = uploads[m]
    BY <1>1 DEF SendNext, Upload
<1>3. /\ history'.own = history.own /\ history'.lost = history.lost
      /\ history'.reached = IF k = "strokes" THEN history.reached \cup value ELSE history.reached
    <2>1. PICK D, T, E : history' = [history EXCEPT
                !.reached = IF k = "strokes" THEN @ \cup value ELSE @, !.begun = D, !.torn = T, !.doubtful = E]
        BY DEF SendNext
    <2> QED
        BY <1>1, <2>1 DEF History
<1>4. pages' = pages /\ override' = override
    BY DEF SendNext, diskVars
<1>5. \A p \in history'.own : Safe(p)'
    BY <1>3, <1>4, SameSafe
<1>6. \A m \in Logins \ {n} : \A e \in Drawings : SentOK(m, e)'
    BY <1>2, <1>3 DEF WorkInv, SentOK, Strokes
<1>7. ASSUME NEW e \in Drawings PROVE SentOK(n, e)'
    <2>1. SentOK(n, e)
        BY DEF WorkInv
    <2>2. CASE ~(u.id = e /\ Strokes(n) # {})
        BY <1>1, <1>2, <1>3, <2>1, <2>2 DEF SentOK
    <2>3. CASE u.id = e /\ k = "strokes"
        BY <1>2, <1>3, <2>3 DEF SentOK
    <2>4. CASE u.id = e /\ k # "strokes" /\ Strokes(n) # {}
        <3>1. PICK i \in DOMAIN u.left : u.left[i] = "strokes"
            BY <2>4 DEF Strokes
        <3>2. i # 1 /\ Len(u.left) \in Nat /\ i \in 1..Len(u.left)
            BY <1>1, <2>4, <3>1
        <3>3. i - 1 \in DOMAIN Tail(u.left) /\ Tail(u.left)[i - 1] = "strokes" /\ Tail(u.left) # <<>>
            <4> DEFINE q == u.left
                       j == i - 1
            <4>1. q \in Seq(Kinds) /\ q # <<>> /\ i \in 1..Len(q) /\ i # 1 /\ q[i] = "strokes"
                BY <1>1, <3>1, <3>2
            <4> HIDE DEF q
            <4>2. Len(Tail(q)) = Len(q) - 1 /\ \A m \in 1..Len(Tail(q)) : Tail(q)[m] = q[m + 1]
                BY <4>1, HeadTailProperties
            <4>3. j \in 1..Len(Tail(q)) /\ j + 1 = i
                BY <4>1, <4>2
            <4>4. Tail(q) \in Seq(Kinds)
                BY <4>1, HeadTailProperties
            <4> HIDE DEF j
            <4>5. Tail(q)[j] = "strokes" /\ j \in DOMAIN Tail(q) /\ Tail(q) # <<>>
                BY <4>1, <4>2, <4>3, <4>4
            <4> QED
                BY <4>5 DEF q, j
        <3>4. Strokes(n)' # {}
            BY <1>2, <3>3 DEF Strokes
        <3> QED
            BY <1>2, <2>4, <3>3, <3>4 DEF SentOK
    <2> QED
        BY <2>2, <2>3, <2>4
<1> QED
    BY <1>5, <1>6, <1>7 DEF WorkInv

LEMMA ListWork ==
    ASSUME TypeOK, Shape, WorkInv, NEW n \in Logins, ListDrawings(n)
    PROVE  WorkInv'
<1>1. CASE EndProcess
    BY <1>1, CrashWork DEF ListDrawings, diskVars
<1>2. CASE uploads' = [uploads EXCEPT ![n].at = "listing"] /\ UNCHANGED <<pages, history>>
    <2>1. uploads[n] \in Upload /\ uploads[n].at = "uploading" /\ uploads \in [Logins -> Upload] /\ UNCHANGED override
        BY DEF ListDrawings, TypeOK, diskVars
    <2>2. /\ uploads'[n].files = uploads[n].files /\ uploads'[n].todo = uploads[n].todo
          /\ uploads'[n].conflicts = uploads[n].conflicts /\ uploads'[n].left = uploads[n].left
          /\ uploads'[n].id = uploads[n].id
          /\ \A m \in Logins \ {n} : uploads'[m] = uploads[m]
        BY <1>2, <2>1 DEF Upload
    <2>3. \A m \in Logins : \A d \in Drawings : SentOK(m, d)'
        <3> SUFFICES ASSUME NEW m \in Logins, NEW d \in Drawings PROVE SentOK(m, d)'
            OBVIOUS
        <3>1. SentOK(m, d)
            BY DEF WorkInv
        <3>2. CASE m = n
            BY <1>2, <2>1, <2>2, <3>1, <3>2 DEF SentOK, Strokes
        <3>3. CASE m # n
            BY <1>2, <2>2, <3>1, <3>3 DEF SentOK, Strokes
        <3> QED
            BY <3>2, <3>3
    <2> QED
        BY <1>2, <2>1, <2>3, SameSafe DEF WorkInv
<1> QED
    BY <1>1, <1>2 DEF ListDrawings

LEMMA ClearWork ==
    ASSUME TypeOK, Shape, WorkInv, NEW n \in Logins, ClearOverride(n)
    PROVE  WorkInv'
<1> DEFINE S == {q \in history.own : q[2] \in Forgotten(n, q[1]) \ history.reached}
<1>1. /\ uploads \in [Logins -> Upload] /\ history \in History /\ uploads[n].at = "listing"
      /\ uploads[n].id = None /\ uploads[n].todo = {}
    BY DEF ClearOverride, TypeOK, Shape, UploadOK
<1>2. /\ history'.own = history.own /\ history'.reached = history.reached
      /\ history'.lost = history.lost \cup {p[2] : p \in S}
    BY <1>1 DEF ClearOverride, History
<1>3. /\ \A m \in Logins \ {n} : uploads'[m] = uploads[m]
      /\ uploads'[n].at = "done" /\ pages' = pages
    BY <1>1 DEF ClearOverride, NoUpload
<1>4. \A m \in Logins : \A d \in Drawings : SentOK(m, d)'
    BY <1>2, <1>3 DEF WorkInv, SentOK, Strokes
<1>5. ASSUME NEW p \in history.own PROVE Safe(p)'
    <2>1. p[1] \in Drawings /\ p[1] # None
        BY <1>1, DrawingsAssumption DEF History
    <2>2. CASE p[2] \in history.reached \cup history.lost
        BY <1>2, <2>2 DEF Safe
    <2>3. ASSUME NEW v \in Visits, pages[v].drawing = p[1], p[2] \in Unwritten(v) PROVE Safe(p)'
        <3>1. p[2] \in Unwritten(v)'
            BY <1>3, <2>3 DEF Unwritten
        <3> QED
            BY <1>3, <2>3, <3>1 DEF Safe
    <2>4. CASE p[2] \in override["strokes"][p[1]] /\ p[2] \notin history.reached
        <3>1. SentOK(n, p[1])
            BY <2>1 DEF WorkInv
        <3>2. p[2] \in Forgotten(n, p[1])
            BY <1>1, <2>1, <2>4, <3>1 DEF SentOK, Forgotten
        <3>3. p \in S
            BY <2>4, <3>2
        <3> QED
            BY <1>2, <3>3 DEF Safe
    <2> QED
        BY <2>2, <2>3, <2>4 DEF WorkInv, Safe
<1> QED
    BY <1>2, <1>4, <1>5 DEF WorkInv

LEMMA OtherWork ==
    ASSUME TypeOK, Shape, WorkInv, Others \/ (\E n \in Logins : ThreadStep(n)) \/ UNCHANGED vars
    PROVE  WorkInv'
<1>1. UNCHANGED <<pages, override, uploads>>
    BY DEF Others, Online, OnlineCreate, OnlineDraw, OnlineSave, OnlineDelete, ThreadStep, StartThread, EndThread,
           StartPass, Once, WriteFile, FinishTarget, Finish, FailDownload, FailPass, OnlyThreads, diskVars, taskVars,
           vars
<1>2. history'.own = history.own /\ history'.reached = history.reached /\ history'.lost = history.lost
    <2>0. history \in History
        BY DEF TypeOK
    <2>1. CASE Others
        BY <2>0, <2>1 DEF Others, OnlineCreate, OnlineDraw, OnlineSave, OnlineDelete, NewId, History
    <2>2. ASSUME NEW n \in Logins, ThreadStep(n)
          PROVE  history'.own = history.own /\ history'.reached = history.reached /\ history'.lost = history.lost
        <3>1. CASE history' = history
            BY <3>1
        <3>2. CASE StartPass(n)
            BY <2>0, <3>2 DEF StartPass, History
        <3>3. CASE Once(n)
            BY <2>0, <3>3 DEF Once, History
        <3>4. CASE FinishTarget(n)
            BY <2>0, <3>4 DEF FinishTarget, Finish, History
        <3> QED
            BY <2>2, <3>1, <3>2, <3>3, <3>4 DEF ThreadStep, StartThread, EndThread, WriteFile, FailDownload, FailPass
    <2> QED
        BY <2>1, <2>2 DEF vars
<1> QED
    BY <1>1, <1>2, SameSafe, SameSent DEF WorkInv

LEMMA StepWork == TypeOK /\ Shape /\ WorkInv /\ [Next]_vars => WorkInv'
<1> SUFFICES ASSUME TypeOK, Shape, WorkInv, [Next]_vars PROVE WorkInv'
    OBVIOUS
<1>1. CASE Offline
    BY <1>1, VisitWork, DrawWork, ResizeWork, LeaveWork, TakeWork, WriteWork, PatchWork, LoopWork
    DEF Offline, Loop
<1>2. CASE Session
    BY <1>2, LoginWork, CheckWork, SendWork, ListWork, ClearWork DEF Session
<1>3. CASE Sync \/ Others \/ UNCHANGED vars
    BY <1>3, OtherWork DEF Sync, ThreadStep
<1>4. CASE Failures
    BY <1>4, CrashWork, PatchWork, LoopWork, OtherWork DEF Failures, ThreadStep, Crash, diskVars, Loop
<1> QED
    BY <1>1, <1>2, <1>3, <1>4 DEF Next

-----------------------------------------------------------------------------
(* No content is newer than the latest change *)

\* Nothing of a folder or of some values is newer than the latest change.
PastFolder(F) == \A k \in Kinds : \A d \in Drawings : F[k][d] \subseteq 0..clock
PastValues(V) == \A d \in Drawings : V[d] \subseteq 0..clock

AllPast ==
    /\ PastFolder(db) /\ PastFolder(cache) /\ PastFolder(hashes) /\ PastFolder(override)
    /\ \A v \in Visits : pages[v].shown \subseteq 0..clock
    /\ \A n \in Logins : PastFolder(uploads[n].files) /\ PastValues(uploads[n].seen)
    /\ \A n \in Logins : PastValues(threads[n].hashes) /\ PastValues(threads[n].objs)

LEMMA Later ==
    ASSUME TypeOK, clock' \in Nat, clock <= clock', NEW c, c \subseteq 0..clock
    PROVE  c \subseteq 0..clock'
BY DEF TypeOK

LEMMA EmptyPast == PastFolder(NoFiles) /\ PastValues(NoValues) /\ PastFolder(NoFiles)' /\ PastValues(NoValues)'
BY DEF PastFolder, PastValues, NoFiles, NoValues

\* A folder that stays, and one in which a value is put.
LEMMA SamePast ==
    ASSUME TypeOK, clock' \in Nat, clock <= clock', NEW F, NEW G, PastFolder(F), G = F
    PROVE  \A k \in Kinds : \A d \in Drawings : G[k][d] \subseteq 0..clock'
BY Later DEF PastFolder

LEMMA PutPast ==
    ASSUME TypeOK, clock' \in Nat, clock <= clock',
           NEW F \in Folder, NEW k \in Kinds, NEW d \in Drawings, NEW c,
           \A i \in Kinds : \A e \in Drawings : F[i][e] \subseteq 0..clock', c \subseteq 0..clock'
    PROVE  \A i \in Kinds : \A e \in Drawings : [F EXCEPT ![k][d] = c][i][e] \subseteq 0..clock'
BY DEF Folder, Values

LEMMA PastInit == Init => AllPast
<1> SUFFICES ASSUME Init PROVE AllPast
    OBVIOUS
<1>1. PICK s \in Scenarios :
        /\ cache = [k \in Kinds |-> [d \in Drawings |-> IF d \in s.cached THEN {0} ELSE {}]]
        /\ db = [k \in Kinds |-> [d \in Drawings |->
                    CASE d \in s.outdated /\ k = "strokes" -> {0, 1}
                      [] d \in s.outdated /\ k = "info" -> {2}
                      [] OTHER -> cache[k][d]]]
    BY DEF Init
<1>2. hashes = cache /\ override = NoFiles /\ clock = 2
    BY DEF Init
<1>3. pages = [v \in Visits |-> NoPage] /\ uploads = [n \in Logins |-> NoUpload] /\ threads = [n \in Logins |-> NoThread]
    BY DEF Init
<1>4. PastFolder(cache)
    BY <1>1, <1>2 DEF PastFolder
<1>5. PastFolder(db)
    <2> SUFFICES ASSUME NEW k \in Kinds, NEW d \in Drawings PROVE db[k][d] \subseteq 0..clock
        BY DEF PastFolder
    <2>1. CASE d \in s.outdated /\ k = "strokes"
        BY <1>1, <1>2, <2>1
    <2>2. CASE d \in s.outdated /\ k = "info"
        BY <1>1, <1>2, <2>2
    <2>3. CASE ~(d \in s.outdated /\ k = "strokes") /\ ~(d \in s.outdated /\ k = "info")
        <3>1. db[k][d] = cache[k][d]
            BY <1>1, <2>3
        <3> QED
            BY <1>4, <3>1 DEF PastFolder
    <2> QED
        BY <2>1, <2>2, <2>3
<1>6. /\ \A v \in Visits : pages[v].shown = {}
      /\ \A n \in Logins : uploads[n].files = NoFiles /\ uploads[n].seen = NoValues
      /\ \A n \in Logins : threads[n].hashes = NoValues /\ threads[n].objs = NoValues
    BY <1>3 DEF NoPage, NoUpload, NoThread
<1> QED
    BY <1>2, <1>4, <1>5, <1>6, EmptyPast DEF AllPast, PastFolder, PastValues

\* Pages, overrides and, through a PATCH, the database.
LEMMA OfflinePast ==
    ASSUME TypeOK, Shape, AllPast, NEW v \in Visits,
           \/ UpdateStroke(v) \/ SaveDimensions(v) \/ SaveDrawingPreview(v) \/ TakeUpdates(v)
           \/ WriteStrokes(v) \/ PatchStrokes(v) \/ FailPatch(v)
    PROVE  AllPast'
<1>1. clock \in Nat /\ clock' \in Nat /\ (clock' = clock \/ clock' = clock + 1)
    BY DEF UpdateStroke, SaveDimensions, SaveDrawingPreview, TakeUpdates, WriteStrokes, FileStrokes, PatchStrokes,
           FailPatch, TypeOK
<1>2. UNCHANGED <<cache, hashes, uploads, threads>>
    BY DEF UpdateStroke, SaveDimensions, SaveDrawingPreview, Leave, TakeUpdates, WriteStrokes, FileStrokes, PatchStrokes,
           FailPatch, diskVars, taskVars
<1>3. /\ pages[v] \in Page /\ pages[v].drawing \in Drawings /\ pages[v].shown \subseteq 0..clock
      /\ pages[v].pending \subseteq 0..clock /\ override \in Folder /\ db \in Folder
    BY DEF UpdateStroke, SaveDimensions, SaveDrawingPreview, Leave, TakeUpdates, WriteStrokes, FileStrokes, PatchStrokes,
           FailPatch, TypeOK, Shape, PageOK, Page, AllPast
<1>f. pages[v].file \subseteq 0..clock
    BY <1>3 DEF Shape, PageOK
<1>4. \A w \in Visits : pages'[w].shown \subseteq 0..clock'
    <2>1. \A w \in Visits : pages'[w].shown \subseteq pages[w].shown \cup {clock'}
        <3>1. NoPage.shown = {} /\ pages \in [Visits -> Page]
            BY DEF NoPage, TypeOK
        <3>2. CASE UpdateStroke(v)
            BY <1>3, <3>1, <3>2 DEF UpdateStroke, Page
        <3>3. CASE SaveDimensions(v)
            BY <3>3 DEF SaveDimensions
        <3>4. CASE SaveDrawingPreview(v)
            BY <1>3, <3>1, <3>4 DEF SaveDrawingPreview, Leave, Page
        <3>5. CASE TakeUpdates(v)
            BY <1>3, <3>1, <3>5 DEF TakeUpdates, Page
        <3>6. CASE WriteStrokes(v) \/ PatchStrokes(v) \/ FailPatch(v)
            BY <1>3, <3>1, <3>6 DEF WriteStrokes, FileStrokes, PatchStrokes, FailPatch, Page
        <3> QED
            BY <3>2, <3>3, <3>4, <3>5, <3>6
    <2>2. \A w \in Visits : pages[w].shown \subseteq 0..clock
        BY DEF AllPast
    <2> QED
        BY <1>1, <2>1, <2>2
<1>5. PastFolder(override)'
    <2>1. \/ override' = override
          \/ \E k \in Kinds : \E c \in SUBSET (0..clock') : override' = [override EXCEPT ![k][pages[v].drawing] = c]
        <3>1. {clock'} \subseteq 0..clock' /\ pages[v].file \subseteq 0..clock'
            BY <1>1, <1>f
        <3>2. CASE SaveDimensions(v)
            <4>1. override' = [override EXCEPT !["drawings"][pages[v].drawing] = {clock'}] /\ "drawings" \in Kinds
                BY <3>2 DEF SaveDimensions, Kinds
            <4> QED
                BY <3>1, <4>1
        <3>3. CASE SaveDrawingPreview(v)
            BY <3>1, <3>3 DEF SaveDrawingPreview, Kinds
        <3>4. CASE WriteStrokes(v)
            BY <3>1, <3>4 DEF WriteStrokes, FileStrokes, Kinds
        <3> QED
            BY <3>2, <3>3, <3>4 DEF UpdateStroke, TakeUpdates, PatchStrokes, FailPatch, diskVars
    <2>2. \A i \in Kinds : \A e \in Drawings : override[i][e] \subseteq 0..clock'
        BY <1>1, SamePast DEF AllPast
    <2>3. ASSUME NEW k \in Kinds, NEW c \in SUBSET (0..clock'), override' = [override EXCEPT ![k][pages[v].drawing] = c]
          PROVE  \A i \in Kinds : \A e \in Drawings : override'[i][e] \subseteq 0..clock'
        BY <1>1, <1>3, <2>2, <2>3, PutPast
    <2> QED
        BY <2>1, <2>2, <2>3 DEF PastFolder
<1>6. PastFolder(db)'
    <2>1. \/ db' = db
          \/ \E c \in SUBSET (0..clock') : db' = [db EXCEPT !["strokes"][pages[v].drawing] = c]
        <3>1. CASE PatchStrokes(v)
            <4>1. db["strokes"][pages[v].drawing] \cup pages[v].pending \subseteq 0..clock'
                BY <1>1, <1>3 DEF AllPast, PastFolder, Kinds
            <4> QED
                BY <3>1, <4>1 DEF PatchStrokes
        <3> QED
            BY <3>1 DEF UpdateStroke, SaveDimensions, SaveDrawingPreview, Leave, TakeUpdates, WriteStrokes, FileStrokes,
                        FailPatch
    <2>2. \A i \in Kinds : \A e \in Drawings : db[i][e] \subseteq 0..clock'
        BY <1>1, SamePast DEF AllPast
    <2>3. ASSUME NEW c \in SUBSET (0..clock'), db' = [db EXCEPT !["strokes"][pages[v].drawing] = c]
          PROVE  \A i \in Kinds : \A e \in Drawings : db'[i][e] \subseteq 0..clock'
        BY <1>1, <1>3, <2>2, <2>3, PutPast DEF Kinds
    <2> QED
        BY <2>1, <2>2, <2>3 DEF PastFolder
<1> QED
    BY <1>1, <1>2, <1>4, <1>5, <1>6, Later DEF AllPast, PastFolder, PastValues

LEMMA LoopPast ==
    ASSUME TypeOK, Shape, AllPast, NEW v \in Visits, Loop(v)
    PROVE  AllPast'
<1>1. UNCHANGED <<db, cache, hashes, override, uploads, threads, clock>>
    BY LoopFacts DEF diskVars, taskVars
<1>2. \A w \in Visits : pages'[w].shown \subseteq 0..clock
    <2>1. PICK p \in Page : /\ pages' = [pages EXCEPT ![v] = p]
                            /\ p.shown \in {NoPage.shown, pages[v].shown}
        BY LoopFacts
    <2>2. NoPage.shown = {} /\ pages \in [Visits -> Page] /\ \A w \in Visits : pages[w].shown \subseteq 0..clock
        BY DEF NoPage, TypeOK, AllPast
    <2> QED
        BY <2>1, <2>2
<1> QED
    BY <1>1, <1>2 DEF AllPast, PastFolder, PastValues

LEMMA VisitPast ==
    ASSUME TypeOK, Shape, AllPast, NEW d \in Drawings, CreateDrawing(d) \/ GetDrawing(d)
    PROVE  AllPast'
<1>1. clock \in Nat /\ clock' \in Nat /\ (clock' = clock \/ clock' = clock + 1)
    BY DEF CreateDrawing, GetDrawing, TypeOK
<1>2. UNCHANGED <<db, cache, hashes, uploads, threads>>
    BY DEF CreateDrawing, GetDrawing, diskVars, taskVars
<1>3. Get("strokes", d) \subseteq 0..clock
    BY DEF AllPast, PastFolder, Get, Kinds
<1>4. \A w \in Visits : pages'[w].shown \subseteq 0..clock'
    <2>1. PICK s : Visit(d, s) /\ s \subseteq 0..clock
        BY <1>3 DEF CreateDrawing, GetDrawing
    <2>2. \A w \in Visits : pages'[w].shown \subseteq pages[w].shown \cup s
        BY <2>1 DEF Visit, TypeOK, Page, NoPage
    <2>3. s \subseteq 0..clock' /\ \A w \in Visits : pages[w].shown \subseteq 0..clock'
        BY <1>1, <2>1, Later DEF AllPast
    <2> QED
        BY <2>2, <2>3
<1>5. PastFolder(override)'
    <2>1. \A i \in Kinds : \A e \in Drawings : override[i][e] \subseteq 0..clock'
        BY <1>1, SamePast DEF AllPast
    <2>2. CASE CreateDrawing(d)
        <3> DEFINE first == [override EXCEPT !["drawings"][d] = {clock'}]
        <3>1. {clock'} \subseteq 0..clock' /\ override \in Folder /\ "drawings" \in Kinds /\ "info" \in Kinds
            BY <1>1 DEF TypeOK, Kinds
        <3>2. first \in Folder
            BY <1>1, <3>1, Put DEF Content
        <3>3. \A i \in Kinds : \A e \in Drawings : first[i][e] \subseteq 0..clock'
            BY <1>1, <2>1, <3>1, PutPast
        <3>4. override' = [first EXCEPT !["info"][d] = {clock'}]
            BY <2>2 DEF CreateDrawing
        <3> HIDE DEF first
        <3> QED
            BY <1>1, <3>1, <3>2, <3>3, <3>4, PutPast DEF PastFolder
    <2>3. CASE GetDrawing(d)
        BY <2>1, <2>3 DEF GetDrawing, diskVars, PastFolder
    <2> QED
        BY <2>2, <2>3
<1> QED
    BY <1>1, <1>2, <1>4, <1>5, Later DEF AllPast, PastFolder, PastValues

\* The overrides and hashes of an upload are those of its login until it is over.
LEMMA UploadFiles ==
    ASSUME TypeOK, Session \/ Crash \/ (\E d \in Drawings : CrashWhileCreating(d))
    PROVE  \A n \in Logins :
            \/ uploads'[n].files = uploads[n].files /\ uploads'[n].seen = uploads[n].seen
            \/ uploads'[n].files = NoFiles /\ uploads'[n].seen = NoValues
            \/ uploads'[n].files = override /\ uploads'[n].seen = hashes["info"]
<1>0. uploads \in [Logins -> Upload]
    BY DEF TypeOK
<1>1. CASE Login
    BY <1>0, <1>1 DEF Login, Upload, NoUpload
<1>2. CASE StopProcess
    BY <1>0, <1>2 DEF StopProcess, NoUpload
<1>3. ASSUME NEW m \in Logins, CheckInfo(m), ~StopProcess
      PROVE  \A n \in Logins : uploads'[n].files = uploads[n].files /\ uploads'[n].seen = uploads[n].seen
    <2>1. PICK d \in uploads[m].todo :
            \/ EndProcess
            \/ uploads' = [uploads EXCEPT ![m] =
                    [uploads[m] EXCEPT !.todo = uploads[m].todo \ {d}, !.id = d, !.left = ToSend(m, d),
                                       !.online = db["info"][d]]]
            \/ uploads' = [uploads EXCEPT ![m] =
                    [uploads[m] EXCEPT !.todo = uploads[m].todo \ {d},
                                       !.conflicts = uploads[m].conflicts \cup {d}]]
        BY <1>3, Zenon DEF CheckInfo
    <2>2. CASE uploads' = [uploads EXCEPT ![m] =
                    [uploads[m] EXCEPT !.todo = uploads[m].todo \ {d}, !.id = d, !.left = ToSend(m, d),
                                       !.online = db["info"][d]]]
        BY <1>0, <2>2 DEF Upload
    <2>3. CASE uploads' = [uploads EXCEPT ![m] =
                    [uploads[m] EXCEPT !.todo = uploads[m].todo \ {d},
                                       !.conflicts = uploads[m].conflicts \cup {d}]]
        BY <1>0, <2>3 DEF Upload
    <2> QED
        BY <1>3, <2>1, <2>2, <2>3 DEF EndProcess
<1>4. ASSUME NEW m \in Logins, SendNext(m)
      PROVE  \A n \in Logins : uploads'[n].files = uploads[n].files /\ uploads'[n].seen = uploads[n].seen
    BY <1>0, <1>4 DEF SendNext, Upload
<1>5. ASSUME NEW m \in Logins, ListDrawings(m), ~StopProcess
      PROVE  \A n \in Logins : uploads'[n].files = uploads[n].files /\ uploads'[n].seen = uploads[n].seen
    <2>1. uploads' = [uploads EXCEPT ![m].at = "listing"]
        BY <1>5 DEF ListDrawings, EndProcess
    <2> QED
        BY <1>0, <2>1 DEF Upload
<1>6. ASSUME NEW m \in Logins, ClearOverride(m)
      PROVE  \A n \in Logins :
                \/ uploads'[n].files = uploads[n].files /\ uploads'[n].seen = uploads[n].seen
                \/ uploads'[n].files = NoFiles /\ uploads'[n].seen = NoValues
    BY <1>0, <1>6 DEF ClearOverride, Upload, NoUpload
<1>7. CASE Logout
    BY <1>7 DEF Logout, SignOut
<1> QED
    BY <1>1, <1>2, <1>3, <1>4, <1>5, <1>6, <1>7 DEF Session, Crash, CrashWhileCreating, EndProcess

LEMMA SessionPast ==
    ASSUME TypeOK, Shape, AllPast, Session \/ Crash \/ (\E d \in Drawings : CrashWhileCreating(d))
    PROVE  AllPast'
<1>1. clock \in Nat /\ clock' \in Nat /\ (clock' = clock \/ clock' = clock + 1)
    <2>1. CASE Session
        BY <2>1 DEF Session, Login, Logout, SignOut, CheckInfo, SendNext, ListDrawings, ClearOverride, TypeOK
    <2>2. CASE Crash \/ \E d \in Drawings : CrashWhileCreating(d)
        <3>1. clock' = clock \/ clock' = clock + 1
            BY <2>2, Zenon DEF Crash, CrashWhileCreating
        <3> QED
            BY <3>1 DEF TypeOK
    <2> QED
        BY <2>1, <2>2
<1>2. UNCHANGED <<cache, hashes>>
    <2>1. CASE Session
        BY <2>1 DEF Session, Login, Logout, SignOut, CheckInfo, SendNext, ListDrawings, ClearOverride, diskVars
    <2>2. CASE Crash \/ \E d \in Drawings : CrashWhileCreating(d)
        BY <2>2 DEF Crash, CrashWhileCreating, diskVars
    <2> QED
        BY <2>1, <2>2
<1>3. \/ UNCHANGED <<pages, threads>>
      \/ UNCHANGED pages /\ \E n \in Logins : threads' = [threads EXCEPT ![n].at = "queued"]
      \/ StopProcess
    <2>1. CASE Login \/ Logout
        BY <2>1 DEF Login, Logout, SignOut
    <2>2. ASSUME NEW n \in Logins, CheckInfo(n) \/ ListDrawings(n) PROVE UNCHANGED <<pages, threads>> \/ StopProcess
        BY <2>2, Zenon DEF CheckInfo, ListDrawings, EndProcess
    <2>3. ASSUME NEW n \in Logins, SendNext(n) PROVE UNCHANGED <<pages, threads>>
        BY <2>3 DEF SendNext
    <2>4. ASSUME NEW n \in Logins, ClearOverride(n)
          PROVE  UNCHANGED pages /\ threads' = [threads EXCEPT ![n].at = "queued"]
        BY <2>4 DEF ClearOverride
    <2> QED
        BY <2>1, <2>2, <2>3, <2>4 DEF Session, Crash, CrashWhileCreating, EndProcess
<1>4. \A v \in Visits : pages'[v].shown \subseteq 0..clock'
    <2>1. \A v \in Visits : pages'[v].shown = pages[v].shown \/ pages'[v].shown = {}
        BY <1>3 DEF StopProcess, NoPage
    <2> QED
        BY <1>1, <2>1, Later DEF AllPast
<1>5. \A n \in Logins : PastValues(threads[n].hashes)' /\ PastValues(threads[n].objs)'
    <2>1. \A n \in Logins : \/ threads'[n].hashes = threads[n].hashes /\ threads'[n].objs = threads[n].objs
                            \/ threads'[n].hashes = NoValues /\ threads'[n].objs = NoValues
        BY <1>3 DEF StopProcess, NoThread, TypeOK, Thread
    <2> QED
        BY <1>1, <2>1, Later, EmptyPast DEF AllPast, PastValues
<1>6. PastFolder(override)'
    <2>1. \A i \in Kinds : \A e \in Drawings : override[i][e] \subseteq 0..clock'
        BY <1>1, SamePast DEF AllPast
    <2>2. \/ override' = override \/ override' = NoFiles
          \/ \E d \in Drawings : override' = [override EXCEPT !["drawings"][d] = {clock'}]
        BY DEF Session, Login, Logout, SignOut, CheckInfo, SendNext, ListDrawings, ClearOverride, Crash,
               CrashWhileCreating, diskVars
    <2>3. {clock'} \subseteq 0..clock' /\ override \in Folder /\ "drawings" \in Kinds
        BY <1>1 DEF TypeOK, Kinds
    <2>4. ASSUME NEW d \in Drawings, override' = [override EXCEPT !["drawings"][d] = {clock'}]
          PROVE  \A i \in Kinds : \A e \in Drawings : override'[i][e] \subseteq 0..clock'
        BY <1>1, <2>1, <2>3, <2>4, PutPast
    <2> QED
        BY <2>1, <2>2, <2>4, EmptyPast DEF PastFolder
<1>7. \A n \in Logins : PastFolder(uploads[n].files)' /\ PastValues(uploads[n].seen)'
    <2>1. \A n \in Logins :
            \/ uploads'[n].files = uploads[n].files /\ uploads'[n].seen = uploads[n].seen
            \/ uploads'[n].files = NoFiles /\ uploads'[n].seen = NoValues
            \/ uploads'[n].files = override /\ uploads'[n].seen = hashes["info"]
        BY UploadFiles
    <2> QED
        BY <1>1, <2>1, Later, EmptyPast DEF AllPast, PastFolder, PastValues, Kinds
<1>8. PastFolder(db)'
    <2>1. \A i \in Kinds : \A e \in Drawings : db[i][e] \subseteq 0..clock'
        BY <1>1, SamePast DEF AllPast
    <2>2. \/ db' = db
          \/ \E n \in Logins : SendNext(n)
        BY DEF Session, Login, Logout, SignOut, CheckInfo, ListDrawings, ClearOverride, Crash, CrashWhileCreating
    <2>3. ASSUME NEW n \in Logins, SendNext(n)
          PROVE  \A i \in Kinds : \A e \in Drawings : db'[i][e] \subseteq 0..clock'
        <3> DEFINE u == uploads[n]
                   k == Head(u.left)
        <3>1. u.id \in Drawings /\ u.left \in Seq(Kinds) /\ u.left # <<>> /\ db \in Folder
            BY <2>3 DEF SendNext, TypeOK, Upload, Shape, UploadOK
        <3>2. k \in Kinds
            BY <3>1, HeadTailProperties
        <3> HIDE DEF k
        <3>3. u.files[k][u.id] \subseteq 0..clock
            BY <3>1, <3>2 DEF AllPast, PastFolder
        <3>4. db' = [db EXCEPT ![k][u.id] = u.files[k][u.id]]
            BY <2>3 DEF SendNext, k
        <3>5. u.files[k][u.id] \subseteq 0..clock'
            BY <1>1, <3>3
        <3> QED
            BY <1>1, <2>1, <3>1, <3>2, <3>4, <3>5, PutPast
    <2> QED
        BY <2>1, <2>2, <2>3 DEF PastFolder
<1> QED
    BY <1>1, <1>2, <1>4, <1>5, <1>6, <1>7, <1>8, Later DEF AllPast, PastFolder, PastValues

LEMMA ThreadPast ==
    ASSUME TypeOK, Shape, AllPast, NEW n \in Logins, ThreadStep(n)
    PROVE  AllPast'
<1> DEFINE t == threads[n]
           k == Targets[t.target]
<1>1. UNCHANGED <<db, override, pages, uploads, clock>>
    BY DEF ThreadStep, StartThread, EndThread, StartPass, Once, WriteFile, FinishTarget, Finish, FailDownload, FailPass,
           OnlyThreads, diskVars
<1>2. t \in Thread /\ k \in Kinds /\ PastValues(t.hashes) /\ PastValues(t.objs) /\ PastValues(NoValues)
    BY TargetTypes, EmptyPast DEF AllPast
<1> HIDE DEF k
<1>3. PastFolder(cache)' /\ PastFolder(hashes)'
    <2>1. cache \in Folder /\ hashes \in Folder /\ PastFolder(cache) /\ PastFolder(hashes)
        BY DEF TypeOK, AllPast
    <2>2. CASE WriteFile(n)
        <3>1. PICK d \in t.todo :
                cache' = IF t.hashes[d] = t.objs[d] THEN cache ELSE [cache EXCEPT ![k][d] = t.objs[d]]
            BY <2>2 DEF WriteFile, k
        <3>2. d \in Drawings /\ t.objs[d] \subseteq 0..clock
            BY <1>2 DEF PastValues, Thread
        <3>3. \A i \in Kinds : \A e \in Drawings : [cache EXCEPT ![k][d] = t.objs[d]][i][e] \subseteq 0..clock
            BY <1>2, <2>1, <3>2 DEF PastFolder, Folder, Values
        <3>4. UNCHANGED <<hashes, clock>>
            BY <2>2 DEF WriteFile
        <3> QED
            BY <2>1, <3>1, <3>3, <3>4 DEF PastFolder
    <2>3. CASE FinishTarget(n)
        <3>1. /\ cache' = [cache EXCEPT ![k] = [d \in Drawings |->
                                IF d \in {e \in Drawings : t.objs[e] # {}} THEN @[d] ELSE {}]]
              /\ hashes' = [hashes EXCEPT ![k] = t.hashes]
            BY <2>3 DEF FinishTarget, Finish, k
        <3> QED
            BY <1>1, <1>2, <2>1, <3>1 DEF PastFolder, PastValues, Folder, Values
    <2> QED
        BY <1>1, <2>1, <2>2, <2>3 DEF ThreadStep, StartThread, EndThread, StartPass, Once, FailDownload, FailPass,
               OnlyThreads, diskVars, PastFolder
<1>4. \A m \in Logins : PastValues(threads[m].hashes)' /\ PastValues(threads[m].objs)'
    <2>0. threads \in [Logins -> Thread] /\ \A m \in Logins : PastValues(threads[m].hashes) /\ PastValues(threads[m].objs)
        BY DEF TypeOK, AllPast
    <2>1. /\ \A m \in Logins \ {n} : threads'[m] = threads[m]
          /\ PastValues(threads'[n].hashes) /\ PastValues(threads'[n].objs)
        <3>0. AtTop(n).hashes = NoValues /\ AtTop(n).objs = NoValues /\ NoThread.hashes = NoValues /\ NoThread.objs = NoValues
            BY DEF AtTop, NoThread
        <3>1. ASSUME NEW i \in Nat \ {0}, Turn(n, i, hashes')
              PROVE  /\ \A m \in Logins \ {n} : threads'[m] = threads[m]
                     /\ PastValues(threads'[n].hashes) /\ PastValues(threads'[n].objs)
            <4>1. CASE i > Len(Targets)
                BY <1>2, <2>0, <3>0, <3>1, <4>1 DEF Turn
            <4>2. CASE ~(i > Len(Targets))
                <5>1. threads' = [threads EXCEPT ![n] = InPass(n, i, hashes'[Targets[i]])]
                    BY <3>1, <4>2 DEF Turn, InPass
                <5>2. Targets[i] \in Kinds
                    BY <4>2, TargetsAssumption
                <5>3. PastValues(hashes'[Targets[i]])
                    BY <1>1, <1>3, <5>2 DEF PastFolder, PastValues
                <5>4. threads'[n].hashes = hashes'[Targets[i]] /\ threads'[n].objs = NoValues
                    BY <2>0, <3>0, <5>1 DEF InPass, NoThread
                <5> QED
                    BY <1>2, <2>0, <5>1, <5>3, <5>4
            <4> QED
                BY <4>1, <4>2
        <3>2. CASE StartThread(n) \/ EndThread(n) \/ FailDownload(n) \/ FailPass(n)
            <4>1. threads' = [[threads EXCEPT ![n].at = "first"] EXCEPT ![n].watches = newest]
                  \/ \E x \in {[NoThread EXCEPT !.at = "ended"], [t EXCEPT !.at = "ended"], AtTop(n)} :
                        threads' = [threads EXCEPT ![n] = x]
                BY <3>2 DEF StartThread, EndThread, FailDownload, FailPass
            <4>2. threads'[n].hashes \in {t.hashes, NoValues} /\ threads'[n].objs \in {t.objs, NoValues}
                BY <1>2, <2>0, <3>0, <4>1 DEF Thread, NoThread
            <4> QED
                BY <1>2, <2>0, <4>1, <4>2
        <3>3. CASE StartPass(n)
            BY <3>1, <3>3 DEF StartPass, OnlyThreads, diskVars
        <3>4. CASE Once(n)
            <4>1. CASE db[k] = NoValues
                BY <1>2, <3>1, <3>4, <4>1, TargetTypes DEF Once, OnlyThreads, diskVars, k
            <4>2. CASE db[k] # NoValues
                <5>1. threads' = [threads EXCEPT ![n].at = "writing", ![n].objs = db[k],
                                    ![n].todo = {d \in Drawings : db[k][d] # {}}]
                    BY <3>4, <4>2 DEF Once, k
                <5>2. PastValues(db[k])
                    BY <1>2 DEF AllPast, PastFolder, PastValues
                <5>3. threads'[n].hashes = t.hashes /\ threads'[n].objs = db[k]
                    BY <1>2, <2>0, <5>1 DEF Thread
                <5> QED
                    BY <1>2, <2>0, <5>1, <5>2, <5>3
            <4> QED
                BY <4>1, <4>2
        <3>5. CASE WriteFile(n)
            <4>1. PICK d \in t.todo :
                    threads' = [[threads EXCEPT ![n].todo = @ \ {d}] EXCEPT ![n].hashes[d] = t.objs[d]]
                BY <3>5 DEF WriteFile, k
            <4>2. threads'[n].hashes = [t.hashes EXCEPT ![d] = t.objs[d]] /\ threads'[n].objs = t.objs
                BY <1>2, <2>0, <4>1 DEF Thread
            <4>3. t.hashes \in Values /\ d \in Drawings
                BY <1>2 DEF Thread
            <4>4. PastValues([t.hashes EXCEPT ![d] = t.objs[d]])
                BY <1>2, <4>3 DEF PastValues, Values
            <4> QED
                BY <1>2, <2>0, <4>1, <4>2, <4>4
        <3>6. CASE FinishTarget(n)
            BY <3>1, <3>6, TargetTypes DEF FinishTarget, Finish
        <3> QED
            BY <3>2, <3>3, <3>4, <3>5, <3>6 DEF ThreadStep
    <2> QED
        BY <1>1, <2>0, <2>1 DEF PastValues
<1> QED
    BY <1>1, <1>3, <1>4 DEF AllPast, PastFolder, PastValues

LEMMA OthersPast ==
    ASSUME TypeOK, AllPast, Others
    PROVE  AllPast' /\ clock <= clock'
<1>1. PICK d \in Drawings : OnlineCreate(d) \/ OnlineDraw(d) \/ OnlineSave(d) \/ OnlineDelete(d)
    BY DEF Others
<1>2. UNCHANGED <<cache, hashes, override, pages, uploads, threads>>
    BY <1>1 DEF OnlineCreate, OnlineDraw, OnlineSave, OnlineDelete, Online, diskVars, taskVars
<1>3. clock \in Nat /\ clock' \in Nat /\ (clock' = clock \/ clock' = clock + 1) /\ db \in Folder
    BY <1>1 DEF OnlineCreate, OnlineDraw, OnlineSave, OnlineDelete, TypeOK
<1>4. \A i \in Kinds : \A e \in Drawings : db[i][e] \subseteq 0..clock
    BY DEF AllPast, PastFolder
<1>5. \A i \in Kinds : \A e \in Drawings : db'[i][e] \subseteq db[i][e] \cup {clock'}
    <2>1. CASE OnlineCreate(d)
        BY <1>3, <2>1 DEF OnlineCreate, Folder, Values
    <2>2. CASE OnlineDraw(d)
        BY <1>3, <2>2 DEF OnlineDraw, Folder, Values
    <2>3. CASE OnlineSave(d)
        BY <1>3, <2>3 DEF OnlineSave, Folder, Values
    <2>4. CASE OnlineDelete(d)
        BY <1>3, <2>4 DEF OnlineDelete, Folder, Values
    <2> QED
        BY <1>1, <2>1, <2>2, <2>3, <2>4
<1>6. PastFolder(db)'
    BY <1>3, <1>4, <1>5 DEF PastFolder
<1> QED
    BY <1>2, <1>3, <1>6, Later DEF AllPast, PastFolder, PastValues

LEMMA StepPast == TypeOK /\ Shape /\ AllPast /\ [Next]_vars => AllPast'
<1> SUFFICES ASSUME TypeOK, Shape, AllPast, [Next]_vars PROVE AllPast'
    OBVIOUS
<1>1. CASE Offline
    BY <1>1, OfflinePast, LoopPast, VisitPast DEF Offline, Loop
<1>2. CASE Session
    BY <1>2, SessionPast
<1>3. CASE Sync
    BY <1>3, ThreadPast DEF Sync, ThreadStep
<1>4. CASE Others
    BY <1>4, OthersPast
<1>5. CASE Failures
    BY <1>5, OfflinePast, LoopPast, SessionPast, ThreadPast DEF Failures, ThreadStep, Loop
<1>6. CASE UNCHANGED vars
    BY <1>6 DEF vars, diskVars, taskVars, AllPast, PastFolder, PastValues
<1> QED
    BY <1>1, <1>2, <1>3, <1>4, <1>5, <1>6 DEF Next

-----------------------------------------------------------------------------
(* What a sync thread skips *)

\* Thread n copies target k.
Busy(n, k) == threads[n].at \in {"reading", "writing"} /\ Targets[threads[n].target] = k

\* The database does not hold the value of the last hash.
Away(k, d) == db[k][d] # hashes[k][d] \/ db[k][d] = {}

\* A thread knows the last hash of what it has still to look at, and has the file
\* and the hash of what it has looked at.
Writes(n, k, d) ==
    LET t == threads[n] IN
    /\ t.objs[d] # hashes[k][d] => Away(k, d)
    /\ d \in t.todo \/ t.objs[d] = {} => t.hashes[d] = hashes[k][d]
    /\ d \in t.todo => t.objs[d] # {} /\ (t.hashes[d] = t.objs[d] => cache[k][d] = t.objs[d])
    /\ d \notin t.todo /\ t.objs[d] # {} => t.hashes[d] = t.objs[d] /\ cache[k][d] = t.objs[d]

Copies(n, k, d) ==
    Busy(n, k) => IF threads[n].at = "reading" THEN threads[n].hashes[d] = hashes[k][d] ELSE Writes(n, k, d)

\* The file is the one of the last hash, or is going to be replaced; one thread copies it.
CopyOK(k, d) ==
    /\ cache[k][d] = hashes[k][d] \/ Away(k, d)
    /\ \A n, o \in Logins : Busy(n, k) /\ Busy(o, k) => n = o
    /\ \A n \in Logins : Copies(n, k, d)

SkipInv == \A k \in Kinds : \A d \in Drawings : <<k, d>> \in history.doubtful \/ CopyOK(k, d)

LEMMA SkipInit == Init => SkipInv
<1> SUFFICES ASSUME Init PROVE SkipInv
    OBVIOUS
<1>1. hashes = cache /\ threads = [n \in Logins |-> NoThread]
    BY DEF Init
<1>2. \A n \in Logins : threads[n].at = "none"
    BY <1>1 DEF NoThread
<1> QED
    BY <1>1, <1>2 DEF SkipInv, CopyOK, Copies, Busy

\* No thread starts to copy, and the value of a last hash does not come back.
LEMMA SameCopy ==
    ASSUME SkipInv, UNCHANGED <<cache, hashes>>, history.doubtful \subseteq history'.doubtful,
           \A n \in Logins : threads'[n] = threads[n] \/ threads'[n].at \notin {"reading", "writing"},
           \A k \in Kinds : \A d \in Drawings :
                <<k, d>> \in history'.doubtful \/ db'[k][d] = db[k][d] \/ db'[k][d] # hashes[k][d] \/ db'[k][d] = {}
    PROVE  SkipInv'
<1> SUFFICES ASSUME NEW k \in Kinds, NEW d \in Drawings, <<k, d>> \notin history'.doubtful PROVE CopyOK(k, d)'
    BY DEF SkipInv
<1>1. CopyOK(k, d)
    BY DEF SkipInv
<1>2. Away(k, d) => Away(k, d)'
    BY DEF Away
<1>3. \A n \in Logins : Busy(n, k)' => Busy(n, k) /\ threads'[n] = threads[n]
    BY DEF Busy
<1>4. \A n \in Logins : Copies(n, k, d)'
    BY <1>1, <1>2, <1>3 DEF CopyOK, Copies, Writes
<1> QED
    BY <1>1, <1>2, <1>3, <1>4 DEF CopyOK

\* What a thread does not change: pages, overrides, uploads.
LEMMA OfflineSkip ==
    ASSUME TypeOK, Shape, SkipInv, Offline \/ (\E v \in Visits : FailPatch(v)), \A v \in Visits : ~Loop(v)
    PROVE  SkipInv'
<1>1. UNCHANGED <<cache, hashes, threads>>
    BY DEF Loop, Offline, CreateDrawing, GetDrawing, UpdateStroke, SaveDimensions, SaveDrawingPreview, Leave, TakeUpdates,
           WriteStrokes, FileStrokes, PatchStrokes, FailPatch, diskVars, taskVars
<1>2. CASE \E v \in Visits : PatchStrokes(v)
    <2>1. PICK v \in Visits : PatchStrokes(v)
        BY <1>2
    <2> DEFINE e == pages[v].drawing
               strokes == db["strokes"][e] \cup pages[v].pending
    <2>2. db' = [db EXCEPT !["strokes"][e] = strokes] /\ db \in Folder
        BY <2>1 DEF PatchStrokes, TypeOK
    <2>3. history'.doubtful = history.doubtful \cup Back("strokes", e, strokes)
        BY <2>1 DEF PatchStrokes, TypeOK, History
    <2> HIDE DEF strokes
    <2>4. \A k \in Kinds : \A d \in Drawings :
            <<k, d>> \in history'.doubtful \/ db'[k][d] = db[k][d] \/ db'[k][d] # hashes[k][d]
        BY <2>2, <2>3 DEF Back, Folder, Values
    <2> QED
        BY <1>1, <2>3, <2>4, SameCopy
<1>3. CASE ~\E v \in Visits : PatchStrokes(v)
    <2>1. db' = db
        BY <1>3 DEF Loop, Offline, CreateDrawing, GetDrawing, UpdateStroke, SaveDimensions, SaveDrawingPreview, Leave,
                    TakeUpdates, WriteStrokes, FileStrokes, FailPatch
    <2>2. history'.doubtful = history.doubtful
        BY <1>3 DEF Loop, Offline, CreateDrawing, GetDrawing, NewId, UpdateStroke, SaveDimensions, SaveDrawingPreview, Leave,
                    TakeUpdates, WriteStrokes, FileStrokes, FailPatch, TypeOK, History
    <2> QED
        BY <1>1, <2>1, <2>2, SameCopy
<1> QED
    BY <1>2, <1>3

LEMMA LoopSkip ==
    ASSUME TypeOK, Shape, SkipInv, NEW v \in Visits, Loop(v)
    PROVE  SkipInv'
<1>1. UNCHANGED <<db, cache, hashes, threads>> /\ history'.doubtful = history.doubtful
    BY LoopFacts, LoopHistory DEF diskVars, taskVars
<1> QED
    BY <1>1, SameCopy

LEMMA SessionSkip ==
    ASSUME TypeOK, Shape, SkipInv, Session \/ Crash \/ (\E d \in Drawings : CrashWhileCreating(d))
    PROVE  SkipInv'
<1>1. UNCHANGED <<cache, hashes>>
    <2>1. CASE Session
        BY <2>1 DEF Session, Login, Logout, SignOut, CheckInfo, SendNext, ListDrawings, ClearOverride, diskVars
    <2>2. CASE Crash \/ \E d \in Drawings : CrashWhileCreating(d)
        BY <2>2 DEF Crash, CrashWhileCreating, diskVars
    <2> QED
        BY <2>1, <2>2
<1>2. \A n \in Logins : threads'[n] = threads[n] \/ threads'[n].at \notin {"reading", "writing"}
    <2>1. CASE StopProcess
        BY <2>1 DEF StopProcess, NoThread
    <2>2. ASSUME NEW m \in Logins, ClearOverride(m)
          PROVE  \A n \in Logins : threads'[n] = threads[n] \/ threads'[n].at \notin {"reading", "writing"}
        BY <2>2 DEF ClearOverride, TypeOK, Thread
    <2>3. CASE UNCHANGED threads
        BY <2>3
    <2>4. ASSUME NEW m \in Logins, CheckInfo(m) \/ ListDrawings(m) PROVE UNCHANGED threads \/ StopProcess
        BY <2>4, Zenon DEF CheckInfo, ListDrawings, EndProcess
    <2> QED
        BY <2>1, <2>2, <2>3, <2>4 DEF Session, Login, Logout, SignOut, SendNext, Crash, CrashWhileCreating, EndProcess,
               taskVars
<1>3. CASE \E n \in Logins : SendNext(n)
    <2>1. PICK n \in Logins : SendNext(n)
        BY <1>3
    <2> DEFINE u == uploads[n]
               i == Head(u.left)
               value == u.files[i][u.id]
    <2>2. db' = [db EXCEPT ![i][u.id] = value] /\ db \in Folder
        BY <2>1 DEF SendNext, TypeOK
    <2>3. history'.doubtful = history.doubtful \cup Back(i, u.id, value)
        BY <2>1 DEF SendNext, TypeOK, History
    <2> HIDE DEF i, value
    <2>4. \A k \in Kinds : \A d \in Drawings :
            <<k, d>> \in history'.doubtful \/ db'[k][d] = db[k][d] \/ db'[k][d] # hashes[k][d]
        BY <2>2, <2>3 DEF Back, Folder, Values
    <2> QED
        BY <1>1, <1>2, <2>3, <2>4, SameCopy
<1>4. CASE ~\E n \in Logins : SendNext(n)
    <2>1. db' = db
        BY <1>4 DEF Session, Login, Logout, SignOut, CheckInfo, ListDrawings, ClearOverride, Crash, CrashWhileCreating
    <2>2. history'.doubtful = history.doubtful
        <3>1. CASE EndProcess
            BY <3>1 DEF EndProcess, TypeOK, History
        <3>2. CASE \E d \in Drawings : CrashWhileCreating(d)
            BY <3>2 DEF CrashWhileCreating, TypeOK, History
        <3>3. CASE \E n \in Logins : ClearOverride(n)
            BY <3>3 DEF ClearOverride, TypeOK, History
        <3>4. ASSUME NEW m \in Logins, CheckInfo(m) \/ ListDrawings(m) PROVE UNCHANGED history \/ EndProcess
            BY <3>4, Zenon DEF CheckInfo, ListDrawings
        <3> QED
            BY <1>4, <3>1, <3>2, <3>3, <3>4 DEF Session, Login, Logout, SignOut, Crash
    <2> QED
        BY <1>1, <1>2, <2>1, <2>2, SameCopy
<1> QED
    BY <1>3, <1>4

\* A new change is in no hash.
LEMMA OthersSkip ==
    ASSUME TypeOK, AllPast, SkipInv, Others
    PROVE  SkipInv'
<1>1. PICK d \in Drawings : OnlineCreate(d) \/ OnlineDraw(d) \/ OnlineSave(d) \/ OnlineDelete(d)
    BY DEF Others
<1>2. UNCHANGED <<cache, hashes, threads>>
    BY <1>1 DEF OnlineCreate, OnlineDraw, OnlineSave, OnlineDelete, Online, diskVars, taskVars
<1>3. history'.doubtful = history.doubtful
    BY <1>1 DEF OnlineCreate, NewId, OnlineDraw, OnlineSave, OnlineDelete, TypeOK, History
<1>4. clock \in Nat /\ db \in Folder
    BY DEF TypeOK
<1>5. \A k \in Kinds : \A e \in Drawings : clock + 1 \notin hashes[k][e]
    BY <1>4 DEF AllPast, PastFolder
<1>6. \A k \in Kinds : \A e \in Drawings : db'[k][e] = db[k][e] \/ clock + 1 \in db'[k][e] \/ db'[k][e] = {}
    <2>1. CASE OnlineCreate(d)
        BY <1>4, <2>1 DEF OnlineCreate, Folder, Values
    <2>2. CASE OnlineDraw(d)
        BY <1>4, <2>2 DEF OnlineDraw, Folder, Values
    <2>3. CASE OnlineSave(d)
        BY <1>4, <2>3 DEF OnlineSave, Folder, Values
    <2>4. CASE OnlineDelete(d)
        BY <1>4, <2>4 DEF OnlineDelete, Folder, Values
    <2> QED
        BY <1>1, <2>1, <2>2, <2>3, <2>4
<1>7. \A k \in Kinds : \A e \in Drawings : db'[k][e] = db[k][e] \/ db'[k][e] # hashes[k][e] \/ db'[k][e] = {}
    BY <1>5, <1>6
<1> QED
    BY <1>2, <1>3, <1>7, SameCopy

\* After it turned to the i-th target, thread n reads it, with the hashes there are.
LEMMA TurnBusy ==
    ASSUME TypeOK, NEW n \in Logins, NEW i \in Nat \ {0}, NEW h \in Folder, Turn(n, i, h), NEW k \in Kinds, Busy(n, k)'
    PROVE  i \in DOMAIN Targets /\ Targets[i] = k /\ threads'[n].at = "reading" /\ threads'[n].hashes = h[k]
<1>0. threads \in [Logins -> Thread] /\ AtTop(n) \in Thread
    BY TopTypes DEF TypeOK
<1>1. CASE i > Len(Targets)
    <2>1. threads'[n].at \in {"ended", "top"}
        BY <1>0, <1>1, TopTypes DEF Turn
    <2> QED
        BY <2>1 DEF Busy
<1>2. CASE ~(i > Len(Targets))
    <2>1. i \in DOMAIN Targets
        BY <1>2, TargetsAssumption
    <2>2. threads'[n] = InPass(n, i, h[Targets[i]])
        BY <1>0, <1>2 DEF Turn, InPass
    <2>3. threads'[n].at = "reading" /\ threads'[n].target = i /\ threads'[n].hashes = h[Targets[i]]
        BY <2>2 DEF InPass, NoThread
    <2> QED
        BY <2>1, <2>3 DEF Busy
<1> QED
    BY <1>1, <1>2

\* A thread that turns to a target: another one that copies it makes it doubtful.
LEMMA TurnSkip ==
    ASSUME TypeOK, SkipInv, NEW n \in Logins, NEW i \in Nat \ {0}, hashes' \in Folder, Turn(n, i, hashes'),
           db' = db, history'.doubtful = history.doubtful \cup Clash(n, i),
           NEW k \in Kinds, NEW d \in Drawings, <<k, d>> \notin history'.doubtful,
           cache'[k][d] = hashes'[k][d] \/ Away(k, d)',
           (cache'[k][d] = cache[k][d] /\ hashes'[k][d] = hashes[k][d]) \/ Busy(n, k)
    PROVE  CopyOK(k, d)'
<1>1. CopyOK(k, d) /\ <<k, d>> \notin Clash(n, i)
    BY DEF SkipInv
<1>2. \A o \in Logins \ {n} : threads'[o] = threads[o] /\ (Busy(o, k)' <=> Busy(o, k))
    BY DEF Turn, Busy
<1>3. ASSUME Busy(n, k)', NEW o \in Logins \ {n} PROVE ~Busy(o, k)
    <2>1. i \in DOMAIN Targets /\ Targets[i] = k
        BY <1>3, TurnBusy
    <2>2. threads[o].target \in DOMAIN Targets
        BY DEF TypeOK, Thread
    <2>3. CASE Busy(o, k)
        <3>1. threads[o].target = i
            BY <2>1, <2>2, <2>3, TargetsAssumption DEF Busy
        <3>2. Clash(n, i) = {Targets[i]} \X Drawings
            BY <2>3, <3>1 DEF Clash, Busy
        <3> QED
            BY <1>1, <2>1, <3>2
    <2> QED
        BY <2>3
<1>4. \A m, o \in Logins : Busy(m, k)' /\ Busy(o, k)' => m = o
    BY <1>1, <1>2, <1>3 DEF CopyOK
<1>5. ASSUME NEW m \in Logins PROVE Copies(m, k, d)'
    <2>1. CASE m = n
        <3>1. ASSUME Busy(n, k)' PROVE threads'[n].at = "reading" /\ threads'[n].hashes = hashes'[k]
            BY <3>1, TurnBusy
        <3> QED
            BY <2>1, <3>1 DEF Copies
    <2>2. CASE m # n /\ Busy(m, k)
        <3>1. ~Busy(n, k)
            BY <1>1, <2>2 DEF CopyOK
        <3>2. cache'[k][d] = cache[k][d] /\ hashes'[k][d] = hashes[k][d] /\ (Away(k, d)' <=> Away(k, d))
            BY <3>1 DEF Away
        <3> QED
            BY <1>1, <1>2, <2>2, <3>2 DEF CopyOK, Copies, Writes
    <2>3. CASE m # n /\ ~Busy(m, k)
        BY <1>2, <2>3 DEF Copies
    <2> QED
        BY <2>1, <2>2, <2>3
<1> QED
    BY <1>4, <1>5 DEF CopyOK

\* One thread goes on with target k: nothing changes elsewhere.
LEMMA OneSkip ==
    ASSUME TypeOK, SkipInv, NEW n \in Logins, NEW k \in Kinds, NEW d \in Drawings, <<k, d>> \notin history.doubtful,
           db' = db, \A m \in Logins \ {n} : threads'[m] = threads[m], \A i \in Kinds : Busy(n, i)' <=> Busy(n, i),
           IF Busy(n, k) THEN Copies(n, k, d)' /\ (cache'[k][d] = hashes'[k][d] \/ Away(k, d)')
           ELSE cache'[k][d] = cache[k][d] /\ hashes'[k][d] = hashes[k][d]
    PROVE  CopyOK(k, d)'
<1>1. CopyOK(k, d)
    BY DEF SkipInv
<1>2. \A m \in Logins : Busy(m, k)' <=> Busy(m, k)
    BY DEF Busy
<1>3. CASE Busy(n, k)
    <2>1. \A m \in Logins \ {n} : ~Busy(m, k)'
        BY <1>1, <1>2, <1>3 DEF CopyOK
    <2> QED
        BY <1>3, <2>1 DEF CopyOK, Copies
<1>4. CASE ~Busy(n, k)
    <2>1. Away(k, d)' <=> Away(k, d)
        BY <1>4 DEF Away
    <2>2. \A m \in Logins : Copies(m, k, d)'
        BY <1>1, <1>2, <1>4, <2>1 DEF CopyOK, Copies, Writes
    <2> QED
        BY <1>1, <1>2, <1>4, <2>1, <2>2 DEF CopyOK
<1> QED
    BY <1>3, <1>4

LEMMA ReadSkip ==
    ASSUME TypeOK, SkipInv, NEW n \in Logins, Once(n)
    PROVE  SkipInv'
<1> DEFINE t == threads[n]
<1>0. PICK k \in Kinds : k = Targets[t.target]
    BY TargetTypes
<1>1. UNCHANGED <<db, cache, hashes>> /\ t.at = "reading" /\ hashes \in Folder /\ db \in Folder
    BY DEF Once, OnlyThreads, diskVars, TypeOK
<1>2. t \in Thread /\ t.target + 1 \in Nat \ {0}
    BY TargetTypes
<1>3. CASE db[k] = NoValues
    <2>1. Turn(n, t.target + 1, hashes)
          /\ history' = [history EXCEPT !.doubtful = @ \cup Clash(n, t.target + 1)]
        BY <1>0, <1>3 DEF Once
    <2>2. history'.doubtful = history.doubtful \cup Clash(n, t.target + 1)
        BY <2>1 DEF TypeOK, History
    <2>3. Turn(n, t.target + 1, hashes')
        BY <1>1, <2>1
    <2>4. ASSUME NEW i \in Kinds, NEW d \in Drawings, <<i, d>> \notin history'.doubtful PROVE CopyOK(i, d)'
        <3>1. cache'[i][d] = hashes'[i][d] \/ Away(i, d)'
            BY <1>1, <2>2, <2>4 DEF SkipInv, CopyOK, Away
        <3> QED
            BY <1>1, <1>2, <2>2, <2>3, <2>4, <3>1, TurnSkip
    <2> QED
        BY <2>4 DEF SkipInv
<1>4. CASE db[k] # NoValues
    <2>1. /\ threads' = [threads EXCEPT ![n].at = "writing", ![n].objs = db[k],
                                        ![n].todo = {d \in Drawings : db[k][d] # {}}]
          /\ UNCHANGED history
        BY <1>0, <1>4 DEF Once
    <2>2. /\ \A m \in Logins \ {n} : threads'[m] = threads[m]
          /\ threads'[n].at = "writing" /\ threads'[n].objs = db[k] /\ threads'[n].hashes = t.hashes
          /\ threads'[n].todo = {d \in Drawings : db[k][d] # {}} /\ threads'[n].target = t.target
        BY <1>2, <2>1 DEF TypeOK, Thread
    <2>3. Busy(n, k) /\ \A i \in Kinds : (Busy(n, i)' <=> Busy(n, i)) /\ (Busy(n, i) => i = k)
        BY <1>0, <1>1, <2>2 DEF Busy
    <2>4. ASSUME NEW d \in Drawings, <<k, d>> \notin history.doubtful
          PROVE  Copies(n, k, d)' /\ (cache'[k][d] = hashes'[k][d] \/ Away(k, d)')
        <3>1. CopyOK(k, d) /\ t.hashes[d] = hashes[k][d]
            BY <1>1, <2>3, <2>4 DEF SkipInv, CopyOK, Copies
        <3>2. Away(k, d)' <=> Away(k, d)
            BY <1>1 DEF Away
        <3>3. Writes(n, k, d)'
            BY <1>1, <2>2, <3>1, <3>2 DEF Writes, CopyOK, Away
        <3> QED
            BY <1>1, <2>2, <3>1, <3>2, <3>3 DEF Copies, CopyOK
    <2> QED
        BY <1>1, <2>1, <2>2, <2>3, <2>4, OneSkip DEF SkipInv
<1> QED
    BY <1>3, <1>4

LEMMA WriteSkip ==
    ASSUME TypeOK, SkipInv, NEW n \in Logins, WriteFile(n)
    PROVE  SkipInv'
<1> DEFINE t == threads[n]
<1>0. PICK k \in Kinds : k = Targets[t.target]
    BY TargetTypes
<1>1. UNCHANGED <<db, hashes, history>> /\ t.at = "writing" /\ cache \in Folder
    BY DEF WriteFile, TypeOK
<1>2. t \in Thread /\ t.hashes \in Values /\ t.todo \subseteq Drawings
    BY TargetTypes
<1>3. PICK e \in t.todo :
        /\ cache' = IF t.hashes[e] = t.objs[e] THEN cache ELSE [cache EXCEPT ![k][e] = t.objs[e]]
        /\ threads' = [threads EXCEPT ![n].todo = @ \ {e}, ![n].hashes[e] = t.objs[e]]
    BY <1>0 DEF WriteFile
<1>4. /\ \A m \in Logins \ {n} : threads'[m] = threads[m]
      /\ threads'[n].at = "writing" /\ threads'[n].objs = t.objs /\ threads'[n].target = t.target
      /\ threads'[n].todo = t.todo \ {e} /\ threads'[n].hashes = [t.hashes EXCEPT ![e] = t.objs[e]]
    BY <1>1, <1>2, <1>3 DEF TypeOK, Thread
<1>5. Busy(n, k) /\ \A i \in Kinds : (Busy(n, i)' <=> Busy(n, i)) /\ (Busy(n, i) => i = k)
    BY <1>0, <1>1, <1>4 DEF Busy
<1>6. \A i \in Kinds : \A d \in Drawings : i # k \/ d # e => cache'[i][d] = cache[i][d]
    BY <1>0, <1>1, <1>2, <1>3 DEF Folder, Values
<1>7. ASSUME NEW d \in Drawings, <<k, d>> \notin history.doubtful
      PROVE  Copies(n, k, d)' /\ (cache'[k][d] = hashes'[k][d] \/ Away(k, d)')
    <2>1. CopyOK(k, d) /\ Writes(n, k, d) /\ (Away(k, d)' <=> Away(k, d))
        BY <1>1, <1>5, <1>7 DEF SkipInv, CopyOK, Copies, Away
    <2>2. CASE d = e
        <3>1. cache'[k][d] = t.objs[d] /\ t.objs[d] # {}
            BY <1>1, <1>2, <1>3, <2>1, <2>2 DEF Writes, Folder, Values
        <3>2. threads'[n].hashes[d] = t.objs[d] /\ d \notin threads'[n].todo
            BY <1>2, <1>4, <2>2 DEF Values
        <3>3. Writes(n, k, d)'
            BY <1>1, <1>4, <2>1, <3>1, <3>2 DEF Writes
        <3> QED
            BY <1>1, <1>4, <2>1, <3>1, <3>3 DEF Copies, Writes
    <2>3. CASE d # e
        <3>1. cache'[k][d] = cache[k][d] /\ threads'[n].hashes[d] = t.hashes[d]
            BY <1>2, <1>4, <1>6, <2>3 DEF Values
        <3>2. Writes(n, k, d)'
            BY <1>1, <1>4, <2>1, <2>3, <3>1 DEF Writes
        <3> QED
            BY <1>1, <1>4, <2>1, <3>1, <3>2 DEF Copies, CopyOK
    <2> QED
        BY <2>2, <2>3
<1> QED
    BY <1>1, <1>2, <1>4, <1>5, <1>6, <1>7, OneSkip DEF SkipInv

LEMMA FinishSkip ==
    ASSUME TypeOK, SkipInv, NEW n \in Logins, FinishTarget(n)
    PROVE  SkipInv'
<1> DEFINE t == threads[n]
           k == Targets[t.target]
           kept == {d \in Drawings : t.objs[d] # {}}
<1>1. db' = db /\ t.at = "writing" /\ t.todo = {} /\ cache \in Folder /\ hashes \in Folder
    BY DEF FinishTarget, Finish, TypeOK
<1>2. t \in Thread /\ k \in Kinds /\ t.target + 1 \in Nat \ {0} /\ t.hashes \in Values
    BY TargetTypes
<1>3. /\ cache' = [cache EXCEPT ![k] = [d \in Drawings |-> IF d \in kept THEN @[d] ELSE {}]]
      /\ hashes' = [hashes EXCEPT ![k] = t.hashes] /\ Turn(n, t.target + 1, hashes')
    BY DEF FinishTarget, Finish
<1>4. history'.doubtful = history.doubtful \cup Clash(n, t.target + 1)
    BY DEF FinishTarget, Finish, TypeOK, History
<1>5. Busy(n, k)
    BY <1>1 DEF Busy
<1> HIDE DEF k
<1>6. hashes' \in Folder
    BY <1>1, <1>2, <1>3 DEF Folder
<1>7. ASSUME NEW i \in Kinds, NEW d \in Drawings, <<i, d>> \notin history'.doubtful PROVE CopyOK(i, d)'
    <2>1. CopyOK(i, d)
        BY <1>4, <1>7 DEF SkipInv
    <2>2. CASE i = k
        <3>1. Writes(n, k, d)
            BY <1>1, <1>5, <2>1, <2>2 DEF CopyOK, Copies
        <3>2. cache'[k][d] = (IF t.objs[d] # {} THEN cache[k][d] ELSE {}) /\ hashes'[k][d] = t.hashes[d]
            BY <1>1, <1>2, <1>3 DEF Folder
        <3>3. cache'[i][d] = hashes'[i][d] \/ Away(i, d)'
            BY <1>1, <2>2, <3>1, <3>2 DEF Writes, Away
        <3> QED
            BY <1>1, <1>2, <1>3, <1>4, <1>5, <1>6, <1>7, <2>2, <3>3, TurnSkip
    <2>3. CASE i # k
        <3>1. cache'[i][d] = cache[i][d] /\ hashes'[i][d] = hashes[i][d]
            BY <1>1, <1>2, <1>3, <2>3 DEF Folder
        <3>2. cache'[i][d] = hashes'[i][d] \/ Away(i, d)'
            BY <1>1, <2>1, <3>1 DEF CopyOK, Away
        <3> QED
            BY <1>1, <1>2, <1>3, <1>4, <1>6, <1>7, <3>1, <3>2, TurnSkip
    <2> QED
        BY <2>2, <2>3
<1> QED
    BY <1>7 DEF SkipInv

LEMMA ThreadSkip ==
    ASSUME TypeOK, SkipInv, NEW n \in Logins, ThreadStep(n)
    PROVE  SkipInv'
<1>1. CASE StartThread(n) \/ EndThread(n) \/ FailDownload(n) \/ FailPass(n)
    <2>1. UNCHANGED <<db, cache, hashes, history>>
        BY <1>1 DEF StartThread, EndThread, FailDownload, FailPass, OnlyThreads, diskVars
    <2>2. /\ \A m \in Logins \ {n} : threads'[m] = threads[m]
          /\ threads'[n].at \in {"first", "ended", "top"}
        <3>1. threads \in [Logins -> Thread] /\ [NoThread EXCEPT !.at = "ended"].at = "ended"
            BY DEF TypeOK, NoThread
        <3>2. \E x : threads' = [threads EXCEPT ![n] = x] /\ x.at \in {"first", "ended", "top"}
            <4>1. CASE StartThread(n)
                <5>1. [threads[n] EXCEPT !.at = "first", !.watches = newest].at = "first"
                    BY <3>1 DEF Thread
                <5>2. threads' = [threads EXCEPT ![n] = IF newest \in cancelled THEN [NoThread EXCEPT !.at = "ended"]
                                    ELSE [threads[n] EXCEPT !.at = "first", !.watches = newest]]
                    BY <4>1 DEF StartThread
                <5> QED
                    BY <3>1, <5>1, <5>2
            <4>2. CASE EndThread(n)
                BY <3>1, <4>2 DEF EndThread
            <4>3. CASE FailDownload(n)
                <5>1. threads' = [threads EXCEPT ![n] = [threads[n] EXCEPT !.at = "ended"]]
                    BY <4>3 DEF FailDownload
                <5>2. [threads[n] EXCEPT !.at = "ended"].at = "ended"
                    BY <3>1 DEF Thread
                <5> QED
                    BY <5>1, <5>2
            <4>4. CASE FailPass(n)
                BY <4>4, TopTypes DEF FailPass
            <4> QED
                BY <1>1, <4>1, <4>2, <4>3, <4>4
        <3> QED
            BY <3>1, <3>2
    <2> QED
        BY <2>1, <2>2, SameCopy
<1>2. CASE StartPass(n)
    <2>1. /\ UNCHANGED <<db, cache, hashes>> /\ hashes \in Folder /\ Turn(n, 1, hashes)
          /\ history'.doubtful = history.doubtful \cup Clash(n, 1)
        BY <1>2 DEF StartPass, OnlyThreads, diskVars, TypeOK, History
    <2>2. Turn(n, 1, hashes')
        BY <2>1
    <2>3. ASSUME NEW i \in Kinds, NEW d \in Drawings, <<i, d>> \notin history'.doubtful PROVE CopyOK(i, d)'
        <3>1. cache'[i][d] = hashes'[i][d] \/ Away(i, d)'
            BY <2>1, <2>3 DEF SkipInv, CopyOK, Away
        <3> QED
            BY <2>1, <2>2, <2>3, <3>1, TurnSkip
    <2> QED
        BY <2>3 DEF SkipInv
<1> QED
    BY <1>1, <1>2, ReadSkip, WriteSkip, FinishSkip DEF ThreadStep

LEMMA StepSkip == TypeOK /\ Shape /\ AllPast /\ SkipInv /\ [Next]_vars => SkipInv'
<1> SUFFICES ASSUME TypeOK, Shape, AllPast, SkipInv, [Next]_vars PROVE SkipInv'
    OBVIOUS
<1>1. CASE Offline
    BY <1>1, OfflineSkip, LoopSkip
<1>2. CASE Session
    BY <1>2, SessionSkip
<1>3. CASE Sync
    BY <1>3, ThreadSkip DEF Sync, ThreadStep
<1>4. CASE Others
    BY <1>4, OthersSkip
<1>5. CASE Failures
    BY <1>5, OfflineSkip, LoopSkip, SessionSkip, ThreadSkip DEF Failures, ThreadStep, Loop
<1>6. CASE UNCHANGED vars
    BY <1>6, SameCopy DEF vars, diskVars, taskVars
<1> QED
    BY <1>1, <1>2, <1>3, <1>4, <1>5, <1>6 DEF Next

-----------------------------------------------------------------------------
(* The infos that an upload looks up *)

\* Thread n writes infos.
Writing(n) == Busy(n, "info") /\ threads[n].at = "writing"

\* The client has no info of d, except perhaps a hash.
Nowhere(d) ==
    /\ cache["info"][d] = {} /\ override["info"][d] = {}
    /\ \A n \in Logins : uploads[n].files["info"][d] = {}

\* An id that was not given yet is unknown everywhere.
NewInv ==
    \A d \in history.new :
        /\ db["info"][d] = {} /\ hashes["info"][d] = {} /\ Nowhere(d)
        /\ \A n \in Logins : Busy(n, "info") => threads[n].hashes[d] = {}
        /\ \A n \in Logins : Writing(n) => threads[n].objs[d] = {}

Cached(d) == cache["info"][d] # {} \/ db["info"][d] = {}

\* An info that was written offline was cached before, or is not in the database; so
\* is one that an upload has no hash of; and a thread that is going to delete an info
\* deletes one that the database has lost, or nothing.
KnownOK(d) ==
    /\ override["info"][d] # {} => Cached(d)
    /\ \A n \in Logins : uploads[n].files["info"][d] # {} => uploads[n].seen[d] # {} \/ Cached(d)
    /\ \A n \in Logins : Writing(n) /\ threads[n].objs[d] = {} => db["info"][d] = {} \/ Nowhere(d)

KnownInv == \A d \in Drawings : d \in history.begun \/ <<"info", d>> \in history.doubtful \/ KnownOK(d)

LEMMA KnownInit == Init => NewInv /\ KnownInv
<1>0. SUFFICES ASSUME Init, NEW s \in Scenarios,
                    history = [new |-> s.new, own |-> {}, reached |-> {}, lost |-> {}, begun |-> {},
                               late |-> {}, torn |-> {}, doubtful |-> {}],
                    cache = [k \in Kinds |-> [d \in Drawings |-> IF d \in s.cached THEN {0} ELSE {}]],
                    db = [k \in Kinds |-> [d \in Drawings |->
                            CASE d \in s.outdated /\ k = "strokes" -> {0, 1}
                              [] d \in s.outdated /\ k = "info" -> {2}
                              [] OTHER -> cache[k][d]]]
             PROVE  NewInv /\ KnownInv
    BY DEF Init
<1>1. s \in Scenario /\ s.outdated \subseteq s.cached /\ s.cached \cap s.new = {} /\ s.new \subseteq Drawings
    BY ScenariosAssumption DEF Scenario
<1>2. /\ hashes = cache /\ override = NoFiles /\ "info" \in Kinds
      /\ \A n \in Logins : uploads[n].files = NoFiles /\ threads[n].at = "none"
    <2>1. /\ hashes = cache /\ override = NoFiles
          /\ uploads = [n \in Logins |-> NoUpload] /\ threads = [n \in Logins |-> NoThread]
        BY <1>0 DEF Init
    <2> QED
        BY <2>1 DEF NoUpload, NoThread, Kinds
<1>3. \A d \in Drawings : override["info"][d] = {} /\ \A n \in Logins : uploads[n].files["info"][d] = {}
    BY <1>2 DEF NoFiles, NoValues
<1>4. ASSUME NEW d \in s.new PROVE cache["info"][d] = {} /\ db["info"][d] = {}
    <2>1. d \in Drawings /\ d \notin s.cached /\ d \notin s.outdated
        BY <1>1
    <2>2. cache["info"][d] = {}
        BY <1>0, <1>2, <2>1
    <2>3. db["info"][d] = cache["info"][d]
        BY <1>0, <1>2, <2>1
    <2> QED
        BY <2>2, <2>3
<1>5. history.new = s.new
    BY <1>0
<1> QED
    BY <1>1, <1>2, <1>3, <1>4, <1>5 DEF NewInv, KnownInv, KnownOK, Nowhere, Writing, Busy

\* No thread touches a cached info.
LEMMA SameKnown ==
    ASSUME NewInv, KnownInv, cache'["info"] = cache["info"], hashes'["info"] = hashes["info"],
           history.new \subseteq Drawings, history'.new \subseteq history.new,
           history.begun \subseteq history'.begun, history.doubtful \subseteq history'.doubtful,
           \A d \in Drawings : db'["info"][d] # {} =>
                \/ db["info"][d] # {} \/ d \in history.new \ history'.new
                \/ d \in history'.begun /\ d \notin history'.new,
           \A d \in Drawings : override'["info"][d] # {} =>
                override["info"][d] # {} \/ cache["info"][d] # {} \/ d \in history.new \ history'.new,
           \A d \in history.new \ history'.new : db'["info"][d] = {} \/ override'["info"][d] = {},
           \A n \in Logins : \A d \in Drawings : uploads'[n].files["info"][d] # {} =>
                \/ uploads[n].files["info"][d] # {} /\ uploads'[n].seen = uploads[n].seen
                \/ override["info"][d] # {},
           \A n \in Logins :
                \/ threads'[n] = threads[n] \/ ~Busy(n, "info")'
                \/ threads'[n].at = "reading" /\ threads'[n].hashes = hashes["info"]
                \/ /\ Busy(n, "info") /\ threads'[n].hashes = threads[n].hashes
                   /\ threads'[n].objs = db["info"] /\ db' = db
    PROVE  NewInv' /\ KnownInv'
<1>1. \A n \in Logins : threads'[n] = threads[n] => (Busy(n, "info")' <=> Busy(n, "info")) /\ (Writing(n)' <=> Writing(n))
    BY DEF Busy, Writing
<1>2. ASSUME NEW d \in history'.new
      PROVE  /\ db'["info"][d] = {} /\ hashes'["info"][d] = {} /\ Nowhere(d)'
             /\ \A n \in Logins : Busy(n, "info")' => threads'[n].hashes[d] = {}
             /\ \A n \in Logins : Writing(n)' => threads'[n].objs[d] = {}
    <2>1. d \in Drawings /\ d \in history.new
        OBVIOUS
    <2>2. /\ db["info"][d] = {} /\ hashes["info"][d] = {} /\ Nowhere(d)
          /\ \A n \in Logins : Busy(n, "info") => threads[n].hashes[d] = {}
          /\ \A n \in Logins : Writing(n) => threads[n].objs[d] = {}
        BY <2>1 DEF NewInv
    <2>3. db'["info"][d] = {} /\ hashes'["info"][d] = {}
        BY <2>1, <2>2
    <2>4. Nowhere(d)'
        BY <2>1, <2>2 DEF Nowhere
    <2>5. ASSUME NEW n \in Logins, Busy(n, "info")' PROVE threads'[n].hashes[d] = {}
        BY <1>1, <2>2, <2>5
    <2>6. ASSUME NEW n \in Logins, Writing(n)' PROVE threads'[n].objs[d] = {}
        BY <1>1, <2>2, <2>6 DEF Writing
    <2> QED
        BY <2>3, <2>4, <2>5, <2>6
<1>3. ASSUME NEW d \in Drawings, d \notin history'.begun, <<"info", d>> \notin history'.doubtful PROVE KnownOK(d)'
    <2>1. KnownOK(d)
        BY <1>3 DEF KnownInv
    <2>2. CASE d \in history.new \ history'.new
        <3>1. db["info"][d] = {} /\ Nowhere(d)
            BY <2>2 DEF NewInv
        <3>2. \A n \in Logins : uploads'[n].files["info"][d] = {}
            BY <3>1 DEF Nowhere
        <3>3. CASE db'["info"][d] = {}
            BY <3>3 DEF KnownOK, Cached
        <3>4. CASE override'["info"][d] = {}
            BY <3>1, <3>2, <3>4 DEF KnownOK, Nowhere
        <3> QED
            BY <2>2, <3>3, <3>4
    <2>3. CASE ~(d \in history.new \ history'.new)
        <3>1. db'["info"][d] # {} => db["info"][d] # {}
            BY <1>3, <2>3
        <3>2. Cached(d) => Cached(d)'
            BY <3>1 DEF Cached
        <3>3. override'["info"][d] # {} => Cached(d)'
            BY <2>1, <2>3, <3>2 DEF KnownOK, Cached
        <3>4. \A n \in Logins : uploads'[n].files["info"][d] # {} => uploads'[n].seen[d] # {} \/ Cached(d)'
            BY <2>1, <3>2 DEF KnownOK
        <3>5. ASSUME NEW n \in Logins, Writing(n)', threads'[n].objs[d] = {}
              PROVE  db'["info"][d] = {} \/ Nowhere(d)'
            <4>1. CASE threads'[n].objs = db["info"] /\ db' = db
                BY <3>5, <4>1
            <4>2. CASE threads'[n] = threads[n]
                <5>1. db["info"][d] = {} \/ Nowhere(d)
                    BY <1>1, <2>1, <3>5, <4>2 DEF KnownOK
                <5> QED
                    BY <2>3, <3>1, <5>1 DEF Nowhere
            <4> QED
                BY <3>5, <4>1, <4>2 DEF Writing
        <3> QED
            BY <3>3, <3>4, <3>5 DEF KnownOK
    <2> QED
        BY <2>2, <2>3
<1> QED
    BY <1>2, <1>3 DEF NewInv, KnownInv

\* Pages, overrides and, through a PATCH, the strokes in the database.
LEMMA OfflineKnown ==
    ASSUME TypeOK, Shape, NewInv, KnownInv, Offline \/ (\E v \in Visits : FailPatch(v)), \A v \in Visits : ~Loop(v)
    PROVE  NewInv' /\ KnownInv'
<1>1. UNCHANGED <<cache, hashes, uploads, threads>>
    BY DEF Loop, Offline, CreateDrawing, GetDrawing, UpdateStroke, SaveDimensions, SaveDrawingPreview, Leave, TakeUpdates,
           WriteStrokes, FileStrokes, PatchStrokes, FailPatch, diskVars, taskVars
<1>2. db'["info"] = db["info"]
    <2>1. CASE \E v \in Visits : PatchStrokes(v)
        BY <2>1 DEF PatchStrokes, TypeOK, Folder
    <2>2. CASE ~\E v \in Visits : PatchStrokes(v)
        <3>1. db' = db
            BY <2>2 DEF Loop, Offline, CreateDrawing, GetDrawing, UpdateStroke, SaveDimensions, SaveDrawingPreview, Leave,
                        TakeUpdates, WriteStrokes, FileStrokes, FailPatch
        <3> QED
            BY <3>1
    <2> QED
        BY <2>1, <2>2
<1>3. history.new \subseteq Drawings /\ history \in History /\ override \in Folder /\ "info" \in Kinds
    BY DEF TypeOK, History, Kinds
<1>4. CASE \E e \in Drawings : CreateDrawing(e)
    <2>1. PICK e \in Drawings : CreateDrawing(e)
        BY <1>4
    <2>2. /\ e \in history.new /\ history' = [history EXCEPT !.new = @ \ {e}]
          /\ override' = [override EXCEPT !["drawings"][e] = {clock'}, !["info"][e] = {clock'}]
        BY <2>1 DEF CreateDrawing, NewId
    <2>3. history'.new = history.new \ {e} /\ history'.begun = history.begun /\ history'.doubtful = history.doubtful
        BY <1>3, <2>2 DEF History
    <2>4. \A d \in Drawings : d # e => override'["info"][d] = override["info"][d]
        BY <1>3, <2>2 DEF Folder, Values
    <2>5. \A d \in history.new : db'["info"][d] = {}
        BY <1>2 DEF NewInv
    <2> QED
        BY <1>1, <1>2, <1>3, <2>2, <2>3, <2>4, <2>5, SameKnown
<1>5. CASE ~\E e \in Drawings : CreateDrawing(e)
    <2>1. history'.new = history.new /\ history'.begun = history.begun /\ history.doubtful \subseteq history'.doubtful
        <3>1. ASSUME NEW v \in Visits, PatchStrokes(v)
              PROVE  history'.new = history.new /\ history'.begun = history.begun
                     /\ history.doubtful \subseteq history'.doubtful
            BY <1>3, <3>1 DEF PatchStrokes, History
        <3>2. ASSUME NEW v \in Visits, WriteStrokes(v) \/ FailPatch(v) \/ UpdateStroke(v)
              PROVE  history'.new = history.new /\ history'.begun = history.begun
                     /\ history.doubtful \subseteq history'.doubtful
            BY <1>3, <3>2 DEF WriteStrokes, FileStrokes, FailPatch, UpdateStroke, History
        <3>3. ASSUME NEW e \in Drawings, GetDrawing(e)
              PROVE  history'.new = history.new /\ history'.begun = history.begun
                     /\ history.doubtful \subseteq history'.doubtful
            BY <1>3, <3>3 DEF GetDrawing, History
        <3>4. CASE UNCHANGED history
            BY <3>4
        <3> QED
            BY <1>5, <3>1, <3>2, <3>3, <3>4 DEF Loop, Offline, SaveDimensions, SaveDrawingPreview, Leave, TakeUpdates
    <2>2. \A d \in Drawings : override'["info"][d] # {} => override["info"][d] # {} \/ cache["info"][d] # {}
        <3>1. ASSUME NEW v \in Visits, SaveDrawingPreview(v)
              PROVE  \A d \in Drawings : override'["info"][d] # {} => override["info"][d] # {} \/ cache["info"][d] # {}
            <4>1. CASE Get("info", pages[v].drawing) = {}
                BY <3>1, <4>1 DEF SaveDrawingPreview
            <4>2. CASE Get("info", pages[v].drawing) # {}
                <5>1. override' = [override EXCEPT !["info"][pages[v].drawing] = {clock'}]
                    BY <3>1, <4>2 DEF SaveDrawingPreview
                <5>2. override["info"][pages[v].drawing] # {} \/ cache["info"][pages[v].drawing] # {}
                    BY <4>2 DEF Get
                <5> QED
                    BY <1>3, <5>1, <5>2 DEF Folder, Values
            <4> QED
                BY <4>1, <4>2
        <3>2. ASSUME NEW v \in Visits, SaveDimensions(v) \/ WriteStrokes(v) PROVE override'["info"] = override["info"]
            BY <1>3, <3>2 DEF SaveDimensions, WriteStrokes, FileStrokes, Folder
        <3>3. CASE UNCHANGED override
            BY <3>3
        <3> QED
            BY <1>5, <3>1, <3>2, <3>3 DEF Loop, Offline, GetDrawing, UpdateStroke, TakeUpdates, PatchStrokes, FailPatch,
                                          diskVars
    <2> QED
        BY <1>1, <1>2, <1>3, <2>1, <2>2, SameKnown
<1> QED
    BY <1>4, <1>5

LEMMA LoopKnown ==
    ASSUME TypeOK, Shape, NewInv, KnownInv, NEW v \in Visits, Loop(v)
    PROVE  NewInv' /\ KnownInv'
<1>1. /\ UNCHANGED <<db, cache, hashes, override, uploads, threads>> /\ history'.doubtful = history.doubtful
      /\ history'.new = history.new /\ history'.begun = history.begun /\ history.new \subseteq Drawings
    BY LoopFacts, LoopHistory DEF diskVars, taskVars, TypeOK, History
<1> QED
    BY <1>1, SameKnown

\* Logins, uploads and the end of the process.
LEMMA SessionKnown ==
    ASSUME TypeOK, Shape, NewInv, KnownInv, Session \/ Crash \/ (\E d \in Drawings : CrashWhileCreating(d))
    PROVE  NewInv' /\ KnownInv'
<1>1. UNCHANGED <<cache, hashes>>
    <2>1. CASE Session
        BY <2>1 DEF Session, Login, Logout, SignOut, CheckInfo, SendNext, ListDrawings, ClearOverride, diskVars
    <2>2. CASE Crash \/ \E d \in Drawings : CrashWhileCreating(d)
        BY <2>2 DEF Crash, CrashWhileCreating, diskVars
    <2> QED
        BY <2>1, <2>2
<1>2. /\ history.new \subseteq Drawings /\ history \in History /\ override \in Folder /\ "info" \in Kinds
      /\ db \in Folder /\ uploads \in [Logins -> Upload] /\ threads \in [Logins -> Thread]
    BY DEF TypeOK, History, Kinds
<1>3. \A n \in Logins : threads'[n] = threads[n] \/ ~Busy(n, "info")'
    <2>1. CASE StopProcess
        BY <2>1 DEF StopProcess, NoThread, Busy
    <2>2. ASSUME NEW m \in Logins, ClearOverride(m)
          PROVE  \A n \in Logins : threads'[n] = threads[n] \/ ~Busy(n, "info")'
        BY <1>2, <2>2 DEF ClearOverride, Thread, Busy
    <2>3. CASE UNCHANGED threads
        BY <2>3
    <2>4. ASSUME NEW m \in Logins, CheckInfo(m) \/ ListDrawings(m) PROVE UNCHANGED threads \/ StopProcess
        BY <2>4, Zenon DEF CheckInfo, ListDrawings, EndProcess
    <2> QED
        BY <2>1, <2>2, <2>3, <2>4 DEF Session, Login, Logout, SignOut, SendNext, Crash, CrashWhileCreating, EndProcess,
               taskVars
<1>4. \A n \in Logins : \A d \in Drawings : uploads'[n].files["info"][d] # {} =>
        \/ uploads[n].files["info"][d] # {} /\ uploads'[n].seen = uploads[n].seen
        \/ override["info"][d] # {}
    <2>1. \A n \in Logins :
            \/ uploads'[n].files = uploads[n].files /\ uploads'[n].seen = uploads[n].seen
            \/ uploads'[n].files = NoFiles \/ uploads'[n].files = override
        BY UploadFiles
    <2> QED
        BY <1>2, <2>1 DEF NoFiles, NoValues
<1>5. CASE \E n \in Logins : SendNext(n)
    <2>1. PICK n \in Logins : SendNext(n)
        BY <1>5
    <2> DEFINE u == uploads[n]
    <2>2. PICK k \in Kinds : k = Head(u.left)
        BY <1>2, <2>1, HeadTailProperties DEF SendNext, Shape, UploadOK, Upload
    <2>3. db' = [db EXCEPT ![k][u.id] = u.files[k][u.id]] /\ override' = override /\ u.id \in Drawings
        BY <1>2, <2>1, <2>2 DEF SendNext, diskVars, Upload
    <2>4. /\ history'.new = history.new /\ history.doubtful \subseteq history'.doubtful
          /\ history'.begun = IF k = "info" THEN history.begun \cup {u.id} ELSE history.begun
        BY <1>2, <2>1, <2>2 DEF SendNext, History
    <2>5. \A d \in Drawings : db'["info"][d] # {} =>
            db["info"][d] # {} \/ (d \in history'.begun /\ d \notin history'.new)
        <3>1. ASSUME NEW d \in Drawings, k # "info" \/ d # u.id PROVE db'["info"][d] = db["info"][d]
            BY <1>2, <2>3, <3>1 DEF Folder, Values
        <3>2. ASSUME k = "info" PROVE db'["info"][u.id] = u.files["info"][u.id] /\ u.id \in history'.begun
            BY <1>2, <2>3, <2>4, <3>2 DEF Folder, Values
        <3>3. u.id \in history.new => u.files["info"][u.id] = {}
            BY DEF NewInv, Nowhere
        <3> QED
            BY <2>3, <2>4, <3>1, <3>2, <3>3
    <2> QED
        BY <1>1, <1>2, <1>3, <1>4, <2>3, <2>4, <2>5, SameKnown
<1>6. CASE ~\E n \in Logins : SendNext(n)
    <2>1. db' = db
        BY <1>6 DEF Session, Login, Logout, SignOut, CheckInfo, ListDrawings, ClearOverride, Crash, CrashWhileCreating
    <2>2. history'.new \subseteq history.new /\ history'.begun = history.begun /\ history'.doubtful = history.doubtful
        <3>1. CASE EndProcess
            BY <1>2, <3>1 DEF EndProcess, History
        <3>2. CASE \E d \in Drawings : CrashWhileCreating(d)
            BY <1>2, <3>2 DEF CrashWhileCreating, History
        <3>3. CASE \E n \in Logins : ClearOverride(n)
            BY <1>2, <3>3 DEF ClearOverride, History
        <3>4. ASSUME NEW m \in Logins, CheckInfo(m) \/ ListDrawings(m) PROVE UNCHANGED history \/ EndProcess
            BY <3>4, Zenon DEF CheckInfo, ListDrawings
        <3> QED
            BY <1>6, <3>1, <3>2, <3>3, <3>4 DEF Session, Login, Logout, SignOut, Crash
    <2>3. override'["info"] = override["info"] \/ override' = NoFiles
        <3>1. CASE Session
            BY <3>1 DEF Session, Login, Logout, SignOut, CheckInfo, SendNext, ListDrawings, ClearOverride, diskVars
        <3>2. CASE Crash
            BY <3>2 DEF Crash, diskVars
        <3>3. CASE \E d \in Drawings : CrashWhileCreating(d)
            BY <1>2, <3>3 DEF CrashWhileCreating, Folder
        <3> QED
            BY <3>1, <3>2, <3>3
    <2>4. \A d \in Drawings : override'["info"][d] # {} => override["info"][d] # {}
        BY <1>2, <2>3 DEF NoFiles, NoValues
    <2>5. \A d \in history.new : db'["info"][d] = {}
        BY <2>1 DEF NewInv
    <2> QED
        BY <1>1, <1>2, <1>3, <1>4, <2>1, <2>2, <2>4, <2>5, SameKnown
<1> QED
    BY <1>5, <1>6

\* Threads: a file is written or deleted by one thread only.
LEMMA WriteKnown ==
    ASSUME TypeOK, SkipInv, NewInv, KnownInv, NEW n \in Logins, Writing(n), WriteFile(n)
    PROVE  NewInv' /\ KnownInv'
<1> DEFINE t == threads[n]
<1>1. Targets[t.target] = "info" /\ UNCHANGED <<db, hashes, override, uploads, history>> /\ t.at = "writing"
    BY DEF WriteFile, Writing, Busy
<1>2. t \in Thread /\ t.hashes \in Values /\ t.todo \subseteq Drawings /\ cache \in Folder /\ "info" \in Kinds
    BY TargetTypes DEF TypeOK, Kinds
<1>3. PICK e \in t.todo :
        /\ cache' = IF t.hashes[e] = t.objs[e] THEN cache ELSE [cache EXCEPT !["info"][e] = t.objs[e]]
        /\ threads' = [threads EXCEPT ![n].todo = @ \ {e}, ![n].hashes[e] = t.objs[e]]
    BY <1>1 DEF WriteFile
<1>4. /\ \A m \in Logins \ {n} : threads'[m] = threads[m]
      /\ threads'[n].at = "writing" /\ threads'[n].objs = t.objs /\ threads'[n].target = t.target
      /\ threads'[n].hashes = [t.hashes EXCEPT ![e] = t.objs[e]]
    BY <1>1, <1>2, <1>3 DEF TypeOK, Thread
<1>5. \A m \in Logins : (Busy(m, "info")' <=> Busy(m, "info")) /\ (Writing(m)' <=> Writing(m))
    BY <1>1, <1>4 DEF Busy, Writing
<1>6. /\ \A d \in Drawings : d # e => cache'["info"][d] = cache["info"][d]
      /\ cache'["info"][e] = IF t.hashes[e] = t.objs[e] THEN cache["info"][e] ELSE t.objs[e]
    BY <1>2, <1>3 DEF Folder, Values
<1>7. ASSUME NEW d \in history'.new
      PROVE  /\ db'["info"][d] = {} /\ hashes'["info"][d] = {} /\ Nowhere(d)'
             /\ \A m \in Logins : Busy(m, "info")' => threads'[m].hashes[d] = {}
             /\ \A m \in Logins : Writing(m)' => threads'[m].objs[d] = {}
    <2>1. /\ d \in Drawings
          /\ db["info"][d] = {} /\ hashes["info"][d] = {} /\ Nowhere(d)
          /\ \A m \in Logins : Busy(m, "info") => threads[m].hashes[d] = {}
          /\ \A m \in Logins : Writing(m) => threads[m].objs[d] = {}
        BY <1>1 DEF NewInv, TypeOK, History
    <2>2. cache'["info"][d] = {}
        BY <1>6, <2>1 DEF Nowhere
    <2>3. threads'[n].hashes[d] = {}
        BY <1>2, <1>4, <2>1 DEF Writing, Values
    <2> QED
        BY <1>1, <1>4, <1>5, <2>1, <2>2, <2>3 DEF Nowhere
<1>8. ASSUME NEW d \in Drawings, d \notin history.begun, <<"info", d>> \notin history.doubtful PROVE KnownOK(d)'
    <2>1. KnownOK(d) /\ CopyOK("info", d)
        BY <1>2, <1>8 DEF KnownInv, SkipInv
    <2>2. Writes(n, "info", d)
        BY <1>1, <2>1 DEF CopyOK, Copies, Writing
    <2>3. CASE d = e
        <3>1. t.objs[d] # {} /\ cache'["info"][d] # {}
            BY <1>6, <2>2, <2>3 DEF Writes
        <3>2. \A m \in Logins : Writing(m)' => m = n
            BY <1>5, <2>1 DEF CopyOK, Writing
        <3> QED
            BY <1>4, <3>1, <3>2 DEF KnownOK, Cached
    <2>4. CASE d # e
        <3>1. cache'["info"][d] = cache["info"][d]
            BY <1>6, <2>4
        <3>2. \A m \in Logins : threads'[m].objs = threads[m].objs
            BY <1>4
        <3>3. (Nowhere(d)' <=> Nowhere(d)) /\ (Cached(d)' <=> Cached(d))
            BY <1>1, <3>1 DEF Nowhere, Cached
        <3> QED
            BY <1>1, <1>5, <2>1, <3>2, <3>3 DEF KnownOK
    <2> QED
        BY <2>3, <2>4
<1> QED
    BY <1>1, <1>7, <1>8 DEF NewInv, KnownInv

LEMMA FinishKnown ==
    ASSUME TypeOK, SkipInv, NewInv, KnownInv, NEW n \in Logins, Writing(n), FinishTarget(n)
    PROVE  NewInv' /\ KnownInv'
<1> DEFINE t == threads[n]
           kept == {d \in Drawings : t.objs[d] # {}}
<1>1. Targets[t.target] = "info" /\ UNCHANGED <<db, override, uploads>> /\ t.at = "writing"
    BY DEF FinishTarget, Finish, Writing, Busy
<1>2. t \in Thread /\ t.target + 1 \in Nat \ {0} /\ t.hashes \in Values /\ cache \in Folder /\ hashes \in Folder /\ "info" \in Kinds
    BY TargetTypes DEF TypeOK, Kinds
<1>3. /\ cache' = [cache EXCEPT !["info"] = [d \in Drawings |-> IF d \in kept THEN @[d] ELSE {}]]
      /\ hashes' = [hashes EXCEPT !["info"] = t.hashes] /\ Turn(n, t.target + 1, hashes')
    BY <1>1 DEF FinishTarget, Finish
<1>4. history'.new = history.new /\ history'.begun = history.begun /\ history.doubtful \subseteq history'.doubtful
    BY DEF FinishTarget, Finish, TypeOK, History
<1>5. /\ \A d \in Drawings : cache'["info"][d] = IF t.objs[d] # {} THEN cache["info"][d] ELSE {}
      /\ hashes'["info"] = t.hashes /\ hashes' \in Folder
    BY <1>2, <1>3 DEF Folder
<1>6. \A m \in Logins \ {n} : threads'[m] = threads[m] /\ (Busy(m, "info")' <=> Busy(m, "info"))
    BY <1>3 DEF Turn, Busy
<1>7. ASSUME Busy(n, "info")' PROVE threads'[n].at = "reading" /\ threads'[n].hashes = t.hashes
    <2>1. PICK i \in Nat \ {0}, h \in Folder : i = t.target + 1 /\ h = hashes'
        BY <1>2, <1>5
    <2>2. Turn(n, i, h)
        BY <1>3, <2>1
    <2>3. threads'[n].at = "reading" /\ threads'[n].hashes = h["info"]
        BY <1>2, <1>7, <2>2, TurnBusy
    <2> QED
        BY <1>5, <2>1, <2>3
<1>8. ASSUME NEW d \in history'.new
      PROVE  /\ db'["info"][d] = {} /\ hashes'["info"][d] = {} /\ Nowhere(d)'
             /\ \A m \in Logins : Busy(m, "info")' => threads'[m].hashes[d] = {}
             /\ \A m \in Logins : Writing(m)' => threads'[m].objs[d] = {}
    <2>1. /\ d \in Drawings
          /\ db["info"][d] = {} /\ hashes["info"][d] = {} /\ Nowhere(d)
          /\ \A m \in Logins : Busy(m, "info") => threads[m].hashes[d] = {}
          /\ \A m \in Logins : Writing(m) => threads[m].objs[d] = {}
        BY <1>4 DEF NewInv, TypeOK, History
    <2>2. Nowhere(d)'
        BY <1>1, <1>5, <2>1 DEF Nowhere
    <2>3. t.hashes[d] = {}
        BY <2>1 DEF Writing
    <2> QED
        BY <1>1, <1>5, <1>6, <1>7, <2>1, <2>2, <2>3 DEF Writing
<1>9. ASSUME NEW d \in Drawings, d \notin history'.begun, <<"info", d>> \notin history'.doubtful PROVE KnownOK(d)'
    <2>1. KnownOK(d) /\ CopyOK("info", d)
        BY <1>2, <1>4, <1>9 DEF KnownInv, SkipInv
    <2>2. \A m \in Logins : ~Writing(m)'
        BY <1>6, <1>7, <2>1 DEF CopyOK, Writing
    <2>3. t.objs[d] = {} => db["info"][d] = {} \/ Nowhere(d)
        BY <2>1 DEF KnownOK
    <2>4. override["info"][d] # {} => Cached(d)'
        BY <1>1, <1>5, <2>1, <2>3 DEF KnownOK, Cached, Nowhere
    <2>5. \A m \in Logins : uploads[m].files["info"][d] # {} => uploads[m].seen[d] # {} \/ Cached(d)'
        BY <1>1, <1>5, <2>1, <2>3 DEF KnownOK, Cached, Nowhere
    <2> QED
        BY <1>1, <2>2, <2>4, <2>5 DEF KnownOK
<1> QED
    BY <1>8, <1>9 DEF NewInv, KnownInv

LEMMA ThreadKnown ==
    ASSUME TypeOK, SkipInv, NewInv, KnownInv, NEW n \in Logins, ThreadStep(n)
    PROVE  NewInv' /\ KnownInv'
<1> DEFINE t == threads[n]
<1>1. UNCHANGED <<db, override, uploads>>
    BY DEF ThreadStep, StartThread, EndThread, StartPass, Once, WriteFile, FinishTarget, Finish, FailDownload, FailPass,
           OnlyThreads, diskVars
<1>2. /\ history \in History /\ history.new \subseteq Drawings /\ t \in Thread /\ threads \in [Logins -> Thread]
      /\ cache \in Folder /\ hashes \in Folder /\ "info" \in Kinds /\ t.target + 1 \in Nat \ {0}
    BY TargetTypes DEF TypeOK, History, Kinds
<1>3. \A m \in Logins \ {n} : threads'[m] = threads[m]
    BY <1>2 DEF ThreadStep, StartThread, EndThread, StartPass, Once, WriteFile, FinishTarget, Finish, Turn, FailDownload,
                FailPass
<1>4. ASSUME cache'["info"] = cache["info"], hashes'["info"] = hashes["info"],
             history'.new = history.new, history'.begun = history.begun, history.doubtful \subseteq history'.doubtful,
             \/ ~Busy(n, "info")'
             \/ threads'[n].at = "reading" /\ threads'[n].hashes = hashes["info"]
             \/ /\ Busy(n, "info") /\ threads'[n].hashes = threads[n].hashes
                /\ threads'[n].objs = db["info"] /\ db' = db
      PROVE  NewInv' /\ KnownInv'
    BY <1>1, <1>2, <1>3, <1>4, SameKnown
<1>5. CASE StartThread(n) \/ EndThread(n) \/ FailDownload(n) \/ FailPass(n)
    <2>1. UNCHANGED <<cache, hashes, history>>
        BY <1>5 DEF StartThread, EndThread, FailDownload, FailPass, OnlyThreads, diskVars
    <2>2. threads'[n].at \in {"first", "ended", "top"}
        <3>1. CASE StartThread(n)
            BY <1>2, <3>1 DEF StartThread, Thread
        <3>2. CASE EndThread(n) \/ FailPass(n)
            BY <1>2, <3>2 DEF EndThread, FailPass, AtTop, NoThread
        <3>3. CASE FailDownload(n)
            BY <1>2, <3>3 DEF FailDownload, Thread
        <3> QED
            BY <1>5, <3>1, <3>2, <3>3
    <2> QED
        BY <1>4, <2>1, <2>2 DEF Busy
<1>6. CASE StartPass(n)
    <2>1. /\ UNCHANGED <<cache, hashes>> /\ Turn(n, 1, hashes)
          /\ history' = [history EXCEPT !.doubtful = @ \cup Clash(n, 1)]
        BY <1>6 DEF StartPass, OnlyThreads, diskVars
    <2>2. history'.new = history.new /\ history'.begun = history.begun /\ history.doubtful \subseteq history'.doubtful
        BY <1>2, <2>1 DEF History
    <2> QED
        BY <1>2, <1>4, <2>1, <2>2, TurnBusy
<1>7. CASE Once(n)
    <2>0. PICK k \in Kinds : k = Targets[t.target]
        BY TargetTypes
    <2>1. UNCHANGED <<cache, hashes>> /\ t.at = "reading"
        BY <1>7 DEF Once, OnlyThreads, diskVars
    <2>2. CASE db[k] = NoValues
        <3>1. /\ Turn(n, t.target + 1, hashes)
              /\ history' = [history EXCEPT !.doubtful = @ \cup Clash(n, t.target + 1)]
            BY <1>7, <2>0, <2>2 DEF Once
        <3>2. history'.new = history.new /\ history'.begun = history.begun /\ history.doubtful \subseteq history'.doubtful
            BY <1>2, <3>1 DEF History
        <3> QED
            BY <1>2, <1>4, <2>1, <3>1, <3>2, TurnBusy
    <2>3. CASE db[k] # NoValues
        <3>1. /\ threads' = [threads EXCEPT ![n].at = "writing", ![n].objs = db[k],
                                        ![n].todo = {d \in Drawings : db[k][d] # {}}]
              /\ UNCHANGED history
            BY <1>7, <2>0, <2>3 DEF Once
        <3>2. /\ threads'[n].objs = db[k] /\ threads'[n].hashes = t.hashes /\ threads'[n].target = t.target
            BY <1>2, <3>1 DEF Thread
        <3>3. CASE k = "info"
            BY <1>1, <1>4, <2>0, <2>1, <3>1, <3>2, <3>3 DEF Busy
        <3>4. CASE k # "info"
            BY <1>4, <2>0, <2>1, <3>1, <3>2, <3>4 DEF Busy
        <3> QED
            BY <3>3, <3>4
    <2> QED
        BY <2>2, <2>3
<1>8. CASE WriteFile(n)
    <2>0. PICK k \in Kinds : k = Targets[t.target]
        BY TargetTypes
    <2>1. CASE k = "info"
        BY <1>8, <2>0, <2>1, WriteKnown DEF Writing, Busy, WriteFile
    <2>2. CASE k # "info"
        <3>1. PICK d \in t.todo :
                /\ cache' = IF t.hashes[d] = t.objs[d] THEN cache ELSE [cache EXCEPT ![k][d] = t.objs[d]]
                /\ threads' = [threads EXCEPT ![n].todo = @ \ {d}, ![n].hashes[d] = t.objs[d]]
            BY <1>8, <2>0 DEF WriteFile
        <3>2. cache'["info"] = cache["info"] /\ threads'[n].target = t.target /\ UNCHANGED <<hashes, history>>
            BY <1>2, <1>8, <2>2, <3>1 DEF WriteFile, Folder, Thread
        <3> QED
            BY <1>4, <2>0, <2>2, <3>2 DEF Busy
    <2> QED
        BY <2>1, <2>2
<1>9. CASE FinishTarget(n)
    <2>0. PICK k \in Kinds : k = Targets[t.target]
        BY TargetTypes
    <2>1. CASE k = "info"
        BY <1>9, <2>0, <2>1, FinishKnown DEF Writing, Busy, FinishTarget, Finish
    <2>2. CASE k # "info"
        <3>1. /\ cache'["info"] = cache["info"] /\ hashes'["info"] = hashes["info"]
              /\ hashes' = [hashes EXCEPT ![k] = t.hashes] /\ Turn(n, t.target + 1, hashes')
            BY <1>2, <1>9, <2>0, <2>2 DEF FinishTarget, Finish, Folder
        <3>2. hashes' \in Folder
            BY <1>2, <3>1, TargetTypes DEF Folder
        <3>3. history'.new = history.new /\ history'.begun = history.begun /\ history.doubtful \subseteq history'.doubtful
            BY <1>2, <1>9 DEF FinishTarget, Finish, History
        <3>4. PICK i \in Nat \ {0}, h \in Folder : i = t.target + 1 /\ h = hashes'
            BY <1>2, <3>2
        <3>5. Turn(n, i, h)
            BY <3>1, <3>4
        <3>6. Busy(n, "info")' => threads'[n].at = "reading" /\ threads'[n].hashes = h["info"]
            BY <1>2, <3>5, TurnBusy
        <3> QED
            BY <1>4, <3>1, <3>3, <3>4, <3>6
    <2> QED
        BY <2>1, <2>2
<1> QED
    BY <1>5, <1>6, <1>7, <1>8, <1>9 DEF ThreadStep

\* Only an id that is new gets an info, and not offline.
LEMMA OthersKnown ==
    ASSUME TypeOK, NewInv, KnownInv, Others
    PROVE  NewInv' /\ KnownInv'
<1>1. PICK e \in Drawings : OnlineCreate(e) \/ OnlineDraw(e) \/ OnlineSave(e) \/ OnlineDelete(e)
    BY DEF Others
<1>2. UNCHANGED <<cache, hashes, override, uploads, threads>>
    BY <1>1 DEF OnlineCreate, OnlineDraw, OnlineSave, OnlineDelete, Online, diskVars, taskVars
<1>3. history \in History /\ history.new \subseteq Drawings /\ db \in Folder /\ "info" \in Kinds
    BY DEF TypeOK, History, Kinds
<1>4. \A d \in history.new : override'["info"][d] = {}
    BY <1>2 DEF NewInv, Nowhere
<1>5. CASE OnlineCreate(e)
    <2>1. /\ e \in history.new /\ history' = [history EXCEPT !.new = @ \ {e}]
          /\ db' = [db EXCEPT !["drawings"][e] = {clock'}, !["info"][e] = {clock'}]
        BY <1>5 DEF OnlineCreate, NewId
    <2>2. history'.new = history.new \ {e} /\ history'.begun = history.begun /\ history'.doubtful = history.doubtful
        BY <1>3, <2>1 DEF History
    <2>3. \A d \in Drawings : d # e => db'["info"][d] = db["info"][d]
        BY <1>3, <2>1 DEF Folder, Values
    <2> QED
        BY <1>2, <1>3, <1>4, <2>1, <2>2, <2>3, SameKnown
<1>6. CASE OnlineDraw(e) \/ OnlineSave(e) \/ OnlineDelete(e)
    <2>1. UNCHANGED history
        BY <1>6 DEF OnlineDraw, OnlineSave, OnlineDelete
    <2>2. \A d \in Drawings : db'["info"][d] # {} => db["info"][d] # {}
        <3>1. CASE OnlineDraw(e)
            BY <1>3, <3>1 DEF OnlineDraw, Folder, Values
        <3>2. CASE OnlineSave(e)
            BY <1>3, <3>2 DEF OnlineSave, Folder, Values
        <3>3. CASE OnlineDelete(e)
            BY <1>3, <3>3 DEF OnlineDelete, Folder, Values
        <3> QED
            BY <1>6, <3>1, <3>2, <3>3
    <2> QED
        BY <1>2, <1>3, <1>4, <2>1, <2>2, SameKnown
<1> QED
    BY <1>1, <1>5, <1>6

LEMMA StepKnown == TypeOK /\ Shape /\ SkipInv /\ NewInv /\ KnownInv /\ [Next]_vars => NewInv' /\ KnownInv'
<1> SUFFICES ASSUME TypeOK, Shape, SkipInv, NewInv, KnownInv, [Next]_vars PROVE NewInv' /\ KnownInv'
    OBVIOUS
<1>1. CASE Offline
    BY <1>1, OfflineKnown, LoopKnown
<1>2. CASE Session
    BY <1>2, SessionKnown
<1>3. CASE Sync
    BY <1>3, ThreadKnown DEF Sync, ThreadStep
<1>4. CASE Others
    BY <1>4, OthersKnown
<1>5. CASE Failures
    BY <1>5, OfflineKnown, LoopKnown, SessionKnown, ThreadKnown DEF Failures, ThreadStep, Loop
<1>6. CASE UNCHANGED vars
    <2>1. UNCHANGED <<db, cache, hashes, override, uploads, threads, history>> /\ history.new \subseteq Drawings
        BY <1>6 DEF vars, diskVars, taskVars, TypeOK, History
    <2> QED
        BY <2>1, SameKnown
<1> QED
    BY <1>1, <1>2, <1>3, <1>4, <1>5, <1>6 DEF Next

-----------------------------------------------------------------------------
(* What an upload discards *)

\* What there is to send of d.
Given(n, d) == {k \in Kinds : uploads[n].files[k][d] # {}}

\* An upload sends only overrides, of a drawing whose info was the cached one, or missing.
SendOK(n) ==
    LET u == uploads[n] IN
    u.id # None => u.online \in {{}, u.seen[u.id]} /\ u.left \in Seq(Given(n, u.id))

LEMMA GivenOnly == ASSUME NEW n \in Logins, NEW d PROVE ToSend(n, d) \in Seq(Given(n, d))
<1> DEFINE File(k) == IF uploads[n].files[k][d] # {} THEN <<k>> ELSE <<>>
           a == File("drawings")
           b == File("strokes")
           c == File("info")
<1>1. ASSUME NEW k \in Kinds PROVE File(k) \in Seq(Given(n, d))
    <2>1. CASE uploads[n].files[k][d] # {}
        <3>1. k \in Given(n, d)
            BY <2>1 DEF Given
        <3> QED
            BY <2>1, <3>1
    <2>2. CASE uploads[n].files[k][d] = {}
        BY <2>2
    <2> QED
        BY <2>1, <2>2
<1>2. a \in Seq(Given(n, d)) /\ b \in Seq(Given(n, d)) /\ c \in Seq(Given(n, d))
    BY <1>1 DEF Kinds
<1>3. ToSend(n, d) = a \o b \o c
    BY DEF ToSend
<1> HIDE DEF a, b, c
<1> QED
    BY <1>2, <1>3

LEMMA SendInit == Init => \A n \in Logins : SendOK(n)
BY DEF Init, SendOK, NoUpload

LEMMA SendStep ==
    ASSUME TypeOK, Shape, \A n \in Logins : SendOK(n),
           Session \/ Crash \/ (\E d \in Drawings : CrashWhileCreating(d))
    PROVE  \A n \in Logins : SendOK(n)'
<1>0. uploads \in [Logins -> Upload]
    BY DEF TypeOK
<1>1. ASSUME NEW m \in Logins, \A n \in Logins \ {m} : uploads'[n] = uploads[n], uploads'[m].id # None => SendOK(m)'
      PROVE  \A n \in Logins : SendOK(n)'
    <2>1. ASSUME NEW n \in Logins \ {m} PROVE SendOK(n)'
        <3>1. uploads'[n] = uploads[n] /\ Given(n, uploads[n].id)' = Given(n, uploads[n].id) /\ SendOK(n)
            BY <1>1 DEF Given
        <3> QED
            BY <3>1 DEF SendOK
    <2>2. CASE uploads'[m].id = None
        BY <2>1, <2>2 DEF SendOK
    <2> QED
        BY <1>1, <2>1, <2>2
<1>2. CASE StopProcess
    <2>1. \A n \in Logins : uploads'[n] = uploads[n] \/ uploads'[n].id = None
        BY <2>1, <1>2 DEF StopProcess, NoUpload
    <2> QED
        BY <2>1 DEF SendOK, Given
<1>3. CASE Login
    <2>1. PICK m : uploads' = [uploads EXCEPT ![m] = [NoUpload EXCEPT
            !.at = "uploading", !.files = override, !.seen = hashes["info"],
            !.todo = {d \in Drawings : override["info"][d] # {}}]]
        BY <1>3 DEF Login
    <2>2. \A n \in Logins : uploads'[n] = uploads[n] \/ uploads'[n].id = None
        BY <1>0, <2>1 DEF NoUpload
    <2> QED
        BY <2>2 DEF SendOK, Given
<1>4. ASSUME NEW m \in Logins, CheckInfo(m), ~StopProcess PROVE \A n \in Logins : SendOK(n)'
    <2> DEFINE u == uploads[m]
    <2>1. PICK d \in u.todo :
            \/ EndProcess
            \/ Unchanged(m, d) /\ uploads' = [uploads EXCEPT ![m] =
                    [u EXCEPT !.todo = u.todo \ {d}, !.id = d, !.left = ToSend(m, d), !.online = db["info"][d]]]
            \/ uploads' = [uploads EXCEPT ![m] =
                    [u EXCEPT !.todo = u.todo \ {d}, !.conflicts = u.conflicts \cup {d}]]
        BY <1>4, Zenon DEF CheckInfo
    <2>2. u.id = None
        BY <1>4 DEF CheckInfo
    <2>3. CASE Unchanged(m, d) /\ uploads' = [uploads EXCEPT ![m] =
                    [u EXCEPT !.todo = u.todo \ {d}, !.id = d, !.left = ToSend(m, d), !.online = db["info"][d]]]
        <3>1. /\ uploads'[m].id = d /\ uploads'[m].left = ToSend(m, d) /\ uploads'[m].online = db["info"][d]
              /\ uploads'[m].files = u.files /\ uploads'[m].seen = u.seen
              /\ \A n \in Logins \ {m} : uploads'[n] = uploads[n]
            BY <1>0, <2>3 DEF Upload
        <3>2. db["info"][d] \in {{}, u.seen[d]}
            BY <2>3 DEF Unchanged
        <3>3. Given(m, d)' = Given(m, d)
            BY <3>1 DEF Given
        <3>4. SendOK(m)'
            BY <3>1, <3>2, <3>3, GivenOnly DEF SendOK
        <3> QED
            BY <1>1, <3>1, <3>4
    <2>4. CASE uploads' = [uploads EXCEPT ![m] =
                    [u EXCEPT !.todo = u.todo \ {d}, !.conflicts = u.conflicts \cup {d}]]
        <3>1. uploads'[m].id = None /\ \A n \in Logins \ {m} : uploads'[n] = uploads[n]
            BY <1>0, <2>2, <2>4 DEF Upload
        <3> QED
            BY <1>1, <3>1
    <2> QED
        BY <1>4, <2>1, <2>3, <2>4 DEF EndProcess
<1>5. ASSUME NEW m \in Logins, SendNext(m) PROVE \A n \in Logins : SendOK(n)'
    <2> DEFINE u == uploads[m]
    <2>1. /\ uploads'[m].id \in {None, u.id} /\ uploads'[m].left = Tail(u.left) /\ uploads'[m].online = u.online
          /\ uploads'[m].files = u.files /\ uploads'[m].seen = u.seen
          /\ \A n \in Logins \ {m} : uploads'[n] = uploads[n]
        BY <1>0, <1>5 DEF SendNext, Upload
    <2>2. u.id # None /\ u.left # <<>> /\ u.left \in Seq(Given(m, u.id)) /\ u.online \in {{}, u.seen[u.id]}
        BY <1>5 DEF SendNext, Shape, UploadOK, SendOK
    <2>3. Tail(u.left) \in Seq(Given(m, u.id))
        BY <2>2, HeadTailProperties
    <2>4. Given(m, u.id)' = Given(m, u.id) \/ uploads'[m].id = None
        BY <2>1 DEF Given
    <2>5. uploads'[m].id # None => SendOK(m)'
        <3>1. ASSUME uploads'[m].id # None PROVE SendOK(m)'
            <4>1. uploads'[m].id = u.id
                BY <2>1, <3>1
            <4>2. Given(m, uploads[m].id)' = Given(m, u.id)
                BY <2>1, <4>1 DEF Given
            <4> QED
                BY <2>1, <2>2, <2>3, <4>1, <4>2 DEF SendOK
        <3> QED
            BY <3>1
    <2> QED
        BY <1>1, <2>1, <2>5
<1>6. ASSUME NEW m \in Logins, ListDrawings(m), ~StopProcess PROVE \A n \in Logins : SendOK(n)'
    <2>1. uploads' = [uploads EXCEPT ![m].at = "listing"] /\ uploads[m].id = None
        BY <1>6 DEF ListDrawings, EndProcess
    <2>2. uploads'[m].id = None /\ \A n \in Logins \ {m} : uploads'[n] = uploads[n]
        BY <1>0, <2>1 DEF Upload
    <2> QED
        BY <1>1, <2>2
<1>7. ASSUME NEW m \in Logins, ClearOverride(m) PROVE \A n \in Logins : SendOK(n)'
    <2>1. uploads'[m].id = None /\ \A n \in Logins \ {m} : uploads'[n] = uploads[n]
        BY <1>0, <1>7 DEF ClearOverride, NoUpload
    <2> QED
        BY <1>1, <2>1
<1>8. CASE Logout
    BY <1>8 DEF Logout, SignOut, SendOK, Given
<1> QED
    BY <1>2, <1>3, <1>4, <1>5, <1>6, <1>7, <1>8 DEF Session, Crash, CrashWhileCreating, EndProcess

\* The strokes of d that are in the database and not in the file are newer than the info.
Full(d, file, info) == \A e \in db["strokes"][d] \ file : ~Announced(info, e)

\* What was read of d offline, and what is written of it, has the strokes that the info
\* of that time announced.
FullOK(d) ==
    /\ override["strokes"][d] # {} => Full(d, override["strokes"][d], hashes["info"][d])
    /\ \A v \in Visits : pages[v].drawing = d =>
            /\ Full(d, pages[v].shown, hashes["info"][d])
            /\ pages[v].writer = "writing" => Full(d, pages[v].file, hashes["info"][d])
    /\ \A n \in Logins : uploads[n].files["strokes"][d] # {} =>
            Full(d, uploads[n].files["strokes"][d], uploads[n].seen[d])

FullInv == \A d \in Drawings : d \in history.torn \/ FullOK(d)

LEMMA FullInit == Init => FullInv
<1> SUFFICES ASSUME Init PROVE FullInv
    OBVIOUS
<1>1. /\ override = NoFiles /\ pages = [v \in Visits |-> NoPage] /\ uploads = [n \in Logins |-> NoUpload]
    BY DEF Init
<1>2. \A d \in Drawings : override["strokes"][d] = {}
    BY <1>1 DEF NoFiles, NoValues, Kinds
<1>3. \A n \in Logins : \A d \in Drawings : uploads[n].files["strokes"][d] = {}
    BY <1>1 DEF NoUpload, NoFiles, NoValues, Kinds
<1>4. \A v \in Visits : pages[v].drawing = None
    BY <1>1 DEF NoPage
<1> QED
    BY <1>2, <1>3, <1>4, DrawingsAssumption DEF FullInv, FullOK

\* Files are written from pages, and come to uploads with the hash of the info; strokes
\* that are new in the database were not announced.
LEMMA SameFull ==
    ASSUME NEW d \in Drawings, FullOK(d), hashes'["info"][d] = hashes["info"][d],
           \A e \in db'["strokes"][d] \ db["strokes"][d] :
                /\ ~Announced(hashes["info"][d], e)
                /\ \A n \in Logins : ~Announced(uploads[n].seen[d], e),
           \/ override'["strokes"][d] \in {override["strokes"][d], {}}
           \/ \E v \in Visits : /\ pages[v].drawing = d /\ pages[v].writer = "writing"
                               /\ override'["strokes"][d] = pages[v].file,
           \A v \in Visits : pages'[v].drawing = d =>
                \/ /\ pages[v].drawing = d /\ pages[v].shown \subseteq pages'[v].shown
                   /\ pages'[v].writer = "writing" =>
                        \/ pages[v].writer = "writing" /\ pages'[v].file = pages[v].file
                        \/ pages'[v].file = pages[v].shown
                \/ Full(d, pages'[v].shown, hashes["info"][d]) /\ pages'[v].writer # "writing",
           \A n \in Logins : uploads'[n].files["strokes"][d] # {} =>
                \/ uploads'[n].files = uploads[n].files /\ uploads'[n].seen = uploads[n].seen
                \/ uploads'[n].files = override /\ uploads'[n].seen = hashes["info"]
    PROVE  FullOK(d)'
<1>1. override'["strokes"][d] # {} => Full(d, override["strokes"][d], hashes["info"][d])'
    BY DEF FullOK, Full
<1>2. ASSUME NEW v \in Visits, pages'[v].drawing = d
      PROVE  /\ Full(d, pages[v].shown, hashes["info"][d])'
             /\ pages'[v].writer = "writing" => Full(d, pages[v].file, hashes["info"][d])'
    BY <1>2 DEF FullOK, Full
<1>3. ASSUME NEW n \in Logins, uploads'[n].files["strokes"][d] # {}
      PROVE  Full(d, uploads[n].files["strokes"][d], uploads[n].seen[d])'
    <2>1. CASE uploads'[n].files = uploads[n].files /\ uploads'[n].seen = uploads[n].seen
        BY <1>3, <2>1 DEF FullOK, Full
    <2>2. CASE uploads'[n].files = override /\ uploads'[n].seen = hashes["info"]
        BY <1>3, <2>2 DEF FullOK, Full
    <2> QED
        BY <1>3, <2>1, <2>2
<1> QED
    BY <1>1, <1>2, <1>3 DEF FullOK

\* A page that is opened: one that lacks announced strokes makes the drawing torn.
LEMMA VisitFull ==
    ASSUME TypeOK, NewInv, FullInv, NEW e \in Drawings, CreateDrawing(e) \/ GetDrawing(e)
    PROVE  FullInv'
<1>1. UNCHANGED <<db, hashes, uploads>> /\ override \in Folder /\ history \in History
    BY DEF CreateDrawing, GetDrawing, diskVars, taskVars, TypeOK
<1>2. override'["strokes"] = override["strokes"]
    BY <1>1 DEF CreateDrawing, GetDrawing, diskVars, Folder, Kinds
<1>3. history.torn \subseteq history'.torn
    BY <1>1 DEF CreateDrawing, NewId, GetDrawing, History
<1>4. PICK s : Visit(e, s) /\ (e \in history'.torn \/ Full(e, s, hashes["info"][e]))
    <2>1. CASE CreateDrawing(e)
        <3>1. hashes["info"][e] = {} /\ Visit(e, {})
            BY <2>1 DEF CreateDrawing, NewId, NewInv
        <3>2. Full(e, {}, hashes["info"][e])
            BY <3>1 DEF Full, Announced
        <3> QED
            BY <3>1, <3>2
    <2>2. CASE GetDrawing(e)
        <3>1. /\ Visit(e, Get("strokes", e))
              /\ history' = [history EXCEPT !.torn = IF Behind(e) THEN @ \cup {e} ELSE @]
            BY <2>2 DEF GetDrawing
        <3>2. Behind(e) => e \in history'.torn
            BY <1>1, <3>1 DEF History
        <3>3. ~Behind(e) => Full(e, Get("strokes", e), hashes["info"][e])
            BY DEF Behind, Full
        <3> QED
            BY <3>1, <3>2, <3>3
    <2> QED
        BY <2>1, <2>2
<1>5. \A v \in Visits : pages'[v] = pages[v] \/ (pages'[v].drawing = e /\ pages'[v].shown = s /\ pages'[v].writer = "idle")
    BY <1>4 DEF Visit, TypeOK, NoPage
<1>6. ASSUME NEW d \in Drawings, d \notin history'.torn PROVE FullOK(d)'
    <2>1. FullOK(d)
        BY <1>3, <1>6 DEF FullInv
    <2>2. \A v \in Visits : pages'[v].drawing = d =>
                \/ pages'[v] = pages[v]
                \/ Full(d, pages'[v].shown, hashes["info"][d]) /\ pages'[v].writer # "writing"
        BY <1>4, <1>5, <1>6
    <2> QED
        BY <1>1, <1>2, <2>1, <2>2, SameFull
<1> QED
    BY <1>6 DEF FullInv

\* Pages and writers; a PATCH marks what it sends too late.
LEMMA OfflineFull ==
    ASSUME TypeOK, FullInv, NEW v \in Visits,
           \/ UpdateStroke(v) \/ SaveDimensions(v) \/ SaveDrawingPreview(v) \/ TakeUpdates(v)
           \/ WriteStrokes(v) \/ PatchStrokes(v) \/ FailPatch(v)
    PROVE  FullInv'
<1>1. UNCHANGED <<hashes, uploads>>
    BY DEF UpdateStroke, SaveDimensions, SaveDrawingPreview, Leave, TakeUpdates, WriteStrokes, FileStrokes, PatchStrokes,
           FailPatch, diskVars, taskVars
<1>2. /\ override \in Folder /\ db \in Folder /\ history \in History /\ pages \in [Visits -> Page]
      /\ NoPage.drawing = None
    BY DEF TypeOK, NoPage
<1>3. history.torn \subseteq history'.torn
    <2>1. CASE PatchStrokes(v)
        BY <1>2, <2>1 DEF PatchStrokes, History
    <2>2. CASE ~PatchStrokes(v)
        BY <1>2, <2>2 DEF UpdateStroke, SaveDimensions, SaveDrawingPreview, Leave, TakeUpdates, WriteStrokes, FileStrokes,
                          FailPatch, History
    <2> QED
        BY <2>1, <2>2
<1>4. \A w \in Visits : \/ pages'[w].drawing = None
                        \/ /\ pages'[w].drawing = pages[w].drawing /\ pages[w].shown \subseteq pages'[w].shown
                           /\ pages'[w].writer = "writing" =>
                                pages[w].writer = "writing" /\ pages'[w].file = pages[w].file
    <2>1. CASE UpdateStroke(v)
        BY <1>2, <2>1 DEF UpdateStroke, Page
    <2>2. CASE SaveDimensions(v)
        BY <2>2 DEF SaveDimensions
    <2>3. CASE SaveDrawingPreview(v)
        BY <1>2, <2>3 DEF SaveDrawingPreview, Leave, Page
    <2>4. CASE TakeUpdates(v)
        BY <1>2, <2>4 DEF TakeUpdates, Page
    <2>5. CASE WriteStrokes(v) \/ PatchStrokes(v) \/ FailPatch(v)
        BY <1>2, <2>5 DEF WriteStrokes, FileStrokes, PatchStrokes, FailPatch, Page
    <2> QED
        BY <2>1, <2>2, <2>3, <2>4, <2>5
<1>5. \A d \in Drawings : \/ override'["strokes"][d] = override["strokes"][d]
                          \/ /\ pages[v].drawing = d /\ pages[v].writer = "writing"
                             /\ override'["strokes"][d] = pages[v].file
    <2>1. CASE SaveDimensions(v)
        BY <1>2, <2>1 DEF SaveDimensions, Folder
    <2>2. CASE SaveDrawingPreview(v)
        BY <1>2, <2>2 DEF SaveDrawingPreview, Folder, Kinds
    <2>3. CASE WriteStrokes(v)
        <3>1. /\ override' = [override EXCEPT !["strokes"][pages[v].drawing] = pages[v].file]
              /\ pages[v].writer = "writing"
            BY <2>3 DEF WriteStrokes, FileStrokes
        <3> QED
            BY <1>2, <3>1 DEF Folder, Values, Kinds
    <2> QED
        BY <2>1, <2>2, <2>3 DEF UpdateStroke, TakeUpdates, PatchStrokes, FailPatch, diskVars
<1>6. ASSUME NEW d \in Drawings, d \notin history'.torn, NEW e \in db'["strokes"][d] \ db["strokes"][d]
      PROVE  ~Announced(hashes["info"][d], e) /\ \A n \in Logins : ~Announced(uploads[n].seen[d], e)
    <2>1. CASE PatchStrokes(v)
        <3> DEFINE p == pages[v].drawing
                   strokes == db["strokes"][p] \cup pages[v].pending
        <3>1. PICK R, D : /\ db' = [db EXCEPT !["strokes"][p] = strokes]
                          /\ history' = [history EXCEPT !.reached = R,
                                  !.torn = IF Late(p, strokes) THEN @ \cup {p} ELSE @, !.doubtful = D]
            BY <2>1 DEF PatchStrokes
        <3> HIDE DEF strokes
        <3>2. p = d /\ e \in strokes
            BY <1>2, <1>6, <3>1 DEF Folder, Values, Kinds
        <3>3. ~Late(d, strokes)
            BY <1>2, <1>6, <3>1, <3>2 DEF History
        <3> QED
            BY <1>6, <3>2, <3>3 DEF Late
    <2>2. CASE ~PatchStrokes(v)
        BY <1>6, <2>2 DEF UpdateStroke, SaveDimensions, SaveDrawingPreview, Leave, TakeUpdates, WriteStrokes,
                          FileStrokes, FailPatch
    <2> QED
        BY <2>1, <2>2
<1>7. ASSUME NEW d \in Drawings, d \notin history'.torn PROVE FullOK(d)'
    <2>1. FullOK(d) /\ d # None
        BY <1>3, <1>7, DrawingsAssumption DEF FullInv
    <2> QED
        BY <1>1, <1>4, <1>5, <1>6, <1>7, <2>1, SameFull
<1> QED
    BY <1>7 DEF FullInv

\* What a writer serialises is what its page shows.
LEMMA LoopFull ==
    ASSUME TypeOK, Shape, FullInv, NEW v \in Visits, Loop(v)
    PROVE  FullInv'
<1>1. UNCHANGED <<db, hashes, override, uploads>> /\ history'.torn = history.torn
    BY LoopFacts, LoopHistory DEF diskVars, taskVars
<1>2. PICK p \in Page :
        /\ pages' = [pages EXCEPT ![v] = p]
        /\ \/ p = NoPage
           \/ /\ p.drawing = pages[v].drawing /\ p.shown = pages[v].shown
              /\ p.writer = "writing" => p.file = pages[v].shown
    BY LoopFacts
<1>3. pages \in [Visits -> Page] /\ NoPage.drawing = None
    BY DEF TypeOK, NoPage
<1>4. ASSUME NEW d \in Drawings, d \notin history'.torn PROVE FullOK(d)'
    <2>1. FullOK(d) /\ d # None
        BY <1>1, <1>4, DrawingsAssumption DEF FullInv
    <2>2. \A w \in Visits : pages'[w].drawing = d =>
                /\ pages[w].drawing = d /\ pages[w].shown \subseteq pages'[w].shown
                /\ pages'[w].writer = "writing" =>
                        \/ pages[w].writer = "writing" /\ pages'[w].file = pages[w].file
                        \/ pages'[w].file = pages[w].shown
        BY <1>2, <1>3, <2>1
    <2> QED
        BY <1>1, <2>1, <2>2, SameFull
<1> QED
    BY <1>4 DEF FullInv


LEMMA SessionFull ==
    ASSUME TypeOK, Shape, FullInv, Session \/ Crash \/ (\E d \in Drawings : CrashWhileCreating(d))
    PROVE  FullInv'
<1>1. UNCHANGED hashes
    <2>1. CASE Session
        BY <2>1 DEF Session, Login, Logout, SignOut, CheckInfo, SendNext, ListDrawings, ClearOverride, diskVars
    <2>2. CASE Crash \/ \E d \in Drawings : CrashWhileCreating(d)
        BY <2>2 DEF Crash, CrashWhileCreating, diskVars
    <2> QED
        BY <2>1, <2>2
<1>2. override \in Folder /\ db \in Folder /\ history \in History /\ uploads \in [Logins -> Upload]
    BY DEF TypeOK
<1>3. \A v \in Visits : pages'[v] = pages[v] \/ pages'[v].drawing = None
    <2>1. CASE StopProcess
        BY <2>1 DEF StopProcess, NoPage
    <2>2. CASE UNCHANGED pages
        BY <2>2
    <2>3. ASSUME NEW n \in Logins, CheckInfo(n) \/ ListDrawings(n) PROVE UNCHANGED pages \/ StopProcess
        BY <2>3, Zenon DEF CheckInfo, ListDrawings, EndProcess
    <2> QED
        BY <2>1, <2>2, <2>3 DEF Session, Login, Logout, SignOut, SendNext, ClearOverride, Crash, CrashWhileCreating,
                                EndProcess
<1>4. override'["strokes"] = override["strokes"] \/ override' = NoFiles
    <2>1. CASE Session
        BY <2>1 DEF Session, Login, Logout, SignOut, CheckInfo, SendNext, ListDrawings, ClearOverride, diskVars
    <2>2. CASE Crash
        BY <2>2 DEF Crash, diskVars
    <2>3. CASE \E d \in Drawings : CrashWhileCreating(d)
        BY <1>2, <2>3 DEF CrashWhileCreating, Folder, Kinds
    <2> QED
        BY <2>1, <2>2, <2>3
<1>5. \A d \in Drawings : override'["strokes"][d] \in {override["strokes"][d], {}}
    BY <1>4 DEF NoFiles, NoValues, Kinds
<1>6. \A d \in Drawings : \A n \in Logins : uploads'[n].files["strokes"][d] # {} =>
        \/ uploads'[n].files = uploads[n].files /\ uploads'[n].seen = uploads[n].seen
        \/ uploads'[n].files = override /\ uploads'[n].seen = hashes["info"]
    <2>1. \A d \in Drawings : NoFiles["strokes"][d] = {}
        BY DEF NoFiles, NoValues, Kinds
    <2> QED
        BY <2>1, UploadFiles
<1>7. history.torn \subseteq history'.torn
    <2>1. CASE EndProcess
        BY <1>2, <2>1 DEF EndProcess, History
    <2>2. CASE \E d \in Drawings : CrashWhileCreating(d)
        BY <1>2, <2>2 DEF CrashWhileCreating, History
    <2>3. CASE \E n \in Logins : ClearOverride(n)
        BY <1>2, <2>3 DEF ClearOverride, History
    <2>4. CASE \E n \in Logins : SendNext(n)
        <3>1. PICK n \in Logins : SendNext(n)
            BY <2>4
        <3>2. PICK R, B, D, c : history' = [history EXCEPT !.reached = R, !.begun = B,
                                !.torn = IF c THEN @ \cup {uploads[n].id} ELSE @, !.doubtful = D]
            BY <3>1 DEF SendNext
        <3> QED
            BY <1>2, <3>2 DEF History
    <2>5. ASSUME NEW m \in Logins, CheckInfo(m) \/ ListDrawings(m) PROVE UNCHANGED history \/ EndProcess
        BY <2>5, Zenon DEF CheckInfo, ListDrawings
    <2> QED
        BY <2>1, <2>2, <2>3, <2>4, <2>5 DEF Session, Login, Logout, SignOut, Crash
<1>8. ASSUME NEW d \in Drawings, d \notin history'.torn, NEW e \in db'["strokes"][d] \ db["strokes"][d]
      PROVE  ~Announced(hashes["info"][d], e) /\ \A n \in Logins : ~Announced(uploads[n].seen[d], e)
    <2>1. PICK n \in Logins : SendNext(n)
        BY <1>8 DEF Session, Login, Logout, SignOut, CheckInfo, ListDrawings, ClearOverride, Crash, CrashWhileCreating
    <2> DEFINE u == uploads[n]
    <2>2. PICK k \in Kinds : k = Head(u.left)
        BY <1>2, <2>1, HeadTailProperties DEF SendNext, Shape, UploadOK, Upload
    <2> DEFINE value == u.files[k][u.id]
    <2>3. PICK R, B, D : /\ db' = [db EXCEPT ![k][u.id] = value]
                         /\ history' = [history EXCEPT !.reached = R, !.begun = B,
                                !.torn = IF k = "strokes" /\ Late(u.id, value) THEN @ \cup {u.id} ELSE @, !.doubtful = D]
        BY <2>1, <2>2 DEF SendNext
    <2> HIDE DEF value
    <2>4. k = "strokes" /\ u.id = d /\ e \in value
        BY <1>2, <1>8, <2>3 DEF Folder, Values, Kinds
    <2>5. ~Late(d, value)
        BY <1>2, <1>8, <2>3, <2>4 DEF History
    <2> QED
        BY <1>8, <2>4, <2>5 DEF Late
<1>9. ASSUME NEW d \in Drawings, d \notin history'.torn PROVE FullOK(d)'
    <2>1. FullOK(d) /\ d # None
        BY <1>7, <1>9, DrawingsAssumption DEF FullInv
    <2> QED
        BY <1>1, <1>3, <1>5, <1>6, <1>8, <1>9, <2>1, SameFull
<1> QED
    BY <1>9 DEF FullInv

\* Another info that is cached tears the drawings that are open or overridden.
LEMMA ThreadFull ==
    ASSUME TypeOK, FullInv, NEW n \in Logins, ThreadStep(n)
    PROVE  FullInv'
<1> DEFINE t == threads[n]
<1>1. UNCHANGED <<db, override, pages, uploads>>
    BY DEF ThreadStep, StartThread, EndThread, StartPass, Once, WriteFile, FinishTarget, Finish, FailDownload, FailPass,
           OnlyThreads, diskVars
<1>2. history \in History /\ hashes \in Folder
    BY DEF TypeOK
<1>3. history.torn \subseteq history'.torn
    BY <1>2 DEF ThreadStep, StartThread, EndThread, StartPass, Once, WriteFile, FinishTarget, Finish, FailDownload,
                FailPass, History
<1>4. ASSUME NEW d \in Drawings, d \notin history'.torn, hashes'["info"][d] = hashes["info"][d] PROVE FullOK(d)'
    <2>1. FullOK(d)
        BY <1>3, <1>4 DEF FullInv
    <2> QED
        BY <1>1, <1>4, <2>1, SameFull
<1>5. ASSUME NEW d \in Drawings, d \notin history'.torn, hashes'["info"][d] # hashes["info"][d] PROVE FullOK(d)'
    <2>1. FinishTarget(n)
        BY <1>5 DEF ThreadStep, StartThread, EndThread, StartPass, Once, WriteFile, FailDownload, FailPass, OnlyThreads,
                    diskVars
    <2>2. PICK k \in Kinds : k = Targets[t.target]
        BY TargetTypes
    <2>3. PICK D : /\ hashes' = [hashes EXCEPT ![k] = t.hashes]
                   /\ history' = [history EXCEPT
                        !.torn = @ \cup {i \in Drawings :
                            /\ k = "info" /\ t.hashes[i] # hashes[k][i]
                            /\ override["strokes"][i] # {} \/ \E v \in Visits : pages[v].drawing = i},
                        !.doubtful = D]
        BY <2>1, <2>2 DEF FinishTarget, Finish
    <2>4. k = "info" /\ t.hashes[d] # hashes[k][d]
        BY <1>2, <1>5, <2>3 DEF Folder, Kinds
    <2>5. override["strokes"][d] = {} /\ \A v \in Visits : pages[v].drawing # d
        BY <1>2, <1>5, <2>3, <2>4 DEF History
    <2>6. FullOK(d)
        BY <1>3, <1>5 DEF FullInv
    <2> QED
        BY <1>1, <2>5, <2>6 DEF FullOK, Full
<1> QED
    BY <1>4, <1>5 DEF FullInv

\* A new stroke is newer than every info.
LEMMA OthersFull ==
    ASSUME TypeOK, AllPast, FullInv, Others
    PROVE  FullInv'
<1>1. PICK a \in Drawings : OnlineCreate(a) \/ OnlineDraw(a) \/ OnlineSave(a) \/ OnlineDelete(a)
    BY DEF Others
<1>2. UNCHANGED <<hashes, override, pages, uploads>>
    BY <1>1 DEF OnlineCreate, OnlineDraw, OnlineSave, OnlineDelete, Online, diskVars, taskVars
<1>3. history'.torn = history.torn
    BY <1>1 DEF OnlineCreate, NewId, OnlineDraw, OnlineSave, OnlineDelete, TypeOK, History
<1>4. clock \in Nat /\ db \in Folder
    BY DEF TypeOK
<1>5. \A d \in Drawings : db'["strokes"][d] \subseteq db["strokes"][d] \cup {clock + 1}
    <2>1. CASE OnlineCreate(a)
        BY <1>4, <2>1 DEF OnlineCreate, Folder, Kinds
    <2>2. CASE OnlineDraw(a)
        BY <1>4, <2>2 DEF OnlineDraw, Folder, Values, Kinds
    <2>3. CASE OnlineSave(a)
        BY <1>4, <2>3 DEF OnlineSave, Folder
    <2>4. CASE OnlineDelete(a)
        BY <1>4, <2>4 DEF OnlineDelete, Folder, Values, Kinds
    <2> QED
        BY <1>1, <2>1, <2>2, <2>3, <2>4
<1>6. ASSUME NEW c, c \subseteq 0..clock PROVE ~Announced(c, clock + 1)
    BY <1>4, <1>6 DEF Announced
<1>7. ASSUME NEW d \in Drawings
      PROVE  ~Announced(hashes["info"][d], clock + 1) /\ \A n \in Logins : ~Announced(uploads[n].seen[d], clock + 1)
    BY <1>6 DEF AllPast, PastFolder, PastValues, Kinds
<1>8. ASSUME NEW d \in Drawings, d \notin history'.torn PROVE FullOK(d)'
    <2>1. FullOK(d)
        BY <1>3, <1>8 DEF FullInv
    <2>2. \A e \in db'["strokes"][d] \ db["strokes"][d] : e = clock + 1
        BY <1>5
    <2> QED
        BY <1>2, <1>7, <2>1, <2>2, SameFull
<1> QED
    BY <1>8 DEF FullInv

SentInv == (\A n \in Logins : SendOK(n)) /\ FullInv

LEMMA StepFull == TypeOK /\ Shape /\ AllPast /\ NewInv /\ SentInv /\ [Next]_vars => SentInv'
<1> SUFFICES ASSUME TypeOK, Shape, AllPast, NewInv, SentInv, [Next]_vars PROVE SentInv'
    OBVIOUS
<1>0. ASSUME UNCHANGED uploads PROVE \A n \in Logins : SendOK(n)'
    BY <1>0 DEF SentInv, SendOK, Given
<1>1. CASE Offline
    <2>1. UNCHANGED uploads
        BY <1>1, LoopFacts DEF Loop, Offline, CreateDrawing, GetDrawing, UpdateStroke, SaveDimensions,
                    SaveDrawingPreview, Leave, TakeUpdates, WriteStrokes, FileStrokes, PatchStrokes, taskVars
    <2> QED
        BY <1>0, <1>1, <2>1, VisitFull, OfflineFull, LoopFull DEF Offline, SentInv, Loop
<1>2. CASE Session
    BY <1>2, SendStep, SessionFull DEF SentInv
<1>3. ASSUME NEW n \in Logins, ThreadStep(n) PROVE SentInv'
    <2>1. UNCHANGED uploads
        BY <1>3 DEF ThreadStep, StartThread, EndThread, StartPass, Once, WriteFile, FinishTarget, Finish, FailDownload,
                    FailPass, OnlyThreads
    <2> QED
        BY <1>0, <1>3, <2>1, ThreadFull DEF SentInv
<1>4. CASE Others
    <2>1. UNCHANGED uploads
        BY <1>4 DEF Others, OnlineCreate, OnlineDraw, OnlineSave, OnlineDelete, Online, taskVars
    <2> QED
        BY <1>0, <1>4, <2>1, OthersFull DEF SentInv
<1>5. CASE Crash \/ \E d \in Drawings : CrashWhileCreating(d)
    BY <1>5, SendStep, SessionFull DEF SentInv
<1>6. ASSUME NEW v \in Visits, FailPatch(v) \/ FailWrite(v) PROVE SentInv'
    <2>1. UNCHANGED uploads
        BY <1>6 DEF FailPatch, FailWrite, taskVars
    <2> QED
        BY <1>0, <1>6, <2>1, OfflineFull, LoopFull DEF SentInv, Loop
<1>7. CASE UNCHANGED vars
    <2>1. UNCHANGED <<db, hashes, override, pages, uploads, history>>
        BY <1>7 DEF vars, diskVars, taskVars
    <2> QED
        BY <1>0, <2>1 DEF SentInv, FullInv, FullOK, Full
<1> QED
    BY <1>1, <1>2, <1>3, <1>4, <1>5, <1>6, <1>7 DEF Next, Sync, Failures, ThreadStep

-----------------------------------------------------------------------------
(* What follows *)

\* Every state of the client, its folders and its tasks is well formed, whatever
\* the logins, logouts, crashes and failures (CacheService, LocalDrawingService).
THEOREM CacheTypes == Spec => []TypeOK
BY TypeInvariant, PTL

\* However visits, uploads, sync threads, logouts and crashes interleave, a stroke
\* drawn offline waits on its page, is in the override folder, was sent, or is lost in
\* one of the ways recorded (CacheService.UploadUpdatedData, ClearOverride).
THEOREM OfflineWorkIsAccounted == Spec => []OfflineWorkAccounted
<1>1. WorkInv => OfflineWorkAccounted
    BY DEF WorkInv, Safe, Unwritten, OfflineWorkAccounted
<1>2. Init => TypeOK /\ Shape /\ WorkInv
    BY InitTypes, WorkInit
<1>3. TypeOK /\ Shape /\ WorkInv /\ [Next]_vars => (TypeOK /\ Shape /\ WorkInv)'
    BY StepTypes, StepWork
<1> QED
    BY <1>1, <1>2, <1>3, PTL DEF Spec

\* Whatever changes are made by others, sent or copied, and wherever passes fail or the
\* process ends, a file is skipped only if it is the one received, if no two threads
\* copied its target at once and no earlier value came back (SlowSyncDatabaseRef).
THEOREM SkippedFilesAreTheOnesReceived == Spec => []SkipsOnlyWhatItHas
<1>1. TypeOK /\ SkipInv => SkipsOnlyWhatItHas
    <2> SUFFICES ASSUME TypeOK, SkipInv, NEW n \in Logins, threads[n].at = "writing", NEW d \in threads[n].todo,
                        <<Targets[threads[n].target], d>> \notin history.doubtful,
                        threads[n].hashes[d] = threads[n].objs[d]
                 PROVE  cache[Targets[threads[n].target]][d] = threads[n].objs[d]
        BY DEF SkipsOnlyWhatItHas
    <2> DEFINE k == Targets[threads[n].target]
    <2>1. k \in Kinds /\ d \in Drawings
        BY TargetTypes
    <2>2. Busy(n, k)
        BY DEF Busy
    <2>3. Writes(n, k, d)
        BY <2>1, <2>2 DEF SkipInv, CopyOK, Copies
    <2> QED
        BY <2>3 DEF Writes
<1>2. Init => TypeOK /\ Shape /\ AllPast /\ SkipInv
    BY InitTypes, PastInit, SkipInit
<1>3. TypeOK /\ Shape /\ AllPast /\ SkipInv /\ [Next]_vars => (TypeOK /\ Shape /\ AllPast /\ SkipInv)'
    BY StepTypes, StepPast, StepSkip
<1> QED
    BY <1>1, <1>2, <1>3, PTL DEF Spec

\* Whatever others do and wherever the process ends, a login misses a hash only if an
\* upload has written that info, the thread that cached it did not get to write its
\* hash, or two threads copied the infos at once (UploadUpdatedData, hashes[id]).
THEOREM KeysAreMissedOnlyAfterTrouble == Spec => []KeyIsMissedOnlyAfterTrouble
<1>1. TypeOK /\ Shape /\ KnownInv => KeyIsMissedOnlyAfterTrouble
    <2> SUFFICES ASSUME TypeOK, Shape, KnownInv, NEW n \in Logins, NEW d \in uploads[n].todo, KeyNotFound(n, d),
                        d \notin history.begun, <<"info", d>> \notin history.doubtful
                 PROVE  cache["info"][d] # {}
        BY DEF KeyIsMissedOnlyAfterTrouble
    <2>1. d \in Drawings /\ uploads[n].files["info"][d] # {}
        BY DEF TypeOK, Upload, Shape, UploadOK
    <2> QED
        BY <2>1 DEF KnownInv, KnownOK, Cached, KeyNotFound
<1>2. Init => TypeOK /\ Shape /\ AllPast /\ SkipInv /\ NewInv /\ KnownInv
    BY InitTypes, PastInit, SkipInit, KnownInit
<1>3. TypeOK /\ Shape /\ AllPast /\ SkipInv /\ NewInv /\ KnownInv /\ [Next]_vars
        => (TypeOK /\ Shape /\ AllPast /\ SkipInv /\ NewInv /\ KnownInv)'
    BY StepTypes, StepPast, StepSkip, StepKnown
<1> QED
    BY <1>1, <1>2, <1>3, PTL DEF Spec

\* An upload that overwrites the strokes of a drawing discards none that the info it
\* compared announced, whatever was drawn and sent meanwhile, unless the override came
\* from older strokes, or strokes were sent late (UploadUpdatedData, SaveStrokes).
THEOREM NothingAnnouncedIsDiscarded == Spec => UploadsDiscardNothingAnnounced
<1> DEFINE Discards == \A n \in Logins : LET u == uploads[n] IN
        u.left # <<>> /\ Head(u.left) = "strokes" /\ u.id \notin history.torn /\ SendNext(n) =>
            \A e \in db["strokes"][u.id] \ db'["strokes"][u.id] : ~Announced(u.online, e)
<1>1. TypeOK /\ SentInv => Discards
    <2> SUFFICES ASSUME TypeOK, SentInv, NEW n \in Logins, Head(uploads[n].left) = "strokes", uploads[n].left # <<>>,
                        uploads[n].id \notin history.torn, SendNext(n),
                        NEW e \in db["strokes"][uploads[n].id] \ db'["strokes"][uploads[n].id]
                 PROVE  ~Announced(uploads[n].online, e)
        OBVIOUS
    <2> DEFINE u == uploads[n]
    <2>1. u.id # None /\ u.id \in Drawings /\ db \in Folder
        BY DEF SendNext, TypeOK, Upload
    <2>2. u.left \in Seq(Given(n, u.id)) /\ u.online \in {{}, u.seen[u.id]}
        BY <2>1 DEF SentInv, SendOK
    <2>3. "strokes" \in Given(n, u.id)
        BY <2>2, HeadTailProperties
    <2>4. Full(u.id, u.files["strokes"][u.id], u.seen[u.id])
        BY <2>1, <2>3 DEF SentInv, FullInv, FullOK, Given
    <2>5. db' = [db EXCEPT !["strokes"][u.id] = u.files["strokes"][u.id]]
        BY DEF SendNext
    <2>6. db'["strokes"][u.id] = u.files["strokes"][u.id]
        BY <2>1, <2>5 DEF Folder, Values, Kinds
    <2>7. ~Announced(u.seen[u.id], e)
        BY <2>4, <2>6 DEF Full
    <2> QED
        BY <2>2, <2>7 DEF Announced
<1>2. Init => TypeOK /\ Shape /\ AllPast /\ SkipInv /\ NewInv /\ KnownInv /\ SentInv
    BY InitTypes, PastInit, SkipInit, KnownInit, SendInit, FullInit DEF SentInv
<1>3. TypeOK /\ Shape /\ AllPast /\ SkipInv /\ NewInv /\ KnownInv /\ SentInv /\ [Next]_vars
        => (TypeOK /\ Shape /\ AllPast /\ SkipInv /\ NewInv /\ KnownInv /\ SentInv)'
    BY StepTypes, StepPast, StepSkip, StepKnown, StepFull
<1> QED
    BY <1>1, <1>2, <1>3, PTL DEF Spec, UploadsDiscardNothingAnnounced
=============================================================================
