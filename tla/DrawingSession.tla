---------------------------- MODULE DrawingSession ----------------------------
(***************************************************************************)
(* One drawing as logged-in desktop clients open, select in, configure and *)
(* leave it (the attributes half of Drawing.cs, with the view models that  *)
(* open and close it).                                                     *)
(*                                                                         *)
(* The node drawings/<id> holds the settings and the selection locks: the  *)
(* user that has each stroke selected.  A client changes it by requests    *)
(* that are all sent at once, each on a connection of its own, so they     *)
(* arrive in any order; it learns of changes from a subscription and       *)
(* decides by its latest copy (DrawingModel).                              *)
(*                                                                         *)
(* A Drawing object outlives the page that shows it: its subscription may  *)
(* keep running and send the user away later.  An opening <<c, n>> is the  *)
(* n-th Drawing object of client c.                                        *)
(***************************************************************************)
EXTENDS Naturals, Sequences

CONSTANTS
    Clients,    \* users, each at one computer
    Owner,      \* the user that created the drawing
    Strokes,    \* stroke ids
    MaxOpens,   \* bound: openings of each client
    Scenarios,  \* how the drawing was created, and how often each thing may happen
    NoOne,      \* the user of a lock that is free
    None        \* no opening, no model

Openings == Clients \X (1..MaxOpens)
Model == [isPublic : BOOLEAN, isProtected : BOOLEAN,
          selectedStrokes : [Strokes -> Clients \cup {NoOne}]]

\* <<isPublic, isProtected>> as created, those that the owner changes to, and
\* bounds: openings, selections, resizings, uses of Back, changes of settings and
\* failed requests.
Setting == BOOLEAN \X BOOLEAN
Bounds == [opens : [Clients -> 0..MaxOpens], selects : [Clients -> Nat],
           resizes : [Clients -> Nat], backs : [Clients -> Nat], settings : SUBSET Setting,
           configures : Nat, failures : Nat]
Scenario == [initial : Setting, bounds : Bounds]

ASSUME ClientsAssumption  == Owner \in Clients /\ NoOne \notin Clients
ASSUME BoundsAssumption == MaxOpens \in Nat
ASSUME ScenariosAssumption == Scenarios \subseteq Scenario
ASSUME SentinelAssumption == None \notin Model /\ None \notin Openings

VARIABLES
    db,         \* the node drawings/<id>
    requests,   \* requests[c]: sent by c, not applied yet, oldest first
    answered,   \* answered requests whose sender has not continued yet
    page,       \* page[c]: the opening that c's drawing page shows
    view,       \* view[o]: see ViewStates
    model,      \* model[o]: DrawingModel
    selected,   \* selected[o]: SelectedStrokesIds
    stream,     \* stream[o]: AttributesSubscription, see StreamStates
    feed,       \* feed[o]: models sent to the subscription, not handled yet
    left,       \* how often each bounded action may still happen
    missed,     \* history: openings that raised KickedOut before anyone listened
    disturbed   \* history: <<s, c>>: c's lock of s was written over, see below

nodeVars   == <<db, requests, answered>>
clientVars == <<page, view, model, selected>>
streamVars == <<stream, feed>>
historyVars == <<missed, disturbed>>
vars == <<nodeVars, clientVars, streamVars, left, historyVars>>

\* An opening is created, may wait for a password (or be dismissed there), is
\* shown while GetDrawingInfo runs, and bound once its commands and events are.
ViewStates == {"unused", "prompt", "dismissed", "shown", "bound", "dead"}

\* A subscription that was stopped still handles the line it is waiting for.
StreamStates == {"none", "connecting", "live", "stopping", "ended"}

\* A request replaces the node by a model or writes some locks.  What its
\* sender does with the answer: nothing, subscribe, leave the page, or end the
\* handling of the event that made the drawing private or protected.
Continuations == {"nothing", "subscribe", "leave", "kick"}
Locks == UNION {[S -> Clients \cup {NoOne}] : S \in SUBSET Strokes}
Request == [from : Openings, model : Model \cup {None}, locks : Locks,
            then : Continuations, event : Model \cup {None}]

TypeOK ==
    /\ db \in Model
    /\ requests \in [Clients -> Seq(Request)]
    /\ answered \subseteq Request
    /\ page \in [Clients -> Openings \cup {None}]
    /\ view \in [Openings -> ViewStates]
    /\ model \in [Openings -> Model \cup {None}]
    /\ selected \in [Openings -> SUBSET Strokes]
    /\ stream \in [Openings -> StreamStates]
    /\ feed \in [Openings -> Seq(Model)]
    /\ left \in Bounds
    /\ missed \subseteq Openings
    /\ disturbed \subseteq Strokes \X Clients

Init ==
    \E s \in Scenarios :
        /\ db = [isPublic |-> s.initial[1], isProtected |-> s.initial[2],
                 selectedStrokes |-> [x \in Strokes |-> NoOne]]
        /\ requests = [c \in Clients |-> <<>>]
        /\ answered = {}
        /\ page = [c \in Clients |-> None]
        /\ view = [o \in Openings |-> "unused"]
        /\ model = [o \in Openings |-> None]
        /\ selected = [o \in Openings |-> {}]
        /\ stream = [o \in Openings |-> "none"]
        /\ feed = [o \in Openings |-> <<>>]
        /\ left = s.bounds
        /\ missed = {}
        /\ disturbed = {}

(***************************************************************************)
(* Requests.                                                               *)
(***************************************************************************)

\* A PATCH of selectedStrokes and a PUT (or PATCH) of the whole model.
PatchLocks(o, locks, then, event) ==
    [from |-> o, model |-> None, locks |-> locks, then |-> then, event |-> event]
WriteModel(o, m, then) ==
    [from |-> o, model |-> m, locks |-> <<>>, then |-> then, event |-> None]

Send(c, r) == requests' = [requests EXCEPT ![c] = Append(@, r)]

\* The node after a request.
Written(r) ==
    IF r.model # None THEN r.model
    ELSE [db EXCEPT !.selectedStrokes =
            [s \in Strokes |-> IF s \in DOMAIN r.locks THEN r.locks[s] ELSE @[s]]]

Released_ByNoValue(strokes) == [s \in strokes |-> None]
Released(strokes) == [s \in strokes |-> NoOne]

\* RemoveSelection: release what is selected, remember who waits for it.
RemoveSelection(o, then, event) ==
    Send(o[1], PatchLocks(o, Released(selected[o]), then, event))

\* A request of o with such a continuation is under way.
Awaits(o, then) ==
    \/ \E r \in answered : r.from = o /\ r.then = then
    \/ \E i \in DOMAIN requests[o[1]] :
          requests[o[1]][i].from = o /\ requests[o[1]][i].then = then

IsRemoving(o) == Awaits(o, "leave") \/ Awaits(o, "kick")

(***************************************************************************)
(* Opening.  GetDrawing reads the node, and the constructor of Drawing     *)
(* then writes what was read back to the node (ToggleSync) before it       *)
(* subscribes.  A private drawing of someone else is not opened.           *)
(***************************************************************************)

\* ToggleSync up to its await.
ToggleSync(o) == Send(o[1], WriteModel(o, db, "subscribe"))

\* SelectDrawing: a protected drawing of someone else asks for the password.
SelectDrawing(o) ==
    IF db.isProtected /\ o[1] # Owner
    THEN view' = [view EXCEPT ![o] = "prompt"] /\ UNCHANGED page
    ELSE view' = [view EXCEPT ![o] = "shown"] /\ page' = [page EXCEPT ![o[1]] = o]

GetDrawing(o) ==
    LET c == o[1] IN
    /\ left.opens[c] > 0
    /\ left' = [left EXCEPT !.opens[c] = @ - 1]
    /\ view[o] = "unused"
    /\ o[2] > 1 => view[<<c, o[2] - 1>>] # "unused"
    /\ page[c] = None
    /\ \A n \in 1..MaxOpens : view[<<c, n>>] # "prompt"
    /\ db.isPublic \/ c = Owner
    /\ model' = [model EXCEPT ![o] = db]
    /\ ToggleSync(o)
    /\ SelectDrawing(o)
    /\ UNCHANGED <<db, answered, selected, streamVars, historyVars>>

\* The password was entered, or the prompt was closed.
EnterPassword(o) ==
    /\ view[o] = "prompt"
    /\ view' = [view EXCEPT ![o] = "shown"]
    /\ page' = [page EXCEPT ![o[1]] = o]
    /\ UNCHANGED <<nodeVars, model, selected, streamVars, left, historyVars>>

DismissPrompt(o) ==
    /\ view[o] = "prompt"
    /\ view' = [view EXCEPT ![o] = "dismissed"]
    /\ UNCHANGED <<nodeVars, page, model, selected, streamVars, left, historyVars>>

\* SetDrawing binds the commands and KickedOut after GetDrawingInfo.
BindEvents(o) ==
    /\ view[o] = "shown"
    /\ view' = [view EXCEPT ![o] = "bound"]
    /\ UNCHANGED <<nodeVars, page, model, selected, streamVars, left, historyVars>>

\* ToggleSync, once its Set is answered.
Subscribe(o) ==
    \E r \in answered :
        /\ r.from = o /\ r.then = "subscribe"
        /\ answered' = answered \ {r}
        /\ stream' = [stream EXCEPT ![o] = "connecting"]
        /\ UNCHANGED <<db, requests, clientVars, feed, left, historyVars>>

(***************************************************************************)
(* Working.  Commands are bound on the page shown.                         *)
(***************************************************************************)

\* The open drawing of c, if it takes commands.
IsWorking(c, o) == page[c] = o /\ view[o] = "bound"

IsSelectionDifferent(o, strokes) == strokes # selected[o]

IsSelectedByOtherUser(o, s) == model[o].selectedStrokes[s] \notin {NoOne, o[1]}

Mine(o) == {s \in Strokes : model[o].selectedStrokes[s] = o[1]}

\* What OnSelectionChanged sends when the selection becomes now: it releases
\* the locks that the copy of the model shows as the user's.
Selection_ReleasesNothing(o, now) == [s \in now |-> o[1]]
Selection(o, now) ==
    [s \in Mine(o) \cup now |-> IF s \in now THEN o[1] ELSE NoOne]

\* Of the strokes that were or become selected, those that the request leaves
\* alone and those that a RemoveSelection under way may release or not.
Neglected(o, now) ==
    (selected[o] \ (Mine(o) \cup now)) \cup (IF IsRemoving(o) THEN now ELSE {})

\* o's selection becomes now.  (An empty PATCH is not sent.)
ChangeSelection(o, now) ==
    /\ selected' = [selected EXCEPT ![o] = now]
    /\ IF Mine(o) \cup now = {} THEN UNCHANGED requests
       ELSE Send(o[1], PatchLocks(o, Selection(o, now), "nothing", None))
    /\ disturbed' = disturbed \cup (Neglected(o, now) \X {o[1]})

OnSelectionChanged(c) ==
    \E o \in Openings : \E strokes \in SUBSET Strokes :
        /\ IsWorking(c, o)
        /\ left.selects[c] > 0
        /\ IsSelectionDifferent(o, strokes)
        /\ ChangeSelection(o, {s \in strokes : ~IsSelectedByOtherUser(o, s)})
        /\ left' = [left EXCEPT !.selects[c] = @ - 1]
        /\ UNCHANGED <<db, answered, page, view, model, streamVars, missed>>

\* The owner's dialog: the copy is changed in place and written as a whole.
UpdateSettings(setting) ==
    \E o \in Openings :
        LET m == [model[o] EXCEPT !.isPublic = setting[1], !.isProtected = setting[2]] IN
        /\ IsWorking(Owner, o)
        /\ setting \in left.settings /\ left.configures > 0
        /\ model' = [model EXCEPT ![o] = m]
        /\ Send(Owner, WriteModel(o, m, "nothing"))
        /\ left' = [left EXCEPT !.configures = @ - 1]
        /\ UNCHANGED <<db, answered, page, view, selected, streamVars, historyVars>>

SaveDimensions(c) ==
    \E o \in Openings :
        /\ IsWorking(c, o)
        /\ left.resizes[c] > 0
        /\ Send(c, WriteModel(o, model[o], "nothing"))
        /\ left' = [left EXCEPT !.resizes[c] = @ - 1]
        /\ UNCHANGED <<db, answered, clientVars, streamVars, historyVars>>

(***************************************************************************)
(* Leaving.  GoBack stops the drawing, which waits for RemoveSelection;    *)
(* then the page takes a preview, for which it clears its selection.       *)
(***************************************************************************)

\* GoBack up to its await (the user presses the button once).
GoBack(c) ==
    \E o \in Openings :
        /\ page[c] = o
        /\ ~Awaits(o, "leave")
        /\ left.backs[c] > 0
        /\ left' = [left EXCEPT !.backs[c] = @ - 1]
        /\ stream' = [stream EXCEPT ![o] = CASE @ = "live" -> "stopping"
                                             [] @ = "connecting" -> "ended"
                                             [] OTHER -> @]
        /\ RemoveSelection(o, "leave", None)
        /\ UNCHANGED <<db, answered, clientVars, feed, historyVars>>

\* GoToDrawingSelectionPage(true): whatever drawing is shown by then is left.
ContinueGoBack_AfterStream(o) ==
    \E r \in answered :
        /\ r.from = o /\ r.then = "leave"
        /\ stream[o] \notin {"live", "stopping"}
        /\ answered' = answered \ {r}
        /\ page' = [page EXCEPT ![o[1]] = None]
        /\ UNCHANGED <<db, requests, view, model, selected, streamVars, left, historyVars>>

ContinueGoBack(o) ==
    LET c == o[1]
        p == page[c]
    IN  \E r \in answered :
        /\ r.from = o /\ r.then = "leave"
        /\ answered' = answered \ {r}
        /\ page' = [page EXCEPT ![c] = None]
        /\ IF p # None /\ view[p] = "bound" /\ selected[p] # {}
           THEN ChangeSelection(p, {})
           ELSE UNCHANGED <<selected, requests, disturbed>>
        /\ UNCHANGED <<db, view, model, streamVars, left, missed>>

(***************************************************************************)
(* The subscription.                                                       *)
(***************************************************************************)

Connect_NoInitialValue(o) ==
    /\ stream[o] = "connecting"
    /\ stream' = [stream EXCEPT ![o] = "live"]
    /\ UNCHANGED <<feed, nodeVars, clientVars, left, historyVars>>

Connect(o) ==
    /\ stream[o] = "connecting"
    /\ stream' = [stream EXCEPT ![o] = "live"]
    /\ feed' = [feed EXCEPT ![o] = <<db>>]
    /\ UNCHANGED <<nodeVars, clientVars, left, historyVars>>

\* The settings in m send a user away who does not own the drawing.
Excludes_WhenProtected(o, m) ==
    /\ m.isProtected # model[o].isProtected
    /\ o[1] # Owner

Excludes(o, m) ==
    /\ m.isProtected # model[o].isProtected \/ m.isPublic # model[o].isPublic
    /\ o[1] # Owner
    /\ ~m.isPublic \/ m.isProtected

\* SyncRemoteAttributesToLocal up to its end, or up to its await: then the
\* next event may be handled first.
SyncRemoteAttributesToLocal(o) ==
    LET m == Head(feed[o]) IN
    /\ stream[o] \in {"live", "stopping"}
    /\ feed[o] # <<>>
    /\ IF stream[o] = "stopping"
       THEN stream' = [stream EXCEPT ![o] = "ended"] /\ feed' = [feed EXCEPT ![o] = <<>>]
       ELSE feed' = [feed EXCEPT ![o] = Tail(@)] /\ UNCHANGED stream
    /\ IF Excludes(o, m)
       THEN RemoveSelection(o, "kick", m) /\ UNCHANGED model
       ELSE model' = [model EXCEPT ![o] = m] /\ UNCHANGED requests
    /\ UNCHANGED <<db, answered, page, view, selected, left, historyVars>>

\* The rest of it: KickedOut or PasswordRequested, which close the page that is
\* open if they are bound, then the new model.
ContinueKick_RemovesAgain(o) ==
    \E r \in answered :
        /\ r.from = o /\ r.then = "kick"
        /\ answered' = answered \ {r}
        /\ page' = [page EXCEPT ![o[1]] = None]
        /\ RemoveSelection(o, "kick", r.event)
        /\ UNCHANGED <<db, view, model, selected, streamVars, left, historyVars>>

ContinueKick(o) ==
    LET c == o[1]
        p == page[c]
    IN  \E r \in answered :
        /\ r.from = o /\ r.then = "kick"
        /\ answered' = answered \ {r}
        /\ model' = [model EXCEPT ![o] = r.event]
        /\ IF view[o] = "bound"
           THEN /\ page' = [page EXCEPT ![c] = None]
                /\ disturbed' = disturbed \cup
                     IF p \notin {None, o} THEN selected[p] \X {c} ELSE {}
                /\ UNCHANGED missed
           ELSE missed' = missed \cup {o} /\ UNCHANGED <<page, disturbed>>
        /\ UNCHANGED <<db, requests, view, selected, streamVars, left>>

\* A stopped subscription ends at the next keep-alive.
EndStream(o) ==
    /\ stream[o] = "stopping"
    /\ stream' = [stream EXCEPT ![o] = "ended"]
    /\ feed' = [feed EXCEPT ![o] = <<>>]
    /\ UNCHANGED <<nodeVars, clientVars, left, historyVars>>

(***************************************************************************)
(* The database and the network.                                           *)
(***************************************************************************)

WithoutRequest(c, i) ==
    [requests EXCEPT ![c] = SubSeq(@, 1, i - 1) \o SubSeq(@, i + 1, Len(@))]

\* The locks that c's i-th request takes from their user or gives back to him,
\* and those that an earlier request of c has yet to write.
Overruled(c, i) ==
    LET r == requests[c][i]
        was == db.selectedStrokes
        is == Written(r).selectedStrokes
    IN  {p \in Strokes \X Clients :
            /\ was[p[1]] # is[p[1]]
            /\ p[2] \in {was[p[1]], is[p[1]]}
            /\ p[2] # c \/ r.model # None} \cup
        {p \in Strokes \X {c} :
            \E j \in 1..(i - 1) : LET e == requests[c][j] IN
                /\ e.model # None \/ p[1] \in DOMAIN e.locks
                /\ r.model # None \/ p[1] \in DOMAIN r.locks}

\* The database applies a request, tells every subscription if it changed
\* something, and answers.
ApplyRequest(c) ==
    \E i \in DOMAIN requests[c] :
        LET r == requests[c][i] IN
        /\ db' = Written(r)
        /\ feed' = [o \in Openings |->
                      IF stream[o] \in {"live", "stopping"} /\ db' # db
                      THEN Append(feed[o], db') ELSE feed[o]]
        /\ requests' = WithoutRequest(c, i)
        /\ answered' = IF r.then = "nothing" \/ view[r.from] = "dead" THEN answered
                       ELSE answered \cup {r}
        /\ disturbed' = disturbed \cup Overruled(c, i)
        /\ UNCHANGED <<clientVars, stream, left, missed>>

\* The process of c ends: requests that are on their way are not called back.
EndProcess(c) ==
    LET of == {o \in Openings : o[1] = c /\ view[o] # "unused"} IN
    /\ page' = [page EXCEPT ![c] = None]
    /\ view' = [o \in Openings |-> IF o \in of THEN "dead" ELSE view[o]]
    /\ stream' = [o \in Openings |-> IF o \in of THEN "ended" ELSE stream[o]]
    /\ feed' = [o \in Openings |-> IF o \in of THEN <<>> ELSE feed[o]]
    /\ answered' = {r \in answered : r.from \notin of}
    /\ disturbed' = disturbed \cup (Strokes \X {c})

Fail == left.failures > 0 /\ left' = [left EXCEPT !.failures = @ - 1]

\* A request fails.  Every handler that awaits one is async void: the exception
\* ends the process.
FailRequest(c) ==
    /\ Fail
    /\ \E i \in DOMAIN requests[c] :
         /\ requests' = WithoutRequest(c, i)
         /\ IF view[requests[c][i].from] = "dead"
            THEN UNCHANGED <<page, view, streamVars, answered, disturbed>>
            ELSE EndProcess(c)
    /\ UNCHANGED <<db, model, selected, missed>>

\* GetDrawingInfo fails.
FailBinding(o) ==
    /\ Fail
    /\ view[o] = "shown"
    /\ EndProcess(o[1])
    /\ UNCHANGED <<db, requests, model, selected, missed>>

System ==
    \/ \E c \in Clients : ApplyRequest(c)
    \/ \E o \in Openings :
         \/ BindEvents(o) \/ Subscribe(o) \/ Connect(o)
         \/ SyncRemoteAttributesToLocal(o) \/ ContinueKick(o) \/ ContinueGoBack(o)

User ==
    \/ \E o \in Openings : GetDrawing(o) \/ EnterPassword(o) \/ DismissPrompt(o)
    \/ \E c \in Clients : OnSelectionChanged(c) \/ SaveDimensions(c) \/ GoBack(c)
    \/ \E setting \in Setting : UpdateSettings(setting)

Environment ==
    \/ \E c \in Clients : FailRequest(c)
    \/ \E o \in Openings : FailBinding(o) \/ EndStream(o)

Next == System \/ User \/ Environment

\* What the runtime, the network and the database do by themselves.
Fairness ==
    /\ \A c \in Clients : WF_vars(ApplyRequest(c))
    /\ \A o \in Openings :
         /\ WF_vars(BindEvents(o))
         /\ WF_vars(Subscribe(o))
         /\ WF_vars(Connect(o))
         /\ WF_vars(SyncRemoteAttributesToLocal(o))
         /\ WF_vars(ContinueKick(o))
         /\ WF_vars(ContinueGoBack(o))

Spec == Init /\ [][Next]_vars /\ Fairness

(***************************************************************************)
(* Properties.                                                             *)
(***************************************************************************)

\* No request, event or callback is under way.
Quiet ==
    /\ \A c \in Clients : requests[c] = <<>>
    /\ answered = {}
    /\ \A o \in Openings :
         /\ stream[o] \in {"live", "stopping"} => feed[o] = <<>>
         /\ stream[o] # "connecting"
         /\ view[o] # "shown"

\* c's page shows the drawing with s selected.
Holds(c, s) == page[c] # None /\ s \in selected[page[c]]

\* At rest the locks in the database are the selections on the pages
\* (OnSelectionChanged, RemoveSelection), except where someone else or a stale
\* copy of the whole model wrote over a lock, where requests of one client
\* overtook each other, where a selection changed before the database had
\* echoed the one before or while the page was being left, and where a process
\* ended.
LocksFollowSelections ==
    Quiet => \A s \in Strokes, c \in Clients :
        <<s, c>> \notin disturbed => (db.selectedStrokes[s] = c <=> Holds(c, s))

\* At rest nobody but the owner has a private drawing on the page
\* (SyncRemoteAttributesToLocal), unless KickedOut was raised while the page was
\* still being set up or the password was being asked for.
PrivateMeansGone ==
    Quiet /\ ~db.isPublic => \A c \in Clients \ {Owner} :
        page[c] # None => page[c] \in missed

\* At rest a page with a live subscription decides by a copy that equals the
\* node: no late continuation or local change survives (DrawingModel).
ModelFollowsNode ==
    Quiet => \A o \in Openings :
        page[o[1]] = o /\ stream[o] = "live" /\ o \notin missed => model[o] = db

\* Events, the RemoveSelection they cause and its events come to an end.
ComesToRest == <>[]Quiet

\* A user who presses Back leaves the page, whatever happens meanwhile.
BackLeavesPage ==
    \A o \in Openings :
        (page[o[1]] = o /\ Awaits(o, "leave")) ~> page[o[1]] # o

\* A selection makes "the previously selected strokes unselected": at rest a
\* user holds no lock of a stroke that is not selected on his page.
PreviousSelectionReleased ==
    Quiet => \A s \in Strokes, c \in Clients :
        page[c] # None /\ db.selectedStrokes[s] = c => Holds(c, s)
=============================================================================
