----------------------------- MODULE OfflineCache -----------------------------
(***************************************************************************)
(* One desktop client that works offline and logs in now and then          *)
(* (CacheService.cs, LocalDrawingService.cs and the offline half of        *)
(* SyncedStrokesCollection.cs).                                            *)
(*                                                                         *)
(* While a user is logged in, a sync thread copies the database to the     *)
(* cache folder; the hashes of what it copied are kept in one file per     *)
(* target.  Without a user, drawings are read from the cache and written   *)
(* to the override folder.  A login uploads the overrides, clears them and *)
(* starts the next sync thread.  The folders survive the process.          *)
(***************************************************************************)
EXTENDS Naturals, Sequences

CONSTANTS
    Drawings,     \* drawing ids
    Targets,      \* what the sync thread copies, in its order
    MaxVisits,    \* bound: drawings that the user creates or opens offline
    MaxLogins,    \* bound: logins
    Scenarios,    \* what there is at first, and how often each thing may happen
    None          \* no drawing

\* The parts of a drawing.
Kinds == {"drawings", "info", "strokes"}

\* What others do online.
Changes == {"create", "draw", "save", "delete"}

Visits == 1..MaxVisits
Logins == 1..MaxLogins

\* The drawings cached at first, those to which others have added a stroke since,
\* the ids that may still be given, and bounds: visits, strokes and resizings offline, logins, changes that others
\* make, and failed requests, failed writes and crashes.
Bounds == [visits : 0..MaxVisits, strokes : Nat, resizes : Nat, logins : 0..MaxLogins,
           others : [Changes -> Nat], failures : Nat]
Scenario == [cached : SUBSET Drawings, outdated : SUBSET Drawings, new : SUBSET Drawings,
             bounds : Bounds]

ASSUME DrawingsAssumption == None \notin Drawings
ASSUME TargetsAssumption ==
    /\ Targets \in Seq(Kinds) /\ Targets # <<>>
    /\ \A i, j \in DOMAIN Targets : Targets[i] = Targets[j] => i = j
ASSUME BoundsAssumption == MaxVisits \in Nat /\ MaxLogins \in Nat
ASSUME ScenariosAssumption ==
    /\ Scenarios \subseteq Scenario
    /\ \A s \in Scenarios : s.outdated \subseteq s.cached /\ s.cached \cap s.new = {}

VARIABLES
    db,         \* db[k][d]: the database
    cache,      \* cache[k][d]: files of the cache folder
    hashes,     \* hashes[k][d]: the content whose hash the hash file holds
    override,   \* override[k][d]: files of the override folder
    loggedIn,
    pages,      \* pages[v]: the drawing page of the v-th offline visit, and its writer
    uploads,    \* uploads[n]: the UploadUpdatedData of the n-th login
    threads,    \* threads[n]: the SyncThread of the n-th login
    newest,     \* the login whose token CancellationTokenSource holds, or 0
    cancelled,  \* cancelled tokens
    clock,      \* number of the latest change
    left,       \* how often each bounded action may still happen
    history     \* for the properties, see below

diskVars == <<cache, hashes, override>>
taskVars == <<uploads, threads, newest, cancelled>>
vars == <<db, diskVars, loggedIn, pages, taskVars, clock, left, history>>

\* The content of a value or file: the changes that it shows, none if there is
\* no value or file.  A change of a model or an info replaces it; strokes add up.
\* Change 0 is what was cached at first, 1 and 2 what others have changed since.
Content == SUBSET Nat
Values == [Drawings -> Content]
Folder == [Kinds -> Values]
NoValues == [d \in Drawings |-> {}]
NoFiles == [k \in Kinds |-> NoValues]

\* A page: the drawing, its StrokesMap and StrokesToUpdate, its writer, and the map
\* that it has serialised.  The writer sleeps ("idle"), is past its test of IsOffline
\* ("offline", "online"), has serialised the map ("writing"), returns to its test of
\* the token ("back"), or was ended by an exception.  It may outlive the open page.
Page == [open : BOOLEAN, drawing : Drawings \cup {None}, shown : Content, pending : Content, file : Content,
         writer : {"idle", "offline", "writing", "back", "online", "ended"}]
NoPage == [open |-> FALSE, drawing |-> None, shown |-> {}, pending |-> {}, file |-> {}, writer |-> "idle"]

\* The local variables of an upload: the overrides and the hashes of the infos
\* read at the login, the drawings left to check, the one being sent, what is
\* left to send of it, its info as it was checked, and the drawings in conflict.
Upload == [at : {"none", "uploading", "listing", "done", "dead"},
           files : Folder, seen : Values, todo : SUBSET Drawings,
           id : Drawings \cup {None}, left : Seq(Kinds),
           online : Content, conflicts : SUBSET Drawings]
NoUpload == [at |-> "none", files |-> NoFiles, seen |-> NoValues, todo |-> {},
             id |-> None, left |-> <<>>, online |-> {}, conflicts |-> {}]

\* A sync thread: whether it has started, sleeps at the top of its loop, after the
\* test of the token, (for the first time) or is further on, the token it watches, the target it
\* copies, its copy of the hashes, the values received and those not looked at.
Thread == [at : {"none", "queued", "first", "top", "reading", "writing", "ended"},
           watches : 0..MaxLogins, target : DOMAIN Targets,
           hashes : Values, objs : Values, todo : SUBSET Drawings]
NoThread == [at |-> "none", watches |-> 0, target |-> 1,
             hashes |-> NoValues, objs |-> NoValues, todo |-> {}]

\* The ids not given yet, the strokes <<d, e>> that the user drew offline, those that were in the
\* database and those lost for a known reason; the drawings whose info an upload
\* has written, those written to an override after a login, those with an
\* override older than the cached info, or strokes that came after it; the values <<k, d>> whose hash may be that of
\* another file, because two sync threads copied the target at once, or the value
\* of the hash came back to the database.
History == [new : SUBSET Drawings, own : SUBSET (Drawings \X Nat), reached : Content, lost : Content,
            begun : SUBSET Drawings, late : SUBSET Drawings, torn : SUBSET Drawings,
            doubtful : SUBSET (Kinds \X Drawings)]

TypeOK ==
    /\ {db, cache, hashes, override} \subseteq Folder
    /\ loggedIn \in BOOLEAN
    /\ pages \in [Visits -> Page]
    /\ uploads \in [Logins -> Upload]
    /\ threads \in [Logins -> Thread]
    /\ newest \in 0..MaxLogins /\ cancelled \subseteq Logins
    /\ clock \in Nat
    /\ left \in Bounds
    /\ history \in History

Init ==
    \E s \in Scenarios :
        /\ cache = [k \in Kinds |-> [d \in Drawings |-> IF d \in s.cached THEN {0} ELSE {}]]
        /\ hashes = cache
        /\ db = [k \in Kinds |-> [d \in Drawings |->
                    CASE d \in s.outdated /\ k = "strokes" -> {0, 1}
                      [] d \in s.outdated /\ k = "info" -> {2}
                      [] OTHER -> cache[k][d]]]
        /\ override = NoFiles
        /\ loggedIn = FALSE
        /\ pages = [v \in Visits |-> NoPage]
        /\ uploads = [n \in Logins |-> NoUpload]
        /\ threads = [n \in Logins |-> NoThread]
        /\ newest = 0 /\ cancelled = {}
        /\ clock = 2
        /\ left = s.bounds
        /\ history = [new |-> s.new, own |-> {}, reached |-> {}, lost |-> {}, begun |-> {},
                      late |-> {}, torn |-> {}, doubtful |-> {}]

\* Get: the override if there is one, else the cached file.
Get(k, d) == IF override[k][d] # {} THEN override[k][d] ELSE cache[k][d]

\* What is doubtful once v is written: it was cached before, but not last.
Back(k, d, v) == IF v = hashes[k][d] /\ db[k][d] # v THEN {<<k, d>>} ELSE {}

\* The info c was saved after change e.
Announced(c, e) == \E i \in c : e < i

\* What is read of d offline lacks strokes that were there before the info that
\* was cached.
Behind(d) ==
    \E e \in db["strokes"][d] \ Get("strokes", d) : Announced(hashes["info"][d], e)

\* Strokes c come to the database although an info that was cached before announced
\* the strokes there were.
Late(d, c) ==
    \E e \in c \ db["strokes"][d] :
        Announced(hashes["info"][d], e) \/ \E n \in Logins : Announced(uploads[n].seen[d], e)

\* The edits of a page that its writer has yet to write.
Unwritten(v) ==
    CASE pages[v].writer = "ended" -> {}
      [] pages[v].writer = "offline" -> pages[v].pending \cup pages[v].shown
      [] pages[v].writer = "writing" -> pages[v].pending \cup pages[v].file
      [] OTHER -> pages[v].pending

\* The user's strokes <<d, e>> that are lost when the writer of the page ends: they
\* are in no file and were not sent.
UnsavedOn(v) == {q \in history.own :
    /\ pages[v].drawing = q[1] /\ q[2] \in Unwritten(v)
    /\ q[2] \notin override["strokes"][q[1]] \cup history.reached}

\* ... and when the process ends.
Unsaved == UNION {UnsavedOn(v) : v \in Visits}

\* The process ends, and no request is called back.
StopProcess ==
    /\ loggedIn' = FALSE
    /\ pages' = [v \in Visits |-> NoPage]
    /\ uploads' = [n \in Logins |-> IF uploads[n].at \in {"uploading", "listing"}
                                    THEN [NoUpload EXCEPT !.at = "dead"] ELSE uploads[n]]
    /\ threads' = [n \in Logins |-> IF threads[n].at = "none" THEN NoThread
                                    ELSE [NoThread EXCEPT !.at = "ended"]]
    /\ newest' = 0
    /\ UNCHANGED cancelled

EndProcess ==
    /\ StopProcess
    /\ history' = [history EXCEPT !.lost = @ \cup {p[2] : p \in Unsaved}]

(***************************************************************************)
(* Offline: LocalDrawingService and the drawing page.                      *)
(***************************************************************************)

Idle == ~loggedIn /\ \A v \in Visits : ~pages[v].open

Visit(d, strokes) ==
    LET v == MaxVisits - left.visits + 1 IN
    /\ left.visits > 0
    /\ left' = [left EXCEPT !.visits = @ - 1]
    /\ pages' = [pages EXCEPT ![v] =
            [NoPage EXCEPT !.open = TRUE, !.drawing = d, !.shown = strokes]]

\* A new id (Guid.NewGuid, or a pushed key).
NewId(d) ==
    /\ d \in history.new
    /\ history' = [history EXCEPT !.new = @ \ {d}]

\* Two files are written.
CreateDrawing(d) ==
    /\ Idle
    /\ NewId(d)
    /\ clock' = clock + 1
    /\ override' = [override EXCEPT !["drawings"][d] = {clock'}, !["info"][d] = {clock'}]
    /\ Visit(d, {})
    /\ UNCHANGED <<db, cache, hashes, loggedIn, taskVars>>

\* Its drawing is listed, and its strokes are read (PullStrokes).
GetDrawing(d) ==
    /\ Idle
    /\ Get("drawings", d) # {}
    /\ Visit(d, Get("strokes", d))
    /\ history' = [history EXCEPT !.torn = IF Behind(d) THEN @ \cup {d} ELSE @]
    /\ UNCHANGED <<db, diskVars, loggedIn, taskVars, clock>>

\* Nobody takes the edits of a page whose writer has ended.
UpdateStroke(v) ==
    /\ pages[v].open
    /\ left.strokes > 0
    /\ left' = [left EXCEPT !.strokes = @ - 1]
    /\ clock' = clock + 1
    /\ pages' = [pages EXCEPT ![v].shown = @ \cup {clock'}, ![v].pending = @ \cup {clock'}]
    /\ history' = [history EXCEPT !.own = @ \cup {<<pages[v].drawing, clock'>>},
                                  !.lost = IF pages[v].writer = "ended" THEN @ \cup {clock'} ELSE @]
    /\ UNCHANGED <<db, diskVars, loggedIn, taskVars>>

SaveDimensions(v) ==
    /\ pages[v].open
    /\ left.resizes > 0
    /\ left' = [left EXCEPT !.resizes = @ - 1]
    /\ clock' = clock + 1
    /\ override' = [override EXCEPT !["drawings"][pages[v].drawing] = {clock'}]
    /\ UNCHANGED <<db, cache, hashes, loggedIn, pages, taskVars, history>>

\* Leaving the page stops the writer, which may still write once, if it is past
\* its test of the token and there is anything to write.
Leave(v) ==
    /\ pages[v].open
    /\ pages' = [pages EXCEPT ![v] =
            IF Unwritten(v) = {} THEN NoPage ELSE [@ EXCEPT !.open = FALSE]]
    /\ UNCHANGED <<db, cache, hashes, loggedIn, taskVars, left, history>>

\* It saves the preview; without an info nothing is saved.
SaveDrawingPreview_Always(v) ==
    /\ Leave(v)
    /\ clock' = clock + 1
    /\ override' = [override EXCEPT !["info"][pages[v].drawing] = {clock'}]

SaveDrawingPreview(v) ==
    /\ Leave(v)
    /\ IF Get("info", pages[v].drawing) = {}
       THEN UNCHANGED <<clock, override>>
       ELSE /\ clock' = clock + 1
            /\ override' = [override EXCEPT !["info"][pages[v].drawing] = {clock'}]

\* The writer wakes, takes the edits and tests IsOffline.
TakeUpdates(v) ==
    /\ pages[v].writer = "idle"
    /\ pages[v].pending # {}
    /\ pages' = IF loggedIn THEN [pages EXCEPT ![v].writer = "online"]
                ELSE [pages EXCEPT ![v].writer = "offline", ![v].pending = {}]
    /\ UNCHANGED <<db, diskVars, loggedIn, taskVars, clock, left, history>>

\* There is nothing to take.
TakeNothing(v) ==
    /\ pages[v].writer = "idle" /\ pages[v].open
    /\ pages[v].pending = {}
    /\ pages' = [pages EXCEPT ![v].writer = "back"]
    /\ UNCHANGED <<db, diskVars, loggedIn, taskVars, clock, left, history>>

\* The test of the token: what was drawn after the edits were taken is lost if the
\* page was left meanwhile.
TestToken(v) ==
    /\ pages[v].writer = "back"
    /\ pages' = [pages EXCEPT ![v] = IF @.open THEN [@ EXCEPT !.writer = "idle"] ELSE NoPage]
    /\ history' = [history EXCEPT !.lost = IF pages[v].open THEN @ ELSE @ \cup {q[2] : q \in UnsavedOn(v)}]
    /\ UNCHANGED <<db, diskVars, loggedIn, taskVars, clock, left>>

\* Offline it serialises the whole map, as it is by then, and writes the file.
SerializeStrokes(v) ==
    /\ pages[v].writer = "offline"
    /\ pages' = [pages EXCEPT ![v].writer = "writing", ![v].file = pages[v].shown]
    /\ UNCHANGED <<db, diskVars, loggedIn, taskVars, clock, left, history>>

\* Strokes of a page that was open before are lost if they were written after this
\* one read the file.
FileStrokes(v, file) ==
    LET d == pages[v].drawing IN
    /\ pages[v].writer = "writing"
    /\ pages' = [pages EXCEPT ![v].writer = "back", ![v].file = {}]
    /\ override' = [override EXCEPT !["strokes"][d] = file]
    /\ history' = [history EXCEPT
            !.lost = @ \cup {e \in override["strokes"][d] \ pages[v].file : <<d, e>> \in history.own},
            !.late = IF loggedIn THEN @ \cup {d} ELSE @]
    /\ UNCHANGED <<db, cache, hashes, loggedIn, taskVars, clock, left>>

WriteStrokes_OnlyOnce(v) ==
    LET old == override["strokes"][pages[v].drawing]
    IN  FileStrokes(v, IF old = {} THEN pages[v].file ELSE old)
WriteStrokes(v) == FileStrokes(v, pages[v].file)

\* After a login it sends the edits that it took.
PatchStrokes(v) ==
    LET d == pages[v].drawing
        strokes == db["strokes"][d] \cup pages[v].pending IN
    /\ pages[v].writer = "online"
    /\ pages' = [pages EXCEPT ![v] = NoPage]
    /\ db' = [db EXCEPT !["strokes"][d] = strokes]
    /\ history' = [history EXCEPT !.reached = @ \cup pages[v].pending,
                                  !.torn = IF Late(d, strokes) THEN @ \cup {d} ELSE @,
                                  !.doubtful = @ \cup Back("strokes", d, strokes)]
    /\ UNCHANGED <<diskVars, loggedIn, taskVars, clock, left>>

(***************************************************************************)
(* Login and logout: StateChanged.  A drawing that stays open while the    *)
(* user changes is not modelled here.                                      *)
(***************************************************************************)

\* UploadUpdatedData up to its first await.
Login ==
    LET n == MaxLogins - left.logins + 1 IN
    /\ Idle
    /\ left.logins > 0
    /\ left' = [left EXCEPT !.logins = @ - 1]
    /\ loggedIn' = TRUE
    /\ uploads' = [uploads EXCEPT ![n] = [NoUpload EXCEPT
            !.at = "uploading", !.files = override, !.seen = hashes["info"],
            !.todo = {d \in Drawings : override["info"][d] # {}}]]
    /\ UNCHANGED <<db, diskVars, pages, threads, newest, cancelled, clock, history>>

SignOut(tokens) ==
    /\ loggedIn
    /\ loggedIn' = FALSE
    /\ cancelled' = cancelled \cup tokens
    /\ UNCHANGED <<db, diskVars, pages, uploads, threads, newest, clock, left, history>>

Logout_NoNullTest == SignOut({newest})
Logout == SignOut({newest} \ {0})

(***************************************************************************)
(* The upload.                                                             *)
(***************************************************************************)

\* What is sent of d, in this order: the files that there were at the login.
ToSend(n, d) ==
    LET File(k) == IF uploads[n].files[k][d] # {} THEN <<k>> ELSE <<>>
    IN  File("drawings") \o File("strokes") \o File("info")

\* The info in the database is the one that was cached, or none.
Unchanged_Always(n, d) == TRUE
Unchanged(n, d) == db["info"][d] \in {{}, uploads[n].seen[d]}

\* The info of d was requested and has arrived.  An info that was never cached
\* is looked up in vain: the exception ends the process.
KeyNotFound(n, d) == db["info"][d] # {} /\ uploads[n].seen[d] = {}

CheckInfo(n) ==
    LET u == uploads[n] IN
    /\ u.at = "uploading"
    /\ u.id = None
    /\ \E d \in u.todo :
         IF KeyNotFound(n, d) THEN EndProcess
         ELSE /\ uploads' = [uploads EXCEPT ![n] =
                    IF Unchanged(n, d)
                    THEN [u EXCEPT !.todo = u.todo \ {d}, !.id = d, !.left = ToSend(n, d),
                                   !.online = db["info"][d]]
                    ELSE [u EXCEPT !.todo = u.todo \ {d}, !.conflicts = u.conflicts \cup {d}]]
              /\ UNCHANGED <<loggedIn, pages, threads, newest, cancelled, history>>
    /\ UNCHANGED <<db, diskVars, clock, left>>

\* The database takes the next value and answers.
SendNext(n) ==
    LET u == uploads[n]
        k == Head(u.left)
        value == u.files[k][u.id]
    IN  /\ u.at = "uploading"
        /\ u.id # None
        /\ db' = [db EXCEPT ![k][u.id] = value]
        /\ uploads' = [uploads EXCEPT ![n].left = Tail(@),
                                      ![n].id = IF Tail(u.left) = <<>> THEN None ELSE @]
        /\ history' = [history EXCEPT
                !.reached = IF k = "strokes" THEN @ \cup value ELSE @,
                !.begun = IF k = "info" THEN @ \cup {u.id} ELSE @,
                !.torn = IF k = "strokes" /\ Late(u.id, value) THEN @ \cup {u.id} ELSE @,
                !.doubtful = @ \cup Back(k, u.id, value)]
        /\ UNCHANGED <<diskVars, loggedIn, pages, threads, newest, cancelled, clock, left>>

\* The list of the user's drawings is updated at the end: if there is no user
\* by then the exception ends the process.
ListDrawings(n) ==
    /\ uploads[n].at = "uploading"
    /\ uploads[n].id = None /\ uploads[n].todo = {}
    /\ IF loggedIn
       THEN /\ uploads' = [uploads EXCEPT ![n].at = "listing"]
            /\ UNCHANGED <<loggedIn, pages, threads, newest, cancelled, history>>
       ELSE EndProcess
    /\ UNCHANGED <<db, diskVars, clock, left>>

\* Strokes of d in the override folder that the upload did not take: d was in
\* conflict, had no info, or was written after the login.
Forgotten(n, d) ==
    LET u == uploads[n] IN
    IF d \in u.conflicts \/ u.files["info"][d] = {} THEN override["strokes"][d]
    ELSE override["strokes"][d] \ u.files["strokes"][d]

\* StateChanged continues: ClearOverride, and a sync thread with a new token.
ClearOverride(n) ==
    /\ uploads[n].at = "listing"
    /\ override' = NoFiles
    /\ history' = [history EXCEPT !.lost = @ \cup
            {p[2] : p \in {q \in history.own : q[2] \in Forgotten(n, q[1]) \ history.reached}}]
    /\ uploads' = [uploads EXCEPT ![n] = [NoUpload EXCEPT !.at = "done"]]
    /\ newest' = n
    /\ threads' = [threads EXCEPT ![n].at = "queued"]
    /\ UNCHANGED <<db, cache, hashes, loggedIn, pages, cancelled, clock, left>>

(***************************************************************************)
(* The sync thread.                                                        *)
(***************************************************************************)

\* Back at the top of its loop the thread tests its token, and sleeps.
AtTop(n) ==
    IF threads[n].watches \in cancelled THEN [NoThread EXCEPT !.at = "ended"]
    ELSE [NoThread EXCEPT !.at = "top", !.watches = threads[n].watches]
OnlyThreads == <<db, diskVars, loggedIn, pages, uploads, newest, cancelled, clock>>

\* The thread reads the newest token when it starts.
StartThread(n) ==
    /\ threads[n].at = "queued"
    /\ threads' = [threads EXCEPT ![n] =
            IF newest \in cancelled THEN [NoThread EXCEPT !.at = "ended"]
            ELSE [@ EXCEPT !.at = "first", !.watches = newest]]
    /\ UNCHANGED <<OnlyThreads, left, history>>

\* Without a user or a connection the thread returns to the test of its token.
EndThread(n) ==
    /\ threads[n].at \in {"first", "top"}
    /\ threads[n].watches \in cancelled
    /\ threads' = [threads EXCEPT ![n] = [NoThread EXCEPT !.at = "ended"]]
    /\ UNCHANGED <<OnlyThreads, left, history>>

\* The thread turns to the i-th target: it reads the hashes h and requests the
\* target.  After the last one it is back at the top of its loop.
Turn(n, i, h) ==
    threads' = [threads EXCEPT ![n] =
        IF i > Len(Targets) THEN AtTop(n)
        ELSE [NoThread EXCEPT !.at = "reading", !.watches = threads[n].watches, !.target = i,
                              !.hashes = h[Targets[i]]]]

\* The target that the thread then copies together with another thread.
Clash(n, i) ==
    IF \E o \in Logins \ {n} : threads[o].at \in {"reading", "writing"} /\ threads[o].target = i
    THEN {Targets[i]} \X Drawings ELSE {}

\* The thread wakes, whatever became of its token.  The first time the images are
\* downloaded before.
StartPass(n) ==
    /\ threads[n].at \in {"first", "top"}
    /\ loggedIn
    /\ Turn(n, 1, hashes)
    /\ history' = [history EXCEPT !.doubtful = @ \cup Clash(n, 1)]
    /\ UNCHANGED <<OnlyThreads, left>>

\* The target arrives.  An empty one is not looked at.
Once(n) ==
    LET i == threads[n].target
        k == Targets[i]
    IN  /\ threads[n].at = "reading"
        /\ IF db[k] = NoValues
           THEN /\ Turn(n, i + 1, hashes)
                /\ history' = [history EXCEPT !.doubtful = @ \cup Clash(n, i + 1)]
           ELSE /\ threads' = [threads EXCEPT ![n].at = "writing", ![n].objs = db[k],
                                   ![n].todo = {d \in Drawings : db[k][d] # {}}]
                /\ UNCHANGED history
        /\ UNCHANGED <<OnlyThreads, left>>

\* Write: a file whose hash is the same is left alone.
WriteFile_HashFirst(n) ==
    LET t == threads[n]
        k == Targets[t.target]
    IN  \E d \in t.todo :
        /\ t.at = "writing"
        /\ hashes' = [hashes EXCEPT ![k][d] = t.objs[d]]
        /\ IF t.hashes[d] = t.objs[d] \/ hashes[k][d] = t.objs[d]
           THEN /\ cache' = IF t.hashes[d] = t.objs[d] THEN cache
                            ELSE [cache EXCEPT ![k][d] = t.objs[d]]
                /\ threads' = [threads EXCEPT ![n].todo = @ \ {d}, ![n].hashes[d] = t.objs[d]]
           ELSE UNCHANGED <<cache, threads>>
        /\ UNCHANGED <<db, override, loggedIn, pages, uploads, newest, cancelled, clock, left,
                       history>>

WriteFile(n) ==
    LET t == threads[n] IN
    /\ t.at = "writing"
    /\ \E d \in t.todo :
         /\ cache' = IF t.hashes[d] = t.objs[d] THEN cache
                     ELSE [cache EXCEPT ![Targets[t.target]][d] = t.objs[d]]
         /\ threads' = [threads EXCEPT ![n].todo = @ \ {d}, ![n].hashes[d] = t.objs[d]]
    /\ UNCHANGED <<db, hashes, override, loggedIn, pages, uploads, newest, cancelled, clock,
                   left, history>>

\* The files in kept stay, UpdateHashes writes the hashes of all drawings, deleted
\* ones included, and the pass goes on.
Finish(n, kept) ==
    LET t == threads[n]
        k == Targets[t.target]
    IN  /\ t.at = "writing"
        /\ t.todo = {}
        /\ cache' = [cache EXCEPT ![k] = [d \in Drawings |-> IF d \in kept THEN @[d] ELSE {}]]
        /\ hashes' = [hashes EXCEPT ![k] = t.hashes]
        /\ Turn(n, t.target + 1, hashes')
        /\ history' = [history EXCEPT
                !.torn = @ \cup {d \in Drawings :
                    /\ k = "info" /\ t.hashes[d] # hashes[k][d]
                    /\ override["strokes"][d] # {} \/ \E v \in Visits : pages[v].drawing = d},
                !.doubtful = @ \cup Clash(n, t.target + 1)]
        /\ UNCHANGED <<db, override, loggedIn, pages, uploads, newest, cancelled, clock, left>>

\* Files of drawings that were not received are deleted.
FinishTarget_KeepsAll(n) == Finish(n, Drawings)
FinishTarget(n) == Finish(n, {d \in Drawings : threads[n].objs[d] # {}})

(***************************************************************************)
(* The other clients, through the database.                                *)
(***************************************************************************)

Online(c) ==
    /\ left.others[c] > 0
    /\ left' = [left EXCEPT !.others[c] = @ - 1]
    /\ UNCHANGED <<diskVars, loggedIn, pages, taskVars>>

OnlineCreate(d) ==
    /\ Online("create")
    /\ NewId(d)
    /\ clock' = clock + 1
    /\ db' = [db EXCEPT !["drawings"][d] = {clock'}, !["info"][d] = {clock'}]

OnlineDraw(d) ==
    /\ Online("draw")
    /\ db["drawings"][d] # {}
    /\ clock' = clock + 1
    /\ db' = [db EXCEPT !["strokes"][d] = @ \cup {clock'}]
    /\ UNCHANGED history

\* Someone leaves the drawing, which saves a preview.
OnlineSave(d) ==
    /\ Online("save")
    /\ db["info"][d] # {}
    /\ clock' = clock + 1
    /\ db' = [db EXCEPT !["info"][d] = {clock'}]
    /\ UNCHANGED history

OnlineDelete(d) ==
    /\ Online("delete")
    /\ db["drawings"][d] # {}
    /\ db' = [k \in Kinds |-> [db[k] EXCEPT ![d] = {}]]
    /\ UNCHANGED <<clock, history>>

(***************************************************************************)
(* Failures.                                                               *)
(***************************************************************************)

Fail == left.failures > 0 /\ left' = [left EXCEPT !.failures = @ - 1]

\* The process is killed, or a request of an upload fails.
Crash ==
    /\ Fail
    /\ EndProcess
    /\ UNCHANGED <<db, diskVars, clock>>

\* ... between the two files of a new drawing.
CrashWhileCreating(d) ==
    /\ Idle
    /\ d \in history.new
    /\ Fail
    /\ clock' = clock + 1
    /\ override' = [override EXCEPT !["drawings"][d] = {clock'}]
    /\ StopProcess
    /\ history' = [history EXCEPT !.new = @ \ {d}, !.lost = @ \cup {p[2] : p \in Unsaved}]
    /\ UNCHANGED <<db, cache, hashes>>

\* The exception of a writer's request ends its task.
FailPatch(v) ==
    /\ pages[v].writer = "online"
    /\ Fail
    /\ pages' = [pages EXCEPT ![v] = NoPage]
    /\ history' = [history EXCEPT !.lost = @ \cup pages[v].pending]
    /\ UNCHANGED <<db, diskVars, loggedIn, taskVars, clock>>

\* The file of the strokes cannot be written: the exception ends the writer, and the
\* page does not notice.
FailWrite(v) ==
    /\ pages[v].writer = "writing"
    /\ Fail
    /\ pages' = [pages EXCEPT ![v] = IF @.open THEN [@ EXCEPT !.writer = "ended", !.file = {}] ELSE NoPage]
    /\ history' = [history EXCEPT !.lost = @ \cup {q[2] : q \in UnsavedOn(v)}]
    /\ UNCHANGED <<db, diskVars, loggedIn, taskVars, clock>>

\* The download of the images fails, outside the loop's try.
FailDownload(n) ==
    /\ threads[n].at = "first"
    /\ loggedIn
    /\ Fail
    /\ threads' = [threads EXCEPT ![n].at = "ended"]
    /\ UNCHANGED <<OnlyThreads, history>>

\* A request or a write fails during a pass: the next one starts over.
FailPass(n) ==
    /\ threads[n].at \in {"reading", "writing"}
    /\ Fail
    /\ threads' = [threads EXCEPT ![n] = AtTop(n)]
    /\ UNCHANGED <<OnlyThreads, history>>

Offline ==
    \/ \E d \in Drawings : CreateDrawing(d) \/ GetDrawing(d)
    \/ \E v \in Visits :
         \/ UpdateStroke(v) \/ SaveDimensions(v) \/ SaveDrawingPreview(v)
         \/ TakeUpdates(v) \/ TakeNothing(v) \/ TestToken(v) \/ SerializeStrokes(v) \/ WriteStrokes(v)
         \/ PatchStrokes(v)

Session ==
    \/ Login \/ Logout
    \/ \E n \in Logins : CheckInfo(n) \/ SendNext(n) \/ ListDrawings(n) \/ ClearOverride(n)

Sync ==
    \E n \in Logins :
        \/ StartThread(n) \/ EndThread(n) \/ StartPass(n)
        \/ Once(n) \/ WriteFile(n) \/ FinishTarget(n)

Others ==
    \E d \in Drawings : OnlineCreate(d) \/ OnlineDraw(d) \/ OnlineSave(d) \/ OnlineDelete(d)

Failures ==
    \/ Crash
    \/ \E v \in Visits : FailPatch(v) \/ FailWrite(v)
    \/ \E d \in Drawings : CrashWhileCreating(d)
    \/ \E n \in Logins : FailDownload(n) \/ FailPass(n)

Next == Offline \/ Session \/ Sync \/ Others \/ Failures

\* What the threads, the requests and the continuations do by themselves.
Fairness ==
    /\ \A v \in Visits :
         /\ WF_vars(TakeUpdates(v)) /\ WF_vars(TestToken(v))
         /\ WF_vars(SerializeStrokes(v)) /\ WF_vars(WriteStrokes(v)) /\ WF_vars(PatchStrokes(v))
    /\ \A n \in Logins :
         /\ WF_vars(CheckInfo(n)) /\ WF_vars(SendNext(n))
         /\ WF_vars(ListDrawings(n)) /\ WF_vars(ClearOverride(n))
         /\ WF_vars(StartThread(n)) /\ WF_vars(EndThread(n)) /\ WF_vars(StartPass(n))
         /\ WF_vars(Once(n)) /\ WF_vars(WriteFile(n)) /\ WF_vars(FinishTarget(n))

Spec == Init /\ [][Next]_vars /\ Fairness

(***************************************************************************)
(* Properties.                                                             *)
(***************************************************************************)

\* A stroke that the user drew offline waits to be written, is in the override
\* folder, was in the database, or is lost for one of the reasons that the code
\* leaves: it was not written when the process ended, its PATCH or the write of its
\* file failed, or such a write had ended the writer of its page before; it was drawn
\* after the map was serialised, or the writer found nothing to take, and the page was
\* left before the test of the token; its file was written over by the writer of a
\* visit that had read it before; or the override was cleared although the drawing
\* was in conflict, had no info, or was written after the login (StateChanged,
\* ClearOverride).
OfflineWorkAccounted ==
    \A p \in history.own :
        \/ p[2] \in history.reached \cup history.lost
        \/ \E v \in Visits : pages[v].drawing = p[1] /\ p[2] \in Unwritten(v)
        \/ p[2] \in override["strokes"][p[1]]

\* An upload discards no stroke that the info in the database announced when the
\* upload looked at it (hashes[id] == GenerateHash(...)), unless the override was
\* made from strokes older than the cached info, or the strokes were sent after it.
UploadsDiscardNothingAnnounced ==
    [][\A n \in Logins : LET u == uploads[n] IN
        u.left # <<>> /\ Head(u.left) = "strokes" /\ u.id \notin history.torn /\ SendNext(n) =>
            \A e \in db["strokes"][u.id] \ db'["strokes"][u.id] :
                ~Announced(u.online, e)]_vars

\* A file that a pass leaves alone because of its hash has the content received,
\* unless two sync threads copied the target at once, or the value of the last hash
\* came back after another one was written (SlowSyncDatabaseRef).
SkipsOnlyWhatItHas ==
    \A n \in Logins : LET t == threads[n] IN
        t.at = "writing" =>
            \A d \in t.todo :
                \/ <<Targets[t.target], d>> \in history.doubtful
                \/ t.hashes[d] = t.objs[d] => cache[Targets[t.target]][d] = t.objs[d]

\* A login fails for want of a hash (hashes[id]) only if an earlier upload wrote
\* that info, the cached info has no hash yet, or two sync threads copied the infos
\* at once.
KeyIsMissedOnlyAfterTrouble ==
    \A n \in Logins : uploads[n].at = "uploading" /\ uploads[n].id = None =>
        \A d \in uploads[n].todo :
            KeyNotFound(n, d) =>
                \/ d \in history.begun \/ cache["info"][d] # {}
                \/ <<"info", d>> \in history.doubtful

\* While a user stays logged in with a running sync thread, what is read offline
\* becomes what is in the database, unless an override was written after the
\* login or a hash is doubtful; of an empty target the old files stay (SyncThread).
OfflineCopyCatchesUp ==
    <>[](loggedIn /\ \E n \in Logins : threads[n].at \notin {"none", "ended"}) =>
    <>[](\A i \in DOMAIN Targets, d \in Drawings \ history.late :
            LET k == Targets[i] IN
            \/ db[k] = NoValues
            \/ Get(k, d) = db[k][d]
            \/ <<k, d>> \in history.doubtful)
=============================================================================
