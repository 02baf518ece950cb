---------------------------- MODULE SyncedStrokes ----------------------------
(***************************************************************************)
(* Live editing of one drawing by several logged-in desktop clients        *)
(* (SyncedStrokesCollection.cs, and the strokes half of Drawing.cs).       *)
(*                                                                         *)
(* Every client keeps three maps from stroke ids: the last map received    *)
(* from the database (StrokesMap), the edits its writer thread has yet to  *)
(* send (StrokesToUpdate) and the edits it shows over the received map     *)
(* until the database echoes them (StrokesMapOverride).  The UI thread,    *)
(* the writer threads and the listener tasks of a client share the maps;   *)
(* the database applies one PATCH at a time and tells every subscription.  *)
(*                                                                         *)
(* A stroke's data is abstracted to the edit that produced it: who made    *)
(* it, its number among that client's edits, and whether it deletes the    *)
(* stroke (the null of the code).  The code never reads the number of a    *)
(* deletion: it is there only to tell edits apart.                         *)
(*                                                                         *)
(* The dictionaries hold references.  A transformation stamps the object   *)
(* that it finds in StrokesMap, and when that is the object of an earlier  *)
(* edit it changes under every copy of StrokesToUpdate that holds it too:  *)
(* inMap and shared say which entries are the same object.                 *)
(***************************************************************************)
EXTENDS Naturals, Sequences

CONSTANTS
    Clients,    \* the logged-in users that have the drawing open
    Strokes,    \* stroke ids (GUIDs)
    Initially,  \* the sets of strokes that may be in the database at first
    Creator,    \* the client that drew them in an earlier session
    Offset,     \* how far each client's clock is ahead (LastModificationDate)
    MaxEdits,   \* bound: UpdateStroke calls of each client
    MaxStarts,  \* bound: StartOnlineSync calls of one client
    RequestsFail, \* whether PATCH requests may fail
    None,       \* a key that no map ever had
    NoMap       \* StrokesMap = null: what Once returns for an absent node

Edit  == [by : Clients, at : Nat, gone : BOOLEAN]
Entry == Edit \cup {None}
Map   == [Strokes -> Entry]
Starts == 1..MaxStarts

ASSUME ClientsAssumption  == Creator \in Clients
ASSUME StrokesAssumption  == Initially \subseteq SUBSET Strokes
ASSUME OffsetAssumption   == Offset \in [Clients -> Nat]
ASSUME BoundsAssumption   == MaxEdits \in [Clients -> Nat] /\ MaxStarts \in Nat /\ RequestsFail \in BOOLEAN
ASSUME SentinelAssumption == None \notin Edit /\ NoMap \notin Map

VARIABLES
    db,         \* the database node strokes/<drawing>
    feed,       \* feed[c][k]: maps sent to c's k-th subscription, not handled yet
    StrokesMap, StrokesToUpdate, StrokesMapOverride,
    inMap,      \* inMap[c]: strokes whose StrokesMap object is the one that c last passed
                \*           to UpdateStroke
    start,      \* start[c][k]: c's k-th StartOnlineSync: "idle", "pulling", "done"
    pulled,     \* pulled[c][k]: the map Once read for it
    writer,     \* writer[c][k]: see WriterStates
    snapshot,   \* snapshot[c][k]: the writer's strokesSnapshot, then the PATCH body
    shared,     \* shared[c][k]: strokes whose object in strokesSnapshot is the one that
                \*               c last passed to UpdateStroke
    token,      \* token[c]: the newest cancellation token, numbered as its start (0: none)
    watched,    \* watched[c][k]: the token that the writer watches
    cancelled,  \* cancelled[c]: the cancelled tokens
    listener,   \* listener[c][k]: see ListenerStates
    seen,       \* seen[c][k]: the keys of StrokesMap when the listener began its purge
    doomed,     \* doomed[c][k]: overrides that the listener is about to remove
    stuck,      \* stuck[c]: IsRefreshingStrokes stayed true
    session,    \* session[c]: "open", "left" (Stop was called), "crashed"
    clock,      \* clock[c]: edits made by c
    own,        \* history: own[c][s] is c's latest edit of s
    written,    \* history: the edits that the database has held for each stroke
    restamped,  \* history: edits made on a stroke of a PATCH that awaited its token
    lost        \* history: the edits of each stroke that will never be sent

clientVars  == <<StrokesMap, inMap, StrokesToUpdate, StrokesMapOverride>>
startVars   == <<start, pulled>>
tokenVars   == <<token, watched, cancelled>>
bodyVars    == <<snapshot, shared, restamped>>
writerVars  == <<writer, bodyVars, tokenVars>>
listenVars  == <<listener, seen, doomed, stuck>>
databaseVars == <<db, feed, written>>
vars == <<databaseVars, clientVars, startVars, writerVars, listenVars,
          session, clock, own, lost>>

Present(e) == e # None /\ ~e.gone
NoEntry    == [s \in Strokes |-> None]

\* LastModificationDate: the clock of the machine that made the edit.
Date(e) == e.at + Offset[e.by]

Contains(map, s) == map # NoMap /\ Present(map[s])

\* GetMergedStrokeMaps: the overrides over the received map.
Merged(map, override) ==
    [s \in Strokes |-> IF override[s] # None THEN override[s]
                       ELSE IF map = NoMap THEN None ELSE map[s]]

View(c) == Merged(StrokesMap[c], StrokesMapOverride[c])

\* Some StrokesToUpdate entry of c is not empty.
HasUpdates(c) == \E s \in Strokes : StrokesToUpdate[c][s] # None

ListenerStates ==
    {"none", "connecting", "waiting", "checking", "purging", "refreshing", "ended"}
WriterStates == {"none", "queued", "looping", "copied", "asking", "sending", "dead"}

TypeOK ==
    /\ db \in Map
    /\ written \in [Strokes -> SUBSET Edit]
    /\ feed \in [Clients -> [Starts -> Seq(Map)]]
    /\ StrokesMap \in [Clients -> Map \cup {NoMap}]
    /\ StrokesToUpdate \in [Clients -> Map]
    /\ StrokesMapOverride \in [Clients -> Map]
    /\ inMap \in [Clients -> SUBSET Strokes]
    /\ start \in [Clients -> [Starts -> {"idle", "pulling", "done"}]]
    /\ pulled \in [Clients -> [Starts -> Map]]
    /\ writer \in [Clients -> [Starts -> WriterStates]]
    /\ snapshot \in [Clients -> [Starts -> Map]]
    /\ shared \in [Clients -> [Starts -> SUBSET Strokes]]
    /\ token \in [Clients -> Starts \cup {0}]
    /\ watched \in [Clients -> [Starts -> Starts \cup {0}]]
    /\ cancelled \in [Clients -> SUBSET Starts]
    /\ listener \in [Clients -> [Starts -> ListenerStates]]
    /\ seen \in [Clients -> [Starts -> SUBSET Strokes]]
    /\ doomed \in [Clients -> [Starts -> SUBSET Strokes]]
    /\ stuck \in [Clients -> BOOLEAN]
    /\ session \in [Clients -> {"open", "left", "crashed"}]
    /\ clock \in [Clients -> Nat]
    /\ own \in [Clients -> Map]
    /\ restamped \in [Strokes -> SUBSET Edit]
    /\ lost \in [Strokes -> SUBSET Edit]

Init ==
    /\ \E existing \in Initially : db = [s \in Strokes |->
               IF s \in existing THEN [by |-> Creator, at |-> 0, gone |-> FALSE] ELSE None]
    /\ written = [s \in Strokes |-> {db[s]} \ {None}]
    /\ feed = [c \in Clients |-> [k \in Starts |-> <<>>]]
    /\ StrokesMap = [c \in Clients |-> NoEntry]
    /\ StrokesToUpdate = [c \in Clients |-> NoEntry]
    /\ StrokesMapOverride = [c \in Clients |-> NoEntry]
    /\ inMap = [c \in Clients |-> {}]
    /\ start = [c \in Clients |-> [k \in Starts |-> "idle"]]
    /\ pulled = [c \in Clients |-> [k \in Starts |-> NoEntry]]
    /\ writer = [c \in Clients |-> [k \in Starts |-> "none"]]
    /\ snapshot = [c \in Clients |-> [k \in Starts |-> NoEntry]]
    /\ shared = [c \in Clients |-> [k \in Starts |-> {}]]
    /\ token = [c \in Clients |-> 0]
    /\ watched = [c \in Clients |-> [k \in Starts |-> 0]]
    /\ cancelled = [c \in Clients |-> {}]
    /\ listener = [c \in Clients |-> [k \in Starts |-> "none"]]
    /\ seen = [c \in Clients |-> [k \in Starts |-> {}]]
    /\ doomed = [c \in Clients |-> [k \in Starts |-> {}]]
    /\ stuck = [c \in Clients |-> FALSE]
    /\ session = [c \in Clients |-> "open"]
    /\ clock = [c \in Clients |-> 0]
    /\ own = [c \in Clients |-> NoEntry]
    /\ restamped = [s \in Strokes |-> {}]
    /\ lost = [s \in Strokes |-> {}]

(***************************************************************************)
(* The UI thread.  Users act on the merged list, which the ink canvas      *)
(* shows.  UpdateStroke runs to its end before anything else touches the   *)
(* two dictionaries it writes.                                             *)
(***************************************************************************)

\* Mutant: TryAdd, an edit that waits is not replaced.
UpdateStroke_KeepsFirst(c, touched, gone) ==
    LET e == [by |-> c, at |-> clock[c] + 1, gone |-> gone]
        Put(f) == [f EXCEPT ![c] = [s \in Strokes |-> IF s \in touched THEN e ELSE f[c][s]]]
    IN  /\ session[c] = "open"
        /\ clock[c] < MaxEdits[c]
        /\ touched # {}
        /\ clock' = [clock EXCEPT ![c] = @ + 1]
        /\ StrokesToUpdate' = [StrokesToUpdate EXCEPT ![c] = [s \in Strokes |->
              IF s \in touched /\ @[s] = None THEN e ELSE @[s]]]
        /\ StrokesMapOverride' = Put(StrokesMapOverride)
        /\ own' = Put(own)
        /\ UNCHANGED <<databaseVars, startVars, writer, tokenVars, listenVars, session, lost>>

\* Mutant: the author is not set.
UpdateStroke_NoAuthor(c, touched, gone) ==
    LET e == [by |-> None, at |-> clock[c] + 1, gone |-> gone]
        Put(f) == [f EXCEPT ![c] = [s \in Strokes |-> IF s \in touched THEN e ELSE f[c][s]]]
    IN  /\ session[c] = "open"
        /\ clock[c] < MaxEdits[c]
        /\ touched # {}
        /\ clock' = [clock EXCEPT ![c] = @ + 1]
        /\ StrokesToUpdate' = Put(StrokesToUpdate)
        /\ StrokesMapOverride' = Put(StrokesMapOverride)
        /\ own' = Put(own)
        /\ UNCHANGED <<databaseVars, startVars, writer, tokenVars, listenVars, session, lost>>

\* UpdateStroke of every stroke in touched: an edit, or a deletion when gone.
UpdateStroke(c, touched, gone) ==
    LET e == [by |-> c, at |-> clock[c] + 1, gone |-> gone]
        Put(f) == [f EXCEPT ![c] = [s \in Strokes |-> IF s \in touched THEN e ELSE f[c][s]]]
    IN  /\ session[c] = "open"
        /\ clock[c] < MaxEdits[c]
        /\ touched # {}
        /\ clock' = [clock EXCEPT ![c] = @ + 1]
        /\ StrokesToUpdate' = Put(StrokesToUpdate)
        /\ StrokesMapOverride' = Put(StrokesMapOverride)
        /\ own' = Put(own)
        /\ UNCHANGED <<databaseVars, startVars, writer, tokenVars, listenVars, session, lost>>

\* No client ever used the id: Guid.NewGuid.
IsFresh(s) == written[s] = {} /\ \A d \in Clients : own[d][s] = None

\* A stroke is added to the canvas (drawn, duplicated, redone): a new id.
\* OnStrokesChanged returns while IsRefreshingStrokes holds.
Draw(c, s) ==
    /\ ~stuck[c]
    /\ IsFresh(s)
    /\ UpdateStroke(c, {s}, FALSE)
    /\ UNCHANGED <<StrokesMap, inMap, bodyVars>>

\* The writers whose strokesSnapshot holds the object that StrokesMap holds for s.
SharingWriters(c, s) == {k \in Starts : s \in inMap[c] /\ s \in shared[c][k]}

\* OnSelectionTransformed: the object found in StrokesMap is stamped in place, in the
\* snapshots that share it too. An object that came from the database is shared
\* with none, and takes the place of the one that was.
Transform(c, s) ==
    LET e == own'[c][s]
    IN  /\ Contains(StrokesMap[c], s)
        /\ UpdateStroke(c, {s}, FALSE)
        /\ StrokesMap' = [StrokesMap EXCEPT ![c][s] = e]
        /\ inMap' = [inMap EXCEPT ![c] = @ \cup {s}]
        /\ snapshot' = [snapshot EXCEPT ![c] = [k \in Starts |->
              IF k \in SharingWriters(c, s) THEN [@[k] EXCEPT ![s] = e] ELSE @[k]]]
        /\ shared' = [shared EXCEPT ![c] = [k \in Starts |->
              IF s \in inMap[c] THEN @[k] ELSE @[k] \ {s}]]
        /\ restamped' = [restamped EXCEPT ![s] =
              IF \E k \in SharingWriters(c, s) : writer[c][k] = "asking" THEN @ \cup {e} ELSE @]

\* A stroke of the canvas is erased.
Erase(c, s) ==
    /\ ~stuck[c]
    /\ Present(View(c)[s])
    /\ UpdateStroke(c, {s}, TRUE)
    /\ UNCHANGED <<StrokesMap, inMap, bodyVars>>

\* GetMergedStrokeMaps puts the objects of the overrides into StrokesMap.
MergeInto(c) ==
    /\ StrokesMap' = [StrokesMap EXCEPT ![c] = View(c)]
    /\ inMap' = [inMap EXCEPT ![c] = {s \in Strokes :
          LET o == StrokesMapOverride[c][s] IN IF o = None THEN s \in @ ELSE ~o.gone}]

\* Undo: merges, then deletes a stroke whose last author is the user.
Undo(c, s) ==
    /\ StrokesMap[c] # NoMap
    /\ Present(View(c)[s])
    /\ View(c)[s].by = c
    /\ MergeInto(c)
    /\ UpdateStroke(c, {s}, TRUE)
    /\ UNCHANGED bodyVars

\* Reset: merges, then deletes every stroke of the list.
Reset(c) ==
    /\ StrokesMap[c] # NoMap
    /\ MergeInto(c)
    /\ UpdateStroke(c, {s \in Strokes : Present(View(c)[s])}, TRUE)
    /\ UNCHANGED bodyVars

\* The bodies that were sent outlive the process.
SentBodies(c, s) == {snapshot[c][k][s] : k \in {k \in Starts : writer[c][k] = "sending"}}

\* An exception that nobody catches on the UI thread ends the process: the edits
\* that are in no PATCH that was sent are gone.
Crash(c) ==
    LET dies(k) == writer[c][k] \notin {"none", "sending"}
    IN  /\ session' = [session EXCEPT ![c] = "crashed"]
        /\ writer' = [writer EXCEPT ![c] = [k \in Starts |-> IF dies(k) THEN "dead" ELSE @[k]]]
        /\ snapshot' = [snapshot EXCEPT ![c] = [k \in Starts |-> IF dies(k) THEN NoEntry ELSE @[k]]]
        /\ shared' = [shared EXCEPT ![c] = [k \in Starts |-> {}]]
        /\ StrokesToUpdate' = [StrokesToUpdate EXCEPT ![c] = NoEntry]
        /\ lost' = [s \in Strokes |-> lost[s] \cup
              (({StrokesToUpdate[c][s]} \cup {snapshot[c][k][s] : k \in Starts})
                  \ ({None} \cup written[s] \cup SentBodies(c, s)))]

\* Undo, Reset or a transformation dereferences the null map.
CrashOnNullMap(c) ==
    /\ session[c] = "open"
    /\ StrokesMap[c] = NoMap
    /\ Crash(c)
    /\ UNCHANGED <<databaseVars, StrokesMap, inMap, StrokesMapOverride, startVars, restamped,
                   tokenVars, listenVars, clock, own>>

\* Stop: the user leaves the drawing. StopSync cancels the newest token; the
\* writers that watch another one and every subscription stay.
StopSync(c) ==
    /\ session[c] = "open"
    /\ session' = [session EXCEPT ![c] = "left"]
    /\ cancelled' = [cancelled EXCEPT ![c] = @ \cup ({token[c]} \ {0})]
    /\ UNCHANGED <<databaseVars, clientVars, startVars, writer, bodyVars, token, watched,
                   listenVars, clock, own, lost>>

(***************************************************************************)
(* StartOnlineSync: the constructor calls it, then ToggleSync when its own *)
(* write returns, then every change of the current user.                   *)
(***************************************************************************)

\* PullStrokes asks for the strokes; the answer comes later.
StartOnlineSync(c, k) ==
    /\ session[c] # "crashed"
    /\ start[c][k] = "idle"
    /\ \A j \in Starts : j < k => start[c][j] # "idle"
    /\ start' = [start EXCEPT ![c][k] = "pulling"]
    /\ pulled' = [pulled EXCEPT ![c][k] = db]
    /\ UNCHANGED <<databaseVars, clientVars, writerVars, listenVars, session, clock, own, lost>>

\* The request fails: StartOnlineSync is async void, nothing catches it.
FailPull(c, k) ==
    /\ session[c] # "crashed"
    /\ start[c][k] = "pulling"
    /\ RequestsFail
    /\ Crash(c)
    /\ UNCHANGED <<databaseVars, StrokesMap, inMap, StrokesMapOverride, startVars, restamped,
                   tokenVars, listenVars, clock, own>>

\* Mutant: the strokes that were pulled are sent back.
ContinueStart_SendsPulled(c, k) ==
    /\ session[c] # "crashed"
    /\ start[c][k] = "pulling"
    /\ start' = [start EXCEPT ![c][k] = "done"]
    /\ StrokesMap' = [StrokesMap EXCEPT ![c] = pulled[c][k]]
    /\ StrokesToUpdate' = [StrokesToUpdate EXCEPT ![c] =
                              [s \in Strokes |-> IF @[s] # None THEN @[s] ELSE pulled[c][k][s]]]
    /\ pulled' = [pulled EXCEPT ![c][k] = NoEntry]
    /\ listener' = [listener EXCEPT ![c][k] = "connecting"]
    /\ token' = [token EXCEPT ![c] = k]
    /\ writer' = [writer EXCEPT ![c][k] = "queued"]
    /\ inMap' = [inMap EXCEPT ![c] = {}]
    /\ UNCHANGED <<databaseVars, StrokesMapOverride, bodyVars, watched, cancelled,
                   seen, doomed, stuck, session, clock, own, lost>>

\* The answer arrives. A deletion among the edits to send is a null that the
\* loop over StrokesToUpdate dereferences.
ContinueStart(c, k) ==
    /\ session[c] # "crashed"
    /\ start[c][k] = "pulling"
    /\ start' = [start EXCEPT ![c][k] = "done"]
    /\ StrokesMap' = [StrokesMap EXCEPT ![c] =
                        IF \E s \in Strokes : Present(pulled[c][k][s]) THEN pulled[c][k] ELSE NoMap]
    /\ inMap' = [inMap EXCEPT ![c] = {}]
    /\ pulled' = [pulled EXCEPT ![c][k] = NoEntry]
    /\ token' = [token EXCEPT ![c] = k]
    /\ IF \E s \in Strokes : StrokesToUpdate[c][s] # None /\ StrokesToUpdate[c][s].gone
       THEN /\ Crash(c)
            /\ UNCHANGED listener
       ELSE /\ listener' = [listener EXCEPT ![c][k] = "connecting"]
            /\ writer' = [writer EXCEPT ![c][k] = "queued"]
            /\ UNCHANGED <<session, snapshot, shared, StrokesToUpdate, lost>>
    /\ UNCHANGED <<databaseVars, StrokesMapOverride, restamped, watched, cancelled,
                   seen, doomed, stuck, clock, own>>

(***************************************************************************)
(* StrokesWriterThread. It tests its token once in a loop, then sleeps:    *)
(* a writer that is "looping" may copy once more after the cancellation.   *)
(***************************************************************************)

\* The test of the token.
TopOfLoop(c, watching) == IF watching \in cancelled[c] THEN "dead" ELSE "looping"

\* Task.Run reads CancellationTokenSource when the pool runs the task: it may
\* be the one of a later start by then.
StartWriter(c, k) ==
    /\ session[c] # "crashed"
    /\ writer[c][k] = "queued"
    /\ watched' = [watched EXCEPT ![c][k] = token[c]]
    /\ writer' = [writer EXCEPT ![c][k] = TopOfLoop(c, token[c])]
    /\ UNCHANGED <<databaseVars, clientVars, startVars, bodyVars, token, cancelled, listenVars,
                   session, clock, own, lost>>

\* The token was cancelled since the writer started or since its last request.
EndWriter(c, k) ==
    /\ session[c] # "crashed"
    /\ writer[c][k] = "looping"
    /\ watched[c][k] \in cancelled[c]
    /\ writer' = [writer EXCEPT ![c][k] = "dead"]
    /\ UNCHANGED <<databaseVars, clientVars, startVars, bodyVars, tokenVars, listenVars,
                   session, clock, own, lost>>

\* Mutant: no lock, two writers copy the same edits.
CopyUpdates_NoLock(c, k) ==
    /\ session[c] # "crashed"
    /\ writer[c][k] = "looping"
    /\ HasUpdates(c)
    /\ snapshot' = [snapshot EXCEPT ![c][k] = StrokesToUpdate[c]]
    /\ shared' = [shared EXCEPT ![c][k] = {s \in Strokes : Present(StrokesToUpdate[c][s])}]
    /\ writer' = [writer EXCEPT ![c][k] = "copied"]
    /\ UNCHANGED <<databaseVars, clientVars, startVars, tokenVars, listenVars, restamped,
                   session, clock, own, lost>>

\* Mutant: a single edit is not enough to send.
CopyUpdates_OffByOne(c, k) ==
    /\ \E s, t \in Strokes : s # t /\ StrokesToUpdate[c][s] # None /\ StrokesToUpdate[c][t] # None
    /\ CopyUpdates_NoLock(c, k)

\* Under StrokesLock, which UpdateStroke does not take. The copy is shallow: it holds
\* the objects of StrokesToUpdate.
CopyUpdates(c, k) ==
    /\ session[c] # "crashed"
    /\ writer[c][k] = "looping"
    /\ HasUpdates(c)
    /\ \A j \in Starts : writer[c][j] # "copied"
    /\ snapshot' = [snapshot EXCEPT ![c][k] = StrokesToUpdate[c]]
    /\ shared' = [shared EXCEPT ![c][k] = {s \in Strokes : Present(StrokesToUpdate[c][s])}]
    /\ writer' = [writer EXCEPT ![c][k] = "copied"]
    /\ UNCHANGED <<databaseVars, clientVars, startVars, tokenVars, listenVars, restamped,
                   session, clock, own, lost>>

\* An edit made since the copy is cleared with the rest: it is lost unless it was made
\* on an object of a snapshot.
ClearUpdates(c, k) ==
    /\ session[c] # "crashed"
    /\ writer[c][k] = "copied"
    /\ writer' = [writer EXCEPT ![c][k] = "asking"]
    /\ StrokesToUpdate' = [StrokesToUpdate EXCEPT ![c] = NoEntry]
    /\ lost' = [s \in Strokes |-> lost[s] \cup
          ({StrokesToUpdate[c][s]} \ ({None} \cup written[s] \cup {snapshot[c][j][s] : j \in Starts}))]
    /\ UNCHANGED <<databaseVars, StrokesMap, inMap, StrokesMapOverride, startVars, bodyVars,
                   tokenVars, listenVars, session, clock, own>>

\* Query.Update has its token: the body is what the objects of the snapshot say now.
SerializePatch(c, k) ==
    /\ session[c] # "crashed"
    /\ writer[c][k] = "asking"
    /\ writer' = [writer EXCEPT ![c][k] = "sending"]
    /\ shared' = [shared EXCEPT ![c][k] = {}]
    /\ UNCHANGED <<databaseVars, clientVars, startVars, snapshot, restamped, tokenVars, listenVars,
                   session, clock, own, lost>>

\* The stream of c's k-th subscription is open.
IsSubscribed(c, k) ==
    session[c] # "crashed" /\ listener[c][k] \notin {"none", "connecting", "ended"}

\* The database applies the PATCH (its nulls delete keys) and tells every
\* subscription. A request that was sent outlives its client; when the answer
\* is lost the writer ends on the exception.
ApplyPatch(c, k) ==
    /\ writer[c][k] = "sending"
    /\ db' = [s \in Strokes |-> IF snapshot[c][k][s] # None THEN snapshot[c][k][s] ELSE db[s]]
    /\ written' = [s \in Strokes |-> written[s] \cup ({snapshot[c][k][s]} \ {None})]
    /\ feed' = [d \in Clients |-> [j \in Starts |->
                  IF IsSubscribed(d, j) THEN Append(feed[d][j], db') ELSE feed[d][j]]]
    /\ \/ writer' = [writer EXCEPT ![c][k] = TopOfLoop(c, watched[c][k])]
       \/ RequestsFail /\ writer' = [writer EXCEPT ![c][k] = "dead"]
    /\ snapshot' = [snapshot EXCEPT ![c][k] = NoEntry]
    /\ UNCHANGED <<clientVars, startVars, shared, restamped, tokenVars, listenVars,
                   session, clock, own, lost>>

\* There is no token, or the request fails: the exception ends the writer, and the
\* snapshot with it. An answer with an error status is not looked at.
FailPatch(c, k) ==
    /\ writer[c][k] \in {"asking", "sending"}
    /\ RequestsFail
    /\ \/ writer' = [writer EXCEPT ![c][k] = "dead"]
       \/ /\ writer[c][k] = "sending"
          /\ writer' = [writer EXCEPT ![c][k] = TopOfLoop(c, watched[c][k])]
    /\ snapshot' = [snapshot EXCEPT ![c][k] = NoEntry]
    /\ shared' = [shared EXCEPT ![c][k] = {}]
    /\ lost' = [s \in Strokes |-> lost[s] \cup
          ({snapshot[c][k][s]} \ ({None, StrokesToUpdate[c][s]} \cup written[s]
                                     \cup {snapshot[c][j][s] : j \in Starts \ {k}}))]
    /\ UNCHANGED <<databaseVars, clientVars, startVars, restamped, tokenVars, listenVars,
                   session, clock, own>>

(***************************************************************************)
(* SyncRemoteStrokesToLocal, on the listener task of each subscription.    *)
(***************************************************************************)

\* Mutant: the stream only tells what changes.
Connect_NoInitialValue(c, k) ==
    /\ session[c] # "crashed"
    /\ listener[c][k] = "connecting"
    /\ listener' = [listener EXCEPT ![c][k] = "waiting"]
    /\ UNCHANGED <<databaseVars, clientVars, startVars, writerVars, seen, doomed, stuck,
                   session, clock, own, lost>>

\* OnValue: the stream opens with the whole node.
Connect(c, k) ==
    /\ session[c] # "crashed"
    /\ listener[c][k] = "connecting"
    /\ listener' = [listener EXCEPT ![c][k] = "waiting"]
    /\ feed' = [feed EXCEPT ![c][k] = <<db>>]
    /\ UNCHANGED <<db, written, clientVars, startVars, writerVars, seen, doomed, stuck,
                   session, clock, own, lost>>

\* Mutant: the received strokes are added to the known ones.
ReceiveStrokes_KeepsMissing(c, k) ==
    /\ session[c] # "crashed"
    /\ listener[c][k] = "waiting"
    /\ feed[c][k] # <<>>
    /\ StrokesMap' = [StrokesMap EXCEPT ![c] = [s \in Strokes |->
                        IF Present(Head(feed[c][k])[s]) \/ @ = NoMap
                        THEN Head(feed[c][k])[s] ELSE @[s]]]
    /\ feed' = [feed EXCEPT ![c][k] = Tail(@)]
    /\ inMap' = [inMap EXCEPT ![c] = {}]
    /\ seen' = [seen EXCEPT ![c][k] = {s \in Strokes : Contains(StrokesMap'[c], s)}]
    /\ listener' = [listener EXCEPT ![c][k] = "checking"]
    /\ UNCHANGED <<db, written, StrokesToUpdate, StrokesMapOverride, startVars, writerVars,
                   doomed, stuck, session, clock, own, lost>>

\* StrokesMap = strokes. PurgeOverrideMap begins to read it.
ReceiveStrokes(c, k) ==
    /\ session[c] # "crashed"
    /\ listener[c][k] = "waiting"
    /\ feed[c][k] # <<>>
    /\ StrokesMap' = [StrokesMap EXCEPT ![c] = Head(feed[c][k])]
    /\ feed' = [feed EXCEPT ![c][k] = Tail(@)]
    /\ inMap' = [inMap EXCEPT ![c] = {}]
    /\ seen' = [seen EXCEPT ![c][k] = {s \in Strokes : Contains(StrokesMap'[c], s)}]
    /\ listener' = [listener EXCEPT ![c][k] = "checking"]
    /\ UNCHANGED <<db, written, StrokesToUpdate, StrokesMapOverride, startVars, writerVars,
                   doomed, stuck, session, clock, own, lost>>

\* The overrides of c that the received map makes useless.
Acknowledged(c) ==
    {s \in Strokes :
        LET o == StrokesMapOverride[c][s]
        IN  \/ Present(o) /\ Contains(StrokesMap[c], s) /\ Date(StrokesMap[c][s]) >= Date(o)
            \/ o # None /\ o.gone /\ ~Contains(StrokesMap[c], s)}

\* PurgeOverrideMap tests the entries ...
CheckOverrides(c, k) ==
    /\ session[c] # "crashed"
    /\ listener[c][k] = "checking"
    /\ StrokesMap[c] # NoMap \/ StrokesMapOverride[c] = NoEntry
    /\ seen' = [seen EXCEPT ![c][k] = {}]
    /\ doomed' = [doomed EXCEPT ![c][k] = Acknowledged(c)]
    /\ listener' = [listener EXCEPT ![c][k] = "purging"]
    /\ UNCHANGED <<databaseVars, clientVars, startVars, writerVars, stuck,
                   session, clock, own, lost>>

\* Mutant: purges until no override is left.
PurgeOverrides_UntilEmpty(c, k) ==
    /\ session[c] # "crashed"
    /\ listener[c][k] = "purging"
    /\ StrokesMapOverride' = [StrokesMapOverride EXCEPT ![c] =
            [s \in Strokes |-> IF s \in doomed[c][k] THEN None ELSE @[s]]]
    /\ doomed' = [doomed EXCEPT ![c][k] = {}]
    /\ listener' = [listener EXCEPT ![c][k] =
                      IF StrokesMapOverride'[c] = NoEntry THEN "refreshing" ELSE "checking"]
    /\ UNCHANGED <<databaseVars, StrokesMap, inMap, StrokesToUpdate, startVars, writerVars,
                   seen, stuck, session, clock, own, lost>>

\* ... and removes them by key, whatever they hold by then.
PurgeOverrides(c, k) ==
    /\ session[c] # "crashed"
    /\ listener[c][k] = "purging"
    /\ StrokesMapOverride' = [StrokesMapOverride EXCEPT ![c] =
            [s \in Strokes |-> IF s \in doomed[c][k] THEN None ELSE @[s]]]
    /\ doomed' = [doomed EXCEPT ![c][k] = {}]
    /\ listener' = [listener EXCEPT ![c][k] = "refreshing"]
    /\ UNCHANGED <<databaseVars, StrokesMap, inMap, StrokesToUpdate, startVars, writerVars,
                   seen, stuck, session, clock, own, lost>>

\* StrokesUpdated: the UI thread merges and redraws, with IsRefreshingStrokes set.
RefreshCanvas(c, k) ==
    /\ session[c] # "crashed"
    /\ listener[c][k] = "refreshing"
    /\ StrokesMap[c] # NoMap
    /\ MergeInto(c)
    /\ stuck' = [stuck EXCEPT ![c] = FALSE]
    /\ listener' = [listener EXCEPT ![c][k] = "waiting"]
    /\ UNCHANGED <<databaseVars, StrokesToUpdate, StrokesMapOverride, startVars, writerVars,
                   seen, doomed, session, clock, own, lost>>

\* PurgeOverrideMap reads StrokesMap twice for an edit: a key that was there is not in
\* the map of another start or listener.
KeyVanished(c, k) ==
    \E s \in seen[c][k] : Present(StrokesMapOverride[c][s]) /\ ~Contains(StrokesMap[c], s)

\* A null is dereferenced, as a second start pulled null meanwhile or a key vanished, and
\* the exception ends the listener task. Thrown while the canvas is refreshed it leaves
\* IsRefreshingStrokes true.
EndListener(c, k) ==
    /\ session[c] # "crashed"
    /\ \/ /\ listener[c][k] = "checking"
          /\ \/ StrokesMap[c] = NoMap /\ StrokesMapOverride[c] # NoEntry
             \/ KeyVanished(c, k)
          /\ UNCHANGED stuck
       \/ /\ listener[c][k] = "refreshing"
          /\ StrokesMap[c] = NoMap
          /\ stuck' = [stuck EXCEPT ![c] = TRUE]
    /\ listener' = [listener EXCEPT ![c][k] = "ended"]
    /\ seen' = [seen EXCEPT ![c][k] = {}]
    /\ UNCHANGED <<databaseVars, clientVars, startVars, writerVars, doomed,
                   session, clock, own, lost>>

UserAction(c) ==
    \/ \E s \in Strokes : Draw(c, s) \/ Transform(c, s) \/ Erase(c, s) \/ Undo(c, s)
    \/ Reset(c) \/ CrashOnNullMap(c) \/ StopSync(c)

SystemAction(c, k) ==
    \/ ContinueStart(c, k)
    \/ StartWriter(c, k) \/ EndWriter(c, k)
    \/ CopyUpdates(c, k) \/ ClearUpdates(c, k) \/ SerializePatch(c, k) \/ ApplyPatch(c, k)
    \/ Connect(c, k) \/ ReceiveStrokes(c, k) \/ CheckOverrides(c, k)
    \/ PurgeOverrides(c, k) \/ RefreshCanvas(c, k) \/ EndListener(c, k)

Next == \E c \in Clients :
    \/ UserAction(c)
    \/ \E k \in Starts : StartOnlineSync(c, k) \/ SystemAction(c, k) \/ FailPull(c, k) \/ FailPatch(c, k)

Spec == Init /\ [][Next]_vars

\* Threads, tasks and requests go on; users and failures owe nothing.
Fairness == \A c \in Clients : \A k \in Starts :
    /\ WF_vars(ContinueStart(c, k)) /\ WF_vars(StartWriter(c, k))
    /\ WF_vars(CopyUpdates(c, k)) /\ WF_vars(ClearUpdates(c, k))
    /\ WF_vars(SerializePatch(c, k)) /\ WF_vars(ApplyPatch(c, k))
    /\ WF_vars(Connect(c, k)) /\ WF_vars(ReceiveStrokes(c, k))
    /\ WF_vars(CheckOverrides(c, k)) /\ WF_vars(PurgeOverrides(c, k))
    /\ WF_vars(RefreshCanvas(c, k))

FairSpec == Spec /\ Fairness

(***************************************************************************)
(* Properties.                                                             *)
(***************************************************************************)

Shown(e) == IF Present(e) THEN e ELSE None

\* Nothing is left for the threads, tasks and requests to do.
Quiet ==
    \A c \in Clients : \A k \in Starts :
        /\ writer[c][k] # "sending"
        /\ session[c] # "crashed" =>
             /\ start[c][k] # "pulling"
             /\ writer[c][k] \notin {"queued", "copied", "asking"}
             /\ HasUpdates(c) => writer[c][k] # "looping"
             /\ listener[c][k] \in {"none", "waiting", "ended"}
             /\ listener[c][k] = "waiting" => feed[c][k] = <<>>

\* c shows what a subscription that still works told it.
IsOnline(c) == session[c] = "open" /\ \E k \in Starts : listener[c][k] = "waiting"

\* A client's latest edit of a stroke is waiting for its writer, in a writer's
\* snapshot, or was applied by the database, unless it was made between the
\* writer's copy and its Clear on an object that no snapshot holds, went with a
\* failed request or with the process: no edit gets lost in any other way
\* (StrokesWriterThread).
EditsAccounted ==
    \A c \in Clients : \A s \in Strokes :
        \/ own[c][s] \in {None, StrokesToUpdate[c][s]} \cup written[s] \cup lost[s]
        \/ \E k \in Starts : own[c][s] = snapshot[c][k][s]

\* When everything is delivered, a client whose own edits of a stroke were all
\* sent shows what the database holds for it or its own latest edit: never
\* somebody else's outdated version, an own outdated one or a stroke deleted by
\* someone else (SyncRemoteStrokesToLocal, PurgeOverrideMap, GetMergedStrokeMaps).
QuietViews ==
    Quiet => \A c \in Clients : \A s \in Strokes :
        /\ IsOnline(c)
        /\ StrokesToUpdate[c][s] = None
        /\ own[c][s] \notin lost[s]
        => \/ Shown(View(c)[s]) = Shown(db[s])
           \/ own[c][s] # None /\ Shown(View(c)[s]) = Shown(own[c][s])

\* The clients that edited s in this session, and in an earlier one.
Editors(s) == {c \in Clients : own[c][s] # None}

\* When one client alone edits a stroke and none of its edits got lost, all
\* clients end up showing that client's latest edit of it
\* (PurgeOverrideMap drops the override of the editor, nobody else has one).
SoleEditorConverges ==
    Quiet => \A c \in Clients : \A s \in Strokes :
        /\ Editors(s) = {c}
        /\ lost[s] = {}
        /\ StrokesToUpdate[c][s] = None
        => \A d \in Clients : IsOnline(d) => Shown(View(d)[s]) = Shown(own[c][s])

\* The database never takes an edit of a client after a later one of the same
\* client, and takes an edit twice only when it was made on a stroke of a PATCH that
\* awaited its token (it is then in this PATCH and in the next): the writer waits for
\* each PATCH before it copies again. (With one StartOnlineSync: two writers race.)
OwnEditsInOrder ==
    [][\A s \in Strokes : db'[s] # db[s] =>
          \A f \in written[s] : f.by = db'[s].by =>
              f.at < db'[s].at \/ (f = db'[s] /\ f \in restamped[s])]_vars

\* The merged list is the most recent one available: a client that made a
\* later edit of a stroke is not shown its own earlier version of it.
MergedListIsMostRecent ==
    \A c \in Clients : \A s \in Strokes :
        LET e == View(c)[s]
        IN  Present(e) /\ e.by = c /\ own[c][s] # None => e = own[c][s]

\* Edits made while the writer works are taken from StrokesToUpdate.
UpdatesAreTaken ==
    \A c \in Clients :
        HasUpdates(c) ~> \/ ~HasUpdates(c)
                         \/ session[c] # "open"
                         \/ \A k \in Starts : writer[c][k] \in {"none", "dead"}

\* The threads and tasks of a drawing come to rest once its users do.
ComesToRest == <>[]Quiet

(***************************************************************************)
(* Every edit waits, goes with one request, or with those whose objects it *)
(* was made on, or is dropped (StrokeLog). The queue is what the writers   *)
(* have yet to copy: what one copied is in its request, cleared or not.    *)
(***************************************************************************)
Queue(c) == [s \in Strokes |->
    IF \E k \in Starts : writer[c][k] = "copied" /\ snapshot[c][k][s] = StrokesToUpdate[c][s]
    THEN None ELSE StrokesToUpdate[c][s]]

\* The requests whose body is not serialised yet.
OpenRequests(c) == {k \in Starts : writer[c][k] \in {"copied", "asking"}}

Log == INSTANCE StrokeLog WITH
    Requests <- Starts, count <- clock, requests <- snapshot,
    queue <- [c \in Clients |-> Queue(c)], open <- [c \in Clients |-> OpenRequests(c)]

AppliedOncePerRequest == Log!Spec

(***************************************************************************)
(* What the proofs need besides: the inductive invariants.                 *)
(***************************************************************************)

\* There is no writer before its start is done; a writer holds a snapshot only between
\* its copy and the answer, and shares objects of it until it is serialised; only what
\* was sent outlives the process.
SnapshotsInUse ==
    \A c \in Clients : \A k \in Starts :
        /\ start[c][k] # "done" => writer[c][k] = "none"
        /\ writer[c][k] \notin {"copied", "asking", "sending"} => snapshot[c][k] = NoEntry
        /\ writer[c][k] \notin {"copied", "asking"} => shared[c][k] = {}
        /\ session[c] = "crashed" => writer[c][k] \notin {"copied", "asking"}

AccountInv == TypeOK /\ EditsAccounted /\ SnapshotsInUse

\* c holds only edits of its own that it made already, and a snapshot shares objects of
\* its edits.
Apart(c, s) ==
    /\ StrokesToUpdate[c][s] # None =>
          StrokesToUpdate[c][s].by = c /\ StrokesToUpdate[c][s].at <= clock[c]
    /\ \A k \in Starts :
          /\ snapshot[c][k][s] # None =>
                snapshot[c][k][s].by = c /\ snapshot[c][k][s].at <= clock[c]
          /\ s \in shared[c][k] => snapshot[c][k][s] # None

ApartInv ==
    /\ AccountInv
    /\ \A s \in Strokes : \A f \in written[s] : f.at <= clock[f.by]
    /\ \A c \in Clients : \A s \in Strokes : Apart(c, s)

\* e is newer than all of c's edits of s that were applied, unless it was applied with a
\* request on whose stroke it was made.
IsNewest(c, s, e) ==
    \A f \in written[s] : f.by = c => f.at < e.at \/ (f = e /\ e \in restamped[s])

\* c's edits of s that are applied, in a snapshot and to send follow each other.
InOrder(c, s) ==
    /\ StrokesToUpdate[c][s] # None => IsNewest(c, s, StrokesToUpdate[c][s])
    /\ \A k \in Starts : snapshot[c][k][s] # None =>
          /\ IsNewest(c, s, snapshot[c][k][s])
          /\ StrokesToUpdate[c][s] # None =>
                \/ snapshot[c][k][s].at < StrokesToUpdate[c][s].at
                \/ /\ snapshot[c][k][s] = StrokesToUpdate[c][s]
                   /\ writer[c][k] = "copied" \/ snapshot[c][k][s] \in restamped[s]

OrderInv == ApartInv /\ \A c \in Clients : \A s \in Strokes : InOrder(c, s)
=============================================================================
