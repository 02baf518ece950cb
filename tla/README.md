# PolyPaint Pro: models and proofs

PolyPaint Pro is a collaborative drawing application with a social part (posts,
messages, stories, achievements). A WPF desktop client and an iPad client share one
Firebase project; there is no server of their own besides a few Cloud Functions.
This directory holds TLA+ models of its core logic, TLC configurations that check
them on small instances, and TLAPS proofs of the properties that matter most.

    tlc -workers 2 -config MCSyncedStrokes_editors.cfg MCSyncedStrokes
    tlc -workers 2 -config MCDrawingSession_sessions.cfg MCDrawingSession
    tlc -workers 2 -config MCOfflineCache_work.cfg MCOfflineCache
    tlc -workers 2 -config MCDatabaseStream_stream.cfg MCDatabaseStream
    tlc -workers 2 -config MCCommunity_social.cfg MCCommunity
    tlc -workers 2 -config MCGallery_gallery.cfg MCGallery
    tlapm SyncedStrokesProofs.tla      (and the other *Proofs.tla)

## 1. Inventory

Paths are under `src/`; `D/` is `desktop/PolyPaint/`.

| Component, module | State | Operations | What makes it hard | What makes it correct |
|---|---|---|---|---|
| Live drawing synchronisation, `D/Services/Drawing/SyncedStrokesCollection.cs`: `SyncedStrokes` | received map, edits to send, overrides; writer threads; a subscription per start | StartOnlineSync, PullStrokes, UpdateStroke, writer loop, SyncRemoteStrokesToLocal, PurgeOverrideMap, GetMergedStrokeMaps, StopSync | UI thread, writers and listener tasks share three maps with one partial lock; started twice; clocks of several machines; null answers | no edit disappears, none is applied twice or out of order, clients converge |
| Drawing session and selection, `D/Services/Drawing/Drawing.cs`: `DrawingSession` | DrawingModel (with the selection locks of all users), own selection, undo stack, clipboard | select, transform, undo, redo, cut, duplicate, reset, erase, settings, kick-out | locks derived from a stale copy; whole-model writes over concurrent updates | one selector per stroke, no lock survives its owner, a private drawing is nobody else's |
| Offline cache, `D/Services/Cache/CacheService.cs`, `LocalDrawingService.cs`: `OfflineCache` | cache and override folders, hashes, file mapping | login: upload then clear; SyncThread; Write; Get* | crash between writes; logout during an upload; several sync threads; work done while uploading | an offline edit is uploaded or still on disk |
| Realtime database client, `desktop/Slofth.Firebase/Database`: `DatabaseStream` | local copy of a node, stream, token | put, patch, keep-alive, cancel, auth-revoked events, Stop | partial events, nested paths, expired tokens, end of stream | the copy takes the values of the node one after the other |
| Drawing catalogue, `D/Services/Drawing/DrawingService.cs`: `DrawingLife` | model, info, strokes and users' entries of a drawing | create, open, preview, report, delete, list | four nodes written one by one | a listing does not fail, what is deleted stays hidden |
| Achievements, `D/Services/Achievements`, `server/functions/functions/achievements.trigger.ts`: `Achievements` | metrics, completed, running functions | increment, update, triggers, the page | read-then-set counters, functions that start each other and run twice | counts are exact, completion follows them |
| Messaging, `D/Services/Messaging`, `ViewModels/Messaging`: `Messaging` | conversations, messages, chat boxes, subscriptions | send, open, close, read and subscribe | item seen twice, or between read, subscription and handler; two openings share a collection | every item is shown, once |
| Stories, `D/Services/Stories`: `Stories` | drawings of a story with indexes, its last day | append, remove, expire | whole-story read-modify-write | appended drawings stay, in order |
| Mail, `D/Services/Mail`: `DrawingLife` | reports, the tag that a mail was sent | at login: read, mail, tag | two sessions, failure between mail and tag | one mail |
| Profiles and follows, `D/Services/Social`, `ipad/ipad/Services/UsersService.swift`: `Follows` | an entry of the follower, one in the list of each client | toggle, refresh; follow, unfollow | two writes, two clients with different conventions | the entries of the last client agree |
| iPad synchronisation, `ipad/ipad/Services/DrawingService.swift`: `TabletSync` | drawings drawn signed out, marks, the SDK's queue | draw, syncData, fetchDrawing | marks removed before the answer; a date compared once | work done signed out is accounted for |
| Authentication and navigation, `D/Services/Authentication`, `D/ViewModels` | current user, open view | login, logout, open, leave | events during a logout | no work for a user that is gone |
| Views, converters, models, export and social-network calls | none of their own | | | not modelled |

The components meet in the database: `Drawing` owns a `SyncedStrokeCollection` (calls,
and the `StrokesUpdated` callback), both subscribe to their nodes through
`FirebaseObservable` (callbacks on its task), the cache service replaces the online
services when nobody is logged in, and the Cloud Functions react to writes: a message
or a follow of `Messaging` and `Follows` is counted by `Achievements`.

## 2. Plan

Done:

1. `SyncedStrokes`, its abstract specification `StrokeLog`, and the proofs.
2. `DrawingSession`: opening, selection locks, settings, kick-out, leaving; proofs.
3. `OfflineCache`: overrides, upload at login, clearing, hashes; crash and restart; proofs.
4. `DatabaseStream` and its abstract specification `NodeCopy`, which `SyncedStrokes`
   assumes of its `feed` and `DrawingSession` of its `feed`; proofs.
5. `Community`, which composes `Messaging`, `Achievements` and `Follows`; `Gallery`,
   which puts `DrawingLife`, `Stories` and `TabletSync` to work; proofs.

Left: login and logout with a drawing open, composed of 2 and 3; the drawing view of the
iPad.

## 3. SyncedStrokes

The module models one drawing that several logged-in desktop clients have open.

| Model | Code |
|---|---|
| `db`, `feed` | the node `strokes/<drawing>` and the events on their way to each subscription |
| `StrokesMap`, `StrokesToUpdate`, `StrokesMapOverride` | the three dictionaries of the same names |
| `inMap`, `shared` | which entries of `StrokesMap` and of `strokesSnapshot` are the object that the client last passed to `UpdateStroke`: a transformation stamps it in place |
| `start`, `pulled` | one `StartOnlineSync` call each, before and after its `await PullStrokes()` |
| `writer`, `snapshot` | `StrokesWriterThread`: queued, in its loop, between copy and `Clear`, waiting for its token in `Query.Update` ("asking"), with a PATCH whose body is serialised ("sending"), ended; `strokesSnapshot`, then the body |
| `token`, `watched`, `cancelled` | `CancellationTokenSource`: the newest one, the one each writer watches, the cancelled ones |
| `listener`, `seen`, `doomed` | the task of each subscription inside `SyncRemoteStrokesToLocal`; the keys of `StrokesMap` when the purge began; the overrides that `PurgeOverrideMap` tested |
| `stuck` | `IsRefreshingStrokes` stayed true after an exception in `UpdateStrokes` |
| `session` | the drawing is open, was left (`Stop`), or the process ended on an exception |
| `clock`, `own`, `written`, `restamped`, `lost` | history for the properties; `clock` also gives `LastModificationDate`; `restamped` are the edits made on a stroke of a PATCH that awaited its token |

Actions are the steps between which another thread can act: the copy of the edits and
their `Clear` are two (UpdateStroke does not take the lock), as are the test and the
removal in `PurgeOverrideMap`, the request and the answer of a pull, and in a PATCH the
wait for the token, the serialisation of the body (`SerializePatch`) and the application.

The copy of the edits is shallow. `Transform` stamps the object it finds in `StrokesMap`;
when a merge put the object of an earlier edit there, every snapshot that holds that
object and is not serialised yet changes with it, so the edit goes out with that PATCH and
again with the next one.

Abstractions, and why they lose nothing that the properties tell apart:

- A stroke's data is the edit that made it: author, number among the author's edits,
  deletion or not. `Date` adds the author's clock offset, so machines may disagree on
  the time; one machine's clock is strictly increasing.
- `UpdateStroke` writes two dictionaries in one step. A writer that runs between the
  two writes sees what it would see after both, as it reads only the first.
- The empty PATCH of a second writer that found its copy empty is left out: it changes
  nothing.
- A PATCH body is serialised in one step; a transformation falls before it or after it.
  The points of a stroke move on the canvas's objects before they are stamped; the model
  does not tell the canvas's objects from those of `StrokesMap`, and takes a stroke that is
  drawn again (Redo), whose object the code gives a new id, for a new object.
- `PurgeOverrideMap` reads `StrokesMap` once to test each override and once more to
  compare its date. The model tests all overrides in one step, `CheckOverrides`; that a
  key which was there when the purge began is gone at the second read ends the listener
  (`EndListener`), as the null does in the code.
- A PATCH that is answered with an error status was not applied, and its edits are lost;
  the writer goes on, as the status is not looked at.
- The ink canvas is not a variable: users act on the merged list it shows. `Undo` takes
  any stroke whose last author is the user, not only the one created last. Redo and
  duplicate add strokes with new ids, as `Draw` does.
- A stroke id is never drawn twice (`Guid.NewGuid`).
- An event is the whole node: what `FirebaseObservable` hands over after each put or
  patch. Streams keep their order; different subscriptions are independent.
- The process ends on an exception of the UI thread (the application installs no
  handler); an exception in a task ends that task only.
- The branches of an offline client are in `OfflineCache`.

### Properties

| Property | Says |
|---|---|
| `EditsAccounted` | a client's latest edit of a stroke is to send, in a writer's snapshot, applied, or in one of the recorded losses: made between copy and `Clear` on an object that no snapshot holds, in a failed PATCH, or unsent when the process ended |
| `SoleEditorConverges` | at rest, a stroke that one client alone edited shows that client's latest edit everywhere |
| `QuietViews` | at rest, a client shows the database's version of a stroke or, if it edited it, its own latest one |
| `OwnEditsInOrder` | the database takes each client's edits in order, and none twice but those made on a stroke of a PATCH that awaited its token (one start) |
| `AppliedOncePerRequest` | the module implements `StrokeLog`: an edit waits in its client's queue, goes with the one request that takes the queue and with those whose open body it was made on; each request is applied at most once; nothing that was taken, applied or dropped comes back |
| `UpdatesAreTaken`, `ComesToRest` | liveness, below |
| `MergedListIsMostRecent` | what the comment of `GetMergedStrokeMaps` says; violated (section 10) |

### Runs

| Run | Instance | Why it is enough |
|---|---|---|
| `editors` | two clients (two edits and one), one existing stroke, one start each, bob's clock ahead | an edit overtaken by the same and by another client, before and after each copy |
| `restart` | one client, two starts, one stroke, drawn before or by the user, two edits, failing requests | two writers and two listeners, both orders of the pulls, a null answer before and after an edit, tokens shared between writers |
| `progress` | one client, two starts, one edit, fairness | every way in which the threads can hold each other up |
| `recent` | one client, two strokes, two edits | shortest instance of the finding |

`MaxEdits` bounds the edits of each client, `MaxStarts` the starts, and these are the
only bounds: queues are bounded by the PATCHes. No symmetry is used. Deadlock is not
checked because users may stop. `MaxStarts = 1` is a client from the construction of
its drawing until `ToggleSync` has saved the model; `MaxStarts = 2` is the normal life
of an online drawing (constructor and `ToggleSync`). With two starts neither
`OwnEditsInOrder` nor `SoleEditorConverges` holds, because two writers send the same
client's edits independently; nothing in the repository promises either, so they are
stated for one start.

Fairness: weak fairness of every step of a thread, task or request that the code or the
runtime carries out by itself (an answer to the pull, the writer's start, copy, clear
and PATCH, the listener's steps). Users owe nothing, nor do failures, nor does the end
of a cancelled writer, which may copy once more because it tests its token before it
sleeps.

## 4. DrawingSession

The module models one drawing as logged-in clients open it, select strokes in it,
configure it and leave it: the half of `Drawing.cs` that works on the node
`drawings/<id>`, with the view models that open and close the page. A `Drawing` object
outlives its page, so the state is kept per opening `<<c, n>>`, the n-th object that
client `c` constructed.

| Model | Code |
|---|---|
| `db` | the node: `isPublic`, `isProtected` and the lock of each stroke |
| `requests`, `answered` | requests under way; answers whose awaiting method has not continued |
| `page` | what the drawing page of the client shows |
| `view` | how far an opening is: prompting, shown, its commands and `KickedOut` bound, dismissed, dead |
| `model`, `selected` | `DrawingModel` and `SelectedStrokesIds` |
| `stream`, `feed` | `AttributesSubscription` and its undelivered events |
| `left` | bounds |
| `missed`, `disturbed` | history: openings whose `KickedOut` nobody heard; locks that were written over |

| Actions | Code |
|---|---|
| `GetDrawing`, `ToggleSync`, `Subscribe` | the read, and the write-back and subscription that the constructor starts |
| `SelectDrawing`, `EnterPassword`, `DismissPrompt`, `BindEvents` | the view models between the read and the bound page |
| `OnSelectionChanged`, `UpdateSettings`, `SaveDimensions` | commands |
| `GoBack`, `ContinueGoBack` | `Stop` up to its await, and the rest of leaving |
| `Connect`, `SyncRemoteAttributesToLocal`, `ContinueKick`, `EndStream` | the subscription, its handler before and after `RemoveSelection` |
| `ApplyRequest`, `FailRequest`, `FailBinding`, `EndProcess` | database, network, an exception in an `async void` method |

Abstractions:

- Every request has a connection of its own (`HttpClient` per call), so the requests of
  one client are applied in any order. A body is fixed when the request is sent. (In the
  code it is serialised when the token is there; a change of the settings that follows
  before that is then in both requests, which leaves the node as the later one alone does.)
- An empty PATCH that nobody awaits is not sent; an event is sent only when a write
  changed the node, and carries the whole node.
- One user at one computer, logged in throughout; two computers of one user and logging
  in or out with a drawing open are not modelled.
- Other pages are not modelled; leaving for one of them selects nothing, which
  `OnSelectionChanged` with the empty set covers. Back is not pressed again while it is at work.
- The strokes are fixed: what happens to them is in `SyncedStrokes`. Width, height and
  password value are not kept; a resizing is its whole-model write.

### Properties

| Property | Says |
|---|---|
| `LocksFollowSelections` | at rest the locks in the database are the selections on the pages, except those in `disturbed` |
| `PrivateMeansGone` | at rest a private drawing is on nobody's page but the owner's, except where `KickedOut` came before its handler (`missed`) |
| `ModelFollowsNode` | at rest a subscribed page's copy equals the node |
| `ComesToRest` | events, the releases they cause and their echoes end |
| `BackLeavesPage` | a user who presses Back leaves the page |
| `PreviousSelectionReleased` | what a comment of `Drawing.cs` says of a selection; violated (section 10) |

`disturbed` names every way in which the code lets a lock and a selection drift apart:
another user's request or a stale copy of the whole model (`SaveDimensions`,
`UpdateSettings`, `ToggleSync`) writes over a lock, two requests of one client
overtake each other, a selection changes before the previous one was echoed or while
the page is being left, a process ends. The property says that there is no other way.

### Runs

| Run | Instance | Why it is enough |
|---|---|---|
| `sessions` | four scenarios: two clients with two selections of one stroke each; one client with two openings, a resizing and failing requests; owner and one other, created protected, two changes of settings; owner and one other with a selection, one change between public and private | both orders of every pair of requests; an old object's subscription and release against the new page; every change of settings against every step of opening; a kick-out while a lock is on its way or the page is being left |
| `kicked` | the last of these scenarios, one opening for each client, fairness | whatever the kick-out, the release of the lock and Back can wait for |
| `previous` | one client, two strokes | shortest instance of the finding |

A scenario says how the drawing was created and how often each thing may happen; `Init`
picks one, and `left` counts down. These and `MaxOpens` are the only bounds.
Deadlock is not checked because users may stop. Weak fairness is assumed of what the
runtime, the network and the database do by themselves: applying a request and the
continuations of awaited calls, the connection and the handling of events. Users owe
nothing, nor do failures; `EndStream` needs a keep-alive and is not fair.

## 5. OfflineCache

The module models one desktop client that works offline and logs in now and then:
`CacheService.cs`, `LocalDrawingService.cs` and the offline branches of
`SyncedStrokesCollection.cs` and `Drawing.cs`, against a database that others change.

| Model | Code |
|---|---|
| `db[k][d]` | the nodes `drawings`, `drawingInfo` and `strokes` of drawing `d` |
| `cache`, `override` | the files of the two folders; `Get` prefers the override |
| `hashes` | the hash file of each target |
| `pages[v]` | the drawing page of the `v`-th offline visit: its map, its edits to write, its writer, the map that the writer has serialised |
| `uploads[n]` | `UploadUpdatedData` of the `n`-th login: what it read before its first await, what it has still to check and send |
| `threads[n]` | the `SyncThread` of the `n`-th login: where it is in its pass, its own copy of the hashes, what it received |
| `newest`, `cancelled` | `CancellationTokenSource` and the cancelled tokens |
| `clock`, `history` | change numbers; the ids not given yet, what became of the user's strokes, and which exceptional orders happened |
| `left` | bounds |

| Actions | Code |
|---|---|
| `CreateDrawing`, `GetDrawing`, `SaveDrawingPreview` | `LocalDrawingService`; leaving a page saves its preview |
| `UpdateStroke`, `SaveDimensions` | edits offline |
| `TakeUpdates`, `TakeNothing`, `TestToken` | `StrokesWriterThread` up to its test of `IsOffline`, and its return to the test of the token |
| `SerializeStrokes`, `WriteStrokes`; `PatchStrokes` | the branches: `CacheService.Write` serialises the map and writes the file; `Update` |
| `Login`, `Logout` | `StateChanged` up to its first await, and with no user |
| `CheckInfo`, `SendNext`, `ListDrawings`, `ClearOverride` | `UploadUpdatedData` from await to await, and the rest of `StateChanged` |
| `StartThread`, `EndThread`, `StartPass` | the task, and the top of its loop |
| `Once`, `WriteFile`, `FinishTarget` | `SlowSyncDatabaseRef`: the answer, one file, then the deletions and `UpdateHashes` |
| `Online...` | what other clients write |
| `Crash`, `CrashWhileCreating`, `FailPatch`, `FailWrite`, `FailDownload`, `FailPass` | killed processes, failed requests and writes |

After a crash the next offline visit or login is the restart: the folders are all that
is left.

Abstractions:

- A value is the set of changes it shows. A new model or info replaces the old one, a
  stroke adds to the strokes, and the upload replaces all of them. Strokes are not
  erased here; erasing is in `SyncedStrokes`. A hash is the content (no collisions).
- An info saved after a change announces it: clients save the preview when they leave a
  drawing, so an info tells of the strokes before it.
- `OnlineSave` (three `Set`s) and `OnlineDelete` (three `Remove`s) are one step; the
  orders of such requests are in `DrawingLife`.
- The target `users`, the image files and their mapping are left out, and the owner of a
  drawing with them. The list of the user's drawings is kept only as the last request.
- A page is closed when the user logs in; a drawing that stays open while the user
  changes is not modelled. Its writer may outlive the page.
- A writer that is cancelled still writes once if there is anything to write: it tests
  its token before it sleeps. If it found nothing to write, or had serialised the map
  before the last edit, it tests the token first. A sync thread wakes in the same way,
  whatever became of its token, and passes if a user is logged in by then.
- An exception of the write ends the writer, and the page stays open without one
  (`FailWrite`). That such a write may leave a truncated file is not modelled; the file is
  then the one that was there.
- `IsReachable` is false only as `EndThread`, `FailDownload` and `FailPass` have it: the
  thread returns to its test, or a request fails.
- `ClearOverride` swallows the exception of a deletion that fails half way; the model
  always deletes everything. A request does not arrive after the process has ended.

### Properties

| Property | Says |
|---|---|
| `OfflineWorkAccounted` | a stroke drawn offline is to write, in the override folder, was in the database, or is in one of the losses that the code leaves |
| `UploadsDiscardNothingAnnounced` | an upload discards no stroke that the info it compared had announced, unless the override was made from strokes older than the cached info, or strokes were sent after that info |
| `SkipsOnlyWhatItHas` | a file left alone because of its hash has the received content, unless its hash is doubtful: two sync threads copied its target at once, or an earlier value came back to the database |
| `KeyIsMissedOnlyAfterTrouble` | a login fails on a missing hash only after an earlier upload wrote that info, while a cached info has no hash yet, or when two threads copied the infos at once |
| `OfflineCopyCatchesUp` | what would be read offline becomes what the database holds, as long as a sync thread runs for a logged-in user, unless an override was written after the login or the hash is doubtful |

The losses of `OfflineWorkAccounted` are recorded where they happen: edits unwritten when
the process ended, a failed PATCH, a failed write of the file and what is drawn on that
page afterwards, an edit made after the map was serialised on a page that is left before
the writer tests its token, a file replaced by the writer of another visit of the
same drawing (left and opened again within the second that a writer sleeps), and
`ClearOverride` on a drawing in conflict, on one without an overridden info, or on
strokes written after the login. The exceptions of the other properties are as real:
without each of them TLC finds a violation.

### Runs

| Run | Instance | Why it is enough |
|---|---|---|
| `work` | one drawing, six scenarios | two overlapping visits with two failures: every step of upload, clearing and pass as the last one; a drawing created offline or by others, drawn in or resized and uploaded again; each kind of change by others against every step of an upload; an outdated cache and a second login: infos cached, strokes not yet, then offline work; an old pass against a new one |
| `sync` | one drawing with an offline edit; one cached and one new; two logins whose threads copy a target at once | liveness of the passes, with and without overrides, and with a hash made doubtful |

As in `DrawingSession`, a scenario says what is cached at first and how often each thing
may happen. These, `MaxVisits` and `MaxLogins` are the only bounds; strokes and change
numbers are bounded by them. Deadlock is not checked because users may stop. Weak
fairness is assumed of the writer, of the continuations of an upload and of each step of
a sync thread: timers, tasks and answers come by themselves. Users, others and failures
owe nothing.

## 6. DatabaseStream

The module models one subscription of a desktop client to a node of the database:
`FirebaseObservable.cs` and `ServerEvent.cs`, against any writes to that node and any
behaviour of the server. `SyncedStrokes` and `DrawingSession` take whole nodes from
their feeds and `Messaging` takes new children; this module says when that is right.

| Model | Code |
|---|---|
| `node` | the value in the database: a function from paths of leaves to scalars |
| `open`, `events` | the present HTTP stream and the events on their way |
| `Cache` | the local copy, a JSON tree |
| `phase` | the task: awaiting a token or an answer, at the test of its loop, reading, spinning on an ended stream (`deaf`), ended, failed |
| `stopped` | the token that `Stop` cancels |
| `handler`, `told` | which handler the subscriber gave, and what it was called with |
| `late`, `mangled`, `emptied`, `touched` | history: events applied after `Stop`; children that were written in certain ways since the connection |
| `writes`, `left` | what others may write; bounds |

| Actions | Code |
|---|---|
| `Connect`, `Refuse` | `ListenToServerEvents` up to the open stream, or an exception before it |
| `TestLoop` | the condition of the inner loop, before each read |
| `ReceivePut`, `ReceivePatch`, `Die` | one event read and handled (`HandlePut`, `HandlePatch`), or the exception that ends the task |
| `ReceiveKeepAlive`, `ReceiveAuthRevoked` | nothing; the loops start over with a new token |
| `ReceiveEnd`, `SpinUntilStopped` | `ReadLineAsync` returns null for ever; only `Stop` ends it |
| `Stop`, `Write`, `Trouble` | the subscriber, other clients, the server |

`HandlePut` is split like the code: a put of the whole node (`PutNode`), of a child that
the copy lacks (`PutNewChild`), of null (`PutNull`) and of anything else below a child
(`PutInChild`). The code takes the rest of an event's path, dots included, for the name of
one property, so a name in the tree is a sequence of keys (`Joined`).

Abstractions: `Keys` and `Scalars` are sets, names and values have no text; the tokens of an
event arrive in one piece, but the stream may end between its two lines; the server
tells of writes that change the node, and a write that is sent while no stream is open is
in the first put of the next one. A null written below a scalar leaves the scalar alone,
as the database does. `ScenariosAreStates` assumes of a scenario that the node is a value
with children and that each write is a put or a patch of values (`IsWrite`), none of
a scalar for the node itself. Filters, and the paths of `FirebaseQuery`, are left out.
A connection that breaks while `ReadLineAsync` waits raises an exception that ends the task
like a denial, and the trouble `cancel` stands for both. Two more exceptions end the task in
the code and are left out: those of the subscriber's own callback, and those of `ToObject`
in the three listeners of children (`FirebaseObservable.cs:58`, `:66`, `:74`). They depend
on what the callback does and on the type it asks for, not on the events, so
`DiesOnlyOfMangling`, `ValueIsTold` and `CatchesUp` speak of subscribers whose callbacks
return.

| Property | Says |
|---|---|
| `FollowsTheNode` | the module implements `NodeCopy`: the copy takes the values of the node one after the other, skipping none while a connection lives, until a write that the client mishandles is made |
| `OthersAgree` | at rest every child of the copy is the node's, but those that were written themselves in one of the ways listed in `Mangles` |
| `AddedChildrenAreTold` | a `ChildAdded` handler was given every child, also across connections, but those that patches wrote |
| `ValueIsTold` | a `ValueChanged` handler was last given the node |
| `DiesOnlyOfMangling` | an event ends the task only if access is denied, the connection breaks, the stream ends within it, or a child was mangled |
| `AtMostOneLate` | one event may be handled after `Stop`, never two |
| `CatchesUp` | the copy comes to agree with the node while the subscription is alive |

`Mangles` lists what the code gets wrong: a child that exists put as a whole (the new
value lands under the empty name), a put of a field of a child that is absent or a scalar,
a put of a field of a field (the rest of the path becomes one name), a patch of a child
that is a scalar, a patch deeper than a child where there is no object, and a put of a
child that was emptied field by field. Nulls are never mishandled. What the
program writes to the nodes it subscribes to avoids most of them, which the scenarios of
the run show. `MessageWrites` and `StrokeWrites` are those of the program; `AnyWrites`
are what any client of the database may do.

Run `stream`: subscriptions to strokes (three writes and one trouble, or two of each and
`Stop`), to a drawing (four writes, one trouble), to messages (three writes, two troubles,
`Stop`), and any three writes to a node with a child of two fields for each of the four
handlers. Three writes let a child be emptied, put and written inside; two troubles let a
second connection begin while the first one's history is there; these are the only
bounds. Weak fairness of the task alone: it runs and its requests are answered. Nobody has
to write, stop or fail, and a stream that ended is not renewed: `deaf` is excluded from
`CatchesUp` because the code spins there.

## 7. Community

The module composes three that share the users who chat, follow and earn achievements.
`Messages` and `Following` are the joint steps: a message written, or an entry of a follow
changed, starts the function that counts it, in the scenarios `author` and `counted`.
All other steps belong to one module.

### Messaging

A list that others add to, as a page shows it: the messages of a conversation or the list
of conversations.

| Model | Code |
|---|---|
| `items`, `pushed` | the node; keys that `Push` gave and `Set` has not used |
| `openings[o]` | the o-th opening of the page: how far it is, its collection, its view, its subscription and the item that the listening task holds between test and addition |
| `newest`, `current` | the opening whose collection the property `Messages` holds, and whose subscription the service can stop |
| `Push`, `Set`, `TabletSend` | `SendMessage` and `CreateConversation` of the desktop, and of the iPad, which patches |
| `Open`, `LeaveTab`, `ReturnToTab` | `OpenConversation` and the list of active chat boxes |
| `OnceAnswered`, `StartWalk`, `EndWalk`, `Attach` | `GetMessages`/`GetConversations`, the loop over the collection in `ChatBoxViewModel`, the handler attached after it |
| `Connect`, `TestContains`, `Add`, `Disconnect` | the subscription; `Contains` and `Add`, each on the collection that is newest at that time |
| `LogoutM` | `CurrentUserChanged` of `MessagingService` |

`ListsAreComplete` is `NothingMissed` (at rest a page shows every item, but those that a
tablet patched since the connection, those that came between the loop and the handler, and
what went to the collection of a second opening) and `ShownOnce` (nothing is shown twice by
a page that was opened once). Two openings do show a message twice or lose one to each
other: the test and the addition are two steps on a shared collection.

### Achievements

| Model | Code |
|---|---|
| `metrics`, `completed`, `thresholds` | the nodes of the user and `achievementsDefinitions` |
| `jobs` | a bag of function instances: about to read or to set a metric, to read all, to write what is reached |
| `Count`, `Share` | a counted event; a call of `Increment` on the desktop |
| `ReadMetric`, `SetMetric`, `ReadMetrics`, `WriteCompleted` | `increment`, `updateAchievements`, the two triggers of metrics and the one of `completed` |
| `Drop` | a function frozen after it returned without awaiting, or a failed request |
| `FailUpdate` | a failed read or update of `updateAchievements`, which is not run again |
| `ReadCompleted`, `Subscribe`, `ShowCompleted` | `AchievementsService.GetAchievements` and its subscription |

A function may be started twice for one event (Cloud Functions promise at least once).
`CountsAreExact`: a metric is never above the number of its events, and equal to it at
rest, unless increments overlapped or one was dropped. `CompletionFollowsMetrics`: what the
metrics reach is completed at rest and on the page, unless the last update failed and no
metric changed since (`skipped`), and nothing else is.
`OverachieverIsOutOfReach`: section 10.

### Follows

`entry` holds the entries of a follow: the one of the follower, which both clients write,
and the ones of the two lists of whom a user follows, `following` of the desktop
(`DatabasePaths.cs:15`) and `followings` of the iPad (`UsersService.swift:14`), of which
each client writes and reads its own and the Cloud Function counts the first. `presses`
are the runs of `ToggleIsFollowing` and `Refresh` of the desktop page, `queue` is what the
iPad's SDK has to send. Desktop clients write TRUE or FALSE and take any entry for a follow;
tablets write TRUE or remove. Since no toggle writes both lists, the clients disagree about
whom a user follows after any toggle, and only one list can be promised: `FollowsAgree`
says that at rest the list of the client that wrote the follower's entry last (`last`)
agrees with that entry, however the toggles of both interleave, unless two presses wrote at
the same time or a toggle was cut short. `CannotFollowAgain`: who has unfollowed on a desktop is shown as a
follower ever after and can only unfollow again, but by a press before the page was read,
during another run, or on a tablet.

### Run

`social`: nine scenarios (a chat opened once or twice, a list opened once or twice, counting
with a repetition and a drop, the author of messages with an open achievements page, a
follower, one who has unfollowed, a follow that is counted). Three keys let a tablet write
the same text twice beside a desktop's message, two openings share a collection, three
presses overlap two runs and add one after them, and three definitions are the smallest set
in which the last achievement asks for all of them. `left...` counts down what each scenario
allows. No liveness is claimed and no fairness is stated; the properties are about states
at rest, which the scenarios reach.

## 8. Gallery

Three modules that share no state, so that each scenario puts one to work.

### DrawingLife

| Model | Code |
|---|---|
| `model`, `info`, `strokes`, `entries` | `drawings/<id>`, `drawingInfo/<id>` (whether the whole was set, single fields, the reports, the tag), `strokes/<id>`, the users' lists |
| `SetModel`, `SetInfo`, `SetEntry` | `CreateDrawing` |
| `Visit`, `WriteEntry`, `WriteModel`, `WriteStrokes`, `WritePreview` | a user opens it: requests that nobody awaits, in any order |
| `VisitOnTablet`, `WriteInfo` | a tablet that shows it: `updateDrawingInfo` and `syncData` write all the fields of the info that the tablet knows, in the order and at the time that the SDK chooses |
| `GoOffline`, `TestUpload`, `UploadModel`, `UploadStrokes`, `UploadInfo`, `UploadEntry`, `FailUpload` | what was done to it offline, and `CacheService.UploadUpdatedData`, request after request: an info that is not there is no obstacle, and the whole info is set as it was cached, without later reports or the tag |
| `Report`, `UndoReport` | a post |
| `StartDeletion`, `RemoveModel`, `RemoveInfo`, `RemoveStrokes`, `RemoveEntry`, `AbandonDeletion` | `DeleteDrawing`, request after request |
| `Login`, `ReadInfo`, `SendMail`, `TagAsSent`, `EndMailing` | `EmailCurrentUserOnImageBanned` |
| `ReadEntries`, `ReadInfos`, `ReadModels` | `ProfileService.GetDrawingsIds` |

`OneMail`: the owner of a banned drawing gets one mail, unless two sessions overlapped,
one ended between mail and tag, or an upload or a tablet wrote the whole info without the
tag that it had. `ListingFailsOnlyOnDeletion`: a listing throws only on a
drawing that is being deleted, or whose info somebody wrote back.
`DeletedStaysHidden`: after a deletion the whole info is there only if an upload or a
tablet wrote it back, and the gallery shows the drawing only if its model and a part of its
info were both written back. `back` records the parts that were written after their removal.
A tablet that has heard of the removal writes under an empty id, which is not modelled: it
changes nothing of this drawing. `CleanSaucedDrawings` is not called by anything.

### Stories

`ReadStory` and `WriteStory` are the halves of `AppendToStory`, around its await;
`RemoveFromStory` removes all drawings, as its code does. `StoryKeepsAppends`: no two
drawings share an index, and what was appended is in the story in the order of the writes,
unless a run wrote over a change it had not read.

### TabletSync

`tablets[t]` is what the user defaults and the application of a tablet hold: strokes,
date, the marks `created` and `modified`, and the queue of the SDK.
`EditOffline` draws signed out; `SyncData` sends what was created and asks for the date of
what was modified, removing both marks at once; `Answered` compares the dates and sends or
refuses; `Send` is one write of the SDK; `InfoArrives`, `StrokesArrive` and `DateArrives`
are the observers of `fetchDrawing`; `EndSession` signs out or ends the application, and
the queue is gone. Others draw online and then date (`EditOnline`, `DateOnline`).
`TabletWorkAccounted`: a stroke drawn signed out is still marked, on its way, in the
database or in one of the recorded losses (refused, cut off, replaced by another upload);
and an upload whose question was answered with the same date spares what others drew and
dated, but in the cases that `Answered` names (strokes that came back after a
replacement, a tablet stopped between date and strokes, an old date written back).

### Run

`gallery`: a drawing that is created while listed and opened, deleted while opened by one
user (with failures and a listing) or two, reported by three users with two sessions of its
owner, reported while deleted; deleted while a tablet and an upload (which may fail) change
it, reported and uploaded over the tag, deleted and written back by a tablet after the tag;
three appends, two story drawings, a removal and a day;
two tablets with two strokes each way, and a drawing created on a tablet. Three users are
the number of reports that bans; two sessions are needed for a second mail; two tablets for
an upload that replaces another. `left...` bounds each kind of step. No fairness is stated.

## 9. Proofs

TLC checks small instances; the theorems hold for every value of the constants that
satisfies the named assumptions of the modules: any number of clients, strokes, openings,
subscriptions, users, sessions, listings, presses, definitions, tablets. The inductive
invariants were checked with TLC on the instances before they were proved.

`SyncedStrokesProofs`, for any clients, strokes, clocks, starts:

- `TypeCorrect`: `Spec => []TypeOK`. `TypeOK` is inductive; one lemma per kind of step.
- `NoEditDisappears`: `Spec => []EditsAccounted`. Not inductive alone: `CopyUpdates`
  overwrites a snapshot and the two ends of a PATCH empty one. `AccountInv` adds
  `SnapshotsInUse`: a writer holds a snapshot only between its copy and the answer, and
  there is no writer before its start is done.
- `OwnEditsStayInOrder`: with `MaxStarts = 1`, `Spec => OwnEditsInOrder`. `ApartInv` says
  that a client holds only edits that it made itself and that none is younger than its
  clock, so that a new edit is newer than all others. The inductive invariant `OrderInv`
  adds that for each client and stroke the edits applied, in a snapshot and to send follow
  each other (`InOrder`), the restamped ones excepted, which may be in two places. Every
  step but `ApplyPatch` keeps it with any number of writers; there no other writer may hold
  an older edit, which one start guarantees.
- `EditsGoOncePerRequest`: `Spec => AppliedOncePerRequest`, the implementation of
  `StrokeLog`, from `ApartInv` alone and with any number of writers. The queue of the
  abstract specification is what is to send and not copied yet (`Queue`). A copy is `Take`,
  `ClearUpdates` is `DropQueue` (what was copied is in its request; only what came since is
  dropped), `SerializePatch` is `Fix`, the two ends of a PATCH are `Apply` and
  `DropRequest`, a crash is `End`, an edit is `Make`, and all other steps stutter.
- `ViewsAreNeverStale`: `Spec => []QuietViews`. `ViewInv` says that the last map on its way
  to an open subscription is the database's (`ToldLatest`), that a client of which some
  listener works has something to hear or has received all but its own unapplied edits
  (`Informed`), and that its overrides, and what it has to send, are its latest edits
  (`OwnOnly`). A listener may end on a key that vanished: then another one replaced the map
  and goes on (`Witnessed`); no edit makes a key vanish, because a merge leaves every
  override in the map and a new id is in no map (`Known`, `KnownFeed`). A second start that
  pulls an older map, or null, opens a subscription that will be told again; that is why two
  starts do no harm here.
- `TheOnlyEditorIsFollowed`: with `MaxStarts = 1`, `Spec => []SoleEditorConverges`.
  `SettledInv` adds that once the latest edit of the only editor was applied the database
  holds it and no older one is in a snapshot (`Settled`); that it was applied at rest, if
  none got lost, is `EditsAccounted`.

`DrawingSessionProofs`, for any clients, strokes, openings and scenarios:

- `SessionTypes`: `Spec => []TypeOK`. Not inductive alone: `UpdateSettings` changes the
  model of an opening, which has to be there (`Begun`).
- `CopyFollowsNode` and `PrivateIsGone`: `ModelFollowsNode` and `PrivateMeansGone`. The
  invariant `PageInv` says that the last event on its way to a live subscription is the
  node itself, or, without one, that the copy is the node or differs by a change of the
  opening's own that is on its way (`Told`); that an opening on a page will subscribe, has,
  or is about to be left (`Streaming`); that every request belongs to an opening that has
  begun (`FromBegun`); and that whose copy says private has left or missed `KickedOut`
  (`PrivateGone`).
- `LocksAreFollowed`: `LocksFollowSelections`. At rest a lock says what the requests made of
  it; under way one has to say what they are going to make of it, if they are applied in the
  order they were sent (`Will`; what another order makes is in `disturbed`). `LockInv` says,
  of each undisturbed lock: a client that will hold it has the stroke selected on a page that
  it is not leaving; a client that will not, although the stroke is selected, is leaving
  (`Accounted`). It needs that a page has nothing selected before it is bound (`Unbound`),
  that a password is asked for while there is no page (`Prompted`), and that the locks of a
  client whose process ended are disturbed (`DeadDisturbed`).

`OfflineCacheProofs`, for any drawings, targets, visits, logins and scenarios:

- `CacheTypes`: `Spec => []TypeOK`, with `Shape`: whoever works on a page knows its drawing,
  what its writer has serialised is on the page, and an upload that is at a drawing has
  something left to send.
- `OfflineWorkIsAccounted`: `WorkInv` adds that an upload that is done with a drawing, and
  found no conflict, has sent its strokes (`SentOK`); that is what `ClearOverride` may rely on.
  `LoopWork` is the step of a writer that ends: what its page has unwritten is among the losses.
- `SkippedFilesAreTheOnesReceived`: `SkipInv` says of each file whose hash is not doubtful that
  it is the one of its hash or the database does not hold the value of that hash (`Away`), that
  one thread at a time copies it, and that this thread knows the hash of what it has still
  to look at and has written what it has looked at (`Copies`). It holds across crashes because
  hashes are written last, and across new changes because no content is newer than the clock
  (`AllPast`).
- `KeysAreMissedOnlyAfterTrouble`: `KnownInv` says that an info in an override, or among the
  files of an upload that has no hash of it, is cached too or is not in the database, and
  that a thread that is going to delete a cached info deletes one that the database has
  lost, or that nobody has (`KnownOK`); ids that were not given yet are unknown everywhere
  (`NewInv`). It needs `SkipInv`: one thread writes the infos.
- `NothingAnnouncedIsDiscarded`: `FullInv` follows the strokes from the cache to the page,
  the override and the upload: what each lacks of the database was not announced by the info
  whose hash goes with it (`FullOK`), except of torn drawings. `SendOK` says that an upload
  sends overrides only, and only of a drawing whose info was the cached one, or missing.

`DatabaseStreamProofs`, for any keys, scalars, nodes and writes:

- `OneEventAfterStop`: `Spec => []AtMostOneLate`, from `LateInv`: once an event was applied
  after `Stop`, the task is at the test of its loop or has ended.
- `CopyFollows`: `Spec => []StreamInv`. At rest the properties compare the copy with the node;
  under way they would compare it with a value the node had, so `StreamInv` says that there is
  a value `v` and a history of emptied children such that the copy is right for `v` (`Good`),
  so is what the handler was told (`ToldRight`), and each event on its way leads from one
  value to the next, the last one being the node (`Stream`); or a put of the whole node is the
  next event, which makes any copy right; or the stream is closed and empty. `Good` says of
  each child not in `mangled` that its leaves are those of `v` (`Agrees`), which holds of a
  copy with empty objects left in it, and that a child which the copy has and `v` lacks was
  emptied (`Kept`): that is what a later put of it would trip over.
- One event keeps `Good` (`EventKept`) by cases of the handlers. If the child agrees, a path
  leads to where the handler sets or removes tokens unless `Mangles` says otherwise
  (`AssignAgrees`, `RemoveAgrees`, `PatchAgrees`); the other children change neither in the
  copy nor in the value (`OthersKept`). A garbled name begins with the key of the child it
  was made for, so the harm stays there. These rest on lemmas about paths, prefixes and trees.
- `CopyAgrees`, `ChildrenAreTold`, `LatestValueIsTold`, `DiesForAReason`: `OthersAgree`,
  `AddedChildrenAreTold`, `ValueIsTold` and `DiesOnlyOfMangling` follow from it.
- `CopyRefines`: `Spec => FollowsTheNode`, the implementation of `NodeCopy`: an event received
  is a `Follow`, a write or an event of the server's own a `Write`, a connection a `Resync`,
  its end a `Break`, and the rest stutter.

The proof corrected the model: puts of a field of a field are mishandled, and null below a
scalar changes nothing, neither of which a scenario of the run did before it.

`AchievementsProofs` and `CommunityProofs`, for any metrics, definitions, presses, keys,
openings and texts:

- `MetricsAreExact`, `CompletionCatchesUp`, `OverachieverNeverCompleted`. The steps of
  `AchievementsInv` are about bags: every event counted is in the metric or in exactly one
  job (`Accounted`), jobs set no more than what happened (`NeverTooHigh`), what is reached
  and not completed has an update ahead of it (`WillComplete`), and each count of an
  achievement has a completed one of its own, so that the last one would have to be among
  those it counts (`NotItself`). The definitions must be finite for that
  (`ScenariosAreStates`).
- `EntriesAgree`, `NeverFollowsAgain`, from `FollowsInv`: one undisturbed press at a time is
  between its writes, and each client knows what it wrote as long as it wrote last
  (`OneWriter`, `TabletWrites`, `Agree`); who wants to
  follow has read that there is no entry (`NoStaysNo`).
- `ListsShowAll`, from `MessagingInv`: what was written is in the collection, among the
  events, held by the task or missed by it, and what is in the collection is on the page or
  came before its handler (`Heard`, of an opening that adds to its own collection); a task
  alone holds nothing that is listed, and no list repeats (`Once`, `Alone`); both need that
  only written keys are known to an opening (`KnownOnly`), that a key is given once
  (`KeysInUse`), and that the service holds an answered opening as soon as there is one
  (`Properties`). A write does not disturb what was compared, because a key has no item
  before it. The steps rest on lemmas about the set of a list (`ElemsAppend`, `ElemsTail`,
  `ElemsSubSeq`) and about reads in the order of keys (`ReadInOrder`, `ReadWithoutRepeats`).
- `CommunityTypes`, from the three invariants.

`TabletSyncProofs` and `GalleryProofs`, for any users, sessions, listings,
drawings, runs, tablets and strokes:

- `OwnerGetsOneMail`, `ListingFailsOnlyThen`, `DeletedIsHidden`, from `LifeInv`: the first
  mail is being tagged, or is, or the info is gone, and whoever writes it back without the
  tag is noticed (`Mailing`); what a deletion has
  passed is gone or written back (`Passed`); before the info is set nobody can know of
  anything (`NotYet`).
- `StoryInOrder`, from `StoryInv`: a run that read the present version is going to write the
  story as it is and its drawing (`Faithful`).
- `TabletsAccountForTheirWork`, from `TabletInv`: until an upload writes an old date back,
  no date is newer than the drawing's (`Timely`), and a tablet with the date of the drawing
  has what was drawn and dated online (`UpToDate`).
- `GalleryTypes`: these invariants hold the types of what they are about; `OtherTypes` adds
  the rest (the strokes and entries of the drawing, writes of a story count from 1), and
  that what counts as lost had been drawn.

Only model-checked: liveness (`UpdatesAreTaken`, `ComesToRest`, `BackLeavesPage`,
`OfflineCopyCatchesUp`, `CatchesUp`), which is out of the prover's reach.

## 10. Findings

- `recent` (code against comment): `PurgeOverrideMap` removes an override by key after it
  tested it. A stroke transformed and then erased between the two, just as its first edit
  is echoed, loses the deletion's override, and the "most recent strokes list" shows the
  erased stroke again until the deletion is echoed.

- `previous` (code against comment): the comment at `Drawing.cs:258` says that selecting
  makes the previously selected strokes unselected. `OnSelectionChanged` releases the
  locks that its copy of the model shows as the user's; a selection that follows before
  the previous one was echoed leaves the first lock behind for good.

- `OverachieverIsOutOfReach` in run `social` (description against definition):
  `achievementsDefinitions.ts:39` describes `achievements-2` as "Get all the achievements
  (minus one, obviously)", but its count is 17, all of them, itself included. The property
  states what the code does, that nobody completes it; the theorem
  `OverachieverNeverCompleted` says so for any number of definitions.

Met while modelling and part of the models, without a text that they contradict:
`StoriesService.RemoveFromStory` removes every drawing of the story, whichever it is given;
`SetIsFollowingUser` writes FALSE where the readers test for presence, so that one who
unfollowed on a desktop is still listed; the desktop and the iPad list whom a user follows
in different nodes, so that each misses the follows made on the other; an ended stream leaves the task spinning; a second
chat box of a conversation takes over the collection of the first one; two sync threads that
copy a target at once can leave an old file under the hash of the new value, which is then
never replaced.

## 11. Not modelled

- Presentation: views, converters, view models beyond navigation and chat boxes, data
  classes. Export and the calls to social networks: input and output only.
- `Slofth.Firebase` HTTP wrappers and the authentication calls: single requests with an
  answer or an exception, which is how the models use them. Filters of queries.
- The function that annotates previews: one call to an external service, whose answer no
  modelled operation reads.
- Tags and searching, names and photos of profiles, the tutorial flag: single reads and
  writes without an order to get wrong. The image files and the list of users in the cache.
- Login and logout with a drawing or a chat open, beyond what `Messaging` does at a logout;
  two computers of one user in `DrawingSession`.
- The drawing view of the iPad and its pages; erasing and replacing strokes on a tablet
  that is signed out. Vendored code (`ipad/Pods`).
