---------------------------- MODULE DatabaseStream ----------------------------
(***************************************************************************)
(* One subscription of a desktop client to a node of the realtime database *)
(* (FirebaseObservable.cs, ServerEvent.cs): a task reads the events of an  *)
(* HTTP stream, applies them to a local copy of the node (Cache) and calls *)
(* the handler that the subscriber gave.                                   *)
(*                                                                         *)
(* In the database a value is a function from the paths of its leaves to   *)
(* scalars; the null value has none.  The client holds JSON trees, whose   *)
(* objects may be empty and whose property names may be anything: when the *)
(* code uses the dotted path of an event as one property name, the name is *)
(* that whole path.  So a name is a sequence of keys, usually of one.      *)
(***************************************************************************)
EXTENDS Naturals, Sequences

CONSTANTS
    Scenarios,      \* what the node holds, who writes what, and what goes wrong
    Keys, Scalars,  \* of the values in the database
    Obj, Null       \* JSON tokens that are not scalars

\* What a subscriber may listen to, and what may happen to the connection.
Handlers == {"ValueChanged", "ChildAdded", "ChildChanged", "ChildRemoved"}
Troubles == {"keep-alive", "auth_revoked", "cancel", "end"}

VARIABLES
    node,      \* the database
    open,      \* the server sends events on the present connection
    events,    \* events on their way
    Cache,     \* the local copy
    phase,     \* the task: awaiting a token or an answer, at the test of its loop, reading, and so on
    stopped,   \* Stop was called
    told,      \* what the handler was given
    late,      \* history: events applied after Stop
    mangled,   \* history, since the connection: children written in a way that the client mishandles,
    emptied,   \* children whose last field was removed by itself,
    touched,   \* and children written by a patch or from inside
    handler,   \* the scenario: which handler the subscriber gave,
    writes,    \* what others may write,
    left       \* and bounds: writes, troubles

env == <<handler, writes>>
since == <<mangled, emptied, touched>>
vars == <<node, open, events, Cache, phase, stopped, told, late, since, left, env>>

-----------------------------------------------------------------------------
(* Values *)

Prefix(p, q) == Len(p) <= Len(q) /\ SubSeq(q, 1, Len(p)) = p
Below(p, q) == SubSeq(q, Len(p) + 1, Len(q))

\* The paths of leaves; none is under another.
IsValue(v) ==
    /\ v \in [DOMAIN v -> Scalars] /\ DOMAIN v \subseteq Seq(Keys)
    /\ \A p, q \in DOMAIN v : Prefix(p, q) => p = q

\* Subscriptions are to nodes with children, which nobody writes a scalar to.
IsNode(v) == IsValue(v) /\ <<>> \notin DOMAIN v
IsWrite(w) ==
    /\ w.path \in Seq(Keys)
    /\ \/ /\ w.type = "put" /\ DOMAIN w = {"type", "path", "data"}
          /\ IsValue(w.data) /\ (w.path = <<>> => <<>> \notin DOMAIN w.data)
       \/ /\ w.type = "patch" /\ DOMAIN w = {"type", "path", "fields"}
          /\ w.fields = [f \in DOMAIN w.fields |-> w.fields[f]] /\ DOMAIN w.fields \subseteq Keys
          /\ \A f \in DOMAIN w.fields : IsValue(w.fields[f])

ASSUME TokensDiffer == Obj # Null /\ Obj \notin Scalars /\ Null \notin Scalars
ASSUME ScenariosAreStates ==
    \A s \in Scenarios : IsNode(s.node) /\ s.handler \in Handlers /\ \A w \in s.writes : IsWrite(w)

\* The first keys of a value's paths, and a path as the client navigates it.
Children(v) == {q[1] : q \in DOMAIN v \ {<<>>}}
Steps(p) == [i \in 1..Len(p) |-> <<p[i]>>]

\* The leaves d in place of whatever was at or under p, and of a scalar on the way
\* there, which null leaves alone.
Overwritten(v, p, d) ==
    LET kept == {q \in DOMAIN v : ~Prefix(p, q) /\ (DOMAIN d = {} \/ ~Prefix(q, p))}
    IN  [q \in kept \cup {p \o r : r \in DOMAIN d} |->
            IF q \in kept THEN v[q] ELSE d[Below(p, q)]]

\* A patch overwrites each of the given fields of p.
Merged(v, p, fields) ==
    LET at(f) == p \o <<f>>
        gone == \A f \in DOMAIN fields : DOMAIN fields[f] = {}
        kept == {q \in DOMAIN v : /\ gone \/ ~Prefix(q, p)
                                  /\ \A f \in DOMAIN fields : ~Prefix(at(f), q)}
        new == UNION {{at(f) \o r : r \in DOMAIN fields[f]} : f \in DOMAIN fields}
    IN  [q \in kept \cup new |->
            IF q \in kept THEN v[q] ELSE fields[q[Len(p) + 1]][Below(p \o <<q[Len(p) + 1]>>, q)]]

Written(v, w) ==
    IF w.type = "put" THEN Overwritten(v, w.path, w.data) ELSE Merged(v, w.path, w.fields)

\* The JSON text of a value, parsed.
Json(v) ==
    IF DOMAIN v = {} THEN [p \in {<<>>} |-> Null]
    ELSE LET tokens == UNION {{SubSeq(q, 1, n) : n \in 0..Len(q)} : q \in DOMAIN v}
         IN  [p \in {Steps(q) : q \in tokens} |->
                LET q == CHOOSE q \in tokens : Steps(q) = p
                IN  IF q \in DOMAIN v THEN v[q] ELSE Obj]

EmptyObject == [p \in {<<>>} |-> Obj]

\* SelectToken, and a token with another one set or removed below it.
SubTree(t, p) == [r \in {Below(p, q) : q \in {q \in DOMAIN t : Prefix(p, q)}} |-> t[p \o r]]
Removed(t, p) == [q \in {q \in DOMAIN t : ~Prefix(p, q)} |-> t[q]]
Assigned(t, p, s) ==
    LET kept == {q \in DOMAIN t : ~Prefix(p, q)}
    IN  [q \in kept \cup {p \o r : r \in DOMAIN s} |-> IF q \in kept THEN t[q] ELSE s[Below(p, q)]]

\* An object at dest with fields set or, by null, removed.
Patched(t, dest, fields) ==
    LET at(f) == dest \o <<<<f>>>>
        kept == {q \in DOMAIN t : \A f \in DOMAIN fields : ~Prefix(at(f), q)}
        set == {f \in DOMAIN fields : DOMAIN fields[f] # {}}
        new == UNION {{at(f) \o r : r \in DOMAIN Json(fields[f])} : f \in set}
        name(q) == q[Len(dest) + 1][1]
    IN  [q \in kept \cup new |-> IF q \in kept THEN t[q] ELSE Json(fields[name(q)])[Below(at(name(q)), q)]]

\* What a handler is given of a child, and all children of an object.
Names(t) == {q[1] : q \in DOMAIN t \ {<<>>}}
ChildTokens(t) == {SubTree(t, <<n>>) : n \in Names(t)}

\* The node as the subscriber should see it: an absent node is an empty object,
\* and objects without a value mean nothing.
View(v) == IF DOMAIN v = {} THEN EmptyObject ELSE Json(v)
Trimmed(t) ==
    [p \in {p \in DOMAIN t : p = <<>> \/ \E q \in DOMAIN t : Prefix(p, q) /\ t[q] # Obj} |-> t[p]]

-----------------------------------------------------------------------------
(* Handling one event *)

ChildKey(e) == Steps(SubSeq(e.path, 1, 1))

\* Names in an event path are joined with dots to one property name.
Joined(p) == <<p>>

\* What the registered handler is told: of the value only the last matters.
Tell(kind, tokens) == told' = IF handler = kind THEN told \cup tokens ELSE told
\* (Altered: a patch raises no ValueChanged.)
TellValueOr_NotForPatches(kind, tokens) ==
    IF handler = "ValueChanged" /\ kind # "none" THEN told' = {Cache'} ELSE Tell(kind, tokens)

TellValueOr(kind, tokens) ==
    IF handler = "ValueChanged" THEN told' = {Cache'} ELSE Tell(kind, tokens)

\* (Altered: only a first put tells of children; a null is ignored.)
PutNode_FirstOnly(e) ==
    /\ e.path = <<>>
    /\ Cache' = IF DOMAIN e.data = {} THEN EmptyObject ELSE Json(e.data)
    /\ TellValueOr("ChildAdded", IF Cache = EmptyObject THEN ChildTokens(Cache') ELSE {})
PutNode_IgnoresNull(e) ==
    /\ e.path = <<>>
    /\ Cache' = IF DOMAIN e.data = {} THEN Cache ELSE Json(e.data)
    /\ TellValueOr("ChildAdded", ChildTokens(Cache'))

\* A put of the whole node: Except compares references, so every child of the
\* old object is removed and every child of the new one is added.
PutNode(e) ==
    LET data == Json(e.data) IN
    /\ e.path = <<>>
    /\ Cache' = IF data[<<>>] = Obj THEN data ELSE EmptyObject
    /\ CASE handler = "ChildRemoved" -> told' = told \cup ChildTokens(Cache)
         [] OTHER -> TellValueOr("ChildAdded", ChildTokens(data))

\* A put at or below a child that the copy does not have.
PutNewChild(e) ==
    /\ e.path # <<>> /\ ChildKey(e) \notin DOMAIN Cache
    /\ Cache' = Assigned(Cache, Joined(e.path), Json(e.data))
    /\ TellValueOr("ChildAdded", {Json(e.data)})

\* (Altered: the whole child goes.)
PutNull_WholeChild(e) ==
    /\ e.path # <<>> /\ ChildKey(e) \in DOMAIN Cache /\ DOMAIN e.data = {}
    /\ Cache' = Removed(Cache, ChildKey(e))
    /\ TellValueOr("ChildRemoved", {SubTree(Cache, ChildKey(e))})

\* A null at or below a child: the token goes, an object left empty stays.
PutNull(e) ==
    LET p == Steps(e.path) IN
    /\ e.path # <<>> /\ ChildKey(e) \in DOMAIN Cache /\ DOMAIN e.data = {}
    /\ p \in DOMAIN Cache \/ handler # "ChildRemoved"
    /\ Cache' = Removed(Cache, p)
    /\ TellValueOr("ChildRemoved", {SubTree(Cache, p)})

\* Another value at or below a child: set as the property of the child that the
\* rest of the path names, which is the empty name if nothing is left of it.
PutInChild(e) ==
    /\ e.path # <<>> /\ ChildKey(e) \in DOMAIN Cache /\ DOMAIN e.data # {}
    /\ Cache[ChildKey(e)] = Obj
    /\ Cache' = Assigned(Cache, ChildKey(e) \o Joined(Tail(e.path)), Json(e.data))
    /\ TellValueOr("ChildChanged", {SubTree(Cache', ChildKey(e))})

HandlePut(e) == PutNode(e) \/ PutNewChild(e) \/ PutNull(e) \/ PutInChild(e)

\* The object that a patch is applied to; created under the dotted name if absent.
Dest(e) == IF Steps(e.path) \in DOMAIN Cache THEN Steps(e.path) ELSE Joined(e.path)
HandlePatch(e) ==
    LET base == IF Dest(e) \in DOMAIN Cache THEN Cache ELSE Assigned(Cache, Dest(e), EmptyObject)
    IN  /\ base[Dest(e)] = Obj
        /\ Cache' = Patched(base, Dest(e), e.fields)
        /\ TellValueOr("none", {})

\* (Altered: a patch needs its object to be there.)
Throws_IfAbsent(e) == e.type = "patch" /\ Steps(e.path) \notin DOMAIN Cache

\* A scalar where an object is expected, or nothing to give to ChildRemoved:
\* an exception, which ends the task.
Throws(e) ==
    IF e.type = "patch" THEN Dest(e) \in DOMAIN Cache /\ Cache[Dest(e)] # Obj
    ELSE /\ e.path # <<>> /\ ChildKey(e) \in DOMAIN Cache
         /\ IF DOMAIN e.data # {} THEN Cache[ChildKey(e)] # Obj
            ELSE Steps(e.path) \notin DOMAIN Cache /\ handler = "ChildRemoved"

-----------------------------------------------------------------------------
(* The task *)

Init ==
    \E s \in Scenarios :
        /\ node = s.node /\ handler = s.handler /\ writes = s.writes /\ left = s.left
        /\ open = FALSE /\ events = <<>> /\ Cache = EmptyObject
        /\ phase = "connecting" /\ stopped = FALSE /\ told = {} /\ late = 0
        /\ mangled = {} /\ emptied = {} /\ touched = {}

\* The request with a fresh token is answered: the stream starts with a put of the whole node.
Connect ==
    /\ phase = "connecting"
    /\ phase' = "top" /\ open' = TRUE
    /\ events' = <<[type |-> "put", path |-> <<>>, data |-> node, after |-> node]>>
    /\ mangled' = {} /\ emptied' = {} /\ touched' = {}
    /\ UNCHANGED <<node, Cache, stopped, told, late, left, env>>

\* No token, no answer, or the answer is an error, whose text is no event.
Refuse ==
    /\ phase = "connecting" /\ left.troubles > 0
    /\ phase' = "failed" /\ left' = [left EXCEPT !.troubles = @ - 1]
    /\ UNCHANGED <<node, open, events, Cache, stopped, told, late, since, env>>

\* (Altered: the inner loop never ends.)
TestLoop_Never ==
    /\ phase = "top" /\ phase' = "reading"
    /\ UNCHANGED <<node, open, events, Cache, stopped, told, late, since, left, env>>

\* The loop's condition, and the read that follows it.
TestLoop ==
    /\ phase = "top"
    /\ IF stopped THEN phase' = "ended" /\ open' = FALSE ELSE phase' = "reading" /\ UNCHANGED open
    /\ UNCHANGED <<node, events, Cache, stopped, told, late, since, left, env>>

Reads(type) == phase = "reading" /\ events # <<>> /\ Head(events).type = type
Count == late' = late + (IF stopped THEN 1 ELSE 0)
Consume == events' = Tail(events)

ReceivePut ==
    /\ Reads("put") /\ HandlePut(Head(events))
    /\ phase' = "top" /\ Count /\ Consume
    /\ UNCHANGED <<node, open, stopped, since, left, env>>

ReceivePatch ==
    /\ Reads("patch") /\ HandlePatch(Head(events))
    /\ phase' = "top" /\ Count /\ Consume
    /\ UNCHANGED <<node, open, stopped, since, left, env>>

\* The handling of an event throws, or access is denied. The exception of a connection
\* that breaks while ReadLineAsync waits ends the task in the same way ("cancel").
Die ==
    /\ phase = "reading" /\ events # <<>>
    /\ Head(events).type = "cancel" \/ (Head(events).type \in {"put", "patch"} /\ Throws(Head(events)))
    /\ phase' = "failed" /\ open' = FALSE /\ events' = <<>>
    /\ UNCHANGED <<node, Cache, stopped, told, late, since, left, env>>

ReceiveKeepAlive ==
    /\ Reads("keep-alive") /\ phase' = "top" /\ Consume
    /\ UNCHANGED <<node, open, Cache, stopped, told, late, since, left, env>>

\* (Altered: an expired token ends both loops.)
ReceiveAuthRevoked_Ends ==
    /\ Reads("auth_revoked")
    /\ phase' = "ended" /\ open' = FALSE /\ events' = <<>>
    /\ UNCHANGED <<node, Cache, stopped, told, late, since, left, env>>

\* The token expired: the loops start over, with a new one.
ReceiveAuthRevoked ==
    /\ Reads("auth_revoked")
    /\ phase' = IF stopped THEN "ended" ELSE "connecting"
    /\ open' = FALSE /\ events' = <<>>
    /\ UNCHANGED <<node, Cache, stopped, told, late, since, left, env>>

\* The stream ends: ReadLineAsync gives null for ever, and each null is skipped
\* like an empty line, unless the first one is the second line of an event.
ReceiveEnd ==
    /\ Reads("end")
    /\ phase' \in {"deaf", "failed"} /\ Consume
    /\ UNCHANGED <<node, open, Cache, stopped, told, late, since, left, env>>

SpinUntilStopped ==
    /\ phase = "deaf" /\ stopped /\ phase' = "ended"
    /\ UNCHANGED <<node, open, events, Cache, stopped, told, late, since, left, env>>

Stop ==
    /\ ~stopped /\ left.stops > 0 /\ stopped' = TRUE
    /\ UNCHANGED <<node, open, events, Cache, phase, told, late, since, left, env>>

-----------------------------------------------------------------------------
(* The database and those who write to it *)

\* The child that a write is at or in, and whether it removes the child's last field.
Target(w) == IF w.path = <<>> THEN {} ELSE {w.path[1]}
Empties(w) ==
    LET k == w.path[1] IN
    /\ IF w.type = "put" THEN Len(w.path) > 1 ELSE w.path # <<>>
    /\ k \in Children(node) \ Children(Written(node, w))

\* An object at path p.
IsObject(v, p) == \E q \in DOMAIN v : Prefix(p, q) /\ q # p

\* Its copy goes wrong if it is replaced as a whole, or was emptied before; if a put
\* is for a field of it while it is no object, or for a field of a field; and if
\* a patch is for a scalar, or inside the child for what is no object.
Mangles(w) ==
    LET k == w.path[1]
        absent == k \notin Children(node)
        scalar == <<k>> \in DOMAIN node
    IN  /\ w.path # <<>>
        /\ CASE w.type = "patch" -> scalar \/ (Len(w.path) > 1 /\ ~IsObject(node, w.path))
             [] w.type = "put" /\ DOMAIN w.data = {} -> FALSE
             [] OTHER -> IF Len(w.path) > 1 THEN absent \/ scalar \/ Len(w.path) > 2 ELSE ~absent \/ k \in emptied

\* Children that a write changes without being a put of the child itself.
Touched(w) ==
    CASE w.type = "patch" /\ w.path = <<>> -> DOMAIN w.fields
      [] w.path # <<>> /\ (w.type = "patch" \/ Len(w.path) > 1) -> Target(w)
      [] OTHER -> {}

\* The event that tells of a write, with the value that the write left (for Pending).
Event(w, v) == [f \in DOMAIN w \cup {"after"} |-> IF f = "after" THEN v ELSE w[f]]

\* A write that changes the node (the server tells of no others).
Write(w) ==
    LET v == Written(node, w) IN
    /\ left.writes > 0 /\ v # node
    /\ node' = v
    /\ left' = [left EXCEPT !.writes = @ - 1]
    /\ IF open THEN /\ events' = Append(events, Event(w, v))
                    /\ mangled' = mangled \cup (IF Mangles(w) THEN Target(w) ELSE {})
                    /\ emptied' = emptied \cup (IF Empties(w) THEN Target(w) ELSE {})
                    /\ touched' = touched \cup Touched(w)
               ELSE UNCHANGED <<events, since>>
    /\ UNCHANGED <<open, Cache, phase, stopped, told, late, env>>

\* The server's own events; all but keep-alive are the last of their connection.
Trouble(type) ==
    /\ open /\ left.troubles > 0
    /\ events' = Append(events, [type |-> type, after |-> node])
    /\ open' = (type = "keep-alive")
    /\ left' = [left EXCEPT !.troubles = @ - 1]
    /\ UNCHANGED <<node, Cache, phase, stopped, told, late, since, env>>

Task ==
    \/ Connect \/ TestLoop \/ ReceivePut \/ ReceivePatch \/ Die \/ ReceiveKeepAlive
    \/ ReceiveAuthRevoked \/ ReceiveEnd \/ SpinUntilStopped

Next ==
    \/ Task \/ Refuse \/ Stop
    \/ \E w \in writes : Write(w)
    \/ \E type \in Troubles : Trouble(type)

\* The task runs and requests are answered; nobody has to write, to stop or to fail.
Spec == Init /\ [][Next]_vars /\ WF_vars(Task)

-----------------------------------------------------------------------------
(* Properties *)

\* Everything sent has been handled and the connection lives.
Quiet == open /\ events = <<>>

\* At rest every child of the copy is that of the node, unless a write of a kind
\* that HandlePut or HandlePatch gets wrong was made to this very child since the
\* connection; no such write damages another child.
OthersAgree ==
    Quiet => \A n \in Names(Trimmed(Cache)) \cup Names(View(node)) :
                n[1] \in mangled \/ SubTree(Trimmed(Cache), <<n>>) = SubTree(View(node), <<n>>)

\* A subscriber to added children (conversations, messages) was given every child
\* that was put there, also across reconnections; only what patches write is missed.
AddedChildrenAreTold ==
    Quiet /\ handler = "ChildAdded" =>
        \A k \in Children(node) \ (mangled \cup touched) : SubTree(View(node), <<<<k>>>>) \in told

\* A subscriber to the value was last given the value of the node.
ValueIsTold ==
    Quiet /\ handler = "ValueChanged" /\ mangled = {} => {Trimmed(t) : t \in told} = {View(node)}

\* Stop is only tested before a read, so one event may still be applied after it
\* (and its handler called); a second one never.
AtMostOneLate == late <= 1

\* The task dies of an event only if access is denied or the connection breaks (both
\* "cancel"), the stream ends in the middle of an event, or a child was written in a
\* way it mishandles.
DiesOnlyOfMangling ==
    [][phase = "reading" /\ phase' = "failed" =>
            Head(events).type \in {"cancel", "end"} \/ mangled # {}]_vars

\* The copy takes the values of the node one after the other.
Pending == [i \in DOMAIN events |-> View(events[i].after)]
Copy == INSTANCE NodeCopy WITH
            node <- View(node), pending <- Pending, copy <- Trimmed(Cache), astray <- mangled # {}
FollowsTheNode == Copy!Spec

\* While the subscription is neither stopped nor dead, the copy comes to agree with
\* the node, whatever keep-alives and expired tokens come in between.
CatchesUp ==
    <>[](~stopped /\ phase \notin {"deaf", "failed"} /\ mangled = {}
            => Quiet /\ Trimmed(Cache) = View(node))
=============================================================================
