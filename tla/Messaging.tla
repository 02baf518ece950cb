------------------------------- MODULE Messaging -------------------------------
(***************************************************************************)
(* How a desktop client shows a list that others add to: the messages of a *)
(* conversation (Conversation.cs, ChatBoxViewModel.cs) or the list of      *)
(* conversations (MessagingService.cs, ConversationsListViewModel.cs).     *)
(* Both read the node once, subscribe to added children, give the          *)
(* collection to the page, which copies it and then attaches a handler     *)
(* that adds what the listening task finds later.                          *)
(*                                                                         *)
(* Every conversation object has one collection, which a second opening of *)
(* the conversation replaces; each opening has a subscription, and none is *)
(* stopped when a chat box is closed.  An item is what Equals compares: a  *)
(* desktop message is like no other, but the timestamp of a tablet's       *)
(* messages is computed once per process, so that there only the text      *)
(* tells them apart.                                                       *)
(***************************************************************************)
EXTENDS Naturals, Sequences, FiniteSets

CONSTANTS
    Keys,      \* 1..n: the keys that Push and childByAutoId may give, in their order
    Openings,  \* 1..n: the times the page may be opened
    Texts      \* what may be written on a tablet

ASSUME ZeroIsNone == 0 \notin Keys \cup Openings

VARIABLES
    kind,      \* "messages" or "conversations"
    items,     \* items[k]: what the database holds under key k
    pushed,    \* keys given to desktop senders that have not written them yet
    openings,  \* openings[o]: the page, its collection and its subscription
    newest,    \* the opening whose collection the property Messages holds, or 0
    current,   \* the opening whose subscription MessagesSubscription or ConversationsSubscription holds, or 0
    loggedIn,
    crashed,   \* the process ended on an exception
    leftM      \* how often each bounded thing may still happen

messagingVars == <<kind, items, pushed, openings, newest, current, loggedIn, crashed, leftM>>

Nothing == [from |-> "none", id |-> 0]
DesktopItem(k) == [from |-> "desktop", id |-> k]
TabletItem(x) == [from |-> "tablet", id |-> x]

Unopened ==
    [page |-> "unopened", box |-> "none", list |-> <<>>, size |-> 0, view |-> <<>>,
     stream |-> "off", events |-> <<>>, holding |-> 0, missed |-> {}, gap |-> {}]

MessagingInit(k, bounds) ==
    /\ kind = k /\ leftM = bounds
    /\ items = [i \in Keys |-> Nothing] /\ pushed = {}
    /\ openings = [o \in Openings |-> Unopened]
    /\ newest = 0 /\ current = 0 /\ loggedIn = TRUE /\ crashed = FALSE

Written == {k \in Keys : items[k] # Nothing}
Fresh(k) == k \notin Written \cup pushed /\ \A j \in Keys : j < k => j \in Written \cup pushed
Contains(list, k) == \E i \in DOMAIN list : items[list[i]] = items[k]

\* A read gives the keys in their order: the one sequence in this set.
InOrder(S) ==
    {s \in [1..Cardinality(S) -> S] :
        (\A k \in S : \E i \in DOMAIN s : s[i] = k) /\ \A i, j \in DOMAIN s : i < j => s[i] < s[j]}

\* The same, without the keys whose items equal an earlier one's.
WithoutRepeats(S) ==
    InOrder({k \in S : \A j \in S : j < k => items[j] # items[k]})

\* The collection that the listener of opening o adds to: the property Messages, or
\* the local variable of GetConversations.
Collection(o) == IF kind = "messages" THEN newest ELSE o

-----------------------------------------------------------------------------
(* Those who write *)

\* Streams that are live hear of a new child; a patch raises no ChildAdded.
Announce(k) == openings' = [o \in Openings |->
    IF openings[o].stream = "live" THEN [openings[o] EXCEPT !.events = Append(@, k)] ELSE openings[o]]
PassBy(k) == openings' = [o \in Openings |->
    IF openings[o].stream = "live" THEN [openings[o] EXCEPT !.missed = @ \cup {k}] ELSE openings[o]]

\* SendMessage, CreateConversation: a key first, the value under it later.
Push(k) ==
    /\ leftM.sends > 0 /\ Fresh(k)
    /\ pushed' = pushed \cup {k} /\ leftM' = [leftM EXCEPT !.sends = @ - 1]
    /\ UNCHANGED <<kind, items, openings, newest, current, loggedIn, crashed>>

Set(k) ==
    /\ k \in pushed
    /\ pushed' = pushed \ {k} /\ items' = [items EXCEPT ![k] = DesktopItem(k)]
    /\ Announce(k)
    /\ UNCHANGED <<kind, newest, current, loggedIn, crashed, leftM>>

\* A tablet patches the new child.
TabletSend(k) ==
    /\ leftM.tablet > 0 /\ Fresh(k)
    /\ \E x \in IF kind = "messages" THEN Texts ELSE {k} : items' = [items EXCEPT ![k] = TabletItem(x)]
    /\ PassBy(k) /\ leftM' = [leftM EXCEPT !.tablet = @ - 1]
    /\ UNCHANGED <<kind, pushed, newest, current, loggedIn, crashed>>

-----------------------------------------------------------------------------
(* The page *)

\* OpenConversation does nothing while a chat box of the conversation is in the list
\* of active ones; a box in a window of its own is not.
Open(o) ==
    /\ loggedIn /\ openings[o].page = "unopened" /\ leftM.opens > 0
    /\ leftM' = [leftM EXCEPT !.opens = @ - 1]
    /\ \A p \in Openings : p < o => openings[p].page # "unopened"
    /\ kind = "messages" => \A p \in Openings : openings[p].box # "tab"
    /\ openings' = [openings EXCEPT ![o].page = "asking", ![o].box = "tab"]
    /\ UNCHANGED <<kind, items, pushed, newest, current, loggedIn, crashed>>

\* ActiveChatBoxes.Remove: closed, or moved to a window, which may come back; nothing
\* else is told.
LeaveTab(o) ==
    /\ kind = "messages" /\ openings[o].box = "tab"
    /\ \E b \in {"window", "closed"} : openings' = [openings EXCEPT ![o].box = b]
    /\ UNCHANGED <<kind, items, pushed, newest, current, loggedIn, crashed, leftM>>

ReturnToTab(o) ==
    /\ openings[o].box = "window"
    /\ openings' = [openings EXCEPT ![o].box = "tab"]
    /\ UNCHANGED <<kind, items, pushed, newest, current, loggedIn, crashed, leftM>>

\* GetMessages, GetConversations: the answer fills a new collection, and a
\* subscription is started.
OnceAnswered(o) ==
    /\ openings[o].page = "asking"
    /\ \E keys \in WithoutRepeats(Written) :
          openings' = [openings EXCEPT ![o].page = "listed", ![o].list = keys, ![o].stream = "connecting"]
    /\ newest' = o /\ current' = o
    /\ UNCHANGED <<kind, items, pushed, loggedIn, crashed, leftM>>

\* The page copies the collection; if the listening task adds to it meanwhile, the
\* enumeration throws in an async void method.
StartWalk(o) ==
    /\ openings[o].page = "listed"
    /\ openings' = [openings EXCEPT ![o].page = "walking", ![o].size = Len(openings[o].list)]
    /\ UNCHANGED <<kind, items, pushed, newest, current, loggedIn, crashed, leftM>>

EndWalk(o) ==
    /\ openings[o].page = "walking"
    /\ IF Len(openings[o].list) = openings[o].size
       THEN /\ openings' = [openings EXCEPT ![o].page = "walked", ![o].view = openings[o].list]
            /\ UNCHANGED crashed
       ELSE crashed' = TRUE /\ UNCHANGED openings
    /\ UNCHANGED <<kind, items, pushed, newest, current, loggedIn, leftM>>

Attach(o) ==
    /\ openings[o].page = "walked"
    /\ openings' = [openings EXCEPT ![o].page = "attached"]
    /\ UNCHANGED <<kind, items, pushed, newest, current, loggedIn, crashed, leftM>>

\* CurrentUserChanged: MessagingService stops the subscription it knows of, which may
\* still handle what it is reading; conversations stop nothing.
LogoutM ==
    /\ loggedIn /\ leftM.logouts > 0
    /\ loggedIn' = FALSE /\ leftM' = [leftM EXCEPT !.logouts = @ - 1]
    /\ IF kind = "conversations" /\ current # 0
       THEN /\ \E n \in 0..Len(openings[current].events) :
                  openings' = [openings EXCEPT ![current].stream = "off",
                                               ![current].events = SubSeq(@, 1, n)]
            /\ current' = 0
       ELSE UNCHANGED <<openings, current>>
    /\ UNCHANGED <<kind, items, pushed, newest, crashed>>

-----------------------------------------------------------------------------
(* The listening tasks (see DatabaseStream) *)

\* A connection starts with all children, in the order of their keys.
Connect(o) ==
    /\ openings[o].stream = "connecting"
    /\ \E keys \in InOrder(Written) :
          openings' = [openings EXCEPT ![o].stream = "live", ![o].events = keys, ![o].missed = {}]
    /\ UNCHANGED <<kind, items, pushed, newest, current, loggedIn, crashed, leftM>>

\* The token expires, or the stream ends and is never renewed.
Disconnect(o) ==
    /\ openings[o].stream = "live" /\ openings[o].events = <<>> /\ openings[o].holding = 0
    /\ leftM.disconnects > 0 /\ leftM' = [leftM EXCEPT !.disconnects = @ - 1]
    /\ \E s \in {"connecting", "deaf"} : openings' = [openings EXCEPT ![o].stream = s]
    /\ UNCHANGED <<kind, items, pushed, newest, current, loggedIn, crashed>>

\* (Altered: nothing is tested.)
TestContains_Not(o) ==
    /\ openings[o].events # <<>> /\ openings[o].holding = 0
    /\ openings' = [openings EXCEPT ![o].events = Tail(@), ![o].holding = Head(openings[o].events)]
    /\ UNCHANGED <<kind, items, pushed, newest, current, loggedIn, crashed, leftM>>

\* AddMessageWithAdditionalInfo and its like: a test, and later the addition, each
\* to the collection that the property holds at that time.
TestContains(o) ==
    /\ openings[o].events # <<>> /\ openings[o].holding = 0
    /\ LET k == Head(openings[o].events) IN
       openings' = [openings EXCEPT ![o].events = Tail(@),
            ![o].holding = IF Contains(openings[Collection(o)].list, k) THEN 0 ELSE k]
    /\ UNCHANGED <<kind, items, pushed, newest, current, loggedIn, crashed, leftM>>

\* The addition raises CollectionChanged: the page shows the item if it is attached.
Add(o) ==
    LET k == openings[o].holding
        c == Collection(o)
        shown(p) == p = c /\ openings[p].page = "attached"
        unseen(p) == p = c /\ openings[p].page = "walked"
    IN  /\ k # 0
        /\ openings' = [p \in Openings |->
                [openings[p] EXCEPT !.holding = IF p = o THEN 0 ELSE @,
                                    !.list = IF p = c THEN Append(@, k) ELSE @,
                                    !.view = IF shown(p) THEN Append(@, k) ELSE @,
                                    !.gap = IF unseen(p) THEN @ \cup {k} ELSE @]]
        /\ UNCHANGED <<kind, items, pushed, newest, current, loggedIn, crashed, leftM>>

Page(o) == OnceAnswered(o) \/ StartWalk(o) \/ EndWalk(o) \/ Attach(o)
Listener(o) == Connect(o) \/ TestContains(o) \/ Add(o)

\* The writes, which others hear of, and the rest.
MessagingStep ==
    /\ ~crashed
    /\ \/ \E k \in Keys : Push(k)
       \/ \E o \in Openings : Open(o) \/ LeaveTab(o) \/ ReturnToTab(o) \/ Page(o) \/ Listener(o) \/ Disconnect(o)
       \/ LogoutM

-----------------------------------------------------------------------------
(* Properties *)

AtRest(o) ==
    /\ openings[o].page = "attached" /\ openings[o].stream = "live"
    /\ openings[o].events = <<>> /\ openings[o].holding = 0

\* A page at rest shows every item, or one equal to it, except: those that a tablet
\* wrote since the connection, those that arrived after the page had copied the
\* collection and before it attached its handler, and, after a second opening of
\* the conversation, those that went to the collection of that one.
NothingMissed ==
    ~crashed => \A o \in Openings : AtRest(o) /\ Collection(o) = o =>
        \A k \in Written : \/ Contains(openings[o].view, k)
                           \/ k \in openings[o].missed
                           \/ \E j \in openings[o].gap : items[j] = items[k]

\* A page shows no item twice, although the read and every connection tell of all of
\* them again, as long as the conversation was opened once: then one task alone
\* tests and adds.
ShownOnce ==
    \A o \in Openings : (\A p \in Openings \ {o} : openings[p].page = "unopened") \/ kind = "conversations" =>
        \A i, j \in DOMAIN openings[o].view : i < j =>
            items[openings[o].view[i]] # items[openings[o].view[j]]

\* What the pages of the desktop client show of a list that others add to.
ListsAreComplete == NothingMissed /\ ShownOnce
=============================================================================
