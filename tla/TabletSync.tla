------------------------------ MODULE TabletSync -------------------------------
(***************************************************************************)
(* What becomes of the strokes that somebody who is signed out draws on a  *)
(* tablet (DrawingService.swift): they stay in the user defaults until     *)
(* syncData sends them.  It sends a drawing created there in any case, and *)
(* one that was only modified when its date in the database is still the   *)
(* one that the tablet has.  One drawing, which others edit online: first  *)
(* its strokes, and its date after that.                                   *)
(*                                                                         *)
(* The SDK keeps what it has to send in memory, in order, and nobody who   *)
(* is signed out may read or write (database.rules.bolt).                  *)
(***************************************************************************)
EXTENDS Naturals, Sequences

CONSTANTS
    Tablets,
    Strokes   \* strokes that may be drawn

\* What a stroke is made by: a tablet, somebody online, or nobody yet.
ASSUME TabletsAreNames == "nobody" \notin Tablets /\ "online" \notin Tablets

VARIABLES
    node,      \* the drawing in the database: the date of its info (0: none) and its strokes
    undated,   \* the strokes of an online edit whose date has not been written yet
    tablets,   \* the user defaults and the running application of each tablet
    made,      \* history: the tablet that drew a stroke signed out, or "online",
    refused,   \* strokes that were not sent because the dates differed,
    cut,       \* that the end of a session kept from being sent,
    replaced,  \* that an upload took away,
    wronged,   \* that it took away although the date had told of them,
    redated,   \* and that an upload wrote an older date over a newer one
    leftT      \* how often each bounded thing may still happen

tabletVars == <<node, undated, tablets, made, refused, cut, replaced, wronged, redated, leftT>>

\* app: signed out, on its way through syncData, or watching the node: its date first,
\* then its strokes, then both.
NewTablet ==
    [app |-> "out", date |-> 1, strokes |-> {}, created |-> FALSE, modified |-> FALSE,
     thumbnail |-> 0, mixed |-> FALSE, queue |-> <<>>]

\* The drawing is known to all, or creator has just created it signed out.
TabletInit(creator, bounds) ==
    /\ node = [date |-> IF creator \in Tablets THEN 0 ELSE 1, strokes |-> {}] /\ undated = {}
    /\ tablets = [t \in Tablets |-> [NewTablet EXCEPT !.created = t = creator]]
    /\ made = [s \in Strokes |-> "nobody"]
    /\ refused = {} /\ cut = {} /\ replaced = {} /\ wronged = {} /\ redated = FALSE /\ leftT = bounds

New(s) == made[s] = "nobody"
Own(t) == {s \in Strokes : made[s] = t}
Known(t) == tablets[t].created \/ \A u \in Tablets : ~tablets[u].created

Info(date) == [to |-> "info", date |-> date, strokes |-> {}]
Merge(S) == [to |-> "merge", date |-> 0, strokes |-> S]
Replace(S) == [to |-> "replace", date |-> 0, strokes |-> S]

-----------------------------------------------------------------------------
(* Others, online *)

EditOnline(s) ==
    /\ leftT.online > 0 /\ New(s) /\ undated = {} /\ node.date # 0
    /\ node' = [node EXCEPT !.strokes = @ \cup {s}] /\ undated' = {s}
    /\ made' = [made EXCEPT ![s] = "online"] /\ leftT' = [leftT EXCEPT !.online = @ - 1]
    /\ UNCHANGED <<tablets, refused, cut, replaced, wronged, redated>>

DateOnline ==
    /\ undated # {} /\ undated' = {}
    /\ node' = [node EXCEPT !.date = leftT.dates] /\ leftT' = [leftT EXCEPT !.dates = @ + 1]
    /\ UNCHANGED <<tablets, made, refused, cut, replaced, wronged, redated>>

-----------------------------------------------------------------------------
(* A tablet *)

\* createStroke without a user: the stroke is kept and the drawing marked; its date
\* stays as it is.
EditOffline(t, s) ==
    /\ tablets[t].app = "out" /\ Known(t) /\ New(s) /\ leftT.offline > 0
    /\ tablets' = [tablets EXCEPT ![t].strokes = @ \cup {s}, ![t].modified = TRUE]
    /\ made' = [made EXCEPT ![s] = t] /\ leftT' = [leftT EXCEPT !.offline = @ - 1]
    /\ UNCHANGED <<node, undated, refused, cut, replaced, wronged, redated>>

\* What syncData sends of a drawing created here; its info waits for the thumbnail.
Sending(t, hasThumbnail) ==
    IF hasThumbnail THEN <<Merge(tablets[t].strokes)>>
                    ELSE <<Merge(tablets[t].strokes), Info(tablets[t].date)>>

\* syncData, when the feed is loaded: the marks go at once, before any answer.
SyncData(t) ==
    /\ tablets[t].app = "out" /\ leftT.signIns > 0 /\ leftT' = [leftT EXCEPT !.signIns = @ - 1]
    /\ \E hasThumbnail \in {FALSE} \cup {tablets[t].created} :
          tablets' = [tablets EXCEPT
            ![t].app = IF tablets[t].modified THEN "asking" ELSE "fetching",
            ![t].queue = IF tablets[t].created THEN Sending(t, hasThumbnail) ELSE <<>>,
            ![t].thumbnail = IF hasThumbnail THEN tablets[t].date ELSE 0, ![t].created = FALSE, ![t].modified = FALSE]
    /\ UNCHANGED <<node, undated, made, refused, cut, replaced, wronged, redated>>

\* The thumbnail of a created drawing is stored, or is not; the info goes either way.
ThumbnailSaved(t) ==
    /\ tablets[t].thumbnail # 0
    /\ tablets' = [tablets EXCEPT ![t].thumbnail = 0, ![t].queue = Append(@, Info(tablets[t].thumbnail))]
    /\ UNCHANGED <<node, undated, made, refused, cut, replaced, wronged, redated, leftT>>

\* (Altered: the strokes are sent whatever the date is.)
SameDate_Always(t) == TRUE

SameDate(t) == tablets[t].date = node.date

\* getDrawingInfoOnce: the info, with the date as it was, and the strokes go on their
\* way.  The answer comes after what was sent before the question.
Answered(t) ==
    LET here == tablets[t].strokes IN
    /\ tablets[t].app = "asking" /\ tablets[t].queue = <<>>
    /\ IF SameDate(t)
       THEN /\ tablets' = [tablets EXCEPT ![t].app = "fetching", ![t].queue = <<Info(tablets[t].date), Replace(here)>>]
            /\ wronged' = wronged \cup {s \in node.strokes \ here :
                            /\ made[s] = "online" /\ s \notin undated \cup replaced
                            /\ ~tablets[t].mixed /\ ~redated}
            /\ UNCHANGED refused
       ELSE /\ tablets' = [tablets EXCEPT ![t].app = "fetching"]
            /\ refused' = refused \cup (Own(t) \cap here)
            /\ UNCHANGED wronged
    /\ UNCHANGED <<node, undated, made, cut, replaced, redated, leftT>>

Send(t) ==
    LET first == Head(tablets[t].queue) IN
    /\ tablets[t].queue # <<>>
    /\ node' = [date |-> IF first.to = "info" THEN first.date ELSE node.date,
                strokes |-> IF first.to = "replace" THEN first.strokes ELSE node.strokes \cup first.strokes]
    /\ replaced' = replaced \cup (node.strokes \ node'.strokes)
    /\ redated' = (redated \/ node'.date < node.date)
    /\ tablets' = [tablets EXCEPT ![t].queue = Tail(@)]
    /\ UNCHANGED <<undated, made, refused, cut, wronged, leftT>>

\* fetchDrawing: the date arrives first, and the strokes after it; later both follow
\* the node, strokes before the date as they were written.  Without any strokes in
\* the database the callback returns, and those of the tablet stay.
Fetched(t) == IF node.strokes = {} THEN tablets[t].strokes ELSE node.strokes

InfoArrives(t) ==
    /\ tablets[t].app = "fetching" /\ tablets[t].queue = <<>>
    /\ tablets' = [tablets EXCEPT ![t].app = "dated", ![t].date = node.date, ![t].mixed = TRUE]
    /\ UNCHANGED <<node, undated, made, refused, cut, replaced, wronged, redated, leftT>>

StrokesArrive(t) ==
    /\ \/ tablets[t].app = "dated"
       \/ tablets[t].app = "watching" /\ tablets[t].strokes # Fetched(t)
    /\ tablets' = [tablets EXCEPT ![t].app = "watching", ![t].strokes = Fetched(t), ![t].mixed = FALSE]
    /\ UNCHANGED <<node, undated, made, refused, cut, replaced, wronged, redated, leftT>>

DateArrives(t) ==
    /\ tablets[t].app = "watching" /\ tablets[t].strokes = Fetched(t) /\ tablets[t].date # node.date
    /\ tablets' = [tablets EXCEPT ![t].date = node.date]
    /\ UNCHANGED <<node, undated, made, refused, cut, replaced, wronged, redated, leftT>>

\* (Altered: the SDK keeps what it has not sent.)
EndSession_Keeps(t) ==
    /\ tablets[t].app # "out"
    /\ tablets' = [tablets EXCEPT ![t].app = "out"]
    /\ UNCHANGED <<node, undated, made, refused, cut, replaced, wronged, redated, leftT>>

\* The user signs out or the application is ended: what the SDK has not sent is gone,
\* and so is the thumbnail that the info waits for.
EndSession(t) ==
    /\ tablets[t].app # "out"
    /\ tablets' = [tablets EXCEPT ![t].app = "out", ![t].queue = <<>>, ![t].thumbnail = 0]
    /\ cut' = cut \cup
         {s \in Own(t) : \/ tablets[t].app = "asking" /\ s \in tablets[t].strokes
                         \/ \E i \in DOMAIN tablets[t].queue : s \in tablets[t].queue[i].strokes}
    /\ UNCHANGED <<node, undated, made, refused, replaced, wronged, redated, leftT>>

Sdk(t) ==
    ThumbnailSaved(t) \/ Answered(t) \/ Send(t) \/ InfoArrives(t) \/ StrokesArrive(t) \/ DateArrives(t)

TabletStep ==
    \/ \E s \in Strokes : EditOnline(s) \/ \E t \in Tablets : EditOffline(t, s)
    \/ DateOnline
    \/ \E t \in Tablets : SyncData(t) \/ Sdk(t) \/ EndSession(t)

-----------------------------------------------------------------------------
(* Properties *)

\* A stroke drawn signed out is marked on its tablet, on its way or in the database,
\* unless the dates differed, the session ended before it was sent, or another upload
\* replaced it.
OfflineStrokesAccounted ==
    \A t \in Tablets : \A s \in Own(t) :
        \/ s \in tablets[t].strokes /\ (tablets[t].modified \/ tablets[t].created \/ tablets[t].app = "asking")
        \/ \E i \in DOMAIN tablets[t].queue : s \in tablets[t].queue[i].strokes
        \/ s \in node.strokes \cup refused \cup cut \cup replaced

\* Strokes that an online client drew and dated are replaced by an upload only if they
\* were dated after the question was answered, if an earlier upload had replaced them
\* already and another one brought them back, if the tablet had been stopped between the
\* arrival of the date and of the strokes, or if an upload wrote back an old date.
UploadsSpareTheDated == wronged = {}

TabletWorkAccounted == OfflineStrokesAccounted /\ UploadsSpareTheDated
=============================================================================
