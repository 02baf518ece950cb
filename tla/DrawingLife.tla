------------------------------ MODULE DrawingLife ------------------------------
(***************************************************************************)
(* One drawing from its creation to its deletion (DrawingService.cs), with *)
(* those who have it open on a desktop or a tablet, upload what they did   *)
(* to it offline (CacheService.cs), list the drawings of a user            *)
(* (ProfileService.cs) or report it, and the mail that tells its owner     *)
(* (MailService.cs).  It is kept in four places that no request changes    *)
(* together: its model, its info, its strokes, and an entry under each     *)
(* user who opened it.                                                     *)
(***************************************************************************)
EXTENDS Naturals, FiniteSets

CONSTANTS
    Users,
    Owner,      \* the user who creates the drawing
    Sessions,   \* logins of the owner, each of which looks for what to mail
    Listings    \* runs of GetDrawingsIds

ASSUME OwnerIsUser == Owner \in Users

VARIABLES
    model,      \* drawings/<id> exists
    info,       \* drawingInfo/<id>: what was set at the creation, and fields set later
    strokes,    \* strokes/<id> exists
    entries,    \* the users with an entry for the drawing
    creation,   \* how far CreateDrawing is
    visits,     \* visits[u]: the writes of a user who has the drawing open
    uploads,    \* uploads[u]: how far UploadUpdatedData is, what it has to write, the info as it was cached
    deletion,   \* how far DeleteDrawing is, and the users whose entries it has yet to remove
    sessions,   \* sessions[s]: how far EmailCurrentUserOnImageBanned is
    listings,   \* listings[l]: how far a run is, and what it has read
    mails,      \* mails sent
    unsure,     \* history: two sessions worked at the same time, one ended after its mail, or the tag was lost,
    back,       \* the parts that were written again after their removal, "whole" for the info with all its fields
    leftD       \* who may still open it, which sessions there are, and how often the rest may happen

drawingVars ==
    <<model, info, strokes, entries, creation, visits, uploads, deletion, sessions, listings, mails, unsure, back, leftD>>

NoInfo == [whole |-> FALSE, fields |-> FALSE, reports |-> {}, sent |-> FALSE]
Idle == [stage |-> "idle", remaining |-> {}]
NoUpload == [stage |-> "off", parts |-> {}, copy |-> NoInfo]
NewListing == [stage |-> "waiting", entry |-> FALSE, info |-> NoInfo, after |-> FALSE]

HasInfo == info # NoInfo
IsBanned(i) == Cardinality(i.reports) >= 3
Deleted == deletion.stage # "idle"

DrawingInit(created, bounds) ==
    /\ model = created /\ strokes = FALSE
    /\ info = [NoInfo EXCEPT !.whole = created]
    /\ entries = IF created THEN {Owner} ELSE {}
    /\ creation = IF created THEN "done" ELSE "waiting"
    /\ visits = [u \in Users |-> {}] /\ uploads = [u \in Users |-> NoUpload] /\ deletion = Idle
    /\ sessions = [s \in Sessions |-> "off"] /\ listings = [l \in Listings |-> NewListing]
    /\ mails = 0 /\ unsure = FALSE /\ back = {} /\ leftD = bounds

\* The parts that the deletion has removed.
Removed ==
    CASE deletion.stage \in {"idle", "model"} -> {}
      [] deletion.stage = "info" -> {"model"}
      [] deletion.stage = "strokes" -> {"model", "info", "whole"}
      [] OTHER -> {"model", "info", "whole", "strokes"}

Writes(parts) == back' = back \cup (parts \cap Removed)

\* All fields of the info are written: it may lack the tag that says that its owner knows.
WriteWhole(new) ==
    /\ info' = new /\ Writes({"info", "whole"})
    /\ unsure' = (unsure \/ (mails > 0 /\ ~new.sent /\ \A s \in Sessions : sessions[s] # "tagging"))

-----------------------------------------------------------------------------
(* CreateDrawing: one request after the other, each of which may be the last *)

\* (Altered: the model is left to those who open the drawing.)
SetModel_Not ==
    /\ creation = "waiting" /\ creation' = "model"
    /\ UNCHANGED <<model, info, strokes, entries, visits, uploads, deletion, sessions, listings, mails, unsure, back, leftD>>

SetModel ==
    /\ creation = "waiting" /\ creation' = "model" /\ model' = TRUE
    /\ UNCHANGED <<info, strokes, entries, visits, uploads, deletion, sessions, listings, mails, unsure, back, leftD>>

SetInfo ==
    /\ creation = "model" /\ creation' = "info"
    /\ info' = [NoInfo EXCEPT !.whole = TRUE] /\ Writes({"info"})
    /\ UNCHANGED <<model, strokes, entries, visits, uploads, deletion, sessions, listings, mails, unsure, leftD>>

SetEntry ==
    /\ creation = "info" /\ creation' = "done" /\ entries' = entries \cup {Owner}
    /\ UNCHANGED <<model, info, strokes, visits, uploads, deletion, sessions, listings, mails, unsure, back, leftD>>

-----------------------------------------------------------------------------
(* Users who have the drawing open *)

\* GetDrawing found the model: the page adds the entry and the drawing writes its model
\* back, neither of which is waited for; strokes and a preview may follow.
Visit(u) ==
    /\ u \in leftD.visitors /\ leftD' = [leftD EXCEPT !.visitors = @ \ {u}]
    /\ model
    /\ \E more \in SUBSET {"strokes", "preview"} :
          visits' = [visits EXCEPT ![u] = @ \cup {"entry", "model"} \cup more]
    /\ UNCHANGED <<model, info, strokes, entries, creation, uploads, deletion, sessions, listings, mails, unsure, back>>

\* A tablet shows the drawing: what it writes of the model and of the info are all the
\* fields it knows, whichever of them changed, and the SDK sends them when it can.
VisitOnTablet(u) ==
    /\ u \in leftD.tablets /\ leftD' = [leftD EXCEPT !.tablets = @ \ {u}]
    /\ info.whole
    /\ \E parts \in (SUBSET {"model", "strokes", "info"}) \ {{}} :
          visits' = [visits EXCEPT ![u] = @ \cup parts]
    /\ UNCHANGED <<model, info, strokes, entries, creation, uploads, deletion, sessions, listings, mails, unsure, back>>

WriteEntry(u) ==
    /\ "entry" \in visits[u] /\ visits' = [visits EXCEPT ![u] = @ \ {"entry"}]
    /\ entries' = entries \cup {u}
    /\ UNCHANGED <<model, info, strokes, creation, uploads, deletion, sessions, listings, mails, unsure, back, leftD>>

WriteModel(u) ==
    /\ "model" \in visits[u] /\ visits' = [visits EXCEPT ![u] = @ \ {"model"}]
    /\ model' = TRUE /\ Writes({"model"})
    /\ UNCHANGED <<info, strokes, entries, creation, uploads, deletion, sessions, listings, mails, unsure, leftD>>

WriteStrokes(u) ==
    /\ "strokes" \in visits[u] /\ visits' = [visits EXCEPT ![u] = @ \ {"strokes"}]
    /\ strokes' = TRUE /\ Writes({"strokes"})
    /\ UNCHANGED <<model, info, entries, creation, uploads, deletion, sessions, listings, mails, unsure, leftD>>

\* SaveDrawingPreview, like a click on like or NSFW, sets single fields of the info.
WritePreview(u) ==
    /\ "preview" \in visits[u] /\ visits' = [visits EXCEPT ![u] = @ \ {"preview"}]
    /\ info' = [info EXCEPT !.fields = TRUE] /\ Writes({"info"})
    /\ UNCHANGED <<model, strokes, entries, creation, uploads, deletion, sessions, listings, mails, unsure, leftD>>

\* updateDrawingInfo and syncData of the tablet: what others wrote beside its fields stays.
WriteInfo(u) ==
    /\ "info" \in visits[u] /\ visits' = [visits EXCEPT ![u] = @ \ {"info"}]
    /\ WriteWhole([info EXCEPT !.whole = TRUE, !.fields = TRUE])
    /\ UNCHANGED <<model, strokes, entries, creation, uploads, deletion, sessions, listings, mails, leftD>>

\* Report and UndoReport, from a post that shows the drawing.
Report(u) ==
    /\ leftD.reports > 0 /\ leftD' = [leftD EXCEPT !.reports = @ - 1]
    /\ creation = "done" /\ u \notin info.reports
    /\ info' = [info EXCEPT !.reports = @ \cup {u}] /\ Writes({"info"})
    /\ UNCHANGED <<model, strokes, entries, creation, visits, uploads, deletion, sessions, listings, mails, unsure>>

UndoReport(u) ==
    /\ leftD.reports > 0 /\ leftD' = [leftD EXCEPT !.reports = @ - 1] /\ u \in info.reports
    /\ info' = [info EXCEPT !.reports = @ \ {u}]
    /\ UNCHANGED <<model, strokes, entries, creation, visits, uploads, deletion, sessions, listings, mails, unsure, back>>

-----------------------------------------------------------------------------
(* UploadUpdatedData: what a user did to the drawing offline *)

\* The sync thread has cached the info for the last time; then the preview is saved
\* offline, and with it perhaps the model and the strokes.
GoOffline(u) ==
    /\ u \in leftD.uploaders /\ leftD' = [leftD EXCEPT !.uploaders = @ \ {u}]
    /\ info.whole
    /\ \E parts \in SUBSET {"model", "strokes"} :
          uploads' = [uploads EXCEPT ![u] = [stage |-> "edited", parts |-> parts, copy |-> info]]
    /\ UNCHANGED <<model, info, strokes, entries, creation, visits, deletion, sessions, listings, mails, unsure, back>>

\* An info that somebody changed is left alone, one that is not there is no obstacle.
TestUpload(u) ==
    /\ uploads[u].stage = "edited"
    /\ uploads' = [uploads EXCEPT ![u].stage = IF info \in {NoInfo, uploads[u].copy} THEN "model" ELSE "off"]
    /\ UNCHANGED <<model, info, strokes, entries, creation, visits, deletion, sessions, listings, mails, unsure, back,
                   leftD>>

UploadModel(u) ==
    /\ uploads[u].stage = "model" /\ uploads' = [uploads EXCEPT ![u].stage = "strokes"]
    /\ IF "model" \in uploads[u].parts THEN model' = TRUE /\ Writes({"model"}) ELSE UNCHANGED <<model, back>>
    /\ UNCHANGED <<info, strokes, entries, creation, visits, deletion, sessions, listings, mails, unsure, leftD>>

UploadStrokes(u) ==
    /\ uploads[u].stage = "strokes" /\ uploads' = [uploads EXCEPT ![u].stage = "info"]
    /\ IF "strokes" \in uploads[u].parts THEN strokes' = TRUE /\ Writes({"strokes"}) ELSE UNCHANGED <<strokes, back>>
    /\ UNCHANGED <<model, info, entries, creation, visits, deletion, sessions, listings, mails, unsure, leftD>>

\* Set, not Update: reports and the tag become what they were when they were cached.
UploadInfo(u) ==
    /\ uploads[u].stage = "info" /\ uploads' = [uploads EXCEPT ![u].stage = "entry"]
    /\ WriteWhole([uploads[u].copy EXCEPT !.fields = TRUE])
    /\ UNCHANGED <<model, strokes, entries, creation, visits, deletion, sessions, listings, mails, leftD>>

UploadEntry(u) ==
    /\ uploads[u].stage = "entry" /\ uploads' = [uploads EXCEPT ![u] = NoUpload]
    /\ entries' = entries \cup {u}
    /\ UNCHANGED <<model, info, strokes, creation, visits, deletion, sessions, listings, mails, unsure, back, leftD>>

\* A request fails, which ends the client: what it did offline is uploaded at its next start.
FailUpload(u) ==
    /\ uploads[u].stage \in {"model", "strokes", "info", "entry"} /\ leftD.failures > 0
    /\ uploads' = [uploads EXCEPT ![u].stage = "edited"]
    /\ leftD' = [leftD EXCEPT !.failures = @ - 1]
    /\ UNCHANGED <<model, info, strokes, entries, creation, visits, deletion, sessions, listings, mails, unsure, back>>

-----------------------------------------------------------------------------
(* DeleteDrawing: request after request *)

StartDeletion ==
    /\ leftD.deletions > 0 /\ leftD' = [leftD EXCEPT !.deletions = @ - 1]
    /\ creation = "done" /\ deletion.stage = "idle"
    /\ deletion' = [deletion EXCEPT !.stage = "model"]
    /\ UNCHANGED <<model, info, strokes, entries, creation, visits, uploads, sessions, listings, mails, unsure, back>>

RemoveModel ==
    /\ deletion.stage = "model" /\ deletion' = [deletion EXCEPT !.stage = "info"]
    /\ model' = FALSE
    /\ UNCHANGED <<info, strokes, entries, creation, visits, uploads, sessions, listings, mails, unsure, back, leftD>>

\* (Altered: the info is forgotten.)
RemoveInfo_Not ==
    /\ deletion.stage = "info" /\ deletion' = [deletion EXCEPT !.stage = "strokes"]
    /\ UNCHANGED <<model, info, strokes, entries, creation, visits, uploads, sessions, listings, mails, unsure, back, leftD>>

RemoveInfo ==
    /\ deletion.stage = "info" /\ deletion' = [deletion EXCEPT !.stage = "strokes"]
    /\ info' = NoInfo
    /\ UNCHANGED <<model, strokes, entries, creation, visits, uploads, sessions, listings, mails, unsure, back, leftD>>

\* The users are read once, and then asked in turn, whether they have an entry or not.
RemoveStrokes ==
    /\ deletion.stage = "strokes" /\ deletion' = [stage |-> "entries", remaining |-> Users]
    /\ strokes' = FALSE
    /\ UNCHANGED <<model, info, entries, creation, visits, uploads, sessions, listings, mails, unsure, back, leftD>>

RemoveEntry(u) ==
    /\ deletion.stage = "entries" /\ u \in deletion.remaining
    /\ deletion' = [stage |-> IF deletion.remaining = {u} THEN "done" ELSE "entries",
                    remaining |-> deletion.remaining \ {u}]
    /\ entries' = entries \ {u}
    /\ UNCHANGED <<model, info, strokes, creation, visits, uploads, sessions, listings, mails, unsure, back, leftD>>

\* A request fails, or the client ends.
AbandonDeletion ==
    /\ deletion.stage \in {"model", "info", "strokes", "entries"} /\ leftD.failures > 0
    /\ deletion' = [deletion EXCEPT !.stage = "abandoned"]
    /\ leftD' = [leftD EXCEPT !.failures = @ - 1]
    /\ UNCHANGED <<model, info, strokes, entries, creation, visits, uploads, sessions, listings, mails, unsure, back>>

-----------------------------------------------------------------------------
(* EmailCurrentUserOnImageBanned, at every login of the owner *)

Login(s) ==
    /\ sessions[s] = "off" /\ Owner \in entries /\ s \in leftD.logins
    /\ sessions' = [sessions EXCEPT ![s] = "reading"]
    /\ UNCHANGED <<model, info, strokes, entries, creation, visits, uploads, deletion, listings, mails, unsure, back, leftD>>

Concurrent(s) == \E r \in Sessions \ {s} : sessions[r] \in {"mailing", "tagging"}

\* GetDrawingInfo: the mail is for a banned drawing of the user that is not tagged.
ReadInfo(s) ==
    /\ sessions[s] = "reading"
    /\ IF HasInfo /\ IsBanned(info) /\ ~info.sent /\ info.whole
       THEN sessions' = [sessions EXCEPT ![s] = "mailing"] /\ unsure' = (unsure \/ Concurrent(s))
       ELSE sessions' = [sessions EXCEPT ![s] = "off"] /\ UNCHANGED unsure
    /\ UNCHANGED <<model, info, strokes, entries, creation, visits, uploads, deletion, listings, mails, back, leftD>>

SendMail(s) ==
    /\ sessions[s] = "mailing"
    /\ mails' = mails + 1 /\ sessions' = [sessions EXCEPT ![s] = "tagging"]
    /\ UNCHANGED <<model, info, strokes, entries, creation, visits, uploads, deletion, listings, unsure, back, leftD>>

\* (Altered: the tag is under the wrong drawing.)
TagAsSent_Elsewhere(s) ==
    /\ sessions[s] = "tagging" /\ sessions' = [sessions EXCEPT ![s] = "off"]
    /\ UNCHANGED <<model, info, strokes, entries, creation, visits, uploads, deletion, listings, mails, unsure, back, leftD>>

TagAsSent(s) ==
    /\ sessions[s] = "tagging" /\ sessions' = [sessions EXCEPT ![s] = "off"]
    /\ info' = [info EXCEPT !.sent = TRUE] /\ Writes({"info"})
    /\ UNCHANGED <<model, strokes, entries, creation, visits, uploads, deletion, listings, mails, unsure, leftD>>

\* The mail is refused, or a request fails and ends the process: perhaps after the mail.
EndMailing(s) ==
    /\ sessions[s] # "off" /\ leftD.failures > 0 /\ leftD' = [leftD EXCEPT !.failures = @ - 1]
    /\ sessions' = [sessions EXCEPT ![s] = "off"]
    /\ unsure' = (unsure \/ sessions[s] = "tagging")
    /\ UNCHANGED <<model, info, strokes, entries, creation, visits, uploads, deletion, listings, mails, back>>

-----------------------------------------------------------------------------
(* ProfileService.GetDrawingsIds: the entries, all infos, all models, in this order *)

ReadEntries(l) ==
    /\ listings[l].stage = "waiting" /\ leftD.listings > 0
    /\ leftD' = [leftD EXCEPT !.listings = @ - 1]
    /\ listings' = [listings EXCEPT ![l].stage = "infos", ![l].entry = Owner \in entries,
                                    ![l].after = deletion.stage = "done"]
    /\ UNCHANGED <<model, info, strokes, entries, creation, visits, uploads, deletion, sessions, mails, unsure, back>>

ReadInfos(l) ==
    /\ listings[l].stage = "infos"
    /\ listings' = [listings EXCEPT ![l].stage = "models", ![l].info = info]
    /\ UNCHANGED <<model, info, strokes, entries, creation, visits, uploads, deletion, sessions, mails, unsure, back, leftD>>

\* An entry with an info that is not banned is looked up among the models, which throws
\* if it is not there.
ReadModels(l) ==
    LET looked == listings[l].entry /\ listings[l].info # NoInfo /\ ~IsBanned(listings[l].info) IN
    /\ listings[l].stage = "models"
    /\ listings' = [listings EXCEPT ![l].stage = IF looked THEN IF model THEN "listed" ELSE "failed" ELSE "empty"]
    /\ UNCHANGED <<model, info, strokes, entries, creation, visits, uploads, deletion, sessions, mails, unsure, back, leftD>>
-----------------------------------------------------------------------------

Deletion == StartDeletion \/ RemoveModel \/ RemoveInfo \/ RemoveStrokes \/ AbandonDeletion

Upload(u) ==
    \/ GoOffline(u) \/ TestUpload(u) \/ UploadModel(u) \/ UploadStrokes(u) \/ UploadInfo(u)
    \/ UploadEntry(u) \/ FailUpload(u)

DrawingStep ==
    \/ SetModel \/ SetInfo \/ SetEntry \/ Deletion
    \/ \E u \in Users :
          \/ Visit(u) \/ WriteEntry(u) \/ WriteModel(u) \/ WriteStrokes(u) \/ WritePreview(u)
          \/ VisitOnTablet(u) \/ WriteInfo(u) \/ Upload(u) \/ Report(u) \/ UndoReport(u) \/ RemoveEntry(u)
    \/ \E s \in Sessions : Login(s) \/ ReadInfo(s) \/ SendMail(s) \/ TagAsSent(s) \/ EndMailing(s)
    \/ \E l \in Listings : ReadEntries(l) \/ ReadInfos(l) \/ ReadModels(l)

-----------------------------------------------------------------------------
(* Properties *)

\* The owner is told once, whatever becomes of the reports and of the drawing, unless a
\* session looked while another one was at it, or ended between the mail and the tag, or
\* an upload or a tablet wrote the whole info without the tag that it had.
OneMail == unsure \/ mails <= 1

\* A listing throws on a drawing without a model only if the deletion had begun before
\* its last read; and if it was over before its first read, only because the info was
\* written back.  In particular it never throws on a drawing that is being created.
ListingFailsOnlyOnDeletion ==
    \A l \in Listings : listings[l].stage = "failed" =>
        Deleted /\ (listings[l].after => "info" \in back)

\* The deletion takes away what the drawing was: its whole info is there again only if a
\* tablet or an upload that still knew it wrote it back, and the gallery, which shows
\* what has a model and an info, shows it only if both were written back.
DeletedStaysHidden ==
    deletion.stage = "done" =>
        /\ info.whole => "whole" \in back
        /\ model /\ HasInfo => {"model", "info"} \subseteq back
=============================================================================
