----------------------------- MODULE GalleryProofs -----------------------------
(***************************************************************************)
(* What the life of a drawing keeps to, for any users, sessions, listings  *)
(* and bounds: the owner gets one mail, a listing fails only on a deletion *)
(* and what was deleted stays hidden.  The three are parts of one          *)
(* inductive invariant, LifeInv.  And what a story keeps to, for any       *)
(* drawings and runs, and what becomes of the strokes of any tablets, from *)
(* StoryInv and the lemmas of TabletSyncProofs.  Last, the types of all    *)
(* three, from these invariants and OtherTypes.                            *)
(***************************************************************************)
EXTENDS Gallery, TabletSyncProofs, TLAPS

Active(s) == sessions[s] \in {"mailing", "tagging"}
Stages == {"idle", "model", "info", "strokes", "entries", "done", "abandoned"}

LifeTypes ==
    /\ model \in BOOLEAN /\ info \in Infos
    /\ creation \in {"waiting", "model", "info", "done"}
    /\ visits \in [Users -> SUBSET Parts] /\ uploads \in [Users -> Uploads]
    /\ deletion \in [stage : Stages, remaining : SUBSET Users]
    /\ sessions \in [Sessions -> {"off", "reading", "mailing", "tagging"}]
    /\ listings \in [Listings -> [stage : {"waiting", "infos", "models", "listed", "failed", "empty"},
                                  entry : BOOLEAN, info : Infos, after : BOOLEAN]]
    /\ mails \in Nat /\ unsure \in BOOLEAN /\ back \subseteq Parts

\* Before its info is set, nobody can know of a mail; before its model is, of anything.
NotYet ==
    /\ creation \in {"waiting", "model"} =>
        /\ ~info.whole /\ mails = 0 /\ \A s \in Sessions : ~Active(s)
        /\ \A u \in Users : "info" \notin visits[u] /\ uploads[u].stage = "off"
    /\ creation # "done" => deletion.stage = "idle"
    /\ creation = "waiting" =>
        /\ ~model /\ info = NoInfo
        /\ \A u \in Users : visits[u] = {}
        /\ \A l \in Listings : listings[l].info = NoInfo
    /\ creation # "waiting" /\ deletion.stage = "idle" => model

\* The first mail is being tagged, or is, or the info of the drawing is gone for good.
Mailing ==
    unsure \/ /\ \A r, s \in Sessions : Active(r) /\ Active(s) => r = s
              /\ mails <= 1
              /\ mails = 1 => /\ \A s \in Sessions : sessions[s] # "mailing"
                              /\ \/ info.sent \/ ~info.whole
                                 \/ \E s \in Sessions : sessions[s] = "tagging"

\* What the deletion has passed is gone or was written back.
Passed ==
    /\ deletion.stage \in {"strokes", "entries", "done"} =>
        (info.whole => "whole" \in back) /\ (HasInfo => "info" \in back)
    /\ deletion.stage \in {"info", "strokes", "entries", "done"} => (model => "model" \in back)

Listed(l) ==
    /\ listings[l].stage \in {"infos", "models"} /\ listings[l].after => deletion.stage = "done"
    /\ listings[l].stage = "models" /\ listings[l].after /\ listings[l].info # NoInfo => "info" \in back
    /\ listings[l].stage = "failed" => Deleted /\ (listings[l].after => "info" \in back)

LifeInv == LifeTypes /\ NotYet /\ Mailing /\ Passed /\ \A l \in Listings : Listed(l)

-----------------------------------------------------------------------------
(* The initial states *)

LEMMA LifeInit == Init => LifeInv
<1> SUFFICES ASSUME NEW c \in BOOLEAN, NEW bounds, DrawingInit(c, bounds) PROVE LifeInv
    BY ScenariosAreStates DEF Init
<1>1. LifeTypes
    BY DEF DrawingInit, LifeTypes, Infos, Parts, Uploads, NoUpload, Stages, NoInfo, Idle, NewListing
<1>2. NotYet
    BY DEF DrawingInit, NotYet, Active, NoInfo, NoUpload, Idle, NewListing
<1>3. Mailing
    BY DEF DrawingInit, Mailing, Active
<1>4. Passed /\ \A l \in Listings : Listed(l)
    BY DEF DrawingInit, Passed, Listed, Idle, NewListing
<1> QED
    BY <1>1, <1>2, <1>3, <1>4 DEF LifeInv

-----------------------------------------------------------------------------
(* The steps *)

LEMMA TypesStep == LifeTypes /\ DrawingStep => LifeTypes'
<1> SUFFICES ASSUME LifeTypes, DrawingStep PROVE LifeTypes'
    OBVIOUS
<1>1. CASE SetModel
    BY <1>1 DEF SetModel, LifeTypes
<1>2. CASE SetInfo
    BY <1>2 DEF SetInfo, LifeTypes, Infos, NoInfo, Writes, Parts
<1>3. CASE SetEntry
    BY <1>3 DEF SetEntry, LifeTypes
<1>4. CASE StartDeletion
    BY <1>4 DEF StartDeletion, LifeTypes, Stages
<1>5. CASE RemoveModel
    BY <1>5 DEF RemoveModel, LifeTypes, Stages
<1>6. CASE RemoveInfo
    BY <1>6 DEF RemoveInfo, LifeTypes, Infos, NoInfo, Stages
<1>7. CASE RemoveStrokes
    BY <1>7 DEF RemoveStrokes, LifeTypes, Stages
<1>8. CASE AbandonDeletion
    BY <1>8 DEF AbandonDeletion, LifeTypes, Stages
<1>9. ASSUME NEW u \in Users, Visit(u) PROVE LifeTypes'
    BY <1>9 DEF Visit, LifeTypes, Parts, Writes
<1>10. ASSUME NEW u \in Users, WriteEntry(u) PROVE LifeTypes'
    BY <1>10 DEF WriteEntry, LifeTypes, Parts, Writes
<1>11. ASSUME NEW u \in Users, WriteModel(u) PROVE LifeTypes'
    BY <1>11 DEF WriteModel, LifeTypes, Parts, Writes
<1>12. ASSUME NEW u \in Users, WriteStrokes(u) PROVE LifeTypes'
    BY <1>12 DEF WriteStrokes, LifeTypes, Parts, Writes
<1>13. ASSUME NEW u \in Users, WritePreview(u) PROVE LifeTypes'
    BY <1>13 DEF WritePreview, LifeTypes, Infos, NoInfo, Writes, Parts
<1>14. ASSUME NEW u \in Users, Report(u) PROVE LifeTypes'
    BY <1>14 DEF Report, LifeTypes, Infos, NoInfo, Writes, Parts
<1>15. ASSUME NEW u \in Users, UndoReport(u) PROVE LifeTypes'
    BY <1>15 DEF UndoReport, LifeTypes, Infos, NoInfo
<1>16. ASSUME NEW u \in Users, RemoveEntry(u) PROVE LifeTypes'
    BY <1>16 DEF RemoveEntry, LifeTypes, Stages
<1>17. ASSUME NEW s \in Sessions, Login(s) PROVE LifeTypes'
    BY <1>17 DEF Login, LifeTypes
<1>18. ASSUME NEW s \in Sessions, ReadInfo(s) PROVE LifeTypes'
    BY <1>18 DEF ReadInfo, LifeTypes
<1>19. ASSUME NEW s \in Sessions, SendMail(s) PROVE LifeTypes'
    BY <1>19 DEF SendMail, LifeTypes
<1>20. ASSUME NEW s \in Sessions, TagAsSent(s) PROVE LifeTypes'
    BY <1>20 DEF TagAsSent, LifeTypes, Infos, NoInfo, Writes, Parts
<1>21. ASSUME NEW s \in Sessions, EndMailing(s) PROVE LifeTypes'
    BY <1>21 DEF EndMailing, LifeTypes
<1>22. ASSUME NEW l \in Listings, ReadEntries(l) \/ ReadInfos(l) \/ ReadModels(l) PROVE LifeTypes'
    <2> DEFINE L == [stage : {"waiting", "infos", "models", "listed", "failed", "empty"},
                     entry : BOOLEAN, info : Infos, after : BOOLEAN]
    <2>1. listings[l] \in L /\ listings \in [Listings -> L] /\ info \in Infos
        BY DEF LifeTypes
    <2>2. ASSUME ReadEntries(l) PROVE listings' \in [Listings -> L]
        <3> DEFINE e == Owner \in entries
                   a == deletion.stage = "done"
        <3>1. e \in BOOLEAN /\ a \in BOOLEAN
            OBVIOUS
        <3>2. listings' = [listings EXCEPT ![l].stage = "infos", ![l].entry = e, ![l].after = a]
            BY <2>2 DEF ReadEntries
        <3> HIDE DEF e, a
        <3> QED
            BY <2>1, <3>1, <3>2
    <2>3. ASSUME ReadInfos(l) \/ ReadModels(l) PROVE listings' \in [Listings -> L]
        BY <2>1, <2>3 DEF ReadInfos, ReadModels
    <2>4. UNCHANGED <<model, info, creation, visits, uploads, deletion, sessions, mails, unsure, back>>
        BY <1>22 DEF ReadEntries, ReadInfos, ReadModels
    <2> QED
        BY <1>22, <2>2, <2>3, <2>4 DEF LifeTypes
<1>23. ASSUME NEW u \in Users, VisitOnTablet(u) PROVE LifeTypes'
    BY <1>23 DEF VisitOnTablet, LifeTypes, Parts
<1>24. ASSUME NEW u \in Users, WriteInfo(u) PROVE LifeTypes'
    BY <1>24 DEF WriteInfo, WriteWhole, Writes, LifeTypes, Infos, Parts
<1>25. ASSUME NEW u \in Users, GoOffline(u) PROVE LifeTypes'
    BY <1>25 DEF GoOffline, LifeTypes, Uploads
<1>26. ASSUME NEW u \in Users, Upload(u), ~GoOffline(u) PROVE LifeTypes'
    <2>1. uploads[u] \in Uploads /\ uploads \in [Users -> Uploads]
        BY DEF LifeTypes
    <2>2. UNCHANGED <<creation, visits, deletion, sessions, listings, mails>>
        BY <1>26 DEF Upload, TestUpload, UploadModel, UploadStrokes, UploadInfo, UploadEntry, FailUpload
    <2>3. uploads' \in [Users -> Uploads]
        <3>1. CASE TestUpload(u)
            BY <2>1, <3>1 DEF TestUpload, Uploads
        <3>2. CASE UploadModel(u) \/ UploadStrokes(u) \/ UploadInfo(u) \/ FailUpload(u)
            BY <2>1, <3>2 DEF UploadModel, UploadStrokes, UploadInfo, FailUpload, Uploads
        <3>3. CASE UploadEntry(u)
            BY <2>1, <3>3 DEF UploadEntry, Uploads, NoUpload, NoInfo, Infos
        <3> QED
            BY <1>26, <3>1, <3>2, <3>3 DEF Upload
    <2>4. model' \in BOOLEAN /\ unsure' \in BOOLEAN /\ back' \subseteq Parts
        BY <1>26 DEF Upload, TestUpload, UploadModel, UploadStrokes, UploadInfo, UploadEntry, FailUpload, WriteWhole,
                     Writes, Parts, LifeTypes
    <2>5. info' \in Infos
        BY <1>26, <2>1 DEF Upload, TestUpload, UploadModel, UploadStrokes, UploadInfo, UploadEntry, FailUpload,
                           WriteWhole, Uploads, Infos, LifeTypes
    <2> QED
        BY <2>2, <2>3, <2>4, <2>5 DEF LifeTypes
<1> QED
    BY <1>1, <1>2, <1>3, <1>4, <1>5, <1>6, <1>7, <1>8, <1>9, <1>10, <1>11, <1>12, <1>13, <1>14,
       <1>15, <1>16, <1>17, <1>18, <1>19, <1>20, <1>21, <1>22, <1>23, <1>24, <1>25, <1>26
    DEF DrawingStep, Deletion, Upload

LEMMA NotYetStep == LifeInv /\ DrawingStep => NotYet'
<1> SUFFICES ASSUME LifeInv, DrawingStep PROVE NotYet'
    OBVIOUS
<1> USE DEF LifeInv, LifeTypes, NotYet, Active, Infos, NoInfo
<1>1. CASE SetModel
    BY <1>1 DEF SetModel
<1>2. CASE SetInfo
    BY <1>2 DEF SetInfo
<1>3. CASE SetEntry
    BY <1>3 DEF SetEntry
<1>4. CASE StartDeletion
    BY <1>4 DEF StartDeletion
<1>5. CASE RemoveModel
    BY <1>5 DEF RemoveModel
<1>6. CASE RemoveInfo
    BY <1>6 DEF RemoveInfo
<1>7. CASE RemoveStrokes
    BY <1>7 DEF RemoveStrokes
<1>8. CASE AbandonDeletion
    BY <1>8 DEF AbandonDeletion
<1>9. ASSUME NEW u \in Users, Visit(u) PROVE NotYet'
    BY <1>9 DEF Visit
<1>10. ASSUME NEW u \in Users, WriteEntry(u) PROVE NotYet'
    BY <1>10 DEF WriteEntry
<1>11. ASSUME NEW u \in Users, WriteModel(u) PROVE NotYet'
    BY <1>11 DEF WriteModel
<1>12. ASSUME NEW u \in Users, WriteStrokes(u) PROVE NotYet'
    BY <1>12 DEF WriteStrokes
<1>13. ASSUME NEW u \in Users, WritePreview(u) PROVE NotYet'
    BY <1>13 DEF WritePreview
<1>14. ASSUME NEW u \in Users, Report(u) PROVE NotYet'
    BY <1>14 DEF Report
<1>15. ASSUME NEW u \in Users, UndoReport(u) PROVE NotYet'
    BY <1>15 DEF UndoReport
<1>16. ASSUME NEW u \in Users, RemoveEntry(u) PROVE NotYet'
    BY <1>16 DEF RemoveEntry
<1>17. ASSUME NEW s \in Sessions, Login(s) PROVE NotYet'
    BY <1>17 DEF Login
<1>18. ASSUME NEW s \in Sessions, ReadInfo(s) PROVE NotYet'
    BY <1>18 DEF ReadInfo
<1>19. ASSUME NEW s \in Sessions, SendMail(s) PROVE NotYet'
    BY <1>19 DEF SendMail
<1>20. ASSUME NEW s \in Sessions, TagAsSent(s) PROVE NotYet'
    BY <1>20 DEF TagAsSent
<1>21. ASSUME NEW s \in Sessions, EndMailing(s) PROVE NotYet'
    BY <1>21 DEF EndMailing
<1>22. ASSUME NEW l \in Listings, ReadEntries(l) PROVE NotYet'
    BY <1>22 DEF ReadEntries
<1>23. ASSUME NEW l \in Listings, ReadInfos(l) PROVE NotYet'
    BY <1>23 DEF ReadInfos
<1>24. ASSUME NEW l \in Listings, ReadModels(l) PROVE NotYet'
    BY <1>24 DEF ReadModels
<1>25. ASSUME NEW u \in Users, VisitOnTablet(u) PROVE NotYet'
    BY <1>25 DEF VisitOnTablet
<1>26. ASSUME NEW u \in Users, WriteInfo(u) PROVE NotYet'
    BY <1>26 DEF WriteInfo, WriteWhole
<1>27. ASSUME NEW u \in Users, GoOffline(u) PROVE NotYet'
    BY <1>27 DEF GoOffline
<1>28. ASSUME NEW u \in Users, Upload(u), ~GoOffline(u) PROVE NotYet'
    <2>1. creation \notin {"waiting", "model"} /\ creation' = creation
        <3>1. uploads[u].stage # "off" /\ creation' = creation
            BY <1>28 DEF Upload, TestUpload, UploadModel, UploadStrokes, UploadInfo, UploadEntry, FailUpload
        <3> QED
            BY <3>1
    <2>2. deletion' = deletion /\ (model => model')
        BY <1>28 DEF Upload, TestUpload, UploadModel, UploadStrokes, UploadInfo, UploadEntry, FailUpload
    <2> QED
        BY <2>1, <2>2
<1> QED
    BY <1>1, <1>2, <1>3, <1>4, <1>5, <1>6, <1>7, <1>8, <1>9, <1>10, <1>11, <1>12, <1>13, <1>14,
       <1>15, <1>16, <1>17, <1>18, <1>19, <1>20, <1>21, <1>22, <1>23, <1>24, <1>25, <1>26, <1>27, <1>28
    DEF DrawingStep, Deletion, Upload

\* Only the sessions, and what sets or removes the info, matter for the mail.
LEMMA MailingStep == LifeInv /\ DrawingStep => Mailing'
<1> SUFFICES ASSUME LifeInv, DrawingStep PROVE Mailing'
    OBVIOUS
<1> USE DEF LifeInv, LifeTypes, Mailing, Active
<1>1. CASE UNCHANGED <<info, sessions, mails, unsure>>
    BY <1>1
<1>2. CASE SetInfo
    BY <1>2 DEF SetInfo, NotYet, NoInfo
<1>3. CASE RemoveInfo
    BY <1>3 DEF RemoveInfo, NoInfo
<1>4. ASSUME NEW u \in Users, WritePreview(u) \/ Report(u) \/ UndoReport(u) PROVE Mailing'
    BY <1>4 DEF WritePreview, Report, UndoReport, Infos
<1>5. ASSUME NEW s \in Sessions, Login(s) PROVE Mailing'
    BY <1>5 DEF Login
<1>6. ASSUME NEW s \in Sessions, ReadInfo(s) PROVE Mailing'
    BY <1>6 DEF ReadInfo, Concurrent
\* The first mail: no session was tagging one, or two sessions would be active.
<1>7. ASSUME NEW s \in Sessions, SendMail(s) PROVE Mailing'
    <2>1. CASE unsure
        BY <1>7, <2>1 DEF SendMail
    <2>2. CASE ~unsure
        <3>1. mails = 0
            BY <1>7, <2>2 DEF SendMail
        <3>2. mails' = 1
            BY <1>7, <3>1 DEF SendMail
        <3>3. \A r \in Sessions : r # s => ~Active(r) /\ sessions'[r] = sessions[r]
            BY <1>7, <2>2 DEF SendMail
        <3>4. sessions'[s] = "tagging"
            BY <1>7 DEF SendMail
        <3> QED
            BY <3>2, <3>3, <3>4
    <2> QED
        BY <2>1, <2>2
<1>8. ASSUME NEW s \in Sessions, TagAsSent(s) PROVE Mailing'
    BY <1>8 DEF TagAsSent, Infos
<1>9. ASSUME NEW s \in Sessions, EndMailing(s) PROVE Mailing'
    BY <1>9 DEF EndMailing
\* After a mail, the tag is there, is being written, or is lost.
<1>10. ASSUME NEW u \in Users, WriteInfo(u) \/ UploadInfo(u) PROVE Mailing'
    <2>1. /\ UNCHANGED <<sessions, mails>>
          /\ unsure \/ (mails > 0 /\ ~info'.sent /\ \A s \in Sessions : sessions[s] # "tagging") => unsure'
        BY <1>10, Zenon DEF WriteInfo, UploadInfo, WriteWhole
    <2>2. CASE unsure'
        BY <2>2
    <2>3. CASE ~unsure'
        BY <2>1, <2>3
    <2> QED
        BY <2>2, <2>3
<1> QED
    BY <1>1, <1>2, <1>3, <1>4, <1>5, <1>6, <1>7, <1>8, <1>9, <1>10
    DEF DrawingStep, VisitOnTablet, Upload, GoOffline, TestUpload, UploadModel, UploadStrokes, UploadEntry, FailUpload,
        Deletion, SetModel, SetEntry, StartDeletion, RemoveModel, RemoveStrokes, AbandonDeletion,
        Visit, WriteEntry, WriteModel, WriteStrokes, RemoveEntry, ReadEntries, ReadInfos, ReadModels

\* Who writes a part that the deletion has passed is recorded in back.
LEMMA PassedStep == LifeInv /\ DrawingStep => Passed'
<1> SUFFICES ASSUME LifeInv, DrawingStep PROVE Passed'
    OBVIOUS
<1> USE DEF LifeInv, LifeTypes, Passed, HasInfo
<1>1. CASE UNCHANGED <<model, info, deletion, back>>
    BY <1>1
<1>2. CASE SetModel \/ SetInfo
    BY <1>2 DEF SetModel, SetInfo, NotYet
<1>3. CASE Deletion
    BY <1>3 DEF Deletion, StartDeletion, RemoveModel, RemoveInfo, RemoveStrokes, AbandonDeletion, NoInfo
<1>4. ASSUME NEW u \in Users, WriteModel(u) \/ WriteStrokes(u) PROVE Passed'
    BY <1>4 DEF WriteModel, WriteStrokes, Writes, Removed, Stages
<1>5. ASSUME NEW u \in Users, WritePreview(u) \/ Report(u) PROVE Passed'
    BY <1>5 DEF WritePreview, Report, Writes, Removed, Infos, Stages
<1>6. ASSUME NEW u \in Users, UndoReport(u) PROVE Passed'
    BY <1>6 DEF UndoReport, Infos, NoInfo
<1>7. ASSUME NEW u \in Users, RemoveEntry(u) PROVE Passed'
    BY <1>7 DEF RemoveEntry
<1>8. ASSUME NEW s \in Sessions, TagAsSent(s) PROVE Passed'
    BY <1>8 DEF TagAsSent, Writes, Removed, Infos, Stages
<1>9. ASSUME NEW u \in Users, WriteInfo(u) \/ UploadInfo(u) PROVE Passed'
    <2>1. UNCHANGED <<model, deletion>> /\ Writes({"info", "whole"})
        BY <1>9 DEF WriteInfo, UploadInfo, WriteWhole
    <2>2. deletion.stage \in {"strokes", "entries", "done"} => Removed \cap {"info", "whole"} = {"info", "whole"}
        BY DEF Removed
    <2>3. back \subseteq back' /\ (deletion.stage \in {"strokes", "entries", "done"} => {"info", "whole"} \subseteq back')
        BY <2>1, <2>2 DEF Writes
    <2> QED
        BY <2>1, <2>3
<1>10. ASSUME NEW u \in Users, UploadModel(u) \/ UploadStrokes(u) PROVE Passed'
    <2>1. UNCHANGED <<info, deletion>> /\ back \subseteq back'
        BY <1>10 DEF UploadModel, UploadStrokes, Writes
    <2>2. deletion.stage \in {"info", "strokes", "entries", "done"} => "model" \in Removed
        BY DEF Removed
    <2>3. model' = model \/ Writes({"model"})
        BY <1>10 DEF UploadModel, UploadStrokes
    <2>4. model' = model \/ (deletion.stage \in {"info", "strokes", "entries", "done"} => "model" \in back')
        BY <2>2, <2>3 DEF Writes
    <2> QED
        BY <2>1, <2>4
<1> QED
    BY <1>1, <1>2, <1>3, <1>4, <1>5, <1>6, <1>7, <1>8, <1>9, <1>10
    DEF DrawingStep, VisitOnTablet, Upload, GoOffline, TestUpload, UploadEntry, FailUpload, SetEntry, Visit, WriteEntry, Login, ReadInfo, SendMail, EndMailing,
        ReadEntries, ReadInfos, ReadModels

\* A listing that has read anything is not before the creation, and back only grows.
LEMMA ListedStep == LifeInv /\ DrawingStep => \A l \in Listings : Listed(l)'
<1> SUFFICES ASSUME LifeInv, DrawingStep, NEW k \in Listings PROVE Listed(k)'
    OBVIOUS
<1> USE DEF LifeInv, LifeTypes, Listed, Deleted
<1>1. CASE UNCHANGED <<listings, deletion, back>>
    BY <1>1
<1>2. back \subseteq back'
    BY DEF DrawingStep, Deletion, SetModel, SetInfo, SetEntry, StartDeletion, RemoveModel, RemoveInfo,
           RemoveStrokes, AbandonDeletion, Visit, WriteEntry, WriteModel, WriteStrokes, WritePreview, Report,
           UndoReport, RemoveEntry, Login, ReadInfo, SendMail, TagAsSent, EndMailing, ReadEntries, ReadInfos,
           ReadModels, VisitOnTablet, WriteInfo, Upload, GoOffline, TestUpload, UploadModel, UploadStrokes,
           UploadInfo, UploadEntry, FailUpload, WriteWhole, Writes
<1>3. CASE UNCHANGED <<listings, deletion>>
    BY <1>2, <1>3
<1>4. CASE Deletion
    BY <1>4 DEF Deletion, StartDeletion, RemoveModel, RemoveInfo, RemoveStrokes, AbandonDeletion
<1>5. ASSUME NEW u \in Users, RemoveEntry(u) PROVE Listed(k)'
    BY <1>5 DEF RemoveEntry
<1>6. ASSUME NEW l \in Listings, ReadEntries(l) PROVE Listed(k)'
    BY <1>6 DEF ReadEntries
<1>7. ASSUME NEW l \in Listings, ReadInfos(l) PROVE Listed(k)'
    <2>1. CASE k # l
        BY <1>7, <2>1 DEF ReadInfos
    <2>2. CASE k = l
        <3>1. /\ listings'[k].stage = "models" /\ listings'[k].info = info
              /\ listings'[k].after = listings[k].after /\ deletion' = deletion /\ back' = back
            BY <1>7, <2>2 DEF ReadInfos
        <3>2. listings[k].after => deletion.stage = "done"
            BY <1>7, <2>2 DEF ReadInfos
        <3>3. listings[k].after /\ info # NoInfo => "info" \in back
            BY <3>2 DEF Passed, HasInfo
        <3> QED
            BY <3>1, <3>2, <3>3
    <2> QED
        BY <2>1, <2>2
<1>8. ASSUME NEW l \in Listings, ReadModels(l) PROVE Listed(k)'
    BY <1>8 DEF ReadModels, NotYet
<1> QED
    BY <1>1, <1>3, <1>4, <1>5, <1>6, <1>7, <1>8
    DEF DrawingStep, SetModel, SetInfo, SetEntry, Visit, WriteEntry, WriteModel, WriteStrokes, WritePreview, Report,
        UndoReport, Login, ReadInfo, SendMail, TagAsSent, EndMailing, VisitOnTablet, WriteInfo, Upload, GoOffline,
        TestUpload, UploadModel, UploadStrokes, UploadInfo, UploadEntry, FailUpload

LEMMA LifeStep == LifeInv /\ [Next]_vars => LifeInv'
<1> SUFFICES ASSUME LifeInv, [Next]_vars PROVE LifeInv'
    OBVIOUS
<1>1. CASE DrawingStep
    BY <1>1, TypesStep, NotYetStep, MailingStep, PassedStep, ListedStep DEF LifeInv
<1>2. CASE UNCHANGED drawingVars
    BY <1>2 DEF drawingVars, LifeInv, LifeTypes, NotYet, Mailing, Passed, Listed, Active, HasInfo, Deleted
<1> QED
    BY <1>1, <1>2 DEF Next, Drawing, Story, Tablet, vars

LEMMA LifeInvariant == Spec => []LifeInv
    BY LifeInit, LifeStep, PTL DEF Spec

-----------------------------------------------------------------------------
(* The story of a user *)

Stages0 == {"waiting", "writing", "done"}
Indexes == UNION {[D -> Nat] : D \in SUBSET Drawings}

StoryTypes0 ==
    /\ now \in Nat /\ version \in Nat /\ overlapped \in BOOLEAN
    /\ story \in [until : Nat, drawings : Indexes] /\ appended \in Indexes
    /\ appends \in [Appends -> [stage : Stages0, drawing : Drawings \cup {"none"},
                                story : [until : Nat, drawings : Indexes], fresh : BOOLEAN, version : Nat]]

\* No two drawings have the same index, and unless there is none, one index is the
\* highest: that there are finitely many is not known here.
Distinct(f) ==
    /\ \A d, e \in DOMAIN f : d # e => f[d] # f[e]
    /\ DOMAIN f = {} \/ \E d \in DOMAIN f : \A e \in DOMAIN f : f[e] <= f[d]

Indexed(f, d) == [e \in DOMAIN f \cup {d} |-> IF e = d THEN NextIndex(f) ELSE f[e]]

Ordered == DOMAIN story.drawings = DOMAIN appended
           /\ \A d, e \in DOMAIN appended : appended[d] < appended[e] => story.drawings[d] < story.drawings[e]

\* A run that has seen the last write will write the story with its drawing added.
Faithful(a) ==
    appends[a].stage = "writing" =>
        /\ Distinct(appends[a].story.drawings) /\ appends[a].drawing \in Drawings
        /\ appends[a].version <= version
        /\ appends[a].version = version =>
             appends[a].story.drawings = Indexed(IF appends[a].fresh THEN NoDrawings ELSE story.drawings,
                                                 appends[a].drawing)

StoryInv ==
    /\ StoryTypes0 /\ Distinct(story.drawings)
    /\ \A d \in DOMAIN appended : appended[d] <= version
    /\ ~overlapped => Ordered
    /\ \A a \in Appends : Faithful(a)

-----------------------------------------------------------------------------
(* Indexes *)

LEMMA NoDrawingsFacts == NoDrawings \in Indexes /\ DOMAIN NoDrawings = {} /\ Distinct(NoDrawings)
<1>1. DOMAIN NoDrawings = {} /\ NoDrawings \in [{} -> Nat]
    BY DEF NoDrawings
<1> QED
    BY <1>1 DEF Indexes, Distinct

LEMMA OnlyNoDrawingsIsEmpty == ASSUME NEW f \in Indexes PROVE f = NoDrawings <=> DOMAIN f = {}
BY DEF Indexes, NoDrawings

LEMMA NextIsHigher ==
    ASSUME NEW f \in Indexes, Distinct(f)
    PROVE  NextIndex(f) \in Nat /\ \A d \in DOMAIN f : f[d] < NextIndex(f)
<1>1. f \in [DOMAIN f -> Nat]
    BY DEF Indexes
<1>2. CASE DOMAIN f = {}
    BY <1>2, OnlyNoDrawingsIsEmpty DEF NextIndex
<1>3. CASE DOMAIN f # {}
    <2> DEFINE S == {f[d] : d \in DOMAIN f}
    <2>1. PICK d \in DOMAIN f : \A e \in DOMAIN f : f[e] <= f[d]
        BY <1>3 DEF Distinct
    <2>2. f[d] \in S /\ \A y \in S : f[d] >= y
        BY <1>1, <2>1
    <2>3. Max(S) \in S /\ \A y \in S : Max(S) >= y
        BY <2>2 DEF Max
    <2>4. NextIndex(f) = Max(S) + 1
        BY <1>3, OnlyNoDrawingsIsEmpty DEF NextIndex
    <2>5. S \subseteq Nat
        BY <1>1
    <2> HIDE DEF S
    <2>6. Max(S) \in Nat /\ \A e \in DOMAIN f : f[e] \in S /\ f[e] \in Nat /\ f[e] <= Max(S)
        BY <1>1, <2>3, <2>5 DEF S
    <2> QED
        BY <2>4, <2>6
<1> QED
    BY <1>2, <1>3

LEMMA IndexedFacts ==
    ASSUME NEW f \in Indexes, Distinct(f), NEW d \in Drawings
    PROVE  /\ Indexed(f, d) \in Indexes /\ Distinct(Indexed(f, d))
           /\ DOMAIN Indexed(f, d) = DOMAIN f \cup {d} /\ Indexed(f, d)[d] = NextIndex(f)
           /\ \A e \in DOMAIN f : e # d => Indexed(f, d)[e] = f[e] /\ f[e] \in Nat /\ f[e] < NextIndex(f)
<1> DEFINE g == Indexed(f, d)
<1>1. DOMAIN f \subseteq Drawings /\ f \in [DOMAIN f -> Nat]
    BY DEF Indexes
<1>2. NextIndex(f) \in Nat /\ \A e \in DOMAIN f : f[e] < NextIndex(f)
    BY NextIsHigher
<1>3. /\ DOMAIN g = DOMAIN f \cup {d} /\ g[d] = NextIndex(f)
      /\ \A e \in DOMAIN f : e # d => g[e] = f[e] /\ f[e] \in Nat /\ f[e] < NextIndex(f)
    BY <1>1, <1>2 DEF Indexed
<1>4. g \in [DOMAIN f \cup {d} -> Nat]
    BY <1>1, <1>2 DEF Indexed
<1>5. g \in Indexes
    BY <1>1, <1>4 DEF Indexes
<1> HIDE DEF g
<1>6. Distinct(g)
    <2>1. \A e \in DOMAIN g : g[e] <= g[d]
        BY <1>2, <1>3
    <2>2. \A e, h \in DOMAIN g : e # h => g[e] # g[h]
        BY <1>2, <1>3 DEF Distinct
    <2> QED
        BY <1>3, <2>1, <2>2 DEF Distinct
<1> QED
    BY <1>3, <1>5, <1>6 DEF g

-----------------------------------------------------------------------------
(* The steps *)

LEMMA StoryAtFirst == ASSUME NEW bounds, StoriesInit(bounds) PROVE StoryInv
<1>1. NotStarted \in [stage : Stages0, drawing : Drawings \cup {"none"},
                      story : [until : Nat, drawings : Indexes], fresh : BOOLEAN, version : Nat]
    BY NoDrawingsFacts DEF NotStarted, Stages0
<1>2. StoryTypes0
    BY <1>1, NoDrawingsFacts DEF StoriesInit, StoryTypes0
<1>3. /\ story.drawings = NoDrawings /\ appended = NoDrawings
      /\ \A a \in Appends : appends[a].stage = "waiting"
    BY DEF StoriesInit, NotStarted
<1> QED
    BY <1>2, <1>3, NoDrawingsFacts DEF StoryInv, Ordered, Faithful

LEMMA ReadStoryStep ==
    ASSUME StoryInv, NEW a \in Appends, NEW d \in Drawings, ReadStory(a, d)
    PROVE  StoryInv'
<1> DEFINE base == IF IsStoryValid(story) THEN story ELSE [until |-> now, drawings |-> NoDrawings]
           run == [stage |-> "writing", drawing |-> d, story |-> With(base, d),
                   fresh |-> ~IsStoryValid(story), version |-> version]
<1>1. /\ StoryTypes0 /\ appends' = [appends EXCEPT ![a] = run]
      /\ UNCHANGED <<now, story, appended, version, overlapped>>
    BY DEF ReadStory, StoryInv
<1>2. base \in [until : Nat, drawings : Indexes] /\ Distinct(base.drawings)
    BY <1>1, NoDrawingsFacts DEF StoryInv, StoryTypes0
<1>3. base.drawings = IF ~IsStoryValid(story) THEN NoDrawings ELSE story.drawings
    OBVIOUS
<1> HIDE DEF base
<1>4. With(base, d) = [base EXCEPT !.drawings = Indexed(base.drawings, d)]
    BY DEF With, Indexed
<1>5. /\ With(base, d) \in [until : Nat, drawings : Indexes]
      /\ With(base, d).drawings = Indexed(base.drawings, d) /\ Distinct(With(base, d).drawings)
    <2>1. base.drawings \in Indexes
        BY <1>2
    <2>2. Indexed(base.drawings, d) \in Indexes /\ Distinct(Indexed(base.drawings, d))
        BY <1>2, <2>1, IndexedFacts
    <2>3. /\ [base EXCEPT !.drawings = Indexed(base.drawings, d)] \in [until : Nat, drawings : Indexes]
          /\ [base EXCEPT !.drawings = Indexed(base.drawings, d)].drawings = Indexed(base.drawings, d)
        <3> HIDE DEF Indexed, Indexes
        <3> QED
            BY <1>2, <2>2
    <2> QED
        BY <1>4, <2>2, <2>3
<1>6. /\ run.stage = "writing" /\ run.drawing = d /\ run.story = With(base, d)
      /\ run.version = version /\ (run.fresh <=> ~IsStoryValid(story))
    OBVIOUS
<1>7. run \in [stage : Stages0, drawing : Drawings \cup {"none"},
               story : [until : Nat, drawings : Indexes], fresh : BOOLEAN, version : Nat]
    <2>1. (~IsStoryValid(story)) \in BOOLEAN
        BY DEF IsStoryValid
    <2> QED
        BY <1>1, <1>5, <2>1 DEF Stages0, StoryTypes0
<1>8. run.story.drawings = Indexed(IF run.fresh THEN NoDrawings ELSE story.drawings, d)
    BY <1>3, <1>5, <1>6
<1> HIDE DEF run
<1>9. StoryTypes0'
    BY <1>1, <1>7 DEF StoryTypes0
<1>10. \A b \in Appends : Faithful(b)'
    <2> SUFFICES ASSUME NEW b \in Appends PROVE Faithful(b)'
        OBVIOUS
    <2>1. CASE b = a
        <3>1. appends'[b] = run /\ version \in Nat
            BY <1>1, <2>1 DEF StoryTypes0
        <3> QED
            BY <1>1, <1>5, <1>6, <1>8, <3>1 DEF Faithful
    <2>2. CASE b # a
        BY <1>1, <2>2 DEF StoryInv, StoryTypes0, Faithful
    <2> QED
        BY <2>1, <2>2
<1> QED
    BY <1>1, <1>9, <1>10 DEF StoryInv, Ordered

\* A write that nothing came before adds its drawing at the end.
LEMMA WriteStoryStep ==
    ASSUME StoryInv, NEW a \in Appends, WriteStory(a)
    PROVE  StoryInv'
<1> DEFINE d == appends[a].drawing
           before == IF appends[a].fresh THEN NoDrawings ELSE appended
           old == IF appends[a].fresh THEN NoDrawings ELSE story.drawings
<1>1. /\ StoryTypes0 /\ appends[a].stage = "writing" /\ d \in Drawings
      /\ story' = appends[a].story /\ version' = version + 1 /\ now' = now
      /\ appends' = [appends EXCEPT ![a].stage = "done"]
      /\ overlapped' = (overlapped \/ version # appends[a].version)
      /\ appended' = [e \in DOMAIN before \cup {d} |-> IF e = d THEN version' ELSE before[e]]
    BY DEF WriteStory, StoryInv, Faithful
<1>2. /\ before \in Indexes /\ old \in Indexes /\ Distinct(old)
      /\ \A e \in DOMAIN before : before[e] <= version /\ before[e] \in Nat
    <2>1. CASE appends[a].fresh
        BY <2>1, NoDrawingsFacts
    <2>2. CASE ~appends[a].fresh
        <3>1. before = appended /\ old = story.drawings
            BY <2>2
        <3>2. /\ appended \in Indexes /\ story.drawings \in Indexes /\ Distinct(story.drawings)
              /\ \A e \in DOMAIN appended : appended[e] <= version
            BY <1>1 DEF StoryInv, StoryTypes0
        <3>3. \A e \in DOMAIN appended : appended[e] \in Nat
            BY <3>2 DEF Indexes
        <3> QED
            BY <3>1, <3>2, <3>3
    <2> QED
        BY <2>1, <2>2
<1>3. ~overlapped => /\ DOMAIN old = DOMAIN before
                     /\ \A e, f \in DOMAIN before : before[e] < before[f] => old[e] < old[f]
    BY NoDrawingsFacts DEF StoryInv, Ordered
<1>4. appends[a].version = version => story'.drawings = Indexed(old, d)
    BY <1>1 DEF StoryInv, Faithful
<1> HIDE DEF before, old
<1>5. /\ version \in Nat /\ version' \in Nat /\ version' = version + 1
      /\ DOMAIN appended' = DOMAIN before \cup {d} /\ appended'[d] = version'
      /\ \A e \in DOMAIN before : e # d => appended'[e] = before[e]
    BY <1>1 DEF StoryTypes0
<1>6. appended' \in [DOMAIN before \cup {d} -> Nat] /\ DOMAIN before \cup {d} \subseteq Drawings
    BY <1>1, <1>2, <1>5 DEF Indexes
<1>7. overlapped' \in BOOLEAN /\ (~overlapped' => ~overlapped /\ appends[a].version = version)
    BY <1>1
<1>8. StoryTypes0'
    <2>1. appended' \in Indexes
        BY <1>6 DEF Indexes
    <2>2. story' \in [until : Nat, drawings : Indexes]
        BY <1>1 DEF StoryTypes0
    <2>3. appends' \in [Appends -> [stage : Stages0, drawing : Drawings \cup {"none"},
                                    story : [until : Nat, drawings : Indexes], fresh : BOOLEAN, version : Nat]]
        BY <1>1 DEF StoryTypes0, Stages0
    <2> QED
        BY <1>1, <1>5, <1>7, <2>1, <2>2, <2>3 DEF StoryTypes0
<1>9. Distinct(story.drawings)'
    BY <1>1 DEF StoryInv, Faithful
<1>10. \A e \in DOMAIN appended' : appended'[e] <= version'
    BY <1>2, <1>5
<1>11. ~overlapped' => Ordered'
    <2> SUFFICES ASSUME ~overlapped' PROVE Ordered'
        OBVIOUS
    <2>1. DOMAIN old = DOMAIN before /\ \A e, f \in DOMAIN before : before[e] < before[f] => old[e] < old[f]
        BY <1>3, <1>7
    <2>2. story'.drawings = Indexed(old, d)
        BY <1>4, <1>7
    <2>3. /\ DOMAIN story'.drawings = DOMAIN old \cup {d} /\ story'.drawings[d] = NextIndex(old)
          /\ \A e \in DOMAIN old : e # d => /\ story'.drawings[e] = old[e] /\ old[e] \in Nat
                                            /\ old[e] < NextIndex(old)
        BY <1>1, <1>2, <2>2, IndexedFacts
    <2>4. ASSUME NEW e \in DOMAIN appended', NEW f \in DOMAIN appended', appended'[e] < appended'[f]
          PROVE  story'.drawings[e] < story'.drawings[f]
        <3>1. CASE f = d
            <4>1. e # d
                BY <1>5, <2>4, <3>1
            <4> QED
                BY <1>5, <2>1, <2>3, <3>1, <4>1
        <3>2. CASE f # d /\ e = d
            BY <1>2, <1>5, <2>4, <3>2
        <3>3. CASE f # d /\ e # d
            BY <1>5, <2>1, <2>3, <2>4, <3>3
        <3> QED
            BY <3>1, <3>2, <3>3
    <2> QED
        BY <1>5, <2>1, <2>3, <2>4 DEF Ordered
<1>12. \A b \in Appends : Faithful(b)'
    <2> SUFFICES ASSUME NEW b \in Appends PROVE Faithful(b)'
        OBVIOUS
    <2>1. appends'[b].stage = "writing" => b # a /\ appends'[b] = appends[b]
        BY <1>1 DEF StoryTypes0
    <2>2. appends[b].stage = "writing" =>
              /\ Distinct(appends[b].story.drawings) /\ appends[b].drawing \in Drawings
              /\ appends[b].version <= version /\ appends[b].version \in Nat
        BY <1>1 DEF StoryInv, Faithful, StoryTypes0
    <2>3. appends[b].stage = "writing" => appends[b].version <= version' /\ appends[b].version # version'
        BY <1>5, <2>2
    <2> QED
        BY <2>1, <2>2, <2>3 DEF Faithful
<1> QED
    BY <1>8, <1>9, <1>10, <1>11, <1>12 DEF StoryInv

LEMMA RemoveFromStoryStep == ASSUME StoryInv, RemoveFromStory PROVE StoryInv'
<1>1. /\ StoryTypes0 /\ story' = [story EXCEPT !.drawings = NoDrawings] /\ appended' = NoDrawings
      /\ version' = version + 1 /\ UNCHANGED <<now, appends, overlapped>>
    BY DEF RemoveFromStory, StoryInv
<1>2. StoryTypes0' /\ story'.drawings = NoDrawings
    BY <1>1, NoDrawingsFacts DEF StoryTypes0
<1>3. Ordered' /\ Distinct(story.drawings)' /\ \A d \in DOMAIN appended' : appended'[d] <= version'
    BY <1>1, <1>2, NoDrawingsFacts DEF Ordered
<1>4. ASSUME NEW b \in Appends PROVE Faithful(b)'
    <2>1. appends[b].version \in Nat /\ version \in Nat
        BY <1>1 DEF StoryTypes0
    <2> QED
        BY <1>1, <2>1 DEF StoryInv, Faithful
<1> QED
    BY <1>2, <1>3, <1>4 DEF StoryInv

LEMMA StoryIsKept == StoryInv /\ (StoriesStep \/ UNCHANGED storiesVars) => StoryInv'
<1> SUFFICES ASSUME StoryInv, StoriesStep \/ UNCHANGED storiesVars PROVE StoryInv'
    OBVIOUS
<1>1. CASE NextDay \/ UNCHANGED storiesVars
    <2>1. UNCHANGED <<story, appends, appended, version, overlapped>> /\ now' \in Nat
        BY <1>1 DEF NextDay, storiesVars, StoryInv, StoryTypes0
    <2> QED
        BY <2>1 DEF StoryInv, StoryTypes0, Ordered, Faithful
<1> QED
    BY <1>1, ReadStoryStep, WriteStoryStep, RemoveFromStoryStep DEF StoriesStep

LEMMA StoryImplies == StoryInv => StoryKeepsAppends
BY DEF StoryInv, StoryKeepsAppends, Distinct, Ordered

-----------------------------------------------------------------------------
(* What follows *)

\* However often the owner logs in, and whatever becomes of the reports, the drawing
\* is mailed about once, but for two sessions at a time, one that ended after its mail,
\* or a tag that an upload or a tablet dropped (MailService.EmailCurrentUserOnImageBanned).
THEOREM OwnerGetsOneMail == Spec => []OneMail
<1>1. LifeInv => OneMail
    BY DEF LifeInv, Mailing, OneMail
<1> QED
    BY LifeInvariant, <1>1, PTL

\* ProfileService.GetDrawingsIds indexes the models without a test; it throws only on
\* a drawing that is being deleted, was left half deleted, or came back.
THEOREM ListingFailsOnlyThen == Spec => []ListingFailsOnlyOnDeletion
<1>1. LifeInv => ListingFailsOnlyOnDeletion
    BY DEF LifeInv, Listed, ListingFailsOnlyOnDeletion
<1> QED
    BY LifeInvariant, <1>1, PTL

\* After DrawingService.DeleteDrawing the whole info comes back only from a tablet or
\* from CacheService.UploadUpdatedData, and the drawing is in the gallery only if its
\* model and an info were written back.
THEOREM DeletedIsHidden == Spec => []DeletedStaysHidden
<1>1. LifeInv => DeletedStaysHidden
    BY DEF LifeInv, Passed, DeletedStaysHidden
<1> QED
    BY LifeInvariant, <1>1, PTL

\* However the runs of StoriesService.AppendToStory interleave, the removals and the
\* expiries between them too, no two drawings of a story share an index, and what was
\* appended is in it in the order of the writes, unless a run wrote over a change that
\* it had not read.
THEOREM StoryInOrder == Spec => []StoryKeepsAppends
<1>1. Init => StoryInv
    BY StoryAtFirst DEF Init
<1>2. StoryInv /\ [Next]_vars => StoryInv'
    BY StoryIsKept DEF Next, Drawing, Story, Tablet, vars
<1> QED
    BY <1>1, <1>2, StoryImplies, PTL DEF Spec

\* What syncData (DrawingService.swift) makes of the strokes that were drawn signed out,
\* however the tablets, their sessions and the edits online interleave: each is kept,
\* on its way, in the database, or lost in one of three ways; and the question about
\* the date spares what was drawn and dated online.
THEOREM TabletsAccountForTheirWork == Spec => []TabletWorkAccounted
<1>1. Init => TabletInv
    BY TabletsAtFirst, ScenariosAreStates DEF Init
<1>2. TabletInv /\ [Next]_vars => TabletInv'
    BY TabletsAreKept DEF Next, Drawing, Story, Tablet, vars
<1> QED
    BY <1>1, <1>2, TabletsImply, PTL DEF Spec

-----------------------------------------------------------------------------
(* Types, as far as they are not in the invariants *)

OtherTypes ==
    /\ strokes \in BOOLEAN /\ entries \subseteq Users
    /\ \A d \in DOMAIN appended : appended[d] # 0
    /\ \A s \in refused \cup cut \cup replaced : s \in Strokes /\ ~New(s)

LEMMA OtherTypesInit == Init => OtherTypes
<1> SUFFICES ASSUME NEW s \in Scenarios, DrawingInit(s.created, s.drawing), StoriesInit(s.stories),
                    TabletInit(s.creator, s.tablets)
             PROVE  OtherTypes
    BY DEF Init
<1>1. DOMAIN appended = {}
    BY NoDrawingsFacts DEF StoriesInit
<1> QED
    BY <1>1, OwnerIsUser DEF OtherTypes, DrawingInit, TabletInit

LEMMA DrawingOtherTypes ==
    ASSUME LifeInv, strokes \in BOOLEAN, entries \subseteq Users, DrawingStep
    PROVE  strokes' \in BOOLEAN /\ entries' \subseteq Users
<1>1. ASSUME SetModel \/ SetInfo \/ SetEntry PROVE strokes' \in BOOLEAN /\ entries' \subseteq Users
    BY <1>1, OwnerIsUser DEF SetModel, SetInfo, SetEntry
<1>2. ASSUME Deletion PROVE strokes' \in BOOLEAN /\ entries' \subseteq Users
    BY <1>2 DEF Deletion, StartDeletion, RemoveModel, RemoveInfo, RemoveStrokes, AbandonDeletion
<1>3. ASSUME NEW u \in Users, Visit(u) \/ WriteEntry(u) \/ WriteModel(u) \/ WriteStrokes(u)
      PROVE  strokes' \in BOOLEAN /\ entries' \subseteq Users
    BY <1>3 DEF Visit, WriteEntry, WriteModel, WriteStrokes
<1>4. ASSUME NEW u \in Users, WritePreview(u) \/ Report(u) \/ UndoReport(u) \/ RemoveEntry(u)
      PROVE  strokes' \in BOOLEAN /\ entries' \subseteq Users
    BY <1>4 DEF WritePreview, Report, UndoReport, RemoveEntry
<1>5. ASSUME NEW s \in Sessions, Login(s) \/ ReadInfo(s) \/ SendMail(s) \/ TagAsSent(s) \/ EndMailing(s)
      PROVE  strokes' \in BOOLEAN /\ entries' \subseteq Users
    BY <1>5 DEF Login, ReadInfo, SendMail, TagAsSent, EndMailing
<1>6. ASSUME NEW l \in Listings, ReadEntries(l) \/ ReadInfos(l) \/ ReadModels(l)
      PROVE  strokes' \in BOOLEAN /\ entries' \subseteq Users
    BY <1>6 DEF ReadEntries, ReadInfos, ReadModels
<1>7. ASSUME NEW u \in Users, VisitOnTablet(u) \/ WriteInfo(u) \/ Upload(u)
      PROVE  strokes' \in BOOLEAN /\ entries' \subseteq Users
    BY <1>7 DEF VisitOnTablet, WriteInfo, Upload, GoOffline, TestUpload, UploadModel, UploadStrokes, UploadInfo,
                UploadEntry, FailUpload
<1> QED
    BY <1>1, <1>2, <1>3, <1>4, <1>5, <1>6, <1>7 DEF DrawingStep

LEMMA StoryOtherTypes ==
    ASSUME StoryInv, \A d \in DOMAIN appended : appended[d] # 0, StoriesStep
    PROVE  \A d \in DOMAIN appended' : appended'[d] # 0
<1>1. ASSUME NEW a \in Appends, WriteStory(a) PROVE \A d \in DOMAIN appended' : appended'[d] # 0
    <2> DEFINE before == IF appends[a].fresh THEN NoDrawings ELSE appended
               d == appends[a].drawing
    <2>1. version \in Nat /\ \A e \in DOMAIN before : before[e] # 0
        BY NoDrawingsFacts DEF StoryInv, StoryTypes0
    <2>2. appended' = [e \in DOMAIN before \cup {d} |-> IF e = d THEN version' ELSE before[e]]
        BY <1>1 DEF WriteStory
    <2>3. version' = version + 1
        BY <1>1 DEF WriteStory
    <2> HIDE DEF before, d
    <2> QED
        BY <2>1, <2>2, <2>3
<1>2. ASSUME RemoveFromStory PROVE \A d \in DOMAIN appended' : appended'[d] # 0
    BY <1>2, NoDrawingsFacts DEF RemoveFromStory
<1>3. ASSUME NextDay \/ \E a \in Appends, d \in Drawings : ReadStory(a, d)
      PROVE  \A d \in DOMAIN appended' : appended'[d] # 0
    BY <1>3 DEF NextDay, ReadStory
<1> QED
    BY <1>1, <1>2, <1>3 DEF StoriesStep

\* What was refused, cut or replaced had been drawn: a stroke is drawn once.
LEMMA TabletOtherTypes ==
    ASSUME TabletInv, \A s \in refused \cup cut \cup replaced : s \in Strokes /\ ~New(s), TabletStep
    PROVE  \A s \in (refused \cup cut \cup replaced)' : s \in Strokes /\ ~New(s)'
<1>1. /\ made \in [Strokes -> Tablets \cup {"nobody", "online"}]
      /\ \A s \in node.strokes : s \in Strokes /\ ~New(s)
      /\ \A t \in Tablets : \A s \in Own(t) : s \in Strokes /\ ~New(s)
    BY TabletsAreNames DEF TabletInv, SyncTypes, Seen, Own, New
<1>2. ASSUME \A s \in Strokes : ~New(s) => ~New(s)',
             \A s \in (refused \cup cut \cup replaced)' :
                 s \in refused \cup cut \cup replaced \cup node.strokes \/ \E t \in Tablets : s \in Own(t)
      PROVE  \A s \in (refused \cup cut \cup replaced)' : s \in Strokes /\ ~New(s)'
    BY <1>1, <1>2
<1>3. ASSUME NEW s \in Strokes, EditOnline(s) \/ \E t \in Tablets : EditOffline(t, s)
      PROVE  \A x \in (refused \cup cut \cup replaced)' : x \in Strokes /\ ~New(x)'
    <2>1. New(s) /\ UNCHANGED <<refused, cut, replaced>> /\ \A x \in Strokes : x # s => made'[x] = made[x]
        BY <1>1, <1>3 DEF EditOnline, EditOffline
    <2> QED
        BY <2>1 DEF New
<1>4. CASE DateOnline
    BY <1>2, <1>4 DEF DateOnline, New
<1>5. ASSUME NEW t \in Tablets, SyncData(t) \/ Sdk(t) \/ EndSession(t)
      PROVE  \A s \in (refused \cup cut \cup replaced)' : s \in Strokes /\ ~New(s)'
    <2>1. made' = made
        BY <1>5 DEF SyncData, EndSession, Sdk, ThumbnailSaved, Answered, Send, InfoArrives, StrokesArrive, DateArrives
    <2>2. /\ refused' \subseteq refused \cup Own(t) /\ cut' \subseteq cut \cup Own(t)
          /\ replaced' \subseteq replaced \cup node.strokes
        <3>1. CASE SyncData(t) \/ ThumbnailSaved(t) \/ InfoArrives(t) \/ StrokesArrive(t) \/ DateArrives(t)
            BY <3>1 DEF SyncData, ThumbnailSaved, InfoArrives, StrokesArrive, DateArrives
        <3>2. CASE Answered(t)
            BY <3>2 DEF Answered
        <3>3. CASE Send(t)
            BY <3>3 DEF Send
        <3>4. CASE EndSession(t)
            BY <3>4 DEF EndSession
        <3> QED
            BY <1>5, <3>1, <3>2, <3>3, <3>4 DEF Sdk
    <2> QED
        BY <1>2, <2>1, <2>2 DEF New
<1> QED
    BY <1>3, <1>4, <1>5 DEF TabletStep

LEMMA OtherTypesStep == LifeInv /\ StoryInv /\ TabletInv /\ OtherTypes /\ [Next]_vars => OtherTypes'
<1> SUFFICES ASSUME LifeInv, StoryInv, TabletInv, OtherTypes, [Next]_vars PROVE OtherTypes'
    OBVIOUS
<1>1. UNCHANGED drawingVars \/ DrawingStep
    BY DEF Next, Drawing, Story, Tablet, vars
<1>2. UNCHANGED storiesVars \/ StoriesStep
    BY DEF Next, Drawing, Story, Tablet, vars
<1>3. UNCHANGED tabletVars \/ TabletStep
    BY DEF Next, Drawing, Story, Tablet, vars
<1>4. strokes' \in BOOLEAN /\ entries' \subseteq Users
    BY <1>1, DrawingOtherTypes DEF OtherTypes, drawingVars
<1>5. \A d \in DOMAIN appended' : appended'[d] # 0
    BY <1>2, StoryOtherTypes DEF OtherTypes, storiesVars
<1>6. \A s \in (refused \cup cut \cup replaced)' : s \in Strokes /\ ~New(s)'
    BY <1>3, TabletOtherTypes DEF OtherTypes, tabletVars, New
<1> QED
    BY <1>4, <1>5, <1>6 DEF OtherTypes

\* Every variable of the three parts stays in its set (DrawingService, ProfileService,
\* StoriesService, the tablets): no operation meets a stage, a story or a message that
\* it does not know, and whatever is counted as lost had been drawn.
THEOREM GalleryTypes == Spec => []TypeOK
<1> DEFINE Inv == LifeInv /\ StoryInv /\ TabletInv /\ OtherTypes
<1>1. Init => Inv
    BY LifeInit, StoryAtFirst, TabletsAtFirst, ScenariosAreStates, OtherTypesInit DEF Init
<1>2. Inv /\ [Next]_vars => Inv'
    <2>1. StoryInv /\ [Next]_vars => StoryInv'
        BY StoryIsKept DEF Next, Drawing, Story, Tablet, vars
    <2>2. TabletInv /\ [Next]_vars => TabletInv'
        BY TabletsAreKept DEF Next, Drawing, Story, Tablet, vars
    <2> QED
        BY <2>1, <2>2, LifeStep, OtherTypesStep
<1>3. Inv => TypeOK
    <2> SUFFICES ASSUME LifeInv, StoryInv, TabletInv, OtherTypes PROVE TypeOK
        OBVIOUS
    <2>1. DrawingTypes
        BY DEF LifeInv, LifeTypes, OtherTypes, DrawingTypes, Stages
    <2>2. StoryTypes
        <3>1. /\ now \in Nat /\ version \in Nat /\ overlapped \in BOOLEAN
              /\ story.until \in Nat /\ story.drawings \in Indexes /\ appended \in Indexes
              /\ \A a \in Appends : appends[a].stage \in Stages0
            BY DEF StoryInv, StoryTypes0
        <3>2. \A f \in Indexes : DOMAIN f \subseteq Drawings /\ \A d \in DOMAIN f : f[d] \in Nat
            BY DEF Indexes
        <3>3. \A d \in DOMAIN appended : d \in Drawings /\ appended[d] \in 1..version
            BY <3>1, <3>2 DEF StoryInv, OtherTypes
        <3> QED
            BY <3>1, <3>2, <3>3 DEF StoryTypes, Stages0
    <2>3. TabletTypes
        <3>1. \A t \in Tablets : /\ tablets[t].app \in {"out", "asking", "fetching", "dated", "watching"}
                                 /\ tablets[t].strokes \subseteq Strokes
                                 /\ tablets[t].app = "out" => tablets[t].queue = <<>>
            BY DEF TabletInv, SyncTypes, TabletStates, GoodTablet, Modes
        <3>2. \A s \in undated : s \in Strokes /\ ~New(s)
            BY DEF TabletInv, SyncTypes, Online, New
        <3> QED
            BY <3>1, <3>2 DEF TabletInv, SyncTypes, OtherTypes, TabletTypes
    <2> QED
        BY <2>1, <2>2, <2>3 DEF TypeOK
<1> QED
    BY <1>1, <1>2, <1>3, PTL DEF Spec
=============================================================================
