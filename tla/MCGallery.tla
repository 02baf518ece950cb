------------------------------- MODULE MCGallery -------------------------------
EXTENDS Gallery

MCAppends == 1..3

StillDrawing ==
    [visitors |-> {}, tablets |-> {}, uploaders |-> {}, logins |-> {}, reports |-> 0, deletions |-> 0,
     failures |-> 0, listings |-> 0]
StillStories == [appends |-> 0, removals |-> 0, days |-> 0]
StillTablets == [online |-> 0, offline |-> 0, dates |-> 2, signIns |-> 0]

Base == [created |-> TRUE, drawing |-> StillDrawing, stories |-> StillStories,
         creator |-> "none", tablets |-> StillTablets]

\* A drawing that is created while it is listed and opened; one that is deleted while
\* it is listed, opened and changed, by one or two users; and one that is reported, by
\* three users in time, while its owner logs in on two desktops, or while it is deleted.
\* Then one that is deleted while it is changed on a tablet and offline; and one that
\* its owner is told of while it is changed offline, or is deleted and on a tablet.
Creation == [Base EXCEPT !.created = FALSE, !.drawing =
    [StillDrawing EXCEPT !.visitors = {"u2"}, !.reports = 1, !.listings = 1, !.logins = Sessions]]
Deletions == [Base EXCEPT !.drawing =
    [StillDrawing EXCEPT !.visitors = {"u1"}, !.reports = 1, !.deletions = 1, !.failures = 1, !.listings = 1]]
Visitors == [Base EXCEPT !.drawing =
    [StillDrawing EXCEPT !.visitors = {"u1", "u2"}, !.deletions = 1]]
Reports == [Base EXCEPT !.drawing =
    [StillDrawing EXCEPT !.reports = 5, !.failures = 1, !.listings = 1, !.logins = Sessions]]
ReportsAndDeletion == [Base EXCEPT !.drawing =
    [StillDrawing EXCEPT !.reports = 3, !.deletions = 1, !.failures = 1, !.logins = Sessions]]
Uploaded == [Base EXCEPT !.drawing =
    [StillDrawing EXCEPT !.tablets = {"u1"}, !.uploaders = {"u2"}, !.deletions = 1, !.failures = 1, !.listings = 1]]
UploadUntags == [Base EXCEPT !.drawing =
    [StillDrawing EXCEPT !.uploaders = {"u2"}, !.reports = 3, !.failures = 1, !.logins = Sessions]]
TabletUntags == [Base EXCEPT !.drawing =
    [StillDrawing EXCEPT !.tablets = {"u1"}, !.reports = 3, !.deletions = 1, !.logins = {1}]]

Stories == [Base EXCEPT !.stories = [appends |-> 3, removals |-> 1, days |-> 1]]

\* Two tablets and everybody else, and a drawing that was created on a tablet.
TwoTablets == [Base EXCEPT !.tablets = [online |-> 2, offline |-> 2, dates |-> 2, signIns |-> 2]]
TabletCreation == [Base EXCEPT !.creator = "t1",
                               !.tablets = [online |-> 1, offline |-> 1, dates |-> 2, signIns |-> 2]]

MCScenarios ==
    {Creation, Deletions, Visitors, Reports, ReportsAndDeletion, Uploaded, UploadUntags, TabletUntags,
     Stories, TwoTablets, TabletCreation}
=============================================================================
