---------------------------- MODULE MCOfflineCache ----------------------------
(* Small instances of OfflineCache. *)
EXTENDS OfflineCache

CONSTANTS d1, d2

\* In the order of SyncThread.
AllTargets == <<"drawings", "info", "strokes">>

\* What others do.
Nobody == [c \in Changes |-> 0]
Create == [Nobody EXCEPT !["create"] = 1]
DrawSaveAndDelete == [c \in Changes |-> IF c = "create" THEN 0 ELSE 1]
DrawAndSave == [DrawSaveAndDelete EXCEPT !["delete"] = 0]
OneOfEach == [c \in Changes |-> 1]

\* The cache is up to date at first.
Scen(cached, new, visits, strokes, resizes, logins, others, failures) ==
    [cached |-> cached, outdated |-> {}, new |-> new,
     bounds |-> [visits |-> visits, strokes |-> strokes, resizes |-> resizes,
                 logins |-> logins, others |-> others, failures |-> failures]]

\* Offline work: visits that overlap and crashes; a new drawing, drawn in or
\* resized; changes by others; outdated cache and a second login; two threads.
WorkScenarios ==
    {Scen({d1}, {}, 2, 2, 0, 1, Nobody, 2),
     Scen({}, {d1}, 1, 1, 0, 1, Create, 1),
     Scen({}, {d1}, 1, 0, 1, 2, Create, 1),
     Scen({d1}, {}, 1, 1, 0, 1, DrawSaveAndDelete, 1),
     [Scen({d1}, {}, 1, 1, 0, 2, Nobody, 0) EXCEPT !.outdated = {d1}],
     Scen({d1}, {}, 0, 0, 0, 2, DrawAndSave, 1)}

\* What the sync threads do about changes by others, and about overrides; the last
\* scenario has two threads that copy a target at once.
SyncScenarios ==
    {Scen({d1}, {}, 1, 1, 0, 1, DrawSaveAndDelete, 1),
     Scen({d1}, {d2}, 0, 0, 0, 1, OneOfEach, 1),
     Scen({d1}, {}, 0, 0, 0, 2, [Nobody EXCEPT !["draw"] = 2], 0)}
=============================================================================
