------------------------------- MODULE Community -------------------------------
(***************************************************************************)
(* What users do together: messages, follows and achievements, joined by   *)
(* the Cloud Functions that count the messages of a user and the changes   *)
(* of what the user follows.                                               *)
(***************************************************************************)
EXTENDS Messaging, Achievements, Follows

CONSTANT Scenarios   \* the parts that are at work, from which Init chooses

\* The definitions are finitely many, and none is reached before anything happens.
ASSUME ScenariosAreStates ==
    \A s \in Scenarios :
        /\ s.lists \in {"messages", "conversations"} /\ s.entry \in Entries
        /\ IsFiniteSet(DOMAIN s.definitions) /\ DOMAIN s.definitions \subseteq Definitions
        /\ s.definitions \in [DOMAIN s.definitions -> [metric : Metrics, count : Nat \ {0}]]

\* What the functions count here.
ASSUME CountedAreMetrics == {"numberOfMessages", "numberOfFollowings"} \subseteq Metrics

VARIABLE scenario

vars == <<scenario, messagingVars, achievementsVars, followsVars>>

Init ==
    \E s \in Scenarios :
        /\ scenario = s
        /\ MessagingInit(s.lists, s.messaging)
        /\ AchievementsInit(s.definitions, s.achievements)
        /\ FollowsInit(s.entry, s.follows)

\* The user is the author of the messages, or somebody else is.
Messages ==
    /\ \E k \in Keys : Set(k) \/ TabletSend(k)
    /\ IF scenario.author THEN Count("numberOfMessages") ELSE UNCHANGED achievementsVars
    /\ UNCHANGED <<scenario, followsVars>>

\* A change of what the desktop lists as followed is counted: it leaves an entry.
Following ==
    /\ \E p \in Presses : UpdateFollowing(p)
    /\ IF scenario.counted /\ entry'["following"] # entry["following"]
       THEN Count("numberOfFollowings")
       ELSE UNCHANGED achievementsVars
    /\ UNCHANGED <<scenario, messagingVars>>

MessagingAlone == MessagingStep /\ UNCHANGED <<scenario, achievementsVars, followsVars>>
AchievementsAlone == AchievementsStep /\ UNCHANGED <<scenario, messagingVars, followsVars>>
FollowsAlone == FollowsStep /\ UNCHANGED <<scenario, messagingVars, achievementsVars>>

Next == Messages \/ Following \/ MessagingAlone \/ AchievementsAlone \/ FollowsAlone

Spec == Init /\ [][Next]_vars

-----------------------------------------------------------------------------
(* Types *)

Openings0 == Openings \cup {0}
Keys0 == Keys \cup {0}
OpeningTypes ==
    [page : {"unopened", "asking", "listed", "walking", "walked", "attached"},
     box : {"none", "tab", "window", "closed"}, list : Seq(Keys), size : Nat, view : Seq(Keys),
     stream : {"off", "connecting", "live", "deaf"}, events : Seq(Keys), holding : Keys0,
     missed : SUBSET Keys, gap : SUBSET Keys]
Jobs ==
    [does : {"increment"}, metric : Metrics] \cup [does : {"set"}, metric : Metrics, value : Nat]
        \cup [does : {"update"}] \cup [does : {"complete"}, ids : SUBSET Definitions]

\* Every variable stays in its set; in particular the listing task holds at most one
\* item, and no function works for a metric or an achievement that is not defined.
TypeOK ==
    /\ kind \in {"messages", "conversations"} /\ pushed \subseteq Keys
    /\ items \in [Keys -> [from : {"none", "desktop", "tablet"}, id : Keys0] \cup [from : {"tablet"}, id : Texts]]
    /\ openings \in [Openings -> OpeningTypes] /\ newest \in Openings0 /\ current \in Openings0
    /\ loggedIn \in BOOLEAN /\ crashed \in BOOLEAN
    /\ metrics \in [Metrics -> Nat] /\ completed \subseteq DOMAIN thresholds /\ DOMAIN jobs \subseteq Jobs
    /\ \A job \in DOMAIN jobs : jobs[job] > 0
    /\ shown \in [page : {"closed", "read", "live"}, done : SUBSET completed]
    /\ feed \in Seq(SUBSET completed)
    /\ entry \in [Sides -> Entries] /\ page \in [follows : BOOLEAN, loaded : BOOLEAN]
    /\ presses \in [Presses -> [stage : {"waiting", "followers", "following", "reading", "read", "done"},
                                want : {"yes", "no"}, read : Entries]]
    /\ queue \in Seq([side : Sides, want : {"yes", "absent"}]) /\ last \in Lists
    /\ {disturbed, hasty, repeated, skipped} \subseteq BOOLEAN
=============================================================================
