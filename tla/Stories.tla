-------------------------------- MODULE Stories --------------------------------
(***************************************************************************)
(* The story of one user (StoriesService.cs): drawings with an index and a *)
(* date on which the story expires, read as a whole and written as a       *)
(* whole, from any number of posts and clients of that user.               *)
(***************************************************************************)
EXTENDS Naturals, FiniteSetsExt

CONSTANTS
    Drawings,  \* drawings that may become part of the story
    Appends    \* runs of AppendToStory

VARIABLES
    now,         \* counts the days
    story,       \* stories/<user>: its last day, and an index for each drawing in it
    appends,     \* appends[a]: a run, and the story that it is going to write
    appended,    \* history: for each drawing of the present story, the write that appended it,
    version,     \* the number of writes so far,
    overlapped,  \* and that a story was written over a change that its run had not read
    leftS        \* how often each bounded thing may still happen

storiesVars == <<now, story, appends, appended, version, overlapped, leftS>>

NoDrawings == [d \in {} |-> 0]
NotStarted == [stage |-> "waiting", drawing |-> "none", story |-> [until |-> 0, drawings |-> NoDrawings],
               fresh |-> FALSE, version |-> 0]

StoriesInit(bounds) ==
    /\ now = 1 /\ story = [until |-> 0, drawings |-> NoDrawings]
    /\ appends = [a \in Appends |-> NotStarted]
    /\ appended = NoDrawings /\ version = 0 /\ overlapped = FALSE /\ leftS = bounds

\* An empty object is absent from the database, and absent drawings make a story invalid.
IsStoryValid(s) == s.drawings # NoDrawings /\ now <= s.until

\* (Altered: the number of drawings is the next index.)
NextIndex_Count(drawings) == Cardinality(DOMAIN drawings)

NextIndex(drawings) ==
    IF drawings = NoDrawings THEN 0 ELSE Max({drawings[d] : d \in DOMAIN drawings}) + 1

With(s, d) ==
    [s EXCEPT !.drawings = [e \in DOMAIN @ \cup {d} |-> IF e = d THEN NextIndex(s.drawings) ELSE s.drawings[e]]]

\* AppendToStory: the story is read, or begun.
ReadStory(a, d) ==
    /\ leftS.appends > 0 /\ appends[a].stage = "waiting"
    /\ \A b \in Appends : b < a => appends[b].stage # "waiting"
    /\ LET base == IF IsStoryValid(story) THEN story ELSE [until |-> now, drawings |-> NoDrawings] IN
       appends' = [appends EXCEPT ![a] = [stage |-> "writing", drawing |-> d, story |-> With(base, d),
                                          fresh |-> ~IsStoryValid(story), version |-> version]]
    /\ leftS' = [leftS EXCEPT !.appends = @ - 1]
    /\ UNCHANGED <<now, story, appended, version, overlapped>>

WriteStory(a) ==
    LET d == appends[a].drawing
        before == IF appends[a].fresh THEN NoDrawings ELSE appended
    IN
    /\ appends[a].stage = "writing"
    /\ story' = appends[a].story
    /\ appends' = [appends EXCEPT ![a].stage = "done"]
    /\ version' = version + 1
    /\ appended' = [e \in DOMAIN before \cup {d} |-> IF e = d THEN version' ELSE before[e]]
    /\ overlapped' = (overlapped \/ version # appends[a].version)
    /\ UNCHANGED <<now, leftS>>

\* RemoveFromStory: whatever the drawing is, all of them go.
RemoveFromStory ==
    /\ leftS.removals > 0 /\ leftS' = [leftS EXCEPT !.removals = @ - 1]
    /\ story' = [story EXCEPT !.drawings = NoDrawings]
    /\ appended' = NoDrawings /\ version' = version + 1
    /\ UNCHANGED <<now, appends, overlapped>>

NextDay ==
    /\ leftS.days > 0 /\ leftS' = [leftS EXCEPT !.days = @ - 1]
    /\ now' = now + 1
    /\ UNCHANGED <<story, appends, appended, version, overlapped>>

StoriesStep ==
    \/ \E a \in Appends : WriteStory(a) \/ \E d \in Drawings : ReadStory(a, d)
    \/ RemoveFromStory \/ NextDay

-----------------------------------------------------------------------------
(* Properties *)

\* What was appended since the story began is in it, the later the higher its index,
\* unless a run wrote over a change that it had not read; and no two drawings share
\* an index even then.
StoryKeepsAppends ==
    LET in == story.drawings IN
    /\ \A d, e \in DOMAIN in : d # e => in[d] # in[e]
    /\ ~overlapped =>
        /\ DOMAIN in = DOMAIN appended
        /\ \A d, e \in DOMAIN appended : appended[d] < appended[e] => in[d] < in[e]
=============================================================================
