-------------------------------- MODULE Gallery --------------------------------
(***************************************************************************)
(* What becomes of drawings outside their page: their life, the stories    *)
(* they are put in, and what is drawn on tablets that are signed out.  The *)
(* three share no state, and a scenario puts one of them to work.          *)
(***************************************************************************)
EXTENDS DrawingLife, Stories, TabletSync

CONSTANT Scenarios   \* from which Init chooses

\* The drawing has been created at first, or has not, and the dates of the tablets
\* are in the past.
ASSUME ScenariosAreStates ==
    \A s \in Scenarios :
        /\ s.created \in BOOLEAN
        /\ s.tablets \in [online : Nat, offline : Nat, dates : Nat, signIns : Nat] /\ s.tablets.dates > 1

VARIABLE scenario

vars == <<scenario, drawingVars, storiesVars, tabletVars>>

Init ==
    \E s \in Scenarios :
        /\ scenario = s
        /\ DrawingInit(s.created, s.drawing)
        /\ StoriesInit(s.stories)
        /\ TabletInit(s.creator, s.tablets)

Drawing == DrawingStep /\ UNCHANGED <<scenario, storiesVars, tabletVars>>
Story == StoriesStep /\ UNCHANGED <<scenario, drawingVars, tabletVars>>
Tablet == TabletStep /\ UNCHANGED <<scenario, drawingVars, storiesVars>>

Next == Drawing \/ Story \/ Tablet

Spec == Init /\ [][Next]_vars

-----------------------------------------------------------------------------
(* Types *)

Infos == [whole : BOOLEAN, fields : BOOLEAN, reports : SUBSET Users, sent : BOOLEAN]
Parts == {"model", "info", "whole", "strokes", "entry", "preview"}
Uploads == [stage : {"off", "edited", "model", "strokes", "info", "entry"}, parts : SUBSET {"model", "strokes"},
            copy : Infos]

DrawingTypes ==
    /\ model \in BOOLEAN /\ strokes \in BOOLEAN /\ info \in Infos /\ entries \subseteq Users
    /\ creation \in {"waiting", "model", "info", "done"}
    /\ visits \in [Users -> SUBSET Parts] /\ uploads \in [Users -> Uploads]
    /\ deletion \in [stage : {"idle", "model", "info", "strokes", "entries", "done", "abandoned"},
                     remaining : SUBSET Users]
    /\ sessions \in [Sessions -> {"off", "reading", "mailing", "tagging"}]
    /\ listings \in [Listings -> [stage : {"waiting", "infos", "models", "listed", "failed", "empty"},
                                  entry : BOOLEAN, info : Infos, after : BOOLEAN]]
    /\ mails \in Nat /\ unsure \in BOOLEAN /\ back \subseteq Parts

StoryTypes ==
    /\ now \in Nat /\ story.until \in Nat /\ DOMAIN story.drawings \subseteq Drawings
    /\ \A a \in Appends : appends[a].stage \in {"waiting", "writing", "done"}
    /\ \A d \in DOMAIN appended : d \in Drawings /\ appended[d] \in 1..version
    /\ overlapped \in BOOLEAN

TabletTypes ==
    /\ node \in [date : Nat, strokes : SUBSET Strokes]
    /\ \A t \in Tablets : /\ tablets[t].app \in {"out", "asking", "fetching", "dated", "watching"}
                          /\ tablets[t].strokes \subseteq Strokes
                          /\ tablets[t].app = "out" => tablets[t].queue = <<>>
    /\ undated \cup refused \cup cut \cup replaced \cup wronged \subseteq {s \in Strokes : ~New(s)}

\* Every variable stays in its set: a stage that an operation does not know, or a story
\* with something else than drawings, is reached by none of them, and a tablet that
\* is signed out has nothing to send.
TypeOK == DrawingTypes /\ StoryTypes /\ TabletTypes
=============================================================================
