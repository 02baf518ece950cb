-------------------------------- MODULE Follows --------------------------------
(***************************************************************************)
(* One user who may follow another one (ProfileService.cs,                 *)
(* ProfileViewModel.cs, UsersService.swift): the entry of the follower in  *)
(* the followers of the other, and the entry of the other in what the      *)
(* follower follows.  The desktop client keeps the latter in following,    *)
(* writes TRUE or FALSE and takes whatever has an entry as followed; a     *)
(* tablet keeps it in followings, and writes TRUE or removes the entries.  *)
(***************************************************************************)
EXTENDS Naturals, Sequences

CONSTANT Presses   \* the presses of the desktop's button and refreshes of its page

VARIABLES
    entry,      \* the entries of the database
    page,       \* the desktop's page: IsFollowedByCurrentUser, and whether it has been read
    presses,    \* presses[p]: a run of ToggleIsFollowing or Refresh
    queue,      \* the writes that the tablet's SDK has yet to send, in order
    last,       \* history: the list of the client that wrote the follower's entry last,
    disturbed,  \* two presses wrote at the same time, or a toggle was cut short,
    hasty,      \* and the button was pressed before the page was read, or two runs overlapped
    leftF       \* how often each bounded thing may still happen

followsVars == <<entry, page, presses, queue, last, disturbed, hasty, leftF>>

Entries == {"absent", "yes", "no"}
Lists == {"following", "followings"}
Sides == {"followers"} \cup Lists
Waiting == [stage |-> "waiting", want |-> "no", read |-> "absent"]

FollowsInit(start, bounds) ==
    /\ entry = [s \in Sides |-> IF s = "followings" THEN "absent" ELSE start]
    /\ last = "following" /\ leftF = bounds
    /\ page \in [follows : BOOLEAN, loaded : {FALSE}] /\ presses = [p \in Presses |-> Waiting] /\ queue = <<>>
    /\ disturbed = FALSE /\ hasty = FALSE

\* The users that have an entry are taken for followers, whatever it says.
Listed(value) == value # "absent"

InFlight(p) == presses[p].stage \notin {"waiting", "done"}
Writing(p) == presses[p].stage \in {"followers", "following"}
NextPress(p) ==
    /\ leftF.presses > 0 /\ presses[p].stage = "waiting"
    /\ \A q \in Presses : q < p => presses[q].stage # "waiting"
OthersWrite(p) == \E q \in Presses \ {p} : Writing(q)

-----------------------------------------------------------------------------
(* The desktop client *)

\* ToggleIsFollowing: the list on the page is changed first.
Press(p) ==
    /\ NextPress(p) /\ leftF' = [leftF EXCEPT !.presses = @ - 1]
    /\ page' = [page EXCEPT !.follows = ~@]
    /\ presses' = [presses EXCEPT ![p] = [stage |-> "followers", want |-> IF page.follows THEN "no" ELSE "yes",
                                          read |-> "absent"]]
    /\ hasty' = (hasty \/ ~page.loaded \/ \E q \in Presses : InFlight(q))
    /\ disturbed' = (disturbed \/ OthersWrite(p))
    /\ UNCHANGED <<entry, queue, last>>

\* SetIsFollowingUser: one Update after the other.
UpdateFollowers(p) ==
    /\ presses[p].stage = "followers"
    /\ entry' = [entry EXCEPT !["followers"] = presses[p].want]
    /\ last' = "following" /\ presses' = [presses EXCEPT ![p].stage = "following"]
    /\ UNCHANGED <<page, queue, disturbed, hasty, leftF>>

\* (Altered: the second Update is under the wrong user, and the entry stays.)
UpdateFollowing_Elsewhere(p) ==
    /\ presses[p].stage = "following"
    /\ presses' = [presses EXCEPT ![p].stage = "reading"]
    /\ UNCHANGED <<entry, page, queue, last, disturbed, hasty, leftF>>

UpdateFollowing(p) ==
    /\ presses[p].stage = "following"
    /\ entry' = [entry EXCEPT !["following"] = presses[p].want]
    /\ presses' = [presses EXCEPT ![p].stage = "reading"]
    /\ UNCHANGED <<page, queue, last, disturbed, hasty, leftF>>

\* Refresh of the page reads without writing.
Refresh(p) ==
    /\ NextPress(p) /\ leftF' = [leftF EXCEPT !.presses = @ - 1]
    /\ presses' = [presses EXCEPT ![p].stage = "reading"]
    /\ hasty' = (hasty \/ \E q \in Presses : InFlight(q))
    /\ UNCHANGED <<entry, page, queue, last, disturbed>>

\* GetFollowersIds: the answer replaces the list.
ReadFollowers(p) ==
    /\ presses[p].stage = "reading"
    /\ presses' = [presses EXCEPT ![p].stage = "read", ![p].read = entry["followers"]]
    /\ UNCHANGED <<entry, page, queue, last, disturbed, hasty, leftF>>

ShowFollowers(p) ==
    /\ presses[p].stage = "read"
    /\ page' = [follows |-> Listed(presses[p].read), loaded |-> TRUE]
    /\ presses' = [presses EXCEPT ![p].stage = "done"]
    /\ UNCHANGED <<entry, queue, last, disturbed, hasty, leftF>>

\* A request fails: the exception ends the process, and with it every press.
EndDesktop(p) ==
    /\ InFlight(p) /\ leftF.failures > 0 /\ leftF' = [leftF EXCEPT !.failures = @ - 1]
    /\ disturbed' = (disturbed \/ \E q \in Presses : presses[q].stage = "following")
    /\ presses' = [q \in Presses |-> [presses[q] EXCEPT !.stage = IF InFlight(q) THEN "done" ELSE @]]
    /\ page' = [follows |-> FALSE, loaded |-> FALSE]
    /\ UNCHANGED <<entry, queue, last, hasty>>

-----------------------------------------------------------------------------
(* The tablet *)

\* (Altered: what is absent is told from what is FALSE.)
TabletToggle_ByValue ==
    /\ leftF.tablet > 0 /\ leftF' = [leftF EXCEPT !.tablet = @ - 1] /\ queue = <<>>
    /\ LET want == IF entry["followers"] = "yes" THEN "no" ELSE "yes" IN
       queue' = <<[side |-> "followers", want |-> want], [side |-> "followings", want |-> want]>>
    /\ UNCHANGED <<entry, page, presses, last, disturbed, hasty>>

\* isFollower, then followUser or unfollowUser.  The SDK sends what it is asked in
\* order, so that the question is answered after earlier writes.
TabletToggle ==
    /\ leftF.tablet > 0 /\ leftF' = [leftF EXCEPT !.tablet = @ - 1] /\ queue = <<>>
    /\ LET want == IF entry["followers"] = "absent" THEN "yes" ELSE "absent" IN
       queue' = <<[side |-> "followers", want |-> want], [side |-> "followings", want |-> want]>>
    /\ UNCHANGED <<entry, page, presses, last, disturbed, hasty>>

TabletWrite ==
    /\ queue # <<>>
    /\ entry' = [entry EXCEPT ![Head(queue).side] = Head(queue).want]
    /\ queue' = Tail(queue) /\ last' = IF Head(queue).side = "followers" THEN "followings" ELSE last
    /\ UNCHANGED <<page, presses, disturbed, hasty, leftF>>

\* The writes of an application that is ended are lost.
EndTablet ==
    /\ queue # <<>> /\ leftF.failures > 0 /\ leftF' = [leftF EXCEPT !.failures = @ - 1]
    /\ queue' = <<>> /\ disturbed' = (disturbed \/ Len(queue) = 1)
    /\ UNCHANGED <<entry, page, presses, last, hasty>>

\* The step that writes the entry in following, which the functions count, is
\* UpdateFollowing; a tablet writes another list.
FollowsStep ==
    \/ \E p \in Presses :
          \/ Press(p) \/ UpdateFollowers(p) \/ Refresh(p)
          \/ ReadFollowers(p) \/ ShowFollowers(p) \/ EndDesktop(p)
    \/ TabletToggle \/ TabletWrite \/ EndTablet

-----------------------------------------------------------------------------
(* Properties *)

\* When nobody is writing, the list of the client that wrote the follower's entry last
\* says what that entry says, however the toggles of both clients interleave, unless two
\* presses wrote at the same time or a toggle was cut short between its two writes.  The
\* list of the other client keeps what it said: no client writes both.
FollowsAgree ==
    ~disturbed /\ queue = <<>> /\ (\A p \in Presses : ~Writing(p))
        => entry[last] = entry["followers"]

\* Who stopped following on the desktop cannot start again there: the entry says no,
\* but the page, once read, offers only to stop following; only a press before that
\* or during another run helps, or a tablet, which removes the entry.
CannotFollowAgain ==
    entry["followers"] = "no" /\ ~hasty =>
        \A p \in Presses : Writing(p) => presses[p].want = "no"
=============================================================================
