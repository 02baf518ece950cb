------------------------------ MODULE MCCommunity ------------------------------
(***************************************************************************)
(* Each scenario puts one part to work, or two that are coupled, so that   *)
(* the instances stay small.                                               *)
(***************************************************************************)
EXTENDS Community

MCKeys == 1..3
MCOpenings == 1..2
MCPresses == 1..3
MCMetrics == {"numberOfMessages", "numberOfFollowings", Counting}
MCDefinitions == {"messages1", "achievements1", "achievements2"}

\* The definitions of achievementsDefinitions.ts, cut down to three: the last one asks
\* for as many achievements as there are.
Few == [messages1 |-> [metric |-> "numberOfMessages", count |-> 1],
        achievements1 |-> [metric |-> Counting, count |-> 1],
        achievements2 |-> [metric |-> Counting, count |-> 3]]

Quiet == [sends |-> 0, tablet |-> 0, disconnects |-> 0, logouts |-> 0, opens |-> 0]
Unmoved == [repeats |-> 0, shares |-> 0, drops |-> 0, pages |-> 0]
NoFollows == [failures |-> 0, tablet |-> 0, presses |-> 0]

Base == [lists |-> "messages", messaging |-> Quiet, definitions |-> Few, achievements |-> Unmoved,
         entry |-> "absent", follows |-> NoFollows, author |-> FALSE, counted |-> FALSE]

\* A conversation that desktops and tablets write to, and the list of conversations.
Chat == [Base EXCEPT !.messaging = [sends |-> 1, tablet |-> 2, disconnects |-> 1, logouts |-> 0, opens |-> 1]]
ChatTwice == [Base EXCEPT !.messaging = [sends |-> 1, tablet |-> 0, disconnects |-> 1, logouts |-> 0, opens |-> 2]]
List == [Base EXCEPT !.lists = "conversations",
                     !.messaging = [sends |-> 1, tablet |-> 1, disconnects |-> 1, logouts |-> 1, opens |-> 1]]
ListTwice == [Base EXCEPT !.lists = "conversations",
                          !.messaging = [sends |-> 1, tablet |-> 0, disconnects |-> 0, logouts |-> 1, opens |-> 2]]

\* The functions that count and complete, one run twice or cut off; and messages of
\* the user from two clients, with the page open.
Counts == [Base EXCEPT !.author = TRUE, !.messaging.sends = 1,
                       !.achievements = [repeats |-> 1, shares |-> 1, drops |-> 1, pages |-> 0]]
Author == [Base EXCEPT !.author = TRUE, !.messaging.sends = 1, !.messaging.tablet = 1,
                       !.achievements.pages = 1]

\* A follower with both clients, one that stopped following, and what is counted.
Follower == [Base EXCEPT !.follows = [failures |-> 1, tablet |-> 2, presses |-> 2]]
Unfollower == [Base EXCEPT !.entry = "no", !.follows = [failures |-> 1, tablet |-> 1, presses |-> 3]]
CountedFollower == [Base EXCEPT !.counted = TRUE, !.follows.tablet = 1, !.follows.presses = 1,
                                !.achievements.repeats = 1]

MCScenarios == {Chat, ChatTwice, List, ListTwice, Counts, Author, Follower, Unfollower, CountedFollower}
=============================================================================
