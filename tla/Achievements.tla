----------------------------- MODULE Achievements -----------------------------
(***************************************************************************)
(* The achievements of one user (achievements.trigger.ts,                  *)
(* AchievementsService.cs).  Writes to the database start Cloud Functions: *)
(* some read a metric and set it one higher, and every write of a metric   *)
(* starts two that read all metrics and add what is reached to completed,  *)
(* whose own change is counted again.                                      *)
(***************************************************************************)
EXTENDS Naturals, Sequences, FiniteSets, Bags

CONSTANTS
    Metrics,      \* names of metrics
    Definitions   \* ids of achievements

Counting == "numberOfAchievements"

ASSUME CountingIsMetric == Counting \in Metrics

VARIABLES
    thresholds,  \* the scenario's achievementsDefinitions: a metric and a count for each id
    metrics,     \* achievements/<user>/metrics
    completed,   \* achievements/<user>/completed
    jobs,        \* function instances that run, a bag: each before or after its read
    shown,       \* the achievements page: closed, or what it shows as completed
    feed,        \* and the events on their way to it
    happened,    \* history: events that should have been counted, for each metric,
    inexact,     \* metrics of which two increments overlapped or one was dropped,
    repeated,    \* that a function was started twice for one event,
    skipped,     \* and that the last update failed since a metric changed
    leftA        \* how often each bounded thing may still happen

achievementsVars == <<thresholds, metrics, completed, jobs, shown, feed, happened, inexact, repeated, skipped, leftA>>

Closed == [page |-> "closed", done |-> {}]

AchievementsInit(t, bounds) ==
    /\ thresholds = t /\ leftA = bounds
    /\ metrics = [m \in Metrics |-> 0] /\ completed = {} /\ jobs = EmptyBag
    /\ shown = Closed /\ feed = <<>>
    /\ happened = [m \in Metrics |-> 0] /\ inexact = {} /\ repeated = FALSE /\ skipped = FALSE

Increment(m) == [does |-> "increment", metric |-> m]
IncrementTo(m, n) == [does |-> "set", metric |-> m, value |-> n]
Update == [does |-> "update"]
Complete(ids) == [does |-> "complete", ids |-> ids]

Some(job, n) == [j \in {job} |-> n]
Running(job) == BagIn(job, jobs)

\* The bag of jobs when one of them is replaced by others.
Replaced(job, others) == (jobs (-) Some(job, 1)) (+) others

Reached(values) ==
    {a \in DOMAIN thresholds : values[thresholds[a].metric] >= thresholds[a].count}

\* An event that a metric counts starts its function, or rarely twice.
Counted(m, base) ==
    /\ happened' = [happened EXCEPT ![m] = @ + 1]
    /\ \/ jobs' = base (+) Some(Increment(m), 1) /\ UNCHANGED <<repeated, leftA>>
       \/ /\ leftA.repeats > 0 /\ leftA' = [leftA EXCEPT !.repeats = @ - 1]
          /\ jobs' = base (+) Some(Increment(m), 2) /\ repeated' = TRUE

\* A message, drawing, follow or share, or on the desktop a call of Increment.
Count(m) ==
    /\ Counted(m, jobs)
    /\ UNCHANGED <<thresholds, metrics, completed, shown, feed, inexact, skipped>>

\* A share, from the editor of the desktop client.
Share ==
    \E m \in Metrics \ {Counting} :
        /\ leftA.shares > 0 /\ happened' = [happened EXCEPT ![m] = @ + 1]
        /\ jobs' = jobs (+) Some(Increment(m), 1) /\ leftA' = [leftA EXCEPT !.shares = @ - 1]
        /\ UNCHANGED <<thresholds, metrics, completed, shown, feed, inexact, repeated, skipped>>

\* (Altered: an event takes one off the metric.)
ReadMetric_Down(m) ==
    /\ Running(Increment(m))
    /\ jobs' = Replaced(Increment(m), Some(IncrementTo(m, metrics[m] - 1), 1))
    /\ UNCHANGED <<thresholds, metrics, completed, shown, feed, happened, inexact, repeated, leftA, skipped>>

\* increment: the value is read, and set one higher later.
ReadMetric(m) ==
    /\ Running(Increment(m))
    /\ jobs' = Replaced(Increment(m), Some(IncrementTo(m, metrics[m] + 1), 1))
    /\ UNCHANGED <<thresholds, metrics, completed, shown, feed, happened, inexact, repeated, leftA, skipped>>

\* (Altered: only the first increment of a metric starts an update.)
SetMetric_FirstOnly(job) ==
    /\ Running(job) /\ job.does = "set"
    /\ metrics' = [metrics EXCEPT ![job.metric] = job.value]
    /\ jobs' = Replaced(job, IF metrics[job.metric] # 0 THEN EmptyBag ELSE Some(Update, 2))
    /\ UNCHANGED <<thresholds, completed, shown, feed, happened, inexact, repeated, leftA, skipped>>

\* Both triggers of metrics start an update if the value changed.
SetMetric(job) ==
    /\ Running(job) /\ job.does = "set"
    /\ metrics' = [metrics EXCEPT ![job.metric] = job.value]
    /\ jobs' = Replaced(job, IF metrics' = metrics THEN EmptyBag ELSE Some(Update, 2))
    /\ inexact' = inexact \cup
         {m \in {job.metric} : \E other \in BagToSet(Replaced(job, EmptyBag)) :
                                    other.does = "set" /\ other.metric = m}
    /\ skipped' = (skipped /\ metrics' = metrics)
    /\ UNCHANGED <<thresholds, completed, shown, feed, happened, repeated, leftA>>

\* The function has returned without waiting for its increment and is frozen, or a
\* client's request fails.
Drop(job) ==
    /\ Running(job) /\ job.does \in {"increment", "set"} /\ leftA.drops > 0
    /\ jobs' = Replaced(job, EmptyBag) /\ inexact' = inexact \cup {job.metric}
    /\ leftA' = [leftA EXCEPT !.drops = @ - 1]
    /\ UNCHANGED <<thresholds, metrics, completed, shown, feed, happened, repeated, skipped>>

\* A request of updateAchievements fails, and the function is not run again; another
\* one that has yet to read makes up for it.
FailUpdate(job) ==
    /\ Running(job) /\ job.does \in {"update", "complete"} /\ leftA.drops > 0
    /\ jobs' = Replaced(job, EmptyBag) /\ skipped' = (skipped \/ ~BagIn(Update, jobs'))
    /\ leftA' = [leftA EXCEPT !.drops = @ - 1]
    /\ UNCHANGED <<thresholds, metrics, completed, shown, feed, happened, inexact, repeated>>

\* updateAchievements: all metrics are read, and what is reached is added later.
ReadMetrics ==
    /\ Running(Update)
    /\ jobs' = Replaced(Update, Some(Complete(Reached(metrics)), 1))
    /\ UNCHANGED <<thresholds, metrics, completed, shown, feed, happened, inexact, repeated, leftA, skipped>>

\* (Altered: every write counts, also one that completes nothing new.)
WriteCompleted_Always(job) ==
    /\ Running(job) /\ job.does = "complete"
    /\ completed' = completed \cup job.ids
    /\ feed' = IF shown.page = "live" /\ completed' # completed THEN Append(feed, completed') ELSE feed
    /\ jobs' = Replaced(job, Some(Increment(Counting), 1))
    /\ UNCHANGED <<thresholds, metrics, shown, happened, inexact, repeated, leftA, skipped>>

WriteCompleted(job) ==
    /\ Running(job) /\ job.does = "complete"
    /\ completed' = completed \cup job.ids
    /\ feed' = IF shown.page = "live" /\ completed' # completed THEN Append(feed, completed') ELSE feed
    /\ IF completed' = completed
       THEN jobs' = Replaced(job, EmptyBag) /\ UNCHANGED <<happened, repeated, leftA>>
       ELSE Counted(Counting, Replaced(job, EmptyBag))
    /\ UNCHANGED <<thresholds, metrics, shown, inexact, skipped>>

\* GetAchievements: the completed ones are read, and followed by a subscription.
ReadCompleted ==
    /\ leftA.pages > 0 /\ shown.page = "closed"
    /\ shown' = [page |-> "read", done |-> completed]
    /\ UNCHANGED <<thresholds, metrics, completed, jobs, feed, happened, inexact, repeated, leftA, skipped>>

Subscribe ==
    /\ shown.page = "read"
    /\ shown' = [shown EXCEPT !.page = "live"] /\ feed' = <<completed>>
    /\ UNCHANGED <<thresholds, metrics, completed, jobs, happened, inexact, repeated, leftA, skipped>>

ShowCompleted ==
    /\ feed # <<>>
    /\ shown' = [shown EXCEPT !.done = @ \cup Head(feed)] /\ feed' = Tail(feed)
    /\ UNCHANGED <<thresholds, metrics, completed, jobs, happened, inexact, repeated, leftA, skipped>>

Function ==
    \/ \E m \in Metrics : ReadMetric(m)
    \/ ReadMetrics
    \/ \E job \in BagToSet(jobs) : SetMetric(job) \/ WriteCompleted(job)
Viewer == Subscribe \/ ShowCompleted

AchievementsStep ==
    Function \/ Viewer \/ ReadCompleted \/ Share \/ \E job \in BagToSet(jobs) : Drop(job) \/ FailUpdate(job)

-----------------------------------------------------------------------------
(* Properties *)

\* At rest a metric is the number of events it counts, unless two of its increments
\* overlapped, one was dropped, or a function ran twice; it is never higher.
CountsAreExact ==
    \A m \in Metrics :
        /\ ~repeated => metrics[m] <= happened[m]
        /\ jobs = EmptyBag /\ ~repeated /\ m \notin inexact => metrics[m] = happened[m]

\* At rest every achievement that the metrics reach is completed, and shown by a page
\* that is open, although each update works with values that it read before, unless the
\* last update failed and no metric changed since; and none is completed without enough
\* events.
CompletionFollowsMetrics ==
    /\ jobs = EmptyBag /\ ~skipped => Reached(metrics) \subseteq completed
    /\ jobs = EmptyBag /\ shown.page = "live" /\ feed = <<>> => shown.done = completed
    /\ ~repeated => completed \subseteq Reached(happened)

\* An achievement for as many achievements as there are (achievements-2: 17 of 17) is
\* never completed: it would have to count itself first.
OverachieverIsOutOfReach ==
    ~repeated => \A a \in completed :
        thresholds[a] # [metric |-> Counting, count |-> Cardinality(DOMAIN thresholds)]
=============================================================================
