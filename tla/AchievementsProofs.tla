--------------------------- MODULE AchievementsProofs ---------------------------
(***************************************************************************)
(* Lemmas about the achievements of a user: the bag of jobs, and an        *)
(* inductive invariant of the steps of Achievements, for any definitions   *)
(* and metrics.  CommunityProofs draws the conclusions.                    *)
(***************************************************************************)
EXTENDS Achievements, FiniteSetTheorems, SequenceTheorems, TLAPS

-----------------------------------------------------------------------------
(* How many copies of a job a bag holds *)

Copies(job, B) == IF BagIn(job, B) THEN B[job] ELSE 0

LEMMA CopiesType ==
    ASSUME NEW B, IsABag(B), NEW job
    PROVE  Copies(job, B) \in Nat /\ (BagIn(job, B) <=> Copies(job, B) > 0)
BY DEF IsABag, Copies, BagIn, BagToSet

LEMMA CopiesEmpty == IsABag(EmptyBag) /\ \A job : Copies(job, EmptyBag) = 0
BY DEF IsABag, Copies, BagIn, BagToSet, EmptyBag, SetToBag

LEMMA CopiesSome ==
    ASSUME NEW job, NEW n \in Nat \ {0}
    PROVE  IsABag(Some(job, n)) /\ \A other : Copies(other, Some(job, n)) = IF other = job THEN n ELSE 0
BY DEF IsABag, Copies, BagIn, BagToSet, Some

LEMMA CopiesUnion ==
    ASSUME NEW A, NEW B, IsABag(A), IsABag(B)
    PROVE  IsABag(A (+) B) /\ \A job : Copies(job, A (+) B) = Copies(job, A) + Copies(job, B)
BY DEF IsABag, Copies, BagIn, BagToSet, (+)

LEMMA CopiesLess ==
    ASSUME NEW B, NEW job, IsABag(B), BagIn(job, B)
    PROVE  /\ IsABag(B (-) Some(job, 1))
           /\ \A other : Copies(other, B (-) Some(job, 1)) =
                            IF other = job THEN Copies(job, B) - 1 ELSE Copies(other, B)
BY DEF IsABag, Copies, BagIn, BagToSet, Some, (-)

LEMMA CopiesReplaced ==
    ASSUME NEW job, NEW others, IsABag(jobs), IsABag(others), Running(job)
    PROVE  /\ IsABag(Replaced(job, others))
           /\ \A other : Copies(other, Replaced(job, others)) =
                            (IF other = job THEN Copies(job, jobs) - 1 ELSE Copies(other, jobs))
                                + Copies(other, others)
           /\ BagToSet(Replaced(job, others)) \subseteq BagToSet(jobs) \cup BagToSet(others)
<1>1. IsABag(jobs (-) Some(job, 1)) /\ BagToSet(jobs (-) Some(job, 1)) \subseteq BagToSet(jobs)
    BY CopiesLess DEF Running, BagToSet, (-)
<1>2. BagToSet(Replaced(job, others)) \subseteq BagToSet(jobs) \cup BagToSet(others)
    BY <1>1 DEF Replaced, BagToSet, (+)
<1> QED
    BY <1>2, CopiesLess, CopiesUnion DEF Replaced, Running

-----------------------------------------------------------------------------
(* The invariant *)

AStep == AchievementsStep \/ \E m \in Metrics \ {Counting} : Count(m)

AllJobs ==
    [does : {"increment"}, metric : Metrics] \cup [does : {"set"}, metric : Metrics, value : Nat]
        \cup [does : {"update"}] \cup [does : {"complete"}, ids : SUBSET DOMAIN thresholds]

JobTypes ==
    /\ IsFiniteSet(DOMAIN thresholds)
    /\ thresholds \in [DOMAIN thresholds -> [metric : Metrics, count : Nat \ {0}]]
    /\ metrics \in [Metrics -> Nat] /\ happened \in [Metrics -> Nat]
    /\ completed \subseteq DOMAIN thresholds
    /\ IsABag(jobs) /\ BagToSet(jobs) \subseteq AllJobs
    /\ repeated \in BOOLEAN /\ skipped \in BOOLEAN

Sets(m) == {job \in BagToSet(jobs) : job.does = "set" /\ job.metric = m}
Completes == {job \in BagToSet(jobs) : job.does = "complete"}

\* What is set and what will be set stays below what happened.
NeverTooHigh ==
    ~repeated => \A m \in Metrics :
        /\ metrics[m] + Copies(Increment(m), jobs) <= happened[m]
        /\ \A job \in Sets(m) : job.value + Copies(Increment(m), jobs) <= happened[m]

\* An increment that nothing overlapped is on its way in one of two forms.
Accounted ==
    ~repeated => \A m \in Metrics \ inexact :
        /\ \A job \in Sets(m) : job.value = metrics[m] + 1
        /\ metrics[m] + Copies(Increment(m), jobs) + Copies(IncrementTo(m, metrics[m] + 1), jobs) = happened[m]

\* What the metrics reach will be completed: an update has yet to read them, or has.
WillComplete ==
    ~skipped => \A a \in Reached(metrics) \ completed : Running(Update) \/ \E job \in Completes : a \in job.ids

OnlyEarned ==
    ~repeated => /\ completed \subseteq Reached(happened)
                 /\ \A job \in Completes : job.ids \subseteq Reached(happened)

Overachieving(a) == thresholds[a] = [metric |-> Counting, count |-> Cardinality(DOMAIN thresholds)]

\* Every count of an achievement has a completed one of its own, so that the last one
\* would have to be among those that it counts.
NotItself ==
    ~repeated => /\ happened[Counting] <= Cardinality(completed)
                 /\ \A a \in completed : ~Overachieving(a)
                 /\ \A job \in Completes : \A a \in job.ids : ~Overachieving(a)

\* The page has what the last event of its feed says, or will have.
ShownTypes ==
    /\ shown \in [page : {"closed", "read", "live"}, done : SUBSET completed]
    /\ feed \in Seq(SUBSET completed)
    /\ shown.page = "live" /\ feed = <<>> => shown.done = completed
    /\ shown.page = "live" /\ feed # <<>> => feed[Len(feed)] = completed
    /\ shown.page # "live" => feed = <<>>

AchievementsInv ==
    JobTypes /\ NeverTooHigh /\ Accounted /\ WillComplete /\ OnlyEarned /\ NotItself /\ ShownTypes

-----------------------------------------------------------------------------
(* The bag after a step *)

LEMMA JobsReplaced ==
    ASSUME NEW job, NEW others, IsABag(jobs), IsABag(others), Running(job), jobs' = Replaced(job, others)
    PROVE  /\ IsABag(jobs') /\ Copies(job, jobs) > 0
           /\ \A k : Copies(k, jobs') = (IF k = job THEN Copies(k, jobs) - 1 ELSE Copies(k, jobs)) + Copies(k, others)
           /\ BagToSet(jobs') \subseteq BagToSet(jobs) \cup BagToSet(others)
           /\ \A k : /\ Copies(k, jobs) \in Nat /\ (BagIn(k, jobs) <=> Copies(k, jobs) > 0)
                     /\ Copies(k, jobs') \in Nat /\ (BagIn(k, jobs') <=> Copies(k, jobs') > 0)
                     /\ Copies(k, others) \in Nat
<1>1. IsABag(jobs')
    BY CopiesReplaced
<1>2. \A k : /\ Copies(k, jobs) \in Nat /\ (BagIn(k, jobs) <=> Copies(k, jobs) > 0)
            /\ Copies(k, jobs') \in Nat /\ (BagIn(k, jobs') <=> Copies(k, jobs') > 0)
            /\ Copies(k, others) \in Nat
    BY <1>1, CopiesType
<1>3. \A k : Copies(k, jobs') = (IF k = job THEN Copies(job, jobs) - 1 ELSE Copies(k, jobs)) + Copies(k, others)
    BY CopiesReplaced
<1>4. BagToSet(jobs') \subseteq BagToSet(jobs) \cup BagToSet(others)
    BY CopiesReplaced
<1> QED
    BY <1>1, <1>2, <1>3, <1>4 DEF Running

LEMMA SomeIn == ASSUME NEW job, NEW n PROVE BagToSet(Some(job, n)) = {job}
BY DEF Some, BagToSet

LEMMA EmptyIn == BagToSet(EmptyBag) = {}
BY DEF EmptyBag, SetToBag, BagToSet

\* A job that is running is of one of the four kinds.
LEMMA JobKinds ==
    ASSUME JobTypes, NEW job \in BagToSet(jobs)
    PROVE  /\ job.does = "increment" => job.metric \in Metrics /\ job = Increment(job.metric)
           /\ job.does = "set" => /\ job.metric \in Metrics /\ job.value \in Nat
                                  /\ job = IncrementTo(job.metric, job.value)
           /\ job.does = "complete" => job.ids \subseteq DOMAIN thresholds /\ job = Complete(job.ids)
BY DEF JobTypes, AllJobs, Increment, IncrementTo, Complete

LEMMA JobsDiffer ==
    /\ \A m, k : Increment(m) = Increment(k) => m = k
    /\ \A m, k, n : Increment(m) # IncrementTo(k, n)
    /\ \A m, n, k, o : IncrementTo(m, n) = IncrementTo(k, o) => m = k /\ n = o
    /\ \A m, ids : Increment(m) # Update /\ Increment(m) # Complete(ids)
    /\ \A m, n, ids : IncrementTo(m, n) # Update /\ IncrementTo(m, n) # Complete(ids)
    /\ \A ids : Complete(ids) # Update
    /\ \A m : Increment(m).does = "increment"
    /\ \A m, n : IncrementTo(m, n).does = "set" /\ IncrementTo(m, n).metric = m /\ IncrementTo(m, n).value = n
    /\ Update.does = "update"
    /\ \A ids : Complete(ids).does = "complete" /\ Complete(ids).ids = ids
BY DEF Increment, IncrementTo, Update, Complete

-----------------------------------------------------------------------------
(* The steps of the functions *)

\* The value that is read is set later, unless another increment comes first.
LEMMA ReadMetricStep ==
    ASSUME AchievementsInv, NEW m \in Metrics, ReadMetric(m)
    PROVE  AchievementsInv'
<1> DEFINE new == IncrementTo(m, metrics[m] + 1)
<1> USE DEF AchievementsInv
<1>1. JobTypes /\ new \in AllJobs
    BY DEF JobTypes, AllJobs, IncrementTo
<1>2. UNCHANGED <<thresholds, metrics, completed, shown, feed, happened, inexact, repeated, skipped>>
    BY DEF ReadMetric
<1>3. /\ IsABag(jobs) /\ IsABag(Some(new, 1)) /\ Running(Increment(m))
      /\ jobs' = Replaced(Increment(m), Some(new, 1))
    BY <1>1, CopiesSome DEF ReadMetric, JobTypes
<1>4. \A job : Copies(job, Some(new, 1)) = IF job = new THEN 1 ELSE 0
    BY CopiesSome
<1>5. BagToSet(jobs') \subseteq BagToSet(jobs) \cup {new} /\ IsABag(jobs')
    BY <1>3, JobsReplaced, SomeIn
<1>6. \A job : /\ Copies(job, jobs) \in Nat /\ (BagIn(job, jobs) <=> Copies(job, jobs) > 0)
              /\ Copies(job, jobs') \in Nat /\ (BagIn(job, jobs') <=> Copies(job, jobs') > 0)
    BY <1>3, JobsReplaced
<1>7. ASSUME NEW job, job # Increment(m), job # new PROVE Copies(job, jobs') = Copies(job, jobs)
    <2>1. Copies(job, jobs') = Copies(job, jobs) + Copies(job, Some(new, 1))
        BY <1>3, <1>7, JobsReplaced
    <2>2. Copies(job, Some(new, 1)) = 0
        BY <1>4, <1>7
    <2> QED
        BY <1>6, <2>1, <2>2
<1>8. /\ Copies(Increment(m), jobs) > 0 /\ Copies(Increment(m), jobs') = Copies(Increment(m), jobs) - 1
      /\ Copies(new, jobs') = Copies(new, jobs) + 1
    BY <1>3, <1>4, JobsReplaced, JobsDiffer
<1>9. JobTypes'
    BY <1>1, <1>2, <1>5 DEF JobTypes, AllJobs
<1>10. \A k \in Metrics : Sets(k)' \subseteq Sets(k) \cup (IF k = m THEN {new} ELSE {})
    BY <1>5, JobsDiffer DEF Sets
<1>11. new.value = metrics[m] + 1
    BY JobsDiffer
<1>12. \A k \in Metrics : k # m => Copies(Increment(k), jobs') = Copies(Increment(k), jobs)
    <2>1. \A k \in Metrics : k # m => Increment(k) # Increment(m) /\ Increment(k) # new
        BY DEF Increment, IncrementTo
    <2> HIDE DEF new
    <2> QED
        BY <1>7, <2>1
<1>13. NeverTooHigh'
    BY <1>1, <1>2, <1>6, <1>8, <1>10, <1>11, <1>12 DEF NeverTooHigh, JobTypes, Sets, AllJobs
<1>14. \A k \in Metrics :
        k # m => Copies(IncrementTo(k, metrics[k] + 1), jobs') = Copies(IncrementTo(k, metrics[k] + 1), jobs)
    <2>1. \A k \in Metrics : k # m =>
                IncrementTo(k, metrics[k] + 1) # Increment(m) /\ IncrementTo(k, metrics[k] + 1) # new
        BY DEF Increment, IncrementTo
    <2> HIDE DEF new
    <2> QED
        BY <1>7, <2>1
<1>15. Accounted'
    BY <1>1, <1>2, <1>6, <1>8, <1>10, <1>11, <1>12, <1>14 DEF Accounted, JobTypes
<1>16. Completes' = Completes /\ (Running(Update) => Running(Update)')
    <2>1. \A job : job.does = "complete" \/ job = Update => (BagIn(job, jobs') <=> BagIn(job, jobs))
        <3>1. \A job : job.does = "complete" \/ job = Update => job # Increment(m) /\ job # new
            BY DEF Increment, IncrementTo, Update
        <3> HIDE DEF new
        <3> QED
            BY <1>7, <1>6, <3>1
    <2> QED
        BY <2>1 DEF Completes, Running, BagIn
<1>17. WillComplete' /\ OnlyEarned' /\ NotItself' /\ ShownTypes'
    BY <1>2, <1>16 DEF WillComplete, OnlyEarned, NotItself, Reached, Overachieving, ShownTypes
<1> QED
    BY <1>9, <1>13, <1>15, <1>17

\* A metric that changes starts an update; with another increment on its way it is inexact.
LEMMA SetMetricStep ==
    ASSUME AchievementsInv, NEW job \in BagToSet(jobs), SetMetric(job)
    PROVE  AchievementsInv'
<1> DEFINE m == job.metric
           rest == Replaced(job, EmptyBag)
           others == IF metrics' = metrics THEN EmptyBag ELSE Some(Update, 2)
<1> USE DEF AchievementsInv
<1>1. /\ JobTypes /\ m \in Metrics /\ job.value \in Nat /\ job = IncrementTo(m, job.value)
      /\ job \in Sets(m) /\ metrics' = [metrics EXCEPT ![m] = job.value]
    BY JobKinds DEF SetMetric, Sets
<1>2. UNCHANGED <<thresholds, completed, shown, feed, happened, repeated>> /\ skipped' = (skipped /\ metrics' = metrics)
    BY DEF SetMetric
<1>3. IsABag(jobs) /\ IsABag(others) /\ Running(job) /\ jobs' = Replaced(job, others)
    BY <1>1, CopiesSome, CopiesEmpty DEF SetMetric, JobTypes
<1>4. BagToSet(others) \subseteq {Update} /\ \A k : k # Update => Copies(k, others) = 0
    BY SomeIn, EmptyIn, CopiesSome, CopiesEmpty
<1>5. metrics' # metrics => Copies(Update, others) = 2
    BY CopiesSome
<1> HIDE DEF others
<1>6. /\ IsABag(jobs') /\ BagToSet(jobs') \subseteq BagToSet(jobs) \cup {Update}
      /\ \A k : /\ Copies(k, jobs) \in Nat /\ (BagIn(k, jobs) <=> Copies(k, jobs) > 0)
                /\ Copies(k, jobs') \in Nat /\ (BagIn(k, jobs') <=> Copies(k, jobs') > 0)
                /\ k # job /\ k # Update => Copies(k, jobs') = Copies(k, jobs)
    BY <1>3, <1>4, JobsReplaced
<1>7. job # Update /\ Copies(job, jobs) > 0 /\ Copies(job, jobs') = Copies(job, jobs) - 1
    BY <1>1, <1>3, <1>4, JobsReplaced, JobsDiffer
<1>8. Copies(Update, jobs') >= Copies(Update, jobs) /\ (metrics' # metrics => Copies(Update, jobs') > 0)
    BY <1>3, <1>5, <1>7, JobsReplaced
<1>9. JobTypes'
    BY <1>1, <1>2, <1>6 DEF JobTypes, AllJobs, Update
<1>10. \A k \in Metrics : Sets(k)' \subseteq Sets(k) /\ Copies(Increment(k), jobs') = Copies(Increment(k), jobs)
    BY <1>1, <1>6, JobsDiffer DEF Sets
<1>11. NeverTooHigh'
    BY <1>1, <1>2, <1>6, <1>10 DEF NeverTooHigh, JobTypes, Sets, AllJobs
<1>12. inexact \subseteq inexact' /\ (m \notin inexact' => Sets(m)' = {} /\ Copies(job, jobs) = 1)
    <2>1. \A k : Copies(k, rest) = IF k = job THEN Copies(k, jobs) - 1 ELSE Copies(k, jobs)
        BY <1>3, <1>6, CopiesReplaced, CopiesEmpty
    <2>2. IsABag(rest)
        BY <1>3, CopiesReplaced, CopiesEmpty
    <2>3. \A k : BagIn(k, rest) <=> Copies(k, rest) > 0
        BY <2>2, CopiesType
    <2>4. inexact' = inexact \cup {k \in {m} : \E other \in BagToSet(rest) : other.does = "set" /\ other.metric = k}
        BY DEF SetMetric
    <2>5. m \notin inexact' => ~ \E other \in BagToSet(rest) : other.does = "set" /\ other.metric = m
        BY <2>4
    <2>6. \A k : k # Update => Copies(k, jobs') = Copies(k, rest)
        BY <1>6, <1>7, <2>1
    <2>7. Sets(m)' \subseteq {other \in BagToSet(rest) : other.does = "set" /\ other.metric = m}
        BY <1>6, <2>3, <2>6, JobsDiffer DEF Sets, BagIn
    <2>8. Copies(job, jobs) # 1 => job \in BagToSet(rest)
        BY <1>6, <1>7, <2>1, <2>3 DEF BagIn
    <2> QED
        BY <1>1, <2>4, <2>5, <2>7, <2>8 DEF Sets
<1>13. Accounted'
    <2> SUFFICES ASSUME ~repeated, NEW k \in Metrics, k \notin inexact'
                 PROVE  /\ \A other \in Sets(k)' : other.value = metrics'[k] + 1
                        /\ metrics'[k] + Copies(Increment(k), jobs') + Copies(IncrementTo(k, metrics'[k] + 1), jobs')
                                = happened[k]
        BY <1>2 DEF Accounted
    <2>1. /\ \A other \in Sets(k) : other.value = metrics[k] + 1
          /\ metrics[k] + Copies(Increment(k), jobs) + Copies(IncrementTo(k, metrics[k] + 1), jobs) = happened[k]
        BY <1>12 DEF Accounted
    <2>2. CASE k # m
        <3>1. metrics'[k] = metrics[k]
            BY <1>1, <2>2 DEF JobTypes
        <3>2. Copies(IncrementTo(k, metrics[k] + 1), jobs') = Copies(IncrementTo(k, metrics[k] + 1), jobs)
            BY <1>1, <1>6, <2>2, JobsDiffer
        <3> QED
            BY <1>10, <2>1, <3>1, <3>2
    <2>3. CASE k = m
        <3>1. job.value = metrics[m] + 1 /\ metrics'[m] = metrics[m] + 1 /\ metrics[m] \in Nat
            BY <1>1, <2>1, <2>3 DEF JobTypes
        <3>2. Sets(m)' = {} /\ Copies(job, jobs) = 1
            BY <1>12, <2>3
        <3>3. Copies(IncrementTo(m, metrics'[m] + 1), jobs') = 0
            BY <1>6, <3>2, JobsDiffer DEF Sets, BagIn
        <3>4. job = IncrementTo(m, metrics[m] + 1)
            BY <1>1, <3>1
        <3>5. metrics[m] + Copies(Increment(m), jobs) + 1 = happened[m]
            BY <2>1, <2>3, <3>2, <3>4
        <3> QED
            BY <1>6, <1>10, <2>3, <3>1, <3>2, <3>3, <3>5
    <2> QED
        BY <2>2, <2>3
<1>14. Completes' = Completes
    <2>1. \A k : k.does = "complete" => (BagIn(k, jobs') <=> BagIn(k, jobs))
        BY <1>1, <1>6, JobsDiffer
    <2> QED
        BY <2>1 DEF Completes, BagIn
<1>15. WillComplete'
    <2>1. CASE metrics' # metrics
        <3>1. BagIn(Update, jobs')
            BY <1>6, <1>8, <2>1
        <3> QED
            BY <3>1 DEF WillComplete, Running
    <2>2. CASE metrics' = metrics
        <3>1. Running(Update) => Running(Update)'
            BY <1>6, <1>8 DEF Running
        <3>2. Reached(metrics)' = Reached(metrics) /\ (~skipped' => ~skipped)
            BY <1>2, <2>2 DEF Reached
        <3> QED
            BY <1>2, <1>14, <3>1, <3>2 DEF WillComplete
    <2> QED
        BY <2>1, <2>2
<1>16. OnlyEarned' /\ NotItself' /\ ShownTypes'
    BY <1>2, <1>14 DEF OnlyEarned, NotItself, Reached, Overachieving, ShownTypes
<1> QED
    BY <1>9, <1>11, <1>13, <1>15, <1>16

LEMMA DropStep ==
    ASSUME AchievementsInv, NEW job \in BagToSet(jobs), Drop(job)
    PROVE  AchievementsInv'
<1> USE DEF AchievementsInv
<1>1. /\ UNCHANGED <<thresholds, metrics, completed, shown, feed, happened, repeated, skipped>>
      /\ inexact' = inexact \cup {job.metric} /\ job.does \in {"increment", "set"}
    BY DEF Drop
<1>2. IsABag(jobs) /\ IsABag(EmptyBag) /\ Running(job) /\ jobs' = Replaced(job, EmptyBag)
    BY CopiesEmpty DEF Drop, JobTypes
<1>3. /\ IsABag(jobs') /\ BagToSet(jobs') \subseteq BagToSet(jobs)
      /\ \A k : /\ Copies(k, jobs) \in Nat /\ (BagIn(k, jobs) <=> Copies(k, jobs) > 0)
                /\ Copies(k, jobs') \in Nat /\ (BagIn(k, jobs') <=> Copies(k, jobs') > 0)
    BY <1>2, JobsReplaced, EmptyIn
<1>4. \A k : Copies(k, jobs') = IF k = job THEN Copies(k, jobs) - 1 ELSE Copies(k, jobs)
    BY <1>2, <1>3, JobsReplaced, CopiesEmpty
<1>5. JobTypes'
    BY <1>1, <1>3 DEF JobTypes, AllJobs
<1>6. \A k \in Metrics : Sets(k)' \subseteq Sets(k) /\ Copies(Increment(k), jobs') <= Copies(Increment(k), jobs)
    BY <1>3, <1>4 DEF Sets
<1>7. NeverTooHigh'
    BY <1>1, <1>3, <1>6 DEF NeverTooHigh, JobTypes, Sets, AllJobs
<1>8. \A k \in Metrics : k # job.metric =>
          /\ Copies(Increment(k), jobs') = Copies(Increment(k), jobs)
          /\ Copies(IncrementTo(k, metrics[k] + 1), jobs') = Copies(IncrementTo(k, metrics[k] + 1), jobs)
    <2>1. \A k \in Metrics : k # job.metric => Increment(k) # job /\ IncrementTo(k, metrics[k] + 1) # job
        BY DEF Increment, IncrementTo
    <2> QED
        BY <1>4, <2>1
<1>9. Accounted'
    BY <1>1, <1>6, <1>8 DEF Accounted
<1>10. Completes' = Completes /\ (Running(Update) => Running(Update)')
    <2>1. \A k : k.does = "complete" \/ k = Update => k # job
        BY <1>1 DEF Update
    <2>2. \A k : k.does = "complete" \/ k = Update => (BagIn(k, jobs') <=> BagIn(k, jobs))
        BY <1>3, <1>4, <2>1
    <2> QED
        BY <2>2 DEF Completes, Running, BagIn
<1>11. WillComplete' /\ OnlyEarned' /\ NotItself' /\ ShownTypes'
    BY <1>1, <1>10 DEF WillComplete, OnlyEarned, NotItself, Reached, Overachieving, ShownTypes
<1> QED
    BY <1>5, <1>7, <1>9, <1>11

\* An update that fails takes no increment with it; whether another one has yet to read
\* is what is remembered.
LEMMA FailUpdateStep ==
    ASSUME AchievementsInv, NEW job \in BagToSet(jobs), FailUpdate(job)
    PROVE  AchievementsInv'
<1> USE DEF AchievementsInv
<1>1. /\ UNCHANGED <<thresholds, metrics, completed, shown, feed, happened, inexact, repeated>>
      /\ job.does \in {"update", "complete"} /\ skipped' = (skipped \/ ~BagIn(Update, jobs'))
    BY DEF FailUpdate
<1>2. IsABag(jobs) /\ IsABag(EmptyBag) /\ Running(job) /\ jobs' = Replaced(job, EmptyBag)
    BY CopiesEmpty DEF FailUpdate, JobTypes
<1>3. /\ IsABag(jobs') /\ BagToSet(jobs') \subseteq BagToSet(jobs)
      /\ \A k : /\ Copies(k, jobs) \in Nat /\ (BagIn(k, jobs) <=> Copies(k, jobs) > 0)
                /\ Copies(k, jobs') \in Nat /\ (BagIn(k, jobs') <=> Copies(k, jobs') > 0)
    BY <1>2, JobsReplaced, EmptyIn
<1>4. \A k : Copies(k, jobs') = IF k = job THEN Copies(k, jobs) - 1 ELSE Copies(k, jobs)
    BY <1>2, <1>3, JobsReplaced, CopiesEmpty
<1>5. JobTypes'
    BY <1>1, <1>3 DEF JobTypes, AllJobs
<1>6. \A m, n : /\ Copies(Increment(m), jobs') = Copies(Increment(m), jobs)
                /\ Copies(IncrementTo(m, n), jobs') = Copies(IncrementTo(m, n), jobs)
    <2>1. \A m, n : Increment(m) # job /\ IncrementTo(m, n) # job
        BY <1>1 DEF Increment, IncrementTo
    <2> QED
        BY <1>4, <2>1
<1>7. /\ \A m \in Metrics : Sets(m)' \subseteq Sets(m)
      /\ Completes' \subseteq Completes
    BY <1>3 DEF Sets, Completes
<1>8. NeverTooHigh' /\ Accounted'
    BY <1>1, <1>6, <1>7 DEF NeverTooHigh, Accounted
<1>9. WillComplete'
    BY <1>1 DEF WillComplete, Running
<1>10. OnlyEarned' /\ NotItself' /\ ShownTypes'
    BY <1>1, <1>7 DEF OnlyEarned, NotItself, Reached, Overachieving, ShownTypes
<1> QED
    BY <1>5, <1>8, <1>9, <1>10

\* All that the metrics reach is in the new job.  An achievement for all achievements is
\* not: the metric would be as high as they are many, so that all were completed.
LEMMA ReadMetricsStep ==
    ASSUME AchievementsInv, ReadMetrics
    PROVE  AchievementsInv'
<1> DEFINE new == Complete(Reached(metrics))
<1> USE DEF AchievementsInv
<1>1. UNCHANGED <<thresholds, metrics, completed, shown, feed, happened, inexact, repeated, skipped>>
    BY DEF ReadMetrics
<1>2. IsABag(jobs) /\ IsABag(Some(new, 1)) /\ Running(Update) /\ jobs' = Replaced(Update, Some(new, 1))
    BY CopiesSome DEF ReadMetrics, JobTypes
<1>3. \A k : Copies(k, Some(new, 1)) = IF k = new THEN 1 ELSE 0
    BY CopiesSome
<1>4. /\ IsABag(jobs') /\ BagToSet(jobs') \subseteq BagToSet(jobs) \cup {new}
      /\ \A k : /\ Copies(k, jobs) \in Nat /\ (BagIn(k, jobs) <=> Copies(k, jobs) > 0)
                /\ Copies(k, jobs') \in Nat /\ (BagIn(k, jobs') <=> Copies(k, jobs') > 0)
    BY <1>2, JobsReplaced, SomeIn
<1>5. new.does = "complete" /\ new.ids = Reached(metrics) /\ new # Update
    BY DEF Complete, Update
<1>6. Reached(metrics) \subseteq DOMAIN thresholds
    BY DEF Reached
<1>7. JobTypes'
    BY <1>1, <1>4, <1>6 DEF JobTypes, AllJobs, Complete
<1>8. ASSUME NEW k, k # Update, k # new PROVE Copies(k, jobs') = Copies(k, jobs)
    <2>1. Copies(k, jobs') = Copies(k, jobs) + Copies(k, Some(new, 1))
        BY <1>2, <1>8, JobsReplaced
    <2>2. Copies(k, Some(new, 1)) = 0
        BY <1>3, <1>8
    <2> QED
        BY <1>4, <2>1, <2>2
<1>9. \A m : Copies(Increment(m), jobs') = Copies(Increment(m), jobs)
    <2>1. \A m : Increment(m) # Update /\ Increment(m) # new
        BY DEF Increment, Update, Complete
    <2> QED
        BY <1>8, <2>1
<1>10. \A m, n : Copies(IncrementTo(m, n), jobs') = Copies(IncrementTo(m, n), jobs)
    <2>1. \A m, n : IncrementTo(m, n) # Update /\ IncrementTo(m, n) # new
        BY DEF IncrementTo, Update, Complete
    <2> QED
        BY <1>8, <2>1
<1>11. \A m \in Metrics : Sets(m)' \subseteq Sets(m)
    BY <1>4, <1>5 DEF Sets
<1>12. NeverTooHigh' /\ Accounted'
    BY <1>1, <1>9, <1>10, <1>11 DEF NeverTooHigh, Accounted
<1>13. new \in Completes' /\ Completes' \subseteq Completes \cup {new}
    <2>1. Copies(new, jobs') = Copies(new, jobs) + 1
        BY <1>2, <1>3, <1>5, JobsReplaced
    <2>2. new \in BagToSet(jobs')
        BY <1>4, <2>1 DEF BagIn
    <2> QED
        BY <1>4, <1>5, <2>2 DEF Completes
<1>14. WillComplete'
    BY <1>1, <1>5, <1>13 DEF WillComplete, Reached
<1>15. ~repeated => \A m \in Metrics : metrics[m] <= happened[m] /\ metrics[m] \in Nat /\ happened[m] \in Nat
    BY <1>4 DEF NeverTooHigh, JobTypes
<1>16. OnlyEarned'
    <2>1. ~repeated => Reached(metrics) \subseteq Reached(happened)
        BY <1>15 DEF Reached, JobTypes
    <2> QED
        BY <1>1, <1>5, <1>13, <2>1 DEF OnlyEarned, Reached
<1>17. NotItself'
    <2>1. ASSUME ~repeated, NEW a \in Reached(metrics), Overachieving(a) PROVE FALSE
        <3>1. thresholds[a].metric = Counting /\ thresholds[a].count = Cardinality(DOMAIN thresholds)
            BY <2>1 DEF Overachieving
        <3>2. metrics[Counting] >= Cardinality(DOMAIN thresholds)
            BY <3>1 DEF Reached
        <3>3. happened[Counting] <= Cardinality(completed)
            BY <2>1 DEF NotItself
        <3>4. /\ Cardinality(completed) \in Nat /\ Cardinality(DOMAIN thresholds) \in Nat
              /\ Cardinality(completed) <= Cardinality(DOMAIN thresholds)
              /\ Cardinality(completed) = Cardinality(DOMAIN thresholds) => completed = DOMAIN thresholds
            BY FS_CardinalityType, FS_Subset DEF JobTypes
        <3>5. completed = DOMAIN thresholds
            BY <1>15, <2>1, <3>2, <3>3, <3>4, CountingIsMetric
        <3> QED
            BY <2>1, <3>5 DEF NotItself, Reached
    <2> QED
        BY <1>1, <1>5, <1>13, <2>1 DEF NotItself, Overachieving
<1>18. ShownTypes'
    BY <1>1 DEF ShownTypes
<1> QED
    BY <1>7, <1>12, <1>14, <1>16, <1>17, <1>18

\* An event makes its metric's function run, once or twice, next to a bag that has
\* perhaps lost a completing job.
LEMMA CountedStep ==
    ASSUME AchievementsInv, NEW m \in Metrics, NEW base, NEW n \in {1, 2}, IsABag(base),
           BagToSet(base) \subseteq BagToSet(jobs),
           \A k : k.does # "complete" => Copies(k, base) = Copies(k, jobs),
           jobs' = base (+) Some(Increment(m), n), (n = 1 /\ repeated' = repeated) \/ repeated' = TRUE,
           happened' = [happened EXCEPT ![m] = @ + 1], UNCHANGED <<thresholds, metrics, inexact, skipped>>
    PROVE  /\ IsABag(jobs') /\ BagToSet(jobs') \subseteq AllJobs /\ happened' \in [Metrics -> Nat]
           /\ repeated' \in BOOLEAN /\ (~repeated' => ~repeated)
           /\ NeverTooHigh' /\ Accounted' /\ Reached(happened) \subseteq Reached(happened)'
           /\ Completes' \subseteq Completes /\ (Running(Update) => Running(Update)')
           /\ \A k \in Completes : BagIn(k, base) => k \in Completes'
<1> DEFINE new == Increment(m)
<1> USE DEF AchievementsInv
<1>1. /\ JobTypes /\ new \in AllJobs /\ new.does = "increment"
      /\ \A k \in Metrics : happened[k] \in Nat /\ metrics[k] \in Nat
    BY DEF JobTypes, AllJobs, Increment
<1>2. IsABag(Some(new, n)) /\ \A k : Copies(k, Some(new, n)) = IF k = new THEN n ELSE 0
    BY CopiesSome
<1>3. IsABag(jobs') /\ \A k : Copies(k, jobs') = Copies(k, base) + Copies(k, Some(new, n))
    BY <1>2, CopiesUnion
<1>4. BagToSet(jobs') = BagToSet(base) \cup {new}
    BY SomeIn DEF BagToSet, (+)
<1>5. \A k : /\ Copies(k, jobs) \in Nat /\ (BagIn(k, jobs) <=> Copies(k, jobs) > 0)
            /\ Copies(k, jobs') \in Nat /\ (BagIn(k, jobs') <=> Copies(k, jobs') > 0)
            /\ Copies(k, base) \in Nat
    BY <1>1, <1>3, CopiesType DEF JobTypes
<1>6. repeated' \in BOOLEAN /\ (~repeated' => ~repeated /\ n = 1)
    BY DEF JobTypes
<1>7. ASSUME NEW k, k # new, k.does # "complete" PROVE Copies(k, jobs') = Copies(k, jobs)
    BY <1>2, <1>3, <1>5, <1>7
<1>8. Copies(new, jobs') = Copies(new, jobs) + n
    BY <1>1, <1>2, <1>3, <1>5
<1>9. /\ happened' \in [Metrics -> Nat] /\ happened'[m] = happened[m] + 1
      /\ \A k \in Metrics : k # m => happened'[k] = happened[k]
    BY DEF JobTypes
<1>10. \A k \in Metrics : k # m => Copies(Increment(k), jobs') = Copies(Increment(k), jobs)
    <2>1. \A k \in Metrics : Increment(k).does # "complete" /\ (k # m => Increment(k) # new)
        BY DEF Increment
    <2> HIDE DEF new
    <2> QED
        BY <1>7, <2>1
<1>11. \A k, v : Copies(IncrementTo(k, v), jobs') = Copies(IncrementTo(k, v), jobs)
    <2>1. \A k, v : IncrementTo(k, v).does # "complete" /\ IncrementTo(k, v) # new
        BY DEF Increment, IncrementTo
    <2> HIDE DEF new
    <2> QED
        BY <1>7, <2>1
<1>12. \A k \in Metrics : Sets(k)' \subseteq Sets(k)
    BY <1>1, <1>4 DEF Sets
<1>13. NeverTooHigh'
    <2> SUFFICES ASSUME ~repeated', NEW k \in Metrics
                 PROVE  /\ metrics[k] + Copies(Increment(k), jobs') <= happened'[k]
                        /\ \A job \in Sets(k)' : job.value + Copies(Increment(k), jobs') <= happened'[k]
        BY DEF NeverTooHigh
    <2>1. \A job \in Sets(k) : job.value \in Nat
        BY <1>1 DEF Sets, JobTypes, AllJobs
    <2>2. /\ metrics[k] + Copies(Increment(k), jobs) <= happened[k]
          /\ \A job \in Sets(k) : job.value + Copies(Increment(k), jobs) <= happened[k]
        BY <1>6 DEF NeverTooHigh
    <2>3. CASE k = m
        BY <1>1, <1>5, <1>6, <1>8, <1>9, <1>12, <2>1, <2>2, <2>3
    <2>4. CASE k # m
        BY <1>9, <1>10, <1>12, <2>2, <2>4
    <2> QED
        BY <2>3, <2>4
<1>14. Accounted'
    <2> SUFFICES ASSUME ~repeated', NEW k \in Metrics \ inexact
                 PROVE  /\ \A job \in Sets(k)' : job.value = metrics[k] + 1
                        /\ metrics[k] + Copies(Increment(k), jobs') + Copies(IncrementTo(k, metrics[k] + 1), jobs')
                                = happened'[k]
        BY DEF Accounted
    <2>1. /\ \A job \in Sets(k) : job.value = metrics[k] + 1
          /\ metrics[k] + Copies(Increment(k), jobs) + Copies(IncrementTo(k, metrics[k] + 1), jobs) = happened[k]
        BY <1>6 DEF Accounted
    <2>2. Copies(IncrementTo(k, metrics[k] + 1), jobs') = Copies(IncrementTo(k, metrics[k] + 1), jobs)
        BY <1>11
    <2>3. CASE k = m
        BY <1>1, <1>5, <1>6, <1>8, <1>9, <1>12, <2>1, <2>2, <2>3
    <2>4. CASE k # m
        BY <1>9, <1>10, <1>12, <2>1, <2>2, <2>4
    <2> QED
        BY <2>3, <2>4
<1>15. Reached(happened) \subseteq Reached(happened)'
    <2>1. \A k \in Metrics : happened[k] \in Nat /\ happened'[k] \in Nat /\ happened[k] <= happened'[k]
        BY <1>1, <1>9
    <2> QED
        BY <1>1, <2>1 DEF Reached, JobTypes
<1>16. Completes' \subseteq Completes
    BY <1>1, <1>4 DEF Completes
<1>17. Running(Update) => Running(Update)'
    <2>1. Update # new /\ Update.does # "complete"
        BY DEF Update, Increment
    <2> QED
        BY <1>5, <1>7, <2>1 DEF Running
<1>18. \A k \in Completes : BagIn(k, base) => k \in Completes'
    BY <1>4 DEF Completes, BagIn
<1> QED
    BY <1>1, <1>3, <1>4, <1>6, <1>9, <1>13, <1>14, <1>15, <1>16, <1>17, <1>18 DEF JobTypes

\* What has only to do with what the page shows.
LEMMA ShownStep ==
    ASSUME ShownTypes, completed \subseteq completed', UNCHANGED shown,
           feed' = IF shown.page = "live" /\ completed' # completed THEN Append(feed, completed') ELSE feed
    PROVE  ShownTypes'
<1>1. feed \in Seq(SUBSET completed') /\ shown \in [page : {"closed", "read", "live"}, done : SUBSET completed']
    BY DEF ShownTypes
<1>2. CASE shown.page = "live" /\ completed' # completed
    <2>1. feed' = Append(feed, completed') /\ feed' \in Seq(SUBSET completed')
        BY <1>1, <1>2
    <2>2. feed' # <<>> /\ feed'[Len(feed')] = completed'
        BY <1>1, <2>1
    <2> QED
        BY <1>1, <1>2, <2>1, <2>2 DEF ShownTypes
<1>3. CASE ~(shown.page = "live" /\ completed' # completed)
    BY <1>1, <1>3 DEF ShownTypes
<1> QED
    BY <1>2, <1>3

\* Something that is counted apart from achievements happens.
LEMMA EventStep ==
    ASSUME AchievementsInv, NEW m \in Metrics \ {Counting}, NEW n \in {1, 2},
           jobs' = jobs (+) Some(Increment(m), n), (n = 1 /\ repeated' = repeated) \/ repeated' = TRUE,
           happened' = [happened EXCEPT ![m] = @ + 1],
           UNCHANGED <<thresholds, metrics, completed, shown, feed, inexact, skipped>>
    PROVE  AchievementsInv'
<1>1. IsABag(jobs) /\ \A k \in Completes : BagIn(k, jobs)
    BY DEF AchievementsInv, JobTypes, Completes, BagIn
<1>2. /\ IsABag(jobs') /\ BagToSet(jobs') \subseteq AllJobs /\ happened' \in [Metrics -> Nat]
      /\ repeated' \in BOOLEAN /\ (~repeated' => ~repeated)
      /\ NeverTooHigh' /\ Accounted' /\ Reached(happened) \subseteq Reached(happened)'
      /\ Completes' \subseteq Completes /\ (Running(Update) => Running(Update)')
      /\ Completes \subseteq Completes'
    BY <1>1, CountedStep
<1>3. JobTypes'
    BY <1>2 DEF AchievementsInv, JobTypes, AllJobs
<1>4. WillComplete'
    BY <1>2 DEF AchievementsInv, WillComplete, Reached
<1>5. OnlyEarned'
    BY <1>2 DEF AchievementsInv, OnlyEarned
<1>6. happened'[Counting] = happened[Counting]
    BY CountingIsMetric DEF AchievementsInv, JobTypes
<1>7. NotItself'
    BY <1>2, <1>6 DEF AchievementsInv, NotItself, Overachieving
<1>8. ShownTypes'
    BY DEF AchievementsInv, ShownTypes
<1> QED
    BY <1>2, <1>3, <1>4, <1>5, <1>7, <1>8 DEF AchievementsInv

LEMMA CountStep ==
    ASSUME AchievementsInv, NEW m \in Metrics \ {Counting}, Count(m)
    PROVE  AchievementsInv'
<1>1. PICK n \in {1, 2} : /\ jobs' = jobs (+) Some(Increment(m), n)
                          /\ (n = 1 /\ repeated' = repeated) \/ repeated' = TRUE
    BY DEF Count, Counted
<1>2. happened' = [happened EXCEPT ![m] = @ + 1] /\ UNCHANGED <<thresholds, metrics, completed, shown, feed, inexact, skipped>>
    BY DEF Count, Counted
<1> QED
    BY <1>1, <1>2, EventStep

LEMMA ShareStep ==
    ASSUME AchievementsInv, Share
    PROVE  AchievementsInv'
<1>1. PICK m \in Metrics \ {Counting} :
          /\ jobs' = jobs (+) Some(Increment(m), 1) /\ happened' = [happened EXCEPT ![m] = @ + 1]
          /\ UNCHANGED <<thresholds, metrics, completed, shown, feed, inexact, repeated, skipped>>
    BY DEF Share
<1> QED
    BY <1>1, EventStep

\* Something new is completed whenever the number of completions is counted.
LEMMA WriteCompletedStep ==
    ASSUME AchievementsInv, NEW job \in BagToSet(jobs), WriteCompleted(job)
    PROVE  AchievementsInv'
<1> DEFINE rest == Replaced(job, EmptyBag)
<1> USE DEF AchievementsInv
<1>1. /\ JobTypes /\ job \in Completes /\ job.does = "complete" /\ job.ids \subseteq DOMAIN thresholds
      /\ completed' = completed \cup job.ids /\ UNCHANGED <<thresholds, metrics, shown, inexact, skipped>>
    BY JobKinds DEF WriteCompleted, Completes
<1>2. /\ IsABag(jobs) /\ IsABag(EmptyBag) /\ Running(job) /\ IsABag(rest)
      /\ \A k : Copies(k, rest) = (IF k = job THEN Copies(job, jobs) - 1 ELSE Copies(k, jobs)) + Copies(k, EmptyBag)
      /\ BagToSet(rest) \subseteq BagToSet(jobs) \cup BagToSet(EmptyBag)
    BY CopiesEmpty, CopiesReplaced DEF WriteCompleted, JobTypes
<1>3. BagToSet(rest) \subseteq BagToSet(jobs)
    BY <1>2, EmptyIn
<1>4. \A k : /\ Copies(k, jobs) \in Nat /\ (BagIn(k, jobs) <=> Copies(k, jobs) > 0)
            /\ Copies(k, rest) \in Nat /\ (BagIn(k, rest) <=> Copies(k, rest) > 0)
    BY <1>2, CopiesType
<1>5. \A k : k # job => Copies(k, rest) = Copies(k, jobs) /\ (BagIn(k, rest) <=> BagIn(k, jobs))
    BY <1>2, <1>4, CopiesEmpty
<1>6. \A k : k.does # "complete" => k # job
    BY <1>1
<1> HIDE DEF rest
<1>7. completed' \subseteq DOMAIN thresholds /\ completed \subseteq completed'
    BY <1>1 DEF JobTypes
<1>8. ShownTypes'
    BY <1>1, <1>7, ShownStep DEF WriteCompleted
<1>9. \A k \in Completes : BagIn(k, rest) \/ k.ids \subseteq completed'
    BY <1>1, <1>5 DEF Completes, BagIn
<1>10. CASE completed' = completed
    <2>1. jobs' = rest /\ UNCHANGED <<happened, repeated>>
        BY <1>10 DEF WriteCompleted, rest
    <2>2. JobTypes'
        BY <1>1, <1>2, <1>3, <1>10, <2>1 DEF JobTypes, AllJobs
    <2>3. \A k : k.does # "complete" => Copies(k, jobs') = Copies(k, jobs)
        BY <1>5, <1>6, <2>1
    <2>4. \A m, v : /\ Copies(Increment(m), jobs') = Copies(Increment(m), jobs)
                   /\ Copies(IncrementTo(m, v), jobs') = Copies(IncrementTo(m, v), jobs)
        BY <2>3, JobsDiffer
    <2>5. \A m \in Metrics : Sets(m)' \subseteq Sets(m)
        BY <1>3, <2>1 DEF Sets
    <2>6. NeverTooHigh' /\ Accounted'
        BY <1>1, <2>1, <2>4, <2>5 DEF NeverTooHigh, Accounted
    <2>7. Completes' \subseteq Completes
        BY <1>3, <2>1 DEF Completes
    <2>8. \A k \in Completes : k \in Completes' \/ k.ids \subseteq completed
        BY <1>9, <1>10, <2>1 DEF Completes, BagIn
    <2>9. Running(Update) => Running(Update)'
        BY <1>5, <1>6, <2>1, JobsDiffer DEF Running
    <2>10. WillComplete'
        BY <1>1, <1>10, <2>8, <2>9 DEF WillComplete, Reached
    <2>11. OnlyEarned' /\ NotItself'
        BY <1>1, <1>10, <2>1, <2>7 DEF OnlyEarned, NotItself, Reached, Overachieving
    <2> QED
        BY <1>8, <2>2, <2>6, <2>10, <2>11
<1>11. CASE completed' # completed
    <2>1. PICK n \in {1, 2} : /\ jobs' = rest (+) Some(Increment(Counting), n)
                              /\ (n = 1 /\ repeated' = repeated) \/ repeated' = TRUE
        BY <1>11 DEF WriteCompleted, Counted, rest
    <2>2. happened' = [happened EXCEPT ![Counting] = @ + 1]
        BY <1>11 DEF WriteCompleted, Counted
    <2>3. \A k : k.does # "complete" => Copies(k, rest) = Copies(k, jobs)
        BY <1>5, <1>6
    <2>4. /\ IsABag(jobs') /\ BagToSet(jobs') \subseteq AllJobs /\ happened' \in [Metrics -> Nat]
          /\ repeated' \in BOOLEAN /\ (~repeated' => ~repeated)
          /\ NeverTooHigh' /\ Accounted' /\ Reached(happened) \subseteq Reached(happened)'
          /\ Completes' \subseteq Completes /\ (Running(Update) => Running(Update)')
          /\ \A k \in Completes : BagIn(k, rest) => k \in Completes'
        BY <1>1, <1>2, <1>3, <2>1, <2>2, <2>3, CountingIsMetric, CountedStep
    <2>5. JobTypes'
        BY <1>1, <1>7, <2>4 DEF JobTypes, AllJobs
    <2>6. WillComplete'
        BY <1>1, <1>7, <1>9, <2>4 DEF WillComplete, Reached
    <2>7. OnlyEarned'
        BY <1>1, <2>4 DEF OnlyEarned
    <2>8. ~repeated => happened'[Counting] <= Cardinality(completed')
        <3>1. IsFiniteSet(completed') /\ Cardinality(completed') \in Nat
            BY <1>1, <1>7, FS_Subset, FS_CardinalityType DEF JobTypes
        <3>2. Cardinality(completed) <= Cardinality(completed') /\ Cardinality(completed) # Cardinality(completed')
            BY <1>7, <1>11, <3>1, FS_Subset
        <3>3. Cardinality(completed) \in Nat
            BY <1>7, <3>1, FS_Subset, FS_CardinalityType
        <3>4. happened'[Counting] = happened[Counting] + 1 /\ happened[Counting] \in Nat
            BY <1>1, <2>2, CountingIsMetric DEF JobTypes
        <3> QED
            BY <3>1, <3>2, <3>3, <3>4 DEF NotItself
    <2>9. NotItself'
        BY <1>1, <2>4, <2>8 DEF NotItself, Overachieving
    <2> QED
        BY <1>8, <2>4, <2>5, <2>6, <2>7, <2>9
<1> QED
    BY <1>10, <1>11

\* The page reads what is completed and then hears of every change.
LEMMA PageStep ==
    ASSUME AchievementsInv, ReadCompleted \/ Subscribe \/ ShowCompleted
    PROVE  AchievementsInv'
<1> USE DEF AchievementsInv
<1>1. UNCHANGED <<thresholds, metrics, completed, jobs, happened, inexact, repeated, skipped>>
    BY DEF ReadCompleted, Subscribe, ShowCompleted
<1>2. /\ JobTypes' /\ NeverTooHigh' /\ Accounted' /\ WillComplete' /\ OnlyEarned' /\ NotItself'
    <2>1. AllJobs' = AllJobs /\ Completes' = Completes /\ \A m : Sets(m)' = Sets(m)
        BY <1>1 DEF AllJobs, Completes, Sets
    <2> QED
        BY <1>1, <2>1 DEF JobTypes, NeverTooHigh, Accounted, WillComplete, OnlyEarned, NotItself, Reached,
                          Overachieving, Running
<1>3. SUFFICES /\ shown' \in [page : {"closed", "read", "live"}, done : SUBSET completed]
               /\ feed' \in Seq(SUBSET completed)
               /\ shown'.page = "live" /\ feed' = <<>> => shown'.done = completed
               /\ shown'.page = "live" /\ feed' # <<>> => feed'[Len(feed')] = completed
               /\ shown'.page # "live" => feed' = <<>>
    BY <1>1, <1>2 DEF ShownTypes
<1>4. CASE ReadCompleted
    <2>1. shown' = [page |-> "read", done |-> completed] /\ feed' = feed /\ feed = <<>>
        BY <1>4 DEF ReadCompleted, ShownTypes
    <2>2. shown'.page = "read" /\ shown' \in [page : {"closed", "read", "live"}, done : SUBSET completed]
        BY <2>1
    <2>3. feed' \in Seq(SUBSET completed)
        BY <2>1 DEF ShownTypes
    <2> QED
        BY <2>1, <2>2, <2>3
<1>5. CASE Subscribe
    <2>1. shown' = [shown EXCEPT !.page = "live"] /\ feed' = <<completed>>
        BY <1>5 DEF Subscribe
    <2>2. shown' \in [page : {"closed", "read", "live"}, done : SUBSET completed] /\ shown'.page = "live"
        BY <2>1 DEF ShownTypes
    <2>3. feed' \in Seq(SUBSET completed) /\ feed' # <<>> /\ feed'[Len(feed')] = completed
        BY <2>1
    <2> QED
        BY <2>2, <2>3
<1>6. CASE ShowCompleted
    <2>1. feed \in Seq(SUBSET completed) /\ feed # <<>> /\ feed' = Tail(feed) /\ feed' \in Seq(SUBSET completed)
        BY <1>6 DEF ShowCompleted, ShownTypes
    <2>2. /\ shown \in [page : {"closed", "read", "live"}, done : SUBSET completed] /\ shown.page = "live"
          /\ shown' = [shown EXCEPT !.done = @ \cup Head(feed)] /\ feed[Len(feed)] = completed
        BY <1>6, <2>1 DEF ShowCompleted, ShownTypes
    <2>3. Head(feed) \subseteq completed
        BY <2>1
    <2>4. shown' \in [page : {"closed", "read", "live"}, done : SUBSET completed] /\ shown'.page = "live"
        BY <2>2, <2>3
    <2>5. CASE Len(feed) = 1
        <3>1. Head(feed) = completed /\ feed' = <<>>
            BY <2>1, <2>2, <2>5
        <3>2. shown'.done = completed
            BY <2>2, <3>1
        <3> QED
            BY <2>1, <2>4, <3>1, <3>2
    <2>6. CASE Len(feed) # 1
        <3>1. feed' # <<>> /\ feed'[Len(feed')] = completed
            <4>1. Len(feed) \in Nat /\ Len(feed) > 1
                <5>1. Len(feed) \in Nat \ {0}
                    BY <2>1, EmptySeq
                <5> QED
                    BY <2>6, <5>1
            <4>2. Len(feed') = Len(feed) - 1 /\ \A i \in 1..Len(feed') : feed'[i] = feed[i + 1]
                BY <2>1, <4>1
            <4>3. feed' # <<>>
                BY <4>1, <4>2
            <4> QED
                BY <2>2, <4>1, <4>2, <4>3
        <3> QED
            BY <2>1, <2>4, <3>1
    <2> QED
        BY <2>5, <2>6
<1> QED
    BY <1>4, <1>5, <1>6

-----------------------------------------------------------------------------
(* The invariant is one, and what follows from it *)

LEMMA InvAtFirst ==
    ASSUME NEW t, NEW bounds, IsFiniteSet(DOMAIN t),
           t \in [DOMAIN t -> [metric : Metrics, count : Nat \ {0}]], AchievementsInit(t, bounds)
    PROVE  AchievementsInv
<1>1. /\ thresholds = t /\ metrics = [m \in Metrics |-> 0] /\ completed = {} /\ jobs = EmptyBag
      /\ happened = [m \in Metrics |-> 0] /\ repeated = FALSE /\ skipped = FALSE /\ shown = Closed /\ feed = <<>>
    BY DEF AchievementsInit
<1>2. IsABag(jobs) /\ BagToSet(jobs) = {} /\ \A k : Copies(k, jobs) = 0
    BY <1>1, CopiesEmpty, EmptyIn
<1>3. JobTypes
    BY <1>1, <1>2 DEF JobTypes
<1>4. NeverTooHigh /\ Accounted
    BY <1>1, <1>2 DEF NeverTooHigh, Accounted, Sets
<1>5. Reached(metrics) = {}
    BY <1>1 DEF Reached
<1>6. WillComplete /\ OnlyEarned
    BY <1>1, <1>2, <1>5 DEF WillComplete, OnlyEarned, Completes
<1>7. NotItself
    BY <1>1, <1>2, CountingIsMetric, FS_EmptySet DEF NotItself, Completes
<1>8. ShownTypes
    BY <1>1 DEF ShownTypes, Closed
<1> QED
    BY <1>3, <1>4, <1>6, <1>7, <1>8 DEF AchievementsInv

LEMMA InvIsKept == AchievementsInv /\ (AStep \/ UNCHANGED achievementsVars) => AchievementsInv'
<1> SUFFICES ASSUME AchievementsInv, AStep \/ UNCHANGED achievementsVars PROVE AchievementsInv'
    OBVIOUS
<1>1. ASSUME NEW m \in Metrics, ReadMetric(m) PROVE AchievementsInv'
    BY <1>1, ReadMetricStep
<1>2. CASE ReadMetrics
    BY <1>2, ReadMetricsStep
<1>3. ASSUME NEW job \in BagToSet(jobs), SetMetric(job) PROVE AchievementsInv'
    BY <1>3, SetMetricStep
<1>4. ASSUME NEW job \in BagToSet(jobs), WriteCompleted(job) PROVE AchievementsInv'
    BY <1>4, WriteCompletedStep
<1>5. ASSUME NEW job \in BagToSet(jobs), Drop(job) PROVE AchievementsInv'
    BY <1>5, DropStep
<1>10. ASSUME NEW job \in BagToSet(jobs), FailUpdate(job) PROVE AchievementsInv'
    BY <1>10, FailUpdateStep
<1>6. CASE ReadCompleted \/ Subscribe \/ ShowCompleted
    BY <1>6, PageStep
<1>7. CASE Share
    BY <1>7, ShareStep
<1>8. ASSUME NEW m \in Metrics \ {Counting}, Count(m) PROVE AchievementsInv'
    BY <1>8, CountStep
<1>9. CASE UNCHANGED achievementsVars
    <2>1. UNCHANGED <<thresholds, metrics, completed, jobs, shown, feed, happened, inexact, repeated, skipped>>
        BY <1>9 DEF achievementsVars
    <2> QED
        BY <2>1 DEF AchievementsInv, JobTypes, AllJobs, NeverTooHigh, Accounted, WillComplete, OnlyEarned,
                    NotItself, ShownTypes, Sets, Completes, Reached, Overachieving, Running
<1> QED
    BY <1>1, <1>2, <1>3, <1>4, <1>5, <1>6, <1>7, <1>8, <1>9, <1>10 DEF AStep, AchievementsStep, Function, Viewer

LEMMA InvImplies == AchievementsInv => CountsAreExact /\ CompletionFollowsMetrics /\ OverachieverIsOutOfReach
<1> SUFFICES ASSUME AchievementsInv PROVE CountsAreExact /\ CompletionFollowsMetrics /\ OverachieverIsOutOfReach
    OBVIOUS
<1> USE DEF AchievementsInv
<1>1. \A job : Copies(job, jobs) \in Nat
    BY CopiesType DEF JobTypes
<1>2. jobs = EmptyBag => /\ \A job : Copies(job, jobs) = 0
                         /\ Completes = {} /\ ~Running(Update)
    BY CopiesEmpty, EmptyIn DEF Completes, Running, BagIn
<1>3. CountsAreExact
    <2>1. \A m \in Metrics : metrics[m] \in Nat /\ happened[m] \in Nat
        BY DEF JobTypes
    <2>2. ASSUME ~repeated, NEW m \in Metrics PROVE metrics[m] <= happened[m]
        BY <1>1, <2>1, <2>2 DEF NeverTooHigh
    <2>3. ASSUME ~repeated, NEW m \in Metrics \ inexact, jobs = EmptyBag PROVE metrics[m] = happened[m]
        <3>1. metrics[m] + Copies(Increment(m), jobs) + Copies(IncrementTo(m, metrics[m] + 1), jobs) = happened[m]
            BY <2>3 DEF Accounted
        <3>2. Copies(Increment(m), jobs) = 0 /\ Copies(IncrementTo(m, metrics[m] + 1), jobs) = 0
            BY <1>2, <2>3
        <3> QED
            BY <2>1, <3>1, <3>2
    <2> QED
        BY <2>2, <2>3 DEF CountsAreExact
<1>4. CompletionFollowsMetrics
    BY <1>2 DEF CompletionFollowsMetrics, WillComplete, OnlyEarned, ShownTypes
<1>5. OverachieverIsOutOfReach
    BY DEF OverachieverIsOutOfReach, NotItself, Overachieving
<1> QED
    BY <1>3, <1>4, <1>5

=============================================================================
