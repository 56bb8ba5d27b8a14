---------------------------- MODULE RouteQuality ----------------------------
(***************************************************************************)
(* Ratings of agents and the routing weights made from them: the handler   *)
(* SubmitFeedback, and the hourly job FeedbackAggregator::recalculate.     *)
(* An aggregation is one transaction that counts the ratings of a key (an  *)
(* owner, an agent and a skill) and then stores what it counted; READ      *)
(* COMMITTED and no lock, so that others may count and store in between.   *)
(* A row of quality is modelled by how many ratings it was made of.        *)
(***************************************************************************)
EXTENDS Integers

CONSTANTS
  Keys,
  Raters,       \* requests of SubmitFeedback
  MaxTroubles   \* bound: transactions that fail, or whose acknowledgement is lost

ASSUME QualityBounds == MaxTroubles \in Nat

VARIABLES
  feedback,     \* number of rows by key
  quality,      \* agent_route_quality by key: the first so many rows, 0: no row
  rater, aggregator,
  disturbed,    \* keys whose aggregations overlapped or failed
  troubles
qualityVars == <<feedback, quality, rater, aggregator, disturbed, troubles>>

QualityInit ==
  /\ feedback = [k \in Keys |-> 0] /\ quality = [k \in Keys |-> 0]
  /\ rater = [r \in Raters |-> [at |-> "idle"]]
  /\ aggregator = [at |-> "idle", left |-> {}]
  /\ disturbed = {} /\ troubles = 0

Counts(job, k) == job.at = "store" /\ job.key = k
CountedBySome(k) == Counts(aggregator, k) \/ \E r \in Raters : Counts(rater[r], k)
Troubled == troubles < MaxTroubles /\ troubles' = troubles + 1
Disturbs(k, b) == disturbed' = IF b THEN disturbed \cup {k} ELSE disturbed
Inserts(k) == feedback' = [feedback EXCEPT ![k] = @ + 1]
Stores(job) == quality' = [quality EXCEPT ![job.key] = job.total]
Rater(r, job) == rater' = [rater EXCEPT ![r] = job]
-----------------------------------------------------------------------------
(* SubmitFeedback. *)

\* A request that fails is answered with an error, whether its row was stored or not.
insertFeedback(r, k) ==
  /\ rater[r].at = "idle"
  /\ \/ /\ Inserts(k) /\ Rater(r, [at |-> "count", key |-> k])
        /\ UNCHANGED <<disturbed, troubles>>
     \/ /\ Troubled /\ Rater(r, [at |-> "error"])
        /\ \/ UNCHANGED <<feedback, disturbed>>
           \/ Inserts(k) /\ Disturbs(k, TRUE)
  /\ UNCHANGED <<quality, aggregator>>

\* The SELECT of aggregateRouteQuality.
CountRatings(r) ==
  /\ rater[r].at = "count"
  /\ LET k == rater[r].key IN
       /\ Rater(r, [at |-> "store", key |-> k, total |-> feedback[k]])
       /\ Disturbs(k, CountedBySome(k))
  /\ UNCHANGED <<feedback, quality, aggregator, troubles>>

\* Mutant: counts are added to those of the row.
AddsUp(r) ==
  /\ rater[r].at = "store"
  /\ LET job == rater[r] IN
       quality' = [quality EXCEPT ![job.key] = @ + job.total]
  /\ Rater(r, [at |-> "ok"])
  /\ UNCHANGED <<feedback, aggregator, disturbed, troubles>>

\* Its INSERT ... ON CONFLICT DO UPDATE, with the commit.
StoreQuality(r) ==
  /\ rater[r].at = "store"
  /\ Stores(rater[r]) /\ Rater(r, [at |-> "ok"])
  /\ UNCHANGED <<feedback, aggregator, disturbed, troubles>>

\* The transaction fails, or only its acknowledgement is lost; the exception leaves
\* the handler.
AggregationFails(r) ==
  /\ rater[r].at \in {"count", "store"} /\ Troubled
  /\ \/ UNCHANGED quality
     \/ rater[r].at = "store" /\ Stores(rater[r])
  /\ Disturbs(rater[r].key, TRUE) /\ Rater(r, [at |-> "error"])
  /\ UNCHANGED <<feedback, aggregator>>
-----------------------------------------------------------------------------
(* FeedbackAggregator::recalculate. *)

\* Without feedback the job ends as it began.
listFeedbackKeys ==
  /\ aggregator.at = "idle" /\ \E k \in Keys : feedback[k] > 0
  /\ aggregator' = [at |-> "next", left |-> {k \in Keys : feedback[k] > 0}]
  /\ UNCHANGED <<feedback, quality, rater, disturbed, troubles>>

CountKey ==
  /\ aggregator.at = "next"
  /\ \E k \in aggregator.left :
       /\ aggregator' = [at |-> "store", left |-> aggregator.left \ {k}, key |-> k,
                         total |-> feedback[k]]
       /\ Disturbs(k, CountedBySome(k))
  /\ UNCHANGED <<feedback, quality, rater, troubles>>

\* Mutant: a key that has a row is left to SubmitFeedback.
StoreNewKey ==
  /\ aggregator.at = "store"
  /\ IF quality[aggregator.key] = 0 THEN Stores(aggregator) ELSE UNCHANGED quality
  /\ aggregator' = [at |-> "next", left |-> aggregator.left]
  /\ UNCHANGED <<feedback, rater, disturbed, troubles>>

StoreKey ==
  /\ aggregator.at = "store" /\ Stores(aggregator)
  /\ aggregator' = [at |-> "next", left |-> aggregator.left]
  /\ UNCHANGED <<feedback, rater, disturbed, troubles>>

\* All keys are done, or one failed: the others wait for the next hour.
Pauses ==
  /\ \/ aggregator.at = "next" /\ aggregator.left = {} /\ UNCHANGED <<disturbed, troubles>>
     \/ aggregator.at = "next" /\ Troubled /\ UNCHANGED disturbed
     \/ aggregator.at = "store" /\ Troubled /\ Disturbs(aggregator.key, TRUE)
  /\ aggregator' = [at |-> "idle", left |-> {}]
  /\ UNCHANGED <<feedback, quality, rater>>

RaterStep(r) == CountRatings(r) \/ StoreQuality(r)
AggregatorStep == CountKey \/ StoreKey \/ Pauses
QualityNext ==
  \/ \E r \in Raters : \/ \E k \in Keys : insertFeedback(r, k)
                       \/ RaterStep(r) \/ AggregationFails(r)
  \/ listFeedbackKeys \/ AggregatorStep

\* Requests go on, and the job runs each hour.
QualityFairness ==
  /\ \A r \in Raters : WF_qualityVars(RaterStep(r))
  /\ WF_qualityVars(listFeedbackKeys \/ AggregatorStep)
QualitySpec == QualityInit /\ [][QualityNext]_qualityVars /\ QualityFairness
-----------------------------------------------------------------------------
QualityTypeOK ==
  /\ feedback \in [Keys -> Nat] /\ quality \in [Keys -> Nat]
  /\ disturbed \subseteq Keys /\ troubles \in 0..MaxTroubles

\* A weight is made of ratings of its own key, and of none twice.
NoneTwice == \A k \in Keys : quality[k] <= feedback[k]

\* "routing picks up the new rating without waiting for the periodic aggregator"
\* (agent_lifecycle_service.cpp:163): between requests a weight counts all ratings,
\* where no two aggregations of the key overlapped and none failed.  Two that
\* overlap may store the older counts last.
RestingIsCurrent ==
  /\ aggregator.at # "store" /\ \A r \in Raters : rater[r].at \notin {"count", "store"}
  => \A k \in Keys \ disturbed : quality[k] = feedback[k]

QualityInvariant == QualityTypeOK /\ NoneTwice /\ RestingIsCurrent

\* "the aggregator will catch up" (agent_lifecycle_service.cpp:165): whichever
\* aggregations overlapped or failed, in the end each weight counts all ratings.
QualityCatchesUp == <>[](\A k \in Keys : quality[k] = feedback[k])
=============================================================================
