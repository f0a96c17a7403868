----------------------------- MODULE RateLimits -----------------------------
(***************************************************************************)
(* The rate limit of the endpoints marked @AuthRateLimit                   *)
(* (AuthRateLimitGuard, AuthRateLimitService, InMemoryAuthRateLimitStore): *)
(* a window of fixed length opens with the first request of a key, and so  *)
(* many requests are allowed in it.                                        *)
(*                                                                         *)
(* The store hands out its bucket, not a copy of it, and the count is read *)
(* after an await: by then other requests may have counted on, the window  *)
(* may be over and another bucket in its place.  Buckets are in memory: a  *)
(* restart forgets them, and each process of the API has its own.          *)
(*                                                                         *)
(* Abstractions: a tick of the clock is a second, so that rounding up to   *)
(* whole seconds does nothing; the tenant, identifier, token, session,     *)
(* device and address that make up a key are one value.                    *)
(***************************************************************************)
EXTENDS Naturals, FiniteSets

CONSTANTS
  Scopes,            \* the scopes of @AuthRateLimit
  Dimensions,        \* whom requests come from
  Attempts,          \* requests in progress
  Buckets, NoBucket, \* objects of the store, and none
  ScopeLimits,       \* limits by scope, for some scopes
  DefaultLimit,
  WindowSeconds,
  MaxCount,          \* bound: requests counted in one window
  MaxTime            \* bound: the clock

ASSUME RateConstants ==
  /\ NoBucket \notin Buckets /\ IsFiniteSet(Attempts)
  /\ \A scope \in Scopes \cap DOMAIN ScopeLimits : ScopeLimits[scope] \in Nat \ {0}
  /\ DefaultLimit \in Nat \ {0}
  /\ WindowSeconds \in Nat \ {0}
  /\ MaxCount \in Nat /\ MaxTime \in Nat

VARIABLES
  bucketOf,   \* the map of the store
  bucket,     \* the buckets, those that are replaced as well
  attempt,    \* requests in progress
  time        \* the clock

rateVars == <<bucketOf, bucket, attempt, time>>

RateKeys == Scopes \X Dimensions

\* A bucket that exists has counted the request it was made for.  History: how many
\* requests it has allowed and refused.
Bucket == [key : RateKeys \cup {NoBucket}, count : Nat, expiresAt : Nat,
           allowed : Nat, refused : Nat]

NewBucket(k) == [key |-> k, count |-> 1, expiresAt |-> time + WindowSeconds,
                 allowed |-> 0, refused |-> 0]

NotMade == [key |-> NoBucket, count |-> 0, expiresAt |-> 0, allowed |-> 0, refused |-> 0]

Attempt == [pc : {"idle", "counted", "refused"}, bucket : Buckets \cup {NoBucket},
            now : Nat,       \* when the request was counted
            retryAt : Nat]   \* when it was told to come back

NoAttempt == [pc |-> "idle", bucket |-> NoBucket, now |-> 0, retryAt |-> 0]

RateTypeOK ==
  /\ bucketOf \in [RateKeys -> Buckets \cup {NoBucket}]
  /\ bucket \in [Buckets -> Bucket]
  /\ attempt \in [Attempts -> Attempt]
  /\ time \in Nat

RateInit ==
  /\ bucketOf = [k \in RateKeys |-> NoBucket]
  /\ bucket = [b \in Buckets |-> NotMade]
  /\ attempt = [a \in Attempts |-> NoAttempt]
  /\ time = 0

-----------------------------------------------------------------------------
\* The limit of a scope, or the default.
Limit(k) == IF k[1] \in DOMAIN ScopeLimits THEN ScopeLimits[k[1]] ELSE DefaultLimit

Made(b) == bucket[b].count > 0

Unmade == {b \in Buckets : ~Made(b)}

\* A bucket in the map whose window is not over.
Open(k) == bucketOf[k] # NoBucket /\ bucket[bucketOf[k]].expiresAt > time

\* The request has been counted in bucket b and awaits it.
Awaits(a, b) ==
  /\ attempt[a].pc = "idle"
  /\ attempt' = [attempt EXCEPT ![a] = [NoAttempt EXCEPT !.pc = "counted", !.bucket = b, !.now = time]]
  /\ UNCHANGED time

\* consume, up to its await, with the first request of a window ...
OpensWindow(a, k) ==
  LET b == CHOOSE b \in Unmade : TRUE IN
  /\ ~Open(k)
  /\ Unmade # {}
  /\ bucketOf' = [bucketOf EXCEPT ![k] = b]
  /\ bucket' = [bucket EXCEPT ![b] = NewBucket(k)]
  /\ Awaits(a, b)

\* ... or with another one.
CountsOn(a, k) ==
  /\ Open(k)
  /\ bucket[bucketOf[k]].count < MaxCount
  /\ bucket' = [bucket EXCEPT ![bucketOf[k]].count = @ + 1]
  /\ Awaits(a, bucketOf[k])
  /\ UNCHANGED bucketOf

\* consume, after its await, by the count that the bucket has now.
Allows(a) ==
  LET b == attempt[a].bucket IN
  /\ attempt[a].pc = "counted"
  /\ bucket[b].count <= Limit(bucket[b].key)
  /\ bucket' = [bucket EXCEPT ![b].allowed = @ + 1]
  /\ attempt' = [attempt EXCEPT ![a] = NoAttempt]
  /\ UNCHANGED <<bucketOf, time>>

\* Seconds until the window is over, and never none.
RetryAfter(b, now) == IF bucket[b].expiresAt > now + 1 THEN bucket[b].expiresAt - now ELSE 1

Refuses(a) ==
  LET b == attempt[a].bucket IN
  /\ attempt[a].pc = "counted"
  /\ bucket[b].count > Limit(bucket[b].key)
  /\ bucket' = [bucket EXCEPT ![b].refused = @ + 1]
  /\ attempt' = [attempt EXCEPT ![a].pc = "refused",
                                ![a].retryAt = attempt[a].now + RetryAfter(b, attempt[a].now)]
  /\ UNCHANGED <<bucketOf, time>>

\* The refusal is on record, or could not be recorded; either way the request ends.
Ends(a) ==
  /\ attempt[a].pc = "refused"
  /\ attempt' = [attempt EXCEPT ![a] = NoAttempt]
  /\ UNCHANGED <<bucketOf, bucket, time>>

TimePasses == time < MaxTime /\ time' = time + 1 /\ UNCHANGED <<bucketOf, bucket, attempt>>

\* The process restarts, with an empty store.
Restarts ==
  /\ bucketOf' = [k \in RateKeys |-> NoBucket]
  /\ bucket' = [b \in Buckets |-> NotMade]
  /\ attempt' = [a \in Attempts |-> NoAttempt]
  /\ UNCHANGED time

RateNext ==
  \/ \E a \in Attempts : \/ \E k \in RateKeys : OpensWindow(a, k) \/ CountsOn(a, k)
                         \/ Allows(a) \/ Refuses(a) \/ Ends(a)
  \/ TimePasses
  \/ Restarts

RateSpec == RateInit /\ [][RateNext]_rateVars

-----------------------------------------------------------------------------
\* No more requests are allowed in a window than the limit of their scope, however
\* many count between another one's count and its answer.
WithinLimit == \A b \in Buckets : Made(b) => bucket[b].allowed <= Limit(bucket[b].key)

\* Nobody is refused in a window that did not have more requests than its limit.
RefusedForCause ==
  \A b \in Buckets : bucket[b].refused > 0 => bucket[b].count > Limit(bucket[b].key)

\* The windows of one key do not overlap: with WithinLimit, no stretch of time as
\* long as a window has more than twice the limit.
WindowsApart ==
  \A b, c \in Buckets :
    /\ b # c /\ Made(b) /\ Made(c)
    /\ bucket[b].key = bucket[c].key
    => \/ bucket[b].expiresAt + WindowSeconds <= bucket[c].expiresAt
       \/ bucket[c].expiresAt + WindowSeconds <= bucket[b].expiresAt

\* Whoever comes back when told to does not meet the window that refused the request.
RetryIsNotInVain ==
  \A a \in Attempts :
    attempt[a].pc = "refused" => bucket[attempt[a].bucket].expiresAt <= attempt[a].retryAt

RateLimitsSound == WithinLimit /\ RefusedForCause /\ WindowsApart /\ RetryIsNotInVain
=============================================================================
