---------------------------- MODULE RateLimiter -----------------------------
(***************************************************************************)
(* The limiter in front of the two routes a caller without an identity can *)
(* reach, internal/brokerapi/ratelimit.go.  Only the time since a bucket's *)
(* first attempt is ever used, and only whether it exceeds the window, so  *)
(* a bucket holds its age, counted up to one past the window; likewise its *)
(* count, which is only compared with the limit, stops one past it.  Each  *)
(* call holds the mutex, so it is one action.                              *)
(***************************************************************************)
EXTENDS Naturals, FiniteSets, Functions

CONSTANTS
  Callers,      \* the host part of the callers' addresses
  Ports,        \* a caller has a new one for every connection
  Limit,        \* attempts per window; 0 disables the limiter
  Window,       \* the window, in ticks
  MaxBuckets    \* maxBuckets

ASSUME LimiterAssumption ==
  /\ Limit \in Nat
  /\ Window \in Nat \ {0}
  /\ MaxBuckets \in Nat \ {0}

VARIABLES
  buckets,      \* the map: key -> [count, age]
  recent,       \* observation: the ages of a host's last admitted attempts
  verdict       \* observation: the last attempt, and whether it was admitted

limiterVars == <<buckets, recent, verdict>>

-----------------------------------------------------------------------------
Smaller(a, b) == IF a < b THEN a ELSE b
Older(age) == Smaller(age + 1, Window + 1)
Expired(bucket) == bucket.age > Window

(* Fault variant: the attempt that opens a bucket is not counted.          *)
NewBucketUncounted == [count |-> 0, age |-> 0]

(* The bucket of a first attempt.                                          *)
NewBucket == [count |-> 1, age |-> 0]

(* limiterKey drops the port.                                              *)
LimiterKey(host, port) == host

(* evictExpiredLocked.                                                     *)
EvictExpired(map) ==
  Restrict(map, {k \in DOMAIN map : ~Expired(map[k])})

With(map, k, bucket) ==
  [x \in DOMAIN map \cup {k} |-> IF x = k THEN bucket ELSE map[x]]

(* Fault variant: the store evicts when it is full but does not look again *)
(* whether that made room.                                                 *)
AllowNoRecheck(map, k) ==
  IF Limit = 0 THEN [map |-> map, ok |-> TRUE]
  ELSE IF k \notin DOMAIN map
    THEN LET room == IF Cardinality(DOMAIN map) >= MaxBuckets
                       THEN EvictExpired(map) ELSE map
         IN  [map |-> With(room, k, NewBucket), ok |-> TRUE]
  ELSE IF Expired(map[k]) THEN [map |-> With(map, k, NewBucket), ok |-> TRUE]
  ELSE LET n == Smaller(map[k].count + 1, Limit + 1)
       IN  [map |-> With(map, k, [map[k] EXCEPT !.count = n]), ok |-> n <= Limit]

(* Fault variant: every attempt restarts the window, refused ones too.     *)
AllowRestartsWindow(map, k) ==
  IF Limit = 0 THEN [map |-> map, ok |-> TRUE]
  ELSE IF k \notin DOMAIN map
    THEN LET room == EvictExpired(map)
         IN  IF Cardinality(DOMAIN room) >= MaxBuckets
               THEN [map |-> room, ok |-> FALSE]
               ELSE [map |-> With(room, k, NewBucket), ok |-> TRUE]
  ELSE IF Expired(map[k]) THEN [map |-> With(map, k, NewBucket), ok |-> TRUE]
  ELSE LET n == Smaller(map[k].count + 1, Limit + 1)
       IN  [map |-> With(map, k, [count |-> n, age |-> 0]), ok |-> n <= Limit]

(* Allow: the map after an attempt with key k, and the answer.             *)
Allow(map, k) ==
  IF Limit = 0 THEN [map |-> map, ok |-> TRUE]
  ELSE IF k \notin DOMAIN map
    THEN LET room == IF Cardinality(DOMAIN map) >= MaxBuckets
                       THEN EvictExpired(map) ELSE map
         IN  IF Cardinality(DOMAIN room) >= MaxBuckets
               THEN [map |-> room, ok |-> FALSE]
               ELSE [map |-> With(room, k, NewBucket), ok |-> TRUE]
  ELSE IF Expired(map[k]) THEN [map |-> With(map, k, NewBucket), ok |-> TRUE]
  ELSE LET n == Smaller(map[k].count + 1, Limit + 1)
       IN  [map |-> With(map, k, [map[k] EXCEPT !.count = n]), ok |-> n <= Limit]

-----------------------------------------------------------------------------
(* How many admitted attempts the observation keeps of each host, the      *)
(* newest first; an age past the window stands for any longer time.        *)
Remembered == 1..(2 * Limit + 1)

NoAttempt == [host |-> CHOOSE h \in Callers : TRUE, ok |-> FALSE]

LimiterInit ==
  /\ buckets = [k \in {} |-> NewBucket]
  /\ recent = [h \in Callers |-> [i \in Remembered |-> Window + 1]]
  /\ verdict = NoAttempt

(* A request reaches rateLimited.                                          *)
Attempt(host, port) ==
  LET result == Allow(buckets, LimiterKey(host, port)) IN
  /\ buckets' = result.map
  /\ verdict' = [host |-> host, ok |-> result.ok]
  /\ recent' = IF result.ok
                 THEN [recent EXCEPT ![host] =
                        [i \in Remembered |-> IF i = 1 THEN 0 ELSE @[i - 1]]]
                 ELSE recent

(* Prune, on the broker's ticker.                                          *)
Prune ==
  /\ buckets' = EvictExpired(buckets)
  /\ UNCHANGED <<recent, verdict>>

(* Time passes.                                                            *)
LimiterTick ==
  /\ buckets' = [k \in DOMAIN buckets |->
                  [buckets[k] EXCEPT !.age = Older(@)]]
  /\ recent' = [h \in Callers |-> [i \in Remembered |-> Older(recent[h][i])]]
  /\ UNCHANGED verdict

LimiterNext ==
  \/ \E h \in Callers, p \in Ports : Attempt(h, p)
  \/ Prune
  \/ LimiterTick

LimiterSpec == LimiterInit /\ [][LimiterNext]_limiterVars

(* Time passes and every host keeps trying, as the agent's timer does.     *)
LimiterFairness ==
  /\ WF_limiterVars(LimiterTick)
  /\ \A h \in Callers : WF_limiterVars(\E p \in Ports : Attempt(h, p))

FairLimiterSpec == LimiterSpec /\ LimiterFairness

-----------------------------------------------------------------------------
(* Every variable has its shape.                                           *)
LimiterTypeOK ==
  /\ DOMAIN buckets \subseteq Callers
  /\ \A k \in DOMAIN buckets :
       buckets[k] \in [count : 0..(Limit + 1), age : 0..(Window + 1)]
  /\ recent \in [Callers -> [Remembered -> 0..(Window + 1)]]
  /\ verdict \in [host : Callers, ok : BOOLEAN]

(* maxBuckets bounds the counter store, whatever addresses call.           *)
MemoryBounded == Cardinality(DOMAIN buckets) <= MaxBuckets

(* No host, on whatever ports and across evictions and prunings, is let    *)
(* through more than twice the limit in any span as long as the window:    *)
(* the attempt 2 * Limit admissions ago is older than that.                *)
AtMostTwice ==
  Limit > 0 => \A h \in Callers : recent[h][2 * Limit + 1] > Window

(* A host that keeps trying is let through again and again, unless others  *)
(* keep filling the table: refused attempts do not extend the window.      *)
NoLockout ==
  \A h \in Callers :
    \/ []<>(verdict = [host |-> h, ok |-> TRUE])
    \/ []<>(Cardinality(DOMAIN buckets \ {h}) >= MaxBuckets)
=============================================================================
