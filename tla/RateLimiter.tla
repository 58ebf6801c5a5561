---------------------------- MODULE RateLimiter ----------------------------
(***************************************************************************)
(* The fixed window limiters over Redis keys: RateLimitGuard (every HTTP   *)
(* request, 5 per IP in 10 seconds) and UserAgentRateLimiter (new agents,  *)
(* 3 per account in 300 seconds) both call incr, and expire after the      *)
(* first one.  The two calls are not one, and Redis outlives the process   *)
(* that ends between them.                                                 *)
(***************************************************************************)
EXTENDS Integers

CONSTANTS
  Keys,        \* keys of IPs or accounts
  Arrivals,    \* identities of requests in progress, reused
  NoKey,       \* no key
  Limit,       \* requests a window admits
  MaxCount,    \* bound: requests counted by one key
  MaxFailures  \* bound: requests that fail, and crashes

ASSUME LimiterAssumption ==
  /\ NoKey \notin Keys
  /\ Limit \in Nat \ {0} /\ MaxCount \in Nat /\ MaxFailures \in Nat

VARIABLES
  count,    \* the value of a key; 0: there is no key
  expires,  \* keys that have a time to live
  asks,     \* the key a request asks about
  place,    \* what Redis made of it: its place in the count of the key
  landed,   \* first requests whose expire Redis has executed
  (* observers, read by properties only *)
  late,     \* requests whose key has lapsed since it counted them
  admitted, \* places admitted in the life of a key
  failures  \* failures counted against MaxFailures

limiterVars == <<count, expires, asks, place, landed, late, admitted, failures>>

LimiterInit ==
  /\ count = [k \in Keys |-> 0]
  /\ expires = {}
  /\ asks = [r \in Arrivals |-> NoKey]
  /\ place = [r \in Arrivals |-> 0]
  /\ landed = {} /\ late = {}
  /\ admitted = [k \in Keys |-> {}]
  /\ failures = 0

First(n) == n = 1

ExceedsByOne(n) == n > Limit + 1 \* Mutant
Exceeds(n) == n > Limit

\* Redis executes the incr of a request; the answer is on its way.
Incr(r, k) ==
  /\ asks[r] = NoKey /\ count[k] < MaxCount
  /\ count' = [count EXCEPT ![k] = @ + 1]
  /\ asks' = [asks EXCEPT ![r] = k]
  /\ place' = [place EXCEPT ![r] = count'[k]]
  /\ UNCHANGED <<expires, landed, late, admitted, failures>>

\* The first of a window has its answer, and Redis executes its expire.
ExpireForgotten(r) == \* Mutant: it goes on without.
  /\ asks[r] # NoKey /\ First(place[r]) /\ r \notin landed
  /\ landed' = landed \cup {r}
  /\ UNCHANGED <<count, expires, asks, place, late, admitted, failures>>
ExpireLands(r) ==
  /\ asks[r] # NoKey /\ First(place[r]) /\ r \notin landed
  /\ landed' = landed \cup {r}
  /\ expires' = IF count[asks[r]] > 0 THEN expires \cup {asks[r]} ELSE expires
  /\ UNCHANGED <<count, asks, place, late, admitted, failures>>

Leave(R) ==
  /\ asks' = [r \in Arrivals |-> IF r \in R THEN NoKey ELSE asks[r]]
  /\ place' = [r \in Arrivals |-> IF r \in R THEN 0 ELSE place[r]]
  /\ landed' = landed \ R /\ late' = late \ R

\* The last answer a request awaits is there: it is admitted or refused.
Decide(r) ==
  /\ asks[r] # NoKey /\ (First(place[r]) => r \in landed)
  /\ admitted' = IF Exceeds(place[r]) \/ r \in late THEN admitted
                 ELSE [admitted EXCEPT ![asks[r]] = @ \cup {place[r]}]
  /\ Leave({r})
  /\ UNCHANGED <<count, expires, failures>>

Failure == failures < MaxFailures /\ failures' = failures + 1

\* incr or expire rejects, executed or not, and so does the request.
RequestFails(r) ==
  /\ asks[r] # NoKey /\ Failure /\ Leave({r})
  /\ UNCHANGED <<count, expires, admitted>>

\* The process ends and is restarted; the keys stay as they are.
Crash ==
  /\ \E r \in Arrivals : asks[r] # NoKey
  /\ Failure /\ Leave(Arrivals)
  /\ UNCHANGED <<count, expires, admitted>>

\* The time to live of a key is over, whoever still awaits an answer.
Lapse(k) ==
  /\ k \in expires
  /\ count' = [count EXCEPT ![k] = 0]
  /\ expires' = expires \ {k}
  /\ admitted' = [admitted EXCEPT ![k] = {}]
  /\ late' = late \cup {r \in Arrivals : asks[r] = k}
  /\ UNCHANGED <<asks, place, landed, failures>>

LimiterNext ==
  \/ \E r \in Arrivals :
       \/ \E k \in Keys : Incr(r, k)
       \/ ExpireLands(r) \/ Decide(r) \/ RequestFails(r)
  \/ \E k \in Keys : Lapse(k)
  \/ Crash

LimiterSpec == LimiterInit /\ [][LimiterNext]_limiterVars

\* Redis executes what it was sent and lets keys lapse; requests, answers and
\* failures owe nothing.
Fairness ==
  /\ \A r \in Arrivals : WF_limiterVars(ExpireLands(r))
  /\ \A k \in Keys : WF_limiterVars(Lapse(k))
FairSpec == LimiterSpec /\ Fairness

-----------------------------------------------------------------------------
\* Every variable holds a value of its kind, and the expire of a request finds
\* a key that is there and has no time to live: none is set twice, which would
\* prolong the window, and none on a key that is gone.
LimiterTypeOK ==
  /\ count \in [Keys -> 0..MaxCount]
  /\ expires \subseteq Keys
  /\ asks \in [Arrivals -> Keys \cup {NoKey}]
  /\ place \in [Arrivals -> 0..MaxCount]
  /\ landed \subseteq Arrivals /\ late \subseteq Arrivals
  /\ admitted \in [Keys -> SUBSET (1..MaxCount)]
  /\ failures \in 0..MaxFailures
  /\ \A r \in Arrivals : asks[r] # NoKey /\ First(place[r]) /\ r \notin landed =>
       count[asks[r]] > 0 /\ asks[r] \notin expires

\* A window admits at most Limit requests, and no two of them for one place,
\* though each decides alone and at its own time: also when answers are lost,
\* or late, or the process dies and the key is left for good.
WindowIsLimited ==
  /\ \A k \in Keys : admitted[k] \subseteq 1..Limit
  /\ \A r \in Arrivals \ late : asks[r] # NoKey =>
       /\ place[r] \notin admitted[asks[r]]
       /\ \A q \in Arrivals \ late : asks[q] = asks[r] /\ place[q] = place[r] => q = r

\* Unless such a failure leaves the key for good, a key that refuses requests
\* lapses, however many requests go on counting up on it.
RefusalEndsWithoutFailure ==
  \A k \in Keys : Exceeds(count[k]) ~> count[k] = 0 \/ failures > 0

\* Every counter is a window of AdmissionWindow, open from the first incr until
\* the key lapses: nothing is admitted on a key that is gone, what comes late
\* takes no place of the next window, and a window closes only by the time it
\* was given while it was open.
Windows == INSTANCE AdmissionWindow
             WITH open <- {k \in Keys : count[k] > 0}, timed <- expires, taken <- admitted
CountersAreWindows == Windows!Spec
=============================================================================
