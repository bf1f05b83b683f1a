----------------------------- MODULE RateLimit -----------------------------
(***************************************************************************)
(* The fixed-window rate limiter (redisx/ratelimit.go) in front of the     *)
(* public routes (httpx/ratelimit.go).  One key, that of a client and a    *)
(* class of routes: keys share nothing.  Any number of processes use it.   *)
(***************************************************************************)
EXTENDS Naturals

CONSTANTS
  Limit,      \* requests per window
  MaxHits,    \* bound: requests in one window
  Lapses      \* whether Redis may fail

ASSUME RateLimitAssumption == Limit \in Nat /\ MaxHits \in Nat /\ Lapses \in BOOLEAN

VARIABLES
  counter, expiring,   \* the Redis key, 0 if it is not there, and its expiry
  turnedAway           \* the last request was refused

rateVars == <<counter, expiring, turnedAway>>

RateLimitTypeOK ==
  /\ counter \in 0..MaxHits /\ expiring \in BOOLEAN /\ turnedAway \in BOOLEAN

RateLimitInit == counter = 0 /\ expiring = FALSE /\ turnedAway = FALSE

\* mutant: the expiry is the business of a second call, which is not made in time
MutantArmed(n) == expiring \/ n > MaxHits

\* The script sets the expiry in the same step as it creates the key.
Armed(n) == expiring \/ n = 1

\* Allow, and what Wrap makes of its answer.
Allow ==
  /\ counter < MaxHits
  /\ counter' = counter + 1
  /\ expiring' = Armed(counter')
  /\ turnedAway' = (counter' > Limit)

\* Redis does not answer, though it may have counted: the request is served.
FailOpen ==
  /\ Lapses
  /\ counter < MaxHits
  /\ counter' \in {counter, counter + 1}
  /\ expiring' = IF counter' = counter THEN expiring ELSE Armed(counter')
  /\ turnedAway' = FALSE

WindowEnds ==
  /\ expiring
  /\ counter' = 0 /\ expiring' = FALSE
  /\ UNCHANGED turnedAway

\* A client that has been refused tries again.
Retry == turnedAway /\ Allow

RateLimitNext == Allow \/ FailOpen \/ WindowEnds

RateLimitFairness == WF_rateVars(WindowEnds) /\ WF_rateVars(Retry)

RateLimitSpec == RateLimitInit /\ [][RateLimitNext]_rateVars /\ RateLimitFairness

-----------------------------------------------------------------------------
\* A client that is refused and goes on trying is let in again: there is no key
\* without an expiry, whichever call of Redis fails (rateLimitScript).
RefusedForAWindow == turnedAway ~> ~turnedAway

=============================================================================
