------------------------------ MODULE Gobreaker ------------------------------
(* The circuit breaker that circuitbreaker.go configures and calls.  The      *)
(* settings and the trip rule are the repository's; the state machine is the  *)
(* one of github.com/sony/gobreaker/v2, modelled from how the code uses it.   *)
(* Each operator is one critical section of the library (it holds a mutex).   *)
(*                                                                            *)
(* The library numbers its generations and compares the number a call took    *)
(* at admission with the current one, for equality only.  "members" is that   *)
(* comparison: the calls admitted in the current generation that have not     *)
(* reported yet.  In the half-open state a report always ends the             *)
(* generation, so there the library's Requests counter is the size of         *)
(* members.                                                                   *)
EXTENDS Naturals

CONSTANTS TripAfter,    \* consecutive failures that open the breaker (5)
          Cooldown      \* ticks it stays open (the library's default, 60s)

ASSUME BreakerAssumption == /\ TripAfter \in Nat \ {0}
                            /\ Cooldown \in Nat \ {0}

Breaker(Calls) == [state   : {"closed", "open", "half-open"},
                   fails   : 0 .. TripAfter,
                   cool    : 0 .. Cooldown,
                   members : SUBSET Calls]

\* A new generation: counts cleared, earlier admissions forgotten.
Enter(s) == [state   |-> s,
             fails   |-> 0,
             cool    |-> IF s = "open" THEN Cooldown ELSE 0,
             members |-> {}]

NewBreaker == Enter("closed")

ReadyToTrip(fails) == fails >= TripAfter

\* The open state is left lazily, by the next call that looks at the breaker.
CurrentState(b) == IF b.state = "open" /\ b.cool = 0
                   THEN Enter("half-open")
                   ELSE b

\* Mutant: half-open lets everything through.
RefusesWhenOpen(b) == b.state = "open"

\* Whether a breaker that is up to date refuses the next request: when open,
\* and when half-open with the one allowed request under way (MaxRequests 1).
Refuses(b) == \/ b.state = "open"
              \/ b.state = "half-open" /\ b.members # {}

BeforeRequest(b, c) == [CurrentState(b) EXCEPT !.members = @ \cup {c}]

OnSuccess(b, c) == IF b.state = "closed"
                   THEN [b EXCEPT !.fails = 0, !.members = @ \ {c}]
                   ELSE Enter("closed")

OnFailure(b, c) == IF b.state = "closed" /\ ~ReadyToTrip(b.fails + 1)
                   THEN [b EXCEPT !.fails = @ + 1, !.members = @ \ {c}]
                   ELSE Enter("open")

\* A report from an earlier generation is ignored.
AfterRequest(b, c, success) ==
  LET now == CurrentState(b) IN
  IF c \notin now.members THEN now
  ELSE IF success THEN OnSuccess(now, c) ELSE OnFailure(now, c)

Elapse(b) == [b EXCEPT !.cool = IF @ > 0 THEN @ - 1 ELSE 0]
=============================================================================
