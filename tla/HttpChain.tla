------------------------------ MODULE HttpChain ------------------------------
(* The HTTP middleware chain that main.go puts under every Binance client:    *)
(*                                                                            *)
(*   http.Client(Timeout) -> OTel -> CircuitBreaker -> Retry -> RateLimit     *)
(*                        -> http.DefaultTransport -> exchange                *)
(*                                                                            *)
(* One element of Calls is a worker of the MCP server: it carries one tool    *)
(* call's request through the chain at a time.  The workers share the breaker *)
(* and the used weight; everything else is local to the call.  A step ends    *)
(* where another goroutine can be seen: at a sleep, at the network, between   *)
(* two reads or writes of shared state.                                       *)
(*                                                                            *)
(* Time is counted in ticks; every duration is a countdown.  A sleep ends     *)
(* no earlier than its duration, and later by as much as the scheduler likes  *)
(* unless Punctual holds.                                                     *)
EXTENDS Gobreaker

CONSTANTS Calls,        \* the workers
          MaxAttempts,  \* maxRetryAttempts
          Deadline,     \* http.Client.Timeout, in ticks
          MinuteTicks,  \* ticks in a minute
          Threshold,    \* weightThreshold
          Readings,     \* values the used-weight header can carry
          Backoffs,     \* durations the jittered backoff can draw
          RetryAfters,  \* Retry-After values the exchange can send
          Punctual      \* does a ready step run before the next tick?

ASSUME ChainAssumption ==
  /\ MaxAttempts \in Nat \ {0}
  /\ Deadline \in Nat \ {0}
  /\ MinuteTicks \in Nat \ {0}
  /\ Threshold \in Nat \ {0}
  /\ Readings \subseteq Nat
  /\ Backoffs \subseteq Nat /\ Backoffs # {}
  /\ RetryAfters \subseteq Nat
  /\ Punctual \in BOOLEAN

VARIABLES pc,        \* where each call is
          method,    \* of the last request each worker carried
          attempt,   \* retry loop counter, from 1
          left,      \* ticks left of the sleep a call is in
          budget,    \* ticks left of the client timeout
          reply,     \* what the last attempt came back with
          via,       \* history: breaker state the call was admitted in
          sent,      \* history: attempts handed to the network
          executed,  \* history: times the exchange acted on the request
          result,    \* what the adapter was given for the last request
          cb,        \* the circuit breaker
          weight,    \* usedWeight
          phase      \* ticks since the minute began

vars == <<pc, method, attempt, left, budget, reply, via, sent, executed,
          result, cb, weight, phase>>

Methods  == {"GET", "POST"}         \* POST stands for DELETE and PUT too
Answers  == {"ok", "rejected", "server"}
Failures == {"error", "server"}     \* what the breaker counts, and Retry retries

\* Mutant: every method is taken for safe to repeat.
AllIdempotent(m) == TRUE

isIdempotent(m) == m \in {"GET", "HEAD"}

Asleep(c) == pc[c] \in {"throttle", "cool", "backoff"}
Active(c) == pc[c] # "idle"

TypeOK ==
  /\ pc \in [Calls -> {"idle", "check", "throttle", "send", "wire", "cool",
                       "decide", "backoff"}]
  /\ method \in [Calls -> Methods]
  /\ attempt \in [Calls -> 1 .. MaxAttempts]
  /\ left \in [Calls -> Nat]
  /\ budget \in [Calls -> 0 .. Deadline]
  /\ reply \in [Calls -> Answers \cup {"none", "limited", "error"}]
  /\ via \in [Calls -> {"none", "closed", "half-open"}]
  /\ sent \in [Calls -> 0 .. MaxAttempts]
  /\ executed \in [Calls -> 0 .. MaxAttempts]
  /\ result \in [Calls -> Answers \cup {"none", "limited", "error", "refused"}]
  /\ cb \in Breaker(Calls)
  /\ weight \in Nat
  /\ phase \in 0 .. MinuteTicks - 1

Init ==
  /\ pc = [c \in Calls |-> "idle"]
  /\ method = [c \in Calls |-> "GET"]
  /\ attempt = [c \in Calls |-> 1]
  /\ left = [c \in Calls |-> 0]
  /\ budget = [c \in Calls |-> 0]
  /\ reply = [c \in Calls |-> "none"]
  /\ via = [c \in Calls |-> "none"]
  /\ sent = [c \in Calls |-> 0]
  /\ executed = [c \in Calls |-> 0]
  /\ result = [c \in Calls |-> "none"]
  /\ cb = NewBreaker
  /\ weight = 0
  /\ phase \in 0 .. MinuteTicks - 1
-----------------------------------------------------------------------------
(* Circuit breaker, on the way in. *)

\* A new request of worker c starts with a clean history.
Fresh(c, m) ==
  /\ pc[c] = "idle"
  /\ method' = [method EXCEPT ![c] = m]
  /\ sent' = [sent EXCEPT ![c] = 0]
  /\ executed' = [executed EXCEPT ![c] = 0]

\* The breaker is open, or its probe is under way: the request goes nowhere.
Refuse(c, m) ==
  /\ Fresh(c, m)
  /\ Refuses(CurrentState(cb))
  /\ cb' = CurrentState(cb)
  /\ result' = [result EXCEPT ![c] = "refused"]
  /\ UNCHANGED <<pc, attempt, left, budget, reply, via, weight, phase>>

\* The client starts its timeout and the breaker lets the request through.
Admit(c, m) ==
  /\ Fresh(c, m)
  /\ ~Refuses(CurrentState(cb))
  /\ cb' = BeforeRequest(cb, c)
  /\ via' = [via EXCEPT ![c] = CurrentState(cb).state]
  /\ budget' = [budget EXCEPT ![c] = Deadline]
  /\ attempt' = [attempt EXCEPT ![c] = 1]
  /\ result' = [result EXCEPT ![c] = "none"]
  /\ pc' = [pc EXCEPT ![c] = "check"]
  /\ UNCHANGED <<left, reply, weight, phase>>
-----------------------------------------------------------------------------
(* Rate limiter. *)

\* The reading is below the threshold: go on to the transport.
Pass(c) ==
  /\ pc[c] = "check"
  /\ weight < Threshold
  /\ pc' = [pc EXCEPT ![c] = "send"]
  /\ UNCHANGED <<method, attempt, left, budget, reply, via, sent, executed,
                 result, cb, weight, phase>>

\* The reading is hot: sleep to the next minute boundary.
Throttle(c) ==
  /\ pc[c] = "check"
  /\ weight >= Threshold
  /\ pc' = [pc EXCEPT ![c] = "throttle"]
  /\ left' = [left EXCEPT ![c] = MinuteTicks - phase]
  /\ UNCHANGED <<method, attempt, budget, reply, via, sent, executed,
                 result, cb, weight, phase>>

\* The sleeper wakes and clears the shared reading, whatever it is by now.
Unthrottle(c) ==
  /\ pc[c] = "throttle" /\ left[c] = 0
  /\ weight' = 0
  /\ pc' = [pc EXCEPT ![c] = "send"]
  /\ UNCHANGED <<method, attempt, left, budget, reply, via, sent, executed,
                 result, cb, phase>>

\* The transport takes the request while its context is alive ...
Transmit(c) ==
  /\ pc[c] = "send" /\ budget[c] > 0
  /\ sent' = [sent EXCEPT ![c] = @ + 1]
  /\ pc' = [pc EXCEPT ![c] = "wire"]
  /\ UNCHANGED <<method, attempt, left, budget, reply, via, executed, result,
                 cb, weight, phase>>

\* ... and fails it unsent once the client timeout has passed.
Expire(c) ==
  /\ pc[c] = "send" /\ budget[c] = 0
  /\ reply' = [reply EXCEPT ![c] = "error"]
  /\ pc' = [pc EXCEPT ![c] = "decide"]
  /\ UNCHANGED <<method, attempt, left, budget, via, sent, executed, result,
                 cb, weight, phase>>

\* The used-weight header, if there is one, replaces the shared reading.
NoteWeight == weight' \in {weight} \cup Readings

\* The exchange answers.  A 2xx says it acted on the request, a 4xx that it
\* did not; a 5xx says nothing.
Answer(c, r) ==
  /\ pc[c] = "wire"
  /\ \E n \in {0, 1} : /\ r = "ok" => n = 1
                       /\ r = "rejected" => n = 0
                       /\ executed' = [executed EXCEPT ![c] = @ + n]
  /\ reply' = [reply EXCEPT ![c] = r]
  /\ NoteWeight
  /\ pc' = [pc EXCEPT ![c] = "decide"]
  /\ UNCHANGED <<method, attempt, left, budget, via, sent, result, cb, phase>>

\* The exchange answers 429 or 418.  A Retry-After it states is slept, one it
\* leaves out or garbles is taken for a minute.
Limit(c) ==
  /\ pc[c] = "wire"
  /\ reply' = [reply EXCEPT ![c] = "limited"]
  /\ NoteWeight
  /\ \E sleep \in RetryAfters \cup {MinuteTicks} :
       /\ left' = [left EXCEPT ![c] = sleep]
       /\ pc' = [pc EXCEPT ![c] = IF sleep > 0 THEN "cool" ELSE "decide"]
  /\ UNCHANGED <<method, attempt, budget, via, sent, executed, result, cb,
                 phase>>

\* The answer never comes: the connection fails or the client timeout passes.
\* Whether the exchange acts on the request, before or after, is not known.
Lose(c) ==
  /\ pc[c] = "wire"
  /\ \E n \in {0, 1} : executed' = [executed EXCEPT ![c] = @ + n]
  /\ reply' = [reply EXCEPT ![c] = "error"]
  /\ pc' = [pc EXCEPT ![c] = "decide"]
  /\ UNCHANGED <<method, attempt, left, budget, via, sent, result, cb, weight,
                 phase>>

\* Mutant: a client built without a timeout.
NoTimeOut(c) == FALSE /\ Lose(c)

\* http.Client.Timeout cancels the exchange.
TimeOut(c) == budget[c] = 0 /\ Lose(c)

\* The sleep after a 429 is over; the answer goes up the chain.
Thaw(c) ==
  /\ pc[c] = "cool" /\ left[c] = 0
  /\ pc' = [pc EXCEPT ![c] = "decide"]
  /\ UNCHANGED <<method, attempt, left, budget, reply, via, sent, executed,
                 result, cb, weight, phase>>
-----------------------------------------------------------------------------
(* Retry, and the circuit breaker on the way out. *)

\* Mutant: one attempt too many.
RetriesOnceMore(c) == /\ isIdempotent(method[c])
                      /\ reply[c] \in Failures
                      /\ attempt[c] <= MaxAttempts

\* Mutant: orders are retried as well.
RetriesAnything(c) == /\ reply[c] \in Failures
                      /\ attempt[c] < MaxAttempts

\* Mutant: one attempt too few.
RetriesOnceFewer(c) == /\ isIdempotent(method[c])
                       /\ reply[c] \in Failures
                       /\ attempt[c] < MaxAttempts - 1

WantsRetry(c) == /\ isIdempotent(method[c])
                 /\ reply[c] \in Failures
                 /\ attempt[c] < MaxAttempts

\* An idempotent request that failed sleeps before its next attempt.
Backoff(c) ==
  /\ pc[c] = "decide"
  /\ WantsRetry(c)
  /\ \E sleep \in Backoffs : left' = [left EXCEPT ![c] = sleep]
  /\ pc' = [pc EXCEPT ![c] = "backoff"]
  /\ UNCHANGED <<method, attempt, budget, reply, via, sent, executed, result,
                 cb, weight, phase>>

\* Mutant: the attempt is not counted.
ResendsUncounted(c) ==
  /\ pc[c] = "backoff" /\ left[c] = 0
  /\ pc' = [pc EXCEPT ![c] = "check"]
  /\ UNCHANGED <<method, attempt, left, budget, reply, via, sent, executed,
                 result, cb, weight, phase>>

\* time.Sleep is over (it does not watch the context): next attempt.
Resend(c) ==
  /\ pc[c] = "backoff" /\ left[c] = 0
  /\ attempt' = [attempt EXCEPT ![c] = @ + 1]
  /\ pc' = [pc EXCEPT ![c] = "check"]
  /\ UNCHANGED <<method, left, budget, reply, via, sent, executed, result, cb,
                 weight, phase>>

\* Mutant: an unknown outcome is reported as a rejection.
GuessedOutcome(c) == {IF reply[c] = "error" THEN "rejected" ELSE reply[c]}

\* The response as it is; past the client timeout the SDK may also fail to
\* read its body.
Outcome(c) == {reply[c]} \cup {e \in {"error"} : budget[c] = 0}

\* Mutant: a 5xx counts as a success.
AnyResponseSucceeds(c) == reply[c] # "error"

\* Mutant: a 4xx counts as a failure.
OnlyOkSucceeds(c) == reply[c] = "ok"

\* How the breaker counts the call: an error or a 5xx is a failure.
Succeeded(c) == reply[c] \notin Failures

\* Mutant: a call that has timed out leaves without a report.
LeavesUnreported(c) ==
  /\ pc[c] = "decide"
  /\ ~WantsRetry(c)
  /\ cb' = IF budget[c] = 0 THEN cb ELSE AfterRequest(cb, c, Succeeded(c))
  /\ \E r \in Outcome(c) : result' = [result EXCEPT ![c] = r]
  /\ pc' = [pc EXCEPT ![c] = "idle"]
  /\ left' = [left EXCEPT ![c] = 0]
  /\ budget' = [budget EXCEPT ![c] = 0]
  /\ reply' = [reply EXCEPT ![c] = "none"]
  /\ via' = [via EXCEPT ![c] = "none"]
  /\ UNCHANGED <<method, attempt, sent, executed, weight, phase>>

\* The chain returns: the breaker counts the call and hands the response on.
Conclude(c) ==
  /\ pc[c] = "decide"
  /\ ~WantsRetry(c)
  /\ cb' = AfterRequest(cb, c, Succeeded(c))
  /\ \E r \in Outcome(c) : result' = [result EXCEPT ![c] = r]
  /\ pc' = [pc EXCEPT ![c] = "idle"]
  /\ left' = [left EXCEPT ![c] = 0]
  /\ budget' = [budget EXCEPT ![c] = 0]
  /\ reply' = [reply EXCEPT ![c] = "none"]
  /\ via' = [via EXCEPT ![c] = "none"]
  /\ UNCHANGED <<method, attempt, sent, executed, weight, phase>>
-----------------------------------------------------------------------------
(* Time. *)

Ready(c) == \/ pc[c] \in {"check", "send", "decide"}
            \/ Asleep(c) /\ left[c] = 0
            \/ pc[c] = "wire" /\ budget[c] = 0

Countdown(n) == IF n > 0 THEN n - 1 ELSE 0

Tick ==
  /\ Punctual => \A c \in Calls : ~Ready(c)
  /\ phase' = IF phase = MinuteTicks - 1 THEN 0 ELSE phase + 1
  /\ left' = [c \in Calls |-> Countdown(left[c])]
  /\ budget' = [c \in Calls |-> Countdown(budget[c])]
  /\ cb' = Elapse(cb)
  /\ UNCHANGED <<pc, method, attempt, reply, via, sent, executed, result,
                 weight>>

Submit(c) == \E m \in Methods : Refuse(c, m) \/ Admit(c, m)

\* What the process does by itself once a request is under way.
Proceed(c) == \/ Pass(c) \/ Throttle(c) \/ Unthrottle(c)
              \/ Transmit(c) \/ Expire(c) \/ TimeOut(c) \/ Thaw(c)
              \/ Backoff(c) \/ Resend(c) \/ Conclude(c)

\* What the network and the exchange may do.
Exchange(c) == \/ \E r \in Answers : Answer(c, r)
               \/ Limit(c)
               \/ Lose(c)

Next == Tick \/ \E c \in Calls : Submit(c) \/ Proceed(c) \/ Exchange(c)

Spec == Init /\ [][Next]_vars

\* Goroutines run, sleeps end and an expired client timeout cancels the
\* exchange: nothing is assumed of the exchange or of the callers.
Fairness == WF_vars(Tick) /\ \A c \in Calls : WF_vars(Proceed(c))

FairSpec == Spec /\ Fairness
-----------------------------------------------------------------------------
(* What must hold. *)

\* A request that is not idempotent (an order, a cancel, a transfer) reaches
\* the exchange at most once and is acted on at most once, and a read at most
\* once per attempt, whatever is lost, answered with a 5xx or timed out.
AtMostOnce ==
  \A c \in Calls :
    /\ executed[c] <= sent[c]
    /\ method[c] = "POST" => sent[c] <= 1

\* The outcome the adapter is given never contradicts what the exchange did:
\* success means the request was acted on, a refusal by the breaker that it
\* never left, and a 4xx on a state-changing request that nothing happened.
OutcomeHonest ==
  \A c \in Calls : ~Active(c) =>
    /\ result[c] = "ok" => executed[c] > 0
    /\ result[c] = "refused" => sent[c] = 0
    /\ result[c] \in {"rejected", "limited"} /\ method[c] = "POST"
         => executed[c] = 0

\* Of the requests admitted while the breaker was not closed at most one is
\* under way at any time, however many older requests are still sleeping,
\* retrying or reporting.
OneProbe ==
  \A c, d \in Calls : via[c] = "half-open" /\ via[d] = "half-open" => c = d

\* The half-open state is left only through the report of its own probe, and
\* to the side the probe's answer says: a late report of a request admitted
\* before the breaker opened neither closes nor reopens it.
OnlyProbeDecides ==
  [][cb.state = "half-open" /\ cb'.state # "half-open" =>
       \E c \in Calls :
         /\ via[c] = "half-open" /\ pc[c] = "decide" /\ pc'[c] = "idle"
         /\ cb'.state = "closed" <=> reply[c] \notin Failures]_vars

\* The breaker sits above the retries (main.go:46), so it counts calls and not
\* attempts: what brings it nearer to opening is only ever a call that has come
\* to its end in failure, a read after all its attempts.  A read that recovers
\* on a retry is no failure, whatever else reports in the meantime.
TripsOnlyWhenSpent ==
  [][cb'.fails > cb.fails \/ (cb'.state = "open" /\ cb.state # "open") =>
       \E c \in Calls :
         /\ pc[c] = "decide" /\ pc'[c] = "idle" /\ reply[c] \in Failures
         /\ method[c] = "GET" => attempt[c] = MaxAttempts]_vars

\* The breaker refuses a request only for a reason that passes by itself: it is
\* open and cooling, or the one request it lets through is under way.  That
\* request may sleep, be throttled or time out, but its place is given back.
RefusesForNow ==
  Refuses(CurrentState(cb)) =>
    \/ cb.state = "open" /\ cb.cool > 0
    \/ \E c \in cb.members : Active(c) /\ via[c] = "half-open"

\* What a call still has before it: the stages of this attempt and of those to
\* come, and the ticks until it can go on by itself.
Stages       == [idle |-> 0, backoff |-> 0, decide |-> 1, cool |-> 2, wire |-> 3,
                 send |-> 4, throttle |-> 5, check |-> 6]
Remaining(c) == 7 * (MaxAttempts - attempt[c]) + Stages[pc[c]]
Wait(c)      == IF Asleep(c) THEN left[c] ELSE IF pc[c] = "wire" THEN budget[c] ELSE 0

\* No step lengthens a call: its own steps bring it nearer to its end, of which
\* it has at most 7 * MaxAttempts, a tick shortens the wait of one that cannot
\* go on, and nothing another worker does holds it up.
AlwaysNearer ==
  [][\A c \in Calls : Active(c) =>
       \/ ~Active(c)'
       \/ Remaining(c)' < Remaining(c) /\ 0 <= Remaining(c)'
       \/ /\ Remaining(c)' = Remaining(c) /\ pc'[c] = pc[c]
          /\ Wait(c)' <= Wait(c)
          /\ Tick /\ ~Ready(c) => Wait(c)' < Wait(c)]_vars

\* Every request a worker takes into the chain comes back out, even if the
\* exchange never answers anything: the worker is not lost to the server.
EveryCallReturns == \A c \in Calls : Active(c) ~> ~Active(c)

\* When attempts stop failing (the exchange answers, and within the timeout)
\* and callers keep calling, the breaker does not stay open: in the end it is
\* closed again (it may open again later).
BreakerRecovers ==
  /\ <>[][\A c \in Calls : pc[c] \in {"send", "wire"} /\ pc'[c] = "decide" =>
              reply'[c] \notin Failures]_vars
  /\ \A c \in Calls : []<><<Submit(c)>>_vars
  => []<>(cb.state = "closed")

\* The chain implements the contract of Delivery: seen from the adapter, every
\* step of the chain is a step of the contract or none.
Contract == INSTANCE Delivery WITH pending <- [c \in Calls |-> Active(c)]

Delivers == Contract!Spec
-----------------------------------------------------------------------------
(* What a document says and the code does not do. *)

\* README.md:100 of TIMEOUT_SECONDS: "Maximum wait time, in seconds, for HTTP
\* requests": no time passes in a call whose timeout has passed.
TimeoutBoundsWait ==
  [][Tick => \A c \in Calls : Active(c) => budget[c] > 0]_vars
=============================================================================
