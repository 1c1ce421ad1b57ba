-------------------------- MODULE HttpChainProofs --------------------------
(* Proofs about HttpChain, for any number of workers and any value of the     *)
(* other constants: type correctness, AtMostOnce, OutcomeHonest, OneProbe,    *)
(* OnlyProbeDecides, TripsOnlyWhenSpent, that refusals pass and calls are     *)
(* bounded, and that the chain implements Delivery.                           *)
EXTENDS HttpChain, TLAPS

\* Every attempt is sent at most once and acted on at most once per sending,
\* and a request that is not idempotent has one attempt.
Accounting ==
  \A c \in Calls :
    /\ executed[c] <= sent[c]
    /\ sent[c] <= attempt[c]
    /\ pc[c] = "wire" => executed[c] < sent[c]
    /\ pc[c] \in {"check", "throttle", "send"} => sent[c] < attempt[c]
    /\ pc[c] = "backoff" => attempt[c] < MaxAttempts /\ method[c] = "GET"
    /\ method[c] = "POST" => sent[c] <= 1 /\ (Active(c) => attempt[c] = 1)

\* What an answer under way up the chain says of the exchange is true.
Honesty ==
  \A c \in Calls :
    /\ pc[c] = "cool" => reply[c] = "limited"
    /\ pc[c] = "decide" => reply[c] # "none"
    /\ pc[c] \in {"cool", "decide"} =>
         /\ reply[c] = "ok" => executed[c] > 0
         /\ reply[c] \in {"rejected", "limited"} /\ method[c] = "POST"
              => executed[c] = 0

\* The probe is the one member of a half-open breaker; an open breaker has
\* none, and what was admitted half-open is under way only while it is.
Probing ==
  /\ \A c \in Calls :
       /\ via[c] # "none" => Active(c)
       /\ c \in cb.members => via[c] # "none"
       /\ via[c] = "half-open" => cb.state = "half-open" /\ cb.members = {c}
       /\ cb.state = "half-open" /\ c \in cb.members => via[c] = "half-open"
  /\ cb.state = "open" => cb.members = {}

IInv == TypeOK /\ Accounting /\ Honesty /\ OutcomeHonest /\ Probing

\* The invariant holds at the start: nobody has called, the breaker is closed.
LEMMA InitIInv == Init => IInv
<1> USE BreakerAssumption, ChainAssumption
<1> SUFFICES ASSUME Init PROVE IInv
  OBVIOUS
<1>1. TypeOK
  BY DEF Init, TypeOK, Methods, Answers, Breaker, NewBreaker, Enter
<1>2. Accounting
  BY DEF Init, Accounting, Active
<1>3. Honesty /\ OutcomeHonest
  BY DEF Init, Honesty, OutcomeHonest, Active
<1>4. Probing
  BY DEF Init, Probing, NewBreaker, Enter, Active
<1> QED
  BY <1>1, <1>2, <1>3, <1>4 DEF IInv

\* The breaker's operators keep a breaker well formed.
LEMMA BreakerTypes ==
  ASSUME NEW b \in Breaker(Calls), NEW c \in Calls, NEW s \in BOOLEAN
  PROVE  /\ CurrentState(b) \in Breaker(Calls)
         /\ BeforeRequest(b, c) \in Breaker(Calls)
         /\ AfterRequest(b, c, s) \in Breaker(Calls)
<1> USE BreakerAssumption
<1>1. \A t \in {"closed", "open", "half-open"} : Enter(t) \in Breaker(Calls)
  BY DEF Enter, Breaker
<1>2. CurrentState(b) \in Breaker(Calls)
  BY <1>1 DEF CurrentState
<1>3. BeforeRequest(b, c) \in Breaker(Calls)
  BY <1>2 DEF BeforeRequest, Breaker
<1>4. ASSUME NEW n \in Breaker(Calls)
      PROVE  OnSuccess(n, c) \in Breaker(Calls) /\ OnFailure(n, c) \in Breaker(Calls)
  <2>1. OnSuccess(n, c) \in Breaker(Calls)
    <3>1. n.members \ {c} \in SUBSET Calls /\ 0 \in 0 .. TripAfter
      BY DEF Breaker
    <3>2. [n EXCEPT !.fails = 0, !.members = @ \ {c}] \in Breaker(Calls)
      BY <3>1 DEF Breaker
    <3>3. CASE n.state = "closed"
      BY <3>2, <3>3 DEF OnSuccess
    <3>4. CASE n.state # "closed"
      BY <1>1, <3>4 DEF OnSuccess
    <3> QED
      BY <3>3, <3>4
  <2>2. CASE n.state = "closed" /\ ~ReadyToTrip(n.fails + 1)
    <3>1. n.fails + 1 \in 0 .. TripAfter /\ n.members \ {c} \in SUBSET Calls
      BY <2>2 DEF ReadyToTrip, Breaker
    <3> QED
      BY <2>1, <2>2, <3>1 DEF OnFailure, Breaker
  <2>3. CASE ~(n.state = "closed" /\ ~ReadyToTrip(n.fails + 1))
    BY <1>1, <2>1, <2>3 DEF OnFailure
  <2> QED
    BY <2>2, <2>3
<1>5. AfterRequest(b, c, s) \in Breaker(Calls)
  BY <1>2, <1>4 DEF AfterRequest
<1> QED
  BY <1>2, <1>3, <1>5

\* Types are kept; Accounting is what bounds the attempts and the sends.
LEMMA TypeStep == TypeOK /\ Accounting /\ [Next]_vars => TypeOK'
<1> USE BreakerAssumption, ChainAssumption
<1> SUFFICES ASSUME TypeOK, Accounting, [Next]_vars PROVE TypeOK'
  OBVIOUS
<1> USE DEF TypeOK, Methods, Answers
<1>1. ASSUME NEW c \in Calls, NEW m \in Methods, Refuse(c, m) PROVE TypeOK'
  BY <1>1, BreakerTypes DEF Refuse, Fresh
<1>2. ASSUME NEW c \in Calls, NEW m \in Methods, Admit(c, m) PROVE TypeOK'
  <2>1. CurrentState(cb).state \in {"closed", "half-open"}
    BY <1>2, BreakerTypes DEF Admit, Refuses, Breaker
  <2> QED
    BY <1>2, <2>1, BreakerTypes DEF Admit, Fresh
<1>3. ASSUME NEW c \in Calls, Pass(c) PROVE TypeOK'
  BY <1>3 DEF Pass
<1>4. ASSUME NEW c \in Calls, Throttle(c) PROVE TypeOK'
  BY <1>4 DEF Throttle
<1>5. ASSUME NEW c \in Calls, Unthrottle(c) PROVE TypeOK'
  BY <1>5 DEF Unthrottle
<1>6. ASSUME NEW c \in Calls, Transmit(c) PROVE TypeOK'
  BY <1>6 DEF Transmit, Accounting
<1>7. ASSUME NEW c \in Calls, Expire(c) PROVE TypeOK'
  BY <1>7 DEF Expire
<1>8. ASSUME NEW c \in Calls, NEW r \in Answers, Answer(c, r) PROVE TypeOK'
  BY <1>8 DEF Answer, NoteWeight, Accounting
<1>9. ASSUME NEW c \in Calls, Limit(c) PROVE TypeOK'
  BY <1>9 DEF Limit, NoteWeight
<1>10. ASSUME NEW c \in Calls, Lose(c) PROVE TypeOK'
  BY <1>10 DEF Lose, Accounting
<1>11. ASSUME NEW c \in Calls, Thaw(c) PROVE TypeOK'
  BY <1>11 DEF Thaw
<1>12. ASSUME NEW c \in Calls, Backoff(c) PROVE TypeOK'
  <2>1. PICK sleep \in Backoffs : left' = [left EXCEPT ![c] = sleep]
    BY <1>12 DEF Backoff
  <2> QED
    BY <1>12, <2>1 DEF Backoff
<1>13. ASSUME NEW c \in Calls, Resend(c) PROVE TypeOK'
  BY <1>13 DEF Resend, Accounting
<1>14. ASSUME NEW c \in Calls, Conclude(c) PROVE TypeOK'
  <2>1. cb' \in Breaker(Calls)
    BY <1>14, BreakerTypes DEF Conclude, Succeeded
  <2>2. PICK r \in Outcome(c) : result' = [result EXCEPT ![c] = r]
    BY <1>14 DEF Conclude
  <2>3. r \in Answers \cup {"none", "limited", "error", "refused"}
    BY DEF Outcome
  <2> QED
    BY <1>14, <2>1, <2>2, <2>3 DEF Conclude
<1>15. CASE Tick
  <2>1. \A n \in Nat : Countdown(n) \in Nat /\ Countdown(n) <= n
    BY DEF Countdown
  <2>2. left' \in [Calls -> Nat]
    BY <1>15, <2>1 DEF Tick
  <2>3. budget' \in [Calls -> 0 .. Deadline]
    BY <1>15, <2>1 DEF Tick
  <2>4. cb' \in Breaker(Calls)
    BY <1>15 DEF Tick, Elapse, Breaker
  <2>5. phase' \in 0 .. MinuteTicks - 1
    BY <1>15 DEF Tick
  <2> QED
    BY <1>15, <2>2, <2>3, <2>4, <2>5 DEF Tick
<1>16. CASE UNCHANGED vars
  BY <1>16 DEF vars
<1> QED
  BY <1>1, <1>2, <1>3, <1>4, <1>5, <1>6, <1>7, <1>8, <1>9, <1>10, <1>11,
     <1>12, <1>13, <1>14, <1>15, <1>16
  DEF Next, Submit, Proceed, Exchange, TimeOut

\* Every send is accounted for by an attempt of its own.
LEMMA AccountingStep ==
  TypeOK /\ Accounting /\ [Next]_vars => Accounting'
<1> USE BreakerAssumption, ChainAssumption
<1> SUFFICES ASSUME TypeOK, Accounting, [Next]_vars PROVE Accounting'
  OBVIOUS
<1> USE DEF TypeOK, Accounting, Active
<1>1. ASSUME NEW c \in Calls, NEW m \in Methods, Refuse(c, m) PROVE Accounting'
  BY <1>1 DEF Refuse, Fresh
<1>2. ASSUME NEW c \in Calls, NEW m \in Methods, Admit(c, m) PROVE Accounting'
  BY <1>2 DEF Admit, Fresh
<1>3. ASSUME NEW c \in Calls, Pass(c) PROVE Accounting'
  BY <1>3 DEF Pass
<1>4. ASSUME NEW c \in Calls, Throttle(c) PROVE Accounting'
  BY <1>4 DEF Throttle
<1>5. ASSUME NEW c \in Calls, Unthrottle(c) PROVE Accounting'
  BY <1>5 DEF Unthrottle
<1>6. ASSUME NEW c \in Calls, Transmit(c) PROVE Accounting'
  BY <1>6 DEF Transmit
<1>7. ASSUME NEW c \in Calls, Expire(c) PROVE Accounting'
  BY <1>7 DEF Expire
<1>8. ASSUME NEW c \in Calls, NEW r \in Answers, Answer(c, r) PROVE Accounting'
  BY <1>8 DEF Answer
<1>9. ASSUME NEW c \in Calls, Limit(c) PROVE Accounting'
  BY <1>9 DEF Limit
<1>10. ASSUME NEW c \in Calls, Lose(c) PROVE Accounting'
  BY <1>10 DEF Lose
<1>11. ASSUME NEW c \in Calls, Thaw(c) PROVE Accounting'
  BY <1>11 DEF Thaw
<1>12. ASSUME NEW c \in Calls, Backoff(c) PROVE Accounting'
  BY <1>12 DEF Backoff, WantsRetry, isIdempotent, Methods
<1>13. ASSUME NEW c \in Calls, Resend(c) PROVE Accounting'
  BY <1>13 DEF Resend
<1>14. ASSUME NEW c \in Calls, Conclude(c) PROVE Accounting'
  BY <1>14 DEF Conclude
<1>15. CASE Tick
  BY <1>15 DEF Tick
<1>16. CASE UNCHANGED vars
  BY <1>16 DEF vars
<1> QED
  BY <1>1, <1>2, <1>3, <1>4, <1>5, <1>6, <1>7, <1>8, <1>9, <1>10, <1>11,
     <1>12, <1>13, <1>14, <1>15, <1>16
  DEF Next, Submit, Proceed, Exchange, TimeOut

\* A reply says what the exchange did, on each hop it is passed up.
LEMMA HonestyStep ==
  TypeOK /\ Accounting /\ Honesty /\ OutcomeHonest /\ [Next]_vars => (Honesty /\ OutcomeHonest)'
<1> USE BreakerAssumption, ChainAssumption
<1> SUFFICES ASSUME TypeOK, Accounting, Honesty, OutcomeHonest, [Next]_vars PROVE (Honesty /\ OutcomeHonest)'
  OBVIOUS
<1> USE DEF TypeOK, Accounting, Honesty, OutcomeHonest, Active, Methods, Answers
<1>1. ASSUME NEW c \in Calls, NEW m \in Methods, Refuse(c, m) PROVE (Honesty /\ OutcomeHonest)'
  BY <1>1 DEF Refuse, Fresh
<1>2. ASSUME NEW c \in Calls, NEW m \in Methods, Admit(c, m) PROVE (Honesty /\ OutcomeHonest)'
  BY <1>2 DEF Admit, Fresh
<1>3. ASSUME NEW c \in Calls, Pass(c) PROVE (Honesty /\ OutcomeHonest)'
  BY <1>3 DEF Pass
<1>4. ASSUME NEW c \in Calls, Throttle(c) PROVE (Honesty /\ OutcomeHonest)'
  BY <1>4 DEF Throttle
<1>5. ASSUME NEW c \in Calls, Unthrottle(c) PROVE (Honesty /\ OutcomeHonest)'
  BY <1>5 DEF Unthrottle
<1>6. ASSUME NEW c \in Calls, Transmit(c) PROVE (Honesty /\ OutcomeHonest)'
  BY <1>6 DEF Transmit
<1>7. ASSUME NEW c \in Calls, Expire(c) PROVE (Honesty /\ OutcomeHonest)'
  BY <1>7 DEF Expire
<1>8. ASSUME NEW c \in Calls, NEW r \in Answers, Answer(c, r) PROVE (Honesty /\ OutcomeHonest)'
  BY <1>8 DEF Answer
<1>9. ASSUME NEW c \in Calls, Limit(c) PROVE (Honesty /\ OutcomeHonest)'
  BY <1>9 DEF Limit
<1>10. ASSUME NEW c \in Calls, Lose(c) PROVE (Honesty /\ OutcomeHonest)'
  BY <1>10 DEF Lose
<1>11. ASSUME NEW c \in Calls, Thaw(c) PROVE (Honesty /\ OutcomeHonest)'
  BY <1>11 DEF Thaw
<1>12. ASSUME NEW c \in Calls, Backoff(c) PROVE (Honesty /\ OutcomeHonest)'
  BY <1>12 DEF Backoff
<1>13. ASSUME NEW c \in Calls, Resend(c) PROVE (Honesty /\ OutcomeHonest)'
  BY <1>13 DEF Resend
<1>14. ASSUME NEW c \in Calls, Conclude(c) PROVE (Honesty /\ OutcomeHonest)'
  BY <1>14 DEF Conclude, Outcome
<1>15. CASE Tick
  BY <1>15 DEF Tick
<1>16. CASE UNCHANGED vars
  BY <1>16 DEF vars
<1> QED
  BY <1>1, <1>2, <1>3, <1>4, <1>5, <1>6, <1>7, <1>8, <1>9, <1>10, <1>11,
     <1>12, <1>13, <1>14, <1>15, <1>16
  DEF Next, Submit, Proceed, Exchange, TimeOut

\* A half-open breaker keeps waiting for its one probe.
LEMMA ProbingStep ==
  TypeOK /\ Probing /\ [Next]_vars => Probing'
<1> USE BreakerAssumption, ChainAssumption
<1> SUFFICES ASSUME TypeOK, Probing, [Next]_vars PROVE Probing'
  OBVIOUS
<1> USE DEF TypeOK, Probing, Active, Breaker
<1>1. ASSUME NEW c \in Calls, NEW m \in Methods, Refuse(c, m) PROVE Probing'
  BY <1>1 DEF Refuse, Fresh, CurrentState, Enter
<1>2. ASSUME NEW c \in Calls, NEW m \in Methods, Admit(c, m) PROVE Probing'
  BY <1>2 DEF Admit, Fresh, Refuses, BeforeRequest, CurrentState, Enter
<1>3. ASSUME NEW c \in Calls, Pass(c) PROVE Probing'
  BY <1>3 DEF Pass
<1>4. ASSUME NEW c \in Calls, Throttle(c) PROVE Probing'
  BY <1>4 DEF Throttle
<1>5. ASSUME NEW c \in Calls, Unthrottle(c) PROVE Probing'
  BY <1>5 DEF Unthrottle
<1>6. ASSUME NEW c \in Calls, Transmit(c) PROVE Probing'
  BY <1>6 DEF Transmit
<1>7. ASSUME NEW c \in Calls, Expire(c) PROVE Probing'
  BY <1>7 DEF Expire
<1>8. ASSUME NEW c \in Calls, NEW r \in Answers, Answer(c, r) PROVE Probing'
  BY <1>8 DEF Answer
<1>9. ASSUME NEW c \in Calls, Limit(c) PROVE Probing'
  BY <1>9 DEF Limit
<1>10. ASSUME NEW c \in Calls, Lose(c) PROVE Probing'
  BY <1>10 DEF Lose
<1>11. ASSUME NEW c \in Calls, Thaw(c) PROVE Probing'
  BY <1>11 DEF Thaw
<1>12. ASSUME NEW c \in Calls, Backoff(c) PROVE Probing'
  BY <1>12 DEF Backoff
<1>13. ASSUME NEW c \in Calls, Resend(c) PROVE Probing'
  BY <1>13 DEF Resend
<1>14. ASSUME NEW c \in Calls, Conclude(c) PROVE Probing'
  BY <1>14 DEF Conclude, AfterRequest, OnSuccess, OnFailure, CurrentState, Enter
<1>15. CASE Tick
  BY <1>15 DEF Tick, Elapse
<1>16. CASE UNCHANGED vars
  BY <1>16 DEF vars
<1> QED
  BY <1>1, <1>2, <1>3, <1>4, <1>5, <1>6, <1>7, <1>8, <1>9, <1>10, <1>11,
     <1>12, <1>13, <1>14, <1>15, <1>16
  DEF Next, Submit, Proceed, Exchange, TimeOut

\* The four parts together are an invariant of the chain.
LEMMA Invariance == Spec => []IInv
<1>1. Init => IInv
  BY InitIInv
<1>2. IInv /\ [Next]_vars => IInv'
  BY TypeStep, AccountingStep, HonestyStep, ProbingStep DEF IInv
<1> QED
  BY <1>1, <1>2, PTL DEF Spec

\* Every variable keeps its type in every reachable state.
THEOREM TypeCorrect == Spec => []TypeOK
  BY Invariance, PTL DEF IInv

\* Orders, cancels and transfers are never replayed by the retry loop
\* (retry.go:53) and a read is acted on at most once per attempt.
THEOREM NeverReplayed == Spec => []AtMostOnce
<1>1. IInv => AtMostOnce
  BY DEF IInv, Accounting, AtMostOnce
<1> QED
  BY <1>1, Invariance, PTL

\* No outcome handed to the adapter contradicts what the exchange did.
THEOREM Honest == Spec => []OutcomeHonest
  BY Invariance, PTL DEF IInv

\* A breaker that is not closed has at most one request of its own under way.
THEOREM SingleProbe == Spec => []OneProbe
<1>1. IInv => OneProbe
  BY DEF IInv, Probing, OneProbe
<1> QED
  BY <1>1, Invariance, PTL

\* Half-open is left only by the probe's report, to the side its answer says.
THEOREM ProbeDecides == Spec => OnlyProbeDecides
<1> DEFINE Decides ==
      cb.state = "half-open" /\ cb'.state # "half-open" =>
        \E c \in Calls :
          /\ via[c] = "half-open" /\ pc[c] = "decide" /\ pc'[c] = "idle"
          /\ cb'.state = "closed" <=> reply[c] \notin Failures
<1>1. IInv /\ [Next]_vars => [Decides]_vars
  <2> SUFFICES ASSUME IInv, Next, cb.state = "half-open",
                      cb'.state # "half-open"
               PROVE  \E c \in Calls :
                        /\ via[c] = "half-open" /\ pc[c] = "decide"
                        /\ pc'[c] = "idle"
                        /\ cb'.state = "closed" <=> reply[c] \notin Failures
    OBVIOUS
  <2> USE DEF IInv, TypeOK, Probing, Breaker
  <2>1. CASE Tick
    BY <2>1 DEF Tick, Elapse
  <2>2. ASSUME NEW c \in Calls, Submit(c) PROVE FALSE
    BY <2>2 DEF Submit, Refuse, Admit, CurrentState, BeforeRequest
  <2>3. ASSUME NEW c \in Calls, Conclude(c)
        PROVE  /\ via[c] = "half-open" /\ pc[c] = "decide" /\ pc'[c] = "idle"
               /\ cb'.state = "closed" <=> reply[c] \notin Failures
    BY <2>3 DEF Conclude, Succeeded, AfterRequest, OnSuccess, OnFailure,
                CurrentState, Enter
  <2>4. ASSUME NEW c \in Calls, Proceed(c), ~Conclude(c) PROVE UNCHANGED cb
    BY <2>4 DEF Proceed, Pass, Throttle, Unthrottle, Transmit, Expire, TimeOut,
                Lose, Thaw, Backoff, Resend
  <2>5. ASSUME NEW c \in Calls, Exchange(c) PROVE UNCHANGED cb
    BY <2>5 DEF Exchange, Answer, Limit, Lose
  <2> QED
    BY <2>1, <2>2, <2>3, <2>4, <2>5 DEF Next
<1> QED
  BY <1>1, Invariance, PTL DEF Spec, OnlyProbeDecides

\* The breaker never refuses for good: an open one has no members, so that it is
\* left by time alone, and the one member of a half-open one is a call under way.
THEOREM RefusalsPass == Spec => []RefusesForNow
<1>1. IInv => RefusesForNow
  <2> SUFFICES ASSUME IInv, Refuses(CurrentState(cb)), ~(cb.state = "open" /\ cb.cool > 0)
               PROVE  \E c \in cb.members : Active(c) /\ via[c] = "half-open"
    BY DEF RefusesForNow
  <2> USE DEF IInv, TypeOK, Breaker
  <2>1. cb.state = "half-open" /\ cb.members # {}
    BY DEF Refuses, CurrentState, Enter
  <2>2. PICK c \in cb.members : c \in Calls
    BY <2>1
  <2> QED
    BY <2>1, <2>2 DEF Probing
<1> QED
  BY <1>1, Invariance, PTL

\* Every call is bounded: it has at most 7 * MaxAttempts steps of its own, no
\* tick is lost on it and no other worker can put it back.  What is left to
\* fairness is only that these steps and ticks are taken.
THEOREM NeverLengthened == Spec => AlwaysNearer
<1> USE BreakerAssumption, ChainAssumption
<1> DEFINE Nearer(c) ==
      \/ ~Active(c)'
      \/ Remaining(c)' < Remaining(c) /\ 0 <= Remaining(c)'
      \/ /\ Remaining(c)' = Remaining(c) /\ pc'[c] = pc[c]
         /\ Wait(c)' <= Wait(c)
         /\ Tick /\ ~Ready(c) => Wait(c)' < Wait(c)
<1>1. IInv /\ [Next]_vars => [\A c \in Calls : Active(c) => Nearer(c)]_vars
  <2> SUFFICES ASSUME IInv, Next, NEW c \in Calls, Active(c)
               PROVE  Nearer(c)
    OBVIOUS
  <2> USE DEF IInv, TypeOK, Active
  <2>1. CASE Tick
    <3>1. UNCHANGED <<pc, attempt>> /\ Remaining(c)' = Remaining(c)
      BY <2>1 DEF Tick, Remaining
    <3>2. left'[c] = Countdown(left[c]) /\ budget'[c] = Countdown(budget[c])
      BY <2>1 DEF Tick
    <3>3. Wait(c)' <= Wait(c) /\ (~Ready(c) => Wait(c)' < Wait(c))
      BY <3>1, <3>2 DEF Wait, Ready, Asleep, Countdown
    <3> QED
      BY <3>1, <3>3
  <2>2. CASE ~Tick
    <3>1. ASSUME NEW d \in Calls, d # c, Submit(d) \/ Proceed(d) \/ Exchange(d)
          PROVE  /\ pc'[c] = pc[c] /\ attempt'[c] = attempt[c]
                 /\ left'[c] = left[c] /\ budget'[c] = budget[c]
      BY <3>1 DEF Submit, Refuse, Admit, Fresh, Proceed, Exchange, Pass, Throttle,
              Unthrottle, Transmit, Expire, TimeOut, Lose, Thaw, Backoff, Resend,
              Conclude, Answer, Limit
    <3>2. ASSUME NEW d \in Calls, d # c, Submit(d) \/ Proceed(d) \/ Exchange(d)
          PROVE  Nearer(c)
      <4>1. Remaining(c)' = Remaining(c) /\ Wait(c)' = Wait(c)
        BY <3>1, <3>2 DEF Remaining, Wait, Asleep
      <4>2. Wait(c) \in Nat
        BY DEF Wait
      <4> QED
        BY <2>2, <3>1, <3>2, <4>1, <4>2
    <3>3. ASSUME Proceed(c) \/ Exchange(c), ~Resend(c), ~Conclude(c)
          PROVE  /\ attempt'[c] = attempt[c]
                 /\ Stages[pc'[c]] < Stages[pc[c]] /\ 0 <= Stages[pc'[c]]
      BY <3>3 DEF Proceed, Exchange, Pass, Throttle, Unthrottle, Transmit, Expire,
              TimeOut, Lose, Thaw, Backoff, Answer, Limit, Stages
    <3>4. CASE Resend(c)
      <4>1. attempt'[c] = attempt[c] + 1 /\ attempt[c] < MaxAttempts
        BY <3>4 DEF Resend, Accounting
      <4>2. pc[c] = "backoff" /\ pc'[c] = "check"
        BY <3>4 DEF Resend
      <4> QED
        BY <4>1, <4>2 DEF Remaining, Stages
    <3>5. CASE Conclude(c)
      BY <3>5 DEF Conclude
    <3>6. ASSUME Proceed(c) \/ Exchange(c), ~Resend(c), ~Conclude(c)
          PROVE  Nearer(c)
      <4>1. Stages[pc[c]] \in Nat /\ Stages[pc'[c]] \in Nat
        <5>1. pc'[c] \in DOMAIN Stages
          BY <3>6 DEF Proceed, Exchange, Pass, Throttle, Unthrottle, Transmit,
                  Expire, TimeOut, Lose, Thaw, Backoff, Answer, Limit, Stages
        <5> QED
          BY <5>1 DEF Stages
      <4>2. Remaining(c)' = 7 * (MaxAttempts - attempt'[c]) + Stages[pc'[c]]
        BY DEF Remaining, Stages
      <4> QED
        BY <3>3, <3>6, <4>1, <4>2 DEF Remaining
    <3>7. ~Submit(c)
      BY DEF Submit, Refuse, Admit, Fresh
    <3> QED
      BY <2>2, <3>2, <3>4, <3>5, <3>6, <3>7 DEF Next
  <2> QED
    BY <2>1, <2>2
<1> QED
  BY <1>1, Invariance, PTL DEF Spec, AlwaysNearer

\* What brings the breaker nearer to opening is a call that has failed for good:
\* a read only after its last attempt.
THEOREM SpentBeforeTrip == Spec => TripsOnlyWhenSpent
<1> USE BreakerAssumption, ChainAssumption
<1> DEFINE Nearer == cb'.fails > cb.fails \/ (cb'.state = "open" /\ cb.state # "open")
           Spent(c) == /\ pc[c] = "decide" /\ pc'[c] = "idle" /\ reply[c] \in Failures
                       /\ method[c] = "GET" => attempt[c] = MaxAttempts
<1>1. IInv /\ [Next]_vars => [Nearer => \E c \in Calls : Spent(c)]_vars
  <2> SUFFICES ASSUME IInv, Next, Nearer PROVE \E c \in Calls : Spent(c)
    OBVIOUS
  <2> USE DEF IInv, TypeOK, Breaker
  <2>1. CASE Tick
    BY <2>1 DEF Tick, Elapse
  <2>2. ASSUME NEW c \in Calls, Submit(c) PROVE FALSE
    BY <2>2 DEF Submit, Refuse, Admit, CurrentState, BeforeRequest, Enter
  <2>3. ASSUME NEW c \in Calls, Conclude(c) PROVE Spent(c)
    <3>1. ~Succeeded(c)
      BY <2>3 DEF Conclude, AfterRequest, OnSuccess, CurrentState, Enter
    <3>2. method[c] = "GET" => attempt[c] = MaxAttempts
      BY <2>3, <3>1 DEF Conclude, Succeeded, WantsRetry, isIdempotent
    <3> QED
      BY <2>3, <3>1, <3>2 DEF Conclude, Succeeded
  <2>4. ASSUME NEW c \in Calls, Proceed(c), ~Conclude(c) PROVE UNCHANGED cb
    BY <2>4 DEF Proceed, Pass, Throttle, Unthrottle, Transmit, Expire, TimeOut,
                Lose, Thaw, Backoff, Resend
  <2>5. ASSUME NEW c \in Calls, Exchange(c) PROVE UNCHANGED cb
    BY <2>5 DEF Exchange, Answer, Limit, Lose
  <2> QED
    BY <2>1, <2>2, <2>3, <2>4, <2>5 DEF Next
<1> QED
  BY <1>1, Invariance, PTL DEF Spec, TripsOnlyWhenSpent

\* One step of the chain is one step of the contract, or none.
LEMMA ContractStep == IInv /\ [Next]_vars => [Contract!Next]_Contract!vars
<1> USE BreakerAssumption, ChainAssumption
<1> SUFFICES ASSUME IInv, [Next]_vars
             PROVE  Contract!Next \/ UNCHANGED Contract!vars
  OBVIOUS
<1> USE DEF IInv, TypeOK, Methods, Answers, Active, Contract!vars
<1> DEFINE same == UNCHANGED <<method, executed, result>> /\ \A d \in Calls : Active(d)' = Active(d)
<1>0. same => UNCHANGED Contract!vars
  OBVIOUS
<1>1. ASSUME NEW c \in Calls, NEW m \in Methods, Refuse(c, m)
      PROVE  Contract!Refuse(c, m)
  BY <1>1 DEF Refuse, Fresh, Contract!Refuse
<1>2. ASSUME NEW c \in Calls, NEW m \in Methods, Admit(c, m)
      PROVE  Contract!Start(c, m)
  BY <1>2 DEF Admit, Fresh, Contract!Start
<1>3. ASSUME NEW c \in Calls,
             Pass(c) \/ Throttle(c) \/ Unthrottle(c) \/ Transmit(c) \/ Expire(c)
             \/ Limit(c) \/ Thaw(c) \/ Backoff(c) \/ Resend(c)
      PROVE  same
  BY <1>3 DEF Pass, Throttle, Unthrottle, Transmit, Expire, Limit, Thaw,
              Backoff, Resend
<1>4. ASSUME NEW c \in Calls, pc[c] = "wire", pc' = [pc EXCEPT ![c] = "decide"],
             NEW n \in {0, 1}, executed' = [executed EXCEPT ![c] = @ + n],
             UNCHANGED <<method, result>>
      PROVE  Contract!Execute(c) \/ same
  <2>1. CASE n = 0
    <3>1. UNCHANGED executed
      BY <1>4, <2>1
    <3> QED
      BY <1>4, <3>1
  <2>2. CASE n = 1
    <3>1. executed[c] < Contract!Bound(method[c])
      BY <1>4 DEF Accounting, Contract!Bound
    <3> QED
      BY <1>4, <2>2, <3>1 DEF Contract!Execute
  <2> QED
    BY <2>1, <2>2
<1>5. ASSUME NEW c \in Calls, NEW r \in Answers, Answer(c, r)
      PROVE  Contract!Execute(c) \/ same
  BY <1>4, <1>5 DEF Answer
<1>6. ASSUME NEW c \in Calls, Lose(c) PROVE Contract!Execute(c) \/ same
  BY <1>4, <1>6 DEF Lose
<1>7. ASSUME NEW c \in Calls, Conclude(c)
      PROVE  \E r \in Contract!Outcomes : Contract!Finish(c, r)
  <2>1. PICK r \in Outcome(c) : result' = [result EXCEPT ![c] = r]
    BY <1>7 DEF Conclude
  <2>2. r \in Contract!Outcomes
    BY <1>7, <2>1 DEF Conclude, Outcome, Honesty, Contract!Outcomes
  <2>3. Contract!Truthful(r, method[c], executed[c])
    BY <1>7, <2>1 DEF Conclude, Outcome, Honesty, Contract!Truthful
  <2>4. Contract!Finish(c, r)
    BY <1>7, <2>1, <2>3 DEF Conclude, Contract!Finish
  <2> QED
    BY <2>2, <2>4
<1>8. CASE Tick
  BY <1>8 DEF Tick
<1>9. CASE UNCHANGED vars
  BY <1>9 DEF vars
<1>10. Methods = Contract!Methods
  BY DEF Contract!Methods
<1> QED
  BY <1>0, <1>1, <1>2, <1>3, <1>5, <1>6, <1>7, <1>8, <1>9, <1>10
  DEF Next, Submit, Proceed, Exchange, TimeOut, Contract!Next

\* The chain implements the contract of Delivery.
THEOREM ImplementsDelivery == Spec => Delivers
<1>1. Init => Contract!Init
  BY DEF Init, Contract!Init, Active
<1>2. IInv /\ [Next]_vars => [Contract!Next]_Contract!vars
  BY ContractStep
<1> QED
  BY <1>1, <1>2, Invariance, PTL DEF Spec, Delivers, Contract!Spec
=============================================================================
