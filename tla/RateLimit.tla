----------------------------- MODULE RateLimit -----------------------------
(* The used-weight limiter (ratelimit.go) against an exchange that really     *)
(* counts: several workers share one usedWeight, each host of the exchange    *)
(* adds up the weight it served since the minute began, states the sum in     *)
(* every answer, and answers 429 from its limit on.  HttpChain leaves the     *)
(* reading open; here it is the exchange's, and travels with the answer.      *)
(*                                                                            *)
(* Time is the minute boundary alone: a throttled worker sleeps across it.    *)
(* The exchange's minute and the process's clock are taken to agree.          *)
EXTENDS Naturals, FiniteSets

CONSTANTS Calls,      \* the workers
          Hosts,      \* API hosts (spot, futures, options), one counter each
          Threshold,  \* weightThreshold
          BanLimit,   \* weight at which a host answers 429 (weightLimit)
          Costs,      \* weights a request can have
          Lossy,      \* may answers be lost, or come without the header?
          LateCap     \* bound: the history "late" stops counting here

ASSUME LimitAssumption ==
  /\ IsFiniteSet(Calls) /\ Calls # {}
  /\ Threshold \in Nat \ {0}
  /\ BanLimit \in Nat /\ BanLimit >= Threshold
  /\ Costs \subseteq Nat \ {0}
  /\ Lossy \in BOOLEAN
  /\ LateCap \in Nat

VARIABLES pc,       \* where each worker is
          host,     \* the host its request goes to
          reading,  \* the used weight its answer states
          limited,  \* is that answer a 429 or 418?
          weight,   \* usedWeight, shared
          used,     \* weight each host has counted in this minute
          lost,     \* history: an answer was lost in this minute
          late      \* history: requests each host served at or over Threshold

vars == <<pc, host, reading, limited, weight, used, late, lost>>

TypeOK ==
  /\ pc \in [Calls -> {"idle", "throttle", "awake", "send", "reply", "cool"}]
  /\ host \in [Calls -> Hosts]
  /\ reading \in [Calls -> 0 .. BanLimit]
  /\ limited \in [Calls -> BOOLEAN]
  /\ weight \in 0 .. BanLimit
  /\ used \in [Hosts -> 0 .. BanLimit]
  /\ lost \in BOOLEAN
  /\ late \in [Hosts -> 0 .. LateCap]

Init ==
  /\ pc = [c \in Calls |-> "idle"]
  /\ host \in [Calls -> Hosts]
  /\ reading = [c \in Calls |-> 0]
  /\ limited = [c \in Calls |-> FALSE]
  /\ weight = 0
  /\ used = [h \in Hosts |-> 0]
  /\ late = [h \in Hosts |-> 0]
  /\ lost = FALSE

\* Mutant: the threshold itself still passes.
ChecksAbove(c, h) ==
  /\ pc[c] = "idle"
  /\ host' = [host EXCEPT ![c] = h]
  /\ pc' = [pc EXCEPT ![c] = IF weight > Threshold THEN "throttle" ELSE "send"]
  /\ UNCHANGED <<reading, limited, weight, used, late, lost>>

\* Mutant: the limit is compared with, not the threshold below it.
ChecksLimit(c, h) ==
  /\ pc[c] = "idle"
  /\ host' = [host EXCEPT ![c] = h]
  /\ pc' = [pc EXCEPT ![c] = IF weight >= BanLimit THEN "throttle" ELSE "send"]
  /\ UNCHANGED <<reading, limited, weight, used, late, lost>>

\* A request arrives and the shared reading is loaded, once: hot means sleep
\* to the next minute boundary, otherwise the request goes out.
Check(c, h) ==
  /\ pc[c] = "idle"
  /\ host' = [host EXCEPT ![c] = h]
  /\ pc' = [pc EXCEPT ![c] = IF weight >= Threshold THEN "throttle" ELSE "send"]
  /\ UNCHANGED <<reading, limited, weight, used, late, lost>>

\* Mutant: the wait is taken off the reading instead of clearing it.
WakesLower(c) ==
  /\ pc[c] = "awake"
  /\ weight' = weight - Threshold
  /\ pc' = [pc EXCEPT ![c] = "send"]
  /\ UNCHANGED <<host, reading, limited, used, late, lost>>

\* Mutant: the request looks again, and nothing clears the reading.
WakesToCheck(c) ==
  /\ pc[c] = "awake"
  /\ pc' = [pc EXCEPT ![c] = IF weight >= Threshold THEN "throttle" ELSE "send"]
  /\ UNCHANGED <<host, reading, limited, weight, used, late, lost>>

\* A throttled request is over its sleep: the reading becomes 0, whatever it
\* is by then, and the request goes out without another look at it.
Wake(c) ==
  /\ pc[c] = "awake"
  /\ weight' = 0
  /\ pc' = [pc EXCEPT ![c] = "send"]
  /\ UNCHANGED <<host, reading, limited, used, late, lost>>

\* The host serves the request, or refuses it when that would pass its limit;
\* either way the answer states what it has counted.
Serve(c) ==
  /\ pc[c] = "send"
  /\ LET h == host[c] IN \E cost \in Costs :
       LET fits == used[h] + cost <= BanLimit
           sum  == IF fits THEN used[h] + cost ELSE used[h] IN
       /\ used' = [used EXCEPT ![h] = sum]
       /\ reading' = [reading EXCEPT ![c] = sum]
       /\ limited' = [limited EXCEPT ![c] = ~fits]
       /\ late' = [late EXCEPT ![h] = IF used[h] >= Threshold /\ @ < LateCap
                                     THEN @ + 1 ELSE @]
  /\ pc' = [pc EXCEPT ![c] = "reply"]
  /\ UNCHANGED <<host, weight, lost>>

\* The answer is out of hand.
Forget(c) == /\ reading' = [reading EXCEPT ![c] = 0]
             /\ limited' = [limited EXCEPT ![c] = FALSE]

\* The answer arrives: its reading is stored, and a 429 is slept on.
Receive(c) ==
  /\ pc[c] = "reply"
  /\ weight' = reading[c]
  /\ pc' = [pc EXCEPT ![c] = IF limited[c] THEN "cool" ELSE "idle"]
  /\ Forget(c)
  /\ UNCHANGED <<host, used, late, lost>>

\* The transport fails, before or after the host has served the request, or
\* the answer has no header: nothing is stored.
Fail(c) ==
  /\ Lossy
  /\ pc[c] \in {"send", "reply"}
  /\ lost' = (lost \/ pc[c] = "reply")
  /\ pc' = [pc EXCEPT ![c] = "idle"]
  /\ Forget(c)
  /\ UNCHANGED <<host, weight, used, late>>

\* Retry-After, or a minute, is over.
Thaw(c) ==
  /\ pc[c] = "cool"
  /\ pc' = [pc EXCEPT ![c] = "idle"]
  /\ UNCHANGED <<host, reading, limited, weight, used, late, lost>>

\* A new minute: the hosts count from zero and the throttled sleeps are over.
Boundary ==
  /\ used' = [h \in Hosts |-> 0]
  /\ late' = [h \in Hosts |-> 0]
  /\ pc' = [c \in Calls |-> IF pc[c] = "throttle" THEN "awake" ELSE pc[c]]
  /\ lost' = FALSE
  /\ UNCHANGED <<host, reading, limited, weight>>

Next == \/ Boundary
        \/ \E c \in Calls : \/ \E h \in Hosts : Check(c, h)
                            \/ Wake(c) \/ Serve(c) \/ Receive(c)
                            \/ Fail(c) \/ Thaw(c)

Spec == Init /\ [][Next]_vars

\* Minutes pass, sleeps end, and a sent request comes back or times out.
FairSpec ==
  /\ Spec
  /\ WF_vars(Boundary)
  /\ \A c \in Calls : /\ WF_vars(Wake(c)) /\ WF_vars(Thaw(c))
                     /\ WF_vars(Serve(c) \/ Receive(c) \/ Fail(c))
-----------------------------------------------------------------------------
Workers == Cardinality(Calls)

\* How many requests a host may serve at or over the threshold in a minute:
\* when the reading gets hot, every other worker may still hold a colder one,
\* in an answer or in a clear to come, and each time one stores it, every
\* worker that holds none passes the check once more: 2 + 3 + ... + Workers.
MaxLate == (Workers * (Workers + 1)) \div 2 - 1

\* Workers racing between load, sleep, send and store let only that many
\* requests of a minute through over the threshold, never a steady stream, as
\* long as no answer of that minute is lost with the reading it carries.
OvershootBounded == ~lost => \A h \in Hosts : late[h] <= MaxLate

\* On one host whose limit leaves room for MaxLate + 1 of the heaviest requests
\* above the threshold, the limiter keeps the host from ever answering 429,
\* except in a minute in which an answer was lost.
RefusedOnlyAfterLoss ==
  [][\A c \in Calls : limited'[c] /\ ~limited[c] => lost]_vars

\* A throttled request is not throttled for ever: the reading that blocks it
\* is cleared by the sleepers themselves, since nobody else could refresh it.
Unblocks == \A c \in Calls : pc[c] = "throttle" ~> pc[c] = "idle"

\* README.md:63: the limiter "preemptively pauses before hitting ban limits
\* (HTTP 418 / 429)": no answer is a 429.
NeverLimited == \A c \in Calls : ~limited[c]
=============================================================================
