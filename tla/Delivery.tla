------------------------------ MODULE Delivery ------------------------------
(* What the middleware chain promises the adapter about one request: however  *)
(* the network, the breaker, the retries and the limiter interleave, the      *)
(* exchange acts on a request at most as often as the request may be sent     *)
(* (once, unless it is idempotent), and the outcome the adapter is given does *)
(* not contradict what the exchange did.                                      *)
EXTENDS Naturals

CONSTANTS Calls,
          MaxAttempts

VARIABLES pending,   \* is a request of this worker under way?
          method,
          executed,
          result

vars == <<pending, method, executed, result>>

Methods  == {"GET", "POST"}
Outcomes == {"ok", "rejected", "limited", "server", "error"}

Bound(m) == IF m = "GET" THEN MaxAttempts ELSE 1

\* An outcome that says what the exchange did is true.
Truthful(r, m, n) == /\ r = "ok" => n > 0
                     /\ r \in {"rejected", "limited"} /\ m = "POST" => n = 0

Init == /\ pending = [c \in Calls |-> FALSE]
        /\ method = [c \in Calls |-> "GET"]
        /\ executed = [c \in Calls |-> 0]
        /\ result = [c \in Calls |-> "none"]

Start(c, m) == /\ ~pending[c]
               /\ pending' = [pending EXCEPT ![c] = TRUE]
               /\ method' = [method EXCEPT ![c] = m]
               /\ executed' = [executed EXCEPT ![c] = 0]
               /\ result' = [result EXCEPT ![c] = "none"]

Refuse(c, m) == /\ ~pending[c]
                /\ method' = [method EXCEPT ![c] = m]
                /\ executed' = [executed EXCEPT ![c] = 0]
                /\ result' = [result EXCEPT ![c] = "refused"]
                /\ UNCHANGED pending

Execute(c) == /\ pending[c]
              /\ executed[c] < Bound(method[c])
              /\ executed' = [executed EXCEPT ![c] = @ + 1]
              /\ UNCHANGED <<pending, method, result>>

\* A request whose outcome is not known may still be acted on.
Late(c) == /\ ~pending[c] /\ result[c] \in {"server", "error"}
           /\ executed[c] < Bound(method[c])
           /\ executed' = [executed EXCEPT ![c] = @ + 1]
           /\ UNCHANGED <<pending, method, result>>

Finish(c, r) == /\ pending[c]
                /\ Truthful(r, method[c], executed[c])
                /\ pending' = [pending EXCEPT ![c] = FALSE]
                /\ result' = [result EXCEPT ![c] = r]
                /\ UNCHANGED <<method, executed>>

Next == \E c \in Calls : \/ \E m \in Methods : Start(c, m) \/ Refuse(c, m)
                         \/ Execute(c) \/ Late(c)
                         \/ \E r \in Outcomes : Finish(c, r)

Spec == Init /\ [][Next]_vars
=============================================================================
