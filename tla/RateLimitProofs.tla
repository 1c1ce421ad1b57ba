--------------------------- MODULE RateLimitProofs ---------------------------
(* Proofs about RateLimit, for any number of workers, any limits and any      *)
(* request costs: type correctness, and on one host the bound on the requests *)
(* of a minute that pass the threshold, from a potential.                     *)
EXTENDS RateLimit, Integers, FiniteSetTheorems, TLAPS

\* usedWeight and every reading stay within what a host can count, the reading a
\* late answer brings back included (ratelimit.go:40).
THEOREM TypeCorrect == Spec => []TypeOK
<1>1. Init => TypeOK
  <2> SUFFICES ASSUME Init PROVE TypeOK
    OBVIOUS
  <2>1. lost \in BOOLEAN /\ limited \in [Calls -> BOOLEAN]
    BY Zenon DEF Init
  <2> QED BY <2>1, LimitAssumption DEF Init, TypeOK
<1>2. TypeOK /\ [Next]_vars => TypeOK'
  <2> SUFFICES ASSUME TypeOK, [Next]_vars
               PROVE  TypeOK'
    OBVIOUS
  <2> USE LimitAssumption DEF TypeOK
  <2>1. CASE Boundary
    <3>1. lost' \in BOOLEAN
      BY <2>1, Zenon DEF Boundary
    <3>2. pc' \in [Calls -> {"idle", "throttle", "awake", "send", "reply", "cool"}]
      BY <2>1 DEF Boundary
    <3> QED BY <2>1, <3>1, <3>2 DEF Boundary
  <2>2. ASSUME NEW c \in Calls, NEW h \in Hosts, Check(c, h)
        PROVE  TypeOK'
    BY <2>2 DEF Check
  <2>3. ASSUME NEW c \in Calls, Wake(c)
        PROVE  TypeOK'
    BY <2>3 DEF Wake
  <2>4. ASSUME NEW c \in Calls, Serve(c)
        PROVE  TypeOK'
    <3> DEFINE h == host[c]
    <3>1. PICK cost \in Costs :
            LET fits == used[h] + cost <= BanLimit
                sum  == IF fits THEN used[h] + cost ELSE used[h] IN
            /\ used' = [used EXCEPT ![h] = sum]
            /\ reading' = [reading EXCEPT ![c] = sum]
            /\ limited' = [limited EXCEPT ![c] = ~fits]
            /\ late' = [late EXCEPT ![h] = IF used[h] >= Threshold /\ @ < LateCap
                                          THEN @ + 1 ELSE @]
      BY <2>4 DEF Serve
    <3> DEFINE sum == IF used[h] + cost <= BanLimit THEN used[h] + cost ELSE used[h]
    <3>2. sum \in 0 .. BanLimit
      OBVIOUS
    <3>3. used' \in [Hosts -> 0 .. BanLimit] /\ reading' \in [Calls -> 0 .. BanLimit]
      BY <3>1, <3>2
    <3>4. limited' \in [Calls -> BOOLEAN] /\ late' \in [Hosts -> 0 .. LateCap]
      BY <3>1
    <3> QED BY <2>4, <3>3, <3>4 DEF Serve
  <2>5. ASSUME NEW c \in Calls, Receive(c)
        PROVE  TypeOK'
    BY <2>5 DEF Receive, Forget
  <2>6. ASSUME NEW c \in Calls, Fail(c)
        PROVE  TypeOK'
    BY <2>6 DEF Fail, Forget
  <2>7. ASSUME NEW c \in Calls, Thaw(c)
        PROVE  TypeOK'
    BY <2>7 DEF Thaw
  <2>8. CASE UNCHANGED vars
    BY <2>8 DEF vars
  <2> QED BY <2>1, <2>2, <2>3, <2>4, <2>5, <2>6, <2>7, <2>8 DEF Next
<1> QED BY <1>1, <1>2, PTL DEF Spec
-----------------------------------------------------------------------------
(* What the workers of one host may still let through.                        *)

\* The workers that have passed the check, those that will look at the reading
\* next, and those that will make it cold: by a clear, or by an older answer.
Sending  == {c \in Calls : pc[c] = "send"}
Loose    == {c \in Calls : pc[c] \in {"idle", "cool"}}
Carriers == {c \in Calls : pc[c] = "awake" \/ (pc[c] = "reply" /\ reading[c] < Threshold)}

Cold == weight < Threshold

\* Twice the requests that k carriers may let through: when one of them has made
\* the reading cold, all workers that are not carriers may pass the check.
Spare(k) == k * (2 * Workers - k + 1)

\* Twice the requests that were late, or may still be.
Debt(n, sending, cold, loose, carriers) ==
  2 * n + 2 * sending + (IF cold THEN 2 * loose ELSE 0) + Spare(carriers)

Limit == Workers * (Workers + 1) - 2

DebtOf(h) == Debt(late[h], Cardinality(Sending), Cold, Cardinality(Loose),
                  Cardinality(Carriers))

\* Before the threshold nothing is late; from it on, what was late and what may
\* become late stays within the limit.
Bounded(h) == /\ used[h] < Threshold => late[h] = 0
              /\ used[h] >= Threshold /\ ~lost => DebtOf(h) <= Limit
-----------------------------------------------------------------------------
(* Arithmetic of the potential.                                               *)

LEMMA WorkersNat == Workers \in Nat
  BY LimitAssumption, FS_CardinalityType DEF Workers

\* A carrier spent pays for every worker that is not a carrier afterwards.
LEMMA SpareShrinks ==
  ASSUME NEW k \in Nat, k > 0
  PROVE  Spare(k) = Spare(k - 1) + 2 * (Workers - k + 1)
  BY WorkersNat DEF Spare

\* With one worker's hot answer on its way, the limit covers the others, however
\* they are divided.
LEMMA SpareAtCrossing ==
  ASSUME NEW a \in Nat, NEW b \in Nat, NEW k \in Nat, a + b + k <= Workers - 1
  PROVE  2 * a + 2 * b + Spare(k) <= Limit
<1> DEFINE N == Workers
           m == N - 1 - k
<1>1. N \in Nat /\ m \in Nat
  BY WorkersNat
<1>2. k = N - 1 - m
  BY <1>1
<1>3. 2 * a + 2 * b <= 2 * m
  BY <1>1
<1>4. Spare(k) = N * (N + 1) - 2 - 3 * m - m * m
  <2>1. Spare(k) = (N - 1 - m) * (N + 2 + m)
    BY <1>1, <1>2 DEF Spare
  <2> HIDE DEF m, N
  <2>2. (N - 1 - m) * (N + 2 + m) = N * (N + 1) - 2 - 3 * m - m * m
    BY <1>1
  <2> QED BY <2>1, <2>2
<1>5. m * m >= 0
  <2> HIDE DEF m
  <2> QED BY <1>1
<1>6. Limit = N * (N + 1) - 2 /\ N * (N + 1) \in Int /\ m * m \in Int
  BY <1>1 DEF Limit
<1> HIDE DEF m, N
<1> QED BY <1>1, <1>3, <1>4, <1>5, <1>6

\* The kinds of workers are finite sets.
LEMMA Classes ==
  /\ IsFiniteSet(Sending) /\ IsFiniteSet(Loose) /\ IsFiniteSet(Carriers)
  /\ Cardinality(Sending) \in Nat /\ Cardinality(Loose) \in Nat
  /\ Cardinality(Carriers) \in Nat
<1>1. /\ Sending \in SUBSET Calls /\ Loose \in SUBSET Calls
      /\ Carriers \in SUBSET Calls
  BY DEF Sending, Loose, Carriers
<1> QED BY <1>1, LimitAssumption, FS_Subset, FS_CardinalityType

\* Three kinds of workers, each of one kind at most.
LEMMA Divided ==
  ASSUME NEW S, IsFiniteSet(S),
         NEW A \in SUBSET S, NEW B \in SUBSET S, NEW C \in SUBSET S,
         A \cap B = {}, A \cap C = {}, B \cap C = {}
  PROVE  Cardinality(A) + Cardinality(B) + Cardinality(C) <= Cardinality(S)
<1>1. IsFiniteSet(A) /\ IsFiniteSet(B) /\ IsFiniteSet(C) /\ IsFiniteSet(A \cup B)
  <2>1. A \cup B \in SUBSET S
    OBVIOUS
  <2> QED BY <2>1, FS_Subset
<1>2. /\ Cardinality(A) \in Nat /\ Cardinality(B) \in Nat /\ Cardinality(C) \in Nat
      /\ Cardinality(S) \in Nat
  BY <1>1, FS_CardinalityType
<1>3. Cardinality(A \cup B) = Cardinality(A) + Cardinality(B)
  <2>1. Cardinality(A \cup B) = Cardinality(A) + Cardinality(B) - Cardinality(A \cap B)
    BY <1>1, FS_Union
  <2>2. Cardinality(A \cap B) = 0
    BY FS_EmptySet
  <2> QED BY <1>2, <2>1, <2>2
<1>4. Cardinality((A \cup B) \cup C) = Cardinality(A \cup B) + Cardinality(C)
  <2>1. Cardinality((A \cup B) \cup C)
          = Cardinality(A \cup B) + Cardinality(C) - Cardinality((A \cup B) \cap C)
    BY <1>1, FS_Union
  <2>2. (A \cup B) \cap C = {}
    OBVIOUS
  <2>3. Cardinality((A \cup B) \cap C) = 0
    BY <2>2, FS_EmptySet
  <2> QED BY <1>2, <1>3, <2>1, <2>3
<1>5. Cardinality((A \cup B) \cup C) <= Cardinality(S)
  <2>1. (A \cup B) \cup C \in SUBSET S
    OBVIOUS
  <2> QED BY <2>1, FS_Subset
<1> QED BY <1>2, <1>3, <1>4, <1>5

LEMMA ClassesFit ==
  Cardinality(Sending) + Cardinality(Loose) + Cardinality(Carriers) <= Workers
<1>1. /\ Sending \in SUBSET Calls /\ Loose \in SUBSET Calls
      /\ Carriers \in SUBSET Calls
  BY DEF Sending, Loose, Carriers
<1>2. Sending \cap Loose = {} /\ Sending \cap Carriers = {} /\ Loose \cap Carriers = {}
  BY DEF Sending, Loose, Carriers
<1> QED BY <1>1, <1>2, LimitAssumption, Divided DEF Workers
-----------------------------------------------------------------------------
(* Every step pays for what it lets through.                                  *)

\* A kind of workers of which only one comes or goes.
LEMMA Moves ==
  ASSUME NEW c \in Calls, NEW S, NEW T, IsFiniteSet(S),
         \A d \in Calls : d # c => (d \in T <=> d \in S),
         S \subseteq Calls, T \subseteq Calls
  PROVE  Cardinality(T) = Cardinality(S) - (IF c \in S THEN 1 ELSE 0)
                                         + (IF c \in T THEN 1 ELSE 0)
<1>1. Cardinality(S) \in Nat
  BY FS_CardinalityType
<1>2. CASE c \in S <=> c \in T
  <2>1. T = S
    BY <1>2
  <2> QED BY <1>1, <1>2, <2>1
<1>3. CASE c \in S /\ c \notin T
  <2>1. T = S \ {c}
    BY <1>3
  <2>2. Cardinality(S \ {c}) = Cardinality(S) - 1
    BY <1>3, FS_RemoveElement
  <2> QED BY <1>1, <1>3, <2>1, <2>2
<1>4. CASE c \notin S /\ c \in T
  <2>1. T = S \cup {c}
    BY <1>4
  <2>2. Cardinality(S \cup {c}) = Cardinality(S) + 1
    BY <1>4, FS_AddElement
  <2> QED BY <1>1, <1>4, <2>1, <2>2
<1> QED BY <1>2, <1>3, <1>4

\* Only worker c moves.
Others(c) == \A d \in Calls : d # c => pc'[d] = pc[d] /\ reading'[d] = reading[d]

LEMMA Counted ==
  ASSUME NEW c \in Calls, Others(c)
  PROVE  /\ Cardinality(Sending)' = Cardinality(Sending)
              - (IF c \in Sending THEN 1 ELSE 0) + (IF c \in Sending' THEN 1 ELSE 0)
         /\ Cardinality(Loose)' = Cardinality(Loose)
              - (IF c \in Loose THEN 1 ELSE 0) + (IF c \in Loose' THEN 1 ELSE 0)
         /\ Cardinality(Carriers)' = Cardinality(Carriers)
              - (IF c \in Carriers THEN 1 ELSE 0) + (IF c \in Carriers' THEN 1 ELSE 0)
<1>1. /\ Sending \subseteq Calls /\ Sending' \subseteq Calls
      /\ \A d \in Calls : d # c => (d \in Sending' <=> d \in Sending)
  BY DEF Sending, Others
<1>2. /\ Loose \subseteq Calls /\ Loose' \subseteq Calls
      /\ \A d \in Calls : d # c => (d \in Loose' <=> d \in Loose)
  BY DEF Loose, Others
<1>3. /\ Carriers \subseteq Calls /\ Carriers' \subseteq Calls
      /\ \A d \in Calls : d # c => (d \in Carriers' <=> d \in Carriers)
  BY DEF Carriers, Others
<1>4. Cardinality(Sending') = Cardinality(Sending)
        - (IF c \in Sending THEN 1 ELSE 0) + (IF c \in Sending' THEN 1 ELSE 0)
  BY <1>1, Classes, Moves
<1>5. Cardinality(Loose') = Cardinality(Loose)
        - (IF c \in Loose THEN 1 ELSE 0) + (IF c \in Loose' THEN 1 ELSE 0)
  BY <1>2, Classes, Moves
<1>6. Cardinality(Carriers') = Cardinality(Carriers)
        - (IF c \in Carriers THEN 1 ELSE 0) + (IF c \in Carriers' THEN 1 ELSE 0)
  BY <1>3, Classes, Moves
<1> QED BY <1>4, <1>5, <1>6

\* What the steps of one worker do to the numbers raises the debt in no case.
LEMMA DebtKept ==
  ASSUME NEW n \in Nat, NEW a \in Nat, NEW b \in Nat, NEW k \in Nat,
         NEW cold \in BOOLEAN, a + b + k <= Workers
  PROVE  /\ b > 0 /\ cold => Debt(n, a + 1, TRUE, b - 1, k) <= Debt(n, a, cold, b, k)
         /\ b > 0 => Debt(n, a, FALSE, b - 1, k) <= Debt(n, a, cold, b, k)
         /\ k > 0 => Debt(n, a + 1, TRUE, b, k - 1) <= Debt(n, a, cold, b, k)
         /\ k > 0 => Debt(n, a, TRUE, b + 1, k - 1) <= Debt(n, a, cold, b, k)
         /\ Debt(n, a, FALSE, b + 1, k) <= Debt(n, a, cold, b, k)
         /\ a > 0 => Debt(n + 1, a - 1, cold, b, k) <= Debt(n, a, cold, b, k)
         /\ a > 0 => Debt(n, a - 1, cold, b, k) <= Debt(n, a, cold, b, k)
         /\ a > 0 => Debt(n, a - 1, cold, b + 1, k) <= Debt(n, a, cold, b, k)
<1> DEFINE s == Spare(k)
           t == Spare(k - 1)
<1>1. s \in Int /\ t \in Int
  BY WorkersNat DEF Spare
<1>2. k > 0 => s = t + 2 * (Workers - k + 1)
  BY SpareShrinks
<1> HIDE DEF s, t
<1>3. Workers \in Nat
  BY WorkersNat
<1>4. CASE cold = TRUE
  BY <1>1, <1>2, <1>3, <1>4 DEF Debt, s, t
<1>5. CASE cold = FALSE
  BY <1>1, <1>2, <1>3, <1>5 DEF Debt, s, t
<1> QED BY <1>4, <1>5

\* The debt is an integer.
LEMMA DebtInt == TypeOK => \A h \in Hosts : DebtOf(h) \in Int
<1> SUFFICES ASSUME TypeOK, NEW h \in Hosts
             PROVE  DebtOf(h) \in Int
  OBVIOUS
<1>1. late[h] \in Nat
  BY LimitAssumption DEF TypeOK
<1>2. Spare(Cardinality(Carriers)) \in Int
  BY Classes, WorkersNat DEF Spare
<1> QED BY <1>1, <1>2, Classes DEF DebtOf, Debt

LEMMA DebtIntNext == (TypeOK => \A h \in Hosts : DebtOf(h) \in Int)'
  BY DebtInt, PTL

\* A step that leaves the host alone is paid for when the debt does not grow.
LEMMA Paid ==
  ASSUME NEW h \in Hosts, TypeOK, TypeOK', Bounded(h), used' = used, late' = late,
         ~lost' => ~lost, used[h] >= Threshold /\ ~lost' => DebtOf(h)' <= DebtOf(h)
  PROVE  Bounded(h)'
<1>1. DebtOf(h) \in Int /\ DebtOf(h)' \in Int /\ Limit \in Int
  BY DebtInt, DebtIntNext, WorkersNat DEF Limit
<1>2. used[h] \in Nat /\ Threshold \in Nat
  BY LimitAssumption DEF TypeOK
<1> HIDE DEF DebtOf
<1>3. CASE used[h] < Threshold
  BY <1>2, <1>3 DEF Bounded
<1>4. CASE used[h] >= Threshold /\ ~lost'
  <2>1. DebtOf(h) <= Limit
    BY <1>4 DEF Bounded
  <2>2. DebtOf(h)' <= Limit
    BY <1>1, <1>4, <2>1
  <2> QED BY <1>2, <1>4, <2>2 DEF Bounded, Limit
<1>5. CASE used[h] >= Threshold /\ lost'
  BY <1>2, <1>5 DEF Bounded
<1> QED BY <1>2, <1>3, <1>4, <1>5

LEMMA CheckPaid ==
  ASSUME NEW h \in Hosts, TypeOK, TypeOK', Bounded(h), NEW c \in Calls, NEW g \in Hosts,
         Check(c, g)
  PROVE  Bounded(h)'
<1>1. /\ pc[c] = "idle" /\ UNCHANGED <<reading, weight, used, late, lost>>
      /\ pc' = [pc EXCEPT ![c] = IF weight >= Threshold THEN "throttle" ELSE "send"]
  BY DEF Check
<1>2. Others(c) /\ pc'[c] = IF weight >= Threshold THEN "throttle" ELSE "send"
  BY <1>1 DEF Others, TypeOK
<1>3. c \in Loose /\ c \notin Sending /\ c \notin Carriers
  BY <1>1 DEF Loose, Sending, Carriers
<1>4. c \notin Loose' /\ c \notin Carriers' /\ (c \in Sending' <=> weight < Threshold)
  BY <1>1, <1>2, LimitAssumption DEF Loose, Sending, Carriers, TypeOK
<1> DEFINE a == Cardinality(Sending)
           b == Cardinality(Loose)
           k == Cardinality(Carriers)
<1>5. /\ a \in Nat /\ b \in Nat /\ k \in Nat /\ a + b + k <= Workers
      /\ late[h] \in Nat /\ Cold \in BOOLEAN
  BY Classes, ClassesFit, LimitAssumption DEF TypeOK, Cold
<1>6. b' = b - 1 /\ k' = k /\ a' = a + (IF c \in Sending' THEN 1 ELSE 0)
  BY <1>2, <1>3, <1>4, <1>5, Counted
<1>7. b > 0
  BY <1>3, <1>5, Classes, FS_EmptySet
<1>8. DebtOf(h)' <= DebtOf(h)
  <2> HIDE DEF a, b, k
  <2>1. CASE Cold
    <3>1. Debt(late[h], a + 1, TRUE, b - 1, k) <= Debt(late[h], a, Cold, b, k)
      BY <1>5, <1>7, <2>1, DebtKept
    <3>2. Cold' = TRUE /\ a' = a + 1
      BY <1>1, <1>4, <1>5, <1>6, <2>1 DEF Cold
    <3> QED BY <1>1, <1>6, <3>1, <3>2 DEF DebtOf, a, b, k
  <2>2. CASE ~Cold
    <3>1. Debt(late[h], a, FALSE, b - 1, k) <= Debt(late[h], a, Cold, b, k)
      BY <1>5, <1>7, DebtKept
    <3>2. Cold' = FALSE /\ a' = a
      BY <1>1, <1>4, <1>5, <1>6, <2>2 DEF Cold
    <3> QED BY <1>1, <1>6, <3>1, <3>2 DEF DebtOf, a, b, k
  <2> QED BY <2>1, <2>2
<1> QED BY <1>1, <1>8, Paid

\* The numbers of the three kinds.
LEMMA Numbers ==
  ASSUME NEW h \in Hosts, TypeOK
  PROVE  /\ Cardinality(Sending) \in Nat /\ Cardinality(Loose) \in Nat
         /\ Cardinality(Carriers) \in Nat
         /\ Cardinality(Sending) + Cardinality(Loose) + Cardinality(Carriers) <= Workers
         /\ \A c \in Calls : /\ c \in Sending => Cardinality(Sending) > 0
                             /\ c \in Loose => Cardinality(Loose) > 0
                             /\ c \in Carriers => Cardinality(Carriers) > 0
         /\ late[h] \in Nat /\ Cold \in BOOLEAN
<1>1. \A c \in Calls : /\ c \in Sending => Cardinality(Sending) > 0
                       /\ c \in Loose => Cardinality(Loose) > 0
                       /\ c \in Carriers => Cardinality(Carriers) > 0
  BY Classes, FS_EmptySet
<1> QED BY <1>1, Classes, ClassesFit, LimitAssumption DEF TypeOK, Cold

LEMMA WakePaid ==
  ASSUME NEW h \in Hosts, TypeOK, TypeOK', Bounded(h), NEW c \in Calls, Wake(c)
  PROVE  Bounded(h)'
<1>1. /\ pc[c] = "awake" /\ weight' = 0 /\ UNCHANGED <<reading, used, late, lost>>
      /\ pc' = [pc EXCEPT ![c] = "send"]
  BY DEF Wake
<1>2. Others(c) /\ pc'[c] = "send"
  BY <1>1 DEF Others, TypeOK
<1>3. c \in Carriers /\ c \notin Sending /\ c \notin Loose
  BY <1>1 DEF Loose, Sending, Carriers
<1>4. c \in Sending' /\ c \notin Loose' /\ c \notin Carriers'
  BY <1>2 DEF Loose, Sending, Carriers
<1> DEFINE a == Cardinality(Sending)
           b == Cardinality(Loose)
           k == Cardinality(Carriers)
<1>5. /\ a \in Nat /\ b \in Nat /\ k \in Nat /\ a + b + k <= Workers /\ k > 0
      /\ late[h] \in Nat /\ Cold \in BOOLEAN
  BY <1>3, Numbers
<1>6. a' = a + 1 /\ b' = b /\ k' = k - 1
  BY <1>2, <1>3, <1>4, <1>5, Counted
<1>7. Cold' = TRUE
  BY <1>1, LimitAssumption DEF Cold
<1>8. DebtOf(h)' <= DebtOf(h)
  <2> HIDE DEF a, b, k
  <2>1. Debt(late[h], a + 1, TRUE, b, k - 1) <= Debt(late[h], a, Cold, b, k)
    BY <1>5, DebtKept
  <2> QED BY <1>1, <1>6, <1>7, <2>1 DEF DebtOf, a, b, k
<1> QED BY <1>1, <1>8, Paid

LEMMA ReceivePaid ==
  ASSUME NEW h \in Hosts, TypeOK, TypeOK', Bounded(h), NEW c \in Calls, Receive(c)
  PROVE  Bounded(h)'
<1>1. /\ pc[c] = "reply" /\ weight' = reading[c] /\ UNCHANGED <<used, late, lost>>
      /\ pc' = [pc EXCEPT ![c] = IF limited[c] THEN "cool" ELSE "idle"]
      /\ reading' = [reading EXCEPT ![c] = 0]
  BY DEF Receive, Forget
<1>2. Others(c) /\ pc'[c] \in {"cool", "idle"}
  BY <1>1 DEF Others, TypeOK
<1>3. c \notin Sending /\ c \notin Loose /\ (c \in Carriers <=> reading[c] < Threshold)
  BY <1>1 DEF Loose, Sending, Carriers
<1>4. c \in Loose' /\ c \notin Sending' /\ c \notin Carriers'
  BY <1>2 DEF Loose, Sending, Carriers
<1> DEFINE a == Cardinality(Sending)
           b == Cardinality(Loose)
           k == Cardinality(Carriers)
<1>5. /\ a \in Nat /\ b \in Nat /\ k \in Nat /\ a + b + k <= Workers
      /\ c \in Carriers => k > 0
      /\ late[h] \in Nat /\ Cold \in BOOLEAN
  BY Numbers
<1>6. a' = a /\ b' = b + 1 /\ k' = k - (IF c \in Carriers THEN 1 ELSE 0)
  BY <1>2, <1>3, <1>4, <1>5, Counted
<1>7. DebtOf(h)' <= DebtOf(h)
  <2> HIDE DEF a, b, k
  <2>1. CASE reading[c] < Threshold
    <3>1. Debt(late[h], a, TRUE, b + 1, k - 1) <= Debt(late[h], a, Cold, b, k)
      BY <1>3, <1>5, <2>1, DebtKept
    <3>2. Cold' = TRUE /\ k' = k - 1
      BY <1>1, <1>3, <1>6, <2>1 DEF Cold
    <3> QED BY <1>1, <1>6, <3>1, <3>2 DEF DebtOf, a, b, k
  <2>2. CASE ~(reading[c] < Threshold)
    <3>1. Debt(late[h], a, FALSE, b + 1, k) <= Debt(late[h], a, Cold, b, k)
      BY <1>5, DebtKept
    <3>2. Cold' = FALSE /\ k' = k
      BY <1>1, <1>3, <1>5, <1>6, <2>2 DEF Cold
    <3> QED BY <1>1, <1>6, <3>1, <3>2 DEF DebtOf, a, b, k
  <2> QED BY <2>1, <2>2
<1> QED BY <1>1, <1>7, Paid

LEMMA FailPaid ==
  ASSUME NEW h \in Hosts, TypeOK, TypeOK', Bounded(h), NEW c \in Calls, Fail(c)
  PROVE  Bounded(h)'
<1>1. /\ pc[c] \in {"send", "reply"} /\ UNCHANGED <<weight, used, late>>
      /\ lost' = (lost \/ pc[c] = "reply")
      /\ pc' = [pc EXCEPT ![c] = "idle"]
      /\ reading' = [reading EXCEPT ![c] = 0]
  BY DEF Fail, Forget
<1>2. Others(c) /\ pc'[c] = "idle"
  BY <1>1 DEF Others, TypeOK
<1> DEFINE a == Cardinality(Sending)
           b == Cardinality(Loose)
           k == Cardinality(Carriers)
<1>3. ASSUME ~lost'
      PROVE  DebtOf(h)' <= DebtOf(h)
  <2>1. pc[c] = "send"
    BY <1>1, <1>3
  <2>2. c \in Sending /\ c \notin Loose /\ c \notin Carriers
    BY <2>1 DEF Loose, Sending, Carriers
  <2>3. c \notin Sending' /\ c \in Loose' /\ c \notin Carriers'
    BY <1>2 DEF Loose, Sending, Carriers
  <2>4. /\ a \in Nat /\ b \in Nat /\ k \in Nat /\ a + b + k <= Workers /\ a > 0
        /\ late[h] \in Nat /\ Cold \in BOOLEAN
    BY <2>2, Numbers
  <2>5. a' = a - 1 /\ b' = b + 1 /\ k' = k
    BY <1>2, <2>2, <2>3, <2>4, Counted
  <2> HIDE DEF a, b, k
  <2>6. Debt(late[h], a - 1, Cold, b + 1, k) <= Debt(late[h], a, Cold, b, k)
    BY <2>4, DebtKept
  <2>7. Cold' = Cold
    BY <1>1 DEF Cold
  <2> QED BY <1>1, <2>5, <2>6, <2>7 DEF DebtOf, a, b, k
<1>4. ~lost' => ~lost
  BY <1>1
<1> QED BY <1>1, <1>3, <1>4, Paid

LEMMA ThawPaid ==
  ASSUME NEW h \in Hosts, TypeOK, TypeOK', Bounded(h), NEW c \in Calls, Thaw(c)
  PROVE  Bounded(h)'
<1>1. /\ pc[c] = "cool" /\ UNCHANGED <<reading, weight, used, late, lost>>
      /\ pc' = [pc EXCEPT ![c] = "idle"]
  BY DEF Thaw
<1>2. Sending' = Sending /\ Loose' = Loose /\ Carriers' = Carriers /\ Cold' = Cold
  BY <1>1 DEF Sending, Loose, Carriers, Cold, TypeOK
<1>3. DebtOf(h)' <= DebtOf(h)
  BY <1>1, <1>2, DebtInt DEF DebtOf
<1> QED BY <1>1, <1>3, Paid

\* The host's own step: the answer that crosses the threshold, those before it,
\* and those after it, which are late and were owed.
LEMMA ServePaid ==
  ASSUME NEW h, Hosts = {h}, TypeOK, TypeOK', Bounded(h), NEW c \in Calls, Serve(c)
  PROVE  Bounded(h)'
<1>1. host[c] = h /\ h \in Hosts
  BY DEF TypeOK
<1>2. PICK sum \in Nat :
        /\ sum >= used[h]
        /\ used' = [used EXCEPT ![h] = sum]
        /\ reading' = [reading EXCEPT ![c] = sum]
  <2>1. PICK cost \in Costs :
          LET fits == used[h] + cost <= BanLimit
              sum  == IF fits THEN used[h] + cost ELSE used[h] IN
          /\ used' = [used EXCEPT ![h] = sum]
          /\ reading' = [reading EXCEPT ![c] = sum]
    BY <1>1 DEF Serve
  <2> DEFINE sum == IF used[h] + cost <= BanLimit THEN used[h] + cost ELSE used[h]
  <2>2. sum \in Nat /\ sum >= used[h]
    BY <1>1, LimitAssumption DEF TypeOK
  <2> QED BY <2>1, <2>2
<1>3. /\ pc[c] = "send" /\ UNCHANGED <<weight, lost>>
      /\ pc' = [pc EXCEPT ![c] = "reply"]
      /\ late' = [late EXCEPT ![h] = IF used[h] >= Threshold /\ @ < LateCap
                                    THEN @ + 1 ELSE @]
  BY <1>1 DEF Serve
<1>4. /\ Others(c) /\ pc'[c] = "reply" /\ reading'[c] = sum /\ used'[h] = sum
      /\ late'[h] = IF used[h] >= Threshold /\ late[h] < LateCap
                    THEN late[h] + 1 ELSE late[h]
  BY <1>1, <1>2, <1>3 DEF Others, TypeOK
<1>5. used[h] \in Nat /\ Threshold \in Nat
  BY <1>1, LimitAssumption DEF TypeOK
<1> DEFINE a == Cardinality(Sending)
           b == Cardinality(Loose)
           k == Cardinality(Carriers)
<1>6. CASE sum < Threshold
  BY <1>2, <1>4, <1>5, <1>6 DEF Bounded
<1>7. CASE sum >= Threshold
  <2>1. c \in Sending /\ c \notin Loose /\ c \notin Carriers
    BY <1>3 DEF Loose, Sending, Carriers
  <2>2. c \notin Sending' /\ c \notin Loose' /\ c \notin Carriers'
    BY <1>2, <1>4, <1>5, <1>7 DEF Loose, Sending, Carriers
  <2>3. /\ a \in Nat /\ b \in Nat /\ k \in Nat /\ a + b + k <= Workers /\ a > 0
        /\ late[h] \in Nat /\ Cold \in BOOLEAN
    BY <1>1, <2>1, Numbers
  <2>4. a' = a - 1 /\ b' = b /\ k' = k /\ Cold' = Cold
    BY <1>3, <1>4, <2>1, <2>2, <2>3, Counted DEF Cold
  <2>5. DebtOf(h)' = Debt(late'[h], a - 1, Cold, b, k)
    BY <2>4 DEF DebtOf
  <2> HIDE DEF a, b, k
  <2>6. CASE used[h] < Threshold
    <3>1. late'[h] = 0
      BY <1>4, <1>5, <2>6 DEF Bounded
    <3>2. 2 * (a - 1) + 2 * b + Spare(k) <= Limit
      <4>1. a - 1 \in Nat /\ (a - 1) + b + k <= Workers - 1
        BY <2>3, WorkersNat
      <4> QED BY <2>3, <4>1, SpareAtCrossing
    <3>3. Debt(0, a - 1, Cold, b, k) <= Limit
      <4>1. Spare(k) \in Int /\ Limit \in Int
        BY <2>3, WorkersNat DEF Spare, Limit
      <4> QED BY <2>3, <3>2, <4>1 DEF Debt
    <3> QED BY <1>4, <1>5, <1>7, <2>5, <3>1, <3>3 DEF Bounded, Limit
  <2>7. CASE used[h] >= Threshold
    <3>1. Debt(late'[h], a - 1, Cold, b, k) <= Debt(late[h], a, Cold, b, k)
      BY <1>4, <2>3, DebtKept
    <3>2. ~lost => Debt(late[h], a, Cold, b, k) <= Limit
      BY <2>7 DEF Bounded, DebtOf, a, b, k
    <3>3. DebtOf(h) \in Int /\ DebtOf(h)' \in Int /\ Limit \in Int
      BY <1>1, DebtInt, DebtIntNext, WorkersNat DEF Limit
    <3>4. DebtOf(h) = Debt(late[h], a, Cold, b, k)
      BY DEF DebtOf, a, b, k
    <3>5. ~lost => DebtOf(h)' <= Limit
      <4> HIDE DEF DebtOf, Debt, Limit
      <4> QED BY <2>5, <3>1, <3>2, <3>3, <3>4
    <3> QED BY <1>3, <1>4, <1>5, <1>7, <3>5 DEF Bounded, Limit
  <2> QED BY <1>5, <2>6, <2>7
<1> QED BY <1>2, <1>5, <1>6, <1>7

LEMMA BoundKept ==
  ASSUME NEW h, Hosts = {h}
  PROVE  Spec => []Bounded(h)
<1>1. Init => Bounded(h)
  BY LimitAssumption DEF Init, Bounded
<1>2. TypeOK /\ TypeOK' /\ Bounded(h) /\ [Next]_vars => Bounded(h)'
  <2> SUFFICES ASSUME TypeOK, TypeOK', Bounded(h), [Next]_vars
               PROVE  Bounded(h)'
    OBVIOUS
  <2>1. CASE Boundary
    BY <2>1, LimitAssumption DEF Boundary, Bounded
  <2>2. ASSUME NEW c \in Calls, NEW g \in Hosts, Check(c, g)
        PROVE  Bounded(h)'
    BY <2>2, CheckPaid
  <2>3. ASSUME NEW c \in Calls, Wake(c)
        PROVE  Bounded(h)'
    BY <2>3, WakePaid
  <2>4. ASSUME NEW c \in Calls, Serve(c)
        PROVE  Bounded(h)'
    BY <2>4, ServePaid
  <2>5. ASSUME NEW c \in Calls, Receive(c)
        PROVE  Bounded(h)'
    BY <2>5, ReceivePaid
  <2>6. ASSUME NEW c \in Calls, Fail(c)
        PROVE  Bounded(h)'
    BY <2>6, FailPaid
  <2>7. ASSUME NEW c \in Calls, Thaw(c)
        PROVE  Bounded(h)'
    BY <2>7, ThawPaid
  <2>8. CASE UNCHANGED vars
    BY <2>8 DEF vars, Bounded, DebtOf, Cold, Sending, Loose, Carriers
  <2> QED BY <2>1, <2>2, <2>3, <2>4, <2>5, <2>6, <2>7, <2>8 DEF Next
<1> QED BY <1>1, <1>2, TypeCorrect, PTL DEF Spec

\* Any number of workers racing on one host between the load, the sleep, the
\* send and the store of ratelimit.go:27-40 let at most MaxLate requests of a
\* minute through over the threshold, unless an answer of that minute is lost.
THEOREM OvershootLimited ==
  ASSUME NEW h, Hosts = {h}
  PROVE  Spec => []OvershootBounded
<1>1. TypeOK /\ Bounded(h) => OvershootBounded
  <2> SUFFICES ASSUME TypeOK, Bounded(h), ~lost
               PROVE  late[h] <= MaxLate
    BY DEF OvershootBounded
  <2> DEFINE square == Workers * (Workers + 1)
  <2>1. late[h] \in Nat /\ used[h] \in Nat /\ Threshold \in Nat
    BY LimitAssumption DEF TypeOK
  <2>2. Workers \in Nat /\ Workers >= 1
    BY WorkersNat, LimitAssumption, FS_EmptySet DEF Workers
  <2>3. square \in Nat /\ square >= 2
    BY <2>2
  <2>4. 2 * late[h] <= square - 2
    <3>1. CASE used[h] < Threshold
      <4>1. late[h] = 0
        BY <3>1 DEF Bounded
      <4> HIDE DEF square
      <4> QED BY <2>3, <4>1
    <3>2. CASE used[h] >= Threshold
      <4> DEFINE a == Cardinality(Sending)
                 b == Cardinality(Loose)
                 k == Cardinality(Carriers)
      <4>1. Debt(late[h], a, Cold, b, k) <= square - 2
        BY <3>2 DEF Bounded, DebtOf, Limit
      <4>2. a \in Nat /\ b \in Nat /\ k \in Nat /\ k <= Workers
        BY Numbers, WorkersNat
      <4> HIDE DEF a, b, k, square
      <4>3. Spare(k) \in Nat
        <5>1. 2 * Workers - k + 1 \in Nat
          BY <2>2, <4>2
        <5> QED BY <4>2, <5>1 DEF Spare
      <4> QED BY <2>1, <2>3, <4>1, <4>2, <4>3 DEF Debt
    <3> QED BY <2>1, <3>1, <3>2
  <2>5. MaxLate = square \div 2 - 1
    BY DEF MaxLate
  <2> HIDE DEF square
  <2> QED BY <2>1, <2>3, <2>4, <2>5
<1> QED BY <1>1, BoundKept, TypeCorrect, PTL
-----------------------------------------------------------------------------
(* What the bound means for the limit of the host.                            *)

\* From the threshold on, a host has counted what it had counted just below it,
\* the request that crossed it and the late ones, none heavier than W.
Filled(h, W) ==
  used[h] >= Threshold /\ late[h] < LateCap =>
    used[h] <= Threshold - 1 + W * (late[h] + 1)

LEMMA OneMore ==
  ASSUME NEW W \in Nat, NEW n \in Nat
  PROVE  /\ W * (n + 1) \in Nat /\ W * (n + 2) \in Nat
         /\ W * (n + 2) = W * (n + 1) + W
OBVIOUS

LEMMA Monotone ==
  ASSUME NEW W \in Nat, NEW m \in Nat, NEW n \in Nat, m <= n
  PROVE  W * m <= W * n /\ W * m \in Nat /\ W * n \in Nat
<1> DEFINE d == n - m
<1>1. d \in Nat /\ n = m + d
  OBVIOUS
<1> HIDE DEF d
<1>2. W * (m + d) = W * m + W * d /\ W * d >= 0 /\ W * m \in Nat
  BY <1>1
<1> QED BY <1>1, <1>2

LEMMA MaxLateNat == MaxLate \in Nat
<1> DEFINE square == Workers * (Workers + 1)
<1>1. Workers \in Nat /\ Workers >= 1
  BY WorkersNat, LimitAssumption, FS_EmptySet DEF Workers
<1>2. square \in Nat /\ square >= 2
  BY <1>1
<1>3. MaxLate = square \div 2 - 1
  BY DEF MaxLate
<1> HIDE DEF square
<1> QED BY <1>2, <1>3

\* What a host does with one more request.
LEMMA Serving ==
  ASSUME NEW h, Hosts = {h}, TypeOK, NEW c \in Calls, Serve(c)
  PROVE  \E cost \in Costs :
           /\ used'[h] = (IF used[h] + cost <= BanLimit THEN used[h] + cost ELSE used[h])
           /\ limited' = [limited EXCEPT ![c] = ~(used[h] + cost <= BanLimit)]
           /\ late'[h] = (IF used[h] >= Threshold /\ late[h] < LateCap
                          THEN late[h] + 1 ELSE late[h])
           /\ lost' = lost
<1>1. host[c] = h /\ h \in Hosts
  BY DEF TypeOK
<1> QED BY <1>1 DEF Serve, TypeOK

LEMMA FilledKept ==
  ASSUME NEW h, Hosts = {h}, NEW W \in Nat, \A cost \in Costs : cost <= W
  PROVE  Spec => []Filled(h, W)
<1>1. Init => Filled(h, W)
  BY LimitAssumption DEF Init, Filled
<1>2. TypeOK /\ Bounded(h) /\ Filled(h, W) /\ [Next]_vars => Filled(h, W)'
  <2> SUFFICES ASSUME TypeOK, Bounded(h), Filled(h, W), [Next]_vars
               PROVE  Filled(h, W)'
    OBVIOUS
  <2>0. /\ used[h] \in Nat /\ late[h] \in 0 .. LateCap
        /\ Threshold \in Nat \ {0} /\ LateCap \in Nat
    BY LimitAssumption DEF TypeOK
  <2>1. ASSUME NEW c \in Calls, Serve(c)
        PROVE  Filled(h, W)'
    <3>1. PICK cost \in Costs :
            /\ used'[h] = (IF used[h] + cost <= BanLimit THEN used[h] + cost ELSE used[h])
            /\ late'[h] = (IF used[h] >= Threshold /\ late[h] < LateCap
                           THEN late[h] + 1 ELSE late[h])
      BY <2>1, Serving
    <3>2. cost \in Nat /\ cost <= W /\ used'[h] \in Nat /\ used'[h] <= used[h] + W
      BY <2>0, <3>1, LimitAssumption
    <3>3. CASE used[h] < Threshold
      <4>1. late'[h] = 0
        BY <2>0, <3>1, <3>3 DEF Bounded
      <4>2. W * (0 + 1) = W
        OBVIOUS
      <4> QED BY <2>0, <3>2, <3>3, <4>1, <4>2 DEF Filled
    <3>4. CASE used[h] >= Threshold /\ late[h] < LateCap
      <4>1. late'[h] = late[h] + 1
        BY <3>1, <3>4
      <4>2. W * (late'[h] + 1) = W * (late[h] + 1) + W /\ W * (late[h] + 1) \in Nat
        BY <2>0, <4>1, OneMore
      <4> DEFINE before == W * (late[h] + 1)
                 after  == W * (late'[h] + 1)
      <4>3. used[h] <= Threshold - 1 + before
        BY <3>4 DEF Filled
      <4>4. after = before + W /\ before \in Nat
        BY <4>2
      <4> HIDE DEF before, after
      <4>5. used'[h] <= Threshold - 1 + after
        BY <2>0, <3>2, <4>3, <4>4
      <4> QED BY <4>5 DEF Filled, after
    <3>5. CASE used[h] >= Threshold /\ late[h] = LateCap
      BY <2>0, <3>1, <3>5 DEF Filled
    <3> QED BY <2>0, <3>3, <3>4, <3>5
  <2>2. CASE Boundary
    BY <2>2, <2>0 DEF Boundary, Filled
  <2>3. ASSUME UNCHANGED <<used, late>>
        PROVE  Filled(h, W)'
    BY <2>3 DEF Filled
  <2> QED BY <2>1, <2>2, <2>3 DEF Next, vars, Check, Wake, Receive, Fail, Thaw
<1> QED BY <1>1, <1>2, TypeCorrect, BoundKept, PTL DEF Spec

\* The room a host needs above the threshold so that racing workers cannot use it
\* up, when no request is heavier than W: with the 1100 and 1200 of
\* ratelimit.go:12, W * N(N+1)/2 <= 101 for N workers.
RoomFor(W) == /\ \A cost \in Costs : cost <= W
              /\ Threshold - 1 + W * (MaxLate + 1) <= BanLimit
              /\ MaxLate < LateCap

\* While no answer has been lost, there is room for one more request.
LEMMA Fits ==
  ASSUME NEW h, Hosts = {h}, NEW W \in Nat, RoomFor(W), TypeOK, Bounded(h),
         Filled(h, W), OvershootBounded', NEW c \in Calls, Serve(c), ~lost
  PROVE  limited' = [limited EXCEPT ![c] = FALSE]
<1>0. /\ used[h] \in Nat /\ late[h] \in 0 .. LateCap /\ h \in Hosts
      /\ Threshold \in Nat \ {0} /\ LateCap \in Nat /\ BanLimit \in Nat
      /\ MaxLate \in Nat
  BY LimitAssumption, MaxLateNat DEF TypeOK
<1>1. PICK cost \in Costs :
        /\ limited' = [limited EXCEPT ![c] = ~(used[h] + cost <= BanLimit)]
        /\ late'[h] = (IF used[h] >= Threshold /\ late[h] < LateCap
                       THEN late[h] + 1 ELSE late[h])
        /\ lost' = lost
  BY Serving
<1>2. cost \in Nat /\ cost <= W
  BY LimitAssumption DEF RoomFor
<1>3. late'[h] <= MaxLate /\ MaxLate < LateCap
  BY <1>0, <1>1 DEF OvershootBounded, RoomFor
<1> DEFINE room == W * (MaxLate + 1)
<1>4. Threshold - 1 + room <= BanLimit
  BY DEF RoomFor
<1>5. CASE used[h] < Threshold
  <2>1. W * 1 <= room /\ room \in Nat
    BY <1>0, Monotone
  <2>2. W * 1 = W
    OBVIOUS
  <2> HIDE DEF room
  <2>3. used[h] + cost <= BanLimit
    BY <1>0, <1>2, <1>4, <1>5, <2>1, <2>2
  <2> QED BY <1>1, <2>3
<1>6. CASE used[h] >= Threshold
  <2>1. late[h] < LateCap /\ late[h] + 1 <= MaxLate
    BY <1>0, <1>1, <1>3, <1>6
  <2> DEFINE before == W * (late[h] + 1)
  <2>2. used[h] <= Threshold - 1 + before
    BY <1>6, <2>1 DEF Filled
  <2>3. W * (late[h] + 2) = before + W /\ before \in Nat
    BY <1>0, OneMore
  <2>4. W * (late[h] + 2) <= room /\ room \in Nat
    BY <1>0, <2>1, Monotone
  <2> HIDE DEF room, before
  <2>5. used[h] + cost <= BanLimit
    BY <1>0, <1>2, <1>4, <2>2, <2>3, <2>4
  <2> QED BY <1>1, <2>5
<1> QED BY <1>0, <1>5, <1>6

\* On one host that leaves that room, a request is refused with a 429 only in a
\* minute in which an answer, and with it a reading, was lost.
THEOREM RefusesOnlyAfterLoss ==
  ASSUME NEW h, Hosts = {h}, NEW W \in Nat, RoomFor(W)
  PROVE  Spec => RefusedOnlyAfterLoss
<1> DEFINE A == \A c \in Calls : limited'[c] /\ ~limited[c] => lost
<1>1. TypeOK /\ Bounded(h) /\ Filled(h, W) /\ OvershootBounded' /\ [Next]_vars => [A]_vars
  <2> SUFFICES ASSUME TypeOK, Bounded(h), Filled(h, W), OvershootBounded', [Next]_vars,
                      NEW c \in Calls, limited'[c], ~limited[c], ~lost
               PROVE  FALSE
    OBVIOUS
  <2>1. ASSUME NEW d \in Calls, Serve(d)
        PROVE  FALSE
    BY <2>1, Fits DEF TypeOK
  <2>2. ASSUME limited' = limited
        PROVE  FALSE
    BY <2>2
  <2>3. ASSUME NEW d \in Calls, Forget(d)
        PROVE  FALSE
    BY <2>3 DEF Forget, TypeOK
  <2> QED BY <2>1, <2>2, <2>3 DEF Next, vars, Boundary, Check, Wake, Receive, Fail, Thaw
<1> HIDE DEF A
<1>2. \A cost \in Costs : cost <= W
  BY DEF RoomFor
<1>3. Spec => []Filled(h, W)
  BY <1>2, FilledKept
<1>4. Spec => [][A]_vars
  BY <1>1, <1>3, BoundKept, OvershootLimited, TypeCorrect, PTL DEF Spec
<1> QED BY <1>4 DEF RefusedOnlyAfterLoss, A

\* With one host, that room and no lost answers README.md:63 is kept to the
\* letter: the host never answers 429.  (With three hosts it is not, see
\* NeverLimited in the run limit_hosts.)
THEOREM OneHostNeverLimited ==
  ASSUME NEW h, Hosts = {h}, NEW W \in Nat, RoomFor(W), ~Lossy
  PROVE  Spec => []NeverLimited
<1> DEFINE A == \A c \in Calls : limited'[c] /\ ~limited[c] => lost
           Clean == TypeOK /\ ~lost /\ NeverLimited
<1>1. Init => Clean
  <2>1. Init => TypeOK
    <3>1. Init => lost \in BOOLEAN /\ limited \in [Calls -> BOOLEAN]
      BY Zenon DEF Init
    <3> QED BY <3>1, LimitAssumption DEF Init, TypeOK
  <2> QED BY <2>1 DEF Init, NeverLimited
<1>2. Clean /\ TypeOK' /\ [Next]_vars /\ [A]_vars => Clean'
  <2> SUFFICES ASSUME Clean, TypeOK', [Next]_vars, [A]_vars
               PROVE  ~lost' /\ NeverLimited'
    OBVIOUS
  <2>1. ~lost'
    BY DEF Next, vars, Boundary, Check, Wake, Serve, Receive, Fail, Thaw
  <2>2. A \/ limited' = limited
    BY DEF vars
  <2>3. NeverLimited'
    BY <2>2 DEF NeverLimited
  <2> QED BY <2>1, <2>3
<1>3. Spec => [][A]_vars
  BY RefusesOnlyAfterLoss DEF RefusedOnlyAfterLoss
<1>4. Clean => NeverLimited
  OBVIOUS
<1> HIDE DEF A, Clean
<1> QED BY <1>1, <1>2, <1>3, <1>4, TypeCorrect, PTL DEF Spec
=============================================================================
