----------------------- MODULE FuturesPositionProofs -----------------------
(* Proofs about FuturesPosition, for any number of workers and any size of    *)
(* position: type correctness, OnlyReduces and QuietCloseIsComplete.          *)
EXTENDS FuturesPosition, TLAPS

\* An order that no fill can take away from zero.
Reducing(o) == /\ o \in Orders
               /\ o.leg \in Legs
               /\ \/ o.reduceOnly
                  \/ o.leg = "LONG" /\ o.side = "SELL"
                  \/ o.leg = "SHORT" /\ o.side = "BUY"

\* Every order on its way to the exchange, or held there, is such an order.
Poised == \A c \in Calls :
            pc[c] = "order" \/ place[c] \in {"way", "held"} => Reducing(order[c])

\* A close has an answer only after its order, and the order it sends is for
\* all that it saw.
Answered(c) ==
  /\ pc[c] \in {"query", "decide"} => filled[c] = 0 /\ place[c] = "none"
  /\ pc[c] # "idle" => result[c] = "none yet"
  /\ pc[c] = "order" => order[c].qty = Abs(seen[c][order[c].leg])
  /\ result[c] = "FILLED" => order[c].leg \in Legs

\* While nobody else trades, the position can only have shrunk since a close
\* looked at it, by what its own order has been filled with at least; and the
\* leg it closed stays closed.
Looked(c) ==
  quiet[c] =>
    /\ pc[c] \in {"decide", "order"} =>
         \A leg \in AllLegs : Shrinks(seen[c][leg], amt[leg])
    /\ pc[c] = "order" =>
         /\ Abs(amt[order[c].leg]) + filled[c] <= Abs(seen[c][order[c].leg])
         /\ place[c] = "filled" => amt[order[c].leg] = 0
    /\ result[c] = "FILLED" => amt[order[c].leg] = 0

IInv == TypeOK /\ Poised /\ \A c \in Calls : Answered(c) /\ Looked(c)

\* What a position is: an amount for each leg the mode has, within its bounds.
Bounded(a) == /\ a \in [AllLegs -> Int]
              /\ \A leg \in AllLegs : a[leg] \in Amounts(leg)
              /\ \A leg \in AllLegs \ Legs : a[leg] = 0

\* What a fill of a reducing order does to the position: it takes its leg nearer
\* to zero by as much as it fills.
LEMMA FillShrinks ==
  ASSUME TypeOK, NEW o, Reducing(o), NEW k \in Nat, 1 <= k, k <= Room(o)
  PROVE  /\ Bounded(Moved(o, k))
         /\ \A leg \in AllLegs : Shrinks(amt[leg], Moved(o, k)[leg])
         /\ Abs(Moved(o, k)[o.leg]) = Abs(amt[o.leg]) - k
         /\ k = Room(o) => Moved(o, k)[o.leg] = 0
<1> USE PositionAssumption
<1> DEFINE n == amt[o.leg]
           m == Moved(o, k)[o.leg]
<1>1. /\ o.leg \in AllLegs /\ o.side \in {"BUY", "SELL"} /\ o.leg \in Legs
      /\ o.reduceOnly \in BOOLEAN
      /\ o.reduceOnly \/ (o.leg = "LONG" /\ o.side = "SELL")
                      \/ (o.leg = "SHORT" /\ o.side = "BUY")
  BY DEF Reducing, Orders
<1>2. /\ amt \in [AllLegs -> Int]
      /\ \A leg \in AllLegs : amt[leg] \in Low(leg) .. High(leg)
      /\ \A leg \in AllLegs \ Legs : amt[leg] = 0
  BY DEF TypeOK, Amounts
<1>3. n \in Int /\ Low(o.leg) <= n /\ n <= High(o.leg)
  BY <1>1, <1>2
<1>4. /\ Low(o.leg) \in Int /\ Low(o.leg) <= 0
      /\ High(o.leg) \in Int /\ 0 <= High(o.leg)
      /\ o.leg = "LONG" => Low(o.leg) = 0
      /\ o.leg = "SHORT" => High(o.leg) = 0
  BY DEF Low, High
<1>5. o.side = "BUY" => Room(o) = IF n < 0 THEN -n ELSE 0
  <2>1. CASE o.reduceOnly
    BY <1>3, <2>1 DEF Room, Abs
  <2>2. CASE ~o.reduceOnly
    BY <1>1, <1>3, <1>4, <2>2 DEF Room
  <2> QED
    BY <2>1, <2>2
<1>6. o.side = "SELL" => Room(o) = IF n > 0 THEN n ELSE 0
  <2>1. CASE o.reduceOnly
    BY <1>3, <2>1 DEF Room, Abs
  <2>2. CASE ~o.reduceOnly
    BY <1>1, <1>3, <1>4, <2>2 DEF Room
  <2> QED
    BY <2>1, <2>2
<1>7. Moved(o, k) = [amt EXCEPT ![o.leg] = IF o.side = "BUY" THEN n + k ELSE n - k]
  BY DEF Moved
<1>8. /\ m = IF o.side = "BUY" THEN n + k ELSE n - k
      /\ \A leg \in AllLegs : leg # o.leg => Moved(o, k)[leg] = amt[leg]
  BY <1>1, <1>2, <1>7
<1>9. /\ m \in Int /\ Shrinks(n, m) /\ Low(o.leg) <= m /\ m <= High(o.leg)
      /\ Abs(m) = Abs(n) - k
      /\ k = Room(o) => m = 0
  <2>1. CASE o.side = "BUY"
    BY <1>3, <1>4, <1>5, <1>8, <2>1 DEF Shrinks, Abs
  <2>2. CASE o.side = "SELL"
    BY <1>3, <1>4, <1>6, <1>8, <2>2 DEF Shrinks, Abs
  <2> QED
    BY <1>1, <2>1, <2>2
<1>10. Moved(o, k) \in [AllLegs -> Int]
  BY <1>1, <1>2, <1>7, <1>8, <1>9
<1>11. \A leg \in AllLegs : amt[leg] \in Int => Shrinks(amt[leg], amt[leg])
  BY DEF Shrinks
<1>12. \A leg \in AllLegs : Moved(o, k)[leg] \in Amounts(leg)
  BY <1>1, <1>2, <1>4, <1>8, <1>9 DEF Amounts
<1>13. Bounded(Moved(o, k))
  BY <1>1, <1>2, <1>8, <1>10, <1>12 DEF Bounded
<1> QED
  BY <1>1, <1>2, <1>8, <1>9, <1>11, <1>13
-----------------------------------------------------------------------------
\* The invariant holds at the start: no position, no call.
LEMMA InitIInv == Init => IInv
<1> USE PositionAssumption
<1> SUFFICES ASSUME Init PROVE IInv
  OBVIOUS
<1>1. TypeOK
  <2>1. \A leg \in AllLegs : 0 \in Amounts(leg)
    BY DEF Amounts, Low, High
  <2>2. Flat \in [AllLegs -> Int] /\ \A leg \in AllLegs : Flat[leg] = 0
    BY DEF Flat
  <2>3. 0 \in 0 .. MaxAmt
    OBVIOUS
  <2> QED
    BY <2>1, <2>2, <2>3 DEF Init, TypeOK, Places, Results
<1>2. Poised /\ \A c \in Calls : Answered(c) /\ Looked(c)
  BY DEF Init, Poised, Answered, Looked
<1> QED
  BY <1>1, <1>2 DEF IInv

\* A close order takes all of the leg it saw, and can only reduce it.
LEMMA OrderReduces ==
  ASSUME TypeOK, NEW c \in Calls, NEW leg \in OpenLegs(c)
  PROVE  LET o == CloseOrder(leg, seen[c][leg])
         IN /\ Reducing(o) /\ o.leg = leg
            /\ o.qty = Abs(seen[c][leg])
<1> USE PositionAssumption
<1>1. leg \in Legs /\ leg \in AllLegs /\ seen[c][leg] # 0
  BY DEF OpenLegs, Legs, AllLegs
<1>2. seen[c][leg] \in Int /\ seen[c][leg] \in Amounts(leg)
  BY <1>1 DEF TypeOK
<1>3. Abs(seen[c][leg]) \in 1 .. MaxAmt
  BY <1>1, <1>2, SMT DEF Abs, Amounts, Low, High
<1>4. CloseOrder(leg, seen[c][leg]) \in Orders
  BY <1>1, <1>3 DEF CloseOrder, Orders
<1>5. \/ leg = "BOTH"
      \/ leg = "LONG" /\ ~(seen[c][leg] < 0)
      \/ leg = "SHORT" /\ seen[c][leg] < 0
  BY <1>1, <1>2, SMT DEF AllLegs, Amounts, Low, High
<1> QED
  BY <1>1, <1>4, <1>5 DEF Reducing, CloseOrder

\* The same of a step that fills one.
LEMMA FillMoves ==
  ASSUME IInv, NEW c \in Calls, Fill(c)
  PROVE  \E k \in Nat :
           /\ filled' = [filled EXCEPT ![c] = @ + k]
           /\ filled[c] + k \in 0 .. MaxAmt
           /\ Bounded(amt')
           /\ \A leg \in AllLegs : Shrinks(amt[leg], amt'[leg])
           /\ order[c].leg \in Legs
           /\ Abs(amt'[order[c].leg]) = Abs(amt[order[c].leg]) - k
           /\ place'[c] = "filled" =>
                filled[c] + k = order[c].qty \/ amt'[order[c].leg] = 0
<1> USE PositionAssumption
<1>1. TypeOK /\ Reducing(order[c])
  BY DEF IInv, Poised, Fill
<1>2. order[c].qty \in 1 .. MaxAmt /\ order[c].leg \in Legs
  BY <1>1 DEF Reducing, Orders
<1>3. filled[c] \in 0 .. MaxAmt /\ filled \in [Calls -> 0 .. MaxAmt]
      /\ place \in [Calls -> Places] /\ place[c] = "held"
  BY <1>1 DEF TypeOK, Fill
<1>4. PICK k \in 1 .. order[c].qty - filled[c] :
        /\ k <= Room(order[c])
        /\ amt' = Moved(order[c], k)
        /\ filled' = [filled EXCEPT ![c] = @ + k]
        /\ \/ /\ filled'[c] = order[c].qty \/ k = Room(order[c])
              /\ place' = [place EXCEPT ![c] = "filled"]
           \/ filled'[c] # order[c].qty /\ UNCHANGED place
  BY DEF Fill
<1>5. k \in Nat /\ 1 <= k /\ filled[c] + k \in 0 .. MaxAmt
  BY <1>2, <1>3, <1>4
<1>6. filled'[c] = filled[c] + k
  BY <1>3, <1>4
<1>7. /\ Bounded(amt')
      /\ \A leg \in AllLegs : Shrinks(amt[leg], amt'[leg])
      /\ Abs(amt'[order[c].leg]) = Abs(amt[order[c].leg]) - k
      /\ k = Room(order[c]) => amt'[order[c].leg] = 0
  BY <1>1, <1>4, <1>5, FillShrinks
<1> QED
  BY <1>2, <1>3, <1>4, <1>5, <1>6, <1>7

\* A trade of somebody else moves a leg within its bounds.
LEMMA TradeMoves ==
  ASSUME IInv, NEW leg \in Legs, Trade(leg)
  PROVE  Bounded(amt')
<1> USE PositionAssumption
<1>1. PICK n \in Amounts(leg) : amt' = [amt EXCEPT ![leg] = n]
  BY DEF Trade
<1>2. leg \in AllLegs
  BY DEF Legs, AllLegs
<1>3. n \in Int
  BY DEF Amounts, Low, High
<1>4. Bounded(amt)
  BY DEF IInv, TypeOK, Bounded
<1> QED
  BY <1>1, <1>2, <1>3, <1>4 DEF Bounded

\* Only they change the position.
LEMMA StillAmt == IInv /\ UNCHANGED <<hedge, amt>> => Bounded(amt')
  BY DEF IInv, TypeOK, Bounded

\* Every step keeps the types.
LEMMA TypeStep == IInv /\ [Next]_vars => TypeOK'
<1> SUFFICES ASSUME IInv, [Next]_vars PROVE TypeOK'
  OBVIOUS
<1> USE PositionAssumption
<1> DEFINE Rest == /\ hedge' = hedge
                   /\ pc' \in [Calls -> {"idle", "query", "decide", "order"}]
                   /\ seen' \in [Calls -> [AllLegs -> Int]]
                   /\ \A c \in Calls, leg \in AllLegs : seen'[c][leg] \in Amounts(leg)
                   /\ order' \in [Calls -> Orders \cup {NoOrder}]
                   /\ place' \in [Calls -> Places]
                   /\ filled' \in [Calls -> 0 .. MaxAmt]
                   /\ quiet' \in [Calls -> BOOLEAN]
                   /\ result' \in [Calls -> Results]
<1>b. TypeOK
  BY DEF IInv
<1>a. ASSUME Bounded(amt'), Rest PROVE TypeOK'
  <2>1. Legs' = Legs /\ hedge' \in BOOLEAN
    BY <1>a, <1>b DEF Legs, TypeOK
  <2> QED
    BY <1>a, <2>1 DEF TypeOK, Bounded
<1>1. ASSUME NEW c \in Calls, Begin(c) PROVE Bounded(amt') /\ Rest
  <2>1. /\ Flat \in [AllLegs -> Int]
        /\ \A leg \in AllLegs : Flat[leg] \in Amounts(leg)
    BY DEF Flat, Amounts, Low, High
  <2>2. /\ seen' \in [Calls -> [AllLegs -> Int]]
        /\ \A e \in Calls, leg \in AllLegs : seen'[e][leg] \in Amounts(leg)
    <3>1. \A e \in Calls : seen'[e] = IF e = c THEN Flat ELSE seen[e]
      BY <1>1, <1>b DEF Begin, TypeOK
    <3>2. seen' \in [Calls -> [AllLegs -> Int]]
      BY <1>1, <1>b, <2>1 DEF Begin, TypeOK
    <3> QED
      BY <1>b, <2>1, <3>1, <3>2 DEF TypeOK
  <2>3. filled' \in [Calls -> 0 .. MaxAmt]
    <3>1. 0 \in 0 .. MaxAmt
      OBVIOUS
    <3>2. filled \in [Calls -> 0 .. MaxAmt] /\ filled' = [filled EXCEPT ![c] = 0]
      BY <1>1, <1>b DEF Begin, TypeOK
    <3> QED
      BY <3>1, <3>2, Zenon
  <2>4. order' \in [Calls -> Orders \cup {NoOrder}]
    BY <1>1, <1>b DEF Begin, TypeOK, NoOrder
  <2>5. place' \in [Calls -> Places] /\ result' \in [Calls -> Results]
    BY <1>1, <1>b DEF Begin, TypeOK, Places, Results
  <2>6. /\ pc' \in [Calls -> {"idle", "query", "decide", "order"}]
        /\ quiet' \in [Calls -> BOOLEAN]
    BY <1>1, <1>b DEF Begin, TypeOK
  <2> QED
    BY <1>1, <2>2, <2>3, <2>4, <2>5, <2>6, StillAmt DEF Begin
<1>2. ASSUME NEW c \in Calls, Query(c) PROVE Bounded(amt') /\ Rest
  BY <1>2, <1>b, StillAmt DEF Query, TypeOK
<1>3. ASSUME NEW c \in Calls, QueryFails(c) PROVE Bounded(amt') /\ Rest
  BY <1>3, <1>b, StillAmt DEF QueryFails, TypeOK, Results
<1>4. ASSUME NEW c \in Calls, NoPosition(c) PROVE Bounded(amt') /\ Rest
  BY <1>4, <1>b, StillAmt DEF NoPosition, TypeOK, Results
<1>5. ASSUME NEW c \in Calls, Place(c) PROVE Bounded(amt') /\ Rest
  <2>1. PICK leg \in OpenLegs(c) :
          order' = [order EXCEPT ![c] = CloseOrder(leg, seen[c][leg])]
    BY <1>5 DEF Place
  <2>2. CloseOrder(leg, seen[c][leg]) \in Orders
    BY <1>b, OrderReduces DEF Reducing
  <2>3. order' \in [Calls -> Orders \cup {NoOrder}]
    BY <1>b, <2>1, <2>2 DEF TypeOK
  <2> QED
    BY <1>5, <1>b, <2>3, StillAmt DEF Place, TypeOK, Places
<1>6. ASSUME NEW c \in Calls, Answer(c) PROVE Bounded(amt') /\ Rest
  <2>1. result' \in [Calls -> Results]
    BY <1>6, <1>b DEF Answer, TypeOK
  <2> QED
    BY <1>6, <1>b, <2>1, StillAmt DEF Answer, TypeOK
<1>7. ASSUME NEW c \in Calls, Lose(c) PROVE Bounded(amt') /\ Rest
  BY <1>7, <1>b, StillAmt DEF Lose, TypeOK, Places, Results
<1>8. ASSUME NEW c \in Calls, Arrive(c) PROVE Bounded(amt') /\ Rest
  BY <1>8, <1>b, StillAmt DEF Arrive, TypeOK, Places
<1>9. ASSUME NEW c \in Calls, Fill(c) PROVE Bounded(amt') /\ Rest
  <2>1. Bounded(amt') /\ filled' \in [Calls -> 0 .. MaxAmt]
    BY <1>9, <1>b, FillMoves DEF TypeOK
  <2>2. place' \in [Calls -> Places]
    BY <1>9, <1>b DEF Fill, TypeOK, Places
  <2> QED
    BY <1>9, <1>b, <2>1, <2>2 DEF Fill, TypeOK
<1>10. ASSUME NEW c \in Calls, Expire(c) PROVE Bounded(amt') /\ Rest
  BY <1>10, <1>b, StillAmt DEF Expire, TypeOK, Places
<1>11. ASSUME NEW leg \in Legs, Trade(leg) PROVE Bounded(amt') /\ Rest
  BY <1>11, <1>b, TradeMoves DEF Trade, TypeOK
<1>12. ASSUME UNCHANGED vars PROVE Bounded(amt') /\ Rest
  BY <1>12, <1>b, StillAmt DEF vars, TypeOK
<1> QED
  BY <1>a, <1>1, <1>2, <1>3, <1>4, <1>5, <1>6, <1>7, <1>8, <1>9, <1>10, <1>11,
     <1>12 DEF Next, Close

\* No step changes the mode of the account.
LEMMA SameLegs == [Next]_vars => hedge' = hedge /\ Legs' = Legs
<1> SUFFICES ASSUME [Next]_vars PROVE hedge' = hedge
  BY DEF Legs
<1>1. ASSUME NEW c \in Calls, Close(c) PROVE hedge' = hedge
  BY <1>1 DEF Close, Begin, Query, QueryFails, NoPosition, Place, Answer, Lose,
              Arrive, Fill, Expire
<1>2. ASSUME NEW leg \in Legs, Trade(leg) PROVE hedge' = hedge
  BY <1>2 DEF Trade
<1>3. UNCHANGED vars => hedge' = hedge
  BY DEF vars
<1> QED
  BY <1>1, <1>2, <1>3 DEF Next

\* An order on its way or held stays one that can only reduce: steps of other
\* calls do not touch it, and a new one is a close order.
LEMMA PoisedStep == IInv /\ [Next]_vars => Poised'
<1> SUFFICES ASSUME IInv, [Next]_vars,
                    NEW d \in Calls, pc'[d] = "order" \/ place'[d] \in {"way", "held"}
             PROVE  Reducing(order'[d])
  BY SameLegs DEF Poised, Reducing
<1> DEFINE Carried == /\ order'[d] = order[d]
                      /\ pc[d] = "order" \/ place[d] \in {"way", "held"}
<1>a. Carried => Reducing(order'[d])
  BY DEF IInv, Poised
<1>b. TypeOK
  BY DEF IInv
<1>1. ASSUME NEW c \in Calls, Begin(c) PROVE Carried
  BY <1>1, <1>b DEF Begin, TypeOK
<1>2. ASSUME NEW c \in Calls, Query(c) PROVE Carried
  BY <1>2, <1>b DEF Query, TypeOK
<1>3. ASSUME NEW c \in Calls, QueryFails(c) PROVE Carried
  BY <1>3, <1>b DEF QueryFails, TypeOK
<1>4. ASSUME NEW c \in Calls, NoPosition(c) PROVE Carried
  BY <1>4, <1>b DEF NoPosition, TypeOK
<1>5. ASSUME NEW c \in Calls, Place(c) PROVE Reducing(order'[d])
  <2>1. PICK leg \in OpenLegs(c) :
          order' = [order EXCEPT ![c] = CloseOrder(leg, seen[c][leg])]
    BY <1>5 DEF Place
  <2>2. Reducing(CloseOrder(leg, seen[c][leg]))
    BY <1>b, OrderReduces
  <2>3. CASE d = c
    BY <1>b, <2>1, <2>2, <2>3 DEF TypeOK
  <2>4. CASE d # c
    BY <1>5, <1>a, <1>b, <2>1, <2>4 DEF Place, TypeOK
  <2> QED
    BY <2>3, <2>4
<1>6. ASSUME NEW c \in Calls, Answer(c) PROVE Carried
  BY <1>6, <1>b DEF Answer, TypeOK
<1>7. ASSUME NEW c \in Calls, Lose(c) PROVE Carried
  BY <1>7, <1>b DEF Lose, TypeOK
<1>8. ASSUME NEW c \in Calls, Arrive(c) PROVE Carried
  BY <1>8, <1>b DEF Arrive, TypeOK
<1>9. ASSUME NEW c \in Calls, Fill(c) PROVE Carried
  BY <1>9, <1>b DEF Fill, TypeOK
<1>10. ASSUME NEW c \in Calls, Expire(c) PROVE Carried
  BY <1>10, <1>b DEF Expire, TypeOK
<1>11. ASSUME NEW leg \in Legs, Trade(leg) PROVE Carried
  BY <1>11 DEF Trade
<1>12. ASSUME UNCHANGED vars PROVE Carried
  BY <1>12 DEF vars
<1> QED
  BY <1>a, <1>1, <1>2, <1>3, <1>4, <1>5, <1>6, <1>7, <1>8, <1>9, <1>10, <1>11,
     <1>12 DEF Next, Close

\* Shrinking from what was seen, and from there again, is shrinking.
LEMMA ShrinksOn ==
  ASSUME NEW x \in Int, NEW y \in Int, NEW z \in Int, Shrinks(x, y), Shrinks(y, z)
  PROVE  Shrinks(x, z) /\ Abs(x) >= Abs(z) /\ (y = 0 => z = 0)
         /\ Abs(x) >= Abs(y)
  BY SMT DEF Shrinks, Abs

\* OnlyReduces, of one step.
LEMMA CloseShrinks ==
  ASSUME IInv, NEW c \in Calls, Close(c)
  PROVE  \A leg \in AllLegs : Shrinks(amt[leg], amt'[leg])
<1>1. CASE Fill(c)
  BY <1>1, FillMoves
<1>2. ASSUME amt' = amt PROVE \A leg \in AllLegs : Shrinks(amt[leg], amt'[leg])
  <2>1. \A leg \in AllLegs : amt[leg] \in Int
    BY DEF IInv, TypeOK
  <2> QED
    BY <1>2, <2>1 DEF Shrinks
<1> QED
  BY <1>1, <1>2 DEF Close, Begin, Query, QueryFails, NoPosition, Place, Answer,
                    Lose, Arrive, Expire

\* A call's answer, order and what it saw stay in step.
LEMMA AnsweredStep ==
  ASSUME IInv, [Next]_vars, NEW d \in Calls
  PROVE  Answered(d)'
<1>a. TypeOK /\ Poised /\ Answered(d)
  BY DEF IInv
<1>b. Legs' = Legs
  BY SameLegs
<1> DEFINE Kept == UNCHANGED <<pc[d], seen[d], order[d], place[d], filled[d], result[d]>>
<1>c. Kept => Answered(d)'
  BY <1>a, <1>b DEF Answered
<1>d. ASSUME NEW c \in Calls, Close(c), c # d PROVE Kept
  BY <1>a, <1>d DEF TypeOK, Close, Begin, Query, QueryFails, NoPosition, Place,
                    Answer, Lose, Arrive, Fill, Expire
<1>1. ASSUME Begin(d) PROVE Answered(d)'
  BY <1>1, <1>a DEF Begin, TypeOK, Answered
<1>2. ASSUME Query(d) PROVE Answered(d)'
  BY <1>2, <1>a DEF Query, TypeOK, Answered
<1>3. ASSUME QueryFails(d) PROVE Answered(d)'
  BY <1>3, <1>a DEF QueryFails, TypeOK, Answered
<1>4. ASSUME NoPosition(d) PROVE Answered(d)'
  BY <1>4, <1>a DEF NoPosition, TypeOK, Answered
<1>5. ASSUME Place(d) PROVE Answered(d)'
  <2>1. PICK leg \in OpenLegs(d) :
          order' = [order EXCEPT ![d] = CloseOrder(leg, seen[d][leg])]
    BY <1>5 DEF Place
  <2>2. /\ order'[d].leg = leg
        /\ order'[d].qty = Abs(seen[d][leg])
    BY <1>a, <2>1, OrderReduces DEF TypeOK
  <2>3. pc'[d] = "order" /\ result'[d] = "none yet" /\ seen' = seen
    BY <1>5, <1>a DEF Place, TypeOK, Answered
  <2> QED
    BY <2>2, <2>3 DEF Answered
<1>6. ASSUME Answer(d) PROVE Answered(d)'
  <2>1. pc'[d] = "idle" /\ order' = order
    BY <1>6, <1>a DEF Answer, TypeOK
  <2>2. order[d].leg \in Legs
    BY <1>6, <1>a DEF Answer, Poised, Reducing
  <2> QED
    BY <1>b, <2>1, <2>2 DEF Answered
<1>7. ASSUME Lose(d) PROVE Answered(d)'
  BY <1>7, <1>a DEF Lose, TypeOK, Answered
<1>8. ASSUME Arrive(d) \/ Fill(d) \/ Expire(d) PROVE Answered(d)'
  <2>1. UNCHANGED <<pc[d], seen[d], order[d], result[d]>>
    BY <1>8 DEF Arrive, Fill, Expire
  <2>2. pc[d] \notin {"query", "decide"}
    BY <1>8, <1>a DEF Arrive, Fill, Expire, Answered
  <2> QED
    BY <1>a, <1>b, <2>1, <2>2 DEF Answered
<1>11. ASSUME NEW leg \in Legs, Trade(leg) PROVE Kept
  BY <1>11 DEF Trade
<1>12. ASSUME UNCHANGED vars PROVE Kept
  BY <1>12 DEF vars
<1>13. ASSUME Close(d) PROVE Answered(d)'
  BY <1>13, <1>c, <1>1, <1>2, <1>3, <1>4, <1>5, <1>6, <1>7, <1>8
     DEF Close
<1> QED
  BY <1>c, <1>d, <1>11, <1>12, <1>13 DEF Next

\* Between the look and the end of an undisturbed close, other closes can only
\* take the position nearer to zero, and so can its own order.
LEMMA LookedStep ==
  ASSUME IInv, [Next]_vars, NEW d \in Calls
  PROVE  Looked(d)'
<1>a. TypeOK /\ Poised /\ Answered(d) /\ Looked(d)
  BY DEF IInv
<1>b. /\ \A leg \in AllLegs : amt[leg] \in Int /\ seen[d][leg] \in Int
      /\ \A leg \in AllLegs : Shrinks(amt[leg], amt[leg])
      /\ filled[d] \in Nat
  <2>1. \A leg \in AllLegs : amt[leg] \in Int /\ seen[d][leg] \in Int
    BY <1>a DEF TypeOK
  <2>2. filled[d] \in Nat
    BY <1>a, PositionAssumption DEF TypeOK
  <2> QED
    BY <2>1, <2>2 DEF Shrinks
<1>e. /\ pc[d] = "order" => order[d].leg \in AllLegs
      /\ result[d] = "FILLED" => order[d].leg \in AllLegs
  BY <1>a DEF Poised, Reducing, Answered, Legs, AllLegs
\* The step leaves what d knows alone, and shrinks the position if it changes it.
<1> DEFINE Near == /\ UNCHANGED <<pc[d], seen[d], order[d], quiet[d], result[d]>>
                   /\ amt' \in [AllLegs -> Int]
                   /\ \A leg \in AllLegs : Shrinks(amt[leg], amt'[leg])
           Kept == UNCHANGED <<place[d], filled[d]>>
<1>f. ASSUME Near PROVE \A leg \in AllLegs : /\ amt'[leg] \in Int
                                             /\ Shrinks(amt[leg], amt'[leg])
  BY <1>f
\* What then still holds, but for how far the order of d has come.
<1>g. ASSUME Near, quiet'[d]
      PROVE  /\ pc'[d] \in {"decide", "order"} =>
                  \A leg \in AllLegs : Shrinks(seen'[d][leg], amt'[leg])
             /\ result'[d] = "FILLED" => amt'[order'[d].leg] = 0
  <2>1. ASSUME NEW leg \in AllLegs, Shrinks(seen[d][leg], amt[leg])
        PROVE  Shrinks(seen[d][leg], amt'[leg])
    <3>1. /\ seen[d][leg] \in Int /\ amt[leg] \in Int /\ amt'[leg] \in Int
          /\ Shrinks(amt[leg], amt'[leg])
      BY <1>b, <1>f, <1>g
    <3> QED
      BY <2>1, <3>1, ShrinksOn
  <2>2. ASSUME NEW leg \in AllLegs, amt[leg] = 0 PROVE amt'[leg] = 0
    <3>1. amt'[leg] \in Int /\ Shrinks(amt[leg], amt'[leg])
      BY <1>f, <1>g
    <3> QED
      BY <2>2, <3>1 DEF Shrinks
  <2> QED
    BY <1>a, <1>e, <1>g, <2>1, <2>2 DEF Looked
<1>c. ASSUME Near, Kept PROVE Looked(d)'
  <2>1. ASSUME quiet'[d], pc'[d] = "order"
        PROVE  /\ Abs(amt'[order'[d].leg]) + filled'[d] <= Abs(seen'[d][order'[d].leg])
               /\ place'[d] = "filled" => amt'[order'[d].leg] = 0
    <3> DEFINE leg == order[d].leg
    <3>1. pc[d] = "order" /\ quiet[d] /\ leg \in AllLegs
      BY <1>c, <1>e, <2>1
    <3>2. /\ Abs(amt[leg]) + filled[d] <= Abs(seen[d][leg])
          /\ place[d] = "filled" => amt[leg] = 0
      BY <1>a, <3>1 DEF Looked
    <3>3. /\ amt[leg] \in Int /\ amt'[leg] \in Int /\ seen[d][leg] \in Int
          /\ filled[d] \in Nat /\ Shrinks(amt[leg], amt'[leg])
      BY <1>b, <1>c, <1>f, <3>1
    <3>4. /\ Abs(amt'[leg]) + filled[d] <= Abs(seen[d][leg])
          /\ place[d] = "filled" => amt'[leg] = 0
      BY <3>2, <3>3 DEF Shrinks, Abs
    <3> QED
      BY <1>c, <3>4
  <2> QED
    BY <1>c, <1>g, <2>1 DEF Looked
<1>d. ASSUME NEW c \in Calls, Close(c), c # d PROVE Near /\ Kept
  <2>1. amt' \in [AllLegs -> Int]
    BY TypeStep DEF TypeOK
  <2>2. UNCHANGED <<pc[d], seen[d], order[d], quiet[d], result[d], place[d], filled[d]>>
    BY <1>a, <1>d DEF TypeOK, Close, Begin, Query, QueryFails, NoPosition, Place,
                      Answer, Lose, Arrive, Fill, Expire
  <2> QED
    BY <1>d, <2>1, <2>2, CloseShrinks
<1>1. ASSUME Begin(d) PROVE Looked(d)'
  BY <1>1, <1>a DEF Begin, TypeOK, Looked
<1>2. ASSUME Query(d) PROVE Looked(d)'
  <2>1. /\ pc'[d] = "decide" /\ seen'[d] = amt /\ amt' = amt
        /\ result'[d] = "none yet"
    BY <1>2, <1>a DEF Query, TypeOK, Answered
  <2> QED
    BY <2>1, <1>b DEF Looked
<1>3. ASSUME QueryFails(d) PROVE Looked(d)'
  BY <1>3, <1>a DEF QueryFails, TypeOK, Looked
<1>4. ASSUME NoPosition(d) PROVE Looked(d)'
  BY <1>4, <1>a DEF NoPosition, TypeOK, Looked
<1>5. ASSUME Place(d) PROVE Looked(d)'
  <2>1. PICK leg \in OpenLegs(d) :
          order' = [order EXCEPT ![d] = CloseOrder(leg, seen[d][leg])]
    BY <1>5 DEF Place
  <2>2. order'[d].leg = leg /\ leg \in AllLegs
    BY <1>a, <2>1, OrderReduces DEF TypeOK, OpenLegs, Legs, AllLegs
  <2>3. /\ pc[d] = "decide" /\ pc'[d] = "order" /\ filled'[d] = 0
        /\ place'[d] = "way" /\ result'[d] = "none yet"
        /\ UNCHANGED <<amt, seen, quiet>>
    BY <1>5, <1>a DEF Place, TypeOK, Answered
  <2>4. ASSUME quiet[d] PROVE Abs(amt[leg]) + 0 <= Abs(seen[d][leg])
    <3>1. Shrinks(seen[d][leg], amt[leg])
      BY <1>a, <2>2, <2>3, <2>4 DEF Looked
    <3>2. seen[d][leg] \in Int /\ amt[leg] \in Int
      BY <1>b, <2>2
    <3> QED
      BY <3>1, <3>2 DEF Shrinks, Abs
  <2> QED
    BY <1>a, <2>2, <2>3, <2>4 DEF Looked
<1>6. ASSUME Answer(d) PROVE Looked(d)'
  <2>1. /\ pc[d] = "order" /\ pc'[d] = "idle"
        /\ UNCHANGED <<amt, order, quiet>>
    BY <1>6, <1>a DEF Answer, TypeOK
  <2>2. result'[d] = "FILLED" => place[d] = "filled"
    BY <1>6, <1>a DEF Says, Answer, TypeOK
  <2> QED
    BY <1>a, <2>1, <2>2 DEF Looked
<1>7. ASSUME Lose(d) PROVE Looked(d)'
  BY <1>7, <1>a DEF Lose, TypeOK, Looked
<1>8. ASSUME Arrive(d) \/ Expire(d) PROVE Looked(d)'
  <2>1. /\ place'[d] # "filled"
        /\ UNCHANGED <<pc, seen, order, quiet, result, filled, amt>>
    BY <1>8, <1>a DEF Arrive, Expire, TypeOK
  <2> QED
    BY <1>a, <2>1 DEF Looked
<1>9. ASSUME Fill(d) PROVE Looked(d)'
  <2>1. PICK k \in Nat :
          /\ filled' = [filled EXCEPT ![d] = @ + k]
          /\ Bounded(amt')
          /\ \A leg \in AllLegs : Shrinks(amt[leg], amt'[leg])
          /\ Abs(amt'[order[d].leg]) = Abs(amt[order[d].leg]) - k
          /\ place'[d] = "filled" =>
               filled[d] + k = order[d].qty \/ amt'[order[d].leg] = 0
    BY <1>9, FillMoves
  <2>2. Near
    BY <1>9, <2>1 DEF Fill, Bounded
  <2>3. ASSUME quiet'[d], pc'[d] = "order"
        PROVE  /\ Abs(amt'[order'[d].leg]) + filled'[d] <= Abs(seen'[d][order'[d].leg])
               /\ place'[d] = "filled" => amt'[order'[d].leg] = 0
    <3> DEFINE leg == order[d].leg
    <3>1. pc[d] = "order" /\ quiet[d] /\ leg \in AllLegs
      BY <1>e, <2>2, <2>3
    <3>2. Abs(amt[leg]) + filled[d] <= Abs(seen[d][leg]) /\ order[d].qty = Abs(seen[d][leg])
      BY <1>a, <3>1 DEF Looked, Answered
    <3>3. /\ amt[leg] \in Int /\ amt'[leg] \in Int /\ seen[d][leg] \in Int
          /\ filled[d] \in Nat
      BY <1>b, <1>f, <2>2, <3>1
    <3>4. filled'[d] = filled[d] + k
      BY <1>a, <2>1 DEF TypeOK
    <3>5. /\ Abs(amt'[leg]) + filled'[d] <= Abs(seen[d][leg])
          /\ filled[d] + k = order[d].qty => amt'[leg] = 0
      BY <2>1, <3>2, <3>3, <3>4 DEF Abs
    <3> QED
      BY <2>1, <2>2, <3>5
  <2> QED
    BY <1>g, <2>2, <2>3 DEF Looked
<1>11. ASSUME NEW leg \in Legs, Trade(leg) PROVE Looked(d)'
  BY <1>11 DEF Trade, Looked
<1>12. ASSUME UNCHANGED vars PROVE Near /\ Kept
  BY <1>12, <1>a, <1>b DEF vars, TypeOK
<1>13. ASSUME Close(d) PROVE Looked(d)'
  BY <1>13, <1>1, <1>2, <1>3, <1>4, <1>5, <1>6, <1>7, <1>8, <1>9 DEF Close
<1> QED
  BY <1>c, <1>d, <1>11, <1>12, <1>13 DEF Next
-----------------------------------------------------------------------------
\* The parts together are an invariant.
LEMMA Invariance == Spec => []IInv
<1>1. IInv /\ [Next]_vars => IInv'
  BY TypeStep, PoisedStep, AnsweredStep, LookedStep DEF IInv
<1> QED
  BY InitIInv, <1>1, PTL DEF Spec

\* Every variable keeps its type: above all, no order and no fill takes a leg
\* out of its bounds, and a leg the mode does not have stays at zero.
THEOREM TypeCorrect == Spec => []TypeOK
<1>1. IInv => TypeOK
  BY DEF IInv
<1> QED
  BY Invariance, <1>1, PTL

\* However many workers close at once, on however stale an answer, and however
\* late their orders are executed, what ClosePosition sends only ever reduces a
\* position.
THEOREM CloseOnlyReduces == Spec => OnlyReduces
<1> DEFINE A == \A c \in Calls : Close(c) =>
                  \A leg \in Legs : Shrinks(amt[leg], amt'[leg])
<1>1. IInv => A
  BY CloseShrinks DEF Legs, AllLegs
<1>2. IInv /\ [Next]_vars => [A]_vars
  BY <1>1
<1> HIDE DEF A
<1>3. Spec => [][A]_vars
  BY Invariance, <1>2, PTL DEF Spec
<1> QED
  BY <1>3 DEF OnlyReduces, A

\* If only close calls have traded since ClosePosition looked, its FILLED means
\* that the leg it chose is at zero, and it stays there as long as that is so.
THEOREM CloseIsComplete == Spec => []QuietCloseIsComplete
<1>1. IInv => QuietCloseIsComplete
  BY DEF IInv, Looked, QuietCloseIsComplete
<1> QED
  BY Invariance, <1>1, PTL
=============================================================================
