-------------------------- MODULE FuturesPosition --------------------------
(* Closing a futures position (adapter.ClosePosition) is two calls with the   *)
(* market in between: a GET that says what the position was, and a market     *)
(* order computed from it.  The order is accepted first and filled later, a   *)
(* part at a time: the answer carries the status it has by then, which the    *)
(* tool passes on, and an order whose answer is lost has a life all the same. *)
(* Several workers may be closing at once, and other actors trade the same    *)
(* position.                                                                  *)
(*                                                                            *)
(* One symbol.  In one-way mode it has one position, tagged BOTH and signed;  *)
(* in hedge mode it has a LONG one, never negative, and a SHORT one, never    *)
(* positive.                                                                  *)
EXTENDS Integers

CONSTANTS Calls,     \* workers
          MaxAmt     \* bound: size of a position

ASSUME PositionAssumption == MaxAmt \in Nat \ {0}

VARIABLES hedge,    \* is the account in hedge mode? (it stays in its mode)
          amt,      \* the position of each leg, at the exchange
          pc,       \* where each close call is
          seen,     \* the positions its GET answered with
          order,    \* the order it sends
          place,    \* where that order is
          filled,   \* how much of it has been filled
          quiet,    \* history: nobody else has traded since the GET's answer
          result    \* what the tool answered

vars == <<hedge, amt, pc, seen, order, place, filled, quiet, result>>

AllLegs == {"BOTH", "LONG", "SHORT"}
Legs    == IF hedge THEN {"LONG", "SHORT"} ELSE {"BOTH"}
Low(leg)     == IF leg = "LONG" THEN 0 ELSE -MaxAmt
High(leg)    == IF leg = "SHORT" THEN 0 ELSE MaxAmt
Amounts(leg) == Low(leg) .. High(leg)

Orders == [leg : AllLegs, side : {"BUY", "SELL"}, qty : 1 .. MaxAmt,
           reduceOnly : BOOLEAN]
NoOrder == [leg |-> "none"]

Places  == {"none", "way", "held", "filled", "expired", "refused"}
Results == {"none yet", "no open position", "error", "rejected",
            "NEW", "PARTIALLY_FILLED", "FILLED", "EXPIRED"}

TypeOK ==
  /\ hedge \in BOOLEAN
  /\ amt \in [AllLegs -> Int]
  /\ \A leg \in AllLegs : amt[leg] \in Amounts(leg)
  /\ \A leg \in AllLegs \ Legs : amt[leg] = 0
  /\ pc \in [Calls -> {"idle", "query", "decide", "order"}]
  /\ seen \in [Calls -> [AllLegs -> Int]]
  /\ \A c \in Calls, leg \in AllLegs : seen[c][leg] \in Amounts(leg)
  /\ order \in [Calls -> Orders \cup {NoOrder}]
  /\ place \in [Calls -> Places]
  /\ filled \in [Calls -> 0 .. MaxAmt]
  /\ quiet \in [Calls -> BOOLEAN]
  /\ result \in [Calls -> Results]

Flat == [leg \in AllLegs |-> 0]

Init ==
  /\ hedge \in BOOLEAN
  /\ amt = Flat
  /\ pc = [c \in Calls |-> "idle"]
  /\ seen = [c \in Calls |-> Flat]
  /\ order = [c \in Calls |-> NoOrder]
  /\ place = [c \in Calls |-> "none"]
  /\ filled = [c \in Calls |-> 0]
  /\ quiet = [c \in Calls |-> FALSE]
  /\ result = [c \in Calls |-> "none yet"]
-----------------------------------------------------------------------------
(* ClosePosition. *)

\* A new call knows nothing yet.  Bound: a worker has one order at the exchange,
\* or on its way there, at a time.
Begin(c) ==
  /\ pc[c] = "idle" /\ place[c] \notin {"way", "held"}
  /\ pc' = [pc EXCEPT ![c] = "query"]
  /\ seen' = [seen EXCEPT ![c] = Flat]
  /\ order' = [order EXCEPT ![c] = NoOrder]
  /\ place' = [place EXCEPT ![c] = "none"]
  /\ filled' = [filled EXCEPT ![c] = 0]
  /\ quiet' = [quiet EXCEPT ![c] = FALSE]
  /\ result' = [result EXCEPT ![c] = "none yet"]
  /\ UNCHANGED <<hedge, amt>>

\* The exchange answers the position-risk GET.
Query(c) ==
  /\ pc[c] = "query"
  /\ seen' = [seen EXCEPT ![c] = amt]
  /\ quiet' = [quiet EXCEPT ![c] = TRUE]
  /\ pc' = [pc EXCEPT ![c] = "decide"]
  /\ UNCHANGED <<hedge, amt, order, place, filled, result>>

QueryFails(c) ==
  /\ pc[c] = "query"
  /\ result' = [result EXCEPT ![c] = "error"]
  /\ pc' = [pc EXCEPT ![c] = "idle"]
  /\ UNCHANGED <<hedge, amt, seen, order, place, filled, quiet>>

\* Mutant: any leg the exchange lists will do.
AnyLeg(c) == Legs

\* The first leg with an amount, in the order the exchange lists them.
OpenLegs(c) == {leg \in Legs : seen[c][leg] # 0}

NoPosition(c) ==
  /\ pc[c] = "decide"
  /\ OpenLegs(c) = {}
  /\ result' = [result EXCEPT ![c] = "no open position"]
  /\ pc' = [pc EXCEPT ![c] = "idle"]
  /\ UNCHANGED <<hedge, amt, seen, order, place, filled, quiet>>

Abs(n) == IF n < 0 THEN -n ELSE n

\* Mutant: a short is closed like a long.
AlwaysSells(leg, n) == [leg        |-> leg,
                        side       |-> "SELL",
                        qty        |-> Abs(n),
                        reduceOnly |-> leg = "BOTH"]

\* Mutant: the quantity loses its last digit.
RoundedOrder(leg, n) == [leg        |-> leg,
                         side       |-> IF n < 0 THEN "BUY" ELSE "SELL",
                         qty        |-> IF Abs(n) > 1 THEN Abs(n) - 1 ELSE 1,
                         reduceOnly |-> leg = "BOTH"]

\* The market order that takes a leg of signed amount n to zero.  A hedge leg
\* is addressed by its side, a one-way position is guarded by reduceOnly.
CloseOrder(leg, n) == [leg        |-> leg,
                       side       |-> IF n < 0 THEN "BUY" ELSE "SELL",
                       qty        |-> Abs(n),
                       reduceOnly |-> leg = "BOTH"]

Place(c) ==
  /\ pc[c] = "decide"
  /\ \E leg \in OpenLegs(c) :
       order' = [order EXCEPT ![c] = CloseOrder(leg, seen[c][leg])]
  /\ pc' = [pc EXCEPT ![c] = "order"]
  /\ place' = [place EXCEPT ![c] = "way"]
  /\ UNCHANGED <<hedge, amt, seen, filled, quiet, result>>

\* What the exchange says of an order when it answers.  NEW may be no more than
\* the acknowledgement of an order that has gone further since.
Says(c, status) ==
  \/ place[c] \in {"held", "filled", "expired"} /\ status = "NEW"
  \/ place[c] = "held" /\ filled[c] > 0 /\ status = "PARTIALLY_FILLED"
  \/ place[c] = "filled"  /\ status = "FILLED"
  \/ place[c] = "expired" /\ status = "EXPIRED"
  \/ place[c] = "refused" /\ status = "rejected"

\* Any status of an order that was accepted is an answer without an error: the
\* tool passes it on and does not look at it.
Answer(c) ==
  /\ pc[c] = "order"
  /\ \E status \in Results : /\ Says(c, status)
                             /\ result' = [result EXCEPT ![c] = status]
  /\ pc' = [pc EXCEPT ![c] = "idle"]
  /\ UNCHANGED <<hedge, amt, seen, order, place, filled, quiet>>

\* The request or its answer is lost, or given up on.  It is not repeated, but
\* if it is on its way, it may still arrive.
Lose(c) ==
  /\ pc[c] = "order"
  /\ \/ UNCHANGED place
     \/ place[c] = "way" /\ place' = [place EXCEPT ![c] = "none"]
  /\ result' = [result EXCEPT ![c] = "error"]
  /\ pc' = [pc EXCEPT ![c] = "idle"]
  /\ UNCHANGED <<hedge, amt, seen, order, filled, quiet>>
-----------------------------------------------------------------------------
(* The exchange, and everybody else.                                          *)

\* The exchange accepts an order that gets there, or refuses it.
Arrive(c) ==
  /\ place[c] = "way"
  /\ \E to \in {"held", "refused"} : place' = [place EXCEPT ![c] = to]
  /\ UNCHANGED <<hedge, amt, pc, seen, order, filled, quiet, result>>

\* How far an order can move its leg: one that may only reduce stops at zero,
\* any other one at the bounds of the leg (for a hedge leg, zero is one).
Room(o) ==
  LET n == amt[o.leg] IN
    IF o.reduceOnly
    THEN IF (o.side = "BUY") = (n < 0) THEN Abs(n) ELSE 0
    ELSE IF o.side = "BUY" THEN High(o.leg) - n ELSE n - Low(o.leg)

Moved(o, n) ==
  [amt EXCEPT ![o.leg] = IF o.side = "BUY" THEN @ + n ELSE @ - n]

\* A part of an order is filled, or all that is left of it.  One that has used
\* up its room may be cut to what was filled.
Fill(c) ==
  /\ place[c] = "held"
  /\ \E n \in 1 .. order[c].qty - filled[c] :
       /\ n <= Room(order[c])
       /\ amt' = Moved(order[c], n)
       /\ filled' = [filled EXCEPT ![c] = @ + n]
       /\ \/ /\ filled'[c] = order[c].qty \/ n = Room(order[c])
             /\ place' = [place EXCEPT ![c] = "filled"]
          \/ filled'[c] # order[c].qty /\ UNCHANGED place
  /\ UNCHANGED <<hedge, pc, seen, order, quiet, result>>

\* A market order that finds nobody to trade with, or no room, is taken out.
Expire(c) ==
  /\ place[c] = "held"
  /\ place' = [place EXCEPT ![c] = "expired"]
  /\ UNCHANGED <<hedge, amt, pc, seen, order, filled, quiet, result>>

\* Another order of the account, or a liquidation.
Trade(leg) ==
  /\ \E n \in Amounts(leg) : n # amt[leg] /\ amt' = [amt EXCEPT ![leg] = n]
  /\ quiet' = [c \in Calls |-> FALSE]
  /\ UNCHANGED <<hedge, pc, seen, order, place, filled, result>>

Close(c) == \/ Begin(c) \/ Query(c) \/ QueryFails(c) \/ NoPosition(c)
            \/ Place(c) \/ Answer(c) \/ Lose(c)
            \/ Arrive(c) \/ Fill(c) \/ Expire(c)

Next == \/ \E c \in Calls : Close(c)
        \/ \E leg \in Legs : Trade(leg)

Spec == Init /\ [][Next]_vars
-----------------------------------------------------------------------------
\* Between the two amounts there is no move away from zero, nor past it.
Shrinks(from, to) == \/ 0 <= to /\ to <= from
                     \/ from <= to /\ to <= 0

\* However stale what it was computed from, however late it gets to the
\* exchange and in however many parts it is filled, a close order only ever
\* reduces a position: it never opens one, adds to one or turns a long into a
\* short.
OnlyReduces ==
  [][\A c \in Calls : Close(c) =>
       \A leg \in Legs : Shrinks(amt[leg], amt'[leg])]_vars

\* A close that is answered FILLED has taken the leg it chose to zero, if nobody
\* but other close calls has traded since it looked: what it read was enough,
\* whatever the others filled in between.  No other answer says so: NEW,
\* PARTIALLY_FILLED and EXPIRED are ok answers with the leg open.
QuietCloseIsComplete ==
  \A c \in Calls : result[c] = "FILLED" /\ quiet[c] => amt[order[c].leg] = 0

\* futures.go:54 "Close entire futures position for a symbol": after an
\* undisturbed close that is answered FILLED nothing of the symbol is open.
ClosesEntirePosition ==
  \A c \in Calls : result[c] = "FILLED" /\ quiet[c] =>
    \A leg \in Legs : amt[leg] = 0
=============================================================================
