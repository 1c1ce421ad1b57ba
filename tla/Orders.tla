------------------------------- MODULE Orders -------------------------------
(* The order tools: what the handlers of internal/tools and the adapter make  *)
(* of a call, and what that does to the books the exchange keeps.  Spot       *)
(* orders, futures orders, futures conditional (algo) orders and options      *)
(* orders are numbered independently: a number alone does not name an order.  *)
(*                                                                            *)
(* A request is the book it is for, the order type and the SET of parameters  *)
(* that are sent; the values matter only for the trailing distance.           *)
EXTENDS Integers, FiniteSets

CONSTANTS Calls,      \* workers
          Symbols,
          Tools,      \* the tools the workload uses
          Contracts,  \* the types and arguments create_contract_order is given
          Rates,      \* callback rates asked for, in thousandths of a percent
          FirstId,    \* the first order number of every book
          MaxOrders,  \* bound: orders ever placed in one book
          Exact,      \* up to here a float64 holds every integer (2^53)
          Production  \* or the testnet?

Triggers == {"STOP_MARKET", "TAKE_PROFIT_MARKET"}

\* The arguments the schema of create_contract_order allows.
ContractArgs == [type  : {"MARKET", "LIMIT"} \cup Triggers,
                 given : SUBSET {"quantity", "price", "stopPrice", "reduceOnly",
                                 "closePosition"}]

ASSUME OrdersAssumption == /\ Contracts \subseteq ContractArgs
                           /\ Rates \subseteq Int
                           /\ FirstId \in Nat \ {0}
                           /\ MaxOrders \in Nat
                           /\ Exact \in Nat
                           /\ Production \in BOOLEAN

VARIABLES open,     \* the open orders, at the exchange
          nextId,   \* the next number of each book
          pc,       \* where each tool call is
          ask,      \* what it asks of the exchange
          answer,   \* what the exchange answers it
          told      \* the orders some answer has named to a caller

vars == <<open, nextId, pc, ask, answer, told>>

Books   == {"spot", "futures", "algo", "options"}
Markets == {"spot", "futures", ""}
Traits  == {"triggers", "reduces"}
NoCall  == [op |-> "none"]
Ids     == FirstId .. (FirstId + MaxOrders - 1)
Ref(o)  == [book |-> o.book, sym |-> o.sym, id |-> o.id]
Refs    == [book : Books, sym : Symbols, id : Ids]

TypeOK ==
  /\ open \subseteq [book : Books, sym : Symbols, id : Ids, list : Ids \cup {0},
                     asked : SUBSET Traits, has : SUBSET Traits]
  /\ \A o, p \in open : Ref(o) = Ref(p) => o = p
  /\ \A o \in open : o.id < nextId[o.book]
  /\ pc \in [Calls -> {"idle", "sent", "reply"}]
  /\ \A c \in Calls : (ask[c] = NoCall) <=> (pc[c] = "idle")
  /\ \A c \in Calls : answer[c].refs \subseteq Refs
  /\ told \subseteq Refs
  /\ \A r \in told : r.id < nextId[r.book]

Silence == [kind |-> "none", refs |-> {}]

Init ==
  /\ open = {}
  /\ nextId = [b \in Books |-> FirstId]
  /\ pc = [c \in Calls |-> "idle"]
  /\ ask = [c \in Calls |-> NoCall]
  /\ answer = [c \in Calls |-> Silence]
  /\ told = {}
-----------------------------------------------------------------------------
(* What the adapter sends for each kind of order.                             *)

Request(book, type, fields) ==
  [book |-> book, type |-> type, fields |-> fields, delta |-> 0]

Refused == [book |-> "none"]

CreateSpotOrder(type, given) ==
  Request("spot", type,
          {"quantity"} \cup (given \cap {"price"})
            \cup (IF type \in {"LIMIT", "LIMIT_MAKER"} THEN {"timeInForce"} ELSE {}))

CreateStopLossOrder   == Request("spot", "STOP_LOSS", {"quantity", "stopPrice"})
CreateTakeProfitOrder == Request("spot", "TAKE_PROFIT", {"quantity", "stopPrice"})
CreateStopLimitOrder  == Request("spot", "STOP_LOSS_LIMIT",
                                 {"quantity", "stopPrice", "price", "timeInForce"})

\* A percentage between 0.1 and 20, sent as hundredths of a percent, rounded
\* half up.
CreateTrailingStopOrder(rate) ==
  IF rate < 100 \/ rate > 20000 THEN Refused
  ELSE [Request("spot", "STOP_LOSS", {"quantity", "trailingDelta"})
          EXCEPT !.delta = (rate + 5) \div 10]

\* Mutant: the pair is sent as if it had no stop.
OCOWithoutStop(given) == Request("spot", "OCO", {"quantity", "price"})

CreateOCOOrder(given) ==
  Request("spot", "OCO",
          {"quantity", "price", "stopPrice"}
            \cup (IF "stopLimitPrice" \in given
                  THEN {"stopLimitPrice", "stopLimitTimeInForce"} ELSE {}))

\* Mutant: everything the caller gave is sent.
SendsAllGiven(type, given) ==
  IF "stopPrice" \notin given \/ given \cap {"closePosition", "quantity"} = {}
  THEN Refused
  ELSE Request("algo", type, {"triggerPrice"} \cup
                 (given \cap {"closePosition", "quantity", "reduceOnly"}))

\* Mutant: reduceOnly is left to closePosition.
DropsReduceOnly(type, given) ==
  IF "stopPrice" \notin given \/ given \cap {"closePosition", "quantity"} = {}
  THEN Refused
  ELSE Request("algo", type, {"triggerPrice"} \cup
                 IF "closePosition" \in given THEN {"closePosition"}
                                              ELSE {"quantity"})

createFuturesAlgoOrder(type, given) ==
  IF "stopPrice" \notin given \/ given \cap {"closePosition", "quantity"} = {}
  THEN Refused
  ELSE Request("algo", type, {"triggerPrice"} \cup
                 IF "closePosition" \in given
                 THEN {"closePosition"}
                 ELSE {"quantity"} \cup (given \cap {"reduceOnly"}))

CreateContractOrder(type, given) ==
  IF "closePosition" \in given /\ type \notin Triggers THEN Refused
  ELSE IF type \in Triggers THEN createFuturesAlgoOrder(type, given)
  ELSE IF "quantity" \notin given THEN Refused
  ELSE Request("futures", type,
               {"quantity"} \cup (given \cap {"reduceOnly", "price"})
                 \cup (IF type = "LIMIT" THEN {"timeInForce"} ELSE {}))

\* There is no options testnet to send it to.  The handler writes the price it
\* was not given as "0", so the adapter's check for a price lets all pass.
CreateOptionOrder == IF ~Production THEN Refused
                     ELSE Request("options", "LIMIT", {"quantity", "price"})
-----------------------------------------------------------------------------
(* The tools.  A call the adapter refuses ends with an error and sends        *)
(* nothing.                                                                   *)

Send(c, call) ==
  /\ pc[c] = "idle"
  /\ pc' = [pc EXCEPT ![c] = "sent"]
  /\ ask' = [ask EXCEPT ![c] = call]
  /\ UNCHANGED <<open, nextId, answer, told>>

Error(c) == pc[c] = "idle" /\ UNCHANGED vars

\* asked: what the tool's name and arguments promise about the order.
Create(c, sym, asked, request) ==
  \/ request = Refused /\ Error(c)
  \/ request # Refused
     /\ Send(c, [op |-> "create", sym |-> sym, asked |-> asked, req |-> request])

create_spot_order(c, sym) ==
  \E type \in {"MARKET", "LIMIT", "LIMIT_MAKER"}, given \in SUBSET {"price"} :
    Create(c, sym, {}, CreateSpotOrder(type, given))

create_stop_loss_order(c, sym)   == Create(c, sym, {"triggers"}, CreateStopLossOrder)
create_take_profit_order(c, sym) == Create(c, sym, {"triggers"}, CreateTakeProfitOrder)
create_stop_limit_order(c, sym)  == Create(c, sym, {"triggers"}, CreateStopLimitOrder)

create_trailing_stop_order(c, sym) ==
  \E rate \in Rates : Create(c, sym, {"triggers"}, CreateTrailingStopOrder(rate))

create_oco_order(c, sym) ==
  \E given \in SUBSET {"stopLimitPrice"} :
    Create(c, sym, {"triggers"}, CreateOCOOrder(given))

create_contract_order(c, sym) ==
  \E args \in Contracts :
    Create(c, sym,
           (IF args.type \in Triggers THEN {"triggers"} ELSE {})
             \cup (IF args.given \cap {"reduceOnly", "closePosition"} = {}
                   THEN {} ELSE {"reduces"}),
           CreateContractOrder(args.type, args.given))

create_option_order(c, sym) == Create(c, sym, {}, CreateOptionOrder)

\* Mutant: an omitted market is guessed to be futures.
GuessFutures(market) == IF market = "spot" THEN "spot" ELSE "futures"

\* An omitted market means spot, in the handlers and again in the adapter.
Market(market) == IF market = "futures" THEN "futures" ELSE "spot"

\* An integer argument arrives as a float64: beyond Exact only every second
\* integer exists (until twice that), and a tie goes to the multiple of four.
getInt64(n) == IF n <= Exact \/ n % 2 = 0 THEN n
               ELSE IF n % 4 = 1 THEN n - 1 ELSE n + 1

\* A caller names an order it was told of, with the market it belongs to.
Names(market, ref) == ref.book = IF market = "" THEN "spot" ELSE market

ByOrderId(c, op) ==
  \E ref \in told, market \in Markets :
    /\ Names(market, ref)
    /\ Send(c, [op |-> op, book |-> Market(market), sym |-> {ref.sym},
                id |-> getInt64(ref.id), meant |-> ref])

cancel_order(c)     == ByOrderId(c, "cancel")
get_order_status(c) == ByOrderId(c, "status")

\* Algo orders have a tool of their own, which takes no symbol and refuses a
\* number that is not positive.
cancel_algo_order(c) ==
  \E ref \in told :
    /\ ref.book = "algo"
    /\ \/ getInt64(ref.id) <= 0 /\ Error(c)
       \/ getInt64(ref.id) > 0
          /\ Send(c, [op |-> "cancel", book |-> "algo", sym |-> Symbols,
                      id |-> getInt64(ref.id), meant |-> ref])

cancel_all_orders(c, sym) ==
  \E market \in Markets :
    Send(c, [op |-> "cancelAll", book |-> Market(market), sym |-> {sym}])

\* An omitted symbol lists them all.
get_open_orders(c) ==
  \E market \in Markets, syms \in {{s} : s \in Symbols} \cup {Symbols} :
    Send(c, [op |-> "list", book |-> Market(market), sym |-> syms])

get_open_algo_orders(c) ==
  \E syms \in {{s} : s \in Symbols} \cup {Symbols} :
    Send(c, [op |-> "list", book |-> "algo", sym |-> syms])
-----------------------------------------------------------------------------
(* The exchange.                                                              *)

Answer(c, kind, refs) ==
  /\ pc' = [pc EXCEPT ![c] = "reply"]
  /\ answer' = [answer EXCEPT ![c] = [kind |-> kind, refs |-> refs]]
  /\ UNCHANGED <<ask, told>>

\* What an order is, whatever it was asked to be.
Has(fields) ==
  (IF fields \cap {"stopPrice", "trailingDelta", "triggerPrice"} = {}
   THEN {} ELSE {"triggers"})
    \cup (IF fields \cap {"reduceOnly", "closePosition"} = {}
          THEN {} ELSE {"reduces"})

\* An OCO is two orders on one list.
Place(c) ==
  /\ pc[c] = "sent" /\ ask[c].op = "create"
  /\ LET req == ask[c].req
         n   == nextId[req.book]
         ids == IF req.type = "OCO" THEN {n, n + 1} ELSE {n}
         new == {[book |-> req.book, sym |-> ask[c].sym, id |-> i,
                  list |-> IF req.type = "OCO" THEN n ELSE 0,
                  asked |-> ask[c].asked, has |-> Has(req.fields)] : i \in ids}
     IN /\ ids \subseteq Ids
        /\ open' = open \cup new
        /\ nextId' = [nextId EXCEPT ![req.book] = @ + Cardinality(ids)]
        /\ Answer(c, "created", {Ref(o) : o \in new})

\* The exchange may refuse anything, but not deny an order that is there.
Reject(c) ==
  /\ pc[c] = "sent"
  /\ \/ ask[c].op \in {"create", "list", "cancelAll"}
     \/ ask[c].op \in {"cancel", "status"}
        /\ ~\E o \in open : o.book = ask[c].book /\ o.id = ask[c].id
                              /\ o.sym \in ask[c].sym
  /\ Answer(c, "rejected", {})
  /\ UNCHANGED <<open, nextId>>

Scope(call) == {o \in open : o.book = call.book /\ o.sym \in call.sym}

\* With an order goes the other one of its list.
WithList(o) == {o} \cup {p \in open : p.book = o.book /\ p.list = o.list /\ o.list # 0}

Cancel(c) ==
  /\ pc[c] = "sent" /\ ask[c].op = "cancel"
  /\ \E o \in Scope(ask[c]) :
       /\ o.id = ask[c].id
       /\ open' = open \ WithList(o)
       /\ Answer(c, "canceled", {Ref(o)})
  /\ UNCHANGED nextId

Status(c) ==
  /\ pc[c] = "sent" /\ ask[c].op = "status"
  /\ \E o \in Scope(ask[c]) : o.id = ask[c].id /\ Answer(c, "status", {Ref(o)})
  /\ UNCHANGED <<open, nextId>>

CancelAll(c) ==
  /\ pc[c] = "sent" /\ ask[c].op = "cancelAll"
  /\ open' = open \ Scope(ask[c])
  /\ Answer(c, "cleared", {})
  /\ UNCHANGED nextId

List(c) ==
  /\ pc[c] = "sent" /\ ask[c].op = "list"
  /\ Answer(c, "listed", {Ref(o) : o \in Scope(ask[c])})
  /\ UNCHANGED <<open, nextId>>

\* Filled, triggered, expired or cancelled by somebody else.
Leave(o) ==
  /\ open' = open \ WithList(o)
  /\ UNCHANGED <<nextId, pc, ask, answer, told>>
-----------------------------------------------------------------------------
(* The way back.                                                              *)

\* Mutant: a conditional order's number is given as an orderId.
AlgoAsOrder(c) ==
  {[r EXCEPT !.book = IF @ = "algo" THEN "futures" ELSE @] : r \in answer[c].refs}

\* The answer says algoId for a conditional order and orderId for the others.
Numbers(c) == answer[c].refs

Return(c) ==
  /\ pc[c] = "reply"
  /\ told' = told \cup Numbers(c)
  /\ pc' = [pc EXCEPT ![c] = "idle"]
  /\ ask' = [ask EXCEPT ![c] = NoCall]
  /\ answer' = [answer EXCEPT ![c] = Silence]
  /\ UNCHANGED <<open, nextId>>

\* The request was not heard of, or its answer was lost: the caller is
\* told of no order either way.
Lose(c) ==
  /\ pc[c] \in {"sent", "reply"}
  /\ pc' = [pc EXCEPT ![c] = "idle"]
  /\ ask' = [ask EXCEPT ![c] = NoCall]
  /\ answer' = [answer EXCEPT ![c] = Silence]
  /\ UNCHANGED <<open, nextId, told>>
-----------------------------------------------------------------------------
Use(tool, c) ==
  \/ \E sym \in Symbols :
       \/ tool = "create_spot_order"          /\ create_spot_order(c, sym)
       \/ tool = "create_stop_loss_order"     /\ create_stop_loss_order(c, sym)
       \/ tool = "create_take_profit_order"   /\ create_take_profit_order(c, sym)
       \/ tool = "create_stop_limit_order"    /\ create_stop_limit_order(c, sym)
       \/ tool = "create_trailing_stop_order" /\ create_trailing_stop_order(c, sym)
       \/ tool = "create_oco_order"           /\ create_oco_order(c, sym)
       \/ tool = "create_contract_order"      /\ create_contract_order(c, sym)
       \/ tool = "create_option_order"        /\ create_option_order(c, sym)
       \/ tool = "cancel_all_orders"          /\ cancel_all_orders(c, sym)
  \/ tool = "cancel_order"         /\ cancel_order(c)
  \/ tool = "get_order_status"     /\ get_order_status(c)
  \/ tool = "cancel_algo_order"    /\ cancel_algo_order(c)
  \/ tool = "get_open_orders"      /\ get_open_orders(c)
  \/ tool = "get_open_algo_orders" /\ get_open_algo_orders(c)

Exchange(c) == Place(c) \/ Reject(c) \/ Cancel(c) \/ Status(c) \/ CancelAll(c) \/ List(c)

Next == \/ \E c \in Calls : \/ \E tool \in Tools : Use(tool, c)
                            \/ Exchange(c)
                            \/ Return(c) \/ Lose(c)
        \/ \E o \in open : Leave(o)

Spec == Init /\ [][Next]_vars
-----------------------------------------------------------------------------
\* No conditional type on the regular endpoint (adapter.go:546), no quantity or
\* reduceOnly beside closePosition (adapter.go:594), a trailing distance within 10
\* to 2000 hundredths of a percent (adapter.go:315).
Promised(req) ==
  /\ (req.book = "algo") <=> (req.type \in Triggers)
  /\ "closePosition" \in req.fields =>
       req.fields \cap {"quantity", "reduceOnly"} = {}
  /\ req.fields \cap {"quantity", "closePosition"} # {}
  /\ "trailingDelta" \in req.fields => req.delta \in 10 .. 2000

\* What reaches the exchange is never of a form the adapter's comments say it
\* refuses, whatever arguments the tools were given.
WellFormed ==
  \A c \in Calls : ask[c] # NoCall /\ ask[c].op = "create" => Promised(ask[c].req)

\* An open order is what its caller asked for: one asked for as protective
\* waits for its trigger, one asked for as closing can only reduce a position.
AsAsked == \A o \in open : o.asked \subseteq o.has

\* The order a call names, when it is still there, and its list.
Meant(call) == UNION {WithList(o) : o \in {p \in open : Ref(p) = call.meant}}

\* A cancellation takes away the order the caller means (with the other one of
\* its list) and no other, whatever has been placed, filled or cancelled since
\* the caller was told its number, and though other books use the number too.
CancelsOnlyMeant ==
  [][\A c \in Calls : Cancel(c) => open \ open' \subseteq Meant(ask[c])]_vars

\* When the answer is "canceled" the order meant is not open any more.
CanceledIsGone ==
  \A c \in Calls : pc[c] = "reply" /\ answer[c].kind = "canceled" =>
    \A o \in open : Ref(o) # ask[c].meant
=============================================================================
