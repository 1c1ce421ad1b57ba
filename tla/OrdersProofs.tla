---------------------------- MODULE OrdersProofs ----------------------------
(* Proofs about Orders, for any number of workers, symbols and orders, any    *)
(* tools and any arguments their schemas allow: type correctness, what is     *)
(* sent, what is placed, and which orders a cancellation takes away.          *)
EXTENDS Orders, FiniteSetTheorems, TLAPS

\* Every order number survives the way through a float64.
Narrow == FirstId + MaxOrders - 1 <= Exact

OrderSet == [book : Books, sym : Symbols, id : Ids, list : Ids \cup {0},
             asked : SUBSET Traits, has : SUBSET Traits]

Typed ==
  /\ open \subseteq OrderSet
  /\ nextId \in [Books -> Nat]
  /\ pc \in [Calls -> {"idle", "sent", "reply"}]
  /\ ask = [c \in Calls |-> ask[c]]
  /\ answer = [c \in Calls |-> answer[c]]

\* In one book a number is given once.
Numbered ==
  /\ \A o, p \in open : o.book = p.book /\ o.id = p.id => o = p
  /\ \A o \in open : o.id < nextId[o.book]

\* A name some answer gave is that of an order placed before, and no open order
\* of that number in that book has another symbol.
Named(r) ==
  /\ r \in Refs
  /\ r.id < nextId[r.book]
  /\ \A o \in open : o.book = r.book /\ o.id = r.id => o.sym = r.sym

Naming == /\ \A r \in told : Named(r)
          /\ \A c \in Calls : \A r \in answer[c].refs : Named(r)

\* What a create call asks for, and what its request will make of it.
GoodCreate(asked, req) ==
  /\ req.book \in Books /\ Promised(req)
  /\ asked \subseteq Traits /\ asked \subseteq Has(req.fields)

\* A call by number asks for the number as it came, and means an order told of.
ByNumber(call) ==
  /\ call.meant \in told
  /\ call.book = call.meant.book
  /\ call.id = getInt64(call.meant.id)
  /\ call.book # "algo" => call.sym = {call.meant.sym}

Valid(call) ==
  \/ call.op = "create" /\ call.sym \in Symbols /\ GoodCreate(call.asked, call.req)
  \/ call.op \in {"cancel", "status"} /\ ByNumber(call)
  \/ call.op \in {"cancelAll", "list"}

Asking == \A c \in Calls : IF pc[c] = "idle" THEN ask[c] = NoCall ELSE Valid(ask[c])

\* What was cancelled is the order meant, and stays away.
Gone == \A c \in Calls : pc[c] = "reply" /\ answer[c].kind = "canceled" =>
          /\ ask[c].op = "cancel"
          /\ Narrow => \A o \in open : Ref(o) # ask[c].meant

IInv == Typed /\ Numbered /\ Naming /\ Asking /\ AsAsked /\ Gone
-----------------------------------------------------------------------------
(* What the adapter makes of the arguments.                                   *)

LEMMA SpotRequests ==
  ASSUME NEW type \in {"MARKET", "LIMIT", "LIMIT_MAKER"}, NEW given
  PROVE  GoodCreate({}, CreateSpotOrder(type, given))
  BY DEF GoodCreate, Promised, CreateSpotOrder, Request, Books, Triggers

LEMMA TriggeredRequests ==
  /\ GoodCreate({"triggers"}, CreateStopLossOrder)
  /\ GoodCreate({"triggers"}, CreateTakeProfitOrder)
  /\ GoodCreate({"triggers"}, CreateStopLimitOrder)
  BY DEF GoodCreate, Promised, CreateStopLossOrder, CreateTakeProfitOrder,
         CreateStopLimitOrder, Request, Books, Triggers, Has, Traits

LEMMA TrailingRequests ==
  ASSUME NEW rate \in Int, CreateTrailingStopOrder(rate) # Refused
  PROVE  GoodCreate({"triggers"}, CreateTrailingStopOrder(rate))
<1> DEFINE req == [book |-> "spot", type |-> "STOP_LOSS",
                   fields |-> {"quantity", "trailingDelta"},
                   delta |-> (rate + 5) \div 10]
<1>1. rate >= 100 /\ rate <= 20000
  BY DEF CreateTrailingStopOrder
<1>2. CreateTrailingStopOrder(rate) = req
  BY <1>1 DEF CreateTrailingStopOrder, Request
<1>3. (rate + 5) \div 10 \in 10 .. 2000
  BY <1>1
<1>4. GoodCreate({"triggers"}, req)
  BY <1>3 DEF GoodCreate, Promised, Books, Triggers, Has, Traits
<1> QED BY <1>2, <1>4

LEMMA OCORequests ==
  ASSUME NEW given
  PROVE  GoodCreate({"triggers"}, CreateOCOOrder(given))
  BY DEF GoodCreate, Promised, CreateOCOOrder, Request, Books, Triggers, Has, Traits

LEMMA OptionRequests ==
  ASSUME CreateOptionOrder # Refused
  PROVE  GoodCreate({}, CreateOptionOrder)
  BY DEF GoodCreate, Promised, CreateOptionOrder, Request, Books, Triggers

\* What create_contract_order promises with its arguments.
ContractAsked(args) ==
  (IF args.type \in Triggers THEN {"triggers"} ELSE {})
    \cup (IF args.given \cap {"reduceOnly", "closePosition"} = {}
          THEN {} ELSE {"reduces"})

LEMMA ContractRequests ==
  ASSUME NEW args \in ContractArgs, CreateContractOrder(args.type, args.given) # Refused
  PROVE  GoodCreate(ContractAsked(args), CreateContractOrder(args.type, args.given))
<1> DEFINE type  == args.type
           given == args.given
           req   == CreateContractOrder(type, given)
<1>1. CASE type \in Triggers
  <2> DEFINE fields == {"triggerPrice"} \cup
                         IF "closePosition" \in given THEN {"closePosition"}
                         ELSE {"quantity"} \cup (given \cap {"reduceOnly"})
  <2>1. req = [book |-> "algo", type |-> type, fields |-> fields, delta |-> 0]
    BY <1>1 DEF CreateContractOrder, createFuturesAlgoOrder, Request
  <2>2. req.book \in Books /\ Promised(req)
    BY <1>1, <2>1 DEF Promised, Books
  <2>3. ContractAsked(args) \subseteq Has(fields)
    BY <1>1 DEF ContractAsked, Has
  <2> QED BY <2>1, <2>2, <2>3 DEF GoodCreate, ContractAsked, Traits
<1>2. CASE type \notin Triggers
  <2> DEFINE fields == {"quantity"} \cup (given \cap {"reduceOnly", "price"})
                         \cup (IF type = "LIMIT" THEN {"timeInForce"} ELSE {})
  <2>1. "closePosition" \notin given
    BY <1>2 DEF CreateContractOrder
  <2>2. req = [book |-> "futures", type |-> type, fields |-> fields, delta |-> 0]
    BY <1>2 DEF CreateContractOrder, Request
  <2>3. req.book \in Books /\ Promised(req)
    BY <1>2, <2>1, <2>2 DEF Promised, Books
  <2>4. ContractAsked(args) \subseteq Has(fields)
    BY <1>2, <2>1 DEF ContractAsked, Has
  <2> QED BY <2>2, <2>3, <2>4 DEF GoodCreate, ContractAsked, Traits
<1> QED BY <1>1, <1>2
-----------------------------------------------------------------------------
(* The tools: a call that is sent is valid.                                   *)

\* All that a tool's handler does to the state.
Begins(c) == \E call : Valid(call) /\ Send(c, call)

LEMMA CreateBegins ==
  ASSUME NEW c \in Calls, NEW sym \in Symbols, NEW asked, NEW req,
         req # Refused => GoodCreate(asked, req), Create(c, sym, asked, req)
  PROVE  Begins(c) \/ UNCHANGED vars
<1> DEFINE call == [op |-> "create", sym |-> sym, asked |-> asked, req |-> req]
<1>1. CASE req = Refused
  BY <1>1 DEF Create, Error
<1>2. CASE req # Refused
  <2>1. Send(c, call)
    BY <1>2 DEF Create
  <2>2. Valid(call)
    BY <1>2 DEF Valid
  <2> QED BY <2>1, <2>2 DEF Begins
<1> QED BY <1>1, <1>2

LEMMA CreatingBegins ==
  ASSUME NEW c \in Calls, NEW sym \in Symbols,
         \/ create_spot_order(c, sym)         \/ create_stop_loss_order(c, sym)
         \/ create_take_profit_order(c, sym)  \/ create_stop_limit_order(c, sym)
         \/ create_trailing_stop_order(c, sym) \/ create_oco_order(c, sym)
         \/ create_contract_order(c, sym)     \/ create_option_order(c, sym)
  PROVE  Begins(c) \/ UNCHANGED vars
<1>1. CASE create_spot_order(c, sym)
  BY <1>1, SpotRequests, CreateBegins DEF create_spot_order
<1>2. CASE create_stop_loss_order(c, sym)
  BY <1>2, TriggeredRequests, CreateBegins DEF create_stop_loss_order
<1>3. CASE create_take_profit_order(c, sym)
  BY <1>3, TriggeredRequests, CreateBegins DEF create_take_profit_order
<1>4. CASE create_stop_limit_order(c, sym)
  BY <1>4, TriggeredRequests, CreateBegins DEF create_stop_limit_order
<1>5. CASE create_trailing_stop_order(c, sym)
  <2>1. PICK rate \in Rates : Create(c, sym, {"triggers"}, CreateTrailingStopOrder(rate))
    BY <1>5 DEF create_trailing_stop_order
  <2>2. rate \in Int
    BY OrdersAssumption
  <2> QED BY <2>1, <2>2, TrailingRequests, CreateBegins
<1>6. CASE create_oco_order(c, sym)
  BY <1>6, OCORequests, CreateBegins DEF create_oco_order
<1>7. CASE create_contract_order(c, sym)
  <2>1. PICK args \in Contracts :
          Create(c, sym, ContractAsked(args), CreateContractOrder(args.type, args.given))
    BY <1>7 DEF create_contract_order, ContractAsked
  <2>2. args \in ContractArgs
    BY OrdersAssumption
  <2> QED BY <2>1, <2>2, ContractRequests, CreateBegins
<1>8. CASE create_option_order(c, sym)
  BY <1>8, OptionRequests, CreateBegins DEF create_option_order
<1> QED BY <1>1, <1>2, <1>3, <1>4, <1>5, <1>6, <1>7, <1>8

LEMMA ManagingBegins ==
  ASSUME NEW c \in Calls,
         \/ cancel_order(c) \/ get_order_status(c) \/ cancel_algo_order(c)
         \/ get_open_orders(c) \/ get_open_algo_orders(c)
         \/ \E sym \in Symbols : cancel_all_orders(c, sym)
  PROVE  Begins(c) \/ UNCHANGED vars
<1>1. ASSUME NEW op \in {"cancel", "status"}, ByOrderId(c, op)
      PROVE  Begins(c)
  <2>1. PICK ref \in told, market \in Markets :
          /\ Names(market, ref)
          /\ Send(c, [op |-> op, book |-> Market(market), sym |-> {ref.sym},
                      id |-> getInt64(ref.id), meant |-> ref])
    BY <1>1 DEF ByOrderId
  <2> DEFINE call == [op |-> op, book |-> Market(market), sym |-> {ref.sym},
                      id |-> getInt64(ref.id), meant |-> ref]
  <2>2. Market(market) = ref.book
    BY <2>1 DEF Names, Market, Markets
  <2>3. ByNumber(call)
    BY <2>2 DEF ByNumber
  <2> QED BY <2>1, <2>3 DEF Begins, Valid
<1>2. CASE cancel_order(c) \/ get_order_status(c)
  BY <1>1, <1>2 DEF cancel_order, get_order_status
<1>3. CASE cancel_algo_order(c)
  <2>1. PICK ref \in told :
          /\ ref.book = "algo"
          /\ \/ getInt64(ref.id) <= 0 /\ Error(c)
             \/ getInt64(ref.id) > 0
                /\ Send(c, [op |-> "cancel", book |-> "algo", sym |-> Symbols,
                            id |-> getInt64(ref.id), meant |-> ref])
    BY <1>3 DEF cancel_algo_order
  <2> DEFINE call == [op |-> "cancel", book |-> "algo", sym |-> Symbols,
                      id |-> getInt64(ref.id), meant |-> ref]
  <2>2. ByNumber(call) /\ call.op = "cancel"
    BY <2>1 DEF ByNumber
  <2>3. Valid(call)
    BY <2>2 DEF Valid
  <2> QED BY <2>1, <2>3 DEF Begins, Error
<1>4. ASSUME NEW op \in {"cancelAll", "list"}, NEW book, NEW syms,
             Send(c, [op |-> op, book |-> book, sym |-> syms])
      PROVE  Begins(c)
  BY <1>4 DEF Begins, Valid
<1>5. CASE get_open_orders(c)
  BY <1>4, <1>5 DEF get_open_orders
<1>6. CASE get_open_algo_orders(c)
  BY <1>4, <1>6 DEF get_open_algo_orders
<1>7. CASE \E sym \in Symbols : cancel_all_orders(c, sym)
  BY <1>4, <1>7 DEF cancel_all_orders
<1> QED BY <1>2, <1>3, <1>5, <1>6, <1>7

LEMMA ToolsBegin ==
  ASSUME NEW c \in Calls, NEW tool \in Tools, Use(tool, c)
  PROVE  Begins(c) \/ UNCHANGED vars
  BY CreatingBegins, ManagingBegins DEF Use
-----------------------------------------------------------------------------
(* The invariant, action by action.                                           *)

LEMMA Stuttering ==
  ASSUME IInv, UNCHANGED vars
  PROVE  IInv'
  BY DEF IInv, vars, Typed, Numbered, Naming, Named, Asking, Valid, ByNumber,
         AsAsked, Gone

LEMMA BeginKeeps ==
  ASSUME IInv, NEW c \in Calls, Begins(c)
  PROVE  IInv'
<1> USE DEF IInv
<1>1. PICK call : Valid(call) /\ Send(c, call)
  BY DEF Begins
<1>2. /\ pc[c] = "idle"
      /\ pc' = [pc EXCEPT ![c] = "sent"]
      /\ ask' = [ask EXCEPT ![c] = call]
      /\ UNCHANGED <<open, nextId, answer, told>>
  BY <1>1 DEF Send
<1>3. Typed'
  BY <1>2 DEF Typed
<1>4. Numbered' /\ Naming' /\ AsAsked'
  BY <1>2 DEF Numbered, Naming, Named, AsAsked
<1>5. Valid(call)'
  BY <1>1, <1>2 DEF Valid, ByNumber
<1>6. Asking'
  BY <1>2, <1>5 DEF Typed, Asking, Valid, ByNumber
<1>7. Gone'
  BY <1>2 DEF Typed, Gone
<1> QED BY <1>3, <1>4, <1>6, <1>7

LEMMA PlaceKeeps ==
  ASSUME IInv, NEW c \in Calls, Place(c)
  PROVE  IInv'
<1> USE DEF IInv
<1> DEFINE req == ask[c].req
           n   == nextId[req.book]
           ids == IF req.type = "OCO" THEN {n, n + 1} ELSE {n}
           Order(i) == [book |-> req.book, sym |-> ask[c].sym, id |-> i,
                        list |-> IF req.type = "OCO" THEN n ELSE 0,
                        asked |-> ask[c].asked, has |-> Has(req.fields)]
           new == {Order(i) : i \in ids}
<1>1. /\ pc[c] = "sent" /\ ask[c].op = "create"
      /\ ids \subseteq Ids
      /\ open' = open \cup new
      /\ nextId' = [nextId EXCEPT ![req.book] = @ + Cardinality(ids)]
      /\ pc' = [pc EXCEPT ![c] = "reply"]
      /\ answer' = [answer EXCEPT ![c] = [kind |-> "created",
                                          refs |-> {Ref(o) : o \in new}]]
      /\ ask' = ask /\ told' = told
  BY DEF Place, Answer
<1>2. ask[c].sym \in Symbols /\ GoodCreate(ask[c].asked, req)
  BY <1>1 DEF Asking, Valid
<1>3. req.book \in Books /\ n \in Nat
  BY <1>2 DEF GoodCreate, Typed
<1>4. /\ Cardinality(ids) \in Nat
      /\ \A i \in ids : i \in Nat /\ n <= i /\ i < n + Cardinality(ids)
  <2>1. Cardinality({n}) = 1
    BY FS_Singleton
  <2>2. Cardinality({n, n + 1}) = 2
    <3>1. IsFiniteSet({n})
      BY FS_Singleton
    <3>2. n + 1 \notin {n}
      BY <1>3
    <3>3. Cardinality({n} \cup {n + 1}) = Cardinality({n}) + 1
      BY <3>1, <3>2, FS_AddElement
    <3>4. {n} \cup {n + 1} = {n, n + 1}
      OBVIOUS
    <3> QED BY <2>1, <3>3, <3>4
  <2> QED BY <1>3, <2>1, <2>2
<1>5. new \subseteq OrderSet
  <2>1. Has(req.fields) \subseteq Traits
    BY DEF Has, Traits
  <2>2. ask[c].asked \subseteq Traits
    BY <1>2 DEF GoodCreate
  <2>3. n \in Ids
    BY <1>1
  <2> QED BY <1>1, <1>2, <1>3, <2>1, <2>2, <2>3 DEF OrderSet
<1>6. \A b \in Books : nextId'[b] \in Nat /\ nextId[b] <= nextId'[b]
  BY <1>1, <1>3, <1>4 DEF Typed
<1>7. \A o \in new : o.book = req.book /\ n <= o.id /\ o.id < nextId'[req.book]
  <2>1. nextId'[req.book] = n + Cardinality(ids)
    BY <1>1, <1>3 DEF Typed
  <2>2. \A o \in new : o.book = req.book /\ o.id \in ids
    OBVIOUS
  <2> QED BY <1>4, <2>1, <2>2
<1>8. Typed'
  BY <1>1, <1>5, <1>6 DEF Typed
<1>9. \A o \in open : /\ o.book \in Books /\ o.id \in Nat
                      /\ o.id < nextId[o.book] /\ o.id < nextId'[o.book]
  BY <1>6, OrdersAssumption DEF Typed, Numbered, OrderSet, Ids
<1>10. \A o \in open, p \in new : ~(o.book = p.book /\ o.id = p.id)
  BY <1>3, <1>4, <1>7, <1>9
<1>11. \A o, p \in new : o.id = p.id => o = p
  OBVIOUS
<1>12. Numbered'
  <2>1. ASSUME NEW o \in open', NEW p \in open', o.book = p.book, o.id = p.id
        PROVE  o = p
    <3>1. CASE o \in open /\ p \in open
      BY <2>1, <3>1 DEF Numbered
    <3>2. CASE o \in new /\ p \in new
      BY <2>1, <3>2, <1>11
    <3> HIDE DEF new
    <3> QED BY <1>1, <1>10, <2>1, <3>1, <3>2
  <2>2. \A o \in open' : o.id < nextId'[o.book]
    BY <1>1, <1>7, <1>9
  <2> QED BY <2>1, <2>2 DEF Numbered
<1>13. ASSUME NEW r, Named(r)
       PROVE  Named(r)'
  <2>1. r.book \in Books /\ r.id \in Nat /\ r \in Refs /\ r.id < nextId[r.book]
    BY <1>13, OrdersAssumption DEF Named, Refs, Ids
  <2>2. r.id < nextId'[r.book]
    BY <1>6, <2>1 DEF Typed
  <2>3. \A o \in new : ~(o.book = r.book /\ o.id = r.id)
    BY <1>3, <1>4, <1>7, <2>1
  <2> QED BY <1>1, <1>13, <2>1, <2>2, <2>3 DEF Named
<1>14. \A o \in new : Named(Ref(o))'
  <2> TAKE o \in new
  <2>1. o \in OrderSet /\ o \in open'
    BY <1>1, <1>5
  <2>2. Ref(o) \in Refs
    BY <2>1 DEF Ref, Refs, OrderSet
  <2> QED BY <1>12, <2>1, <2>2 DEF Named, Ref, Numbered
<1>15. Naming'
  BY <1>1, <1>13, <1>14 DEF Naming, Typed
<1>16. Asking'
  BY <1>1 DEF Asking, Valid, ByNumber, Typed
<1>17. AsAsked'
  BY <1>1, <1>2 DEF AsAsked, GoodCreate
<1>18. Gone'
  <2> SUFFICES ASSUME NEW d \in Calls, pc'[d] = "reply", answer'[d].kind = "canceled"
               PROVE  /\ ask'[d].op = "cancel"
                      /\ Narrow => \A o \in open' : Ref(o) # ask'[d].meant
    BY DEF Gone
  <2>1. d # c
    BY <1>1 DEF Typed
  <2>2. pc[d] = "reply" /\ answer[d].kind = "canceled"
    BY <1>1, <2>1 DEF Typed
  <2>3. ask[d].op = "cancel" /\ Valid(ask[d])
    BY <2>2 DEF Gone, Asking
  <2>4. Named(ask[d].meant)
    BY <2>3 DEF Valid, ByNumber, Naming
  <2>5. ask[d].meant.id < n \/ ask[d].meant.book # req.book
    BY <2>4 DEF Named
  <2>6. ask[d].meant.id \in Nat
    BY <2>4, OrdersAssumption DEF Named, Refs, Ids
  <2>7. \A o \in new : Ref(o) # ask[d].meant
    BY <1>3, <1>4, <1>7, <2>5, <2>6 DEF Ref
  <2> QED BY <1>1, <2>2, <2>3, <2>7 DEF Gone
<1> QED BY <1>8, <1>12, <1>15, <1>16, <1>17, <1>18

\* What every action has in common that only takes orders away: what was known
\* of the orders stays true.
LEMMA LeavingKeeps ==
  ASSUME IInv, open' \subseteq open, UNCHANGED nextId
  PROVE  /\ Numbered' /\ AsAsked'
         /\ \A r : Named(r) => Named(r)'
  BY DEF IInv, Numbered, AsAsked, Named

\* The names of open orders are known ones.
LEMMA OpenNamed ==
  ASSUME IInv, NEW o \in open
  PROVE  Named(Ref(o))
<1>1. o \in OrderSet /\ Numbered
  BY DEF IInv, Typed
<1>2. Ref(o) \in Refs
  BY <1>1 DEF Ref, Refs, OrderSet
<1> QED BY <1>1, <1>2 DEF Named, Numbered, Ref

\* An answer that tells of open orders and is not "canceled" keeps everything.
LEMMA AnswerKeeps ==
  ASSUME IInv, NEW c \in Calls, NEW kind, NEW refs,
         Answer(c, kind, refs), pc[c] # "idle",
         refs \subseteq {Ref(o) : o \in open},
         open' \subseteq open, UNCHANGED nextId,
         kind = "canceled" =>
           ask[c].op = "cancel" /\ (Narrow => \A o \in open' : Ref(o) # ask[c].meant)
  PROVE  IInv'
<1> USE DEF IInv
<1>1. /\ pc' = [pc EXCEPT ![c] = "reply"]
      /\ answer' = [answer EXCEPT ![c] = [kind |-> kind, refs |-> refs]]
      /\ UNCHANGED <<ask, told>>
  BY DEF Answer
<1>2. Typed'
  BY <1>1 DEF Typed
<1>3. Numbered' /\ AsAsked' /\ \A r : Named(r) => Named(r)'
  BY LeavingKeeps
<1>4. \A r \in refs : Named(r)
  BY OpenNamed
<1>5. Naming'
  BY <1>1, <1>3, <1>4 DEF Naming, Typed
<1>6. Asking'
  BY <1>1 DEF Asking, Valid, ByNumber, Typed
<1>7. Gone'
  BY <1>1 DEF Gone, Typed
<1> QED BY <1>2, <1>3, <1>5, <1>6, <1>7

\* The number a caller means is the number that is cancelled, and in its book it
\* is that of one order.
LEMMA CancelFindsMeant ==
  ASSUME IInv, Narrow, NEW c \in Calls, pc[c] = "sent", ask[c].op = "cancel",
         NEW o \in Scope(ask[c]), o.id = ask[c].id
  PROVE  Ref(o) = ask[c].meant
<1> DEFINE meant == ask[c].meant
<1>1. ByNumber(ask[c])
  BY DEF IInv, Asking, Valid
<1>2. Named(meant)
  BY <1>1 DEF IInv, Naming, ByNumber
<1>3. meant.id \in Ids /\ meant \in Refs
  BY <1>2 DEF Named, Refs
<1>4. getInt64(meant.id) = meant.id
  BY <1>3, OrdersAssumption DEF getInt64, Narrow, Ids
<1>5. o \in open /\ o.book = meant.book /\ o.id = meant.id
  BY <1>1, <1>4 DEF Scope, ByNumber
<1>6. o.sym = meant.sym
  BY <1>2, <1>5 DEF Named
<1> QED BY <1>3, <1>5, <1>6 DEF Ref, Refs

LEMMA CancelKeeps ==
  ASSUME IInv, NEW c \in Calls, Cancel(c)
  PROVE  IInv'
<1>1. PICK o \in Scope(ask[c]) :
        /\ o.id = ask[c].id
        /\ open' = open \ WithList(o)
        /\ Answer(c, "canceled", {Ref(o)})
  BY DEF Cancel
<1>2. pc[c] = "sent" /\ ask[c].op = "cancel" /\ UNCHANGED nextId
  BY DEF Cancel
<1>3. o \in open /\ o \notin open' /\ open' \subseteq open
  BY <1>1 DEF Scope, WithList
<1>4. ASSUME Narrow, NEW p \in open'
      PROVE  Ref(p) # ask[c].meant
  <2>1. Ref(o) = ask[c].meant
    BY <1>1, <1>2, <1>4, CancelFindsMeant
  <2>2. Ref(p) = Ref(o) => p = o
    BY <1>3 DEF IInv, Numbered, Ref
  <2> QED BY <1>3, <2>1, <2>2
<1> QED BY <1>1, <1>2, <1>3, <1>4, AnswerKeeps

LEMMA ExchangeKeeps ==
  ASSUME IInv, NEW c \in Calls, Exchange(c)
  PROVE  IInv'
<1>1. CASE Place(c)
  BY <1>1, PlaceKeeps
<1>2. CASE Reject(c)
  BY <1>2, AnswerKeeps DEF Reject
<1>3. CASE Cancel(c)
  BY <1>3, CancelKeeps
<1>4. CASE Status(c)
  BY <1>4, AnswerKeeps DEF Status, Scope
<1>5. CASE CancelAll(c)
  BY <1>5, AnswerKeeps DEF CancelAll
<1>6. CASE List(c)
  BY <1>6, AnswerKeeps DEF List, Scope
<1> QED BY <1>1, <1>2, <1>3, <1>4, <1>5, <1>6 DEF Exchange

\* The end of a call, whose answer may or may not have come back to the caller.
LEMMA EndKeeps ==
  ASSUME IInv, NEW c \in Calls, Return(c) \/ Lose(c)
  PROVE  IInv'
<1> USE DEF IInv
<1>1. /\ pc' = [pc EXCEPT ![c] = "idle"]
      /\ ask' = [ask EXCEPT ![c] = NoCall]
      /\ answer' = [answer EXCEPT ![c] = Silence]
      /\ told \subseteq told' /\ told' \subseteq told \cup answer[c].refs
      /\ UNCHANGED <<open, nextId>>
  BY DEF Return, Lose, Numbers
<1>2. Typed'
  BY <1>1 DEF Typed
<1>3. Numbered' /\ AsAsked' /\ \A r : Named(r) => Named(r)'
  BY <1>1, LeavingKeeps
<1>4. Naming'
  BY <1>1, <1>3 DEF Naming, Typed, Silence
<1>5. Asking'
  BY <1>1 DEF Asking, Valid, ByNumber, Typed
<1>6. Gone'
  BY <1>1 DEF Gone, Typed
<1> QED BY <1>2, <1>3, <1>4, <1>5, <1>6

LEMMA LeaveKeeps ==
  ASSUME IInv, NEW o \in open, Leave(o)
  PROVE  IInv'
<1> USE DEF IInv
<1>1. open' \subseteq open /\ UNCHANGED <<nextId, pc, ask, answer, told>>
  BY DEF Leave
<1>2. Typed'
  BY <1>1 DEF Typed
<1>3. Numbered' /\ AsAsked' /\ \A r : Named(r) => Named(r)'
  BY <1>1, LeavingKeeps
<1>4. Naming' /\ Asking' /\ Gone'
  BY <1>1, <1>3 DEF Naming, Asking, Valid, ByNumber, Gone
<1> QED BY <1>2, <1>3, <1>4

LEMMA Invariance == Spec => []IInv
<1>1. Init => IInv
  BY OrdersAssumption DEF Init, IInv, Typed, Numbered, Naming, Asking, AsAsked, Gone, Silence
<1>2. IInv /\ [Next]_vars => IInv'
  <2> SUFFICES ASSUME IInv, [Next]_vars
               PROVE  IInv'
    OBVIOUS
  <2>1. ASSUME NEW c \in Calls, NEW tool \in Tools, Use(tool, c)
        PROVE  IInv'
    BY <2>1, ToolsBegin, BeginKeeps, Stuttering
  <2>2. ASSUME NEW c \in Calls, Exchange(c) \/ Return(c) \/ Lose(c)
        PROVE  IInv'
    BY <2>2, ExchangeKeeps, EndKeeps
  <2>3. ASSUME NEW o \in open, Leave(o)
        PROVE  IInv'
    BY <2>3, LeaveKeeps
  <2> QED BY <2>1, <2>2, <2>3, Stuttering DEF Next
<1> QED BY <1>1, <1>2, PTL DEF Spec
-----------------------------------------------------------------------------
\* The books, the calls and what callers were told keep their shapes; above all
\* no two open orders of one book and symbol share a number, and every number an
\* answer names has been given before (the ids of adapter.go's order results).
THEOREM TypeCorrect == Spec => []TypeOK
<1>1. IInv => TypeOK
  <2> SUFFICES ASSUME IInv PROVE TypeOK
    OBVIOUS
  <2> USE DEF IInv
  <2>1. \A c \in Calls : (ask[c] = NoCall) <=> (pc[c] = "idle")
    BY DEF Asking, Valid, NoCall
  <2>2. \A o, p \in open : Ref(o) = Ref(p) => o = p
    BY DEF Numbered, Ref
  <2> QED BY <2>1, <2>2 DEF TypeOK, Typed, OrderSet, Numbered, Naming, Named
<1> QED BY <1>1, Invariance, PTL

\* Whatever tool is called with whatever arguments, what the adapter sends is of
\* a form its comments promise (adapter.go:315, :455, :546, :594).
THEOREM SendsWellFormed == Spec => []WellFormed
<1>1. IInv => WellFormed
  BY DEF IInv, Asking, Valid, NoCall, GoodCreate, WellFormed
<1> QED BY <1>1, Invariance, PTL

\* An order that was asked for as protective or closing is one, however the
\* arguments of create_contract_order are combined (adapter.go:546-600).
THEOREM PlacesAsAsked == Spec => []AsAsked
<1>1. IInv => AsAsked
  BY DEF IInv
<1> QED BY <1>1, Invariance, PTL

\* While every order number is one a float64 holds (helper.go:75), "canceled"
\* means that the order meant is not open any more.
THEOREM CanceledStaysGone ==
  ASSUME Narrow
  PROVE  Spec => []CanceledIsGone
<1>1. IInv => CanceledIsGone
  BY Narrow DEF IInv, Gone, CanceledIsGone
<1> QED BY <1>1, Invariance, PTL

\* While every order number is one a float64 holds, a cancellation takes away
\* the order its caller means, with its list, and no other (CancelOrder,
\* CancelAlgoOrder), whoever else places, fills or cancels orders meanwhile.
THEOREM CancelsTheMeant ==
  ASSUME Narrow
  PROVE  Spec => CancelsOnlyMeant
<1>1. ASSUME IInv, NEW c \in Calls, Cancel(c)
      PROVE  open \ open' \subseteq Meant(ask[c])
  <2>1. PICK o \in Scope(ask[c]) : o.id = ask[c].id /\ open' = open \ WithList(o)
    BY <1>1 DEF Cancel
  <2>2. Ref(o) = ask[c].meant /\ o \in open
    BY <1>1, <2>1, CancelFindsMeant, Narrow DEF Cancel, Scope
  <2>3. WithList(o) \subseteq Meant(ask[c])
    BY <2>2 DEF Meant
  <2> QED BY <2>1, <2>3
<1>2. IInv /\ [Next]_vars =>
        [\A c \in Calls : Cancel(c) => open \ open' \subseteq Meant(ask[c])]_vars
  BY <1>1
<1> QED BY <1>2, Invariance, PTL DEF Spec, CancelsOnlyMeant
=============================================================================
