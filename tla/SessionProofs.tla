---------------------------- MODULE SessionProofs ----------------------------
(* Proofs about Session, for any set of calls, any environments and any       *)
(* number of lives: type correctness, where requests go, what a clean end     *)
(* leaves in the log, and what the settings in force may be.                  *)
EXTENDS Session, TLAPS

\* A call of the account tools is of one of three shapes.
CallShape(call) ==
  \/ call = NoCall
  \/ /\ call.op = "transfer"
     /\ call.from \in Accounts /\ call.to \in Accounts
     /\ call.amount \in Nat
  \/ /\ call.op = "set"
     /\ call.key \in Keys
     /\ call.key = "leverage" => call.value \in Leverages
  \/ call.op = "other"

\* What the answer to a call says is true: Delivery's promise, remembered.
Outcome(c) ==
  /\ pending[c] => result[c] = "none"
  /\ result[c] = "ok" => executed[c] = 1
  /\ result[c] \in {"refused", "rejected", "limited"} => executed[c] = 0
  /\ ask[c] = NoCall => executed[c] = 0
  /\ ask[c] # NoCall => method[c] = "POST"
  /\ CallShape(ask[c])

\* main has come as far as its stage says.
Wired ==
  /\ stage \in {"observe", "connect"} \/ L!Running => cfg = L!Settings(environ)
  /\ L!Running => base = L!NewClients(cfg.testnet)

Went == \A c \in Calls : reached[c] # "none" =>
          reached[c] = L!Environment(environ.testnet = <<TRUE>>)

\* Only requests that came back are recorded, and each of them once.
Recorded ==
  \A p \in L!Providers : \A c \in buffered[p] \cup written[p] :
    ask[c] # NoCall /\ ~pending[c]

\* Where a record that a clean end owes the file is at every stage.
Owed ==
  /\ stage \in {"load", "observe", "connect"} => taken = L!Empty
  /\ L!Running => \A p \in L!Providers :
       \/ taken[p] \subseteq written[p]
       \/ L!Up(p) /\ taken[p] \subseteq buffered[p] \cup written[p]
       \/ cancelled
  /\ stage # "ended" => code = 0

\* Every setting is the first one, or that of a call that was executed.
InForce ==
  \A k \in Keys :
    \/ \E c \in Calls : /\ ask[c].op = "set" /\ ask[c].key = k
                        /\ executed[c] = 1
                        /\ settings[k] = Asked(ask[c])
    \/ /\ settings[k] = FirstSetting[k]
       /\ \A c \in Calls : ask[c].op = "set" /\ ask[c].key = k => executed[c] = 0

\* Of the account, and of the process that runs the calls.
AInv == TypeOK /\ (\A c \in Calls : Outcome(c)) /\ InForce
PInv == L!TypeOK /\ Wired /\ Recorded /\ Owed /\ LogComplete

IInv == AInv /\ PInv /\ Went /\ DOMAIN reached = Calls
-----------------------------------------------------------------------------
(* The account.                                                               *)

\* Every tool does the same to the account: it remembers what it was asked for,
\* and its request goes into the chain or nowhere.
LEMMA ToolAsks ==
  ASSUME NEW c \in Calls, Tool(c)
  PROVE  \E call : /\ CallShape(call) /\ call # NoCall
                   /\ Ask(c, call)
                   /\ Net!Start(c, "POST") \/ Net!Refuse(c, "POST")
<1> USE AccountAssumption
<1>1. CASE transfer_funds(c)
  <2>1. PICK pair \in Pairs, amount \in Amounts :
          LET call == [op |-> "transfer", from |-> pair[1], to |-> pair[2],
                       amount |-> amount]
          IN Send(c, call) \/ Error(c, call)
    BY <1>1 DEF transfer_funds
  <2> DEFINE call == [op |-> "transfer", from |-> pair[1], to |-> pair[2],
                      amount |-> amount]
  <2>2. CallShape(call) /\ call # NoCall
    BY DEF CallShape, NoCall
  <2> QED
    BY <2>1, <2>2 DEF Send, Error
<1>2. ASSUME NEW key \in Keys, NEW value,
             key = "leverage" => value \in Leverages, Set(c, key, value)
      PROVE  \E call : /\ CallShape(call) /\ call # NoCall
                       /\ Ask(c, call)
                       /\ Net!Start(c, "POST") \/ Net!Refuse(c, "POST")
  <2> DEFINE call == [op |-> "set", key |-> key, value |-> value]
  <2>1. CallShape(call) /\ call # NoCall
    BY <1>2 DEF CallShape, NoCall
  <2> QED
    BY <1>2, <2>1 DEF Set, Send
<1>3. CASE set_leverage(c)
  BY <1>2, <1>3 DEF set_leverage, Keys
<1>4. CASE set_margin_mode(c)
  BY <1>2, <1>4 DEF set_margin_mode, Keys
<1>5. CASE use_options(c)
  <2> DEFINE call == [op |-> "other"]
  <2>1. CallShape(call) /\ call # NoCall
    BY DEF CallShape, NoCall
  <2> QED
    BY <1>5, <2>1 DEF use_options, Send, Error
<1> QED
  BY <1>1, <1>3, <1>4, <1>5 DEF Tool

LEMMA AskKeeps ==
  ASSUME AInv, NEW c \in Calls, NEW call, CallShape(call), call # NoCall,
         Ask(c, call), Net!Start(c, "POST") \/ Net!Refuse(c, "POST")
  PROVE  AInv'
<1> USE DEF AInv, TypeOK, Ask, Net!Start, Net!Refuse, Net!Methods
<1>1. TypeOK'
  <2>1. pending' \in [Calls -> BOOLEAN] /\ method' \in [Calls -> Net!Methods]
    OBVIOUS
  <2>2. executed' \in [Calls -> 0 .. 1]
    OBVIOUS
  <2>3. result' \in [Calls -> Net!Outcomes \cup {"none", "refused"}]
    OBVIOUS
  <2>4. DOMAIN ask' = Calls
    OBVIOUS
  <2>5. \A d \in Calls : ask'[d] = NoCall <=> ~pending'[d] /\ result'[d] = "none"
    OBVIOUS
  <2> QED
    BY <2>1, <2>2, <2>3, <2>4, <2>5
<1>2. \A d \in Calls : Outcome(d)'
  BY DEF Outcome, CallShape
<1>3. executed[c] = 0 /\ executed' = executed
  BY DEF Outcome
<1>4. InForce'
  BY <1>3 DEF InForce
<1> QED
  BY <1>1, <1>2, <1>4

LEMMA FinishKeeps ==
  ASSUME AInv, NEW c \in Calls, Finish(c) PROVE AInv'
<1> USE DEF AInv, TypeOK
<1>1. PICK r \in Net!Outcomes : Net!Finish(c, r)
  BY DEF Finish
<1> USE <1>1 DEF Finish, Net!Finish, Net!Outcomes
<1>2. TypeOK'
  OBVIOUS
<1>3. \A d \in Calls : Outcome(d)'
  BY DEF Outcome, CallShape, Net!Truthful
<1>4. InForce'
  BY DEF InForce
<1> QED
  BY <1>2, <1>3, <1>4

LEMMA CutOffKeeps == ASSUME AInv, CutOff PROVE AInv'
<1> USE DEF AInv, TypeOK, CutOff
<1>1. TypeOK'
  BY DEF Net!Outcomes
<1>2. \A d \in Calls : Outcome(d)'
  BY DEF Outcome, CallShape
<1>3. InForce'
  BY DEF InForce
<1> QED
  BY <1>1, <1>2, <1>3

\* An execution is the first of its call, which is not one that failed.
LEMMA ExecuteKeeps == ASSUME AInv, NEW c \in Calls, Execute(c) PROVE AInv'
<1> USE AccountAssumption DEF AInv, TypeOK
<1>1. /\ executed[c] = 0 /\ executed' = [executed EXCEPT ![c] = 1]
      /\ UNCHANGED <<pending, method, result, ask>>
      /\ result[c] \notin {"refused", "rejected", "limited"} 
      /\ ask[c] # NoCall
  BY DEF Execute, Net!Execute, Net!Late, Net!Bound, Outcome
<1>2. Apply(ask[c]) /\ CallShape(ask[c])
  BY DEF Execute, Outcome
<1>3. wallets' \in [Accounts -> Nat] /\ DOMAIN settings' = Keys
  BY <1>1, <1>2 DEF Apply, Move, CallShape
<1>4. TypeOK'
  BY <1>1, <1>3
<1>5. \A d \in Calls : Outcome(d)'
  BY <1>1 DEF Outcome, CallShape
<1>6. InForce'
  BY <1>1, <1>2 DEF InForce, Apply, Move, CallShape, Asked, getInt
<1> QED
  BY <1>4, <1>5, <1>6

-----------------------------------------------------------------------------
(* The process.                                                               *)

\* Whatever the environment says, there is a timeout.
LEMMA SettingsTyped ==
  ASSUME NEW e \in Environs
  PROVE  /\ L!Settings(e) \in [timeout : Nat, testnet : BOOLEAN]
         /\ L!Settings(e).timeout > 0
         /\ e.keys \in BOOLEAN
<1>1. e \in [keys : BOOLEAN, testnet : Seq(BOOLEAN), timeout : Seq(Int)]
  BY SessionAssumption
<1>2. e.timeout # <<>> => e.timeout[1] \in Int
  BY <1>1
<1> QED
  BY <1>1, <1>2, SessionAssumption DEF L!Settings

LEMMA BaseTyped ==
  ASSUME NEW t \in BOOLEAN
  PROVE  L!NewClients(t) \in [L!Clients -> {"production", "testnet"}]
BY DEF L!NewClients, L!Environment, L!Clients

\* main's own steps; where it ends, every call under way is cut off.
LEMMA MainKeeps ==
  ASSUME PInv, L!Main, pending \in [Calls -> BOOLEAN],
         IF stage' = "ended" THEN CutOff ELSE UNCHANGED account
  PROVE  PInv'
<1> USE SessionAssumption DEF PInv, L!TypeOK, L!Providers, L!Running
<1>a. ask' = ask /\ \A c \in Calls : ~pending[c] => ~pending'[c]
  BY DEF CutOff, account
<1>1. CASE L!Load
  <2> USE <1>1, SettingsTyped DEF L!Load, L!Exit, L!Empty
  <2>1. L!TypeOK'
    OBVIOUS
  <2>2. Wired'
    BY DEF Wired
  <2>3. Recorded'
    BY <1>a DEF Recorded
  <2>4. Owed' /\ LogComplete'
    BY DEF Owed, LogComplete, L!LogComplete, L!Up
  <2> QED
    BY <2>1, <2>2, <2>3, <2>4
<1>2. CASE L!Observe
  <2> USE <1>2 DEF L!Observe, L!Exit, L!Empty
  <2>1. L!TypeOK'
    OBVIOUS
  <2>2. Wired'
    BY DEF Wired
  <2>3. Recorded'
    BY <1>a DEF Recorded
  <2>4. Owed' /\ LogComplete'
    BY DEF Owed, LogComplete, L!LogComplete, L!Up
  <2> QED
    BY <2>1, <2>2, <2>3, <2>4
<1>3. CASE L!Connect
  <2> USE <1>3 DEF L!Connect, L!Empty
  <2>1. L!TypeOK'
    BY BaseTyped, SettingsTyped DEF Wired
  <2>2. Wired'
    BY DEF Wired
  <2>3. Recorded'
    BY <1>a DEF Recorded
  <2>4. Owed' /\ LogComplete'
    BY DEF Owed, LogComplete, L!LogComplete, L!Up
  <2> QED
    BY <2>1, <2>2, <2>3, <2>4
<1>4. CASE L!ServeReturns
  <2> USE <1>4 DEF L!ServeReturns, L!Deferred, L!Exit, L!Empty
  <2>1. L!TypeOK'
    OBVIOUS
  <2>2. Wired'
    BY DEF Wired
  <2>3. Recorded'
    BY <1>a DEF Recorded
  <2>4. Owed' /\ LogComplete'
    BY DEF Owed, LogComplete, L!LogComplete, L!Up
  <2> QED
    BY <2>1, <2>2, <2>3, <2>4
<1>5. ASSUME NEW p \in {"tracer", "meter"}, NEW next \in {"meter", "close"},
             stage = p, next = (IF p = "tracer" THEN "meter" ELSE "close"),
             L!Flush(p, next)
      PROVE  PInv'
  <2> USE <1>5 DEF L!Flush
  <2>0. PICK lost \in SUBSET buffered[p] :
          /\ written' = [written EXCEPT ![p] = @ \cup (buffered[p] \ lost)]
          /\ ~cancelled => lost = {}
    OBVIOUS
  <2>1. L!TypeOK'
    BY <2>0
  <2>2. Wired'
    BY DEF Wired
  <2>3. Recorded'
    BY <1>a, <2>0 DEF Recorded
  <2>4. Owed' /\ LogComplete'
    BY <2>0 DEF Owed, LogComplete, L!LogComplete, L!Up
  <2> QED
    BY <2>1, <2>2, <2>3, <2>4
<1>6. CASE L!CloseLog
  <2> USE <1>6 DEF L!CloseLog, L!Exit, L!Empty
  <2>1. L!TypeOK'
    OBVIOUS
  <2>2. Wired'
    BY DEF Wired
  <2>3. Recorded'
    BY <1>a DEF Recorded
  <2>4. Owed' /\ LogComplete'
    BY DEF Owed, LogComplete, L!LogComplete, L!Up
  <2> QED
    BY <2>1, <2>2, <2>3, <2>4
<1>7. CASE L!Restart
  <2> USE <1>7 DEF L!Restart, L!NoConfig, L!Empty
  <2>1. L!TypeOK'
    <3>1. lives' \in 1 .. MaxLives
      OBVIOUS
    <3>2. cfg' \in [timeout : Nat, testnet : BOOLEAN] /\ cancelled' \in BOOLEAN
      OBVIOUS
    <3> QED
      BY <3>1, <3>2
  <2>2. Wired'
    BY DEF Wired
  <2>3. Recorded'
    BY <1>a DEF Recorded
  <2>4. Owed' /\ LogComplete'
    BY DEF Owed, LogComplete, L!LogComplete, L!Up
  <2> QED
    BY <2>1, <2>2, <2>3, <2>4
<1> QED
  BY <1>1, <1>2, <1>3, <1>4, <1>5, <1>6, <1>7
  DEF L!Main, L!ShutdownTracer, L!ShutdownMeter

\* What runs beside main, with the calls as they are.
LEMMA BesideKeeps == ASSUME PInv, L!Beside, UNCHANGED account PROVE PInv'
<1> USE DEF PInv, L!TypeOK, L!Providers, L!Running, account
<1>1. CASE L!Signal
  BY <1>1 DEF L!Signal, Wired, Recorded, Owed, LogComplete, L!LogComplete, L!Up
<1>2. ASSUME NEW p \in L!Providers, L!Export(p) PROVE PInv'
  <2> USE <1>2 DEF L!Export
  <2>1. L!TypeOK'
    OBVIOUS
  <2>2. Wired'
    BY DEF Wired
  <2>3. Recorded'
    BY DEF Recorded
  <2>4. Owed' /\ LogComplete'
    BY DEF Owed, LogComplete, L!LogComplete, L!Up
  <2> QED
    BY <2>1, <2>2, <2>3, <2>4
<1> QED
  BY <1>1, <1>2 DEF L!Beside

\* A request that comes back is recorded for the first time.
LEMMA RecordKeeps ==
  ASSUME PInv, NEW c \in Calls, L!Record(c), L!Running,
         ask[c] = NoCall \/ pending[c], ask'[c] # NoCall, ~pending'[c],
         \A d \in Calls \ {c} : ask'[d] = ask[d] /\ pending'[d] = pending[d]
  PROVE  PInv'
<1> USE DEF PInv, L!TypeOK, L!Providers, L!Running, L!Record
<1>1. \A p \in {"tracer", "meter"} : c \notin buffered[p] \cup written[p]
  BY DEF Recorded
<1>2. L!TypeOK'
  BY <1>1
<1>3. Wired'
  BY DEF Wired
<1>4. Recorded'
  BY <1>1 DEF Recorded
<1>5. Owed' /\ LogComplete'
  BY DEF Owed, LogComplete, L!LogComplete, L!Up
<1> QED
  BY <1>2, <1>3, <1>4, <1>5

\* Steps of a call that leave no record.
LEMMA QuietKeeps ==
  ASSUME PInv, UNCHANGED process,
         \A d \in Calls : (ask[d] # NoCall /\ ~pending[d]) => (ask'[d] # NoCall /\ ~pending'[d])
  PROVE  PInv'
BY DEF PInv, process, L!TypeOK, L!Providers, L!Running, Wired, Recorded, Owed,
       LogComplete, L!LogComplete, L!Up
-----------------------------------------------------------------------------
(* The session.                                                               *)

LEMMA InitKeeps == SessionInit => IInv
<1> SUFFICES ASSUME SessionInit PROVE IInv
  OBVIOUS
<1> USE AccountAssumption, SessionAssumption DEF SessionInit
<1>1. TypeOK
  BY DEF Init, Net!Init, TypeOK, Net!Methods
<1>2. (\A c \in Calls : Outcome(c)) /\ InForce
  BY DEF Init, Net!Init, Outcome, InForce, CallShape, NoCall
<1>3. L!TypeOK
  <2>1. lives \in 1 .. MaxLives /\ cfg \in [timeout : Nat, testnet : BOOLEAN]
    BY DEF L!Init, L!NoConfig
  <2>2. /\ buffered \in [L!Providers -> SUBSET Calls]
        /\ written \in [L!Providers -> SUBSET Calls]
        /\ \A p \in L!Providers : buffered[p] \cap written[p] = {}
    BY DEF L!Init, L!Empty
  <2> QED
    BY <2>1, <2>2 DEF L!Init, L!TypeOK, L!Running
<1>4. Wired /\ Owed /\ LogComplete
  BY DEF L!Init, L!Running, Wired, Owed, LogComplete, L!LogComplete
<1>5. Recorded
  BY DEF L!Init, L!Empty, Recorded
<1> QED
  BY <1>1, <1>2, <1>3, <1>4, <1>5 DEF IInv, AInv, PInv, Went

\* A call that begins goes where its client was built for, and a call for
\* options begins in production only.
LEMMA GoesRight ==
  ASSUME IInv, NEW c \in Calls, Begin(c)
  PROVE  reached'[c] = L!Environment(environ.testnet = <<TRUE>>)
<1> USE DEF IInv, AInv, PInv, TypeOK, L!TypeOK
<1>1. cfg = L!Settings(environ) /\ base = L!NewClients(cfg.testnet)
  BY DEF Begin, Wired, L!Running
<1>0. cfg.testnet = (environ.testnet = <<TRUE>>)
  BY <1>1 DEF L!Settings
<1>2. reached'[c] = base[Client(ask'[c])] /\ Tool(c) /\ pending'[c]
  BY DEF Begin
<1>3. PICK call : Ask(c, call) /\ CallShape(call) /\ call # NoCall
  BY <1>2, ToolAsks
<1>4. ask'[c] = call
  BY <1>3 DEF Ask
<1>5. CASE call.op = "other"
  <2>1. ~transfer_funds(c) /\ ~set_leverage(c) /\ ~set_margin_mode(c)
    BY <1>4, <1>5 DEF transfer_funds, set_leverage, set_margin_mode, Set, Send,
                      Error, Ask
  <2>2. L!optionsGuard
    BY <1>2, <2>1 DEF Tool, use_options, Error, Net!Refuse
  <2> QED
    BY <1>0, <1>1, <1>2, <1>4, <1>5, <2>2
    DEF Client, L!NewClients, L!Clients, L!optionsGuard, L!Environment
<1>6. CASE call.op \in {"transfer", "set"}
  BY <1>0, <1>1, <1>2, <1>4, <1>6 DEF Client, L!NewClients, L!Clients
<1> QED
  BY <1>3, <1>5, <1>6 DEF CallShape

LEMMA StepKeeps == IInv /\ [SessionNext]_Vars => IInv'
<1> SUFFICES ASSUME IInv, [SessionNext]_Vars PROVE IInv'
  OBVIOUS
<1> USE DEF IInv
<1>1. CASE Main
  <2>1. AInv'
    BY <1>1, CutOffKeeps DEF Main, account, AInv, TypeOK, Outcome, InForce
  <2>2. PInv'
    BY <1>1, MainKeeps DEF Main, AInv, TypeOK
  <2>3. environ' = environ
    BY <1>1 DEF Main, L!Main, L!Load, L!Observe, L!Connect, L!ServeReturns,
                L!ShutdownTracer, L!ShutdownMeter, L!Flush, L!CloseLog, L!Restart
  <2> QED
    BY <1>1, <2>1, <2>2, <2>3 DEF Main, Went
<1>2. CASE Beside
  <2>1. AInv' /\ environ' = environ
    BY <1>2 DEF Beside, L!Beside, L!Signal, L!Export, account, AInv, TypeOK,
                Outcome, InForce
  <2>2. PInv'
    BY <1>2, BesideKeeps DEF Beside
  <2> QED
    BY <1>2, <2>1, <2>2 DEF Beside, Went
<1>3. ASSUME NEW c \in Calls, Tool(c)
      PROVE  /\ AInv'
             /\ ask[c] = NoCall /\ ask'[c] # NoCall
             /\ \A d \in Calls \ {c} : ask'[d] = ask[d] /\ pending'[d] = pending[d]
  <2>1. PICK call : /\ CallShape(call) /\ call # NoCall
                    /\ Ask(c, call)
                    /\ Net!Start(c, "POST") \/ Net!Refuse(c, "POST")
    BY <1>3, ToolAsks
  <2> QED
    BY <2>1, AskKeeps DEF Ask, Net!Start, Net!Refuse, AInv, TypeOK
<1>4. ASSUME NEW c \in Calls, Begin(c) PROVE IInv'
  <2>1. PInv'
    BY <1>3, <1>4, QuietKeeps DEF Begin
  <2>2. Went'
    BY <1>4, GoesRight DEF Begin, Went, process
  <2> QED
    BY <1>3, <1>4, <2>1, <2>2 DEF Begin
<1>5. ASSUME NEW c \in Calls, Refused(c) PROVE IInv'
  <2>1. CASE TurnedDown(ask'[c])
    <3>1. PInv'
      BY <1>3, <1>5, <2>1, QuietKeeps DEF Refused
    <3> QED
      BY <1>3, <1>5, <2>1, <3>1 DEF Refused, Went, process
  <2>2. CASE ~TurnedDown(ask'[c])
    <3>1. PInv'
      BY <1>3, <1>5, <2>2, RecordKeeps DEF Refused, L!Running
    <3> QED
      BY <1>3, <1>5, <2>2, <3>1 DEF Refused, Went, L!Record
  <2> QED
    BY <2>1, <2>2
<1>6. ASSUME NEW c \in Calls, Answered(c) PROVE IInv'
  <2>1. AInv'
    BY <1>6, FinishKeeps DEF Answered
  <2>2. /\ pending[c] /\ ~pending'[c] /\ ask'[c] # NoCall
        /\ \A d \in Calls \ {c} : ask'[d] = ask[d] /\ pending'[d] = pending[d]
    BY <1>6 DEF Answered, Finish, Net!Finish, AInv, TypeOK
  <2>3. PInv'
    BY <1>6, <2>2, RecordKeeps DEF Answered
  <2> QED
    BY <1>6, <2>1, <2>3 DEF Answered, Went, L!Record
<1>7. ASSUME NEW c \in Calls, Executed(c) PROVE IInv'
  <2>1. AInv'
    BY <1>7, ExecuteKeeps DEF Executed
  <2>2. UNCHANGED <<ask, pending, process, reached>>
    BY <1>7 DEF Executed, Execute, Net!Execute, Net!Late
  <2>3. PInv'
    BY <2>2, QuietKeeps
  <2> QED
    BY <2>1, <2>2, <2>3 DEF Went, process
<1>8. CASE UNCHANGED Vars
  <2>1. AInv'
    BY <1>8 DEF Vars, account, AInv, TypeOK, Outcome, InForce
  <2>2. PInv'
    BY <1>8, QuietKeeps DEF Vars, account
  <2> QED
    BY <1>8, <2>1, <2>2 DEF Vars, process, Went
<1> QED
  BY <1>1, <1>2, <1>4, <1>5, <1>6, <1>7, <1>8 DEF SessionNext

LEMMA Invariance == SessionSpec => []IInv
BY InitKeeps, StepKeeps, PTL DEF SessionSpec

\* No sequence of calls, answers, signals and restarts leaves the types; above
\* all, a server that runs has a timeout, and records no request twice.
THEOREM TypeCorrect == SessionSpec => []SessionTypeOK
<1>1. IInv => SessionTypeOK
  BY DEF IInv, AInv, PInv, SessionTypeOK
<1> QED
  BY <1>1, Invariance, PTL

\* Every request goes to the environment that is configured.
THEOREM StaysInEnvironment == SessionSpec => []EnvironmentHonest
<1>1. IInv => EnvironmentHonest
  BY DEF IInv, Went, EnvironmentHonest
<1> QED
  BY <1>1, Invariance, PTL

\* A clean end loses no record of a request that was over before it.
THEOREM CleanEndKeepsLog == SessionSpec => []LogComplete
<1>1. IInv => LogComplete
  BY DEF IInv, PInv
<1> QED
  BY <1>1, Invariance, PTL

\* Leverage and margin mode are what the answers to the callers allow.
THEOREM SettingsAreExplained == SessionSpec => []SettingsExplained
<1>1. IInv => SettingsExplained
  <2> SUFFICES ASSUME IInv, NEW k \in Keys
               PROVE  \/ \E c \in Done \cup Open : /\ ask[c].op = "set" /\ ask[c].key = k
                                                   /\ settings[k] = Asked(ask[c])
                      \/ /\ \A c \in Done : ~(ask[c].op = "set" /\ ask[c].key = k)
                         /\ settings[k] = FirstSetting[k]
    BY DEF SettingsExplained
  <2> USE DEF IInv, AInv, TypeOK
  <2>1. \A c \in Calls : executed[c] = 1 => c \in Done \cup Open
    BY DEF Outcome, Done, Open, Failed
  <2>2. \A c \in Done : executed[c] = 1
    BY DEF Outcome, Done
  <2> QED
    BY <2>1, <2>2 DEF InForce, Done
<1> QED
  BY <1>1, Invariance, PTL
=============================================================================
