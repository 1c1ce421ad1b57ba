----------------------------- MODULE LedgerProofs -----------------------------
(* What the money does, for any number of calls and any amounts: every wallet *)
(* is what it was at first plus what each transfer the exchange acted on does *)
(* to it, and the callers' answers leave open at most which of them those are.*)
EXTENDS SessionProofs, SumTheorems

\* The calls the exchange has acted on, and what each call does to a wallet.
Acted     == {c \in Calls : executed[c] = 1}
Effect(a) == [c \in Calls |-> Change(ask[c], a)]

\* Finitely many calls have acted, and every wallet shows each of them once.
Ledger ==
  /\ IsFiniteSet(Acted)
  /\ \A a \in Accounts : wallets[a] = Funds + SumFunctionOnSet(Effect(a), Acted)

\* What a call does to a wallet is a number.
LEMMA EffectTyped ==
  ASSUME AInv, NEW a \in Accounts, NEW c \in Calls
  PROVE  Effect(a)[c] \in Int
<1>1. CallShape(ask[c])
  BY DEF AInv, Outcome
<1> QED
  BY <1>1 DEF Effect, Change, CallShape, NoCall

LEMMA InitBalances == SessionInit => Ledger
<1> SUFFICES ASSUME SessionInit PROVE Ledger
  OBVIOUS
<1>1. Acted = {} /\ \A a \in Accounts : wallets[a] = Funds
  BY DEF SessionInit, Init, Net!Init, Acted
<1>2. IsFiniteSet(Acted)
  BY <1>1, FS_EmptySet
<1>3. \A a \in Accounts : SumFunctionOnSet(Effect(a), Acted) = 0
  BY <1>1, SumOfNothing
<1> QED
  BY <1>1, <1>2, <1>3, AccountAssumption DEF Ledger

\* A step that executes nothing moves no money, whatever it asks for.
LEMMA IdleBalances ==
  ASSUME AInv, Ledger, UNCHANGED <<executed, wallets>>,
         \A c \in Acted : ask'[c] = ask[c]
  PROVE  Ledger'
<1>1. Acted' = Acted
  BY DEF Acted
<1>2. ASSUME NEW a \in Accounts
      PROVE  SumFunctionOnSet(Effect(a)', Acted) = SumFunctionOnSet(Effect(a), Acted)
  <2>1. \A c \in Acted : Effect(a)'[c] = Effect(a)[c]
    BY DEF Effect, Acted
  <2>2. \A c \in Acted : Effect(a)[c] \in Int
    BY EffectTyped DEF Acted
  <2>3. IsFiniteSet(Acted)
    BY DEF Ledger
  <2> QED
    BY <2>1, <2>2, <2>3, SumOfSame
<1> QED
  BY <1>1, <1>2 DEF Ledger

\* The exchange acts on a call as its caller meant it: the type the adapter
\* writes names the two wallets asked for and no others.
LEMMA MovesTheAsked ==
  ASSUME AInv, NEW c \in Calls, Apply(ask[c]), NEW a \in Accounts
  PROVE  wallets'[a] = wallets[a] + Effect(a)[c]
<1>1. CallShape(ask[c])
  BY DEF AInv, Outcome
<1>2. wallets \in [Accounts -> Nat]
  BY DEF AInv, TypeOK
<1>3. CASE ask[c].op = "transfer" 
  <2> DEFINE call == ask[c]
  <2>1. /\ call.from \in Accounts /\ call.to \in Accounts /\ call.amount \in Nat
        /\ Move(resolveTransferType(call.from, call.to), call.amount)
    BY <1>1, <1>3 DEF CallShape, NoCall, Apply
  <2>2. PICK src, dst \in Accounts :
          /\ <<Wallet[src], Wallet[dst]>> = resolveTransferType(call.from, call.to)
          /\ wallets' = [wallets EXCEPT ![src] = @ - call.amount,
                                        ![dst] = @ + call.amount]
    BY <2>1 DEF Move
  <2>3. call.from # call.to
    BY <2>2 DEF resolveTransferType, Unsupported
  <2>4. src = call.from /\ dst = call.to
    BY <2>1, <2>2, <2>3 DEF resolveTransferType, Wallet, Accounts
  <2>5. Effect(a)[c] = (IF a = call.to THEN call.amount ELSE 0)
                         - (IF a = call.from THEN call.amount ELSE 0)
    BY <1>3 DEF Effect, Change
  <2> HIDE DEF call
  <2> QED
    BY <1>2, <2>1, <2>2, <2>3, <2>4, <2>5
<1>4. CASE ask[c].op # "transfer"
  <2>1. wallets' = wallets
    BY <1>4 DEF Apply
  <2>2. Effect(a)[c] = 0
    BY <1>4 DEF Effect, Change
  <2> QED
    BY <1>2, <2>1, <2>2
<1> QED
  BY <1>3, <1>4

LEMMA ExecuteBalances ==
  ASSUME AInv, Ledger, NEW c \in Calls, Execute(c)
  PROVE  Ledger'
<1>1. /\ executed[c] = 0 /\ executed' = [executed EXCEPT ![c] = 1]
      /\ UNCHANGED ask /\ Apply(ask[c])
  BY DEF AInv, TypeOK, Execute, Net!Execute, Net!Late, Net!Bound, Outcome
<1>2. c \notin Acted /\ Acted' = Acted \cup {c}
  BY <1>1 DEF Acted, AInv, TypeOK
<1>3. IsFiniteSet(Acted')
  BY <1>2, FS_AddElement DEF Ledger
<1>4. ASSUME NEW a \in Accounts
      PROVE  wallets'[a] = Funds + SumFunctionOnSet(Effect(a)', Acted')
  <2> DEFINE f == Effect(a)
             sum == SumFunctionOnSet(f, Acted)
  <2>1. Effect(a)' = f
    BY <1>1 DEF Effect
  <2>2. \A d \in Acted \cup {c} : f[d] \in Int
    BY EffectTyped DEF Acted
  <2>3. IsFiniteSet(Acted) /\ wallets[a] = Funds + sum
    BY DEF Ledger
  <2> HIDE DEF f
  <2>4. SumFunctionOnSet(f, Acted \cup {c}) = sum + f[c] /\ sum \in Int
    BY <1>2, <2>2, <2>3, SumWithOneMore, SumIsInt
  <2>5. wallets'[a] = wallets[a] + f[c]
    BY <1>1, MovesTheAsked DEF f
  <2> HIDE DEF sum
  <2> QED
    BY <1>2, <2>1, <2>2, <2>3, <2>4, <2>5, AccountAssumption
<1> QED
  BY <1>3, <1>4 DEF Ledger

LEMMA StepBalances == IInv /\ Ledger /\ [SessionNext]_Vars => Ledger'
<1> SUFFICES ASSUME IInv, Ledger, [SessionNext]_Vars PROVE Ledger'
  OBVIOUS
<1>0. AInv
  BY DEF IInv
<1>1. CASE Main
  BY <1>0, <1>1, IdleBalances DEF Main, CutOff, account
<1>2. CASE Beside
  BY <1>0, <1>2, IdleBalances DEF Beside, account
<1>3. ASSUME NEW c \in Calls, Tool(c) PROVE Ledger'
  <2>1. PICK call : /\ Ask(c, call)
                    /\ Net!Start(c, "POST") \/ Net!Refuse(c, "POST")
    BY <1>3, ToolAsks
  <2>2. executed[c] = 0
    BY <1>0, <2>1 DEF Ask, AInv, Outcome
  <2>3. UNCHANGED <<executed, wallets>>
    BY <1>0, <2>1, <2>2 DEF Ask, Net!Start, Net!Refuse, AInv, TypeOK
  <2>4. \A d \in Acted : ask'[d] = ask[d]
    BY <1>0, <2>1, <2>2 DEF Ask, Acted, AInv, TypeOK
  <2> QED
    BY <1>0, <2>3, <2>4, IdleBalances
<1>4. ASSUME NEW c \in Calls, Begin(c) \/ Refused(c) PROVE Ledger'
  BY <1>3, <1>4 DEF Begin, Refused
<1>5. ASSUME NEW c \in Calls, Answered(c) PROVE Ledger'
  BY <1>0, <1>5, IdleBalances DEF Answered, Finish, Net!Finish
<1>6. ASSUME NEW c \in Calls, Executed(c) PROVE Ledger'
  BY <1>0, <1>6, ExecuteBalances DEF Executed
<1>7. CASE UNCHANGED Vars
  BY <1>0, <1>7, IdleBalances DEF Vars, account
<1> QED
  BY <1>1, <1>2, <1>4, <1>5, <1>6, <1>7 DEF SessionNext

\* A caller that keeps a ledger can reconcile it: a call answered ok has acted,
\* one that failed has not, so those that have acted are the ok ones and some
\* of the open ones.
THEOREM AlwaysReconcilable == SessionSpec => []Reconcilable
<1>1. ASSUME IInv, Ledger PROVE Reconcilable
  <2> DEFINE some == Acted \ Done
  <2>1. \A c \in Calls : Outcome(c) /\ executed[c] \in 0 .. 1
    BY <1>1 DEF IInv, AInv, TypeOK
  <2>2. some \in SUBSET Open
    BY <2>1 DEF Outcome, Acted, Done, Failed, Open
  <2>3. Done \cup some = Acted
    BY <2>1 DEF Outcome, Acted, Done
  <2>4. \A a \in Accounts :
          wallets[a] = Funds + SumFunctionOnSet([c \in Calls |-> Change(ask[c], a)],
                                                Done \cup some)
    BY <1>1, <2>3 DEF Ledger, Effect
  <2> QED
    BY <2>2, <2>4 DEF Reconcilable
<1>2. IInv /\ Ledger => Reconcilable
  BY <1>1
<1> QED
  BY <1>2, InitBalances, StepBalances, Invariance, PTL DEF SessionSpec
=============================================================================
