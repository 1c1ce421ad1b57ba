------------------------------- MODULE Account -------------------------------
(* The account tools that change something: transfers between the wallets of  *)
(* the account, leverage and margin mode of a futures symbol.  They keep no   *)
(* state; what they promise is about the account at the exchange and about    *)
(* what the caller may conclude from the answers.                             *)
(*                                                                            *)
(* An element of Calls is one tool call.  Its request is carried under the    *)
(* contract of Delivery, which HttpChain implements: every action here that   *)
(* sends, executes or answers is one of the contract and says what it does to *)
(* the account.  One asset and one symbol stand for all.                      *)
EXTENDS Integers, Functions

CONSTANTS Calls,
          Pairs,        \* the <<from, to>> pairs transfers are asked for
          Amounts,      \* the amounts
          Funds,        \* what every wallet holds at first
          Leverages,    \* the JSON values leverage is asked for with
          Modes,        \* the margin modes asked for
          FirstSetting  \* leverage and margin mode at first

Accounts == {"SPOT", "FUNDING", "MARGIN", "FUTURES"}
Keys     == {"leverage", "marginMode"}

\* Callers keep to the schemas of the tools: a leverage is a JSON number.
ASSUME AccountAssumption == /\ Pairs \subseteq Accounts \X Accounts
                            /\ Amounts \subseteq Nat
                            /\ Funds \in Nat
                            /\ Leverages \subseteq [json : {"number"}, n : Nat]
                            /\ DOMAIN FirstSetting = Keys

VARIABLES pending, method, executed, result,  \* of Delivery
          ask,       \* what every call was asked for
          wallets,   \* at the exchange
          settings   \* at the exchange, of the symbol

account == <<pending, method, executed, result, ask, wallets, settings>>

Net == INSTANCE Delivery WITH MaxAttempts <- 1

NoCall == [op |-> "none"]

TypeOK ==
  /\ pending \in [Calls -> BOOLEAN]
  /\ method \in [Calls -> Net!Methods]
  /\ executed \in [Calls -> 0 .. 1]
  /\ result \in [Calls -> Net!Outcomes \cup {"none", "refused"}]
  /\ DOMAIN ask = Calls
  /\ \A c \in Calls : ask[c] = NoCall <=> ~pending[c] /\ result[c] = "none"
  /\ wallets \in [Accounts -> Nat]
  /\ DOMAIN settings = Keys

Init ==
  /\ Net!Init
  /\ ask = [c \in Calls |-> NoCall]
  /\ wallets = [a \in Accounts |-> Funds]
  /\ settings = FirstSetting
-----------------------------------------------------------------------------
(* The tools.                                                                 *)

Ask(c, call) ==
  /\ ask[c] = NoCall
  /\ ask' = [ask EXCEPT ![c] = call]
  /\ UNCHANGED <<wallets, settings>>

\* The breaker takes the request into the chain or refuses it.
Send(c, call) == Ask(c, call) /\ (Net!Start(c, "POST") \/ Net!Refuse(c, "POST"))

\* The adapter returns an error of its own and sends nothing.
Error(c, call) == Ask(c, call) /\ Net!Refuse(c, "POST")

\* The exchange's names of the wallets, of which a transfer type is made.
Wallet == [SPOT |-> "MAIN", FUNDING |-> "FUNDING", MARGIN |-> "MARGIN",
           FUTURES |-> "UMFUTURE"]

Unsupported == <<>>

\* Mutant: two entries of the table are swapped.
SwappedEntries(from, to) ==
  IF from = to THEN Unsupported
  ELSE IF {from, to} = {"FUTURES", "FUNDING"} THEN <<Wallet[to], Wallet[from]>>
  ELSE <<Wallet[from], Wallet[to]>>

\* The table has the twelve pairs of different wallets.
resolveTransferType(from, to) ==
  IF from = to THEN Unsupported ELSE <<Wallet[from], Wallet[to]>>

\* The amount is written with %g, whose shortest form reads back as the same
\* number.
transfer_funds(c) ==
  \E pair \in Pairs, amount \in Amounts :
    LET call == [op |-> "transfer", from |-> pair[1], to |-> pair[2],
                 amount |-> amount]
    IN IF resolveTransferType(pair[1], pair[2]) = Unsupported
       THEN Error(c, call) ELSE Send(c, call)

\* Mutant: a JSON number, which arrives as a float64, is not recognised.
OnlyNativeInts(value) == IF value.json = "integer" THEN value.n ELSE 1

\* Any other type is taken for a missing value, and the default is one.  A
\* float64 holds every integer in the range of a leverage.
getInt(value) == IF value.json = "number" THEN value.n ELSE 1

Set(c, key, value) == Send(c, [op |-> "set", key |-> key, value |-> value])

set_leverage(c)    == \E n \in Leverages : Set(c, "leverage", n)
set_margin_mode(c) == \E m \in Modes : Set(c, "marginMode", m)
-----------------------------------------------------------------------------
(* The exchange.                                                              *)

\* It moves what the type says, if it is there.
Move(type, amount) ==
  \E src, dst \in Accounts :
    /\ <<Wallet[src], Wallet[dst]>> = type
    /\ wallets[src] >= amount
    /\ wallets' = [wallets EXCEPT ![src] = @ - amount, ![dst] = @ + amount]
    /\ UNCHANGED settings

\* What acting on the request of a call does to the account.
Apply(call) ==
  \/ call.op = "transfer" /\ Move(resolveTransferType(call.from, call.to), call.amount)
  \/ /\ call.op = "set"
     /\ settings' = [settings EXCEPT ![call.key] =
          IF call.key = "leverage" THEN getInt(call.value) ELSE call.value]
     /\ UNCHANGED wallets
  \/ call.op = "other" /\ UNCHANGED <<wallets, settings>>

\* In time or late: an answer that was lost does not stop the exchange.
Execute(c) == (Net!Execute(c) \/ Net!Late(c)) /\ Apply(ask[c]) /\ UNCHANGED ask

\* The tool answers "ok", or "failed" with the error it was given.
Finish(c) == /\ \E r \in Net!Outcomes : Net!Finish(c, r)
             /\ UNCHANGED <<ask, wallets, settings>>

\* The process ends under the calls that are under way: their callers hear
\* nothing, which tells them as much as an error of the network.
CutOff ==
  /\ result' = [c \in Calls |-> IF pending[c] THEN "error" ELSE result[c]]
  /\ pending' = [c \in Calls |-> FALSE]
  /\ UNCHANGED <<method, executed, ask, wallets, settings>>

Next == \/ CutOff
        \/ \E c \in Calls : \/ transfer_funds(c) \/ set_leverage(c) \/ set_margin_mode(c)
                            \/ Execute(c) \/ Finish(c)

Spec == Init /\ [][Next]_account
-----------------------------------------------------------------------------
(* What the caller may conclude.                                              *)

Done   == {c \in Calls : result[c] = "ok"}
Failed == {c \in Calls : result[c] \in {"refused", "rejected", "limited"}}
Open   == {c \in Calls : ask[c] # NoCall} \ (Done \cup Failed)

\* What a transfer, as it was asked for, does to a wallet.
Change(call, a) ==
  IF call.op # "transfer" THEN 0
  ELSE (IF a = call.to THEN call.amount ELSE 0)
         - (IF a = call.from THEN call.amount ELSE 0)

\* A caller that keeps a ledger can always reconcile it: the wallets are what
\* they were, plus every transfer that was answered ok, plus some of those whose
\* outcome is open (lost answers, 5xx, calls cut off by the end of the server)
\* and none of those that failed, however these interleave and however late
\* the exchange acts (account.go:115 calls all of them failed).
Reconcilable ==
  \E some \in SUBSET Open : \A a \in Accounts :
    wallets[a] = Funds + SumFunctionOnSet([c \in Calls |-> Change(ask[c], a)],
                                          Done \cup some)

\* The setting a call was asked for.
Asked(call) == IF call.key = "leverage" THEN call.value.n ELSE call.value

\* What is in force was asked for: by a call that was answered ok or one whose
\* outcome is open; and the first setting only as long as no call was answered
\* ok.  With one call left that may have acted, its ok is the whole truth.
SettingsExplained ==
  \A k \in Keys :
    LET on(calls) == {c \in calls : ask[c].op = "set" /\ ask[c].key = k}
    IN \/ \E c \in on(Done \cup Open) : settings[k] = Asked(ask[c])
       \/ on(Done) = {} /\ settings[k] = FirstSetting[k]
=============================================================================
