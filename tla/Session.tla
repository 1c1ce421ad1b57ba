------------------------------- MODULE Session -------------------------------
(* The account tools inside the life of the server that runs them: calls      *)
(* begin only while main serves, run on while it shuts down, leave a record   *)
(* in its telemetry, go to the hosts its clients were built for, and are cut  *)
(* off when it ends.  Account and Lifecycle are each unchanged; a step here   *)
(* is one of either or one of both.                                           *)
EXTENDS Account, Sequences

CONSTANTS Environs, DefaultTimeout, MaxLives

\* A setting is a sequence of no value or one.
ASSUME SessionAssumption ==
  /\ Environs \subseteq [keys : BOOLEAN, testnet : Seq(BOOLEAN), timeout : Seq(Int)]
  /\ DefaultTimeout \in Nat \ {0}
  /\ MaxLives \in Nat \ {0}

VARIABLES environ, stage, cfg, base, cancelled, code, buffered, written, taken,
          lives,
          reached    \* history: the kind of host every call's request went to

process == <<environ, stage, cfg, base, cancelled, code, buffered, written,
             taken, lives>>

L == INSTANCE Lifecycle WITH Requests <- Calls

Vars == <<process, account, reached>>

SessionInit == Init /\ L!Init /\ reached = [c \in Calls |-> "none"]

\* The client a tool's method of the adapter uses.
Client(call) == CASE call.op = "transfer" -> "spot"
                  [] call.op = "set"      -> "futures"
                  [] call.op = "other"    -> "options"

\* The options tools: none of them reaches its client past the guard.
use_options(c) ==
  LET call == [op |-> "other"]
  IN IF L!optionsGuard THEN Send(c, call) ELSE Error(c, call)

Tool(c) == transfer_funds(c) \/ set_leverage(c) \/ set_margin_mode(c) \/ use_options(c)

\* A call goes into the chain,
Begin(c) ==
  /\ stage = "serve"
  /\ Tool(c) /\ pending'[c]
  /\ reached' = [reached EXCEPT ![c] = base[Client(ask'[c])]]
  /\ UNCHANGED process

\* Calls the adapter turns down by itself.
TurnedDown(call) ==
  \/ call.op = "transfer" /\ resolveTransferType(call.from, call.to) = Unsupported
  \/ call.op = "other" /\ ~L!optionsGuard

\* or is refused, by the adapter or by the breaker, which sits below the OTel
\* transport.
Refused(c) ==
  /\ stage = "serve"
  /\ Tool(c) /\ ~pending'[c]
  /\ IF TurnedDown(ask'[c]) THEN UNCHANGED process ELSE L!Record(c)
  /\ UNCHANGED reached

\* The answer comes up through the OTel transport to the caller.
Answered(c) == L!Running /\ Finish(c) /\ L!Record(c) /\ UNCHANGED reached

Executed(c) == Execute(c) /\ UNCHANGED <<process, reached>>

\* main goes on; where it ends, the calls under way end with it.
Main ==
  /\ L!Main
  /\ IF stage' = "ended" THEN CutOff ELSE UNCHANGED account
  /\ UNCHANGED reached

Beside == L!Beside /\ UNCHANGED <<account, reached>>

SessionNext == \/ Main \/ Beside
               \/ \E c \in Calls : \/ Begin(c) \/ Refused(c)
                                   \/ Answered(c) \/ Executed(c)

SessionSpec == SessionInit /\ [][SessionNext]_Vars
-----------------------------------------------------------------------------
SessionTypeOK == TypeOK /\ L!TypeOK

LogComplete == L!LogComplete

ShutdownFlushes == L!ShutdownFlushes

\* README.md:96 "Enables Testnet for Spot and Futures": every request a tool
\* sends, in every life of the server and through every client, goes to the
\* environment the operator has set and get_server_info reports, and nothing
\* meant for the testnet is done to the real account.
EnvironmentHonest ==
  \A c \in Calls : reached[c] # "none" =>
    reached[c] = L!Environment(environ.testnet = <<TRUE>>)
=============================================================================
