------------------------------ MODULE Lifecycle ------------------------------
(* The life of the server process: main reads the configuration, opens the    *)
(* telemetry, builds the clients, serves, and on a clean end flushes what the *)
(* telemetry still holds.  main is one goroutine; signals, the exporters in   *)
(* the background and the workers that record requests run beside it.         *)
(*                                                                            *)
(* Each telemetry provider is a buffer of the requests recorded and not yet   *)
(* written: the tracer's batch of spans, and for the meter the requests its   *)
(* last report did not count.  The log file is opened for appending, so that  *)
(* what is written stays across restarts.                                     *)
EXTENDS Integers

CONSTANTS Requests,        \* what is recorded: one per HTTP request
          Environs,        \* the environments the process may be given
          DefaultTimeout,  \* seconds (30)
          MaxLives         \* bound: starts of the process

VARIABLES environ,    \* the environment variables
          stage,      \* where main is
          cfg,        \* the configuration
          base,       \* the host every client was built for
          cancelled,  \* has a signal cancelled ctx?
          code,       \* the exit code
          buffered,   \* recorded and not yet written, per provider
          written,    \* in the log file, per provider
          taken,      \* history: recorded in this life, per provider
          lives       \* starts so far

vars == <<environ, stage, cfg, base, cancelled, code, buffered, written, taken,
          lives>>

Providers == {"tracer", "meter"}
Clients   == {"spot", "futures", "options"}
Empty     == [p \in Providers |-> {}]
NoConfig  == [timeout |-> 0, testnet |-> FALSE]
NoBase    == [k \in Clients |-> "none"]

Running == stage \in {"serve", "tracer", "meter", "close"}

TypeOK ==
  /\ environ \in Environs
  /\ stage \in {"load", "observe", "connect", "serve", "tracer", "meter",
                "close", "ended"}
  /\ cfg \in [timeout : Nat, testnet : BOOLEAN]
  /\ Running => cfg.timeout > 0 /\ base \in [Clients -> {"production", "testnet"}]
  /\ cancelled \in BOOLEAN
  /\ code \in {0, 1}
  /\ buffered \in [Providers -> SUBSET Requests]
  /\ written \in [Providers -> SUBSET Requests]
  /\ \A p \in Providers : buffered[p] \cap written[p] = {}
  /\ taken \in [Providers -> SUBSET Requests]
  /\ lives \in 1 .. MaxLives

Init ==
  /\ environ \in Environs
  /\ stage = "load"
  /\ cfg = NoConfig
  /\ base = NoBase
  /\ cancelled = FALSE
  /\ code = 0
  /\ buffered = Empty
  /\ written = Empty
  /\ taken = Empty
  /\ lives = 1

\* The process ends; what it held is gone.
Exit(n) ==
  /\ stage' = "ended"
  /\ code' = n
  /\ buffered' = Empty
-----------------------------------------------------------------------------
(* The way up.                                                                *)

\* Mutant: any number is taken for a timeout.
AnyTimeout(e) ==
  [timeout |-> IF e.timeout # <<>> THEN e.timeout[1] ELSE DefaultTimeout,
   testnet |-> e.testnet = <<TRUE>>]

\* A setting is the value its text parses to, if there is one.  A timeout that
\* is not positive, and whatever does not parse, leaves the default.
Settings(e) ==
  [timeout |-> IF e.timeout # <<>> /\ e.timeout[1] > 0
               THEN e.timeout[1] ELSE DefaultTimeout,
   testnet |-> e.testnet = <<TRUE>>]

\* The two keys are required.
Load ==
  /\ stage = "load"
  /\ \/ /\ environ.keys
        /\ cfg' = Settings(environ)
        /\ stage' = "observe"
        /\ UNCHANGED <<code, buffered>>
     \/ ~environ.keys /\ Exit(1) /\ UNCHANGED cfg
  /\ UNCHANGED <<environ, base, cancelled, written, taken, lives>>

\* The log file or an exporter may fail to open.
Observe ==
  /\ stage = "observe"
  /\ \/ stage' = "connect" /\ UNCHANGED <<code, buffered>>
     \/ Exit(1)
  /\ UNCHANGED <<environ, cfg, base, cancelled, written, taken, lives>>

Environment(testnet) == IF testnet THEN "testnet" ELSE "production"

\* Mutant: the clients are built before the flags are set.
ClientsFirst(testnet) == [k \in Clients |-> "production"]

\* The SDK's flags are set first, since a client keeps the host that they name
\* when it is built.  There is one options host.
NewClients(testnet) ==
  [k \in Clients |-> IF k = "options" THEN "production" ELSE Environment(testnet)]

Connect ==
  /\ stage = "connect"
  /\ base' = NewClients(cfg.testnet)
  /\ stage' = "serve"
  /\ UNCHANGED <<environ, cfg, cancelled, code, buffered, written, taken, lives>>

optionsGuard == Environment(cfg.testnet) = "production"
-----------------------------------------------------------------------------
(* Serving.                                                                   *)

\* A request leaves the OTel transport: its span ends and it is counted.  A
\* provider that is shut down takes nothing any more.
Up(p) == \/ stage \in {"serve", "tracer"}
         \/ stage = "meter" /\ p = "meter"

Record(r) ==
  /\ LET with(f) == [p \in Providers |-> IF Up(p) THEN f[p] \cup {r} ELSE f[p]]
     IN buffered' = with(buffered) /\ taken' = with(taken)
  /\ UNCHANGED <<environ, stage, cfg, base, cancelled, code, written, lives>>

\* The batcher and the periodic reader write by themselves from time to time.
Export(p) ==
  /\ Up(p) /\ buffered[p] # {}
  /\ written' = [written EXCEPT ![p] = @ \cup buffered[p]]
  /\ buffered' = [buffered EXCEPT ![p] = {}]
  /\ UNCHANGED <<environ, stage, cfg, base, cancelled, code, taken, lives>>

\* SIGINT and SIGTERM cancel ctx, and do nothing else.
Signal ==
  /\ stage # "ended" /\ ~cancelled
  /\ cancelled' = TRUE
  /\ UNCHANGED <<environ, stage, cfg, base, code, buffered, written, taken, lives>>

\* Mutant: the shutdown is not deferred.
JustReturns == Exit(0)

\* After a clean return the deferred calls run, the tracer's shutdown first.
Deferred == stage' = "tracer" /\ UNCHANGED <<code, buffered>>

\* ServeStdio returns; an error leaves by os.Exit, which skips them.
ServeReturns ==
  /\ stage = "serve"
  /\ Deferred \/ Exit(1)
  /\ UNCHANGED <<environ, cfg, base, cancelled, written, taken, lives>>
-----------------------------------------------------------------------------
(* The way down.                                                              *)

\* The shutdown is given ctx: once that is cancelled, it need not finish.
Flush(p, next) ==
  /\ \E lost \in IF cancelled THEN SUBSET buffered[p] ELSE {{}} :
       written' = [written EXCEPT ![p] = @ \cup (buffered[p] \ lost)]
  /\ buffered' = [buffered EXCEPT ![p] = {}]
  /\ stage' = next
  /\ UNCHANGED <<environ, cfg, base, cancelled, code, taken, lives>>

ShutdownTracer == stage = "tracer" /\ Flush("tracer", "meter")
ShutdownMeter  == stage = "meter" /\ Flush("meter", "close")

\* The file is closed and main returns.
CloseLog ==
  /\ stage = "close"
  /\ Exit(0)
  /\ UNCHANGED <<environ, cfg, base, cancelled, written, taken, lives>>

\* The host starts the server again, in the same environment.
Restart ==
  /\ stage = "ended" /\ lives < MaxLives
  /\ lives' = lives + 1
  /\ stage' = "load"
  /\ cfg' = NoConfig
  /\ base' = NoBase
  /\ cancelled' = FALSE
  /\ code' = 0
  /\ taken' = Empty
  /\ UNCHANGED <<environ, buffered, written>>

Main == \/ Load \/ Observe \/ Connect
        \/ ServeReturns \/ ShutdownTracer \/ ShutdownMeter \/ CloseLog
        \/ Restart

Beside == Signal \/ \E p \in Providers : Export(p)

Next == Main \/ Beside \/ \E r \in Requests : Running /\ Record(r)

Spec == Init /\ [][Next]_vars
-----------------------------------------------------------------------------
\* After an end that no error and no signal has forced, each provider has written
\* everything it took, what requests still under way recorded during the
\* shutdown of the other one included: nothing is closed before what feeds it.
LogComplete ==
  stage = "ended" /\ code = 0 /\ ~cancelled =>
    \A p \in Providers : taken[p] \subseteq written[p]

\* architecture_en.md:217 "Flushes OpenTelemetry buffers to prevent losing
\* traces during a shutdown": whenever the shutdown has run, all that was taken
\* is in the file.
ShutdownFlushes ==
  stage = "ended" /\ code = 0 =>
    \A p \in Providers : taken[p] \subseteq written[p]
=============================================================================
