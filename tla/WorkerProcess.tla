----------------------------- MODULE WorkerProcess -----------------------------
(***************************************************************************)
(* A worker process from its start to its exit: telemetry is configured,   *)
(* the resources are acquired one after the other, the supervisors run     *)
(* until a signal or the failure of one of them, and everything is given   *)
(* back in the opposite order.  What the supervisors do is Admission; the  *)
(* reconciler's passes are modelled in InvestigationDelivery.              *)
(***************************************************************************)
EXTENDS Admission

VARIABLES
    phase,      \* where the process is
    provider,   \* the telemetry provider of each signal
    telemetry,  \* platform_observability: "unset", "active" or "closed"
    held,       \* how many of the resources are held
    advisories, \* the subscription to max-delivery advisories is open
    reconciler  \* where the reconciler's supervisor is

processVars == <<phase, provider, telemetry, held, advisories, reconciler>>
allVars == <<vars, processVars>>

Signals == {"traces", "metrics", "logs"}

\* In the order in which they are acquired.
Resources == <<"platform_engine", "ctc_engine", "redis", "http_client", "nats_client">>
Acquirable == 5

ProcessInit ==
    /\ Init
    /\ phase = "configuring"
    /\ provider = [g \in Signals |-> "none"]
    /\ telemetry = "unset"
    /\ held = 0
    /\ advisories = FALSE
    /\ reconciler = "pass"

Enters(p) == phase' = p

-----------------------------------------------------------------------------
(* Telemetry. *)

\* One signal's provider is built.
BuildsProvider(g) ==
    /\ phase = "configuring"
    /\ provider[g] = "none"
    /\ provider' = [provider EXCEPT ![g] = "built"]
    /\ UNCHANGED <<vars, phase, telemetry, held, advisories, reconciler>>

\* All three are registered and configured as the process's own.
RegistersProviders ==
    /\ phase = "configuring"
    /\ \A g \in Signals : provider[g] = "built"
    /\ telemetry' = "active"
    /\ Enters("logging")
    /\ UNCHANGED <<vars, provider, held, advisories, reconciler>>

Disposed == [g \in Signals |-> IF provider[g] = "built" THEN "disposed" ELSE provider[g]]

\* Building or registering fails: what was built is disposed of before the error is raised.
ConfiguringFails ==
    /\ phase = "configuring"
    /\ provider' = Disposed
    /\ telemetry' \in {"unset", "closed"}
    /\ Enters("exiting")
    /\ UNCHANGED <<vars, held, advisories, reconciler>>

\* No endpoint, no export.
ExportsNothing ==
    /\ phase = "configuring"
    /\ \A g \in Signals : provider[g] = "none"
    /\ Enters("logging")
    /\ UNCHANGED <<vars, provider, telemetry, held, advisories, reconciler>>

\* Every provider is shut down once, whoever asks how often.
ShutDown ==
    IF telemetry = "active"
    THEN provider' = Disposed /\ telemetry' = "closed"
    ELSE UNCHANGED <<provider, telemetry>>

ConfiguresLogging ==
    /\ phase = "logging"
    /\ Enters("acquiring")
    /\ UNCHANGED <<vars, provider, telemetry, held, advisories, reconciler>>

LoggingFails ==
    /\ phase = "logging"
    /\ ShutDown
    /\ Enters("exiting")
    /\ UNCHANGED <<vars, held, advisories, reconciler>>

-----------------------------------------------------------------------------
(* Resources. *)

Acquires ==
    /\ phase = "acquiring" /\ held < Acquirable
    /\ held' = held + 1
    /\ UNCHANGED <<vars, phase, provider, telemetry, advisories, reconciler>>

\* A resource or the composition fails: what is held is given back.
AcquiringFails ==
    /\ phase = "acquiring"
    /\ Enters("unwinding")
    /\ UNCHANGED <<vars, provider, telemetry, held, advisories, reconciler>>

\* The supervisors and what they share are put together.
Composes ==
    /\ phase = "acquiring" /\ held = Acquirable
    /\ Enters("subscribing")
    /\ UNCHANGED <<vars, provider, telemetry, held, advisories, reconciler>>

\* The exit stack closes the latest resource, and goes on even if that fails.
GivesBack ==
    /\ phase = "unwinding" /\ held > 0
    /\ held' = held - 1
    /\ UNCHANGED <<vars, phase, provider, telemetry, advisories, reconciler>>

\* The callback at the bottom of the stack shuts the telemetry down.
Unwound ==
    /\ phase = "unwinding" /\ held = 0
    /\ ShutDown
    /\ Enters("exiting")
    /\ UNCHANGED <<vars, held, advisories, reconciler>>

\* An entry point that could not get to run() shuts the telemetry down once more.
Exits ==
    /\ phase = "exiting"
    /\ ShutDown
    /\ Enters("exited")
    /\ UNCHANGED <<vars, held, advisories, reconciler>>

-----------------------------------------------------------------------------
(* The run. *)

Subscribes ==
    /\ phase = "subscribing"
    /\ advisories' = TRUE
    /\ Enters("running")
    /\ UNCHANGED <<vars, provider, telemetry, held, reconciler>>

\* The subscription fails before the supervisors and the clean-up begin.
SubscribingFails ==
    /\ phase = "subscribing"
    /\ Enters("crashed")
    /\ UNCHANGED <<vars, provider, telemetry, held, advisories, reconciler>>

Signalled ==
    /\ phase \in {"subscribing", "running"}
    /\ Stops
    /\ UNCHANGED processVars

\* The admission loop has raised: the others are told to stop.
FailureStops ==
    /\ phase = "running" /\ loop = "failed"
    /\ Stops
    /\ UNCHANGED processVars

\* The supervisors run from here on; tasks go on until the process exits.
LoopRuns == phase = "running" /\ Loop /\ UNCHANGED processVars
AimdRuns == phase = "running" /\ Aimd /\ UNCHANGED processVars
Investigates(s) ==
    /\ phase \in {"running", "unsubscribing", "unwinding"}
    /\ Investigation(s)
    /\ UNCHANGED processVars
World == (OthersActivate \/ Tick) /\ UNCHANGED processVars

Reconciles ==
    /\ phase = "running"
    /\ \/ reconciler = "waiting" /\ ~stop /\ reconciler' = "pass"
       \/ reconciler = "pass" /\ reconciler' = "waiting"
       \/ reconciler = "waiting" /\ stop /\ reconciler' = "ended"
    /\ UNCHANGED <<vars, phase, provider, telemetry, held, advisories>>

\* Fault: the first supervisor's end is waited for, not that of the others.
OneHasEnded == stop /\ reconciler = "ended"
AllHaveEnded == stop /\ loop \in {"ended", "failed"} /\ aimd.at = "ended" /\ reconciler = "ended"

Closes ==
    /\ phase = "running" /\ AllHaveEnded
    /\ Enters("unsubscribing")
    /\ UNCHANGED <<vars, provider, telemetry, held, advisories, reconciler>>

\* The subscription ends, or fails to; the exit stack is unwound all the same.
Unsubscribes ==
    /\ phase = "unsubscribing"
    /\ advisories' \in {FALSE, TRUE}
    /\ Enters("unwinding")
    /\ UNCHANGED <<vars, provider, telemetry, held, reconciler>>

Starting ==
    \/ (\E g \in Signals : BuildsProvider(g)) \/ RegistersProviders
    \/ ConfiguringFails \/ ExportsNothing \/ ConfiguresLogging \/ LoggingFails
    \/ Acquires \/ AcquiringFails \/ Composes \/ Subscribes \/ SubscribingFails

Ending == Closes \/ Unsubscribes \/ GivesBack \/ Unwound \/ Exits

Over == phase \in {"exited", "crashed"}

ProcessNext ==
    \/ Starting \/ Ending
    \/ Signalled \/ FailureStops
    \/ LoopRuns \/ AimdRuns \/ Reconciles
    \/ (\E s \in Slots : Investigates(s))
    \/ World

ProcessSpec == ProcessInit /\ [][ProcessNext]_allVars

\* Awaits with a timeout, cancelled tasks and the clean-up of the process come to an
\* end; an investigation need not, and neither signals nor messages need come.
FairProcess ==
    /\ ProcessSpec
    /\ WF_allVars(Starting) /\ WF_allVars(Ending) /\ WF_allVars(FailureStops)
    /\ WF_allVars(LoopRuns) /\ WF_allVars(AimdRuns) /\ WF_allVars(Reconciles)
    /\ \A s \in Slots : WF_allVars(phase = "running" /\ IsCut(s) /\ UNCHANGED processVars)

-----------------------------------------------------------------------------
(* Correctness. *)

\* As long as an investigation runs the resources it works with are held, unless the
\* admission loop has failed without a drain; and a process that exits has given
\* back every resource and shut down every provider it has built, wherever its start
\* or its end has failed.
ResourcesOutlast ==
    /\ (\E s \in Slots : Live(s)) /\ loop # "failed" => held = Acquirable /\ advisories
    /\ phase = "exited" => held = 0 /\ \A g \in Signals : provider[g] # "built"

\* A process told to stop, or whose admission fails, exits, whatever its
\* investigations are waiting for.
StopIsObeyed == (stop \/ loop = "failed") ~> Over

=============================================================================
