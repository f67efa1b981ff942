------------------------------ MODULE Orchestrator ------------------------------
(***************************************************************************)
(* The orchestrator's process: telemetry, the runtime's resources on an    *)
(* exit stack, the outbox publisher's loop with its backoff and its stop,  *)
(* and the calls the server takes while it runs.  The passes of the        *)
(* publisher are module Outbox, the authentication of a call is            *)
(* SigningKeys, what an admitted call does is Acceptance and ReadApi.      *)
(***************************************************************************)
EXTENDS SigningKeys

CONSTANTS
    FloatExponent,  \* 2^FloatExponent is no float any more: 1024
    MaxFailures     \* bound: passes of the publisher that fail in a row

ASSUME LoopAssumption == FloatExponent \in Nat \ {0} /\ MaxFailures \in Nat

VARIABLES
    phase,      \* where the process is
    depth,      \* callbacks on the runtime's exit stack
    loop,       \* where the publisher's task is
    failures,   \* consecutive_failures
    stopping    \* the publisher's stop event

processVars == <<phase, depth, loop, failures, stopping>>
vars == <<keyVars, processVars>>

\* The runtime's callbacks in the order they are pushed.
Telemetry == 1
Engine == 2
CtcEngine == 3
HttpClient == 4
Publisher == 5
Supervisor == 6

Init ==
    /\ KeysInit
    /\ phase = "importing"
    /\ depth = 0
    /\ loop = "none" /\ failures = 0 /\ stopping = FALSE

-----------------------------------------------------------------------------
(* Start and stop. *)

\* The module configures telemetry; what fails after that shuts it down again.
Imports ==
    /\ phase = "importing"
    /\ phase' \in {"starting", "exited"}
    /\ UNCHANGED <<keyVars, depth, loop, failures, stopping>>

Acquires ==
    /\ phase = "starting" /\ depth < Supervisor
    /\ depth' = depth + 1
    /\ UNCHANGED <<keyVars, phase, loop, failures, stopping>>

\* The settings or secrets cannot be had, when there is no stack yet and telemetry is
\* left as it is; or an engine, the client or the composition cannot be built.
AcquiringFails ==
    /\ phase = "starting" /\ depth \in 0 .. HttpClient
    /\ phase' = "closing"
    /\ UNCHANGED <<keyVars, depth, loop, failures, stopping>>

StartsPublisher ==
    /\ phase = "starting" /\ depth = Supervisor
    /\ phase' = "serving"
    /\ loop' = "pass"
    /\ UNCHANGED <<keyVars, depth, failures, stopping>>

\* The server takes no more calls and waits for those it has.
Signalled ==
    /\ phase = "serving"
    /\ phase' = "leaving"
    /\ UNCHANGED <<keyVars, depth, loop, failures, stopping>>

LastCallEnds ==
    /\ phase = "leaving" /\ \A c \in Calls : at[c] = "none"
    /\ phase' = "closing"
    /\ UNCHANGED <<keyVars, depth, loop, failures, stopping>>

\* Fault: the loop is told to stop and not waited for.
AsksOnly ==
    /\ phase = "closing" /\ depth = Supervisor
    /\ stopping' = TRUE
    /\ depth' = depth - 1
    /\ UNCHANGED <<keyVars, phase, loop, failures>>

\* The supervisor's stop: first the event,
AsksToStop ==
    /\ phase = "closing" /\ depth = Supervisor /\ ~stopping
    /\ stopping' = TRUE
    /\ UNCHANGED <<keyVars, phase, depth, loop, failures>>

\* then the end of the loop, or a cancellation after five seconds.
IsCancelled ==
    /\ stopping /\ loop \in {"pass", "waiting"}
    /\ loop' = "ended"
    /\ UNCHANGED <<keyVars, phase, depth, failures, stopping>>

Pops ==
    /\ phase = "closing" /\ depth > 0
    /\ depth = Supervisor => stopping /\ loop \in {"none", "ended"}
    /\ depth' = depth - 1
    /\ UNCHANGED <<keyVars, phase, loop, failures, stopping>>

Exits ==
    /\ phase = "closing" /\ depth = 0
    /\ phase' = "exited"
    /\ UNCHANGED <<keyVars, depth, loop, failures, stopping>>

-----------------------------------------------------------------------------
(* The publisher's loop. *)

\* After a pass that selected nothing, and after one that failed, the loop waits.
NextRound == IF stopping THEN "ended" ELSE "pass"

PassDone ==
    /\ loop = "pass"
    /\ failures' = 0
    /\ loop' \in {NextRound, "waiting"}
    /\ UNCHANGED <<keyVars, phase, depth, stopping>>

\* The backoff is computed before it is capped: an exponent that is too large ends
\* the task.
Backoff(n) == IF n - 1 < FloatExponent THEN "waiting" ELSE "ended"

PassFails ==
    /\ loop = "pass" /\ failures < MaxFailures
    /\ failures' = failures + 1
    /\ loop' = Backoff(failures')
    /\ UNCHANGED <<keyVars, phase, depth, stopping>>

WaitEnds ==
    /\ loop = "waiting"
    /\ loop' = NextRound
    /\ UNCHANGED <<keyVars, phase, depth, failures, stopping>>

Runs ==
    \/ Imports \/ Acquires \/ AcquiringFails \/ StartsPublisher
    \/ Signalled \/ LastCallEnds \/ AsksToStop \/ IsCancelled \/ Pops \/ Exits
    \/ PassDone \/ PassFails \/ WaitEnds

Serves(c) == (phase = "serving" /\ Arrives(c)) \/ Authenticates(c) \/ Leaves(c)

\* The issuer and the clock matter while there are calls.
Outside == phase = "serving" /\ (KeysTick \/ \E k \in Keys : Rotates(k))

Next ==
    \/ Runs
    \/ /\ \/ \E c \in Calls : Serves(c)
          \/ Outside
       /\ UNCHANGED processVars

Spec == Init /\ [][Next]_vars

-----------------------------------------------------------------------------
(* Correctness. *)

TypeOK ==
    /\ listed \subseteq Keys /\ cached \subseteq Keys
    /\ ttl \in 0 .. CacheTtl /\ pause \in 0 .. Pause /\ discovered \in BOOLEAN
    /\ lock \in Calls \cup {NoCall} /\ waited \in 0 .. Latency
    /\ at \in [Calls -> Answers \cup {"none", "arrived", "queued", "discovering", "fetching", "answering"}]
    /\ kid \in [Calls -> Keys] /\ forced \in [Calls -> BOOLEAN]
    /\ reply \in [Calls -> SUBSET Keys]
    /\ turned \in [Keys -> 0 .. LongAgo]
    /\ phase \in {"importing", "starting", "serving", "leaving", "closing", "exited"}
    /\ depth \in 0 .. Supervisor
    /\ loop \in {"none", "pass", "waiting", "ended"}
    /\ failures \in 0 .. MaxFailures /\ stopping \in BOOLEAN

\* Whatever fails while the process starts and whenever it is told to stop: the HTTP
\* client lives while a call fetches keys, both engines while a call is at work, the
\* engine and the connection to the broker while a pass is; and nothing on the stack is left open.
ClosedAfterUse ==
    /\ \A c \in Calls :
         /\ at[c] \in {"discovering", "fetching", "answering"} => depth >= HttpClient
         /\ at[c] = "admitted" => depth >= CtcEngine
    /\ loop = "pass" => depth >= Publisher
    /\ phase = "exited" => depth = 0

\* The publisher's loop survives passes that fail: it runs while the process serves.
PublisherSurvives == phase = "serving" => loop # "ended"
=============================================================================
