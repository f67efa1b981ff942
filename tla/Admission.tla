------------------------------- MODULE Admission -------------------------------
(***************************************************************************)
(* How much a worker takes on.  The admission loop fetches a message when  *)
(* the shared cooldown is off and fewer investigations run than the target *)
(* allows, and drains what runs when it is told to stop.  The AIMD         *)
(* supervisor moves the target after every window by the share of provider *)
(* attempts that failed, and turns the cooldown on when too many did.      *)
(*                                                                         *)
(* A step is the code between two awaits.  A delivery slot stands for one  *)
(* message after another; rates are percentages; a tick is a second.       *)
(***************************************************************************)
EXTENDS Integers, FiniteSets

CONSTANTS
    Slots,          \* room for deliveries the stream has in store
    MaxPerInstance, \* max_per_instance
    MinInflight,    \* min_inflight
    InitialTarget,  \* initial_target
    Steps,          \* increase_step_min..increase_step_max
    MinSamples,     \* min_samples
    Stable,         \* stable_threshold
    Decrease,       \* decrease_threshold
    Break,          \* break_threshold
    Factor,         \* decrease_factor
    LlmAttempts,    \* llm_max_attempts
    Cooldown,       \* cooldown_seconds
    RetryAfters,    \* what a provider may ask for in Retry-After, in seconds
    MaxSamples,     \* bound: attempts recorded in one window
    MaxBlind        \* bound: reads of one cooldown that Redis does not answer

\* What the settings' validator demands.
ValidSettings ==
    /\ MinInflight \in Nat \ {0} /\ InitialTarget \in Nat /\ MaxPerInstance \in Nat
    /\ MinInflight <= InitialTarget /\ InitialTarget <= MaxPerInstance
    /\ Steps \subseteq Nat \ {0} /\ MinSamples \in Nat \ {0}
    /\ Stable \in 0..100 /\ Decrease \in 0..100 /\ Break \in 0..100
    /\ Stable < Decrease /\ Decrease < Break
    /\ Factor \in 1..99
    /\ LlmAttempts \in Nat \ {0} /\ Cooldown \in Nat \ {0}

ASSUME SettingsAssumption == ValidSettings
ASSUME BoundsAssumption ==
    /\ IsFiniteSet(Slots) /\ RetryAfters \subseteq Nat
    /\ MaxSamples \in Nat /\ MaxBlind \in Nat

VARIABLES
    target,     \* AdmissionState._target
    inflight,   \* AdmissionState._actual_inflight
    window,     \* WindowCounters
    task,       \* what became of the delivery in each slot
    call,       \* the attempt an investigation's call of the provider is in, or 0
    loop,       \* where the admission loop is
    seen,       \* the loop's last look at the cooldown
    aimd,       \* where the AIMD supervisor is, and the cooldown it is to begin
    cooldown,   \* Redis: seconds left of the shared cooldown
    stop,       \* the stop event
    opened,     \* history: admissions since the cooldown began
    blind       \* history: looks at this cooldown that Redis did not answer

taskVars == <<task, call, inflight>>
loopVars == <<loop, seen>>
aimdVars == <<target, aimd>>
cooldownVars == <<cooldown, opened, blind>>
vars == <<taskVars, loopVars, aimdVars, cooldownVars, window, stop>>

NoRetryAfter == -1
EmptyWindow == [total |-> 0, failures |-> 0, retryAfter |-> NoRetryAfter]
Waiting == [at |-> "window", ttl |-> 0]

Init ==
    /\ target = InitialTarget
    /\ inflight = 0
    /\ window = EmptyWindow
    /\ task = [s \in Slots |-> "none"]
    /\ call = [s \in Slots |-> 0]
    /\ loop = "ensuring"
    /\ seen = FALSE
    /\ aimd = Waiting
    /\ cooldown = 0
    /\ stop = FALSE
    /\ opened = 0
    /\ blind = 0

Larger(a, b) == IF a > b THEN a ELSE b
Smaller(a, b) == IF a < b THEN a ELSE b

Live(s) == task[s] \in {"running", "cancelling"}

-----------------------------------------------------------------------------
(* The admission loop. *)

CanAdmit == inflight < Smaller(target, MaxPerInstance)

Goes(at) == loop' = at

\* The stream and its consumer are created or updated.
Ensures ==
    /\ loop = "ensuring"
    /\ loop' \in {"deciding", "failed"}
    /\ UNCHANGED <<taskVars, seen, aimdVars, cooldownVars, window, stop>>

\* The loop asks Redis, which answers with what it has at that moment.
AsksRedis ==
    /\ loop = "deciding" /\ ~stop
    /\ Goes("asked")
    /\ \/ seen' = (cooldown > 0) /\ UNCHANGED blind
       \* Redis fails: the cooldown counts as off.
       \/ /\ blind < MaxBlind
          /\ seen' = FALSE
          /\ blind' = IF cooldown > 0 THEN blind + 1 ELSE blind
    /\ UNCHANGED <<taskVars, aimdVars, cooldown, opened, window, stop>>

\* Fault: a worker with room for more does not wait for the cooldown to end.
HoldsOffWhenFull == seen /\ ~CanAdmit
HoldsOff == seen \/ ~CanAdmit

Decides ==
    /\ loop = "asked"
    /\ Goes(IF HoldsOff THEN "waiting" ELSE "fetching")
    /\ UNCHANGED <<taskVars, seen, aimdVars, cooldownVars, window, stop>>

\* Room, a stop or a second without either.
WaitEnds ==
    /\ loop = "waiting"
    /\ Goes("deciding")
    /\ UNCHANGED <<taskVars, seen, aimdVars, cooldownVars, window, stop>>

\* Nothing to fetch, no connection, or a message that cannot be read and is terminated.
FetchesNothing ==
    /\ loop = "fetching"
    /\ Goes("deciding")
    /\ UNCHANGED <<taskVars, seen, aimdVars, cooldownVars, window, stop>>

FetchFails ==
    /\ loop = "fetching"
    /\ Goes("failed")
    /\ UNCHANGED <<taskVars, seen, aimdVars, cooldownVars, window, stop>>

\* Fault: a message that arrives after the stop is not taken on.
AdmitsUnlessStopped(s) ==
    /\ loop = "fetching" /\ task[s] = "none"
    /\ Goes("deciding")
    /\ task' = [task EXCEPT ![s] = IF stop THEN "lost" ELSE "running"]
    /\ inflight' = IF stop THEN inflight ELSE inflight + 1
    /\ opened' = IF cooldown > 0 THEN opened + 1 ELSE opened
    /\ UNCHANGED <<call, seen, aimdVars, cooldown, blind, window, stop>>

\* A message arrives; nothing is checked again before its task begins.
Admits(s) ==
    /\ loop = "fetching" /\ task[s] = "none"
    /\ Goes("deciding")
    /\ task' = [task EXCEPT ![s] = "running"]
    /\ inflight' = inflight + 1
    /\ opened' = IF cooldown > 0 THEN opened + 1 ELSE opened
    /\ UNCHANGED <<call, seen, aimdVars, cooldown, blind, window, stop>>

BeginsDrain ==
    /\ loop = "deciding" /\ stop
    /\ Goes("draining")
    /\ UNCHANGED <<taskVars, seen, aimdVars, cooldownVars, window, stop>>

DrainEnds ==
    /\ loop = "draining"
    /\ \A s \in Slots : ~Live(s)
    /\ Goes("ended")
    /\ UNCHANGED <<taskVars, seen, aimdVars, cooldownVars, window, stop>>

\* Fault: the drain has no time limit.
GraceNeverEnds == loop = "draining" /\ FALSE

\* The grace period is over: what still runs is cancelled.
GraceEnds ==
    /\ loop = "draining"
    /\ \E s \in Slots : Live(s)
    /\ task' = [s \in Slots |-> IF Live(s) THEN "cancelling" ELSE task[s]]
    /\ Goes("cancelling")
    /\ UNCHANGED <<call, inflight, seen, aimdVars, cooldownVars, window, stop>>

AllCut ==
    /\ loop = "cancelling"
    /\ \A s \in Slots : ~Live(s)
    /\ Goes("releasing")
    /\ UNCHANGED <<taskVars, seen, aimdVars, cooldownVars, window, stop>>

\* The interruption is recorded and the message given back at once; whatever the
\* record does, the message is nakked, and either failure ends the releases.
Releases(s) ==
    /\ loop = "releasing"
    /\ task[s] = "cut"
    /\ \/ task' = [task EXCEPT ![s] = "returned"] /\ UNCHANGED loop
       \/ \E to \in {"cut", "returned"} : task' = [task EXCEPT ![s] = to] /\ Goes("failed")
    /\ UNCHANGED <<call, inflight, seen, aimdVars, cooldownVars, window, stop>>

ReleasesEnd ==
    /\ loop = "releasing"
    /\ \A s \in Slots : task[s] # "cut"
    /\ Goes("ended")
    /\ UNCHANGED <<taskVars, seen, aimdVars, cooldownVars, window, stop>>

Loop ==
    \/ Ensures \/ AsksRedis \/ Decides \/ WaitEnds
    \/ FetchesNothing \/ FetchFails \/ (\E s \in Slots : Admits(s))
    \/ BeginsDrain \/ DrainEnds \/ GraceEnds \/ AllCut
    \/ (\E s \in Slots : Releases(s)) \/ ReleasesEnd

-----------------------------------------------------------------------------
(* The investigations, as far as admission can tell: calls of the provider with a
   few attempts each, and an end. *)

Completed == inflight - 1

\* The handler has answered the message, or has failed.
Finishes(s) ==
    /\ task[s] = "running" /\ call[s] = 0
    /\ task' = [task EXCEPT ![s] = "none"]
    /\ inflight' = Completed
    /\ UNCHANGED <<call, loopVars, aimdVars, cooldownVars, window, stop>>

\* A cancelled task has cleaned up.
IsCut(s) ==
    /\ task[s] = "cancelling"
    /\ task' = [task EXCEPT ![s] = "cut"]
    /\ call' = [call EXCEPT ![s] = 0]
    /\ inflight' = Completed
    /\ UNCHANGED <<loopVars, aimdVars, cooldownVars, window, stop>>

Records(failed, retryAfter) ==
    /\ window.total < MaxSamples
    /\ window' =
         [total |-> window.total + 1,
          failures |-> IF failed THEN window.failures + 1 ELSE window.failures,
          retryAfter |->
            IF failed /\ retryAfter # NoRetryAfter
            THEN Larger(Larger(window.retryAfter, 0), retryAfter)
            ELSE window.retryAfter]

Calls(s) ==
    /\ task[s] = "running" /\ call[s] = 0
    /\ call' = [call EXCEPT ![s] = 1]
    /\ UNCHANGED <<task, inflight, loopVars, aimdVars, cooldownVars, window, stop>>

\* An answer, or an error that is not the provider's: the call is over.
Concludes(s) ==
    /\ task[s] = "running" /\ call[s] > 0
    /\ Records(FALSE, NoRetryAfter)
    /\ call' = [call EXCEPT ![s] = 0]
    /\ UNCHANGED <<task, inflight, loopVars, aimdVars, cooldownVars, stop>>

\* What an attempt that is worth another one may say about when.
TransientFailures == RetryAfters \cup {NoRetryAfter}

\* A timeout, a throttled request or a failing provider: the next attempt, if any.
Throttled(s) ==
    /\ task[s] = "running" /\ call[s] > 0
    /\ \E retryAfter \in TransientFailures : Records(TRUE, retryAfter)
    /\ call' = [call EXCEPT ![s] = IF @ = LlmAttempts THEN 0 ELSE @ + 1]
    /\ UNCHANGED <<task, inflight, loopVars, aimdVars, cooldownVars, stop>>

Investigation(s) ==
    Finishes(s) \/ IsCut(s) \/ Calls(s) \/ Concludes(s) \/ Throttled(s)

-----------------------------------------------------------------------------
(* The AIMD supervisor. *)

RateAbove(threshold) == 100 * window.failures > threshold * window.total
RateBelow(threshold) == 100 * window.failures < threshold * window.total

Breaks == window.total >= MinSamples /\ RateAbove(Break)

Increased(step) == Smaller(target + step, MaxPerInstance)

\* Fault: the decreased target has no floor.
DecreasedFreely == (target * Factor) \div 100
Decreased == Larger(MinInflight, (target * Factor) \div 100)

\* Fault: a window with few attempts never moves the target.
DecidedOnFewer(step) == target

\* Few attempts: the target may grow if all were good.
DecidedOnFew(step) ==
    IF window.total > 0 /\ window.failures = 0 THEN Increased(step) ELSE target

Decided(step) ==
    IF window.total < MinSamples THEN DecidedOnFew(step)
    ELSE IF Breaks THEN MinInflight
    ELSE IF RateAbove(Decrease) THEN Decreased
    ELSE IF RateBelow(Stable) THEN Increased(step)
    ELSE target

\* Seconds of the cooldown: what the provider asks for but no more than the default,
\* or the default with a jitter of a fifth; Redis gets whole seconds, at least one.
LongestTtl == Larger(1, (12 * Cooldown + 9) \div 10)

CooldownTtls ==
    IF window.retryAfter # NoRetryAfter
    THEN {Larger(1, Smaller(window.retryAfter, Cooldown))}
    ELSE Larger(1, (8 * Cooldown + 9) \div 10)..LongestTtl

WindowEnds ==
    /\ aimd.at = "window" /\ ~stop
    /\ \E step \in Steps : target' = Decided(step)
    /\ IF Breaks
       THEN \E ttl \in CooldownTtls : aimd' = [at |-> "activating", ttl |-> ttl]
       ELSE UNCHANGED aimd
    /\ window' = EmptyWindow
    /\ UNCHANGED <<taskVars, loopVars, cooldownVars, stop>>

\* Redis sets the cooldown, whatever is left of one; or the request fails, unnoticed.
Activates ==
    /\ aimd.at = "activating"
    /\ aimd' = Waiting
    /\ cooldown' \in {aimd.ttl, cooldown}
    /\ UNCHANGED <<taskVars, loopVars, target, opened, blind, window, stop>>

AimdEnds ==
    /\ aimd.at = "window" /\ stop
    /\ aimd' = [Waiting EXCEPT !.at = "ended"]
    /\ UNCHANGED <<taskVars, loopVars, target, cooldownVars, window, stop>>

Aimd == WindowEnds \/ Activates \/ AimdEnds

-----------------------------------------------------------------------------
(* Other workers, the clock and the signal. *)

OthersActivate ==
    /\ cooldown' \in 1..LongestTtl
    /\ UNCHANGED <<taskVars, loopVars, aimdVars, opened, blind, window, stop>>

Tick ==
    /\ cooldown > 0
    /\ cooldown' = cooldown - 1
    /\ opened' = IF cooldown = 1 THEN 0 ELSE opened
    /\ blind' = IF cooldown = 1 THEN 0 ELSE blind
    /\ UNCHANGED <<taskVars, loopVars, aimdVars, window, stop>>

\* SIGTERM, or a supervisor that has ended.
Stops ==
    /\ ~stop
    /\ stop' = TRUE
    /\ UNCHANGED <<taskVars, loopVars, aimdVars, cooldownVars, window>>

Next ==
    \/ Loop
    \/ \E s \in Slots : Investigation(s)
    \/ Aimd
    \/ OthersActivate \/ Tick \/ Stops

Spec == Init /\ [][Next]_vars

-----------------------------------------------------------------------------
(* Correctness. *)

LoopStates ==
    {"ensuring", "deciding", "asked", "waiting", "fetching", "draining",
     "cancelling", "releasing", "ended", "failed"}

\* The types of the loop's and the supervisor's state.
TypeOK ==
    /\ target \in Nat /\ inflight \in Nat
    /\ window \in [total : Nat, failures : Nat, retryAfter : Nat \cup {NoRetryAfter}]
    /\ task \in [Slots -> {"none", "running", "cancelling", "cut", "returned"}]
    /\ call \in [Slots -> 0..LlmAttempts]
    /\ loop \in LoopStates
    /\ aimd \in [at : {"window", "activating", "ended"}, ttl : Nat]
    /\ cooldown \in Nat /\ opened \in Nat /\ blind \in Nat
    /\ seen \in BOOLEAN /\ stop \in BOOLEAN

\* Over any sequence of windows the target keeps between its floor and the limit,
\* and although it moves while a message is being fetched, the counter always tells
\* the investigations that run, which are never more than the limit.
Bounded ==
    /\ target \in MinInflight..MaxPerInstance
    /\ inflight = Cardinality({s \in Slots : Live(s)})
    /\ inflight <= MaxPerInstance

\* A cooldown lets the one investigation through for which the loop had already
\* decided, and one for each look at it that Redis did not answer.
CooldownHolds == opened <= 1 + blind

\* A loop that ends has left nothing running and nothing unanswered: deliveries that
\* outlived the grace period are recorded as interrupted and given back.
NothingAbandoned ==
    loop = "ended" => \A s \in Slots : task[s] \in {"none", "returned"}

\* Once the provider has stopped failing, and as long as it is asked again and again,
\* the target returns to the limit and stays there, from wherever the breaks and
\* decreases before have left it, or the worker is stopped.
TargetRecovers ==
    (<>[][window'.failures <= window.failures]_window /\ []<>(window.total > 0))
        => <>[](target = MaxPerInstance \/ stop)

=============================================================================
