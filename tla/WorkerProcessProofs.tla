-------------------------- MODULE WorkerProcessProofs --------------------------
(***************************************************************************)
(* Proofs about WorkerProcess and Admission, for every number of           *)
(* deliveries and every setting the validator accepts.  A process runs     *)
(* nothing but steps of Admission, so what is shown for Admission holds    *)
(* in it.                                                                  *)
(***************************************************************************)
EXTENDS WorkerProcess, FiniteSetTheorems, TLAPS

\* The target between floor and limit, whatever the windows were.
TargetInRange == target \in MinInflight..MaxPerInstance

\* The counter tells what runs; a message is fetched only below the limit.
LiveTasks == {s \in Slots : Live(s)}
Counted ==
    /\ inflight = Cardinality(LiveTasks)
    /\ inflight <= MaxPerInstance
    /\ loop = "fetching" => inflight < MaxPerInstance

\* A decision to fetch that is still open.
Open == loop \in {"asked", "fetching"} /\ ~seen

\* Admissions of this cooldown, and one more that is decided on, are covered.
CooldownCovered ==
    /\ opened <= 1 + blind
    /\ Open => opened <= blind
    /\ cooldown = 0 => opened = 0 /\ blind = 0
    /\ loop = "fetching" => ~seen
    /\ aimd.at = "activating" => aimd.ttl > 0

\* Where the loop is tells what may have become of the deliveries.
TasksAt(at) ==
    CASE at = "failed" -> {"none", "running", "cancelling", "cut", "returned"}
      [] at = "cancelling" -> {"none", "cancelling", "cut"}
      [] at = "releasing" -> {"none", "cut", "returned"}
      [] at = "ended" -> {"none", "returned"}
      [] OTHER -> {"none", "running"}
InStep == \A s \in Slots : task[s] \in TasksAt(loop)

-----------------------------------------------------------------------------
(* The AIMD target. *)

\* A share below one hundred per cent is no more than the whole.
LEMMA Share ==
    ASSUME NEW n \in Nat, NEW f \in 1..99
    PROVE  (n * f) \div 100 \in Nat /\ (n * f) \div 100 <= n
<1>1. n * f \in Nat /\ n * f <= 99 * n
  <2>1. n * f \in Nat
    OBVIOUS
  <2>2. n * (99 - f) \in Nat
    OBVIOUS
  <2>3. n * (99 - f) = 99 * n - n * f
    OBVIOUS
  <2> QED BY <2>1, <2>2, <2>3
<1> DEFINE m == n * f
<1>2. m \in Nat /\ m <= 99 * n
  BY <1>1
<1> HIDE DEF m
<1>3. m \div 100 \in Nat /\ m \div 100 <= n
  BY <1>2
<1> QED BY <1>3 DEF m

\* Whatever a window decides stays between the floor and the limit.
LEMMA DecidedInRange ==
    ASSUME TargetInRange, NEW step \in Steps
    PROVE  Decided(step) \in MinInflight..MaxPerInstance
<1> USE SettingsAssumption DEF ValidSettings, TargetInRange
<1>1. Increased(step) \in MinInflight..MaxPerInstance
  BY DEF Increased, Smaller
<1>2. Decreased \in MinInflight..MaxPerInstance
  <2>1. target \in Nat /\ Factor \in 1..99
    OBVIOUS
  <2>2. (target * Factor) \div 100 \in Nat /\ (target * Factor) \div 100 <= target
    BY <2>1, Share
  <2> DEFINE share == (target * Factor) \div 100
  <2>3. share \in Nat /\ share <= target
    BY <2>2
  <2> HIDE DEF share
  <2>4. Larger(MinInflight, share) \in MinInflight..MaxPerInstance
    BY <2>3 DEF Larger
  <2> QED BY <2>4 DEF Decreased, share
<1>3. target \in MinInflight..MaxPerInstance /\ MinInflight \in MinInflight..MaxPerInstance
  OBVIOUS
<1>4. Decided(step) \in {Increased(step), Decreased, target, MinInflight}
  BY DEF Decided, DecidedOnFew
<1> QED BY <1>1, <1>2, <1>3, <1>4

\* Only the end of a window moves the target.
LEMMA NextInRange == TargetInRange /\ [Next]_vars => TargetInRange'
<1> SUFFICES ASSUME TargetInRange, [Next]_vars PROVE TargetInRange'
  OBVIOUS
<1>1. CASE WindowEnds
  <2>1. PICK step \in Steps : target' = Decided(step)
    BY <1>1 DEF WindowEnds
  <2>2. target' \in MinInflight..MaxPerInstance
    BY <2>1, DecidedInRange
  <2> QED BY <2>2 DEF TargetInRange
<1>2. CASE UNCHANGED target
  BY <1>2 DEF TargetInRange
<1>3. Loop => UNCHANGED target
  BY DEF Loop, Ensures, AsksRedis, Decides, WaitEnds, FetchesNothing, FetchFails, Admits,
         BeginsDrain, DrainEnds, GraceEnds, AllCut, Releases, ReleasesEnd, aimdVars
<1>4. ASSUME NEW s \in Slots, Investigation(s) PROVE UNCHANGED target
  BY <1>4 DEF Investigation, Finishes, IsCut, Calls, Concludes, Throttled, aimdVars
<1>5. Activates \/ AimdEnds \/ OthersActivate \/ Tick \/ Stops \/ UNCHANGED vars => UNCHANGED target
  BY DEF Activates, AimdEnds, OthersActivate, Tick, Stops, aimdVars, vars
<1> QED BY <1>1, <1>2, <1>3, <1>4, <1>5 DEF Next, Aimd

-----------------------------------------------------------------------------
(* Types. *)

\* The types hold initially.
LEMMA InitTyped == Init => TypeOK
<1> SUFFICES ASSUME Init PROVE TypeOK
  OBVIOUS
<1> USE SettingsAssumption DEF Init, ValidSettings
<1>1. /\ target \in Nat /\ inflight \in Nat
      /\ cooldown \in Nat /\ opened \in Nat /\ blind \in Nat
  OBVIOUS
<1>2. window \in [total : Nat, failures : Nat, retryAfter : Nat \cup {NoRetryAfter}]
  BY DEF EmptyWindow
<1>3. task \in [Slots -> {"none", "running", "cancelling", "cut", "returned"}]
  OBVIOUS
<1>4. call \in [Slots -> 0..LlmAttempts]
  OBVIOUS
<1>5. loop \in LoopStates /\ aimd \in [at : {"window", "activating", "ended"}, ttl : Nat]
  BY DEF LoopStates, Waiting
<1>6. seen \in BOOLEAN /\ stop \in BOOLEAN
  BY DEF Init
<1> QED BY <1>1, <1>2, <1>3, <1>4, <1>5, <1>6 DEF TypeOK

\* The steps of the admission loop keep the types.
LEMMA LoopTyped == TypeOK /\ Loop => TypeOK'
<1> SUFFICES ASSUME TypeOK, Loop PROVE TypeOK'
  OBVIOUS
<1> USE DEF TypeOK, Goes, LoopStates, taskVars, aimdVars, cooldownVars
<1>1. CASE Ensures
  BY <1>1 DEF Ensures
<1>2. CASE AsksRedis
  <2>1. seen' \in BOOLEAN
    <3>1. (cooldown > 0) \in BOOLEAN
      OBVIOUS
    <3> QED BY <1>2, <3>1, Zenon DEF AsksRedis
  <2>2. blind' = blind \/ blind' = blind + 1
    BY <1>2, Zenon DEF AsksRedis
  <2>3. blind' \in Nat
    BY <2>2
  <2>4. loop' = "asked" /\ UNCHANGED <<taskVars, aimdVars, cooldown, opened, window, stop>>
    BY <1>2 DEF AsksRedis
  <2> QED BY <2>1, <2>3, <2>4
<1>3. CASE Decides
  BY <1>3 DEF Decides
<1>4. CASE WaitEnds \/ FetchesNothing \/ FetchFails
  BY <1>4 DEF WaitEnds, FetchesNothing, FetchFails
<1>5. ASSUME NEW s \in Slots, Admits(s) PROVE TypeOK'
  BY <1>5 DEF Admits
<1>6. CASE BeginsDrain \/ DrainEnds \/ AllCut \/ ReleasesEnd
  BY <1>6 DEF BeginsDrain, DrainEnds, AllCut, ReleasesEnd
<1>7. CASE GraceEnds
  BY <1>7 DEF GraceEnds
<1>8. ASSUME NEW s \in Slots, Releases(s) PROVE TypeOK'
  <2>1. task' \in [Slots -> {"none", "running", "cancelling", "cut", "returned"}]
    BY <1>8 DEF Releases
  <2>2. loop' \in LoopStates
    BY <1>8 DEF Releases
  <2> QED BY <1>8, <2>1, <2>2 DEF Releases
<1> QED BY <1>1, <1>2, <1>3, <1>4, <1>5, <1>6, <1>7, <1>8 DEF Loop

\* An attempt is recorded in the window.
LEMMA RecordsTyped ==
    ASSUME NEW failed \in BOOLEAN, NEW after \in Nat \cup {NoRetryAfter},
           TypeOK, Records(failed, after)
    PROVE  window' \in [total : Nat, failures : Nat, retryAfter : Nat \cup {NoRetryAfter}]
<1>1. window.total \in Nat /\ window.failures \in Nat /\ window.retryAfter \in Nat \cup {NoRetryAfter}
  BY DEF TypeOK
<1>2. after # NoRetryAfter => Larger(Larger(window.retryAfter, 0), after) \in Nat
  BY <1>1 DEF Larger, NoRetryAfter
<1> QED BY <1>1, <1>2 DEF Records

\* The steps of an investigation keep the types; one that runs is counted.
LEMMA InvestigationTyped ==
    ASSUME NEW s \in Slots, TypeOK, Investigation(s), Live(s) => inflight > 0
    PROVE  TypeOK'
<1> USE DEF TypeOK, loopVars, aimdVars, cooldownVars
<1>1. CASE Finishes(s)
  BY <1>1 DEF Finishes, Completed, Live
<1>2. CASE IsCut(s)
  <2>1. call' \in [Slots -> 0..LlmAttempts]
    BY <1>2, SettingsAssumption DEF IsCut, ValidSettings
  <2> QED BY <1>2, <2>1 DEF IsCut, Completed, Live
<1>3. CASE Calls(s)
  <2>1. call' \in [Slots -> 0..LlmAttempts]
    BY <1>3, SettingsAssumption DEF Calls, ValidSettings
  <2> QED BY <1>3, <2>1 DEF Calls
<1>4. CASE Concludes(s)
  <2>1. window' \in [total : Nat, failures : Nat, retryAfter : Nat \cup {NoRetryAfter}]
    BY <1>4, RecordsTyped DEF Concludes
  <2>2. call' \in [Slots -> 0..LlmAttempts]
    BY <1>4, SettingsAssumption DEF Concludes, ValidSettings
  <2> QED BY <1>4, <2>1, <2>2 DEF Concludes
<1>5. CASE Throttled(s)
  <2>1. PICK after \in TransientFailures : Records(TRUE, after)
    BY <1>5 DEF Throttled
  <2>2. after \in Nat \cup {NoRetryAfter}
    BY <2>1, BoundsAssumption DEF TransientFailures
  <2>3. window' \in [total : Nat, failures : Nat, retryAfter : Nat \cup {NoRetryAfter}]
    BY <2>1, <2>2, RecordsTyped
  <2>4. call' \in [Slots -> 0..LlmAttempts]
    BY <1>5, SettingsAssumption DEF Throttled, ValidSettings
  <2> QED BY <1>5, <2>3, <2>4 DEF Throttled
<1> QED BY <1>1, <1>2, <1>3, <1>4, <1>5 DEF Investigation

\* A cooldown that begins lasts at least a second.
LEMMA TtlTyped ==
    ASSUME TypeOK, NEW ttl \in CooldownTtls
    PROVE  ttl \in Nat \ {0}
<1>1. Cooldown \in Nat \ {0} /\ window.retryAfter \in Nat \cup {NoRetryAfter}
  BY SettingsAssumption DEF ValidSettings, TypeOK
<1>2. CASE window.retryAfter # NoRetryAfter
  BY <1>1, <1>2 DEF CooldownTtls, Larger, Smaller
<1>3. CASE window.retryAfter = NoRetryAfter
  <2> DEFINE least == (8 * Cooldown + 9) \div 10
             most == (12 * Cooldown + 9) \div 10
  <2>1. least \in Nat /\ most \in Nat
    BY <1>1
  <2>2. ttl \in Larger(1, least)..Larger(1, most)
    BY <1>3 DEF CooldownTtls, LongestTtl
  <2> HIDE DEF least, most
  <2> QED BY <2>1, <2>2 DEF Larger
<1> QED BY <1>2, <1>3

\* The steps of the supervisor and of the world keep the types.
LEMMA OthersTyped ==
    ASSUME TypeOK, TargetInRange', Aimd \/ OthersActivate \/ Tick \/ Stops
    PROVE  TypeOK'
<1> USE DEF taskVars, loopVars, cooldownVars
<1>1. CASE WindowEnds
  <2>1. target' \in Nat
    BY SettingsAssumption DEF ValidSettings, TargetInRange
  <2>2. aimd' \in [at : {"window", "activating", "ended"}, ttl : Nat]
    BY <1>1, TtlTyped DEF WindowEnds, TypeOK
  <2>3. window' \in [total : Nat, failures : Nat, retryAfter : Nat \cup {NoRetryAfter}]
    BY <1>1 DEF WindowEnds, EmptyWindow
  <2> QED BY <1>1, <2>1, <2>2, <2>3 DEF WindowEnds, TypeOK
<1>2. CASE Activates
  <2>1. cooldown' \in Nat
    BY <1>2 DEF Activates, TypeOK
  <2>2. aimd' \in [at : {"window", "activating", "ended"}, ttl : Nat]
    BY <1>2 DEF Activates, Waiting
  <2> QED BY <1>2, <2>1, <2>2 DEF Activates, TypeOK
<1>3. CASE AimdEnds
  <2>1. aimd' \in [at : {"window", "activating", "ended"}, ttl : Nat]
    BY <1>3 DEF AimdEnds, Waiting
  <2> QED BY <1>3, <2>1 DEF AimdEnds, TypeOK
<1>4. CASE OthersActivate
  <2>1. cooldown' \in Nat
    BY <1>4 DEF OthersActivate
  <2> QED BY <1>4, <2>1 DEF OthersActivate, aimdVars, TypeOK
<1>5. CASE Tick
  <2>1. cooldown' \in Nat /\ opened' \in Nat /\ blind' \in Nat
    BY <1>5 DEF Tick, TypeOK
  <2> QED BY <1>5, <2>1 DEF Tick, aimdVars, TypeOK
<1>6. CASE Stops
  <2>1. stop' \in BOOLEAN
    BY <1>6 DEF Stops
  <2> QED BY <1>6, <2>1 DEF Stops, aimdVars, TypeOK
<1> QED BY <1>1, <1>2, <1>3, <1>4, <1>5, <1>6 DEF Aimd

-----------------------------------------------------------------------------
(* What runs is counted. *)

\* The live tasks are finite, and one that runs makes the counter positive.
LEMMA LiveFinite ==
    /\ IsFiniteSet(LiveTasks)
    /\ Counted => \A s \in Slots : Live(s) => inflight > 0
<1>1. IsFiniteSet(LiveTasks)
  BY BoundsAssumption, FS_Subset DEF LiveTasks
<1>2. ASSUME Counted, NEW s \in Slots, Live(s) PROVE inflight > 0
  <2>1. LiveTasks # {}
    BY <1>2 DEF LiveTasks
  <2>2. Cardinality(LiveTasks) # 0 /\ Cardinality(LiveTasks) \in Nat
    BY <1>1, <2>1, FS_EmptySet, FS_CardinalityType
  <2> QED BY <1>2, <2>2 DEF Counted
<1> QED BY <1>1, <1>2

\* The limit of a decision is never above the instance's.
LEMMA CanAdmitBelow == TypeOK /\ CanAdmit => inflight < MaxPerInstance
BY SettingsAssumption DEF ValidSettings, CanAdmit, Smaller, TypeOK

\* A step after which the same tasks run, counted as before.
LEMMA SameCount ==
    ASSUME Counted, UNCHANGED inflight, LiveTasks' = LiveTasks,
           loop' = "fetching" => inflight < MaxPerInstance
    PROVE  Counted'
BY DEF Counted

\* The steps of the loop: a message is taken on where there was room, and a fetch is
\* decided on where there is.
LEMMA LoopCounted == TypeOK /\ Counted /\ Loop => Counted'
<1> SUFFICES ASSUME TypeOK, Counted, Loop PROVE Counted'
  OBVIOUS
<1>1. CASE Decides
  <2>1. UNCHANGED inflight /\ LiveTasks' = LiveTasks
    BY <1>1 DEF Decides, taskVars, LiveTasks, Live
  <2>2. loop' = "fetching" => CanAdmit
    BY <1>1 DEF Decides, Goes, HoldsOff
  <2> QED BY <2>1, <2>2, CanAdmitBelow, SameCount
<1>2. ASSUME NEW s \in Slots, Admits(s) PROVE Counted'
  <2>1. loop = "fetching" /\ loop' = "deciding" /\ ~Live(s) /\ inflight' = inflight + 1
    BY <1>2 DEF Admits, Goes, Live
  <2>2. LiveTasks' = LiveTasks \cup {s}
    BY <1>2 DEF Admits, LiveTasks, Live, TypeOK
  <2>3. s \notin LiveTasks
    BY <2>1 DEF LiveTasks
  <2>4. Cardinality(LiveTasks') = Cardinality(LiveTasks) + 1
    BY <2>2, <2>3, LiveFinite, FS_AddElement
  <2>5. inflight < MaxPerInstance /\ inflight \in Nat /\ MaxPerInstance \in Nat
    BY <2>1, SettingsAssumption DEF Counted, TypeOK, ValidSettings
  <2> QED BY <2>1, <2>4, <2>5 DEF Counted
<1>3. CASE GraceEnds
  <2>1. UNCHANGED inflight /\ loop' = "cancelling"
    BY <1>3 DEF GraceEnds, Goes
  <2>2. LiveTasks' = LiveTasks
    BY <1>3 DEF GraceEnds, LiveTasks, Live, TypeOK
  <2> QED BY <2>1, <2>2, SameCount
<1>4. ASSUME NEW s \in Slots, Releases(s) PROVE Counted'
  <2>1. UNCHANGED inflight /\ loop' # "fetching"
    BY <1>4 DEF Releases, Goes
  <2>2. LiveTasks' = LiveTasks
    BY <1>4 DEF Releases, LiveTasks, Live, TypeOK
  <2> QED BY <2>1, <2>2, SameCount
<1>5. CASE \/ Ensures \/ AsksRedis \/ WaitEnds \/ FetchesNothing \/ FetchFails
           \/ BeginsDrain \/ DrainEnds \/ AllCut \/ ReleasesEnd
  <2>1. UNCHANGED <<task, inflight>> /\ loop' # "fetching"
    BY <1>5 DEF Ensures, AsksRedis, WaitEnds, FetchesNothing, FetchFails, BeginsDrain,
                DrainEnds, AllCut, ReleasesEnd, Goes, taskVars
  <2> QED BY <2>1, SameCount DEF LiveTasks, Live
<1> QED BY <1>1, <1>2, <1>3, <1>4, <1>5 DEF Loop

\* A task that has ended is counted no more.
LEMMA InvestigationCounted ==
    ASSUME NEW s \in Slots PROVE TypeOK /\ Counted /\ Investigation(s) => Counted'
<1> SUFFICES ASSUME TypeOK, Counted, Investigation(s) PROVE Counted'
  OBVIOUS
<1>1. CASE Finishes(s) \/ IsCut(s)
  <2>1. Live(s) /\ inflight' = inflight - 1 /\ UNCHANGED loop
    BY <1>1 DEF Finishes, IsCut, Live, Completed, loopVars
  <2>2. LiveTasks' = LiveTasks \ {s}
    BY <1>1 DEF Finishes, IsCut, LiveTasks, Live, TypeOK
  <2>3. s \in LiveTasks
    BY <2>1 DEF LiveTasks
  <2>4. Cardinality(LiveTasks') = Cardinality(LiveTasks) - 1
    BY <2>2, <2>3, LiveFinite, FS_RemoveElement
  <2>5. inflight \in Nat /\ MaxPerInstance \in Nat
    BY SettingsAssumption DEF TypeOK, ValidSettings
  <2> QED BY <2>1, <2>4, <2>5 DEF Counted
<1>2. CASE Calls(s) \/ Concludes(s) \/ Throttled(s)
  <2>1. UNCHANGED <<task, inflight, loop>>
    BY <1>2 DEF Calls, Concludes, Throttled, loopVars
  <2> QED BY <2>1, SameCount DEF LiveTasks, Live, Counted
<1> QED BY <1>1, <1>2 DEF Investigation

\* The count is kept by every step.
LEMMA NextCounted == TypeOK /\ Counted /\ [Next]_vars => Counted'
<1> SUFFICES ASSUME TypeOK, Counted, [Next]_vars PROVE Counted'
  OBVIOUS
<1>1. CASE Aimd \/ OthersActivate \/ Tick \/ Stops \/ UNCHANGED vars
  <2>1. UNCHANGED <<task, inflight, loop>>
    BY <1>1 DEF Aimd, WindowEnds, Activates, AimdEnds, OthersActivate, Tick, Stops, vars,
                taskVars, loopVars
  <2> QED BY <2>1, SameCount DEF LiveTasks, Live, Counted
<1> QED BY <1>1, LoopCounted, InvestigationCounted DEF Next

\* The types are kept by every step.
LEMMA NextTyped == TypeOK /\ Counted /\ TargetInRange' /\ [Next]_vars => TypeOK'
<1> SUFFICES ASSUME TypeOK, Counted, TargetInRange', [Next]_vars PROVE TypeOK'
  OBVIOUS
<1>1. CASE UNCHANGED vars
  BY <1>1 DEF vars, taskVars, loopVars, aimdVars, cooldownVars, TypeOK
<1>2. ASSUME NEW s \in Slots, Investigation(s) PROVE TypeOK'
  BY <1>2, LiveFinite, InvestigationTyped
<1> QED BY <1>1, <1>2, LoopTyped, OthersTyped DEF Next

-----------------------------------------------------------------------------
(* Every process is a run of Admission. *)

\* A step of the process is a step of Admission or leaves its state alone.
LEMMA ProcessStep == [ProcessNext]_allVars => [Next]_vars
<1> SUFFICES ASSUME ProcessNext PROVE [Next]_vars
  BY DEF allVars
<1>1. CASE Starting \/ Ending \/ Reconciles
  <2>1. UNCHANGED vars
    BY <1>1 DEF Starting, BuildsProvider, RegistersProviders, ConfiguringFails, ExportsNothing,
                ConfiguresLogging, LoggingFails, Acquires, AcquiringFails, Composes, Subscribes,
                SubscribingFails, Ending, Closes, Unsubscribes, GivesBack, Unwound, Exits,
                Reconciles
  <2> QED BY <2>1
<1>2. CASE Signalled \/ FailureStops \/ LoopRuns \/ AimdRuns \/ World
  BY <1>2 DEF Signalled, FailureStops, LoopRuns, AimdRuns, World, Next
<1>3. CASE \E s \in Slots : Investigates(s)
  BY <1>3 DEF Investigates, Next
<1> QED BY <1>1, <1>2, <1>3 DEF ProcessNext

\* THEOREM: what a process does with its deliveries, from its start to its exit, is a
\* run of Admission.
THEOREM ProcessImplementsAdmission == ProcessSpec => Spec
<1>1. ProcessInit => Init
  BY DEF ProcessInit
<1> QED BY <1>1, ProcessStep, PTL DEF ProcessSpec, Spec

\* Types, target and count together are inductive.
LEMMA CountHolds == Spec => [](TypeOK /\ TargetInRange /\ Counted)
<1>1. Init => TargetInRange
  BY SettingsAssumption DEF Init, ValidSettings, TargetInRange
<1>2. Init => Counted
  <2> SUFFICES ASSUME Init PROVE Counted
    OBVIOUS
  <2>1. LiveTasks = {}
    BY DEF Init, LiveTasks, Live
  <2>2. Cardinality(LiveTasks) = 0
    BY <2>1, FS_EmptySet
  <2>3. inflight = 0 /\ loop = "ensuring" /\ 0 <= MaxPerInstance
    BY SettingsAssumption DEF Init, ValidSettings
  <2> QED BY <2>2, <2>3 DEF Counted
<1> QED BY <1>1, <1>2, InitTyped, NextTyped, NextInRange, NextCounted, PTL DEF Spec

\* THEOREM: in every run of Admission the state has its types.
THEOREM AdmissionTypeCorrect == Spec => []TypeOK
BY CountHolds, PTL

\* THEOREM: under any settings the validator accepts and any sequence of windows the
\* target keeps within its bounds, and no worker runs more than its limit.
THEOREM BoundedCorrect == ProcessSpec => []Bounded
<1>1. TargetInRange /\ Counted => Bounded
  BY DEF TargetInRange, Counted, Bounded, LiveTasks
<1> QED BY <1>1, CountHolds, ProcessImplementsAdmission, PTL

-----------------------------------------------------------------------------
(* The cooldown. *)

\* A step that neither looks, nor admits, nor moves the cooldown.
LEMMA SameCover ==
    ASSUME CooldownCovered, UNCHANGED <<cooldown, opened, blind, aimd>>,
           Open' => Open, loop' = "fetching" => ~seen'
    PROVE  CooldownCovered'
BY DEF CooldownCovered

\* The loop: a look without an answer is what a further admission is covered by.
LEMMA LoopCovered == TypeOK /\ CooldownCovered /\ Loop => CooldownCovered'
<1> SUFFICES ASSUME TypeOK, CooldownCovered, Loop PROVE CooldownCovered'
  OBVIOUS
<1>1. CASE AsksRedis
  <2>1. loop' = "asked" /\ UNCHANGED <<cooldown, opened, aimd>>
    BY <1>1 DEF AsksRedis, Goes, aimdVars
  <2>2. CASE seen' = (cooldown > 0) /\ UNCHANGED blind
    <3>1. CASE cooldown > 0
      <4>1. seen'
        BY <2>2, <3>1, Zenon
      <4> QED BY <2>1, <2>2, <4>1 DEF CooldownCovered, Open
    <3>2. CASE cooldown = 0
      BY <2>1, <2>2, <3>2 DEF CooldownCovered, Open
    <3> QED BY <3>1, <3>2 DEF TypeOK
  <2>3. CASE blind' = IF cooldown > 0 THEN blind + 1 ELSE blind
    BY <2>1, <2>3 DEF CooldownCovered, Open, TypeOK
  <2> QED BY <1>1, <2>2, <2>3 DEF AsksRedis
<1>2. CASE Decides
  <2>1. UNCHANGED <<seen, cooldown, opened, blind, aimd>> /\ loop = "asked"
    BY <1>2 DEF Decides, aimdVars, cooldownVars
  <2>2. loop' = "fetching" => ~seen
    BY <1>2 DEF Decides, Goes, HoldsOff
  <2>3. Open' => Open
    BY <2>1 DEF Open
  <2> QED BY <2>1, <2>2, <2>3, SameCover
<1>3. ASSUME NEW s \in Slots, Admits(s) PROVE CooldownCovered'
  <2>1. /\ loop = "fetching" /\ loop' = "deciding"
        /\ UNCHANGED <<cooldown, blind, aimd>>
        /\ opened' = IF cooldown > 0 THEN opened + 1 ELSE opened
    BY <1>3 DEF Admits, Goes, aimdVars
  <2>2. opened <= blind /\ ~Open'
    BY <2>1 DEF CooldownCovered, Open
  <2>3. cooldown = 0 => opened' = 0 /\ blind' = 0
    BY <2>1 DEF CooldownCovered
  <2>4. opened' <= 1 + blind
    BY <2>1, <2>2 DEF TypeOK
  <2> QED BY <2>1, <2>2, <2>3, <2>4 DEF CooldownCovered
<1>4. CASE \/ Ensures \/ WaitEnds \/ FetchesNothing \/ FetchFails \/ BeginsDrain
           \/ DrainEnds \/ GraceEnds \/ AllCut \/ ReleasesEnd \/ \E s \in Slots : Releases(s)
  <2>1. /\ UNCHANGED <<cooldown, opened, blind, aimd>>
        /\ loop' \notin {"asked", "fetching"}
    BY <1>4 DEF Ensures, WaitEnds, FetchesNothing, FetchFails, BeginsDrain, DrainEnds,
                GraceEnds, AllCut, ReleasesEnd, Releases, Goes, aimdVars, cooldownVars
  <2> QED BY <2>1, SameCover DEF Open
<1> QED BY <1>1, <1>2, <1>3, <1>4 DEF Loop

\* The supervisor and the world: a cooldown that is over takes its histories with it.
LEMMA OthersCovered ==
    TypeOK /\ CooldownCovered /\ (Aimd \/ OthersActivate \/ Tick \/ Stops) => CooldownCovered'
<1> SUFFICES ASSUME TypeOK, CooldownCovered, Aimd \/ OthersActivate \/ Tick \/ Stops
             PROVE  CooldownCovered'
  OBVIOUS
<1>1. CASE WindowEnds
  <2>1. UNCHANGED <<loop, seen, cooldown, opened, blind>>
    BY <1>1 DEF WindowEnds, loopVars, cooldownVars
  <2>2. aimd' = aimd \/ \E ttl \in CooldownTtls : aimd' = [at |-> "activating", ttl |-> ttl]
    BY <1>1 DEF WindowEnds
  <2>3. aimd'.at = "activating" => aimd'.ttl > 0
    BY <2>2, TtlTyped DEF CooldownCovered
  <2> QED BY <2>1, <2>3 DEF CooldownCovered, Open
<1>2. CASE Activates
  <2>1. UNCHANGED <<loop, seen, opened, blind>> /\ aimd' = Waiting
    BY <1>2 DEF Activates, loopVars
  <2>2. cooldown' = 0 => cooldown = 0
    BY <1>2 DEF Activates, CooldownCovered
  <2> QED BY <2>1, <2>2 DEF CooldownCovered, Open, Waiting
<1>3. CASE AimdEnds
  <2>1. UNCHANGED <<loop, seen, cooldown, opened, blind>> /\ aimd'.at = "ended"
    BY <1>3 DEF AimdEnds, loopVars, cooldownVars, Waiting
  <2> QED BY <2>1 DEF CooldownCovered, Open
<1>4. CASE OthersActivate
  <2>1. UNCHANGED <<loop, seen, opened, blind, aimd>> /\ cooldown' # 0
    BY <1>4 DEF OthersActivate, loopVars, aimdVars
  <2> QED BY <2>1 DEF CooldownCovered, Open
<1>5. CASE Tick
  <2>1. UNCHANGED <<loop, seen, aimd>>
    BY <1>5 DEF Tick, loopVars, aimdVars
  <2>2. CASE cooldown = 1
    BY <1>5, <2>1, <2>2 DEF Tick, CooldownCovered, Open
  <2>3. CASE cooldown # 1
    <3>1. UNCHANGED <<opened, blind>> /\ cooldown' # 0
      BY <1>5, <2>3 DEF Tick, TypeOK
    <3> QED BY <2>1, <3>1 DEF CooldownCovered, Open
  <2> QED BY <2>2, <2>3
<1>6. CASE Stops
  BY <1>6 DEF Stops, loopVars, aimdVars, cooldownVars, CooldownCovered, Open
<1> QED BY <1>1, <1>2, <1>3, <1>4, <1>5, <1>6 DEF Aimd

\* The cover is kept by every step.
LEMMA NextCovered == TypeOK /\ CooldownCovered /\ [Next]_vars => CooldownCovered'
<1> SUFFICES ASSUME TypeOK, CooldownCovered, [Next]_vars PROVE CooldownCovered'
  OBVIOUS
<1>1. CASE UNCHANGED vars
  BY <1>1 DEF vars, loopVars, aimdVars, cooldownVars, CooldownCovered, Open
<1>2. ASSUME NEW s \in Slots, Investigation(s) PROVE CooldownCovered'
  <2>1. UNCHANGED <<loop, seen, cooldown, opened, blind, aimd>>
    BY <1>2 DEF Investigation, Finishes, IsCut, Calls, Concludes, Throttled, loopVars,
                aimdVars, cooldownVars
  <2> QED BY <2>1 DEF CooldownCovered, Open
<1> QED BY <1>1, <1>2, LoopCovered, OthersCovered DEF Next

\* THEOREM: in every process, a cooldown lets through no more than the admission that
\* was already decided on and one for each look that Redis did not answer.
THEOREM CooldownHoldsCorrect == ProcessSpec => []CooldownHolds
<1>1. Init => CooldownCovered
  BY DEF Init, Waiting, CooldownCovered, Open
<1>2. CooldownCovered => CooldownHolds
  BY DEF CooldownCovered, CooldownHolds
<1> QED BY <1>1, <1>2, NextCovered, AdmissionTypeCorrect, ProcessImplementsAdmission, PTL DEF Spec

-----------------------------------------------------------------------------
(* The drain. *)

\* The tasks of a loop that goes on, and of one that drains.
LEMMA TasksAtFacts ==
    /\ \A at \in {"ensuring", "deciding", "asked", "waiting", "fetching", "draining"} :
          TasksAt(at) = {"none", "running"}
    /\ TasksAt("cancelling") = {"none", "cancelling", "cut"}
    /\ TasksAt("releasing") = {"none", "cut", "returned"}
    /\ TasksAt("ended") = {"none", "returned"}
    /\ TasksAt("failed") = {"none", "running", "cancelling", "cut", "returned"}
BY DEF TasksAt

\* Every step of the loop takes the tasks along.
LEMMA LoopInStep == TypeOK /\ InStep /\ Loop => InStep'
<1> SUFFICES ASSUME TypeOK, InStep, Loop, NEW d \in Slots PROVE task'[d] \in TasksAt(loop')
  BY DEF InStep
<1>0. task[d] \in TasksAt(loop)
  BY DEF InStep
<1> USE TasksAtFacts
<1>1. CASE \/ Ensures \/ AsksRedis \/ Decides \/ WaitEnds \/ FetchesNothing \/ FetchFails \/ BeginsDrain
  <2>1. /\ task' = task
        /\ loop \in {"ensuring", "deciding", "asked", "waiting", "fetching", "draining"}
        /\ loop' \in {"deciding", "asked", "waiting", "fetching", "draining", "failed"}
    BY <1>1 DEF Ensures, AsksRedis, Decides, WaitEnds, FetchesNothing, FetchFails, BeginsDrain,
                Goes, taskVars
  <2> QED BY <1>0, <2>1
<1>2. ASSUME NEW s \in Slots, Admits(s) PROVE task'[d] \in TasksAt(loop')
  <2>1. loop = "fetching" /\ loop' = "deciding" /\ task'[d] \in {task[d], "running"}
    BY <1>2 DEF Admits, Goes, TypeOK
  <2> QED BY <1>0, <2>1
<1>3. CASE DrainEnds
  <2>1. task' = task /\ loop = "draining" /\ loop' = "ended" /\ task[d] # "running"
    BY <1>3 DEF DrainEnds, Goes, taskVars, Live
  <2> QED BY <1>0, <2>1
<1>4. CASE GraceEnds
  <2>1. loop = "draining" /\ loop' = "cancelling"
    BY <1>4 DEF GraceEnds, Goes
  <2>2. task'[d] = IF task[d] = "running" THEN "cancelling" ELSE task[d]
    BY <1>0, <1>4, <2>1 DEF GraceEnds, Live
  <2> QED BY <1>0, <2>1, <2>2
<1>5. CASE AllCut
  <2>1. task' = task /\ loop = "cancelling" /\ loop' = "releasing" /\ task[d] # "cancelling"
    BY <1>5 DEF AllCut, Goes, taskVars, Live
  <2> QED BY <1>0, <2>1
<1>6. ASSUME NEW s \in Slots, Releases(s) PROVE task'[d] \in TasksAt(loop')
  <2>1. loop = "releasing" /\ loop' \in {"releasing", "failed"}
    BY <1>6 DEF Releases, Goes
  <2>2. task'[d] \in {task[d], "cut", "returned"}
    BY <1>6 DEF Releases, TypeOK
  <2> QED BY <1>0, <2>1, <2>2
<1>7. CASE ReleasesEnd
  <2>1. task' = task /\ loop = "releasing" /\ loop' = "ended" /\ task[d] # "cut"
    BY <1>7 DEF ReleasesEnd, Goes, taskVars
  <2> QED BY <1>0, <2>1
<1> QED BY <1>1, <1>2, <1>3, <1>4, <1>5, <1>6, <1>7 DEF Loop

\* An investigation ends where tasks still run, or is cut where they are cancelled.
LEMMA InvestigationInStep ==
    ASSUME NEW s \in Slots PROVE TypeOK /\ InStep /\ Investigation(s) => InStep'
<1> SUFFICES ASSUME TypeOK, InStep, Investigation(s), NEW d \in Slots PROVE task'[d] \in TasksAt(loop')
  BY DEF InStep
<1>0. task[d] \in TasksAt(loop) /\ task[s] \in TasksAt(loop)
  BY DEF InStep
<1>1. loop' = loop
  BY DEF Investigation, Finishes, IsCut, Calls, Concludes, Throttled, loopVars
<1>2. \/ task'[d] = task[d]
      \/ d = s /\ task'[s] = "none"
      \/ d = s /\ task[s] = "cancelling" /\ task'[s] = "cut"
  BY DEF Investigation, Finishes, IsCut, Calls, Concludes, Throttled, TypeOK
<1>3. "none" \in TasksAt(loop)
  BY DEF TasksAt
<1>4. task[s] = "cancelling" => "cut" \in TasksAt(loop)
  BY <1>0, TasksAtFacts DEF TypeOK, LoopStates
<1> QED BY <1>0, <1>1, <1>2, <1>3, <1>4

\* Loop and tasks stay in step.
LEMMA NextInStep == TypeOK /\ InStep /\ [Next]_vars => InStep'
<1> SUFFICES ASSUME TypeOK, InStep, [Next]_vars PROVE InStep'
  OBVIOUS
<1>1. CASE Aimd \/ OthersActivate \/ Tick \/ Stops \/ UNCHANGED vars
  <2>1. UNCHANGED <<task, loop>>
    BY <1>1 DEF Aimd, WindowEnds, Activates, AimdEnds, OthersActivate, Tick, Stops, vars,
                taskVars, loopVars
  <2> QED BY <2>1 DEF InStep
<1> QED BY <1>1, LoopInStep, InvestigationInStep DEF Next

\* THEOREM: in every process, a loop that has ended leaves no delivery running and
\* none of those it cut unrecorded.
THEOREM NothingAbandonedCorrect == ProcessSpec => []NothingAbandoned
<1>1. Init => InStep
  BY TasksAtFacts DEF Init, InStep
<1>2. InStep => NothingAbandoned
  BY TasksAtFacts DEF InStep, NothingAbandoned
<1> QED BY <1>1, <1>2, NextInStep, AdmissionTypeCorrect, ProcessImplementsAdmission, PTL DEF Spec

-----------------------------------------------------------------------------
(* The resources of the process. *)

Before == {"configuring", "logging", "acquiring", "subscribing"}
After == {"unsubscribing", "unwinding", "exiting", "exited", "crashed"}

\* Nothing has been fetched while the loop is ensuring its stream.
Unstarted == loop = "ensuring" => \A s \in Slots : task[s] = "none"

\* The loop moves only while the process runs, which holds all resources.
Phases ==
    /\ phase \in Before \cup {"running"} \cup After
    /\ phase \in Before => loop = "ensuring"
    /\ phase \in After => loop \in {"ensuring", "ended", "failed"}
    /\ phase \in {"configuring", "logging", "exiting", "exited"} => held = 0
    /\ phase \in {"subscribing", "running"} => held = Acquirable
    /\ phase = "running" => advisories

\* A provider that is built is going to be disposed of: by the failure of the
\* configuration, or because telemetry is active.
Providers ==
    /\ phase = "configuring" => telemetry = "unset"
    /\ phase # "configuring" /\ (\E g \in Signals : provider[g] = "built") => telemetry = "active"
    /\ phase = "exited" => \A g \in Signals : provider[g] # "built"

\* The loop leaves its first state for good, and before nothing is fetched.
LEMMA NextUnstarted == TypeOK /\ Unstarted /\ [Next]_vars => Unstarted'
<1> SUFFICES ASSUME TypeOK, Unstarted, [Next]_vars PROVE Unstarted'
  OBVIOUS
<1>1. CASE Loop
  <2>1. loop' # "ensuring"
    BY <1>1 DEF Loop, Ensures, AsksRedis, Decides, WaitEnds, FetchesNothing, FetchFails, Admits,
                BeginsDrain, DrainEnds, GraceEnds, AllCut, Releases, ReleasesEnd, Goes
  <2> QED BY <2>1 DEF Unstarted
<1>2. ASSUME NEW s \in Slots, Investigation(s) PROVE Unstarted'
  <2>1. /\ loop' = loop
        /\ task' = task \/ task[s] \in {"running", "cancelling"}
    BY <1>2 DEF Investigation, Finishes, IsCut, Calls, Concludes, Throttled, loopVars
  <2> QED BY <2>1 DEF Unstarted
<1>3. CASE Aimd \/ OthersActivate \/ Tick \/ Stops \/ UNCHANGED vars
  <2>1. UNCHANGED <<task, loop>>
    BY <1>3 DEF Aimd, WindowEnds, Activates, AimdEnds, OthersActivate, Tick, Stops, vars,
                taskVars, loopVars
  <2> QED BY <2>1 DEF Unstarted
<1> QED BY <1>1, <1>2, <1>3 DEF Next

\* Resources are given back only after the supervisors have ended.
LEMMA NextPhases == Phases /\ [ProcessNext]_allVars => Phases'
<1> SUFFICES ASSUME Phases, [ProcessNext]_allVars PROVE Phases'
  OBVIOUS
<1> USE DEF Phases, Before, After, Enters
<1>1. CASE Starting
  <2>1. UNCHANGED vars
    BY <1>1 DEF Starting, BuildsProvider, RegistersProviders, ConfiguringFails, ExportsNothing,
                ConfiguresLogging, LoggingFails, Acquires, AcquiringFails, Composes, Subscribes,
                SubscribingFails
  <2>2. loop' = loop
    BY <2>1 DEF vars, loopVars
  <2> QED BY <1>1, <2>2 DEF Starting, BuildsProvider, RegistersProviders, ConfiguringFails,
                ExportsNothing, ConfiguresLogging, LoggingFails, Acquires, AcquiringFails,
                Composes, Subscribes, SubscribingFails
<1>2. CASE Ending
  <2>1. loop' = loop
    BY <1>2 DEF Ending, Closes, Unsubscribes, GivesBack, Unwound, Exits, vars, loopVars
  <2> QED BY <1>2, <2>1 DEF Ending, Closes, AllHaveEnded, Unsubscribes, GivesBack, Unwound, Exits
<1>3. CASE LoopRuns
  BY <1>3 DEF LoopRuns, processVars
<1>4. CASE \/ Signalled \/ FailureStops \/ AimdRuns \/ Reconciles \/ World
           \/ (\E s \in Slots : Investigates(s)) \/ UNCHANGED allVars
  <2>1. UNCHANGED <<phase, held, advisories>>
    BY <1>4 DEF Signalled, FailureStops, AimdRuns, Reconciles, World, Investigates, processVars,
                allVars
  <2>2. loop' = loop
    <3>1. Stops \/ Aimd \/ OthersActivate \/ Tick \/ UNCHANGED vars => loop' = loop
      BY DEF Stops, Aimd, WindowEnds, Activates, AimdEnds, OthersActivate, Tick, loopVars, vars
    <3>2. ASSUME NEW s \in Slots, Investigation(s) PROVE loop' = loop
      BY <3>2 DEF Investigation, Finishes, IsCut, Calls, Concludes, Throttled, loopVars
    <3> QED BY <1>4, <3>1, <3>2 DEF Signalled, FailureStops, AimdRuns, Reconciles, World,
                Investigates, allVars
  <2> QED BY <2>1, <2>2
<1> QED BY <1>1, <1>2, <1>3, <1>4 DEF ProcessNext

\* Providers are built in one phase and disposed of on every way out of it.
LEMMA NextProviders == Phases /\ Providers /\ [ProcessNext]_allVars => Providers'
<1> SUFFICES ASSUME Phases, Providers, [ProcessNext]_allVars PROVE Providers'
  OBVIOUS
<1> USE DEF Providers, Enters
<1>0. ShutDown => telemetry' # "active" /\
          (phase # "configuring" => \A g \in Signals : provider'[g] # "built")
  BY DEF ShutDown, Disposed
<1>1. CASE Starting
  <2>1. CASE \E g \in Signals : BuildsProvider(g)
    BY <2>1 DEF BuildsProvider
  <2>2. CASE RegistersProviders \/ ExportsNothing
    BY <2>2 DEF RegistersProviders, ExportsNothing
  <2>3. CASE ConfiguringFails
    BY <2>3 DEF ConfiguringFails, Disposed
  <2>4. CASE LoggingFails
    BY <1>0, <2>4 DEF LoggingFails
  <2>5. CASE ConfiguresLogging \/ Acquires \/ AcquiringFails \/ Composes \/ Subscribes \/ SubscribingFails
    BY <2>5 DEF ConfiguresLogging, Acquires, AcquiringFails, Composes, Subscribes, SubscribingFails
  <2> QED BY <1>1, <2>1, <2>2, <2>3, <2>4, <2>5 DEF Starting
<1>2. CASE Ending
  BY <1>0, <1>2 DEF Ending, Closes, Unsubscribes, GivesBack, Unwound, Exits
<1>3. CASE \/ Signalled \/ FailureStops \/ LoopRuns \/ AimdRuns \/ Reconciles \/ World
           \/ (\E s \in Slots : Investigates(s)) \/ UNCHANGED allVars
  <2>1. UNCHANGED <<phase, provider, telemetry>>
    BY <1>3 DEF Signalled, FailureStops, LoopRuns, AimdRuns, Reconciles, World, Investigates,
                processVars, allVars
  <2> QED BY <2>1
<1> QED BY <1>1, <1>2, <1>3 DEF ProcessNext

\* THEOREM: wherever its start, its run or its end fails, a process holds what its
\* investigations need for as long as its loop has not failed, and exits with every
\* resource given back and every provider shut down.
THEOREM ResourcesOutlastCorrect == ProcessSpec => []ResourcesOutlast
<1>1. ProcessInit => Phases /\ Providers
  BY DEF ProcessInit, Init, Phases, Providers, Before, After
<1>2. Init => InStep /\ Unstarted
  BY TasksAtFacts DEF Init, InStep, Unstarted
<1>3. InStep /\ Unstarted /\ Phases /\ Providers => ResourcesOutlast
  <2> SUFFICES ASSUME InStep, Unstarted, Phases, Providers PROVE ResourcesOutlast
    OBVIOUS
  <2>1. ASSUME NEW s \in Slots, Live(s), loop # "failed" PROVE phase = "running"
    <3>1. loop # "ended" /\ loop # "ensuring"
      BY <2>1, TasksAtFacts DEF InStep, Unstarted, Live
    <3> QED BY <2>1, <3>1 DEF Phases
  <2> QED BY <2>1 DEF ResourcesOutlast, Phases, Providers
<1>4. Spec => [](InStep /\ Unstarted)
  BY <1>2, NextInStep, NextUnstarted, AdmissionTypeCorrect, PTL DEF Spec
<1>5. ProcessSpec => [](Phases /\ Providers)
  BY <1>1, NextPhases, NextProviders, PTL DEF ProcessSpec
<1> QED BY <1>3, <1>4, <1>5, ProcessImplementsAdmission, PTL
=============================================================================
