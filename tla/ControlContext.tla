---------------------------- MODULE ControlContext ----------------------------
(***************************************************************************)
(* The control context of an investigation: manuals, vocabularies and      *)
(* schema names, built once per configuration generation and release and   *)
(* shared through Redis.  A call of resolve() reads the generation, then   *)
(* the cache; on a miss it takes the rebuild lease, builds and publishes,  *)
(* or polls until another call has published.  An operator's reset purges  *)
(* the stored manuals and advances the generation.                         *)
(*                                                                         *)
(* CTC's configuration is a number that every edit increases; what a       *)
(* request returns is the number it has read.  Time passes in ticks.  The  *)
(* code does not bound how long Redis takes to answer: for a refusal of    *)
(* the lease, after which a call looks at the clock, AnswerTime does.      *)
(***************************************************************************)
EXTENDS Naturals, FiniteSets

CONSTANTS
    Calls,          \* calls of resolve(), of any worker
    NoCall,
    Resets,         \* requests to reset the configuration
    Controls,       \* the controls whose manuals a context holds
    ReleaseOf,      \* deployment_release_id of the worker a call runs in
    PromptOf,       \* summarizer_prompt_version of that worker
    Second,         \* ticks in a second, the unit of a Redis expiry
    RebuildLease,   \* rebuild_lease_seconds, in ticks
    RebuildWait,    \* rebuild_wait_seconds, in ticks
    PollInterval,   \* poll_interval_seconds, in ticks
    AnswerTime,     \* bound: ticks until a call has Redis' refusal and looks at its deadline
    MaxEdits        \* bound: edits of the configuration in CTC

ASSUME CallsAssumption == NoCall \notin Calls
ASSUME ReleaseAssumption == DOMAIN ReleaseOf = Calls /\ DOMAIN PromptOf = Calls
ASSUME PolicyAssumption ==
    /\ Second \in Nat \ {0}
    /\ RebuildLease \in Nat \ {0} /\ PollInterval \in Nat \ {0}
    /\ RebuildWait \in Nat /\ RebuildWait > RebuildLease
ASSUME AnswerAssumption == AnswerTime \in Nat
ASSUME ResetsAssumption == IsFiniteSet(Resets)
ASSUME EditsAssumption == MaxEdits \in Nat

VARIABLES
    edits,      \* the configuration in CTC
    generation, \* config_state.generation
    manuals,    \* S3: the manual stored under each key, or NoManual
    stray,      \* manuals whose upload goes on after its call has failed
    cache,      \* Redis: the context published under each key, or NoContext
    lease,      \* Redis: owner and remaining time of each key's rebuild lock
    pc,         \* where each call is
    gen,        \* the generation a call has read
    left,       \* time until a call's deadline
    nap,        \* time a call still sleeps, or a refusal may still take
    fetched,    \* what the call's requests to CTC returned, 1 + edits, or 0
    drafts,     \* the manuals of its context as far as they are resolved
    result,     \* the context it returns
    reset,      \* where each reset is, and the stored keys it has still to visit
    purges,     \* history: purges begun
    since,      \* history: the configuration and the purge a generation began with
    rivals      \* history: calls under way when the lease of their key was taken

ctcVars == edits
storeVars == <<manuals, stray>>
redisVars == <<cache, lease>>
callVars == <<pc, gen, left, nap, fetched, drafts, result, rivals>>
resetVars == <<generation, reset, purges, since>>
vars == <<ctcVars, storeVars, redisVars, callVars, resetVars>>

NoContext == [fetched |-> <<>>, manuals |-> <<>>]
NoManual == [state |-> "absent"]
Unread == [state |-> "unread"]
Free == [owner |-> NoCall, left |-> 0]

Generations == 0..Cardinality(Resets)
Keys == {ReleaseOf[c] : c \in Calls} \X Generations
ManualKeys == Controls \X (0..MaxEdits) \X {PromptOf[c] : c \in Calls}

\* The requests of a build: two for each control, and the decode sets.
Requests == (Controls \X {"configuration", "definition"}) \cup {<<"decode", "sets">>}

NotFetched == [q \in Requests |-> 0]
NoDrafts == [m \in Controls |-> Unread]

Init ==
    /\ edits = 0
    /\ generation = 0
    /\ manuals = [k \in ManualKeys |-> NoManual]
    /\ stray = {}
    /\ cache = [k \in Keys |-> NoContext]
    /\ lease = [k \in Keys |-> Free]
    /\ pc = [c \in Calls |-> "called"]
    /\ gen = [c \in Calls |-> 0]
    /\ left = [c \in Calls |-> 0]
    /\ nap = [c \in Calls |-> 0]
    /\ fetched = [c \in Calls |-> NotFetched]
    /\ drafts = [c \in Calls |-> NoDrafts]
    /\ result = [c \in Calls |-> NoContext]
    /\ reset = [r \in Resets |-> [at |-> "requested", todo |-> {}, purge |-> 0]]
    /\ purges = 0
    /\ since = [g \in Generations |-> [edits |-> 0, purge |-> 0]]
    /\ rivals = {}

-----------------------------------------------------------------------------
(* Keys and the lease. *)

Key(c) == <<ReleaseOf[c], gen[c]>>

ManualKey(c, m) == <<m, fetched[c][<<m, "configuration">>] - 1, PromptOf[c]>>

\* The lock expires after whole seconds: ex = max(1, ceil(lease_seconds)).
LeaseTtl == Second * ((RebuildLease + Second - 1) \div Second)

\* Fault: a lock whoever holds it.
OwnsAny(c) == lease[Key(c)].owner # NoCall
Owns(c) == lease[Key(c)].owner = c

Released(c) == IF Owns(c) THEN [lease EXCEPT ![Key(c)] = Free] ELSE lease

\* Fault: a call gives up instead of sleeping less than a poll interval.
TimeIsShort(c) == left[c] <= PollInterval
TimeIsUp(c) == left[c] = 0

Goes(c, at) == pc' = [pc EXCEPT ![c] = at]

\* The call is over but for the release: what it was working with is forgotten.
Leaves(c, at) ==
    /\ Goes(c, at)
    /\ left' = [left EXCEPT ![c] = 0]
    /\ nap' = [nap EXCEPT ![c] = 0]
    /\ fetched' = [fetched EXCEPT ![c] = NotFetched]
    /\ drafts' = [drafts EXCEPT ![c] = NoDrafts]

-----------------------------------------------------------------------------
(* A call that reads the cache and takes the lease. *)

ReadGeneration(c) ==
    /\ pc[c] = "called"
    /\ gen' = [gen EXCEPT ![c] = generation]
    /\ left' = [left EXCEPT ![c] = RebuildWait]
    /\ Goes(c, "reading")
    /\ UNCHANGED <<ctcVars, storeVars, redisVars, resetVars, nap, fetched, drafts, result, rivals>>

\* The first read of a round, and the one after the lease was taken.
ReadCache(c) ==
    /\ \/ pc[c] = "reading"
       \/ pc[c] = "rereading"
    /\ IF cache[Key(c)] # NoContext
       THEN /\ result' = [result EXCEPT ![c] = cache[Key(c)]]
            /\ Leaves(c, IF pc[c] = "reading" THEN "returned" ELSE "releasing")
       ELSE /\ Goes(c, IF pc[c] = "reading" THEN "acquiring" ELSE "building")
            /\ UNCHANGED <<result, left, nap, fetched, drafts>>
    /\ UNCHANGED <<ctcVars, storeVars, redisVars, resetVars, gen, rivals>>

Taken(c) ==
    /\ lease[Key(c)] = Free
    /\ lease' = [lease EXCEPT ![Key(c)] = [owner |-> c, left |-> LeaseTtl]]
    /\ rivals' = rivals \cup {d \in Calls : pc[d] # "called" /\ Key(d) = Key(c)}

\* SET NX EX with a token of the call's own; with the lease it looks once more.
Acquire(c) ==
    /\ pc[c] = "acquiring"
    /\ Taken(c)
    /\ Goes(c, "rereading")
    /\ UNCHANGED <<ctcVars, storeVars, resetVars, cache, gen, left, nap, fetched, drafts, result>>

\* Redis sets the lock, but its answer is lost and the call fails.
AcquireUnheard(c) ==
    /\ pc[c] = "acquiring"
    /\ Taken(c)
    /\ Leaves(c, "raised")
    /\ UNCHANGED <<ctcVars, storeVars, resetVars, cache, gen, result>>

\* Redis finds the lock of another call; its refusal is on the way.
Refused(c) ==
    /\ pc[c] = "acquiring"
    /\ lease[Key(c)] # Free
    /\ nap' = [nap EXCEPT ![c] = AnswerTime]
    /\ Goes(c, "refused")
    /\ UNCHANGED <<ctcVars, storeVars, redisVars, resetVars, gen, left, fetched, drafts, result, rivals>>

\* The answer to SET NX is lost and the client repeats it: it may find its own lock.
AsksAgain(c) ==
    /\ \/ pc[c] = "acquiring" /\ Taken(c)
       \/ pc[c] = "refused" /\ UNCHANGED <<lease, rivals>>
    /\ nap' = [nap EXCEPT ![c] = 0]
    /\ Goes(c, "acquiring")
    /\ UNCHANGED <<ctcVars, storeVars, cache, resetVars, gen, left, fetched, drafts, result>>

\* The refusal is there, whatever has become of the lock since: sleep until the next
\* poll, or give up.
LooksAtDeadline(c) ==
    /\ pc[c] = "refused"
    /\ IF TimeIsUp(c)
       THEN Leaves(c, "timed_out")
       ELSE /\ nap' = [nap EXCEPT ![c] = IF left[c] < PollInterval THEN left[c] ELSE PollInterval]
            /\ Goes(c, "sleeping")
            /\ UNCHANGED <<left, fetched, drafts>>
    /\ UNCHANGED <<ctcVars, storeVars, redisVars, resetVars, gen, result, rivals>>

Wakes(c) ==
    /\ pc[c] = "sleeping"
    /\ nap[c] = 0
    /\ Goes(c, "reading")
    /\ UNCHANGED <<ctcVars, storeVars, redisVars, resetVars, gen, left, nap, fetched, drafts, result, rivals>>

-----------------------------------------------------------------------------
(* A build.  Its requests to CTC run side by side, then its manuals do. *)

Answered(c, q) == fetched[c][q] > 0

Fetch(c, q) ==
    /\ pc[c] = "building"
    /\ ~Answered(c, q)
    /\ q[2] = "definition" => Answered(c, <<q[1], "configuration">>)
    /\ fetched' = [fetched EXCEPT ![c][q] = 1 + edits]
    /\ UNCHANGED <<ctcVars, storeVars, redisVars, resetVars, pc, gen, left, nap, drafts, result, rivals>>

Configured(c) == \A q \in Requests : Answered(c, q)

GetManual(c, m) ==
    /\ pc[c] = "building" /\ Configured(c)
    /\ drafts[c][m] = Unread
    /\ drafts' = [drafts EXCEPT ![c][m] = manuals[ManualKey(c, m)]]
    /\ UNCHANGED <<ctcVars, storeVars, redisVars, resetVars, pc, gen, left, nap, fetched, result, rivals>>

\* The summary of a configuration, and the number of purges begun when it is stored.
Summary(from) == [state |-> "stored", from |-> from, purge |-> purges]

PutManual(c, m) ==
    /\ pc[c] = "building"
    /\ drafts[c][m] = NoManual
    /\ LET k == ManualKey(c, m) IN
         /\ manuals' = [manuals EXCEPT ![k] = Summary(k[2])]
         /\ drafts' = [drafts EXCEPT ![c][m] = Summary(k[2])]
    /\ UNCHANGED <<ctcVars, stray, redisVars, resetVars, pc, gen, left, nap, fetched, result, rivals>>

Context(c) == [fetched |-> fetched[c], manuals |-> drafts[c]]

Built(c) ==
    /\ pc[c] = "building" /\ Configured(c)
    /\ \A m \in Controls : drafts[c][m].state = "stored"

Published(c) == cache' = [cache EXCEPT ![Key(c)] = Context(c)]

\* The script publishes for the owner of the lease only; without it the call fails.
Publish(c) ==
    /\ Built(c)
    /\ IF Owns(c)
       THEN /\ Published(c)
            /\ result' = [result EXCEPT ![c] = Context(c)]
            /\ Leaves(c, "releasing")
       ELSE Leaves(c, "failing") /\ UNCHANGED <<cache, result>>
    /\ UNCHANGED <<ctcVars, storeVars, resetVars, lease, gen, rivals>>

\* The script ran, but its answer is lost and the call fails.
PublishUnheard(c) ==
    /\ Built(c)
    /\ Owns(c)
    /\ Published(c)
    /\ Leaves(c, "failing")
    /\ UNCHANGED <<ctcVars, storeVars, resetVars, lease, gen, result, rivals>>

\* The lease is given back by its owner, after success and after failure.
Release(c) ==
    /\ pc[c] \in {"releasing", "failing"}
    /\ lease' = Released(c)
    /\ Leaves(c, IF pc[c] = "releasing" THEN "returned" ELSE "raised")
    /\ UNCHANGED <<ctcVars, storeVars, resetVars, cache, gen, result, rivals>>

\* The release fails, or its answer is lost: the call raises whatever it has built.
ReleaseFails(c) ==
    /\ pc[c] \in {"releasing", "failing"}
    /\ lease' \in {lease, Released(c)}
    /\ Leaves(c, "raised")
    /\ UNCHANGED <<ctcVars, storeVars, resetVars, cache, gen, result, rivals>>

Unpublished == <<ctcVars, manuals, redisVars, resetVars, gen, result, rivals>>

\* The database does not tell the generation.
GenerationUnavailable(c) ==
    /\ pc[c] = "called"
    /\ Leaves(c, "raised")
    /\ UNCHANGED <<Unpublished, stray>>

\* Redis fails, or the cached context is not one of this generation.
CacheUnavailable(c) ==
    /\ \/ pc[c] \in {"reading", "acquiring", "refused"} /\ Leaves(c, "raised")
       \/ (pc[c] = "rereading" \/ Built(c)) /\ Leaves(c, "failing")
    /\ UNCHANGED <<Unpublished, stray>>

\* CTC does not answer, or with something that is no configuration.
FetchFails(c) ==
    /\ pc[c] = "building" /\ ~Configured(c)
    /\ Leaves(c, "failing")
    /\ UNCHANGED <<Unpublished, stray>>

\* A vocabulary or an editable feature is missing.
Incomplete(c) ==
    /\ Built(c)
    /\ Leaves(c, "failing")
    /\ UNCHANGED <<Unpublished, stray>>

\* A manual cannot be read, summarised or stored.  The other one is cancelled, but
\* a thread that is storing a manual goes on.
ManualFails(c) ==
    /\ pc[c] = "building" /\ Configured(c) /\ ~Built(c)
    /\ Leaves(c, "failing")
    /\ \E late \in SUBSET {m \in Controls : drafts[c][m] = NoManual} :
         stray' = stray \cup {ManualKey(c, m) : m \in late}
    /\ UNCHANGED Unpublished

\* The delivery is cancelled while the call waits for something else.
Cancelled(c) ==
    /\ \/ pc[c] \in {"called", "reading", "acquiring", "refused", "sleeping"} /\ Leaves(c, "raised")
       \/ pc[c] = "rereading" /\ Leaves(c, "failing")
    /\ UNCHANGED <<Unpublished, stray>>

LandsLate(k) ==
    /\ k \in stray
    /\ manuals' = [manuals EXCEPT ![k] = Summary(k[2])]
    /\ stray' = stray \ {k}
    /\ UNCHANGED <<ctcVars, redisVars, callVars, resetVars>>

Ended == {"returned", "raised", "timed_out", "dead"}

\* The worker dies: nobody gives the lease back.
Dies(c) ==
    /\ pc[c] \notin Ended
    /\ Leaves(c, "dead")
    /\ UNCHANGED <<ctcVars, storeVars, redisVars, resetVars, gen, result, rivals>>

-----------------------------------------------------------------------------
(* A reset, and the world outside. *)

StoredKeys == {k \in ManualKeys : manuals[k] # NoManual}

\* The purge lists what is stored; an object stored meanwhile may be missed.
BeginPurge(r) ==
    /\ reset[r].at = "requested"
    /\ purges' = purges + 1
    /\ reset' = [reset EXCEPT ![r] = [at |-> "purging", todo |-> StoredKeys, purge |-> purges + 1]]
    /\ UNCHANGED <<ctcVars, storeVars, redisVars, callVars, generation, since>>

SkipPurge(r) ==
    /\ reset[r].at = "requested"
    /\ reset' = [reset EXCEPT ![r].at = "purged"]
    /\ UNCHANGED <<ctcVars, storeVars, redisVars, callVars, generation, purges, since>>

\* One page of objects is deleted.
DeletePage(r) ==
    /\ reset[r].at = "purging"
    /\ \E page \in SUBSET reset[r].todo :
         /\ page # {}
         /\ manuals' = [k \in ManualKeys |-> IF k \in page THEN NoManual ELSE manuals[k]]
         /\ reset' = [reset EXCEPT ![r].todo = @ \ page]
    /\ UNCHANGED <<ctcVars, stray, redisVars, callVars, generation, purges, since>>

PurgeEnds(r) ==
    /\ reset[r].at = "purging" /\ reset[r].todo = {}
    /\ reset' = [reset EXCEPT ![r].at = "purged"]
    /\ UNCHANGED <<ctcVars, storeVars, redisVars, callVars, generation, purges, since>>

\* The store or the database fails: the generation stays.
ResetFails(r) ==
    /\ reset[r].at \in {"purging", "purged"}
    /\ reset' = [reset EXCEPT ![r].at = "failed"]
    /\ UNCHANGED <<ctcVars, storeVars, redisVars, callVars, generation, purges, since>>

Advanced(r, before) ==
    /\ reset[r].at = before
    /\ generation' = generation + 1
    /\ since' = [since EXCEPT ![generation + 1] =
                    [edits |-> edits,
                     purge |-> IF reset[r].purge > since[generation].purge
                               THEN reset[r].purge ELSE since[generation].purge]]

\* Fault: the generation advances when the purge has begun.
IncrementEarly(r) ==
    /\ Advanced(r, IF reset[r].purge > 0 THEN "purging" ELSE "purged")
    /\ reset' = [reset EXCEPT ![r].at = "done"]
    /\ UNCHANGED <<ctcVars, storeVars, redisVars, callVars, purges>>

IncrementGeneration(r) ==
    /\ Advanced(r, "purged")
    /\ reset' = [reset EXCEPT ![r].at = "done"]
    /\ UNCHANGED <<ctcVars, storeVars, redisVars, callVars, purges>>

Edit ==
    /\ edits < MaxEdits
    /\ edits' = edits + 1
    /\ UNCHANGED <<storeVars, redisVars, callVars, resetVars>>

Less(n) == IF n > 0 THEN n - 1 ELSE 0
Lapsed(l) == IF l.left = 1 THEN Free ELSE [l EXCEPT !.left = Less(@)]

\* Time passes for the locks, the deadlines and the sleeping calls, but a refusal
\* that has been on its way for AnswerTime is there first.
Tick ==
    /\ \A c \in Calls : pc[c] = "refused" => nap[c] > 0
    /\ lease' = [k \in Keys |-> Lapsed(lease[k])]
    /\ left' = [c \in Calls |-> Less(left[c])]
    /\ nap' = [c \in Calls |-> Less(nap[c])]
    /\ <<lease, left, nap>>' # <<lease, left, nap>>
    /\ UNCHANGED <<ctcVars, storeVars, cache, pc, gen, fetched, drafts, result, rivals, resetVars>>

-----------------------------------------------------------------------------
Resolve(c) ==
    \/ ReadGeneration(c) \/ ReadCache(c) \/ Acquire(c) \/ Refused(c)
    \/ AsksAgain(c) \/ LooksAtDeadline(c) \/ Wakes(c)
    \/ \E q \in Requests : Fetch(c, q)
    \/ \E m \in Controls : GetManual(c, m) \/ PutManual(c, m)
    \/ Publish(c) \/ Release(c)

Trouble(c) ==
    \/ AcquireUnheard(c) \/ PublishUnheard(c) \/ ReleaseFails(c)
    \/ GenerationUnavailable(c) \/ CacheUnavailable(c) \/ FetchFails(c)
    \/ Incomplete(c) \/ ManualFails(c) \/ Cancelled(c) \/ Dies(c)

Reset(r) ==
    \/ BeginPurge(r) \/ SkipPurge(r) \/ DeletePage(r) \/ PurgeEnds(r)
    \/ ResetFails(r) \/ IncrementGeneration(r)

Next ==
    \/ \E c \in Calls : Resolve(c) \/ Trouble(c)
    \/ \E k \in ManualKeys : LandsLate(k)
    \/ \E r \in Resets : Reset(r)
    \/ Edit
    \/ Tick

Spec == Init /\ [][Next]_vars

-----------------------------------------------------------------------------
(* Correctness. *)

States ==
    {"called", "reading", "acquiring", "refused", "sleeping", "rereading", "building",
     "releasing", "failing"} \cup Ended
Naps == 0..(PollInterval + AnswerTime)
Manual == [state : {"stored"}, from : 0..MaxEdits, purge : Generations]
Request == [Requests -> 0..(MaxEdits + 1)]
Contexts == [fetched : Request, manuals : [Controls -> Manual]] \cup {NoContext}

\* The types of the stores, the calls and the resets.
TypeOK ==
    /\ edits \in 0..MaxEdits
    /\ manuals \in [ManualKeys -> Manual \cup {NoManual}]
    /\ stray \subseteq ManualKeys
    /\ cache \in [Keys -> Contexts]
    /\ lease \in [Keys -> [owner : Calls, left : 1..LeaseTtl] \cup {Free}]
    /\ pc \in [Calls -> States]
    /\ gen \in [Calls -> 0..generation]
    /\ left \in [Calls -> 0..RebuildWait]
    /\ nap \in [Calls -> Naps]
    /\ fetched \in [Calls -> Request]
    /\ drafts \in [Calls -> [Controls -> Manual \cup {NoManual, Unread}]]
    /\ result \in [Calls -> Contexts]
    /\ rivals \subseteq Calls
    /\ generation \in Generations /\ purges \in Generations
    /\ reset \in [Resets -> [at : {"requested", "purging", "purged", "failed", "done"},
                             todo : SUBSET ManualKeys, purge : 0..purges]]
    /\ since \in [Generations -> [edits : 0..edits, purge : 0..purges]]

\* Whatever is built twice, lost, released late or published by a call that has
\* failed: all calls of one release and generation return the published context.
SharedContext ==
    \A c \in Calls : pc[c] = "returned" => result[c] = cache[Key(c)]

\* A context of a generation holds nothing CTC returned before the reset that began
\* it, its manuals describe the configuration beside them, and none of them was
\* stored before the purge of that reset.
FreshContext ==
    \A k \in Keys : cache[k] # NoContext =>
        /\ \A q \in Requests : cache[k].fetched[q] > since[k[2]].edits
        /\ \A m \in Controls :
             LET manual == cache[k].manuals[m] IN
             /\ manual.from = cache[k].fetched[<<m, "configuration">>] - 1
             /\ manual.purge >= since[k[2]].purge

\* A call gives up only if the lease was taken while it waited, by another call or by
\* itself without hearing of it: the wait outlives every lease that was taken before,
\* its owner dead or alive, and the time for which the last refusal is on its way.
WaitOutlivesLease ==
    \A c \in Calls : pc[c] = "timed_out" => c \in rivals

-----------------------------------------------------------------------------
\* What has become of a call, and with which context.
Outcome(c) ==
    CASE pc[c] = "called" -> "asked"
      [] pc[c] = "returned" -> "returned"
      [] pc[c] \in {"raised", "timed_out", "dead"} -> "failed"
      [] OTHER -> "waiting"

Answer(c) == IF pc[c] = "returned" THEN result[c] ELSE NoContext

Agreement == INSTANCE ContextAgreement WITH
    outcome <- [c \in Calls |-> Outcome(c)],
    result <- [c \in Calls |-> Answer(c)]

\* Reads, leases, builds and releases, lost, late or abandoned, come to an agreement:
\* a published context is never replaced, also not by a call that lost its lease, and
\* no call returns another one, or one of a generation it did not begin in.
AgreementImplemented == Agreement!AgreementSpec
=============================================================================
