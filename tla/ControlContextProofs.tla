------------------------- MODULE ControlContextProofs -------------------------
(***************************************************************************)
(* Proofs about ControlContext, for any number of calls, resets, controls, *)
(* releases and prompts, and any lengths of lease, wait and poll that the  *)
(* policy allows.                                                          *)
(***************************************************************************)
EXTENDS ControlContext, FiniteSetTheorems, TLAPS

Draft == Manual \cup {NoManual, Unread}
Held == [owner : Calls, left : 1..LeaseTtl]

\* The type invariant in four parts: what calls, stores, Redis and resets hold.
CallsTyped ==
    /\ pc \in [Calls -> States]
    /\ gen \in [Calls -> 0..generation]
    /\ left \in [Calls -> 0..RebuildWait]
    /\ nap \in [Calls -> Naps]
    /\ fetched \in [Calls -> Request]
    /\ drafts \in [Calls -> [Controls -> Draft]]
    /\ result \in [Calls -> Contexts]
    /\ rivals \subseteq Calls
StoreTyped ==
    /\ edits \in 0..MaxEdits
    /\ manuals \in [ManualKeys -> Manual \cup {NoManual}]
    /\ stray \subseteq ManualKeys
RedisTyped ==
    /\ cache \in [Keys -> Contexts]
    /\ lease \in [Keys -> Held \cup {Free}]
ResetsTyped ==
    /\ generation \in Generations /\ purges \in Generations
    /\ reset \in [Resets -> [at : {"requested", "purging", "purged", "failed", "done"},
                             todo : SUBSET ManualKeys, purge : 0..purges]]
    /\ since \in [Generations -> [edits : 0..edits, purge : 0..purges]]

\* Each reset begins one purge at most, and one generation.
Counted ==
    /\ generation = Cardinality({r \in Resets : reset[r].at = "done"})
    /\ purges = Cardinality({r \in Resets : reset[r].purge > 0})
    /\ \A r \in Resets : reset[r].at = "requested" => reset[r].purge = 0

\* Only a build holds anything, and it looks for manuals only when the whole
\* configuration is there.
DraftedBy(c) ==
    /\ pc[c] # "building" => fetched[c] = NotFetched /\ drafts[c] = NoDrafts
    /\ \A m \in Controls : drafts[c][m] # Unread => Configured(c)
Drafted == \A c \in Calls : DraftedBy(c)

\* The parts together are the type invariant.
LEMMA TypeParts == TypeOK <=> CallsTyped /\ StoreTyped /\ RedisTyped /\ ResetsTyped
BY DEF TypeOK, CallsTyped, StoreTyped, RedisTyped, ResetsTyped, Held, Draft

-----------------------------------------------------------------------------
(* Facts about the data. *)

\* There are as many generations as resets, and one to begin with.
LEMMA GenerationsFacts == Cardinality(Resets) \in Nat /\ Generations = 0..Cardinality(Resets)
BY ResetsAssumption, FS_CardinalityType DEF Generations

\* A lock is set for at least one tick.
LEMMA TtlFacts == LeaseTtl \in Nat \ {0}
<1> DEFINE seconds == (RebuildLease + Second - 1) \div Second
<1>1. Second \in Nat \ {0} /\ RebuildLease \in Nat \ {0}
  BY PolicyAssumption
<1>2. seconds \in Nat \ {0}
  <2>1. RebuildLease + Second - 1 \in Nat /\ RebuildLease + Second - 1 >= Second
    BY <1>1
  <2> DEFINE n == RebuildLease + Second - 1
  <2>2. n \in Nat /\ n >= Second
    BY <2>1
  <2> HIDE DEF n
  <2>3. n \div Second \in Nat \ {0}
    BY <1>1, <2>2
  <2> QED BY <2>3 DEF n
<1> HIDE DEF seconds
<1>3. Second * seconds \in Nat \ {0}
  BY <1>1, <1>2
<1> QED BY <1>3 DEF LeaseTtl, seconds

\* Manuals that are absent or unread differ from those that are stored.
LEMMA ManualFacts ==
    /\ \A d \in Draft : d.state = "stored" => d \in Manual
    /\ \A d \in Manual : d.state = "stored" /\ d # NoManual /\ d # Unread
    /\ NoManual \in Draft /\ Unread \in Draft
    /\ NoManual.state # "stored" /\ Unread.state # "stored" /\ NoManual # Unread
BY DEF Draft, Manual, NoManual, Unread

\* The key of a call is one of the keys, and that of a manual too when the
\* configuration is known.
LEMMA KeyTyped ==
    ASSUME NEW c \in Calls, CallsTyped, ResetsTyped
    PROVE  Key(c) \in Keys
<1>1. gen[c] \in Generations
  BY GenerationsFacts DEF CallsTyped, ResetsTyped
<1> QED BY <1>1 DEF Key, Keys

\* A control whose configuration has been read names a stored manual's key.
LEMMA ManualKeyTyped ==
    ASSUME NEW c \in Calls, NEW m \in Controls, CallsTyped,
           Answered(c, <<m, "configuration">>)
    PROVE  ManualKey(c, m) \in ManualKeys
<1> DEFINE q == <<m, "configuration">>
<1>1. q \in Requests
  BY DEF Requests
<1>2. fetched[c][q] \in 0..(MaxEdits + 1) /\ fetched[c][q] > 0
  BY <1>1 DEF CallsTyped, Request, Answered
<1>3. fetched[c][q] - 1 \in 0..MaxEdits
  BY <1>2, EditsAssumption
<1> QED BY <1>3 DEF ManualKey, ManualKeys

\* What is forgotten is typed.
LEMMA ForgottenTyped ==
    /\ NotFetched \in Request /\ NoDrafts \in [Controls -> Draft]
    /\ 0 \in 0..RebuildWait /\ 0 \in Naps
<1>1. NotFetched \in Request
  BY EditsAssumption DEF NotFetched, Request
<1>2. NoDrafts \in [Controls -> Draft]
  BY DEF NoDrafts, Draft
<1> QED BY <1>1, <1>2, PolicyAssumption, AnswerAssumption DEF Naps

\* A call that leaves keeps its types.
LEMMA LeavesTyped ==
    ASSUME NEW c \in Calls, NEW to \in States, CallsTyped, Leaves(c, to)
    PROVE  /\ pc' \in [Calls -> States]
           /\ left' \in [Calls -> 0..RebuildWait]
           /\ nap' \in [Calls -> Naps]
           /\ fetched' \in [Calls -> Request]
           /\ drafts' \in [Calls -> [Controls -> Draft]]
BY ForgottenTyped DEF Leaves, Goes, CallsTyped

-----------------------------------------------------------------------------
(* Types. *)

\* The types hold initially.
LEMMA InitTyped == Init => CallsTyped /\ StoreTyped /\ RedisTyped /\ ResetsTyped
<1> SUFFICES ASSUME Init PROVE CallsTyped /\ StoreTyped /\ RedisTyped /\ ResetsTyped
  OBVIOUS
<1>1. CallsTyped
  <2>1. pc \in [Calls -> States]
    BY DEF Init, States
  <2>2. gen \in [Calls -> 0..generation]
    BY DEF Init
  <2>3. left \in [Calls -> 0..RebuildWait] /\ nap \in [Calls -> Naps]
    BY ForgottenTyped DEF Init
  <2>4. fetched \in [Calls -> Request] /\ drafts \in [Calls -> [Controls -> Draft]]
    BY ForgottenTyped DEF Init
  <2>5. result \in [Calls -> Contexts]
    BY DEF Init, Contexts
  <2> QED BY <2>1, <2>2, <2>3, <2>4, <2>5 DEF Init, CallsTyped
<1>2. StoreTyped
  BY EditsAssumption DEF Init, StoreTyped
<1>3. RedisTyped
  BY DEF Init, RedisTyped, Contexts
<1>4. ResetsTyped
  BY GenerationsFacts DEF Init, ResetsTyped
<1> QED BY <1>1, <1>2, <1>3, <1>4

\* Taking the lease, or giving it back.
LEMMA TakenTyped ==
    ASSUME NEW c \in Calls, CallsTyped, RedisTyped, ResetsTyped, Taken(c)
    PROVE  lease' \in [Keys -> Held \cup {Free}] /\ rivals' \subseteq Calls
<1>1. [owner |-> c, left |-> LeaseTtl] \in Held
  BY TtlFacts DEF Held
<1> QED BY <1>1 DEF Taken, CallsTyped, RedisTyped

\* A lock that is given back leaves a lock or none under every key.
LEMMA ReleasedTyped ==
    ASSUME NEW c \in Calls, RedisTyped
    PROVE  Released(c) \in [Keys -> Held \cup {Free}]
BY DEF Released, RedisTyped

\* A context that is built is one of the contexts.
LEMMA BuiltTyped ==
    ASSUME NEW c \in Calls, CallsTyped, Built(c)
    PROVE  Context(c) \in Contexts /\ Context(c) # NoContext
<1>1. fetched[c] \in Request
  BY DEF CallsTyped
<1>2. drafts[c] \in [Controls -> Manual]
  BY ManualFacts DEF CallsTyped, Built
<1>3. Context(c) \in Contexts
  BY <1>1, <1>2 DEF Context, Contexts
<1>4. fetched[c] # <<>>
  <2>1. DOMAIN fetched[c] = Requests /\ Requests # {}
    BY <1>1 DEF Request, Requests
  <2>2. DOMAIN <<>> = {}
    OBVIOUS
  <2> QED BY <2>1, <2>2
<1> QED BY <1>3, <1>4 DEF Context, NoContext

\* The steps of a call that goes well keep the types.
LEMMA ResolveTyped ==
    ASSUME NEW c \in Calls, CallsTyped, StoreTyped, RedisTyped, ResetsTyped, Drafted, Resolve(c)
    PROVE  CallsTyped' /\ StoreTyped' /\ RedisTyped' /\ ResetsTyped'
<1> USE DEF ctcVars, storeVars, redisVars, resetVars
<1>1. CASE ReadGeneration(c)
  <2>1. gen' \in [Calls -> 0..generation] /\ left' \in [Calls -> 0..RebuildWait]
    BY <1>1, GenerationsFacts, PolicyAssumption DEF ReadGeneration, CallsTyped, ResetsTyped
  <2>2. pc' \in [Calls -> States]
    BY <1>1 DEF ReadGeneration, Goes, CallsTyped, States
  <2> QED BY <1>1, <2>1, <2>2 DEF ReadGeneration, CallsTyped, StoreTyped, RedisTyped, ResetsTyped
<1>2. CASE ReadCache(c)
  <2>1. CASE cache[Key(c)] # NoContext
    <3>1. PICK to \in States : Leaves(c, to)
      BY <1>2, <2>1 DEF ReadCache, States, Ended
    <3>2. result' \in [Calls -> Contexts]
      BY <1>2, <2>1, KeyTyped DEF ReadCache, CallsTyped, RedisTyped
    <3> QED BY <1>2, <3>1, <3>2, LeavesTyped DEF ReadCache, CallsTyped, StoreTyped, RedisTyped,
              ResetsTyped
  <2>2. CASE cache[Key(c)] = NoContext
    <3>1. pc' \in [Calls -> States]
      BY <1>2, <2>2 DEF ReadCache, Goes, CallsTyped, States
    <3> QED BY <1>2, <2>2, <3>1 DEF ReadCache, CallsTyped, StoreTyped, RedisTyped, ResetsTyped
  <2> QED BY <2>1, <2>2
<1>3. CASE Acquire(c)
  <2>1. pc' \in [Calls -> States]
    BY <1>3 DEF Acquire, Goes, CallsTyped, States
  <2> QED BY <1>3, <2>1, TakenTyped DEF Acquire, CallsTyped, StoreTyped, RedisTyped, ResetsTyped
<1>4. CASE Refused(c)
  <2>1. nap' \in [Calls -> Naps]
    BY <1>4, PolicyAssumption, AnswerAssumption DEF Refused, CallsTyped, Naps
  <2>2. pc' \in [Calls -> States]
    BY <1>4 DEF Refused, Goes, CallsTyped, States
  <2> QED BY <1>4, <2>1, <2>2 DEF Refused, CallsTyped, StoreTyped, RedisTyped, ResetsTyped
<1>5. CASE Wakes(c)
  <2>1. pc' \in [Calls -> States]
    BY <1>5 DEF Wakes, Goes, CallsTyped, States
  <2> QED BY <1>5, <2>1 DEF Wakes, CallsTyped, StoreTyped, RedisTyped, ResetsTyped
<1>6. ASSUME NEW q \in Requests, Fetch(c, q)
      PROVE  CallsTyped' /\ StoreTyped' /\ RedisTyped' /\ ResetsTyped'
  <2>1. 1 + edits \in 0..(MaxEdits + 1)
    BY EditsAssumption DEF StoreTyped
  <2>2. fetched' \in [Calls -> Request]
    BY <1>6, <2>1 DEF Fetch, CallsTyped, Request
  <2> QED BY <1>6, <2>2 DEF Fetch, CallsTyped, StoreTyped, RedisTyped, ResetsTyped
<1>7. ASSUME NEW m \in Controls, GetManual(c, m)
      PROVE  CallsTyped' /\ StoreTyped' /\ RedisTyped' /\ ResetsTyped'
  <2>1. Answered(c, <<m, "configuration">>)
    BY <1>7 DEF GetManual, Configured, Requests
  <2>2. manuals[ManualKey(c, m)] \in Draft
    BY <2>1, ManualKeyTyped DEF StoreTyped, Draft
  <2>3. drafts' \in [Calls -> [Controls -> Draft]]
    BY <1>7, <2>2 DEF GetManual, CallsTyped
  <2> QED BY <1>7, <2>3 DEF GetManual, CallsTyped, StoreTyped, RedisTyped, ResetsTyped
<1>8. ASSUME NEW m \in Controls, PutManual(c, m)
      PROVE  CallsTyped' /\ StoreTyped' /\ RedisTyped' /\ ResetsTyped'
  <2> DEFINE k == ManualKey(c, m)
  <2>0. Answered(c, <<m, "configuration">>)
    BY <1>8, ManualFacts DEF PutManual, Drafted, DraftedBy, Configured, Requests
  <2>1. k \in ManualKeys
    BY <2>0, ManualKeyTyped
  <2>2. k[2] \in 0..MaxEdits
    BY <2>1 DEF ManualKeys
  <2>3. Summary(k[2]) \in Manual
    BY <2>2 DEF Summary, Manual, ResetsTyped
  <2> HIDE DEF k
  <2>4. drafts' \in [Calls -> [Controls -> Draft]]
    BY <1>8, <2>3 DEF PutManual, CallsTyped, Draft, k
  <2>5. manuals' \in [ManualKeys -> Manual \cup {NoManual}]
    BY <1>8, <2>3 DEF PutManual, StoreTyped, k
  <2> QED BY <1>8, <2>4, <2>5 DEF PutManual, CallsTyped, StoreTyped, RedisTyped, ResetsTyped
<1>9. CASE Publish(c)
  <2>1. PICK to \in States : Leaves(c, to)
    BY <1>9 DEF Publish, States
  <2>2. cache' \in [Keys -> Contexts] /\ result' \in [Calls -> Contexts]
    BY <1>9, BuiltTyped DEF Publish, Published, CallsTyped, RedisTyped
  <2> QED BY <1>9, <2>1, <2>2, LeavesTyped DEF Publish, CallsTyped, StoreTyped, RedisTyped, ResetsTyped
<1>10. CASE Release(c)
  <2>1. PICK to \in States : Leaves(c, to)
    BY <1>10 DEF Release, States, Ended
  <2>2. lease' \in [Keys -> Held \cup {Free}]
    BY <1>10, ReleasedTyped DEF Release
  <2> QED BY <1>10, <2>1, <2>2, LeavesTyped DEF Release, CallsTyped, StoreTyped, RedisTyped, ResetsTyped
<1>11. CASE LooksAtDeadline(c)
  <2>1. CASE TimeIsUp(c)
    <3>1. Leaves(c, "timed_out") /\ "timed_out" \in States
      BY <1>11, <2>1 DEF LooksAtDeadline, States, Ended
    <3> QED BY <1>11, <3>1, LeavesTyped
            DEF LooksAtDeadline, CallsTyped, StoreTyped, RedisTyped, ResetsTyped
  <2>2. CASE ~TimeIsUp(c)
    <3>1. nap' \in [Calls -> Naps]
      BY <1>11, <2>2, PolicyAssumption, AnswerAssumption DEF LooksAtDeadline, CallsTyped, Naps
    <3>2. pc' \in [Calls -> States]
      BY <1>11, <2>2 DEF LooksAtDeadline, Goes, CallsTyped, States
    <3> QED BY <1>11, <2>2, <3>1, <3>2
            DEF LooksAtDeadline, CallsTyped, StoreTyped, RedisTyped, ResetsTyped
  <2> QED BY <2>1, <2>2
<1>12. CASE AsksAgain(c)
  <2>1. nap' \in [Calls -> Naps]
    BY <1>12, ForgottenTyped DEF AsksAgain, CallsTyped
  <2>2. pc' \in [Calls -> States]
    BY <1>12 DEF AsksAgain, Goes, CallsTyped, States
  <2>3. lease' \in [Keys -> Held \cup {Free}] /\ rivals' \subseteq Calls
    BY <1>12, TakenTyped DEF AsksAgain, RedisTyped, CallsTyped
  <2> QED BY <1>12, <2>1, <2>2, <2>3 DEF AsksAgain, CallsTyped, StoreTyped, RedisTyped, ResetsTyped
<1> QED BY <1>1, <1>2, <1>3, <1>4, <1>5, <1>6, <1>7, <1>8, <1>9, <1>10, <1>11, <1>12
       DEF Resolve

\* A call in trouble leaves, and so keeps the types.
LEMMA TroubleTyped ==
    ASSUME NEW c \in Calls, CallsTyped, StoreTyped, RedisTyped, ResetsTyped, Trouble(c)
    PROVE  CallsTyped' /\ StoreTyped' /\ RedisTyped' /\ ResetsTyped'
<1>1. PICK to \in {"raised", "failing", "dead"} : Leaves(c, to)
  BY DEF Trouble, AcquireUnheard, PublishUnheard, ReleaseFails, GenerationUnavailable,
         CacheUnavailable, FetchFails, Incomplete, ManualFails, Cancelled, Dies
<1>2. to \in States
  BY DEF States, Ended
<1>3. UNCHANGED <<ctcVars, manuals, resetVars, gen, result>>
  BY DEF Trouble, AcquireUnheard, PublishUnheard, ReleaseFails, GenerationUnavailable,
         CacheUnavailable, FetchFails, Incomplete, ManualFails, Cancelled, Dies, Unpublished,
         storeVars
<1>4. stray' \subseteq ManualKeys
  <2>1. CASE ManualFails(c)
    <3>1. PICK late \in SUBSET {m \in Controls : drafts[c][m] = NoManual} :
             stray' = stray \cup {ManualKey(c, m) : m \in late}
      BY <2>1 DEF ManualFails
    <3>2. \A m \in late : Answered(c, <<m, "configuration">>)
      BY <2>1 DEF ManualFails, Configured, Requests
    <3>3. \A m \in late : ManualKey(c, m) \in ManualKeys
      BY <3>2, ManualKeyTyped
    <3> QED BY <3>1, <3>3 DEF StoreTyped
  <2>2. CASE ~ManualFails(c)
    BY <2>2 DEF Trouble, AcquireUnheard, PublishUnheard, ReleaseFails, GenerationUnavailable,
         CacheUnavailable, FetchFails, Incomplete, Cancelled, Dies, storeVars, StoreTyped
  <2> QED BY <2>1, <2>2
<1>5. lease' \in [Keys -> Held \cup {Free}] /\ rivals' \subseteq Calls
  <2>1. CASE AcquireUnheard(c)
    BY <2>1, TakenTyped DEF AcquireUnheard
  <2>2. CASE ReleaseFails(c)
    BY <2>2, ReleasedTyped DEF ReleaseFails, RedisTyped, CallsTyped
  <2>3. CASE ~AcquireUnheard(c) /\ ~ReleaseFails(c)
    BY <2>3 DEF Trouble, PublishUnheard, GenerationUnavailable, CacheUnavailable, FetchFails,
         Incomplete, ManualFails, Cancelled, Dies, Unpublished, redisVars, RedisTyped, CallsTyped
  <2> QED BY <2>1, <2>2, <2>3
<1>6. cache' \in [Keys -> Contexts]
  <2>1. CASE PublishUnheard(c)
    BY <2>1, BuiltTyped DEF PublishUnheard, Published, RedisTyped
  <2>2. CASE ~PublishUnheard(c)
    BY <2>2 DEF Trouble, AcquireUnheard, ReleaseFails, GenerationUnavailable, CacheUnavailable,
         FetchFails, Incomplete, ManualFails, Cancelled, Dies, Unpublished, redisVars, RedisTyped
  <2> QED BY <2>1, <2>2
<1> QED BY <1>1, <1>2, <1>3, <1>4, <1>5, <1>6, LeavesTyped
       DEF CallsTyped, StoreTyped, RedisTyped, ResetsTyped, ctcVars, resetVars

\* The resets that began a purge, and those that are done.
Purgers == {r \in Resets : reset[r].purge > 0}
Done == {r \in Resets : reset[r].at = "done"}

\* One more reset than those counted so far is still one of the resets.
LEMMA OneMore ==
    ASSUME NEW S \in SUBSET Resets, NEW r \in Resets \ S
    PROVE  /\ IsFiniteSet(S) /\ Cardinality(S) \in Nat
           /\ Cardinality(S \cup {r}) = Cardinality(S) + 1
           /\ Cardinality(S) + 1 <= Cardinality(Resets)
<1>1. IsFiniteSet(S) /\ Cardinality(S) \in Nat
  BY ResetsAssumption, FS_Subset, FS_CardinalityType
<1>2. Cardinality(S \cup {r}) = Cardinality(S) + 1
  BY <1>1, FS_AddElement
<1>3. S \cup {r} \subseteq Resets
  OBVIOUS
<1>4. Cardinality(S \cup {r}) <= Cardinality(Resets)
  BY <1>3, ResetsAssumption, FS_Subset
<1> QED BY <1>1, <1>2, <1>4

\* The steps of a reset keep the types, and count.
LEMMA ResetTyped ==
    ASSUME NEW r \in Resets, CallsTyped, StoreTyped, RedisTyped, ResetsTyped, Counted, Reset(r)
    PROVE  CallsTyped' /\ StoreTyped' /\ RedisTyped' /\ ResetsTyped' /\ Counted'
<1> USE DEF ctcVars, storeVars, redisVars, callVars
<1>1. CASE BeginPurge(r)
  <2>1. reset[r].at = "requested" /\ reset[r].purge = 0
    BY <1>1 DEF BeginPurge, Counted
  <2>2. Purgers' = Purgers \cup {r} /\ Done' = Done /\ r \notin Purgers
    <3>1. purges + 1 > 0
      BY GenerationsFacts DEF ResetsTyped
    <3>2. reset'[r].purge > 0 /\ reset'[r].at = "purging"
      BY <1>1, <3>1 DEF BeginPurge, ResetsTyped
    <3>3. \A d \in Resets \ {r} : reset'[d] = reset[d]
      BY <1>1 DEF BeginPurge, ResetsTyped
    <3> QED BY <2>1, <3>2, <3>3 DEF Purgers, Done
  <2>3. purges' = purges + 1 /\ purges = Cardinality(Purgers) /\ Purgers \subseteq Resets
    BY <1>1 DEF BeginPurge, Counted, Purgers
  <2>4. purges' = Cardinality(Purgers') /\ purges' \in Generations
    BY <2>2, <2>3, OneMore, GenerationsFacts
  <2>5. Counted'
    BY <1>1, <2>2, <2>4 DEF BeginPurge, Counted, Purgers, Done, ResetsTyped
  <2>6. purges \in Nat /\ 0..purges \subseteq 0..purges' /\ purges + 1 \in 0..purges'
    BY <2>3, GenerationsFacts DEF ResetsTyped
  <2>7. StoredKeys \in SUBSET ManualKeys
    BY DEF StoredKeys
  <2>8. reset' \in [Resets -> [at : {"requested", "purging", "purged", "failed", "done"},
                               todo : SUBSET ManualKeys, purge : 0..purges']]
    BY <1>1, <2>6, <2>7 DEF BeginPurge, ResetsTyped
  <2>9. since \in [Generations -> [edits : 0..edits, purge : 0..purges']]
    BY <2>6 DEF ResetsTyped
  <2> QED BY <1>1, <2>4, <2>5, <2>8, <2>9 DEF BeginPurge, CallsTyped, StoreTyped, RedisTyped, ResetsTyped
<1>2. CASE SkipPurge(r) \/ DeletePage(r) \/ PurgeEnds(r) \/ ResetFails(r)
  <2>1. UNCHANGED <<generation, purges, since, edits, stray, cache, lease, callVars>>
    BY <1>2 DEF SkipPurge, DeletePage, PurgeEnds, ResetFails
  <2>2. /\ reset' \in [Resets -> [at : {"requested", "purging", "purged", "failed", "done"},
                                  todo : SUBSET ManualKeys, purge : 0..purges]]
        /\ \A d \in Resets : reset'[d].purge = reset[d].purge
        /\ \A d \in Resets : reset'[d].at = "done" <=> reset[d].at = "done"
        /\ \A d \in Resets : reset'[d].at = "requested" => reset[d].at = "requested"
    BY <1>2 DEF SkipPurge, DeletePage, PurgeEnds, ResetFails, ResetsTyped
  <2>3. manuals' \in [ManualKeys -> Manual \cup {NoManual}]
    BY <1>2 DEF SkipPurge, DeletePage, PurgeEnds, ResetFails, StoreTyped
  <2>4. Counted'
    BY <2>1, <2>2 DEF Counted
  <2> QED BY <2>1, <2>2, <2>3, <2>4 DEF CallsTyped, StoreTyped, RedisTyped, ResetsTyped
<1>3. CASE IncrementGeneration(r)
  <2>1. reset[r].at = "purged" /\ generation' = generation + 1 /\ UNCHANGED purges
    BY <1>3 DEF IncrementGeneration, Advanced
  <2>2. Done' = Done \cup {r} /\ Purgers' = Purgers /\ r \notin Done
    BY <1>3, <2>1 DEF IncrementGeneration, Purgers, Done, ResetsTyped
  <2>3. generation = Cardinality(Done) /\ Done \subseteq Resets
    BY DEF Counted, Done
  <2>4. generation' = Cardinality(Done') /\ generation' \in Generations
    <3>1. /\ Cardinality(Done \cup {r}) = Cardinality(Done) + 1 /\ Cardinality(Done) \in Nat
          /\ Cardinality(Done) + 1 <= Cardinality(Resets)
      BY <2>2, <2>3, OneMore
    <3> QED BY <2>1, <2>2, <2>3, <3>1, GenerationsFacts
  <2>5. reset' \in [Resets -> [at : {"requested", "purging", "purged", "failed", "done"},
                               todo : SUBSET ManualKeys, purge : 0..purges]]
    BY <1>3 DEF IncrementGeneration, ResetsTyped
  <2>6. Counted'
    <3>1. \A d \in Resets : reset'[d].purge = reset[d].purge
      BY <1>3 DEF IncrementGeneration, ResetsTyped
    <3>2. \A d \in Resets : reset'[d].at = "requested" => reset[d].at = "requested"
      BY <1>3 DEF IncrementGeneration, ResetsTyped
    <3> QED BY <2>1, <2>2, <2>4, <3>1, <3>2 DEF Counted, Purgers, Done
  <2>7. since' \in [Generations -> [edits : 0..edits, purge : 0..purges]]
    <3>1. edits \in 0..edits /\ reset[r].purge \in 0..purges /\ since[generation].purge \in 0..purges
      BY DEF StoreTyped, ResetsTyped
    <3> QED BY <1>3, <3>1 DEF IncrementGeneration, Advanced, ResetsTyped
  <2>8. gen \in [Calls -> 0..generation']
    <3>1. 0..generation \subseteq 0..generation'
      BY <2>1, GenerationsFacts DEF ResetsTyped
    <3> QED BY <3>1 DEF CallsTyped
  <2> QED BY <1>3, <2>1, <2>4, <2>5, <2>6, <2>7, <2>8
          DEF IncrementGeneration, CallsTyped, StoreTyped, RedisTyped, ResetsTyped
<1> QED BY <1>1, <1>2, <1>3 DEF Reset

\* Late uploads, edits and the clock keep the types.
LEMMA WorldTyped ==
    ASSUME CallsTyped, StoreTyped, RedisTyped, ResetsTyped,
           (\E k \in ManualKeys : LandsLate(k)) \/ Edit \/ Tick
    PROVE  CallsTyped' /\ StoreTyped' /\ RedisTyped' /\ ResetsTyped'
<1> USE DEF ctcVars, redisVars, callVars, resetVars
<1>1. ASSUME NEW k \in ManualKeys, LandsLate(k)
      PROVE  CallsTyped' /\ StoreTyped' /\ RedisTyped' /\ ResetsTyped'
  <2>1. Summary(k[2]) \in Manual
    BY DEF Summary, Manual, ManualKeys, ResetsTyped
  <2> QED BY <1>1, <2>1 DEF LandsLate, CallsTyped, StoreTyped, RedisTyped, ResetsTyped
<1>2. CASE Edit
  <2>1. edits' \in 0..MaxEdits /\ 0..edits \subseteq 0..edits'
    BY <1>2, EditsAssumption DEF Edit, StoreTyped
  <2>2. since \in [Generations -> [edits : 0..edits', purge : 0..purges]]
    BY <2>1 DEF ResetsTyped
  <2> QED BY <1>2, <2>1, <2>2 DEF Edit, storeVars, CallsTyped, StoreTyped, RedisTyped, ResetsTyped
<1>3. CASE Tick
  <2>1. ASSUME NEW n \in Nat, NEW i \in 0..n PROVE Less(i) \in 0..n
    BY DEF Less
  <2>2. left' \in [Calls -> 0..RebuildWait] /\ nap' \in [Calls -> Naps]
    BY <1>3, <2>1, PolicyAssumption, AnswerAssumption DEF Tick, CallsTyped, Naps
  <2>3. ASSUME NEW l \in Held \cup {Free} PROVE Lapsed(l) \in Held \cup {Free}
    <3>1. CASE l \in Held /\ l.left # 1
      <4>1. Less(l.left) \in 1..LeaseTtl
        BY <3>1, TtlFacts DEF Held, Less
      <4> QED BY <3>1, <4>1 DEF Lapsed, Held
    <3>2. CASE l.left = 1
      BY <3>2 DEF Lapsed
    <3>3. CASE l = Free
      BY <3>3 DEF Lapsed, Free, Less
    <3> QED BY <3>1, <3>2, <3>3
  <2>4. lease' \in [Keys -> Held \cup {Free}]
    BY <1>3, <2>3 DEF Tick, RedisTyped
  <2> QED BY <1>3, <2>2, <2>4 DEF Tick, storeVars, CallsTyped, StoreTyped, RedisTyped, ResetsTyped
<1> QED BY <1>1, <1>2, <1>3

-----------------------------------------------------------------------------
(* Builds. *)

\* A call that leaves holds nothing.
LEMMA LeavesHolding ==
    ASSUME NEW c \in Calls, NEW to, CallsTyped, Leaves(c, to)
    PROVE  /\ pc'[c] = to /\ fetched'[c] = NotFetched /\ drafts'[c] = NoDrafts
           /\ \A d \in Calls \ {c} : pc'[d] = pc[d] /\ fetched'[d] = fetched[d] /\ drafts'[d] = drafts[d]
BY DEF Leaves, Goes, CallsTyped

\* A call that is over holds nothing.
LEMMA LeavesDrafted ==
    ASSUME NEW c \in Calls, NEW to, to # "building", CallsTyped, Drafted, Leaves(c, to)
    PROVE  Drafted'
<1>1. DraftedBy(c)'
  BY LeavesHolding DEF DraftedBy, NoDrafts
<1>2. ASSUME NEW d \in Calls \ {c} PROVE DraftedBy(d)'
  BY LeavesHolding DEF Drafted, DraftedBy, Configured, Answered
<1> QED BY <1>1, <1>2 DEF Drafted

\* A call that goes on with what it holds.
LEMMA GoesDrafted ==
    ASSUME NEW c \in Calls, NEW to, CallsTyped, Drafted, Goes(c, to), pc[c] # "building",
           UNCHANGED <<fetched, drafts>>
    PROVE  Drafted'
BY DEF Drafted, DraftedBy, Goes, CallsTyped, Configured, Answered

\* The steps of a call that change what it holds.
LEMMA ResolveDrafted ==
    ASSUME NEW c \in Calls, CallsTyped, Drafted, Resolve(c)
    PROVE  Drafted'
<1>1. CASE ReadGeneration(c) \/ Acquire(c) \/ Refused(c) \/ Wakes(c)
  <2>1. PICK to : Goes(c, to)
    BY <1>1 DEF ReadGeneration, Acquire, Refused, Wakes
  <2>2. pc[c] # "building" /\ UNCHANGED <<fetched, drafts>>
    BY <1>1 DEF ReadGeneration, Acquire, Refused, Wakes
  <2> QED BY <2>1, <2>2, GoesDrafted
<1>2. CASE ReadCache(c) \/ AsksAgain(c) \/ LooksAtDeadline(c) \/ Publish(c) \/ Release(c)
  <2>1. CASE \E to \in States \ {"building"} : Leaves(c, to)
    BY <2>1, LeavesDrafted
  <2>2. CASE ~\E to \in States \ {"building"} : Leaves(c, to)
    <3>1. (\E to : Goes(c, to)) /\ pc[c] # "building" /\ UNCHANGED <<fetched, drafts>>
      BY <1>2, <2>2 DEF ReadCache, AsksAgain, LooksAtDeadline, Publish, Release, States, Ended
    <3> QED BY <3>1, GoesDrafted
  <2> QED BY <2>1, <2>2
<1>3. ASSUME NEW q \in Requests, Fetch(c, q) PROVE Drafted'
  <2>1. /\ pc' = pc /\ drafts' = drafts /\ pc[c] = "building" /\ ~Answered(c, q)
        /\ \A d \in Calls \ {c} : fetched'[d] = fetched[d]
    BY <1>3 DEF Fetch, CallsTyped
  <2>2. \A m \in Controls : drafts[c][m] = Unread
    BY <2>1 DEF Drafted, DraftedBy, Configured
  <2> QED BY <2>1, <2>2 DEF Drafted, DraftedBy, Configured, Answered
<1>4. ASSUME NEW m \in Controls, GetManual(c, m) \/ PutManual(c, m) PROVE Drafted'
  <2>1. /\ pc' = pc /\ fetched' = fetched /\ pc[c] = "building"
        /\ \A d \in Calls \ {c} : drafts'[d] = drafts[d]
    BY <1>4 DEF GetManual, PutManual, CallsTyped
  <2>2. Configured(c)
    BY <1>4, ManualFacts DEF GetManual, PutManual, Drafted, DraftedBy
  <2> QED BY <2>1, <2>2 DEF Drafted, DraftedBy, Configured, Answered
<1> QED BY <1>1, <1>2, <1>3, <1>4 DEF Resolve

\* Every failure ends the call or sends it to its release.
LEMMA TroubleLeaves ==
    ASSUME NEW c \in Calls, Trouble(c)
    PROVE  \E to \in {"raised", "failing", "dead"} : Leaves(c, to)
BY DEF Trouble, AcquireUnheard, PublishUnheard, ReleaseFails, GenerationUnavailable,
       CacheUnavailable, FetchFails, Incomplete, ManualFails, Cancelled, Dies

\* Everything that is not a step of a call leaves builds alone.
LEMMA OthersLeave ==
    ASSUME (\E k \in ManualKeys : LandsLate(k)) \/ (\E r \in Resets : Reset(r)) \/ Edit \/ Tick
               \/ UNCHANGED vars
    PROVE  UNCHANGED <<pc, gen, fetched, drafts, result, rivals>>
BY DEF LandsLate, Reset, BeginPurge, SkipPurge, DeletePage, PurgeEnds, ResetFails,
       IncrementGeneration, Edit, Tick, vars, callVars

Typed == CallsTyped /\ StoreTyped /\ RedisTyped /\ ResetsTyped
Base == Typed /\ Counted /\ Drafted

\* Only resets count, or are counted.
LEMMA CallsUncounted ==
    ASSUME Counted, (\E c \in Calls : Resolve(c) \/ Trouble(c))
               \/ (\E k \in ManualKeys : LandsLate(k)) \/ Edit \/ Tick \/ UNCHANGED vars
    PROVE  Counted'
<1>1. UNCHANGED <<generation, purges, reset>>
  BY DEF Resolve, ReadGeneration, ReadCache, Acquire, Refused, AsksAgain, LooksAtDeadline, Wakes,
       Fetch, GetManual, PutManual, Publish, Release, Trouble, AcquireUnheard, PublishUnheard,
       ReleaseFails, GenerationUnavailable, CacheUnavailable, FetchFails, Incomplete, ManualFails,
       Cancelled, Dies, Unpublished, LandsLate, Edit, Tick, resetVars, vars
<1> QED BY <1>1 DEF Counted

\* Types, counts and builds are inductive together.
LEMMA NextBase == Base /\ [Next]_vars => Base'
<1> SUFFICES ASSUME Typed, Counted, Drafted, [Next]_vars PROVE Base'
  BY DEF Base
<1> USE DEF Typed, Base
<1>1. ASSUME NEW c \in Calls, Resolve(c) PROVE Base'
  BY <1>1, ResolveTyped, ResolveDrafted, CallsUncounted
<1>2. ASSUME NEW c \in Calls, Trouble(c) PROVE Base'
  <2>1. Drafted'
    BY <1>2, TroubleLeaves, LeavesDrafted
  <2> QED BY <1>2, <2>1, TroubleTyped, CallsUncounted
<1>3. CASE (\E k \in ManualKeys : LandsLate(k)) \/ (\E r \in Resets : Reset(r)) \/ Edit \/ Tick
               \/ UNCHANGED vars
  <2>1. Drafted'
    BY <1>3, OthersLeave DEF Drafted, DraftedBy, Configured, Answered
  <2>2. CASE \E r \in Resets : Reset(r)
    BY <2>1, <2>2, ResetTyped
  <2>3. CASE (\E k \in ManualKeys : LandsLate(k)) \/ Edit \/ Tick
    BY <2>1, <2>3, WorldTyped, CallsUncounted
  <2>4. CASE UNCHANGED vars
    <3>1. Typed'
      BY <2>4 DEF vars, ctcVars, storeVars, redisVars, callVars, resetVars, CallsTyped, StoreTyped,
                  RedisTyped, ResetsTyped
    <3> QED BY <2>1, <2>4, <3>1, CallsUncounted
  <2> QED BY <1>3, <2>2, <2>3, <2>4
<1> QED BY <1>1, <1>2, <1>3 DEF Next

\* Types, counts and drafts are right in every run.
LEMMA BaseHolds == Spec => []Base
<1>1. Init => Counted
  <2> SUFFICES ASSUME Init PROVE Counted
    OBVIOUS
  <2>1. {r \in Resets : reset[r].at = "done"} = {} /\ {r \in Resets : reset[r].purge > 0} = {}
    BY DEF Init
  <2> QED BY <2>1, FS_EmptySet DEF Init, Counted
<1>2. Init => Drafted
  BY DEF Init, Drafted, DraftedBy, NoDrafts
<1>3. Init => Base
  BY <1>1, <1>2, InitTyped DEF Base, Typed
<1> QED BY <1>3, NextBase, PTL DEF Spec

\* THEOREM: in every run of ControlContext the state has its types.
THEOREM ContextTypeCorrect == Spec => []TypeOK
<1>1. Base => TypeOK
  BY TypeParts DEF Base, Typed
<1> QED BY <1>1, BaseHolds, PTL

-----------------------------------------------------------------------------
(* One context for all. *)

Early == {"called", "reading", "acquiring", "refused", "sleeping"}

\* Who builds with the lease is the first to publish; what a call returns is there.
SharedBy(c) ==
    /\ Owns(c) /\ pc[c] = "building" => cache[Key(c)] = NoContext
    /\ pc[c] \in {"returned", "releasing"} => result[c] = cache[Key(c)] /\ cache[Key(c)] # NoContext
Shared == \A c \in Calls : SharedBy(c)

\* A call moves itself alone, and never back to where it had no lease.
LEMMA CallMoves ==
    ASSUME NEW c \in Calls, CallsTyped, Resolve(c) \/ Trouble(c)
    PROVE  /\ \A d \in Calls \ {c} : pc'[d] = pc[d] /\ gen'[d] = gen[d] /\ result'[d] = result[d]
           /\ pc[c] # "called" => gen'[c] = gen[c]
           /\ pc[c] \notin Early => pc'[c] \notin Early
           /\ pc'[c] = "building" => pc[c] \in {"rereading", "building"}
<1> USE DEF Early, Leaves, Goes, CallsTyped
<1>1. CASE ReadGeneration(c) \/ ReadCache(c) \/ Acquire(c) \/ Refused(c)
           \/ AsksAgain(c) \/ LooksAtDeadline(c) \/ Wakes(c)
  BY <1>1 DEF ReadGeneration, ReadCache, Acquire, Refused, AsksAgain, LooksAtDeadline, Wakes
<1>2. CASE \/ \E q \in Requests : Fetch(c, q)
           \/ \E m \in Controls : GetManual(c, m) \/ PutManual(c, m)
  BY <1>2 DEF Fetch, GetManual, PutManual
<1>3. CASE Publish(c) \/ Release(c)
  BY <1>3 DEF Publish, Release, Built
<1>4. CASE Trouble(c)
  <2>1. PICK to \in {"raised", "failing", "dead"} : Leaves(c, to)
    BY <1>4, TroubleLeaves
  <2>2. UNCHANGED <<gen, result>>
    BY <1>4 DEF Trouble, AcquireUnheard, PublishUnheard, ReleaseFails, GenerationUnavailable,
         CacheUnavailable, FetchFails, Incomplete, ManualFails, Cancelled, Dies, Unpublished
  <2> QED BY <2>1, <2>2
<1> QED BY <1>1, <1>2, <1>3, <1>4 DEF Resolve

\* The lease of a key after a step of a call: as it was, taken by the call, or free.
LEMMA CallLeases ==
    ASSUME NEW c \in Calls, Typed, Resolve(c) \/ Trouble(c)
    PROVE  \A k \in Keys : \/ lease'[k] = lease[k] \/ lease'[k] = Free
                           \/ /\ k = Key(c) /\ Taken(c)
                              /\ lease'[k] = [owner |-> c, left |-> LeaseTtl]
<1>1. CASE Taken(c)
  BY <1>1 DEF Taken, Typed, RedisTyped
<1>2. CASE Release(c) \/ ReleaseFails(c)
  <2>1. lease' \in {lease, Released(c)}
    BY <1>2 DEF Release, ReleaseFails
  <2> QED BY <2>1 DEF Released, Typed, RedisTyped
<1>3. CASE ~Taken(c) /\ ~(Release(c) \/ ReleaseFails(c))
  <2>1. UNCHANGED lease
    BY <1>3 DEF Resolve, ReadGeneration, ReadCache, Acquire, Refused, AsksAgain, LooksAtDeadline,
         Wakes, Fetch, GetManual, PutManual, Publish, Trouble, AcquireUnheard, PublishUnheard,
         GenerationUnavailable, CacheUnavailable, FetchFails, Incomplete, ManualFails, Cancelled,
         Dies, Unpublished, redisVars
  <2> QED BY <2>1
<1> QED BY <1>1, <1>2, <1>3

\* Steps that are not a call's let leases lapse, and nothing else.
LEMMA OtherLeases ==
    ASSUME Typed, (\E k \in ManualKeys : LandsLate(k)) \/ (\E r \in Resets : Reset(r)) \/ Edit
                      \/ Tick \/ UNCHANGED vars
    PROVE  /\ UNCHANGED cache
           /\ \A k \in Keys : lease'[k] = Free \/ lease'[k].owner = lease[k].owner
           /\ \A k \in Keys : lease'[k] # Free => lease[k] # Free
<1>1. UNCHANGED cache
  BY DEF LandsLate, Reset, BeginPurge, SkipPurge, DeletePage, PurgeEnds, ResetFails,
         IncrementGeneration, Edit, Tick, vars, redisVars
<1>2. CASE Tick
  <2>1. \A k \in Keys : lease'[k] = Lapsed(lease[k])
    BY <1>2 DEF Tick
  <2>2. ASSUME NEW l \in Held \cup {Free}
        PROVE  /\ Lapsed(l) = Free \/ Lapsed(l).owner = l.owner
               /\ Lapsed(l) # Free => l # Free
    BY DEF Lapsed, Free, Held, Less
  <2> QED BY <1>1, <2>1, <2>2 DEF Typed, RedisTyped
<1>3. CASE ~Tick
  <2>1. UNCHANGED lease
    BY <1>3 DEF LandsLate, Reset, BeginPurge, SkipPurge, DeletePage, PurgeEnds, ResetFails,
         IncrementGeneration, Edit, vars, redisVars
  <2> QED BY <1>1, <2>1
<1> QED BY <1>2, <1>3

\* A context is published by who builds with the lease.
LEMMA CallCaches ==
    ASSUME NEW c \in Calls, Typed, Resolve(c) \/ Trouble(c)
    PROVE  \/ UNCHANGED cache
           \/ /\ Owns(c) /\ pc[c] = "building" /\ pc'[c] \in {"releasing", "failing"}
              /\ cache' = [cache EXCEPT ![Key(c)] = Context(c)]
              /\ Context(c) # NoContext
              /\ pc'[c] = "releasing" => result'[c] = Context(c)
<1>1. CASE Publish(c) /\ Owns(c)
  <2>1. pc'[c] = "releasing" /\ result'[c] = Context(c)
    BY <1>1 DEF Publish, Leaves, Goes, Typed, CallsTyped
  <2> QED BY <1>1, <2>1, BuiltTyped DEF Publish, Built, Published, Typed
<1>2. CASE PublishUnheard(c)
  <2>1. pc'[c] = "failing"
    BY <1>2 DEF PublishUnheard, Leaves, Goes, Typed, CallsTyped
  <2> QED BY <1>2, <2>1, BuiltTyped DEF PublishUnheard, Built, Published, Typed
<1>3. CASE ~(Publish(c) /\ Owns(c)) /\ ~PublishUnheard(c)
  BY <1>3 DEF Resolve, ReadGeneration, ReadCache, Acquire, Refused, AsksAgain, LooksAtDeadline,
       Wakes, Fetch, GetManual, PutManual, Publish, Release, Trouble, AcquireUnheard,
       ReleaseFails, GenerationUnavailable, CacheUnavailable, FetchFails, Incomplete, ManualFails,
       Cancelled, Dies, Unpublished, redisVars
<1> QED BY <1>1, <1>2, <1>3

\* The call that moves: it begins to build where nothing is published, and returns
\* what it has read or published.
LEMMA MoverShares ==
    ASSUME NEW c \in Calls, Typed, SharedBy(c), Resolve(c) \/ Trouble(c)
    PROVE  SharedBy(c)'
<1> USE DEF Typed, CallsTyped, SharedBy, Leaves, Goes
<1>1. CASE ReadCache(c)
  <2>1. UNCHANGED <<gen, cache>>
    BY <1>1 DEF ReadCache, redisVars
  <2>2. Key(c)' = Key(c)
    BY <2>1 DEF Key
  <2>3. CASE cache[Key(c)] # NoContext
    <3>1. result'[c] = cache[Key(c)] /\ pc'[c] # "building"
      BY <1>1, <2>3 DEF ReadCache
    <3> QED BY <2>1, <2>2, <2>3, <3>1
  <2>4. CASE cache[Key(c)] = NoContext
    <3>1. pc'[c] \in {"acquiring", "building"}
      BY <1>1, <2>4 DEF ReadCache
    <3> QED BY <2>1, <2>2, <2>4, <3>1
  <2> QED BY <2>3, <2>4
<1>2. CASE Publish(c)
  <2>1. Key(c)' = Key(c)
    BY <1>2 DEF Publish, Key
  <2>2. CASE Owns(c)
    <3>1. /\ pc'[c] = "releasing" /\ result'[c] = Context(c) /\ Context(c) # NoContext
          /\ cache'[Key(c)] = Context(c)
      BY <1>2, <2>2, BuiltTyped, KeyTyped DEF Publish, Published, RedisTyped
    <3> QED BY <2>1, <3>1
  <2>3. CASE ~Owns(c)
    <3>1. pc'[c] = "failing"
      BY <1>2, <2>3 DEF Publish
    <3> QED BY <3>1
  <2> QED BY <2>2, <2>3
<1>3. CASE Release(c)
  <2>1. UNCHANGED <<gen, cache, result>> /\ pc'[c] # "building"
    BY <1>3 DEF Release
  <2>2. pc'[c] \in {"returned", "releasing"} => pc[c] = "releasing"
    BY <1>3 DEF Release
  <2> QED BY <2>1, <2>2 DEF Key
<1>4. CASE \/ \E q \in Requests : Fetch(c, q)
           \/ \E m \in Controls : GetManual(c, m) \/ PutManual(c, m)
  <2>1. UNCHANGED <<pc, gen, cache, lease, result>>
    BY <1>4 DEF Fetch, GetManual, PutManual, redisVars
  <2> QED BY <2>1 DEF Key, Owns
<1>5. CASE ReadGeneration(c) \/ Acquire(c) \/ Refused(c) \/ AsksAgain(c) \/ LooksAtDeadline(c)
           \/ Wakes(c)
  <2>1. pc'[c] \in {"reading", "acquiring", "rereading", "refused", "timed_out", "sleeping"}
    BY <1>5 DEF ReadGeneration, Acquire, Refused, AsksAgain, LooksAtDeadline, Wakes
  <2> QED BY <2>1
<1>6. CASE Trouble(c)
  <2>1. pc'[c] \in {"raised", "failing", "dead"}
    BY <1>6, TroubleLeaves
  <2> QED BY <2>1
<1> QED BY <1>1, <1>2, <1>3, <1>4, <1>5, <1>6 DEF Resolve

\* The others: a context is published under their key only where there was none.
LEMMA OthersShare ==
    ASSUME NEW c \in Calls, NEW d \in Calls \ {c}, Typed, SharedBy(c), SharedBy(d),
           Resolve(c) \/ Trouble(c)
    PROVE  SharedBy(d)'
<1>1. pc'[d] = pc[d] /\ gen'[d] = gen[d] /\ result'[d] = result[d] /\ Key(d)' = Key(d)
  BY CallMoves DEF Typed, Key
<1>2. Key(d) \in Keys /\ Key(c) \in Keys
  BY KeyTyped DEF Typed
<1>3. Owns(d)' => Owns(d) /\ lease'[Key(d)] = lease[Key(d)]
  <2> SUFFICES ASSUME lease'[Key(d)].owner = d PROVE lease'[Key(d)] = lease[Key(d)]
    BY <1>1 DEF Owns
  <2>1. lease'[Key(d)] # Free
    BY CallsAssumption DEF Free
  <2>2. lease'[Key(d)] # [owner |-> c, left |-> LeaseTtl]
    OBVIOUS
  <2> QED BY <1>2, <2>1, <2>2, CallLeases
<1>4. CASE UNCHANGED cache
  BY <1>1, <1>3, <1>4 DEF SharedBy
<1>5. CASE Owns(c) /\ pc[c] = "building" /\ cache' = [cache EXCEPT ![Key(c)] = Context(c)]
  <2>1. CASE Key(d) = Key(c)
    <3>1. cache[Key(d)] = NoContext /\ ~Owns(d)
      BY <1>5, <2>1 DEF SharedBy, Owns
    <3> QED BY <1>1, <1>3, <3>1 DEF SharedBy
  <2>2. CASE Key(d) # Key(c)
    <3>1. cache'[Key(d)] = cache[Key(d)]
      BY <1>2, <1>5, <2>2 DEF Typed, RedisTyped
    <3> QED BY <1>1, <1>3, <3>1 DEF SharedBy
  <2> QED BY <2>1, <2>2
<1> QED BY <1>4, <1>5, CallCaches

\* All that is returned is what is published.
LEMMA NextShared == Typed /\ Shared /\ [Next]_vars => Shared'
<1> SUFFICES ASSUME Typed, Shared, [Next]_vars, NEW d \in Calls PROVE SharedBy(d)'
  BY DEF Shared
<1>1. ASSUME NEW c \in Calls, Resolve(c) \/ Trouble(c) PROVE SharedBy(d)'
  BY <1>1, MoverShares, OthersShare DEF Shared
<1>2. CASE (\E j \in ManualKeys : LandsLate(j)) \/ (\E r \in Resets : Reset(r)) \/ Edit \/ Tick
               \/ UNCHANGED vars
  <2>1. pc' = pc /\ gen' = gen /\ result' = result /\ cache' = cache
    BY <1>2, OthersLeave, OtherLeases
  <2>2. Owns(d)' => Owns(d)
    <3>1. lease'[Key(d)] = Free \/ lease'[Key(d)].owner = lease[Key(d)].owner
      BY <1>2, OtherLeases, KeyTyped DEF Typed
    <3> QED BY <2>1, <3>1, CallsAssumption DEF Owns, Key, Free
  <2>3. SharedBy(d)
    BY DEF Shared
  <2> QED BY <2>1, <2>2, <2>3 DEF SharedBy, Key
<1> QED BY <1>1, <1>2 DEF Next

\* THEOREM: however many calls, of however many workers, build, lose their lease, fail
\* or die: those of a release and generation that return do so with one context.
THEOREM SharedContextCorrect == Spec => []SharedContext
<1>1. Init => Shared
  BY DEF Init, Shared, SharedBy
<1>2. Shared => SharedContext
  BY DEF Shared, SharedBy, SharedContext
<1>3. Base => Typed
  BY DEF Base
<1> QED BY <1>1, <1>2, <1>3, NextShared, BaseHolds, PTL DEF Spec

-----------------------------------------------------------------------------
(* The agreement.  What is seen of a call is how it begins, publishes and ends; *)
(* the lease only decides who publishes.                                       *)

Agreed == [Agreement!AgreementNext]_(Agreement!agreement)

Outcomes == [c \in Calls |-> Outcome(c)]
Answers == [c \in Calls |-> Answer(c)]

\* A step of a call leaves the generation alone, and begins a call or goes on with one.
LEMMA CallGoesOn ==
    ASSUME NEW c \in Calls, CallsTyped, Resolve(c) \/ Trouble(c)
    PROVE  /\ generation' = generation
           /\ pc[c] \notin Ended /\ pc'[c] # "called"
           /\ \/ pc[c] = "called" /\ pc'[c] = "reading"
                 /\ gen' = [gen EXCEPT ![c] = generation]
              \/ pc[c] = "called" /\ pc'[c] \in {"raised", "dead"} /\ gen' = gen
              \/ pc[c] # "called" /\ gen' = gen
<1> USE DEF Leaves, Goes, CallsTyped, Ended
<1>1. CASE ReadGeneration(c)
  BY <1>1 DEF ReadGeneration, resetVars
<1>2. CASE ReadCache(c) \/ Acquire(c) \/ Refused(c) \/ AsksAgain(c) \/ LooksAtDeadline(c)
           \/ Wakes(c)
  BY <1>2 DEF ReadCache, Acquire, Refused, AsksAgain, LooksAtDeadline, Wakes, resetVars
<1>3. CASE \/ \E q \in Requests : Fetch(c, q)
           \/ \E m \in Controls : GetManual(c, m) \/ PutManual(c, m)
  BY <1>3 DEF Fetch, GetManual, PutManual, resetVars
<1>4. CASE Publish(c) \/ Release(c)
  BY <1>4 DEF Publish, Release, Built, resetVars
<1>5. CASE AcquireUnheard(c) \/ PublishUnheard(c) \/ ReleaseFails(c)
  BY <1>5 DEF AcquireUnheard, PublishUnheard, ReleaseFails, Built, resetVars
<1>6. CASE GenerationUnavailable(c) \/ CacheUnavailable(c) \/ FetchFails(c) \/ Incomplete(c)
  BY <1>6 DEF GenerationUnavailable, CacheUnavailable, FetchFails, Incomplete, Built,
       Unpublished, resetVars
<1>7. CASE ManualFails(c) \/ Cancelled(c) \/ Dies(c)
  BY <1>7 DEF ManualFails, Cancelled, Dies, Unpublished, resetVars
<1> QED BY <1>1, <1>2, <1>3, <1>4, <1>5, <1>6, <1>7 DEF Resolve, Trouble

\* It changes nothing of what is seen of the others.
LEMMA OneOutcome ==
    ASSUME NEW c \in Calls, CallsTyped, Resolve(c) \/ Trouble(c)
    PROVE  /\ Outcomes' = [Outcomes EXCEPT ![c] = Outcome(c)']
           /\ Answers' = [Answers EXCEPT ![c] = Answer(c)']
<1>1. \A d \in Calls \ {c} : Outcome(d)' = Outcome(d) /\ Answer(d)' = Answer(d)
  BY CallMoves DEF Outcome, Answer
<1> QED BY <1>1 DEF Outcomes, Answers

\* A publication chooses the context of its key.
LEMMA PublicationAgrees ==
    ASSUME NEW c \in Calls, Typed, SharedBy(c), Resolve(c) \/ Trouble(c), cache' # cache
    PROVE  Agreed
<1>1. /\ Owns(c) /\ pc[c] = "building" /\ pc'[c] \in {"releasing", "failing"}
      /\ cache' = [cache EXCEPT ![Key(c)] = Context(c)]
  BY CallCaches
<1>2. cache[Key(c)] = NoContext /\ Key(c) \in Keys /\ Key(c) = Agreement!Key(c)
  BY <1>1, KeyTyped DEF SharedBy, Typed, Key, Agreement!Key
<1>3. cache'[Key(c)] = Context(c)
  BY <1>1, <1>2 DEF Typed, RedisTyped
<1>4. /\ Outcome(c) = "waiting" /\ Outcome(c)' = "waiting"
      /\ Answer(c) = NoContext /\ Answer(c)' = NoContext
  BY <1>1 DEF Outcome, Answer
<1>5. Outcomes' = Outcomes /\ Answers' = Answers
  BY <1>4, OneOutcome DEF Outcomes, Answers, Typed
<1>6. generation' = generation /\ gen' = gen
  BY <1>1, CallGoesOn DEF Typed
<1>7. Agreement!Choose(c, cache'[Agreement!Key(c)])
  BY <1>1, <1>2, <1>3, <1>4, <1>5, <1>6 DEF Agreement!Choose, Outcomes, Answers
<1> QED BY <1>7 DEF Agreed, Agreement!AgreementNext

\* Any other step of a call begins it, ends it, or is not seen.
LEMMA CallAgrees ==
    ASSUME NEW c \in Calls, Typed, SharedBy(c), SharedBy(c)', Resolve(c) \/ Trouble(c),
           cache' = cache
    PROVE  Agreed
<1>1. /\ generation' = generation
      /\ Outcomes' = [Outcomes EXCEPT ![c] = Outcome(c)']
      /\ Answers' = [Answers EXCEPT ![c] = Answer(c)']
      /\ Answer(c) = NoContext
  BY CallGoesOn, OneOutcome DEF Typed, Answer, Ended
<1>2. CASE pc[c] = "called" /\ pc'[c] = "reading"
  <2>1. Outcome(c) = "asked" /\ Outcome(c)' = "waiting" /\ Answer(c)' = NoContext
    BY <1>2 DEF Outcome, Answer
  <2>2. gen' = [gen EXCEPT ![c] = generation]
    BY <1>2, CallGoesOn DEF Typed
  <2>3. Answers' = Answers
    BY <1>1, <2>1 DEF Answers
  <2>4. Agreement!Begin(c)
    BY <1>1, <2>1, <2>2, <2>3 DEF Agreement!Begin, Agreement!Turns, Outcomes, Answers
  <2> QED BY <2>4 DEF Agreed, Agreement!AgreementNext
<1>3. CASE pc'[c] = "returned"
  <2>1. Outcome(c) = "waiting" /\ Outcome(c)' = "returned" /\ Answer(c)' = result'[c]
        /\ gen' = gen
    BY <1>3, CallGoesOn DEF Outcome, Answer, Typed, Ended
  <2>2. Key(c)' = Key(c) /\ Key(c) = Agreement!Key(c)
    BY <2>1 DEF Key, Agreement!Key
  <2>3. cache[Key(c)] # NoContext /\ result'[c] = cache[Key(c)]
    BY <1>3, <2>2 DEF SharedBy
  <2>4. Agreement!Return(c)
    BY <1>1, <2>1, <2>2, <2>3 DEF Agreement!Return, Agreement!Turns, Outcomes, Answers
  <2> QED BY <2>4 DEF Agreed, Agreement!AgreementNext
<1>4. CASE pc'[c] \in {"raised", "timed_out", "dead"}
  <2>1. /\ Outcome(c) \in {"asked", "waiting"} /\ Outcome(c)' = "failed"
        /\ Answer(c)' = NoContext /\ gen' = gen
    BY <1>4, CallGoesOn DEF Outcome, Answer, Typed, Ended
  <2>2. Answers' = Answers
    BY <1>1, <2>1 DEF Answers
  <2>3. Agreement!GiveUp(c)
    BY <1>1, <2>1, <2>2 DEF Agreement!GiveUp, Agreement!Turns, Outcomes, Answers
  <2> QED BY <2>3 DEF Agreed, Agreement!AgreementNext
<1>5. CASE /\ pc[c] # "called"
           /\ pc'[c] \notin {"returned", "raised", "timed_out", "dead"}
  <2>1. /\ Outcome(c) = "waiting" /\ Outcome(c)' = "waiting"
        /\ Answer(c)' = NoContext /\ gen' = gen
    BY <1>5, CallGoesOn DEF Outcome, Answer, Typed, Ended
  <2>2. Outcomes' = Outcomes /\ Answers' = Answers
    BY <1>1, <2>1 DEF Outcomes, Answers
  <2> QED BY <1>1, <2>1, <2>2 DEF Agreed, Agreement!agreement, Outcomes, Answers
<1> QED BY <1>2, <1>3, <1>4, <1>5, CallGoesOn DEF Typed

\* THEOREM: whatever happens to leases, builds and answers, of each release and
\* generation one context is published for good, and it is what calls return.
THEOREM AgreementCorrect == Spec => AgreementImplemented
<1>1. Init => Agreement!AgreementInit
  <2> SUFFICES ASSUME Init PROVE Agreement!AgreementInit
    OBVIOUS
  <2>1. \A c \in Calls : Outcome(c) = "asked" /\ Answer(c) = NoContext
    BY DEF Init, Outcome, Answer
  <2> QED BY <2>1 DEF Init, Keys, Agreement!AgreementInit
<1>2. Typed /\ Shared /\ Shared' /\ [Next]_vars
          => [Agreement!AgreementNext]_(Agreement!agreement)
  <2> SUFFICES ASSUME Typed, Shared, Shared', [Next]_vars PROVE Agreed
    BY DEF Agreed
  <2>1. ASSUME NEW c \in Calls, Resolve(c) \/ Trouble(c) PROVE Agreed
    BY <2>1, PublicationAgrees, CallAgrees DEF Shared
  <2>2. CASE (\E k \in ManualKeys : LandsLate(k)) \/ (\E r \in Resets : Reset(r)) \/ Edit \/ Tick
                 \/ UNCHANGED vars
    <3>1. UNCHANGED <<cache, pc, gen, result>>
      BY <2>2, OthersLeave, OtherLeases
    <3>2. Outcomes' = Outcomes /\ Answers' = Answers
      BY <3>1 DEF Outcomes, Answers, Outcome, Answer
    <3>3. generation' = generation \/ generation' = generation + 1
      BY <2>2 DEF LandsLate, Reset, BeginPurge, SkipPurge, DeletePage, PurgeEnds, ResetFails,
           IncrementGeneration, Advanced, Edit, Tick, vars, resetVars
    <3>4. CASE generation' = generation
      BY <3>1, <3>2, <3>4 DEF Agreed, Agreement!agreement, Outcomes, Answers
    <3>5. CASE generation' = generation + 1
      <4>1. Agreement!Advance
        BY <3>1, <3>2, <3>5 DEF Agreement!Advance, Outcomes, Answers
      <4> QED BY <4>1 DEF Agreed, Agreement!AgreementNext
    <3> QED BY <3>3, <3>4, <3>5
  <2> QED BY <2>1, <2>2 DEF Next
<1>3. Init => Shared
  BY DEF Init, Shared, SharedBy
<1>4. Base => Typed
  BY DEF Base
<1> QED BY <1>1, <1>2, <1>3, <1>4, NextShared, BaseHolds, PTL
        DEF Spec, AgreementImplemented, Agreement!AgreementSpec

-----------------------------------------------------------------------------
(* The wait. *)

Polling == {"reading", "acquiring", "refused", "sleeping"}

\* A lease that was there when a call began to wait ends before the wait does, and
\* leaves a refusal the time it may take.
WaitsBy(c) ==
    /\ c \notin rivals /\ pc[c] \in Polling /\ lease[Key(c)] # Free
          => lease[Key(c)].left + AnswerTime <= left[c]
    /\ c \notin rivals /\ pc[c] = "refused" => nap[c] < left[c]
    /\ pc[c] = "timed_out" => c \in rivals
Waits == \A c \in Calls : WaitsBy(c)

\* A call has its own clocks, and makes rivals only.
LEMMA CallWaits ==
    ASSUME NEW c \in Calls, Typed, Resolve(c) \/ Trouble(c)
    PROVE  /\ \A d \in Calls \ {c} : left'[d] = left[d] /\ nap'[d] = nap[d]
           /\ rivals \subseteq rivals'
<1>1. \A d \in Calls \ {c} : left'[d] = left[d] /\ nap'[d] = nap[d]
  BY DEF Typed, CallsTyped, Resolve, ReadGeneration, ReadCache, Acquire, Refused, AsksAgain,
       LooksAtDeadline, Wakes, Fetch, GetManual, PutManual, Publish, Release, Trouble,
       AcquireUnheard, PublishUnheard, ReleaseFails, GenerationUnavailable, CacheUnavailable,
       FetchFails, Incomplete, ManualFails, Cancelled, Dies, Leaves
<1>2. rivals \subseteq rivals'
  BY DEF Resolve, ReadGeneration, ReadCache, Acquire, Refused, AsksAgain, LooksAtDeadline, Wakes,
       Fetch, GetManual, PutManual, Publish, Release, Trouble, AcquireUnheard, PublishUnheard,
       ReleaseFails, Taken, GenerationUnavailable, CacheUnavailable, FetchFails, Incomplete,
       ManualFails, Cancelled, Dies, Unpublished
<1> QED BY <1>1, <1>2

\* The call that moves: it begins with a wait that is long enough, and gives up at
\* its end only.
LEMMA MoverWaits ==
    ASSUME LeaseTtl + AnswerTime <= RebuildWait, NEW c \in Calls, Typed, WaitsBy(c),
           Resolve(c) \/ Trouble(c)
    PROVE  WaitsBy(c)'
<1> USE DEF Typed, CallsTyped, Leaves, Goes
<1>1. CASE ReadGeneration(c)
  <2>1. left'[c] = RebuildWait /\ lease' = lease /\ pc'[c] = "reading"
    BY <1>1 DEF ReadGeneration, redisVars
  <2>2. Key(c)' \in Keys
    BY <1>1, GenerationsFacts DEF ReadGeneration, ResetsTyped, Key, Keys
  <2>3. lease[Key(c)'] # Free => lease[Key(c)'].left + AnswerTime <= RebuildWait
    BY <2>2, TtlFacts, PolicyAssumption, AnswerAssumption DEF RedisTyped, Held
  <2> QED BY <2>1, <2>3 DEF WaitsBy
<1>2. CASE ReadCache(c) \/ Wakes(c)
  <2>1. UNCHANGED <<gen, lease, rivals>> /\ pc[c] \in {"reading", "rereading", "sleeping"}
    BY <1>2 DEF ReadCache, Wakes, redisVars
  <2>2. \/ pc'[c] \notin Polling \cup {"timed_out"}
        \/ pc[c] \in Polling /\ pc'[c] \notin {"refused", "timed_out"} /\ left'[c] = left[c]
    BY <1>2 DEF ReadCache, Wakes, Polling
  <2> QED BY <2>1, <2>2 DEF WaitsBy, Key, Polling
<1>3. CASE Refused(c)
  <2>1. /\ UNCHANGED <<gen, lease, rivals, left>> /\ Key(c)' = Key(c)
        /\ pc[c] \in Polling /\ lease[Key(c)] # Free
        /\ pc'[c] = "refused" /\ nap'[c] = AnswerTime
    BY <1>3 DEF Refused, redisVars, Polling, Key
  <2>2. lease[Key(c)].left \in Nat \ {0} /\ left[c] \in Nat
    <3>1. lease[Key(c)] \in Held
      BY <2>1, KeyTyped DEF RedisTyped
    <3> QED BY <3>1, TtlFacts, PolicyAssumption DEF Held
  <2>3. ASSUME NEW l \in Nat \ {0}, NEW w \in Nat, l + AnswerTime <= w PROVE AnswerTime < w
    BY <2>3, AnswerAssumption
  <2>4. c \notin rivals => lease[Key(c)].left + AnswerTime <= left[c] /\ AnswerTime < left[c]
    BY <2>1, <2>2, <2>3 DEF WaitsBy
  <2>5. left' = left /\ lease' = lease /\ rivals' = rivals
    BY <2>1
  <2> QED BY <2>1, <2>4, <2>5 DEF WaitsBy
<1>4. CASE \/ Acquire(c) \/ Publish(c) \/ Release(c) \/ \E q \in Requests : Fetch(c, q)
           \/ \E m \in Controls : GetManual(c, m) \/ PutManual(c, m)
  <2>1. pc'[c] \in {"rereading", "building", "releasing", "failing", "returned", "raised"}
    BY <1>4 DEF Acquire, Publish, Release, Fetch, GetManual, PutManual
  <2> QED BY <2>1 DEF WaitsBy, Polling
<1>5. CASE Trouble(c)
  <2>1. pc'[c] \in {"raised", "failing", "dead"}
    BY <1>5, TroubleLeaves
  <2> QED BY <2>1 DEF WaitsBy, Polling
<1>6. CASE LooksAtDeadline(c)
  <2>1. UNCHANGED <<gen, lease, rivals>> /\ pc[c] = "refused"
    BY <1>6 DEF LooksAtDeadline, redisVars
  <2>2. CASE TimeIsUp(c)
    <3>1. left[c] = 0 /\ nap[c] \in Nat
      BY <2>2, PolicyAssumption, AnswerAssumption DEF TimeIsUp, Naps
    <3>2. c \in rivals
      <4>1. ~(nap[c] < left[c])
        BY <3>1
      <4> QED BY <2>1, <4>1 DEF WaitsBy
    <3>3. pc'[c] = "timed_out"
      BY <1>6, <2>2 DEF LooksAtDeadline
    <3> QED BY <2>1, <3>2, <3>3 DEF WaitsBy, Polling
  <2>3. CASE ~TimeIsUp(c)
    <3>1. pc'[c] = "sleeping" /\ left' = left
      BY <1>6, <2>3 DEF LooksAtDeadline
    <3> QED BY <2>1, <3>1 DEF WaitsBy, Key, Polling
  <2> QED BY <2>2, <2>3
<1>7. CASE AsksAgain(c)
  <2>1. CASE pc[c] = "refused"
    <3>1. UNCHANGED <<gen, lease, rivals, left>> /\ pc'[c] = "acquiring" /\ Key(c)' = Key(c)
      BY <1>7, <2>1 DEF AsksAgain, Taken, Key
    <3> QED BY <2>1, <3>1 DEF WaitsBy, Polling
  <2>2. CASE pc[c] # "refused"
    <3>1. pc[c] = "acquiring" /\ Taken(c)
      BY <1>7, <2>2 DEF AsksAgain
    <3>2. c \in rivals' /\ pc'[c] = "acquiring"
      BY <1>7, <3>1 DEF AsksAgain, Taken
    <3> QED BY <3>2 DEF WaitsBy
  <2> QED BY <2>1, <2>2
<1> QED BY <1>1, <1>2, <1>3, <1>4, <1>5, <1>6, <1>7 DEF Resolve

\* The others: a lease that is taken while they wait makes them rivals.
LEMMA OthersWait ==
    ASSUME NEW c \in Calls, NEW d \in Calls \ {c}, Typed, WaitsBy(d), Resolve(c) \/ Trouble(c)
    PROVE  WaitsBy(d)'
<1>1. /\ pc'[d] = pc[d] /\ Key(d)' = Key(d) /\ left'[d] = left[d] /\ nap'[d] = nap[d]
      /\ rivals \subseteq rivals' /\ Key(d) \in Keys
  BY CallMoves, CallWaits, KeyTyped DEF Typed, Key
<1>2. CASE lease'[Key(d)] = lease[Key(d)] \/ lease'[Key(d)] = Free
  BY <1>1, <1>2 DEF WaitsBy
<1>3. CASE Key(d) = Key(c) /\ Taken(c)
  <2>1. pc[d] \in Polling => d \in rivals'
    BY <1>3 DEF Taken, Polling
  <2> QED BY <1>1, <2>1 DEF WaitsBy
<1> QED BY <1>1, <1>2, <1>3, CallLeases

\* A tick takes from the lease what it takes from the wait.
LEMMA NextWaits == LeaseTtl + AnswerTime <= RebuildWait /\ Typed /\ Waits /\ [Next]_vars => Waits'
<1> SUFFICES ASSUME LeaseTtl + AnswerTime <= RebuildWait, Typed, Waits, [Next]_vars, NEW d \in Calls
             PROVE  WaitsBy(d)'
  BY DEF Waits
<1>0. WaitsBy(d) /\ Key(d) \in Keys
  BY KeyTyped DEF Waits, Typed
<1>1. ASSUME NEW c \in Calls, Resolve(c) \/ Trouble(c) PROVE WaitsBy(d)'
  BY <1>1, MoverWaits, OthersWait DEF Waits
<1>2. CASE Tick
  <2>1. /\ UNCHANGED <<pc, gen, rivals>> /\ Key(d)' = Key(d)
        /\ lease'[Key(d)] = Lapsed(lease[Key(d)])
        /\ left'[d] = Less(left[d]) /\ nap'[d] = Less(nap[d])
        /\ pc[d] = "refused" => nap[d] > 0
    BY <1>0, <1>2 DEF Tick, Key
  <2>2. lease[Key(d)] \in Held \cup {Free} /\ left[d] \in Nat /\ nap[d] \in Nat
    BY <1>0, PolicyAssumption, AnswerAssumption DEF Typed, RedisTyped, CallsTyped, Naps
  <2>3. Lapsed(lease[Key(d)]) # Free =>
            lease[Key(d)] # Free /\ Lapsed(lease[Key(d)]).left = lease[Key(d)].left - 1
    BY <2>2, TtlFacts DEF Lapsed, Held, Free, Less
  <2>4. lease[Key(d)] # Free => lease[Key(d)].left \in Nat \ {0}
    BY <2>2, TtlFacts DEF Held
  <2>5. d \notin rivals /\ pc[d] = "refused" => nap'[d] < left'[d]
    <3>1. nap[d] > 0 /\ nap[d] < left[d] => nap[d] - 1 < left[d] - 1 /\ left[d] > 0
      BY <2>2
    <3> QED BY <1>0, <2>1, <3>1 DEF WaitsBy, Less
  <2>6. CASE lease'[Key(d)] = Free
    BY <1>0, <2>1, <2>5, <2>6 DEF WaitsBy
  <2>7. CASE lease'[Key(d)] # Free
    <3>1. lease[Key(d)] # Free /\ lease'[Key(d)].left = lease[Key(d)].left - 1
      BY <2>1, <2>3, <2>7
    <3>2. lease[Key(d)].left + AnswerTime <= left[d]
            => lease[Key(d)].left - 1 + AnswerTime <= Less(left[d])
      BY <2>2, <2>4, <3>1, AnswerAssumption DEF Less
    <3> QED BY <1>0, <2>1, <2>5, <3>1, <3>2 DEF WaitsBy
  <2> QED BY <2>6, <2>7
<1>3. CASE (\E j \in ManualKeys : LandsLate(j)) \/ (\E r \in Resets : Reset(r)) \/ Edit
               \/ UNCHANGED vars
  <2>1. UNCHANGED <<pc, gen, rivals, left, nap, lease>>
    BY <1>3 DEF LandsLate, Reset, BeginPurge, SkipPurge, DeletePage, PurgeEnds, ResetFails,
         IncrementGeneration, Edit, vars, callVars, redisVars
  <2> QED BY <1>0, <2>1 DEF WaitsBy, Key
<1> QED BY <1>1, <1>2, <1>3 DEF Next

\* THEOREM: where the lock's expiry in whole seconds, and the time Redis and the event
\* loop may take to bring a refusal, are together no longer than the wait, a call gives
\* up only if the lease has been taken while it waited, however many owners have died.
THEOREM WaitOutlivesLeaseCorrect ==
    ASSUME LeaseTtl + AnswerTime <= RebuildWait PROVE Spec => []WaitOutlivesLease
<1>1. Init => Waits
  BY DEF Init, Waits, WaitsBy, Polling
<1>2. Waits => WaitOutlivesLease
  BY DEF Waits, WaitsBy, WaitOutlivesLease
<1>3. Base => Typed
  BY DEF Base
<1>4. Typed /\ Waits /\ [Next]_vars => Waits'
  BY NextWaits
<1> QED BY <1>1, <1>2, <1>3, <1>4, BaseHolds, PTL DEF Spec

-----------------------------------------------------------------------------
(* Fresh contexts. *)

\* What a build holds is from its generation.
FreshBuild(c) ==
    /\ \A q \in Requests : fetched[c][q] > 0 => fetched[c][q] > since[gen[c]].edits
    /\ \A m \in Controls : drafts[c][m].state = "stored" =>
          /\ drafts[c][m].from = fetched[c][<<m, "configuration">>] - 1
          /\ drafts[c][m].purge >= since[gen[c]].purge
FreshBuilds == \A c \in Calls : FreshBuild(c)

\* A stored manual describes the configuration of its key, and was stored after every
\* purge that a generation began with; a purge under way has still to visit the older ones.
FreshStore ==
    /\ \A k \in ManualKeys : manuals[k] # NoManual =>
          manuals[k].from = k[2] /\ manuals[k].purge >= since[generation].purge
    /\ \A r \in Resets : \A k \in ManualKeys :
          /\ manuals[k] # NoManual
          /\ (reset[r].at = "purged" \/ (reset[r].at = "purging" /\ k \notin reset[r].todo))
          => manuals[k].purge >= reset[r].purge
    /\ \A g \in 0..generation : since[g].purge <= since[generation].purge

\* A published context belongs to a generation that has begun.
FreshPublished(k) ==
    /\ k[2] <= generation
    /\ \A q \in Requests : cache[k].fetched[q] > since[k[2]].edits
    /\ \A m \in Controls :
          /\ cache[k].manuals[m].from = cache[k].fetched[<<m, "configuration">>] - 1
          /\ cache[k].manuals[m].purge >= since[k[2]].purge
FreshCache == \A k \in Keys : cache[k] # NoContext => FreshPublished(k)

Fresh == FreshBuilds /\ FreshStore /\ FreshCache

\* The steps of calls leave generations and resets alone.
LEMMA CallsLeaveResets ==
    ASSUME NEW c \in Calls, Resolve(c) \/ Trouble(c)
    PROVE  UNCHANGED <<edits, generation, reset, purges, since>>
BY DEF Resolve, ReadGeneration, ReadCache, Acquire, Refused, AsksAgain, LooksAtDeadline, Wakes,
     Fetch, GetManual, PutManual, Publish, Release, Trouble, AcquireUnheard, PublishUnheard,
     ReleaseFails, GenerationUnavailable, CacheUnavailable, FetchFails, Incomplete, ManualFails,
     Cancelled, Dies, Unpublished, resetVars, ctcVars

\* What a generation began with is no more than there is.
LEMMA SinceFacts ==
    ASSUME Typed
    PROVE  /\ edits \in Nat /\ purges \in Nat /\ generation \in Nat /\ generation \in Generations
           /\ \A g \in Generations : since[g].edits \in 0..edits /\ since[g].purge \in 0..purges
           /\ \A c \in Calls : gen[c] \in 0..generation /\ gen[c] \in Generations
           /\ \A r \in Resets : reset[r].purge \in 0..purges
           /\ \A d \in Manual : d.purge \in Nat /\ d.from \in Nat
<1>1. generation \in Nat /\ purges \in Nat /\ generation \in Generations /\ edits \in Nat
  BY GenerationsFacts, EditsAssumption DEF Typed, ResetsTyped, StoreTyped
<1>2. \A c \in Calls : gen[c] \in 0..generation /\ gen[c] \in Generations
  BY <1>1, GenerationsFacts DEF Typed, CallsTyped
<1>3. \A d \in Manual : d.purge \in Nat /\ d.from \in Nat
  BY GenerationsFacts, EditsAssumption DEF Manual
<1> QED BY <1>1, <1>2, <1>3 DEF Typed, ResetsTyped

\* Nothing that is forgotten can be stale.
LEMMA ForgottenFresh ==
    ASSUME NEW c \in Calls, fetched'[c] = NotFetched, drafts'[c] = NoDrafts
    PROVE  FreshBuild(c)'
BY DEF FreshBuild, NotFetched, NoDrafts, Unread

\* A call that keeps its generation and what it holds.
LEMMA SameBuild ==
    ASSUME NEW c \in Calls, FreshBuild(c), gen[c] \in Generations,
           since'[gen[c]] = since[gen[c]],
           fetched'[c] = fetched[c], drafts'[c] = drafts[c], gen'[c] = gen[c]
    PROVE  FreshBuild(c)'
BY DEF FreshBuild

\* The step of a build: an answer is as new as CTC, a manual as the store.
LEMMA MoverBuilds ==
    ASSUME NEW c \in Calls, Base, Fresh, Resolve(c) \/ Trouble(c)
    PROVE  FreshBuild(c)'
<1> USE DEF Base
<1>0. UNCHANGED <<edits, generation, reset, purges, since>>
  BY CallsLeaveResets
<1>1. CASE \E to : Leaves(c, to)
  BY <1>1, LeavesHolding, ForgottenFresh DEF Typed
<1>2. CASE pc[c] # "building" /\ UNCHANGED <<fetched, drafts>>
  BY <1>2, ForgottenFresh DEF Drafted, DraftedBy
<1>3. ASSUME NEW q \in Requests, Fetch(c, q) PROVE FreshBuild(c)'
  <2>1. /\ gen' = gen /\ drafts' = drafts
        /\ fetched'[c] = [fetched[c] EXCEPT ![q] = 1 + edits]
    BY <1>3 DEF Fetch, Typed, CallsTyped
  <2>2. \A m \in Controls : drafts[c][m] = Unread
    BY <1>3 DEF Fetch, Drafted, DraftedBy, Configured
  <2>3. 1 + edits > since[gen[c]].edits
    BY SinceFacts
  <2>4. ASSUME NEW p \in Requests, fetched'[c][p] > 0
        PROVE  fetched'[c][p] > since'[gen'[c]].edits
    <3>1. CASE p = q
      BY <1>0, <2>1, <2>3, <3>1 DEF Typed, CallsTyped, Request
    <3>2. CASE p # q
      <4>1. fetched'[c][p] = fetched[c][p]
        BY <2>1, <3>2 DEF Typed, CallsTyped, Request
      <4> QED BY <1>0, <2>1, <2>4, <4>1 DEF Fresh, FreshBuilds, FreshBuild
    <3> QED BY <3>1, <3>2
  <2> QED BY <2>1, <2>2, <2>4, ManualFacts DEF FreshBuild
<1>4. ASSUME NEW m \in Controls, GetManual(c, m) \/ PutManual(c, m) PROVE FreshBuild(c)'
  <2> DEFINE k == ManualKey(c, m)
  <2>1. Configured(c)
    BY <1>4, ManualFacts DEF GetManual, PutManual, Drafted, DraftedBy
  <2>2. k \in ManualKeys /\ k[2] = fetched[c][<<m, "configuration">>] - 1
    BY <2>1, ManualKeyTyped DEF Configured, Requests, Typed, ManualKey
  <2> HIDE DEF k
  <2>3. PICK d \in Manual \cup {NoManual} :
           /\ drafts' = [drafts EXCEPT ![c][m] = d]
           /\ d = manuals[k] \/ d = Summary(k[2])
    <3>1. Summary(k[2]) \in Manual
      BY <2>2 DEF Summary, Manual, ManualKeys, Typed, ResetsTyped
    <3>2. manuals[k] \in Manual \cup {NoManual}
      BY <2>2 DEF Typed, StoreTyped
    <3> QED BY <1>4, <3>1, <3>2 DEF GetManual, PutManual, k
  <2>4. gen' = gen /\ fetched' = fetched
    BY <1>4 DEF GetManual, PutManual
  <2>5. d.state = "stored" => d.from = k[2] /\ d.purge >= since[gen[c]].purge
    <3>1. CASE d = Summary(k[2])
      BY <3>1, SinceFacts DEF Summary
    <3>2. CASE d = manuals[k] /\ d # NoManual
      <4>1. d.from = k[2] /\ d.purge >= since[generation].purge
        BY <2>2, <3>2 DEF Fresh, FreshStore
      <4>2. since[gen[c]].purge <= since[generation].purge
        BY SinceFacts DEF Fresh, FreshStore
      <4>3. d.purge \in Nat /\ since[gen[c]].purge \in Nat /\ since[generation].purge \in Nat
        BY <3>2, SinceFacts
      <4> QED BY <4>1, <4>2, <4>3
    <3> QED BY <2>3, <3>1, <3>2, ManualFacts
  <2>6. drafts'[c] = [drafts[c] EXCEPT ![m] = d]
    BY <2>3 DEF Typed, CallsTyped
  <2>7. ASSUME NEW n \in Controls, drafts'[c][n].state = "stored"
        PROVE  /\ drafts'[c][n].from = fetched[c][<<n, "configuration">>] - 1
               /\ drafts'[c][n].purge >= since[gen[c]].purge
    <3>1. CASE n = m
      BY <2>2, <2>5, <2>6, <2>7, <3>1 DEF Typed, CallsTyped
    <3>2. CASE n # m
      <4>1. drafts'[c][n] = drafts[c][n]
        BY <2>6, <3>2 DEF Typed, CallsTyped
      <4> QED BY <2>7, <4>1 DEF Fresh, FreshBuilds, FreshBuild
    <3> QED BY <3>1, <3>2
  <2> QED BY <1>0, <2>4, <2>7 DEF Fresh, FreshBuilds, FreshBuild
<1>5. CASE Trouble(c)
  BY <1>1, <1>5, TroubleLeaves
<1>6. CASE ReadGeneration(c) \/ ReadCache(c) \/ Acquire(c) \/ Refused(c) \/ AsksAgain(c)
             \/ LooksAtDeadline(c) \/ Wakes(c) \/ Publish(c) \/ Release(c)
  <2>1. (\E to : Leaves(c, to)) \/ (pc[c] # "building" /\ UNCHANGED <<fetched, drafts>>)
    BY <1>6 DEF ReadGeneration, ReadCache, Acquire, Refused, AsksAgain, LooksAtDeadline, Wakes,
         Publish, Release
  <2> QED BY <1>1, <1>2, <2>1
<1> QED BY <1>3, <1>4, <1>5, <1>6 DEF Resolve

\* A manual that is stored now is newer than every purge that has begun.
LEMMA StoringFresh ==
    ASSUME Typed, FreshStore, UNCHANGED <<generation, reset, purges, since>>,
           NEW k \in ManualKeys, manuals' = [manuals EXCEPT ![k] = Summary(k[2])]
    PROVE  FreshStore'
<1>1. /\ Summary(k[2]).from = k[2]
      /\ Summary(k[2]).purge >= since[generation].purge
      /\ \A r \in Resets : Summary(k[2]).purge >= reset[r].purge
  BY SinceFacts DEF Summary
<1>2. \A j \in ManualKeys : manuals'[j] = IF j = k THEN Summary(k[2]) ELSE manuals[j]
  BY DEF Typed, StoreTyped
<1> QED BY <1>1, <1>2 DEF FreshStore

\* The step of a call: what it stores and publishes is fresh.
LEMMA CallStores ==
    ASSUME NEW c \in Calls, Base, Fresh, Resolve(c) \/ Trouble(c)
    PROVE  FreshStore'
<1> USE DEF Base, Fresh
<1>0. UNCHANGED <<edits, generation, reset, purges, since>>
  BY CallsLeaveResets
<1>1. ASSUME NEW m \in Controls, PutManual(c, m) PROVE FreshStore'
  <2> DEFINE k == ManualKey(c, m)
  <2>1. Configured(c)
    BY <1>1, ManualFacts DEF PutManual, Drafted, DraftedBy
  <2>a. Answered(c, <<m, "configuration">>)
    BY <2>1 DEF Configured, Requests
  <2>2. k \in ManualKeys
    BY <2>a, ManualKeyTyped DEF Typed
  <2>3. manuals' = [manuals EXCEPT ![k] = Summary(k[2])]
    BY <1>1 DEF PutManual
  <2> HIDE DEF k
  <2> QED BY <1>0, <2>2, <2>3, StoringFresh
<1>2. CASE ~\E m \in Controls : PutManual(c, m)
  <2>1. manuals' = manuals
    BY <1>2 DEF Resolve, ReadGeneration, ReadCache, Acquire, Refused, AsksAgain, LooksAtDeadline,
         Wakes, Fetch, GetManual, Publish, Release, Trouble, AcquireUnheard, PublishUnheard,
         ReleaseFails, GenerationUnavailable, CacheUnavailable, FetchFails, Incomplete,
         ManualFails, Cancelled, Dies, Unpublished, storeVars
  <2> QED BY <1>0, <2>1 DEF FreshStore
<1> QED BY <1>1, <1>2

\* A step of a call publishes nothing but what it has built.
LEMMA CallPublishes ==
    ASSUME NEW c \in Calls, Base, Fresh, Resolve(c) \/ Trouble(c)
    PROVE  FreshCache'
<1> USE DEF Base, Fresh
<1>0. UNCHANGED <<edits, generation, reset, purges, since>>
  BY CallsLeaveResets
<1>1. CASE UNCHANGED cache
  BY <1>0, <1>1 DEF FreshCache, FreshPublished
<1>2. CASE Built(c) /\ cache' = [cache EXCEPT ![Key(c)] = Context(c)]
  <2>1. \A q \in Requests : fetched[c][q] > since[gen[c]].edits
    BY <1>2 DEF Built, Configured, Answered, FreshBuilds, FreshBuild
  <2>2. \A m \in Controls :
           /\ drafts[c][m].from = fetched[c][<<m, "configuration">>] - 1
           /\ drafts[c][m].purge >= since[gen[c]].purge
    BY <1>2 DEF Built, FreshBuilds, FreshBuild
  <2>3. Key(c) \in Keys /\ Key(c)[2] = gen[c] /\ gen[c] <= generation
    BY KeyTyped, SinceFacts DEF Typed, Key
  <2>4. \A k \in Keys : cache'[k] = IF k = Key(c) THEN Context(c) ELSE cache[k]
    BY <1>2 DEF Typed, RedisTyped
  <2>5. ASSUME NEW k \in Keys, cache'[k] # NoContext PROVE FreshPublished(k)'
    <3>1. CASE k = Key(c)
      <4>1. cache'[k] = Context(c)
        BY <2>4, <3>1
      <4>2. cache'[k].fetched = fetched[c] /\ cache'[k].manuals = drafts[c]
        BY <4>1 DEF Context
      <4> QED BY <1>0, <2>1, <2>2, <2>3, <3>1, <4>2 DEF FreshPublished
    <3>2. CASE k # Key(c)
      <4>1. cache'[k] = cache[k]
        BY <2>4, <3>2
      <4> QED BY <1>0, <2>5, <4>1 DEF FreshCache, FreshPublished
    <3> QED BY <3>1, <3>2
  <2> QED BY <2>5 DEF FreshCache
<1>3. CASE Publish(c)
  <2>1. CASE Owns(c)
    BY <1>2, <1>3, <2>1 DEF Publish, Published
  <2>2. CASE ~Owns(c)
    <3>1. cache' = cache
      BY <1>3, <2>2 DEF Publish
    <3> QED BY <1>1, <3>1
  <2> QED BY <2>1, <2>2
<1>5. CASE PublishUnheard(c)
  BY <1>2, <1>5 DEF PublishUnheard, Published
<1>4. CASE ~Publish(c) /\ ~PublishUnheard(c)
  <2>1. UNCHANGED cache
    BY <1>4 DEF Resolve, ReadGeneration, ReadCache, Acquire, Refused, AsksAgain, LooksAtDeadline,
         Wakes, Fetch, GetManual, PutManual, Release, Trouble, AcquireUnheard, ReleaseFails,
         GenerationUnavailable, CacheUnavailable, FetchFails, Incomplete, ManualFails, Cancelled,
         Dies, Unpublished, redisVars
  <2> QED BY <1>1, <2>1
<1> QED BY <1>3, <1>4, <1>5

\* A reset: when it advances the generation, what is stored is newer than its purge.
LEMMA ResetFresh ==
    ASSUME NEW r \in Resets, Base, Fresh, Reset(r)
    PROVE  Fresh'
<1> USE DEF Base, Fresh
<1>0. /\ UNCHANGED <<gen, fetched, drafts, cache>>
      /\ \A d \in Resets \ {r} : reset'[d] = reset[d]
  BY DEF Reset, BeginPurge, SkipPurge, DeletePage, PurgeEnds, ResetFails, IncrementGeneration,
         callVars, redisVars, Typed, ResetsTyped
<1>1. CASE ~IncrementGeneration(r)
  <2>1. UNCHANGED <<generation, since>>
    BY <1>1 DEF Reset, BeginPurge, SkipPurge, DeletePage, PurgeEnds, ResetFails
  <2>2. FreshBuilds' /\ FreshCache'
    BY <1>0, <2>1 DEF FreshBuilds, FreshBuild, FreshCache, FreshPublished
  <2>3. \A k \in ManualKeys : manuals'[k] # NoManual => manuals'[k] = manuals[k]
    BY <1>1 DEF Reset, BeginPurge, SkipPurge, DeletePage, PurgeEnds, ResetFails, storeVars
  <2>4. ASSUME NEW k \in ManualKeys, manuals'[k] # NoManual,
               reset'[r].at = "purged" \/ (reset'[r].at = "purging" /\ k \notin reset'[r].todo)
        PROVE  manuals'[k].purge >= reset'[r].purge
    <3>0. manuals'[k] = manuals[k] /\ manuals[k].purge \in Nat
      BY <2>3, <2>4, SinceFacts DEF Typed, StoreTyped
    <3>1. CASE BeginPurge(r)
      <4>1. reset'[r].at = "purging" /\ reset'[r].todo = StoredKeys /\ manuals' = manuals
        BY <3>1 DEF BeginPurge, storeVars, Typed, ResetsTyped
      <4> QED BY <2>4, <4>1 DEF StoredKeys
    <3>2. CASE SkipPurge(r)
      <4>1. reset'[r].purge = 0
        BY <3>2 DEF SkipPurge, Typed, ResetsTyped, Counted
      <4> QED BY <3>0, <4>1
    <3>3. CASE DeletePage(r)
      <4>1. PICK page \in SUBSET reset[r].todo :
              /\ manuals' = [j \in ManualKeys |-> IF j \in page THEN NoManual ELSE manuals[j]]
              /\ reset' = [reset EXCEPT ![r].todo = @ \ page]
        BY <3>3 DEF DeletePage
      <4>2. k \notin page
        BY <2>4, <4>1
      <4>3. /\ reset'[r].todo = reset[r].todo \ page
            /\ reset'[r].at = reset[r].at /\ reset'[r].purge = reset[r].purge
        BY <4>1 DEF Typed, ResetsTyped
      <4>4. reset[r].at = "purging"
        BY <3>3 DEF DeletePage
      <4>5. k \notin reset[r].todo
        BY <2>4, <4>2, <4>3, <4>4
      <4> QED BY <2>4, <3>0, <4>3, <4>4, <4>5 DEF FreshStore
    <3>4. CASE PurgeEnds(r)
      <4>1. reset[r].at = "purging" /\ reset[r].todo = {} /\ reset'[r].purge = reset[r].purge
        BY <3>4 DEF PurgeEnds, Typed, ResetsTyped
      <4> QED BY <2>4, <3>0, <4>1 DEF FreshStore
    <3>5. CASE ResetFails(r)
      <4>1. reset'[r].at = "failed"
        BY <3>5 DEF ResetFails, Typed, ResetsTyped
      <4> QED BY <2>4, <4>1
    <3> QED BY <1>1, <3>1, <3>2, <3>3, <3>4, <3>5 DEF Reset
  <2>5. FreshStore'
    BY <1>0, <2>1, <2>3, <2>4 DEF FreshStore
  <2> QED BY <2>2, <2>5
<1>2. CASE IncrementGeneration(r)
  <2>1. /\ reset[r].at = "purged" /\ generation' = generation + 1
        /\ UNCHANGED manuals /\ reset'[r].at = "done"
    BY <1>2 DEF IncrementGeneration, Advanced, storeVars, Typed, ResetsTyped
  <2>2. generation' \in Generations
    <3>1. Typed' /\ Counted'
      BY <1>2, ResetTyped DEF Typed, Reset
    <3> QED BY <3>1 DEF Typed, ResetsTyped
  <2>3. /\ \A g \in Generations \ {generation'} : since'[g] = since[g]
        /\ since'[generation'].purge \in {reset[r].purge, since[generation].purge}
        /\ since'[generation'].purge >= since[generation].purge
    BY <1>2, <2>1, <2>2, SinceFacts DEF IncrementGeneration, Advanced, Typed, ResetsTyped
  <2>4. \A g \in 0..generation : g \in Generations \ {generation'} /\ since'[g] = since[g]
    BY <2>1, <2>3, SinceFacts, GenerationsFacts
  <2>5. FreshBuilds'
    <3> SUFFICES ASSUME NEW c \in Calls PROVE FreshBuild(c)'
      BY DEF FreshBuilds
    <3> QED BY <1>0, <2>4, SinceFacts, SameBuild DEF FreshBuilds
  <2>6. FreshCache'
    <3> SUFFICES ASSUME NEW k \in Keys, cache[k] # NoContext PROVE FreshPublished(k)'
      BY <1>0 DEF FreshCache
    <3>1. FreshPublished(k) /\ k[2] \in 0..generation
      BY GenerationsFacts DEF FreshCache, FreshPublished, Keys
    <3>2. since'[k[2]] = since[k[2]] /\ k[2] <= generation'
      BY <2>1, <2>4, <3>1, SinceFacts
    <3> QED BY <1>0, <3>1, <3>2 DEF FreshPublished
  <2>7. FreshStore'
    <3>1. \A k \in ManualKeys : manuals[k] # NoManual =>
             /\ manuals[k].from = k[2]
             /\ manuals[k].purge >= reset[r].purge /\ manuals[k].purge >= since[generation].purge
      <4> SUFFICES ASSUME NEW k \in ManualKeys, manuals[k] # NoManual
                   PROVE  /\ manuals[k].from = k[2]
                          /\ manuals[k].purge >= reset[r].purge
                          /\ manuals[k].purge >= since[generation].purge
        OBVIOUS
      <4>1. manuals[k].from = k[2] /\ manuals[k].purge >= since[generation].purge
        BY DEF FreshStore
      <4>2. reset[r].at = "purged" => manuals[k].purge >= reset[r].purge
        BY DEF FreshStore
      <4> QED BY <2>1, <4>1, <4>2
    <3>2. \A k \in ManualKeys : manuals'[k] # NoManual =>
             manuals'[k].from = k[2] /\ manuals'[k].purge >= since'[generation'].purge
      BY <2>1, <2>3, <3>1
    <3>3. \A g \in 0..generation' : since'[g].purge <= since'[generation'].purge
      <4> SUFFICES ASSUME NEW g \in 0..generation' PROVE since'[g].purge <= since'[generation'].purge
        OBVIOUS
      <4>0. since'[generation'].purge \in Nat /\ since[generation].purge \in Nat
        BY <2>3, SinceFacts
      <4>1. CASE g = generation'
        BY <4>0, <4>1
      <4>2. CASE g # generation'
        <5>1. g \in 0..generation
          BY <2>1, <4>2, SinceFacts
        <5>2. since'[g].purge <= since[generation].purge /\ since[g].purge \in Nat
          BY <2>4, <5>1, SinceFacts DEF FreshStore
        <5> QED BY <2>3, <2>4, <4>0, <5>1, <5>2
      <4> QED BY <4>1, <4>2
    <3>4. \A d \in Resets : \A k \in ManualKeys :
            /\ manuals'[k] # NoManual
            /\ (reset'[d].at = "purged" \/ (reset'[d].at = "purging" /\ k \notin reset'[d].todo))
            => manuals'[k].purge >= reset'[d].purge
      BY <1>0, <2>1 DEF FreshStore
    <3> QED BY <3>2, <3>3, <3>4 DEF FreshStore
  <2> QED BY <2>5, <2>6, <2>7
<1> QED BY <1>1, <1>2

\* What is fresh stays fresh.
LEMMA NextFresh == Base /\ Fresh /\ [Next]_vars => Fresh'
<1> SUFFICES ASSUME Base, Fresh, [Next]_vars PROVE Fresh'
  OBVIOUS
<1>1. ASSUME NEW c \in Calls, Resolve(c) \/ Trouble(c) PROVE Fresh'
  <2>0. UNCHANGED <<edits, generation, reset, purges, since>>
    BY <1>1, CallsLeaveResets
  <2>1. FreshBuild(c)'
    BY <1>1, MoverBuilds
  <2>2. ASSUME NEW d \in Calls \ {c} PROVE FreshBuild(d)'
    <3>1. gen'[d] = gen[d]
      BY <1>1, CallMoves DEF Base, Typed
    <3>2. fetched'[d] = fetched[d] /\ drafts'[d] = drafts[d]
      BY <1>1 DEF Base, Typed, CallsTyped, Resolve, ReadGeneration, ReadCache, Acquire, Refused,
           AsksAgain, LooksAtDeadline, Wakes, Fetch, GetManual, PutManual, Publish, Release,
           Trouble, AcquireUnheard, PublishUnheard, ReleaseFails, GenerationUnavailable,
           CacheUnavailable, FetchFails, Incomplete, ManualFails, Cancelled, Dies, Leaves
    <3> QED BY <2>0, <3>1, <3>2, SinceFacts, SameBuild DEF Base, Fresh, FreshBuilds
  <2>3. FreshBuilds'
    BY <2>1, <2>2 DEF FreshBuilds
  <2> QED BY <1>1, <2>3, CallStores, CallPublishes DEF Fresh
<1>2. ASSUME NEW k \in ManualKeys, LandsLate(k) PROVE Fresh'
  <2>1. /\ UNCHANGED <<generation, reset, purges, since, gen, fetched, drafts, cache>>
        /\ manuals' = [manuals EXCEPT ![k] = Summary(k[2])]
    BY <1>2 DEF LandsLate, resetVars, callVars, redisVars
  <2>2. FreshStore'
    BY <2>1, StoringFresh DEF Base, Fresh
  <2> QED BY <2>1, <2>2 DEF Fresh, FreshBuilds, FreshBuild, FreshCache, FreshPublished
<1>3. CASE Edit \/ Tick \/ UNCHANGED vars
  <2>1. UNCHANGED <<generation, reset, since, gen, fetched, drafts, cache, manuals>>
    BY <1>3 DEF Edit, Tick, vars, storeVars, redisVars, callVars, resetVars
  <2> QED BY <2>1 DEF Fresh, FreshBuilds, FreshBuild, FreshStore, FreshCache, FreshPublished
<1> QED BY <1>1, <1>2, <1>3, ResetFresh DEF Next

\* THEOREM: however resets, purges, late uploads and builds interleave, what is published
\* for a generation is newer than the reset it began with.
THEOREM FreshContextCorrect == Spec => []FreshContext
<1>1. Init => Fresh
  <2> SUFFICES ASSUME Init PROVE Fresh
    OBVIOUS
  <2>1. FreshBuilds
    BY DEF Init, FreshBuilds, FreshBuild, NotFetched, NoDrafts, Unread
  <2>2. FreshStore
    BY GenerationsFacts DEF Init, FreshStore
  <2>3. FreshCache
    BY DEF Init, FreshCache
  <2> QED BY <2>1, <2>2, <2>3 DEF Fresh
<1>2. Fresh => FreshContext
  BY DEF Fresh, FreshCache, FreshPublished, FreshContext
<1> QED BY <1>1, <1>2, NextFresh, BaseHolds, PTL DEF Spec
=============================================================================
