--------------------------- MODULE OrchestratorProofs ---------------------------
(***************************************************************************)
(* Proofs about Orchestrator and SigningKeys, for any number of calls and  *)
(* keys and any lengths of the cache's life, of the pause and of a fetch.  *)
(***************************************************************************)
EXTENDS Orchestrator, TLAPS

Fetching == {"discovering", "fetching", "answering"}

\* The type invariant in two parts.
KeysTyped ==
    /\ listed \subseteq Keys /\ cached \subseteq Keys
    /\ ttl \in 0 .. CacheTtl /\ pause \in 0 .. Pause /\ discovered \in BOOLEAN
    /\ lock \in Calls \cup {NoCall} /\ waited \in 0 .. Latency
    /\ at \in [Calls -> Answers \cup {"none", "arrived", "queued", "discovering", "fetching", "answering"}]
    /\ kid \in [Calls -> Keys] /\ forced \in [Calls -> BOOLEAN]
    /\ reply \in [Calls -> SUBSET Keys]
    /\ turned \in [Keys -> 0 .. LongAgo]
ProcessTyped ==
    /\ phase \in {"importing", "starting", "serving", "leaving", "closing", "exited"}
    /\ depth \in 0 .. Supervisor
    /\ loop \in {"none", "pass", "waiting", "ended"}
    /\ failures \in 0 .. MaxFailures /\ stopping \in BOOLEAN

\* Whoever fetches has the lock.
Locked == \A c \in Calls : at[c] \in Fetching => lock = c

\* A document on its way differs from what is listed by what has changed since it was
\* asked for.
ReplyRecent ==
    \A c \in Calls, k \in Keys :
        at[c] = "answering" /\ (k \in reply[c] <=> k \notin listed) => turned[k] <= waited

\* What is cached and listed no more was withdrawn while the document lived or was
\* fetched; what is listed and not cached was listed during the pause or the fetch.
CacheRecent ==
    \A k \in Keys :
        /\ k \in cached /\ k \notin listed /\ ttl > 0 => turned[k] + ttl <= CacheTtl + Latency
        /\ k \notin cached /\ k \in listed /\ pause > 0 => turned[k] + pause <= Pause + Latency

KeysInv == KeysTyped /\ Locked /\ ReplyRecent /\ CacheRecent

-----------------------------------------------------------------------------
(* The steps of a call. *)

\* The pause is at least one tick long, and no longer than the cache lives.
LEMMA PauseFacts == Pause \in Nat \ {0} /\ LongAgo \in Nat
BY TimesAssumption DEF Pause, Smaller, LongAgo

CallStates == Answers \cup {"none", "arrived", "queued", "discovering", "fetching", "answering"}

\* A call moves on, with what it knows of the refresh it is in.
Moved(c, to, force, document) ==
    /\ at' = [at EXCEPT ![c] = to]
    /\ forced' = [forced EXCEPT ![c] = force]
    /\ reply' = [reply EXCEPT ![c] = document]
    /\ to = "answering" => at[c] = "fetching" /\ document = listed

\* It takes the lock when it begins to fetch and nobody else does, and leaves the time
\* of a fetch alone until then.
Holds(c, to) ==
    \/ to \in Fetching /\ at[c] \in Fetching /\ UNCHANGED <<lock, waited>>
    \/ /\ to \in {"discovering", "fetching"}
       /\ at[c] \in Fetching \/ lock = NoCall
       /\ lock' = c /\ waited' = 0
    \/ /\ to \notin Fetching /\ waited' = waited
       /\ lock' = lock \/ (lock' = NoCall /\ (at[c] \in Fetching \/ lock = NoCall))

\* To decide is to answer, to queue, or to take the lock and ask.
LEMMA Decision ==
    ASSUME KeysTyped, NEW c \in Calls, NEW keys, NEW again \in BOOLEAN, NEW free \in BOOLEAN,
           Decides(c, keys, again, free)
    PROVE  \/ /\ \E answer \in Answers : Answered(c, answer)
              /\ waited' = waited
           \/ /\ at' = [at EXCEPT ![c] = "queued"] /\ forced' = [forced EXCEPT ![c] = TRUE]
              /\ reply' = [reply EXCEPT ![c] = {}] /\ waited' = waited
           \/ free /\ Asks(c, TRUE)
BY DEF Decides, Verified, Refreshes, Answers

\* Decided after all: a move, with the lock held as it was or let go.
LEMMA DecidedMoves ==
    ASSUME KeysTyped, NEW c \in Calls, NEW keys, NEW again \in BOOLEAN, NEW free \in BOOLEAN,
           NEW held \in {lock, NoCall}, Decides(c, keys, again, free), KeepsLock(c, held),
           free => (at[c] \in Fetching \/ lock = NoCall),
           held = NoCall => (at[c] \in Fetching \/ lock = NoCall)
    PROVE  \E to \in CallStates, force \in BOOLEAN, document \in SUBSET Keys :
              Moved(c, to, force, document) /\ Holds(c, to)
<1>1. CASE (\E answer \in Answers : Answered(c, answer)) /\ waited' = waited
  <2>1. PICK answer \in Answers : Answered(c, answer)
    BY <1>1
  <2>2. at'[c] = answer
    BY <2>1 DEF Answered, KeysTyped
  <2>3. lock' = held
    BY <2>2 DEF KeepsLock, Answers
  <2>4. Moved(c, answer, FALSE, {})
    BY <2>1 DEF Answered, Moved, Answers
  <2>5. Holds(c, answer)
    BY <1>1, <2>3 DEF Holds, Answers, Fetching
  <2>6. answer \in CallStates /\ FALSE \in BOOLEAN /\ {} \in SUBSET Keys
    BY DEF CallStates
  <2> QED BY <2>4, <2>5, <2>6, Zenon
<1>2. CASE /\ at' = [at EXCEPT ![c] = "queued"] /\ forced' = [forced EXCEPT ![c] = TRUE]
           /\ reply' = [reply EXCEPT ![c] = {}] /\ waited' = waited
  <2>1. lock' = held
    BY <1>2 DEF KeepsLock, KeysTyped
  <2>2. Moved(c, "queued", TRUE, {}) /\ Holds(c, "queued")
    BY <1>2, <2>1 DEF Moved, Holds, Fetching
  <2>3. "queued" \in CallStates /\ TRUE \in BOOLEAN /\ {} \in SUBSET Keys
    BY DEF CallStates
  <2> QED BY <2>2, <2>3, Zenon
<1>3. CASE free /\ Asks(c, TRUE)
  <2> DEFINE to == IF discovered THEN "fetching" ELSE "discovering"
  <2>1. Moved(c, to, TRUE, {}) /\ Holds(c, to)
    BY <1>3 DEF Asks, Moved, Holds, Fetching
  <2>2. to \in CallStates /\ TRUE \in BOOLEAN /\ {} \in SUBSET Keys
    BY DEF CallStates
  <2> HIDE DEF to
  <2> QED BY <2>1, <2>2, Zenon
<1> QED BY <1>1, <1>2, <1>3, Decision

\* Every step of a call in hand, and its leaving, is such a move, and so is an arrival
\* that brings the key it names.
LEMMA CallMoves ==
    ASSUME KeysTyped, Locked, NEW c \in Calls, Authenticates(c) \/ Arrives(c) \/ Leaves(c)
    PROVE  /\ \E to \in CallStates, force \in BOOLEAN, document \in SUBSET Keys :
                 Moved(c, to, force, document) /\ Holds(c, to)
           /\ \E k \in Keys : kid' = [kid EXCEPT ![c] = k]
           /\ UNCHANGED <<listed, turned>>
<1>0. \E k \in Keys : kid' = [kid EXCEPT ![c] = k]
  <2>1. (CHOOSE k \in Keys : TRUE) \in Keys
    BY KeysAssumption
  <2>2. kid[c] \in Keys /\ kid = [kid EXCEPT ![c] = kid[c]]
    BY DEF KeysTyped
  <2> QED BY <2>1, <2>2 DEF Authenticates, Begins, GetsLock, Discovers, Responds, Receives, FetchFails,
             Arrives, Leaves
<1>1. UNCHANGED <<listed, turned>>
  BY DEF Authenticates, Begins, GetsLock, Discovers, Responds, Receives, FetchFails, Arrives, Leaves
<1>2. CASE Begins(c) /\ ttl # 0
  <2>1. Decides(c, cached, FALSE, Free) /\ KeepsLock(c, lock) /\ Free \in BOOLEAN
    BY <1>2 DEF Begins, Free
  <2>2. Free => lock = NoCall
    BY DEF Free
  <2>3. lock = NoCall => at[c] \in Fetching \/ lock = NoCall
    OBVIOUS
  <2> HIDE DEF Free
  <2>4. \E to \in CallStates, force \in BOOLEAN, document \in SUBSET Keys :
           Moved(c, to, force, document) /\ Holds(c, to)
    BY <2>1, <2>2, <2>3, DecidedMoves
  <2> QED BY <1>0, <1>1, <2>4
<1>3. CASE Begins(c) /\ ttl = 0
  <2>1. at[c] = "arrived" /\ Refreshes(c, FALSE, Free) /\ KeepsLock(c, lock)
    BY <1>3 DEF Begins
  <2>2. CASE Free /\ Asks(c, FALSE)
    <3> DEFINE to == IF discovered THEN "fetching" ELSE "discovering"
    <3>1. Moved(c, to, FALSE, {}) /\ Holds(c, to)
      BY <2>2 DEF Asks, Moved, Holds, Fetching, Free
    <3>2. to \in CallStates /\ FALSE \in BOOLEAN /\ {} \in SUBSET Keys
      BY DEF CallStates
    <3> HIDE DEF to
    <3> QED BY <1>0, <1>1, <3>1, <3>2, Zenon
  <2>3. CASE ~(Free /\ Asks(c, FALSE))
    <3>1. /\ at' = [at EXCEPT ![c] = "queued"] /\ forced' = [forced EXCEPT ![c] = FALSE]
          /\ reply' = [reply EXCEPT ![c] = {}] /\ waited' = waited
      BY <2>1, <2>3 DEF Refreshes
    <3>2. lock' = lock
      BY <2>1, <3>1 DEF KeepsLock, KeysTyped
    <3>3. Moved(c, "queued", FALSE, {}) /\ Holds(c, "queued")
      BY <3>1, <3>2 DEF Moved, Holds, Fetching
    <3>4. "queued" \in CallStates /\ FALSE \in BOOLEAN /\ {} \in SUBSET Keys
      BY DEF CallStates
    <3> QED BY <1>0, <1>1, <3>3, <3>4, Zenon
  <2> QED BY <2>2, <2>3
<1>4. CASE GetsLock(c) /\ (forced[c] \/ ttl = 0)
  <2> DEFINE to == IF discovered THEN "fetching" ELSE "discovering"
  <2>1. lock = NoCall /\ Asks(c, forced[c])
    BY <1>4 DEF GetsLock
  <2>2. Moved(c, to, forced[c], {}) /\ Holds(c, to)
    BY <2>1 DEF Asks, Moved, Holds, Fetching
  <2>3. to \in CallStates /\ forced[c] \in BOOLEAN /\ {} \in SUBSET Keys
    BY DEF CallStates, KeysTyped
  <2> HIDE DEF to
  <2> QED BY <1>0, <1>1, <2>2, <2>3, Zenon
<1>5. CASE GetsLock(c) /\ ~(forced[c] \/ ttl = 0)
  <2>1. /\ Decides(c, cached, FALSE, Queued = {c}) /\ KeepsLock(c, NoCall)
        /\ lock = NoCall /\ (Queued = {c}) \in BOOLEAN
    BY <1>5 DEF GetsLock
  <2>2. \E to \in CallStates, force \in BOOLEAN, document \in SUBSET Keys :
           Moved(c, to, force, document) /\ Holds(c, to)
    BY <2>1, DecidedMoves
  <2> QED BY <1>0, <1>1, <2>2
<1>6. CASE Discovers(c)
  <2>1. forced[c] \in BOOLEAN /\ reply[c] \in SUBSET Keys /\ "fetching" \in CallStates
    BY DEF KeysTyped, CallStates
  <2>2. forced = [forced EXCEPT ![c] = forced[c]] /\ reply = [reply EXCEPT ![c] = reply[c]]
    BY DEF KeysTyped
  <2>3. Moved(c, "fetching", forced[c], reply[c])
    BY <1>6, <2>2 DEF Discovers, Moved
  <2>4. Holds(c, "fetching")
    BY <1>6 DEF Discovers, Holds, Fetching
  <2> QED BY <1>0, <1>1, <2>1, <2>3, <2>4, Zenon
<1>7. CASE Responds(c)
  <2>1. forced[c] \in BOOLEAN /\ listed \in SUBSET Keys /\ "answering" \in CallStates
    BY DEF KeysTyped, CallStates
  <2>2. forced = [forced EXCEPT ![c] = forced[c]]
    BY DEF KeysTyped
  <2>3. Moved(c, "answering", forced[c], listed)
    BY <1>7, <2>2 DEF Responds, Moved
  <2>4. Holds(c, "answering")
    BY <1>7 DEF Responds, Holds, Fetching
  <2> QED BY <1>0, <1>1, <2>1, <2>3, <2>4, Zenon
<1>8. CASE Receives(c)
  <2>1. /\ Decides(c, cached', forced[c], Queued = {}) /\ KeepsLock(c, NoCall)
        /\ at[c] \in Fetching /\ forced[c] \in BOOLEAN /\ (Queued = {}) \in BOOLEAN
    BY <1>8 DEF Receives, Fetching, KeysTyped
  <2>2. \E to \in CallStates, force \in BOOLEAN, document \in SUBSET Keys :
           Moved(c, to, force, document) /\ Holds(c, to)
    BY <2>1, DecidedMoves
  <2> QED BY <1>0, <1>1, <2>2
<1>9. CASE FetchFails(c)
  <2>1. Moved(c, "unavailable", FALSE, {}) /\ Holds(c, "unavailable")
    BY <1>9 DEF FetchFails, Answered, Moved, Holds, Fetching
  <2>2. "unavailable" \in CallStates /\ FALSE \in BOOLEAN /\ {} \in SUBSET Keys
    BY DEF CallStates, Answers
  <2> QED BY <1>0, <1>1, <2>1, <2>2, Zenon
<1>10. CASE Arrives(c)
  <2>1. PICK to \in {"arrived", "refused"} : at' = [at EXCEPT ![c] = to]
    BY <1>10 DEF Arrives
  <2>2. forced[c] \in BOOLEAN /\ reply[c] \in SUBSET Keys /\ to \in CallStates
    BY DEF KeysTyped, CallStates, Answers
  <2>3. forced = [forced EXCEPT ![c] = forced[c]] /\ reply = [reply EXCEPT ![c] = reply[c]]
    BY DEF KeysTyped
  <2>4. Moved(c, to, forced[c], reply[c]) /\ Holds(c, to)
    BY <1>10, <2>1, <2>3 DEF Arrives, Moved, Holds, Fetching
  <2> QED BY <1>0, <1>1, <2>2, <2>4, Zenon
<1>11. CASE Leaves(c)
  <2>1. Moved(c, "none", FALSE, {}) /\ Holds(c, "none")
    BY <1>11 DEF Leaves, Answered, Moved, Holds, Fetching
  <2>2. "none" \in CallStates /\ FALSE \in BOOLEAN /\ {} \in SUBSET Keys
    BY DEF CallStates
  <2> QED BY <1>0, <1>1, <2>1, <2>2, Zenon
<1> QED BY <1>2, <1>3, <1>4, <1>5, <1>6, <1>7, <1>8, <1>9, <1>10, <1>11 DEF Authenticates

\* Only a document that has come changes what is cached.
LEMMA CacheMoves ==
    ASSUME KeysTyped, NEW c \in Calls, Authenticates(c) \/ Arrives(c) \/ Leaves(c)
    PROVE  /\ \/ UNCHANGED <<cached, ttl, pause>>
              \/ /\ at[c] = "answering"
                 /\ cached' = reply[c] /\ ttl' = CacheTtl /\ pause' \in {pause, Pause}
           /\ discovered' \in BOOLEAN
BY DEF Authenticates, Begins, GetsLock, Discovers, Responds, Receives, FetchFails, Arrives, Leaves,
       cacheVars, NewKeys, Paused, KeysTyped

-----------------------------------------------------------------------------
(* The invariant. *)

\* A call's steps keep the types, the lock, and what is known of documents.
LEMMA CallKeeps ==
    ASSUME KeysInv, NEW c \in Calls, Authenticates(c) \/ Arrives(c) \/ Leaves(c)
    PROVE  KeysInv'
<1>0. KeysTyped /\ Locked /\ ReplyRecent /\ CacheRecent
  BY DEF KeysInv
<1>1. PICK to \in CallStates, force \in BOOLEAN, document \in SUBSET Keys :
         Moved(c, to, force, document) /\ Holds(c, to)
  BY <1>0, CallMoves
<1>2. PICK k \in Keys : kid' = [kid EXCEPT ![c] = k]
  BY <1>0, CallMoves
<1>3. UNCHANGED <<listed, turned>>
  BY <1>0, CallMoves
<1>4. /\ \A d \in Calls : at'[d] = IF d = c THEN to ELSE at[d]
      /\ \A d \in Calls : reply'[d] = IF d = c THEN document ELSE reply[d]
  BY <1>0, <1>1 DEF Moved, KeysTyped
<1>5. lock' \in {lock, c, NoCall} /\ waited' \in {waited, 0}
  BY <1>1 DEF Holds
<1>6. /\ \/ UNCHANGED <<cached, ttl, pause>>
         \/ /\ at[c] = "answering"
            /\ cached' = reply[c] /\ ttl' = CacheTtl /\ pause' \in {pause, Pause}
      /\ discovered' \in BOOLEAN
  BY <1>0, CacheMoves
<1>7. KeysTyped'
  <2>1. at' \in [Calls -> CallStates] /\ forced' \in [Calls -> BOOLEAN] /\ reply' \in [Calls -> SUBSET Keys]
    BY <1>0, <1>1 DEF Moved, KeysTyped, CallStates
  <2>2. kid' \in [Calls -> Keys]
    BY <1>0, <1>2 DEF KeysTyped
  <2>3. lock' \in Calls \cup {NoCall} /\ waited' \in 0 .. Latency
    BY <1>0, <1>5, TimesAssumption DEF KeysTyped
  <2>4. cached' \subseteq Keys /\ ttl' \in 0 .. CacheTtl /\ pause' \in 0 .. Pause
    BY <1>0, <1>6, TimesAssumption, PauseFacts DEF KeysTyped
  <2> QED BY <1>0, <1>3, <1>6, <2>1, <2>2, <2>3, <2>4 DEF KeysTyped, CallStates
<1>8. Locked'
  <2> SUFFICES ASSUME NEW d \in Calls, at'[d] \in Fetching PROVE lock' = d
    BY DEF Locked
  <2>1. CASE d = c
    BY <1>0, <1>1, <1>4, <2>1 DEF Holds, Locked
  <2>2. CASE d # c
    <3>1. at[d] \in Fetching /\ lock = d /\ lock # NoCall
      BY <1>0, <1>4, <2>2, CallsAssumption DEF Locked
    <3>2. at[c] \notin Fetching
      BY <1>0, <2>2, <3>1 DEF Locked
    <3> QED BY <1>1, <3>1, <3>2 DEF Holds
  <2> QED BY <2>1, <2>2
<1>9. ReplyRecent'
  <2> SUFFICES ASSUME NEW d \in Calls, NEW j \in Keys, at'[d] = "answering",
                      j \in reply'[d] <=> j \notin listed
               PROVE  turned[j] <= waited'
    BY <1>3 DEF ReplyRecent
  <2>1. CASE d = c
    <3>1. to = "answering" /\ reply'[d] = document
      BY <1>4, <2>1
    <3>2. document = listed
      BY <1>1, <3>1 DEF Moved
    <3> QED BY <3>1, <3>2
  <2>2. CASE d # c
    <3>1. at[d] = "answering" /\ reply'[d] = reply[d] /\ lock = d /\ lock # NoCall
      BY <1>0, <1>4, <2>2, CallsAssumption DEF Locked, Fetching
    <3>2. at[c] \notin Fetching
      BY <1>0, <2>2, <3>1 DEF Locked
    <3>3. waited' = waited
      BY <1>1, <3>1, <3>2 DEF Holds
    <3> QED BY <1>0, <3>1, <3>3 DEF ReplyRecent
  <2> QED BY <2>1, <2>2
<1>10. CacheRecent'
  <2>1. CASE UNCHANGED <<cached, ttl, pause>>
    BY <1>0, <1>3, <2>1 DEF CacheRecent
  <2>2. CASE /\ at[c] = "answering"
             /\ cached' = reply[c] /\ ttl' = CacheTtl /\ pause' \in {pause, Pause}
    <3> SUFFICES ASSUME NEW j \in Keys, j \in reply[c] <=> j \notin listed
                 PROVE  turned[j] + ttl' <= CacheTtl + Latency /\ turned[j] + pause' <= Pause + Latency
      BY <1>3, <2>2 DEF CacheRecent
    <3>1. turned[j] <= waited /\ waited <= Latency /\ turned[j] \in Nat /\ waited \in Nat
      BY <1>0, <2>2, TimesAssumption, PauseFacts DEF ReplyRecent, KeysTyped
    <3>2. pause' <= Pause /\ pause' \in Nat
      BY <1>0, <2>2, PauseFacts DEF KeysTyped
    <3> QED BY <2>2, <3>1, <3>2, TimesAssumption, PauseFacts
  <2> QED BY <1>6, <2>1, <2>2
<1> QED BY <1>7, <1>8, <1>9, <1>10 DEF KeysInv

\* The issuer's rotations do.
LEMMA RotationKeeps ==
    ASSUME KeysInv, NEW k \in Keys, Rotates(k)
    PROVE  KeysInv'
<1>0. KeysTyped /\ Locked /\ ReplyRecent /\ CacheRecent
  BY DEF KeysInv
<1>1. UNCHANGED <<cached, ttl, pause, discovered, lock, waited, at, kid, forced, reply>>
  BY DEF Rotates, cacheVars, callVars
<1>2. /\ \A j \in Keys \ {k} : turned'[j] = turned[j] /\ (j \in listed' <=> j \in listed)
      /\ turned'[k] = 0 /\ listed' \subseteq Keys
  BY <1>0 DEF Rotates, KeysTyped
<1>3. KeysTyped'
  <2>1. turned' \in [Keys -> 0 .. LongAgo]
    BY <1>0, PauseFacts DEF Rotates, KeysTyped
  <2> QED BY <1>0, <1>1, <1>2, <2>1 DEF KeysTyped
<1>4. Locked'
  BY <1>0, <1>1 DEF Locked
<1>5. ReplyRecent'
  <2> SUFFICES ASSUME NEW d \in Calls, NEW j \in Keys, at[d] = "answering",
                      j \in reply[d] <=> j \notin listed'
               PROVE  turned'[j] <= waited
    BY <1>1 DEF ReplyRecent
  <2>1. CASE j = k
    BY <1>0, <1>2, <2>1, TimesAssumption DEF KeysTyped
  <2>2. CASE j # k
    BY <1>0, <1>2, <2>2 DEF ReplyRecent
  <2> QED BY <2>1, <2>2
<1>6. CacheRecent'
  <2> SUFFICES ASSUME NEW j \in Keys
               PROVE  /\ j \in cached /\ j \notin listed' /\ ttl > 0
                         => turned'[j] + ttl <= CacheTtl + Latency
                      /\ j \notin cached /\ j \in listed' /\ pause > 0
                         => turned'[j] + pause <= Pause + Latency
    BY <1>1 DEF CacheRecent
  <2>1. CASE j = k
    <3>1. ttl \in 0 .. CacheTtl /\ pause \in 0 .. Pause
      BY <1>0 DEF KeysTyped
    <3> QED BY <1>2, <2>1, <3>1, TimesAssumption, PauseFacts
  <2>2. CASE j # k
    BY <1>0, <1>2, <2>2 DEF CacheRecent
  <2> QED BY <2>1, <2>2
<1> QED BY <1>3, <1>4, <1>5, <1>6 DEF KeysInv

\* So does time: what is remembered grows older as fast as lives and pauses shorten.
LEMMA TickKeeps ==
    ASSUME KeysInv, KeysTick
    PROVE  KeysInv'
<1>0. KeysTyped /\ Locked /\ ReplyRecent /\ CacheRecent
  BY DEF KeysInv
<1>1. UNCHANGED <<listed, cached, discovered, lock, at, kid, forced, reply>>
  BY DEF KeysTick, callVars
<1>2. /\ lock # NoCall => waited < Latency /\ waited' = waited + 1
      /\ lock = NoCall => waited' = 0
      /\ ttl' = Less(ttl) /\ pause' = Less(pause)
  BY DEF KeysTick
<1>3. \A k \in Keys : turned'[k] = Smaller(turned[k] + 1, LongAgo)
  BY DEF KeysTick
<1>4. /\ waited \in Nat /\ waited <= Latency /\ ttl \in Nat /\ pause \in Nat
      /\ ttl <= CacheTtl /\ pause <= Pause
      /\ \A k \in Keys : turned[k] \in Nat
  BY <1>0, TimesAssumption, PauseFacts DEF KeysTyped
<1>5. \A k \in Keys : turned'[k] \in 0 .. LongAgo /\ turned'[k] <= turned[k] + 1
  BY <1>3, <1>4, PauseFacts DEF Smaller
<1>6. KeysTyped'
  <2>1. turned' \in [Keys -> 0 .. LongAgo]
    BY <1>5 DEF KeysTick
  <2>2. waited' \in 0 .. Latency
    BY <1>2, <1>4, TimesAssumption
  <2>3. ttl' \in 0 .. CacheTtl /\ pause' \in 0 .. Pause
    BY <1>2, <1>4, TimesAssumption, PauseFacts DEF Less
  <2> QED BY <1>0, <1>1, <2>1, <2>2, <2>3 DEF KeysTyped
<1>7. Locked'
  BY <1>0, <1>1 DEF Locked
<1>8. ReplyRecent'
  <2> SUFFICES ASSUME NEW d \in Calls, NEW j \in Keys, at[d] = "answering",
                      j \in reply[d] <=> j \notin listed
               PROVE  turned'[j] <= waited'
    BY <1>1 DEF ReplyRecent
  <2>1. turned[j] <= waited
    BY <1>0 DEF ReplyRecent
  <2>2. waited' = waited + 1
    BY <1>0, <1>2, CallsAssumption DEF Locked, Fetching
  <2> QED BY <1>4, <1>5, <2>1, <2>2
<1>9. CacheRecent'
  <2> SUFFICES ASSUME NEW j \in Keys
               PROVE  /\ j \in cached /\ j \notin listed /\ ttl' > 0
                         => turned'[j] + ttl' <= CacheTtl + Latency
                      /\ j \notin cached /\ j \in listed /\ pause' > 0
                         => turned'[j] + pause' <= Pause + Latency
    BY <1>1 DEF CacheRecent
  <2>1. ttl' > 0 => ttl > 0 /\ ttl' = ttl - 1
    BY <1>2, <1>4 DEF Less
  <2>2. pause' > 0 => pause > 0 /\ pause' = pause - 1
    BY <1>2, <1>4 DEF Less
  <2>3. turned'[j] \in Nat /\ turned'[j] <= turned[j] + 1 /\ turned[j] \in Nat
    BY <1>4, <1>5, PauseFacts
  <2>4. ASSUME j \in cached, j \notin listed, ttl' > 0 PROVE turned'[j] + ttl' <= CacheTtl + Latency
    <3>1. turned[j] + ttl <= CacheTtl + Latency
      BY <1>0, <2>1, <2>4 DEF CacheRecent
    <3> QED BY <1>4, <2>1, <2>3, <2>4, <3>1, TimesAssumption
  <2>5. ASSUME j \notin cached, j \in listed, pause' > 0 PROVE turned'[j] + pause' <= Pause + Latency
    <3>1. turned[j] + pause <= Pause + Latency
      BY <1>0, <2>2, <2>5 DEF CacheRecent
    <3> QED BY <1>4, <2>2, <2>3, <2>5, <3>1, TimesAssumption, PauseFacts
  <2> QED BY <2>4, <2>5
<1> QED BY <1>6, <1>7, <1>8, <1>9 DEF KeysInv

\* The invariant of the keys is inductive.
LEMMA NextKeys == KeysInv /\ [Next]_vars => KeysInv'
<1> SUFFICES ASSUME KeysInv, [Next]_vars PROVE KeysInv'
  OBVIOUS
<1>1. ASSUME UNCHANGED keyVars PROVE KeysInv'
  BY <1>1 DEF keyVars, cacheVars, callVars, KeysInv, KeysTyped, Locked, ReplyRecent, CacheRecent
<1>2. CASE Runs
  <2>1. UNCHANGED keyVars
    BY <1>2 DEF Runs, Imports, Acquires, AcquiringFails, StartsPublisher, Signalled, LastCallEnds,
         AsksToStop, IsCancelled, Pops, Exits, PassDone, PassFails, WaitEnds
  <2> QED BY <1>1, <2>1
<1>3. ASSUME NEW c \in Calls, Serves(c) PROVE KeysInv'
  BY <1>3, CallKeeps DEF Serves
<1>4. CASE Outside
  BY <1>4, TickKeeps, RotationKeeps DEF Outside
<1>5. CASE UNCHANGED vars
  BY <1>1, <1>5 DEF vars
<1> QED BY <1>2, <1>3, <1>4, <1>5 DEF Next

\* It holds at first.
LEMMA InitKeys == Init => KeysInv
<1> SUFFICES ASSUME Init PROVE KeysInv
  OBVIOUS
<1>1. (CHOOSE k \in Keys : TRUE) \in Keys
  BY KeysAssumption
<1>2. KeysTyped
  <2>1. kid \in [Calls -> Keys]
    BY <1>1 DEF Init, KeysInit
  <2>2. turned \in [Keys -> 0 .. LongAgo] /\ 0 \in 0 .. Latency /\ 0 \in 0 .. Pause /\ 0 \in 0 .. CacheTtl
    BY TimesAssumption, PauseFacts DEF Init, KeysInit
  <2>3. at \in [Calls -> CallStates] /\ forced \in [Calls -> BOOLEAN] /\ reply \in [Calls -> SUBSET Keys]
    BY DEF Init, KeysInit, CallStates
  <2> QED BY <2>1, <2>2, <2>3, KeysAssumption DEF Init, KeysInit, KeysTyped, CallStates
<1>3. Locked /\ ReplyRecent /\ CacheRecent
  BY DEF Init, KeysInit, Locked, Fetching, ReplyRecent, CacheRecent
<1> QED BY <1>2, <1>3 DEF KeysInv

-----------------------------------------------------------------------------
(* The keys a call is answered by. *)

\* A call is let in by a key of a document that lives, or of one that has just come.
LEMMA AdmittedBy ==
    ASSUME KeysTyped, NEW c \in Calls, Authenticates(c), Becomes(c, "admitted")
    PROVE  \/ kid[c] \in cached /\ ttl > 0
           \/ at[c] = "answering" /\ kid[c] \in reply[c]
<1>1. ttl # 0 => ttl > 0
  BY TimesAssumption DEF KeysTyped
<1>2. ASSUME NEW keys, NEW again, NEW free, Decides(c, keys, again, free) PROVE kid[c] \in keys
  BY <1>2 DEF Decides, Verified, Answered, Refreshes, Asks, Becomes, KeysTyped
<1>3. ASSUME NEW force, NEW free PROVE ~Refreshes(c, force, free) /\ ~Asks(c, force)
  BY DEF Refreshes, Asks, Becomes, KeysTyped
<1>4. CASE Begins(c) \/ GetsLock(c)
  <2>1. ttl # 0
    BY <1>3, <1>4 DEF Begins, GetsLock
  <2>2. kid[c] \in cached
    BY <1>2, <1>3, <1>4, <2>1 DEF Begins, GetsLock
  <2> QED BY <1>1, <2>1, <2>2
<1>5. CASE Receives(c)
  BY <1>2, <1>5 DEF Receives, NewKeys
<1>6. CASE Discovers(c) \/ Responds(c) \/ FetchFails(c)
  BY <1>6 DEF Discovers, Responds, FetchFails, Answered, Becomes, KeysTyped
<1> QED BY <1>4, <1>5, <1>6 DEF Authenticates

\* A key is unknown that is not in a document that lives, during the pause, or not in one
\* that has just come.
LEMMA UnknownBy ==
    ASSUME KeysTyped, NEW c \in Calls, Authenticates(c), Becomes(c, "unknown")
    PROVE  \/ kid[c] \notin cached /\ pause > 0
           \/ at[c] = "answering" /\ kid[c] \notin reply[c]
<1>2. ASSUME NEW keys, NEW again, NEW free, Decides(c, keys, again, free)
      PROVE  kid[c] \notin keys /\ (again \/ pause > 0)
  BY <1>2 DEF Decides, Verified, Answered, Refreshes, Asks, Becomes, KeysTyped
<1>3. ASSUME NEW force, NEW free PROVE ~Refreshes(c, force, free) /\ ~Asks(c, force)
  BY DEF Refreshes, Asks, Becomes, KeysTyped
<1>4. CASE Begins(c) \/ GetsLock(c)
  <2>1. ttl # 0
    BY <1>3, <1>4 DEF Begins, GetsLock
  <2>2. kid[c] \notin cached /\ (FALSE \/ pause > 0)
    BY <1>2, <1>3, <1>4, <2>1 DEF Begins, GetsLock
  <2> QED BY <2>2
<1>5. CASE Receives(c)
  BY <1>2, <1>5 DEF Receives, NewKeys
<1>6. CASE Discovers(c) \/ Responds(c) \/ FetchFails(c)
  BY <1>6 DEF Discovers, Responds, FetchFails, Answered, Becomes, KeysTyped
<1> QED BY <1>4, <1>5, <1>6 DEF Authenticates

\* Only its own authentication lets a call in or turns it away.
LEMMA OwnAnswer ==
    ASSUME KeysInv, [Next]_vars, NEW c \in Calls, NEW answer \in {"admitted", "unknown"},
           Becomes(c, answer)
    PROVE  Authenticates(c)
<1>0. KeysTyped /\ Locked
  BY DEF KeysInv
<1>1. at' # at
  BY DEF Becomes
<1>2. PICK d \in Calls : Serves(d)
  BY <1>1 DEF Next, Runs, Imports, Acquires, AcquiringFails, StartsPublisher, Signalled, LastCallEnds,
       AsksToStop, IsCancelled, Pops, Exits, PassDone, PassFails, WaitEnds, Outside, KeysTick, Rotates,
       vars, keyVars, callVars
<1>3. Authenticates(d) \/ Arrives(d) \/ Leaves(d)
  BY <1>2 DEF Serves
<1>4. d = c
  <2>1. PICK to \in CallStates, force \in BOOLEAN, document \in SUBSET Keys :
           Moved(d, to, force, document)
    BY <1>0, <1>3, CallMoves
  <2> QED BY <1>0, <2>1 DEF Becomes, Moved, KeysTyped
<1>5. ~Arrives(c) /\ ~Leaves(c)
  BY <1>0 DEF Arrives, Leaves, Answered, Becomes, KeysTyped
<1> QED BY <1>3, <1>4, <1>5

\* THEOREM: no call is let in by a key that was withdrawn longer ago than a document
\* lives and a fetch takes, however many calls share the cache and the lock.
THEOREM WithdrawnKeysCorrect == Spec => WithdrawnKeysExpire
<1>1. ASSUME KeysInv, [Next]_vars, NEW c \in Calls, Becomes(c, "admitted"), kid[c] \notin listed
      PROVE  turned[kid[c]] < CacheTtl + Latency
  <2>0. KeysTyped /\ ReplyRecent /\ CacheRecent
    BY <1>1 DEF KeysInv
  <2>1. Authenticates(c)
    BY <1>1, OwnAnswer
  <2>2. kid[c] \in Keys /\ turned[kid[c]] \in Nat /\ ttl \in Nat /\ waited \in 0 .. Latency
    BY <2>0, TimesAssumption, PauseFacts DEF KeysTyped
  <2>3. CASE kid[c] \in cached /\ ttl > 0
    <3>1. turned[kid[c]] + ttl <= CacheTtl + Latency
      BY <1>1, <2>0, <2>2, <2>3 DEF CacheRecent
    <3> QED BY <2>2, <2>3, <3>1, TimesAssumption
  <2>4. CASE at[c] = "answering" /\ kid[c] \in reply[c]
    <3>1. turned[kid[c]] <= waited
      BY <1>1, <2>0, <2>2, <2>4 DEF ReplyRecent
    <3> QED BY <2>2, <3>1, TimesAssumption
  <2> QED BY <1>1, <2>0, <2>1, <2>3, <2>4, AdmittedBy
<1>2. KeysInv /\ [Next]_vars =>
        [\A c \in Calls : Becomes(c, "admitted") =>
            kid[c] \in listed \/ turned[kid[c]] < CacheTtl + Latency]_keyVars
  BY <1>1
<1> QED BY <1>2, InitKeys, NextKeys, PTL DEF Spec, WithdrawnKeysExpire

\* THEOREM: no key is unknown that has been listed for longer than the pause and a fetch,
\* however many unknown keys others ask for.
THEOREM NewKeysCorrect == Spec => NewKeysAreSeen
<1>1. ASSUME KeysInv, [Next]_vars, NEW c \in Calls, Becomes(c, "unknown"), kid[c] \in listed
      PROVE  turned[kid[c]] < Pause + Latency
  <2>0. KeysTyped /\ ReplyRecent /\ CacheRecent
    BY <1>1 DEF KeysInv
  <2>1. Authenticates(c)
    BY <1>1, OwnAnswer
  <2>2. kid[c] \in Keys /\ turned[kid[c]] \in Nat /\ pause \in Nat /\ waited \in 0 .. Latency
    BY <2>0, TimesAssumption, PauseFacts DEF KeysTyped
  <2>3. CASE kid[c] \notin cached /\ pause > 0
    <3>1. turned[kid[c]] + pause <= Pause + Latency
      BY <1>1, <2>0, <2>2, <2>3 DEF CacheRecent
    <3> QED BY <2>2, <2>3, <3>1, TimesAssumption, PauseFacts
  <2>4. CASE at[c] = "answering" /\ kid[c] \notin reply[c]
    <3>1. turned[kid[c]] <= waited
      BY <1>1, <2>0, <2>2, <2>4 DEF ReplyRecent
    <3> QED BY <2>2, <3>1, TimesAssumption, PauseFacts
  <2> QED BY <1>1, <2>0, <2>1, <2>3, <2>4, UnknownBy
<1>2. KeysInv /\ [Next]_vars =>
        [\A c \in Calls : Becomes(c, "unknown") =>
            kid[c] \notin listed \/ turned[kid[c]] < Pause + Latency]_keyVars
  BY <1>1
<1> QED BY <1>2, InitKeys, NextKeys, PTL DEF Spec, NewKeysAreSeen

-----------------------------------------------------------------------------
(* The process. *)

\* Calls are in hand only while the process serves or leaves, when everything is open;
\* the publisher's task is one of the last things opened and the first to end.
Opened ==
    /\ phase = "importing" => depth = 0
    /\ phase \in {"importing", "starting"} => loop = "none"
    /\ phase \in {"serving", "leaving"} => depth = Supervisor
    /\ phase \notin {"serving", "leaving"} => \A c \in Calls : at[c] = "none"
    /\ phase = "exited" => depth = 0
    /\ loop \in {"pass", "waiting"} => depth = Supervisor

ProcessInv == ProcessTyped /\ Opened

\* The steps of the process and of the publisher's loop keep it.
LEMMA RunsKeep ==
    ASSUME KeysTyped, ProcessInv, Runs
    PROVE  ProcessInv'
<1>0. ProcessTyped /\ Opened
  BY DEF ProcessInv
<1>1. at' = at
  BY DEF Runs, Imports, Acquires, AcquiringFails, StartsPublisher, Signalled, LastCallEnds,
         AsksToStop, IsCancelled, Pops, Exits, PassDone, PassFails, WaitEnds, keyVars, callVars
<1>2. CASE Imports \/ Acquires \/ AcquiringFails \/ StartsPublisher
  BY <1>0, <1>1, <1>2 DEF Imports, Acquires, AcquiringFails, StartsPublisher, ProcessInv, ProcessTyped,
     Opened, Supervisor, HttpClient, Telemetry
<1>3. CASE Signalled \/ LastCallEnds \/ AsksToStop \/ IsCancelled
  BY <1>0, <1>1, <1>3 DEF Signalled, LastCallEnds, AsksToStop, IsCancelled, ProcessInv, ProcessTyped,
     Opened, Supervisor
<1>4. CASE Pops \/ Exits
  BY <1>0, <1>1, <1>4 DEF Pops, Exits, ProcessInv, ProcessTyped, Opened, Supervisor
<1>5. CASE PassDone \/ WaitEnds
  BY <1>0, <1>1, <1>5, LoopAssumption DEF PassDone, WaitEnds, NextRound, ProcessInv, ProcessTyped,
     Opened, Supervisor
<1>6. CASE PassFails
  BY <1>0, <1>1, <1>6, LoopAssumption DEF PassFails, Backoff, ProcessInv, ProcessTyped, Opened, Supervisor
<1> QED BY <1>2, <1>3, <1>4, <1>5, <1>6 DEF Runs

\* A call steps only while the process serves or leaves.
LEMMA CallsNeedProcess ==
    ASSUME KeysInv, ProcessInv, NEW c \in Calls, Serves(c), UNCHANGED processVars
    PROVE  ProcessInv'
<1>0. KeysTyped /\ Locked /\ ProcessTyped /\ Opened
  BY DEF ProcessInv, KeysInv
<1>1. UNCHANGED <<phase, depth, loop, failures, stopping>>
  BY DEF processVars
<1>2. phase \in {"serving", "leaving"}
  <2>1. Authenticates(c) \/ Leaves(c) => at[c] # "none"
    BY DEF Authenticates, Begins, GetsLock, Discovers, Responds, Receives, FetchFails, Leaves,
       Answers
  <2> QED BY <1>0, <2>1 DEF Opened, Serves
<1> QED BY <1>0, <1>1, <1>2 DEF ProcessInv, ProcessTyped, Opened

\* The invariant of process and keys is inductive.
LEMMA NextProcess == KeysInv /\ ProcessInv /\ [Next]_vars => ProcessInv'
<1> SUFFICES ASSUME KeysInv, ProcessInv, [Next]_vars PROVE ProcessInv'
  OBVIOUS
<1>1. CASE Runs
  BY <1>1, RunsKeep DEF KeysInv
<1>2. ASSUME NEW c \in Calls, Serves(c), UNCHANGED processVars PROVE ProcessInv'
  BY <1>2, CallsNeedProcess
<1>3. CASE (Outside /\ UNCHANGED processVars) \/ UNCHANGED vars
  BY <1>3 DEF Outside, KeysTick, Rotates, processVars, vars, keyVars, callVars, ProcessInv, ProcessTyped, Opened
<1> QED BY <1>1, <1>2, <1>3 DEF Next

\* The invariants of keys and process hold in every run.
LEMMA BothHold == Spec => [](KeysInv /\ ProcessInv)
<1>1. Init => ProcessInv
  <2> SUFFICES ASSUME Init PROVE ProcessInv
    OBVIOUS
  <2>1. 0 \in 0 .. Supervisor /\ 0 \in 0 .. MaxFailures
    BY LoopAssumption DEF Supervisor
  <2>2. \A c \in Calls : at[c] = "none"
    BY DEF Init, KeysInit
  <2> QED BY <2>1, <2>2 DEF Init, ProcessInv, ProcessTyped, Opened
<1> QED BY <1>1, InitKeys, NextKeys, NextProcess, PTL DEF Spec

\* THEOREM: in every run of Orchestrator the state has its types.
THEOREM OrchestratorTypeCorrect == Spec => []TypeOK
<1>1. KeysInv /\ ProcessInv => TypeOK
  BY DEF KeysInv, KeysTyped, ProcessInv, ProcessTyped, TypeOK
<1> QED BY <1>1, BothHold, PTL

\* THEOREM: whatever fails while the process starts, and whenever it is told to stop,
\* nothing is closed before its last use and nothing is left open.
THEOREM ClosedAfterUseCorrect == Spec => []ClosedAfterUse
<1>1. KeysInv /\ ProcessInv => ClosedAfterUse
  BY DEF KeysInv, KeysTyped, ProcessInv, ProcessTyped, Opened, ClosedAfterUse, Supervisor, HttpClient,
     CtcEngine, Publisher
<1> QED BY <1>1, BothHold, PTL

\* The task ends when it is told to, on the way out, or of too many failures.
Ending ==
    /\ stopping => phase \in {"closing", "exited"}
    /\ loop = "ended" => stopping \/ failures > FloatExponent

\* THEOREM: while the process serves, the publisher's loop survives whatever fails, until
\* more passes than a float has exponents have failed in a row: the backoff's overflow is
\* the only way to lose it.
THEOREM PublisherSurvivesCorrect ==
    Spec => [](failures <= FloatExponent => PublisherSurvives)
<1>1. Init => Ending
  BY DEF Init, Ending
<1>2. KeysInv /\ ProcessInv /\ Ending /\ [Next]_vars => Ending'
  <2> SUFFICES ASSUME ProcessTyped, Opened, Ending, [Next]_vars
               PROVE  Ending'
    BY DEF ProcessInv
  <2>1. failures \in Nat /\ FloatExponent \in Nat
    BY LoopAssumption DEF ProcessTyped
  <2>2. CASE Imports \/ Acquires \/ AcquiringFails \/ StartsPublisher
    BY <2>2 DEF Imports, Acquires, AcquiringFails, StartsPublisher, Ending, Opened
  <2>3. CASE Signalled \/ LastCallEnds \/ AsksToStop \/ IsCancelled \/ Pops \/ Exits
    BY <2>3 DEF Signalled, LastCallEnds, AsksToStop, IsCancelled, Pops, Exits, Ending
  <2>4. CASE PassDone \/ WaitEnds
    BY <2>4 DEF PassDone, WaitEnds, NextRound, Ending
  <2>5. CASE PassFails
    BY <2>1, <2>5 DEF PassFails, Backoff, Ending
  <2>6. CASE UNCHANGED processVars
    BY <2>6 DEF processVars, Ending
  <2> QED BY <2>2, <2>3, <2>4, <2>5, <2>6 DEF Next, Runs, vars
<1>3. KeysInv /\ ProcessInv /\ Ending => (failures <= FloatExponent => PublisherSurvives)
  BY LoopAssumption DEF ProcessInv, ProcessTyped, Ending, PublisherSurvives
<1> QED BY <1>1, <1>2, <1>3, BothHold, PTL DEF Spec
=============================================================================
