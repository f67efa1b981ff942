------------------------------ MODULE SigningKeys ------------------------------
(***************************************************************************)
(* How the orchestrator authenticates a call.  A token names the key that  *)
(* signed it; the keys come from the issuer's JWKS document, which is kept *)
(* for a while, fetched under a lock, and fetched out of turn for a key it *)
(* does not list, though not again for a pause after that.                 *)
(*                                                                         *)
(* A step is the code between two awaits.  Time passes in ticks, and a     *)
(* fetch takes at most Latency of them (the client's timeouts).            *)
(***************************************************************************)
EXTENDS Naturals, FiniteSets

CONSTANTS
    Calls,          \* calls that are served at the same time
    NoCall,
    Keys,           \* key ids a token may name
    FirstKeys,      \* those the issuer lists at first
    CacheTtl,       \* cache_ttl_seconds, in ticks
    LongestPause,   \* 60 seconds, in ticks
    Latency         \* bound: ticks a fetch may take

ASSUME CallsAssumption == NoCall \notin Calls
ASSUME KeysAssumption == Keys # {} /\ FirstKeys \subseteq Keys
ASSUME TimesAssumption ==
    CacheTtl \in Nat \ {0} /\ LongestPause \in Nat \ {0} /\ Latency \in Nat

VARIABLES
    listed,     \* the keys the issuer lists
    cached,     \* _keys: the ids that were listed in the last document
    ttl,        \* ticks until _expires_at
    pause,      \* ticks until _forced_refresh_after
    discovered, \* _jwks_url is known
    lock,       \* who holds _refresh_lock
    waited,     \* ticks its holder has been fetching
    at,         \* where each call is
    kid,        \* the key its token names
    forced,     \* it refreshes out of turn
    reply,      \* the document on its way to it
    turned      \* history: ticks since a key was last listed or withdrawn

cacheVars == <<cached, ttl, pause, discovered>>
callVars == <<at, kid, forced, reply>>
keyVars == <<listed, cacheVars, lock, waited, callVars, turned>>

Smaller(a, b) == IF a <= b THEN a ELSE b
Pause == Smaller(CacheTtl, LongestPause)

\* Ticks beyond this one are not told apart.
LongAgo == CacheTtl + LongestPause + Latency

KeysInit ==
    /\ listed = FirstKeys
    /\ cached = {} /\ ttl = 0 /\ pause = 0 /\ discovered = FALSE
    /\ lock = NoCall /\ waited = 0
    /\ at = [c \in Calls |-> "none"]
    /\ kid \in [Calls -> {CHOOSE k \in Keys : TRUE}]
    /\ forced = [c \in Calls |-> FALSE]
    /\ reply = [c \in Calls |-> {}]
    /\ turned = [k \in Keys |-> LongAgo]

Answers == {"admitted", "refused", "unknown", "unavailable"}
Queued == {c \in Calls : at[c] = "queued"}
Free == lock = NoCall /\ Queued = {}

-----------------------------------------------------------------------------
\* Nothing but a bearer token with a key id in its header is looked at any further.
Arrives(c) ==
    /\ at[c] = "none"
    /\ \/ at' = [at EXCEPT ![c] = "arrived"] /\ \E k \in Keys : kid' = [kid EXCEPT ![c] = k]
       \/ at' = [at EXCEPT ![c] = "refused"] /\ UNCHANGED kid
    /\ UNCHANGED <<listed, cacheVars, lock, waited, forced, reply, turned>>

Answered(c, answer) ==
    /\ at' = [at EXCEPT ![c] = answer]
    /\ forced' = [forced EXCEPT ![c] = FALSE]
    /\ reply' = [reply EXCEPT ![c] = {}]

\* With the lock a call asks for the document, and where it is when nobody has yet.
Asks(c, force) ==
    /\ at' = [at EXCEPT ![c] = IF discovered THEN "fetching" ELSE "discovering"]
    /\ forced' = [forced EXCEPT ![c] = force]
    /\ reply' = [reply EXCEPT ![c] = {}]
    /\ lock' = c /\ waited' = 0

\* The lock is given out in turn.
Refreshes(c, force, free) ==
    \/ free /\ Asks(c, force)
    \/ /\ ~free
       /\ at' = [at EXCEPT ![c] = "queued"]
       /\ forced' = [forced EXCEPT ![c] = force]
       /\ reply' = [reply EXCEPT ![c] = {}]
       /\ UNCHANGED waited

\* Signature, claims and scope decide once the key is there.
Verified(c) == Answered(c, "admitted") \/ Answered(c, "refused")

\* _key with an unexpired document; "again" after a refresh out of turn.
Decides(c, keys, again, free) ==
    \/ kid[c] \in keys /\ Verified(c) /\ UNCHANGED waited
    \/ /\ kid[c] \notin keys /\ (again \/ pause > 0)
       /\ Answered(c, "unknown")
       /\ UNCHANGED waited
    \/ kid[c] \notin keys /\ ~again /\ pause = 0 /\ Refreshes(c, TRUE, free)

\* Unless a call has taken the lock it is as it was, or free.
KeepsLock(c, held) == at'[c] \in {"fetching", "discovering"} \/ lock' = held

Begins(c) ==
    /\ at[c] = "arrived"
    /\ IF ttl = 0 THEN Refreshes(c, FALSE, Free) ELSE Decides(c, cached, FALSE, Free)
    /\ KeepsLock(c, lock)
    /\ UNCHANGED <<listed, cacheVars, kid, turned>>

\* The document may have been fetched meanwhile; a refresh out of turn does not ask.
GetsLock(c) ==
    /\ at[c] = "queued" /\ lock = NoCall
    /\ IF forced[c] \/ ttl = 0
       THEN Asks(c, forced[c])
       ELSE Decides(c, cached, FALSE, Queued = {c})
    /\ KeepsLock(c, NoCall)
    /\ UNCHANGED <<listed, cacheVars, kid, turned>>

Discovers(c) ==
    /\ at[c] = "discovering"
    /\ discovered' = TRUE
    /\ at' = [at EXCEPT ![c] = "fetching"]
    /\ UNCHANGED <<listed, cached, ttl, pause, lock, waited, kid, forced, reply, turned>>

Responds(c) ==
    /\ at[c] = "fetching"
    /\ at' = [at EXCEPT ![c] = "answering"]
    /\ reply' = [reply EXCEPT ![c] = listed]
    /\ UNCHANGED <<listed, cacheVars, lock, waited, kid, forced, turned>>

\* Fault: keys are added to those that were there.
AddedKeys(document) == cached \cup document
NewKeys(document) == document

\* Fault: the longer of the two times.
PausedLonger(c) ==
    pause' = IF forced[c] THEN (IF CacheTtl > LongestPause THEN CacheTtl ELSE LongestPause)
             ELSE pause
Paused(c) == pause' = IF forced[c] THEN Pause ELSE pause

Receives(c) ==
    /\ at[c] = "answering"
    /\ cached' = NewKeys(reply[c])
    /\ ttl' = CacheTtl
    /\ Paused(c)
    /\ Decides(c, cached', forced[c], Queued = {})
    /\ KeepsLock(c, NoCall)
    /\ UNCHANGED <<listed, discovered, kid, turned>>

\* No answer in time, an error, or no document.
FetchFails(c) ==
    /\ at[c] \in {"discovering", "fetching", "answering"}
    /\ Answered(c, "unavailable")
    /\ lock' = NoCall
    /\ UNCHANGED <<listed, cacheVars, waited, kid, turned>>

\* The response is sent; the next call may come.
Leaves(c) ==
    /\ at[c] \in Answers
    /\ Answered(c, "none")
    /\ kid' = [kid EXCEPT ![c] = CHOOSE k \in Keys : TRUE]
    /\ UNCHANGED <<listed, cacheVars, lock, waited, turned>>

Authenticates(c) ==
    Begins(c) \/ GetsLock(c) \/ Discovers(c) \/ Responds(c) \/ Receives(c) \/ FetchFails(c)

-----------------------------------------------------------------------------
(* The issuer, and time. *)

Rotates(k) ==
    /\ listed' = IF k \in listed THEN listed \ {k} ELSE listed \cup {k}
    /\ turned' = [turned EXCEPT ![k] = 0]
    /\ UNCHANGED <<cacheVars, lock, waited, callVars>>

Less(n) == IF n = 0 THEN 0 ELSE n - 1

KeysTick ==
    /\ lock # NoCall => waited < Latency
    /\ waited' = IF lock # NoCall THEN waited + 1 ELSE 0
    /\ ttl' = Less(ttl) /\ pause' = Less(pause)
    /\ turned' = [k \in Keys |-> Smaller(turned[k] + 1, LongAgo)]
    /\ UNCHANGED <<listed, cached, discovered, lock, callVars>>

-----------------------------------------------------------------------------
(* Correctness. *)

Becomes(c, answer) == at[c] # answer /\ at'[c] = answer

\* However refreshes, failures and rotations interleave, no call is let in by a key
\* that was withdrawn longer ago than the document lives and a fetch takes.
WithdrawnKeysExpire ==
    [][\A c \in Calls : Becomes(c, "admitted") =>
          kid[c] \in listed \/ turned[kid[c]] < CacheTtl + Latency]_keyVars

\* However many unknown keys others have asked for, a key is not called unknown once
\* it has been listed for longer than the pause and a fetch.
NewKeysAreSeen ==
    [][\A c \in Calls : Becomes(c, "unknown") =>
          kid[c] \notin listed \/ turned[kid[c]] < Pause + Latency]_keyVars
=============================================================================
