---------------------------- MODULE CtcClientProofs ----------------------------
(***************************************************************************)
(* Proofs about CtcClient, for any number of concurrent requests and of    *)
(* tokens issued, aged and revoked.                                        *)
(***************************************************************************)
EXTENDS CtcClient, FiniteSetTheorems, TLAPS

Places == {"new", "queued", "fetching", "sent", "ended"}
Replies == {"none", "done", "conflict", "forbidden", "rejected", "busy", "unauthorized"}
Results == {"none", "read", "written", "skipped", "unavailable", "invalid", "failed",
            "error", "cancelled"}

\* A request is sent with a token that was issued.
SentWithToken == \A r \in Requests : at[r] = "sent" => token[r] # NoToken

\* Only who holds the lock fetches, and only while there is no token to use.
FetchedInTurn ==
    \A r \in Requests : at[r] = "fetching" => lock = r /\ ~Usable(cached, due)

\* All tokens but the cached one are used up, and so is that one when it is due.
OthersUsedUp ==
    /\ \A t \in 1 .. issued : t # cached => t \in aged \cup refused
    /\ cached # NoToken /\ due => cached \in aged

Tokens == SentWithToken /\ FetchedInTurn /\ OthersUsedUp

\* What CTC has done for a request agrees with the answer on its way and with what
\* the caller is told; a request that is still to be sent has had no effect.
Progress(r) ==
    /\ at[r] # "ended" => outcome[r] = "none"
    /\ at[r] # "sent" => reply[r] = "none"
    /\ at[r] # "ended" /\ reply[r] \notin {"done", "busy"} => applied[r] = 0
    /\ reply[r] = "done" => applied[r] = 1
    /\ applied[r] <= 1
    /\ outcome[r] \in {"written", "read"} => applied[r] = 1
    /\ outcome[r] \in {"skipped", "failed", "invalid"} => applied[r] = 0

-----------------------------------------------------------------------------
(* Types. *)

\* The types of the shared state hold together with those of the requests.
SharedTyped ==
    /\ issued \in 0 .. MaxTokens
    /\ accepted \in SUBSET (1 .. issued)
    /\ cached \in 0 .. issued
    /\ lock \in Requests \cup {NoRequest}
    /\ aged \in SUBSET (1 .. issued) /\ refused \in SUBSET (1 .. issued)
RequestsTyped ==
    /\ at \in [Requests -> Places]
    /\ token \in [Requests -> 0 .. issued]
    /\ reply \in [Requests -> Replies]
    /\ applied \in [Requests -> Nat]
    /\ outcome \in [Requests -> Results]
FlagsTyped == due \in BOOLEAN /\ replay \in [Requests -> BOOLEAN]

\* The type invariant is the three parts.
LEMMA TypeParts == TypeOK <=> SharedTyped /\ RequestsTyped /\ FlagsTyped
BY DEF TypeOK, SharedTyped, RequestsTyped, FlagsTyped, Places, Replies, Results

\* The types hold initially.
LEMMA InitTyped == Init => TypeOK
<1> SUFFICES ASSUME Init PROVE TypeOK
  OBVIOUS
<1>1. SharedTyped
  BY BoundsAssumption DEF Init, SharedTyped, NoToken
<1>2. RequestsTyped
  BY DEF Init, RequestsTyped, Places, Replies, Results, NoToken
<1>3. FlagsTyped
  BY DEF Init, FlagsTyped
<1> QED BY <1>1, <1>2, <1>3, TypeParts

\* A request that ends keeps the types.
LEMMA EndsTyped ==
    ASSUME NEW r \in Requests, NEW o \in Results, SharedTyped, RequestsTyped, Ends(r, o),
           issued' = issued, applied' = applied
    PROVE  RequestsTyped'
<1>1. at' \in [Requests -> Places]
  BY DEF RequestsTyped, Ends, Places
<1>2. reply' \in [Requests -> Replies]
  BY DEF RequestsTyped, Ends, Replies
<1>3. outcome' \in [Requests -> Results]
  BY DEF RequestsTyped, Ends
<1>4. token' \in [Requests -> 0 .. issued]
  <2>1. NoToken \in 0 .. issued
    BY DEF NoToken, SharedTyped
  <2> QED BY <2>1 DEF RequestsTyped, Ends
<1> QED BY <1>1, <1>2, <1>3, <1>4 DEF RequestsTyped

\* So does one that looks for a token, whichever way it goes.
LEMMA SeeksTyped ==
    ASSUME NEW r \in Requests, NEW t \in 0 .. issued, NEW old \in BOOLEAN,
           SharedTyped, RequestsTyped, Seeks(r, t, old), issued' = issued
    PROVE  /\ at' \in [Requests -> Places]
           /\ token' \in [Requests -> 0 .. issued']
           /\ lock' \in Requests \cup {NoRequest}
BY DEF Seeks, Sends, SharedTyped, RequestsTyped, Places

\* The steps towards a token keep the types.
LEMMA AccessTyped == ASSUME NEW r \in Requests PROVE TypeOK /\ Access(r) => TypeOK'
<1> SUFFICES ASSUME SharedTyped, RequestsTyped, FlagsTyped, Access(r)
             PROVE  SharedTyped' /\ RequestsTyped' /\ FlagsTyped'
  BY TypeParts, PTL
<1>1. CASE Begins(r)
  <2>1. Seeks(r, cached, due) /\ issued' = issued
    BY <1>1 DEF Begins
  <2>2. /\ at' \in [Requests -> Places]
        /\ token' \in [Requests -> 0 .. issued']
        /\ lock' \in Requests \cup {NoRequest}
    BY <2>1, SeeksTyped DEF SharedTyped, FlagsTyped
  <2> QED BY <1>1, <2>2 DEF Begins, ctcVars, SharedTyped, RequestsTyped, FlagsTyped
<1>2. CASE GetsLock(r)
  <2>1. /\ at' \in [Requests -> Places]
        /\ token' \in [Requests -> 0 .. issued]
        /\ lock' \in Requests \cup {NoRequest}
    BY <1>2 DEF GetsLock, Sends, SharedTyped, RequestsTyped, Places
  <2> QED BY <1>2, <2>1 DEF GetsLock, ctcVars, SharedTyped, RequestsTyped, FlagsTyped
<1>3. CASE Fetched(r)
  <2>1. issued \in Nat /\ issued' = issued + 1 /\ issued' \in 0 .. MaxTokens
    BY <1>3, BoundsAssumption DEF Fetched, SharedTyped
  <2>2. 0 .. issued \subseteq 0 .. issued' /\ 1 .. issued \subseteq 1 .. issued'
    BY <2>1
  <2>3. issued' \in 1 .. issued' /\ issued' \in 0 .. issued'
    BY <2>1
  <2>4. SharedTyped'
    BY <1>3, <2>1, <2>2, <2>3 DEF Fetched, SharedTyped
  <2>5. at' \in [Requests -> Places] /\ token' \in [Requests -> 0 .. issued']
    BY <1>3, <2>2, <2>3 DEF Fetched, Sends, RequestsTyped, Places
  <2> QED BY <1>3, <2>4, <2>5 DEF Fetched, RequestsTyped, FlagsTyped
<1>4. CASE FetchFails(r)
  <2>1. PICK o \in Results : Ends(r, o)
    BY <1>4 DEF FetchFails, Results
  <2>2. RequestsTyped'
    BY <1>4, <2>1, EndsTyped DEF FetchFails, ctcVars
  <2>3. FlagsTyped'
    BY <1>4, <2>1 DEF FetchFails, Ends, FlagsTyped
  <2> QED BY <1>4, <2>2, <2>3 DEF FetchFails, ctcVars, SharedTyped
<1> QED BY <1>1, <1>2, <1>3, <1>4 DEF Access

\* What a caller makes of an answer is one of the results.
LEMMA OutcomeTyped == ASSUME NEW r \in Requests, NEW s PROVE OutcomeOf(r, s) \in Results
BY DEF OutcomeOf, WriteOutcome, ReadOutcome, Results

\* The steps of the exchange with CTC keep the types, given that what is sent
\* carries a token.
LEMMA ExchangeTyped ==
    ASSUME NEW r \in Requests PROVE TypeOK /\ SentWithToken /\ Exchange(r) => TypeOK'
<1> SUFFICES ASSUME SharedTyped, RequestsTyped, FlagsTyped, SentWithToken, Exchange(r)
             PROVE  SharedTyped' /\ RequestsTyped' /\ FlagsTyped'
  BY TypeParts, PTL
<1>0. at[r] = "sent" => token[r] \in 1 .. issued
  BY DEF SentWithToken, SharedTyped, RequestsTyped, NoToken
<1>1. CASE Handles(r)
  <2>1. reply' \in [Requests -> Replies]
    BY <1>1 DEF Handles, RequestsTyped, Replies
  <2>2. applied' \in [Requests -> Nat]
    BY <1>1 DEF Handles, Applies, RequestsTyped
  <2>3. UNCHANGED <<issued, cached, due, lock, at, token, replay, outcome, aged, refused, accepted>>
    BY <1>1 DEF Handles, tokenVars
  <2> QED BY <2>1, <2>2, <2>3 DEF SharedTyped, RequestsTyped, FlagsTyped
<1>2. CASE Receives(r)
  <2>1. Ends(r, OutcomeOf(r, reply[r])) /\ UNCHANGED <<tokenVars, ctcVars, aged, refused>>
    BY <1>2 DEF Receives
  <2>2. RequestsTyped'
    BY <2>1, OutcomeTyped, EndsTyped DEF tokenVars, ctcVars
  <2>3. FlagsTyped'
    BY <2>1 DEF Ends, FlagsTyped, tokenVars
  <2> QED BY <2>1, <2>2, <2>3 DEF tokenVars, ctcVars, SharedTyped
<1>3. CASE Replays(r)
  <2>1. at[r] = "sent" /\ issued' = issued /\ Seeks(r, cached', due)
    BY <1>3 DEF Replays
  <2>2. cached' \in 0 .. issued
    BY <1>3 DEF Replays, Invalidated, NoToken, SharedTyped
  <2>3. /\ at' \in [Requests -> Places]
        /\ token' \in [Requests -> 0 .. issued']
        /\ lock' \in Requests \cup {NoRequest}
    BY <2>1, <2>2, SeeksTyped DEF FlagsTyped
  <2>4. refused' \in SUBSET (1 .. issued)
    BY <1>0, <1>3 DEF Replays, SharedTyped
  <2>5. reply' \in [Requests -> Replies]
    BY <1>3 DEF Replays, RequestsTyped, Replies
  <2>6. FlagsTyped'
    BY <1>3 DEF Replays, FlagsTyped
  <2> QED BY <1>3, <2>2, <2>3, <2>4, <2>5, <2>6 DEF Replays, ctcVars, SharedTyped, RequestsTyped
<1>4. CASE GivesUp(r)
  <2>1. Ends(r, "unavailable") /\ UNCHANGED <<tokenVars, ctcVars, aged>>
    BY <1>4 DEF GivesUp
  <2>2. RequestsTyped'
    BY <2>1, EndsTyped DEF tokenVars, ctcVars, Results
  <2>3. FlagsTyped'
    BY <2>1 DEF Ends, FlagsTyped, tokenVars
  <2>4. refused' \in SUBSET (1 .. issued)
    BY <1>0, <1>4 DEF GivesUp, SharedTyped
  <2> QED BY <2>1, <2>2, <2>3, <2>4 DEF tokenVars, ctcVars, SharedTyped
<1>5. CASE Loses(r)
  <2>1. Ends(r, "unavailable") /\ UNCHANGED <<tokenVars, ctcVars, aged, refused>>
    BY <1>5 DEF Loses
  <2>2. RequestsTyped'
    BY <2>1, EndsTyped DEF tokenVars, ctcVars, Results
  <2>3. FlagsTyped'
    BY <2>1 DEF Ends, FlagsTyped, tokenVars
  <2> QED BY <2>1, <2>2, <2>3 DEF tokenVars, ctcVars, SharedTyped
<1>6. CASE Cancelled(r)
  <2>1. Ends(r, "cancelled") /\ UNCHANGED <<ctcVars, cached, due, issued, aged, refused>>
    BY <1>6 DEF Cancelled
  <2>2. RequestsTyped'
    BY <2>1, EndsTyped DEF ctcVars, Results
  <2>3. FlagsTyped'
    BY <2>1 DEF Ends, FlagsTyped
  <2>4. lock' \in Requests \cup {NoRequest}
    BY <1>6 DEF Cancelled, SharedTyped
  <2> QED BY <2>1, <2>2, <2>3, <2>4 DEF ctcVars, SharedTyped
<1> QED BY <1>1, <1>2, <1>3, <1>4, <1>5, <1>6 DEF Exchange

\* The types of the token, the requests and the histories are kept by every step.
LEMMA NextTyped == TypeOK /\ SentWithToken /\ [Next]_vars => TypeOK'
<1> SUFFICES ASSUME TypeOK, SentWithToken, [Next]_vars PROVE TypeOK'
  OBVIOUS
<1>1. CASE UNCHANGED vars
  BY <1>1 DEF TypeOK, vars, tokenVars, ctcVars, requestVars
<1>2. CASE Ages
  <2>1. cached \in 1 .. issued
    BY <1>2 DEF Ages, Usable, NoToken, TypeOK
  <2>2. aged' \in SUBSET (1 .. issued)
    BY <1>2, <2>1 DEF Ages, TypeOK
  <2>3. due' \in BOOLEAN
    BY <1>2 DEF Ages
  <2> QED BY <1>2, <2>2, <2>3 DEF Ages, TypeOK, ctcVars, requestVars
<1>3. ASSUME NEW t \in accepted, Expires(t) PROVE TypeOK'
  BY <1>3 DEF Expires, TypeOK, tokenVars, requestVars
<1> QED BY <1>1, <1>2, <1>3, AccessTyped, ExchangeTyped DEF Next

-----------------------------------------------------------------------------
(* The token. *)

\* A request that is not sent any more or not yet leaves the others as they are.
LEMMA EndsTokens ==
    ASSUME NEW r \in Requests, NEW o, TypeOK, Tokens, Ends(r, o),
           UNCHANGED <<cached, due, issued, aged>>, refused \subseteq refused',
           \A d \in Requests \ {r} : at[d] = "fetching" => lock' = d
    PROVE  Tokens'
<1>1. SentWithToken'
  BY DEF Tokens, SentWithToken, Ends, TypeOK
<1>2. FetchedInTurn'
  BY DEF Tokens, FetchedInTurn, Ends, TypeOK, Usable
<1>3. OthersUsedUp'
  BY DEF Tokens, OthersUsedUp
<1> QED BY <1>1, <1>2, <1>3 DEF Tokens

\* A request that looks for a token takes the lock only where no other one fetches.
LEMMA SeeksTokens ==
    ASSUME NEW r \in Requests, TypeOK, Tokens,
           cached' = cached \/ cached' = NoToken,
           Seeks(r, cached', due), UNCHANGED <<due, issued>>, at[r] # "fetching"
    PROVE  SentWithToken' /\ FetchedInTurn'
<1>1. SentWithToken'
  BY DEF Tokens, SentWithToken, Seeks, Sends, Usable, TypeOK
<1>2. ASSUME NEW d \in Requests, at'[d] = "fetching"
      PROVE  lock' = d /\ ~Usable(cached', due')
  <2>1. CASE d = r
    BY <1>2, <2>1 DEF Seeks, Sends, Usable, TypeOK
  <2>2. CASE d # r
    <3>1. at[d] = "fetching"
      BY <1>2, <2>2 DEF Seeks, Sends, TypeOK
    <3>2. lock = d /\ ~Usable(cached, due)
      BY <3>1 DEF Tokens, FetchedInTurn
    <3>3. lock' = lock
      BY <3>2, RequestsAssumption DEF Seeks
    <3> QED BY <3>2, <3>3 DEF Usable
  <2> QED BY <2>1, <2>2
<1> QED BY <1>1, <1>2 DEF FetchedInTurn

\* The steps towards a token keep to it: one is fetched only where none is usable.
LEMMA AccessTokens ==
    ASSUME NEW r \in Requests PROVE TypeOK /\ Tokens /\ Access(r) => Tokens'
<1> SUFFICES ASSUME TypeOK, Tokens, Access(r) PROVE Tokens'
  OBVIOUS
<1>1. CASE Begins(r)
  <2>1. SentWithToken' /\ FetchedInTurn'
    BY <1>1, SeeksTokens DEF Begins
  <2>2. OthersUsedUp'
    BY <1>1 DEF Begins, Tokens, OthersUsedUp
  <2> QED BY <2>1, <2>2 DEF Tokens
<1>2. CASE GetsLock(r)
  <2>1. SentWithToken'
    BY <1>2 DEF GetsLock, Sends, Usable, Tokens, SentWithToken, TypeOK
  <2>2. FetchedInTurn'
    BY <1>2, RequestsAssumption DEF GetsLock, Sends, Usable, Tokens, FetchedInTurn, TypeOK
  <2>3. OthersUsedUp'
    BY <1>2 DEF GetsLock, Tokens, OthersUsedUp
  <2> QED BY <2>1, <2>2, <2>3 DEF Tokens
<1>3. CASE Fetched(r)
  <2>1. at[r] = "fetching" /\ lock = r /\ ~Usable(cached, due)
    BY <1>3 DEF Fetched, Tokens, FetchedInTurn
  <2>2. issued \in Nat /\ issued' = issued + 1 /\ cached' = issued'
    BY <1>3 DEF Fetched, TypeOK
  <2>3. SentWithToken'
    BY <1>3, <2>2 DEF Fetched, Sends, Tokens, SentWithToken, TypeOK, NoToken
  <2>4. FetchedInTurn'
    BY <1>3, <2>1 DEF Fetched, Sends, Tokens, FetchedInTurn, TypeOK
  <2>5. \A t \in 1 .. issued : t \in aged \cup refused
    BY <2>1 DEF Tokens, OthersUsedUp, Usable, NoToken
  <2>6. \A t \in 1 .. issued' : t # issued' => t \in 1 .. issued
    BY <2>2
  <2>7. OthersUsedUp'
    BY <1>3, <2>2, <2>5, <2>6 DEF Fetched, OthersUsedUp
  <2> QED BY <2>3, <2>4, <2>7 DEF Tokens
<1>4. CASE FetchFails(r)
  <2>1. PICK o : Ends(r, o)
    BY <1>4 DEF FetchFails
  <2>2. \A d \in Requests \ {r} : at[d] # "fetching"
    BY <1>4 DEF FetchFails, Tokens, FetchedInTurn
  <2> QED BY <1>4, <2>1, <2>2, EndsTokens DEF FetchFails
<1> QED BY <1>1, <1>2, <1>3, <1>4 DEF Access

\* So do the steps of the exchange: a token is given up when it was rejected.
LEMMA ExchangeTokens ==
    ASSUME NEW r \in Requests PROVE TypeOK /\ Tokens /\ Exchange(r) => Tokens'
<1> SUFFICES ASSUME TypeOK, Tokens, Exchange(r) PROVE Tokens'
  OBVIOUS
<1>0. \A d \in Requests \ {r} : at[d] = "fetching" => lock = d
  BY DEF Tokens, FetchedInTurn
<1>1. CASE Handles(r)
  BY <1>1 DEF Handles, tokenVars, Tokens, SentWithToken, FetchedInTurn, OthersUsedUp, Usable
<1>2. CASE Receives(r) \/ GivesUp(r) \/ Loses(r)
  <2>1. PICK o : Ends(r, o)
    BY <1>2 DEF Receives, GivesUp, Loses
  <2>2. UNCHANGED <<cached, due, lock, issued, aged>> /\ refused \subseteq refused'
    BY <1>2 DEF Receives, GivesUp, Loses, tokenVars
  <2> QED BY <1>0, <2>1, <2>2, EndsTokens
<1>3. CASE Replays(r)
  <2>1. SentWithToken' /\ FetchedInTurn'
    BY <1>3, SeeksTokens DEF Replays, Invalidated
  <2>2. OthersUsedUp'
    BY <1>3 DEF Replays, Invalidated, Tokens, OthersUsedUp
  <2> QED BY <2>1, <2>2 DEF Tokens
<1>4. CASE Cancelled(r)
  <2>1. \A d \in Requests \ {r} : at[d] = "fetching" => lock' = d
    BY <1>0, <1>4 DEF Cancelled
  <2> QED BY <1>4, <2>1, EndsTokens DEF Cancelled
<1> QED BY <1>1, <1>2, <1>3, <1>4 DEF Exchange

\* The part of the invariant that is about tokens is kept by every step.
LEMMA NextTokens == TypeOK /\ Tokens /\ [Next]_vars => Tokens'
<1> SUFFICES ASSUME TypeOK, Tokens, [Next]_vars PROVE Tokens'
  OBVIOUS
<1>1. CASE UNCHANGED vars
  BY <1>1 DEF vars, tokenVars, ctcVars, requestVars, Tokens, SentWithToken, FetchedInTurn,
              OthersUsedUp, Usable
<1>2. CASE Ages
  <2>1. SentWithToken'
    BY <1>2 DEF Ages, requestVars, Tokens, SentWithToken
  <2>2. FetchedInTurn'
    BY <1>2 DEF Ages, requestVars, Tokens, FetchedInTurn
  <2>3. OthersUsedUp'
    BY <1>2 DEF Ages, Tokens, OthersUsedUp
  <2> QED BY <2>1, <2>2, <2>3 DEF Tokens
<1>3. ASSUME NEW t \in accepted, Expires(t) PROVE Tokens'
  BY <1>3 DEF Expires, tokenVars, requestVars, Tokens, SentWithToken, FetchedInTurn,
              OthersUsedUp, Usable
<1> QED BY <1>1, <1>2, <1>3, AccessTokens, ExchangeTokens DEF Next

\* Types and tokens together are inductive.
LEMMA TokensHold == Spec => [](TypeOK /\ Tokens)
<1>1. Init => Tokens
  BY DEF Init, Tokens, SentWithToken, FetchedInTurn, OthersUsedUp, NoToken
<1>2. Tokens => SentWithToken
  BY DEF Tokens
<1> QED BY <1>1, <1>2, InitTyped, NextTyped, NextTokens, PTL DEF Spec

\* THEOREM: in every run of CtcClient the state has its types.
THEOREM CtcTypeCorrect == Spec => []TypeOK
BY TokensHold, PTL

\* THEOREM: any number of requests, however their rejections interleave, fetch no more
\* than the first token and one for each that became due or was rejected.
THEOREM TokensSharedCorrect == Spec => []TokensShared
<1>1. TypeOK /\ Tokens => TokensShared
  <2> SUFFICES ASSUME TypeOK, Tokens PROVE TokensShared
    OBVIOUS
  <2> DEFINE used == aged \cup refused
  <2>1. issued \in Nat /\ 1 .. issued \in SUBSET Int
    BY DEF TypeOK
  <2>2. IsFiniteSet(1 .. issued) /\ Cardinality(1 .. issued) = issued
    BY <2>1, FS_Interval
  <2>3. IsFiniteSet(used)
    BY <2>2, FS_Subset DEF TypeOK
  <2>4. 1 .. issued \subseteq used \cup {cached}
    BY DEF Tokens, OthersUsedUp
  <2>5. /\ IsFiniteSet(used \cup {cached})
        /\ Cardinality(used \cup {cached}) \in {Cardinality(used), Cardinality(used) + 1}
    BY <2>3, FS_AddElement
  <2>6. Cardinality(1 .. issued) <= Cardinality(used \cup {cached})
    BY <2>4, <2>5, FS_Subset
  <2>7. Cardinality(used) \in Nat
    BY <2>3, FS_CardinalityType
  <2> QED BY <2>1, <2>2, <2>5, <2>6, <2>7 DEF TokensShared
<1> QED BY <1>1, TokensHold, PTL

-----------------------------------------------------------------------------
(* What CTC has done. *)

AllProgress == \A r \in Requests : Progress(r)

\* Progress of a request depends on its own state alone.
LEMMA ProgressKept ==
    ASSUME NEW r \in Requests, Progress(r),
           at'[r] = at[r], reply'[r] = reply[r], applied'[r] = applied[r], outcome'[r] = outcome[r]
    PROVE  Progress(r)'
BY DEF Progress

\* A request that is not sent stays without effect while it looks for a token.
LEMMA LookingProgress ==
    ASSUME NEW r \in Requests, TypeOK, Progress(r), at[r] # "ended", at'[r] # "ended",
           applied[r] = 0, applied' = applied, outcome' = outcome,
           reply'[r] = "none"
    PROVE  Progress(r)'
BY DEF Progress

\* A request ends with a result that agrees with what CTC has done for it.
LEMMA EndsProgress ==
    ASSUME NEW r \in Requests, NEW o, TypeOK, AllProgress, Ends(r, o), applied' = applied,
           o \in {"written", "read"} => applied[r] = 1,
           o \in {"skipped", "failed", "invalid"} => applied[r] = 0
    PROVE  AllProgress'
<1> SUFFICES ASSUME NEW d \in Requests PROVE Progress(d)'
  BY DEF AllProgress
<1>1. CASE d = r
  <2>1. at'[r] = "ended" /\ reply'[r] = "none" /\ outcome'[r] = o
    BY DEF Ends, TypeOK
  <2>2. applied[r] \in Nat /\ applied[r] <= 1
    BY DEF AllProgress, Progress, TypeOK
  <2> QED BY <1>1, <2>1, <2>2 DEF Progress
<1>2. CASE d # r
  <2>1. at'[d] = at[d] /\ reply'[d] = reply[d] /\ outcome'[d] = outcome[d]
    BY <1>2 DEF Ends, TypeOK
  <2> QED BY <2>1, ProgressKept DEF AllProgress
<1> QED BY <1>1, <1>2

\* The steps towards a token.
LEMMA AccessProgress ==
    ASSUME NEW r \in Requests PROVE TypeOK /\ AllProgress /\ Access(r) => AllProgress'
<1> SUFFICES ASSUME TypeOK, AllProgress, Access(r) PROVE AllProgress'
  OBVIOUS
<1>1. CASE Begins(r) \/ GetsLock(r) \/ Fetched(r)
  <2>1. /\ at[r] \in {"new", "queued", "fetching"}
        /\ UNCHANGED <<applied, outcome, reply>>
    BY <1>1 DEF Begins, GetsLock, Fetched, ctcVars
  <2>2. at'[r] \in {"queued", "fetching", "sent"} /\ \A d \in Requests \ {r} : at'[d] = at[d]
    BY <1>1 DEF Begins, GetsLock, Fetched, Seeks, Sends, TypeOK
  <2>3. reply[r] = "none" /\ applied[r] = 0
    BY <2>1 DEF AllProgress, Progress
  <2>4. Progress(r)'
    BY <2>1, <2>2, <2>3, LookingProgress DEF AllProgress
  <2>5. ASSUME NEW d \in Requests \ {r} PROVE Progress(d)'
    BY <2>1, <2>2, ProgressKept DEF AllProgress
  <2> QED BY <2>4, <2>5 DEF AllProgress
<1>2. CASE FetchFails(r)
  <2>1. PICK o \in {"unavailable", "error"} : Ends(r, o)
    BY <1>2 DEF FetchFails
  <2> QED BY <1>2, <2>1, EndsProgress DEF FetchFails, ctcVars
<1> QED BY <1>1, <1>2 DEF Access

\* What CTC answers agrees with what it has done.
LEMMA HandlesProgress ==
    ASSUME NEW r \in Requests PROVE TypeOK /\ AllProgress /\ Handles(r) => AllProgress'
<1> SUFFICES ASSUME TypeOK, AllProgress, Handles(r) PROVE AllProgress'
  OBVIOUS
<1>1. at[r] = "sent" /\ outcome[r] = "none" /\ applied[r] = 0 /\ at' = at /\ outcome' = outcome
  BY DEF Handles, AllProgress, Progress
<1>2. PICK status \in {"done", "conflict", "forbidden", "rejected", "busy", "unauthorized"} :
         /\ reply' = [reply EXCEPT ![r] = status]
         /\ \/ status \in {"done", "busy"} /\ Applies(r)
            \/ status # "done" /\ UNCHANGED applied
  BY DEF Handles
<1>3. reply'[r] = status
  BY <1>2 DEF TypeOK
<1>4. \/ status \in {"done", "busy"} /\ applied'[r] = 1
      \/ status # "done" /\ applied'[r] = 0
  BY <1>1, <1>2 DEF Applies, TypeOK
<1>5. Progress(r)'
  BY <1>1, <1>3, <1>4 DEF Progress
<1>6. ASSUME NEW d \in Requests \ {r} PROVE Progress(d)'
  <2>1. reply'[d] = reply[d] /\ applied'[d] = applied[d]
    BY <1>2 DEF Applies, TypeOK
  <2> QED BY <1>1, <2>1, ProgressKept DEF AllProgress
<1> QED BY <1>5, <1>6 DEF AllProgress

\* The steps of the exchange.
LEMMA ExchangeProgress ==
    ASSUME NEW r \in Requests PROVE TypeOK /\ AllProgress /\ Exchange(r) => AllProgress'
<1> SUFFICES ASSUME TypeOK, AllProgress, Exchange(r) PROVE AllProgress'
  OBVIOUS
<1>1. CASE Handles(r)
  BY <1>1, HandlesProgress
<1>2. CASE Receives(r)
  <2> DEFINE o == OutcomeOf(r, reply[r])
  <2>1. Ends(r, o) /\ applied' = applied /\ at[r] = "sent"
    BY <1>2 DEF Receives, ctcVars
  <2>2. o \in {"written", "read"} => reply[r] = "done"
    BY DEF OutcomeOf, WriteOutcome, ReadOutcome
  <2>3. o \in {"skipped", "failed", "invalid"} => reply[r] \notin {"done", "busy"}
    BY DEF OutcomeOf, WriteOutcome, ReadOutcome
  <2>4. /\ o \in {"written", "read"} => applied[r] = 1
        /\ o \in {"skipped", "failed", "invalid"} => applied[r] = 0
    BY <2>1, <2>2, <2>3 DEF AllProgress, Progress
  <2> QED BY <2>1, <2>4, EndsProgress
<1>3. CASE Replays(r)
  <2>1. at[r] = "sent" /\ reply[r] = "unauthorized" /\ UNCHANGED <<applied, outcome>>
    BY <1>3 DEF Replays, ctcVars
  <2>2. /\ at'[r] \in {"queued", "fetching", "sent"} /\ reply'[r] = "none"
        /\ \A d \in Requests \ {r} : at'[d] = at[d] /\ reply'[d] = reply[d]
    BY <1>3 DEF Replays, Seeks, Sends, TypeOK
  <2>3. applied[r] = 0
    BY <2>1 DEF AllProgress, Progress
  <2>4. Progress(r)'
    BY <2>1, <2>2, <2>3, LookingProgress DEF AllProgress
  <2>5. ASSUME NEW d \in Requests \ {r} PROVE Progress(d)'
    BY <2>1, <2>2, ProgressKept DEF AllProgress
  <2> QED BY <2>4, <2>5 DEF AllProgress
<1>4. CASE GivesUp(r) \/ Loses(r) \/ Cancelled(r)
  <2>1. PICK o \in {"unavailable", "cancelled"} : Ends(r, o)
    BY <1>4 DEF GivesUp, Loses, Cancelled
  <2>2. applied' = applied
    BY <1>4 DEF GivesUp, Loses, Cancelled, ctcVars
  <2> QED BY <2>1, <2>2, EndsProgress
<1> QED BY <1>1, <1>2, <1>3, <1>4 DEF Exchange

\* Progress is kept by every step.
LEMMA NextProgress == TypeOK /\ AllProgress /\ [Next]_vars => AllProgress'
<1> SUFFICES ASSUME TypeOK, AllProgress, [Next]_vars PROVE AllProgress'
  OBVIOUS
<1>1. CASE UNCHANGED <<at, reply, applied, outcome>>
  BY <1>1 DEF AllProgress, Progress
<1>2. UNCHANGED vars \/ Ages \/ (\E t \in accepted : Expires(t)) =>
          UNCHANGED <<at, reply, applied, outcome>>
  BY DEF vars, tokenVars, ctcVars, requestVars, Ages, Expires
<1> QED BY <1>1, <1>2, AccessProgress, ExchangeProgress DEF Next

\* THEOREM: whatever is rejected, sent again, lost or cancelled, and in whatever order,
\* CTC does what a request asks for at most once and the caller is told nothing else.
THEOREM WrittenOnceCorrect == Spec => []WrittenOnce
<1>1. Init => AllProgress
  BY DEF Init, AllProgress, Progress
<1>2. AllProgress => WrittenOnce
  BY DEF AllProgress, Progress, WrittenOnce
<1> QED BY <1>1, <1>2, NextProgress, CtcTypeCorrect, PTL DEF Spec
=============================================================================
