------------------------------- MODULE CtcClient -------------------------------
(***************************************************************************)
(* The worker's access to the CTC API.  All requests of a process share    *)
(* one access token: it is fetched under a lock when there is none or the  *)
(* one there is has used up four fifths of its life, and given up when the *)
(* API rejects it; the rejected request is then sent once more.  The       *)
(* configuration reader and the write-back adapter sort the answers.       *)
(*                                                                         *)
(* Tokens are numbered as they are received.  A step is the code between   *)
(* two awaits.                                                             *)
(***************************************************************************)
EXTENDS Naturals, FiniteSets

CONSTANTS
    Requests,   \* calls of CtcClient.request
    NoRequest,
    KindOf,     \* what a request is for: "configuration", "comment" or "codes"
    MaxTokens,  \* bound: tokens issued
    MaxAged     \* bound: tokens that become due for a refresh

ASSUME RequestsAssumption == IsFiniteSet(Requests) /\ NoRequest \notin Requests
ASSUME KindAssumption == KindOf \in [Requests -> {"configuration", "comment", "codes"}]
ASSUME BoundsAssumption == MaxTokens \in Nat /\ MaxAged \in Nat

VARIABLES
    accepted,   \* the tokens CTC accepts
    issued,     \* the last token received
    cached,     \* _token, or NoToken
    due,        \* the cached token is past its refresh_at
    lock,       \* who holds _token_lock
    at,         \* where each request is
    token,      \* the token it was given
    replay,     \* it is being sent for the second time
    reply,      \* CTC's answer, on its way back
    applied,    \* how often CTC has done what it asks for
    outcome,    \* what its caller makes of it
    aged,       \* history: tokens that became due
    refused     \* history: tokens whose rejection a request has seen

tokenVars == <<cached, due, lock, issued>>
ctcVars == <<accepted, applied>>
requestVars == <<at, token, replay, reply, outcome>>
vars == <<tokenVars, ctcVars, requestVars, aged, refused>>

NoToken == 0

Init ==
    /\ accepted = {} /\ issued = 0
    /\ cached = NoToken /\ due = FALSE
    /\ lock = NoRequest
    /\ at = [r \in Requests |-> "new"]
    /\ token = [r \in Requests |-> NoToken]
    /\ replay = [r \in Requests |-> FALSE]
    /\ reply = [r \in Requests |-> "none"]
    /\ applied = [r \in Requests |-> 0]
    /\ outcome = [r \in Requests |-> "none"]
    /\ aged = {} /\ refused = {}

-----------------------------------------------------------------------------
(* What the callers make of it. *)

Write(r) == KindOf[r] \in {"comment", "codes"}

\* A status that is no 401; "done" is one the caller expects.
ReadOutcome(status) ==
    IF status = "done" THEN "read"
    ELSE IF status \in {"forbidden", "busy"} THEN "unavailable" ELSE "invalid"

WriteOutcome(r, status) ==
    IF status = "done" THEN "written"
    ELSE IF status = "busy" THEN "unavailable"
    ELSE IF status = "conflict" /\ KindOf[r] = "codes" THEN "skipped" ELSE "failed"

OutcomeOf(r, status) == IF Write(r) THEN WriteOutcome(r, status) ELSE ReadOutcome(status)

\* The caller goes on with the result; the request itself is forgotten.
Ends(r, result) ==
    /\ at' = [at EXCEPT ![r] = "ended"]
    /\ outcome' = [outcome EXCEPT ![r] = result]
    /\ token' = [token EXCEPT ![r] = NoToken]
    /\ replay' = [replay EXCEPT ![r] = FALSE]
    /\ reply' = [reply EXCEPT ![r] = "none"]

-----------------------------------------------------------------------------
(* The access token. *)

Usable(t, old) == t # NoToken /\ ~old

\* With a usable token the request goes out.
Sends(r, t) ==
    /\ at' = [at EXCEPT ![r] = "sent"]
    /\ token' = [token EXCEPT ![r] = t]

Queued == {r \in Requests : at[r] = "queued"}

\* The first look at the token, t, then the lock, which is given out in turn.
Seeks(r, t, old) ==
    \/ /\ Usable(t, old)
       /\ Sends(r, t)
       /\ UNCHANGED lock
    \/ /\ ~Usable(t, old)
       /\ lock = NoRequest /\ Queued = {}
       /\ at' = [at EXCEPT ![r] = "fetching"]
       /\ lock' = r
       /\ UNCHANGED token
    \/ /\ ~Usable(t, old)
       /\ lock # NoRequest \/ Queued # {}
       /\ at' = [at EXCEPT ![r] = "queued"]
       /\ UNCHANGED <<lock, token>>

Begins(r) ==
    /\ at[r] = "new"
    /\ Seeks(r, cached, due)
    /\ UNCHANGED <<ctcVars, cached, due, issued, replay, reply, outcome, aged, refused>>

\* Fault: who gets the lock fetches, whoever has fetched meanwhile.
GetsLockAndFetches(r) ==
    /\ at[r] = "queued" /\ lock = NoRequest
    /\ at' = [at EXCEPT ![r] = "fetching"]
    /\ lock' = r
    /\ UNCHANGED <<ctcVars, cached, due, issued, token, replay, reply, outcome, aged, refused>>

\* With the lock a request looks once more.
GetsLock(r) ==
    /\ at[r] = "queued" /\ lock = NoRequest
    /\ IF Usable(cached, due)
       THEN Sends(r, cached) /\ UNCHANGED lock
       ELSE at' = [at EXCEPT ![r] = "fetching"] /\ lock' = r /\ UNCHANGED token
    /\ UNCHANGED <<ctcVars, cached, due, issued, replay, reply, outcome, aged, refused>>

Fetched(r) ==
    /\ at[r] = "fetching" /\ issued < MaxTokens
    /\ issued' = issued + 1
    /\ accepted' = accepted \cup {issued'}
    /\ cached' = issued' /\ due' = FALSE
    /\ lock' = NoRequest
    /\ Sends(r, issued')
    /\ UNCHANGED <<applied, replay, reply, outcome, aged, refused>>

\* The issuer cannot be reached or is busy; or it refuses, or answers nonsense.
FetchFails(r) ==
    /\ at[r] = "fetching"
    /\ lock' = NoRequest
    /\ \/ Ends(r, "unavailable")
       \/ Ends(r, IF Write(r) THEN "unavailable" ELSE "error")
    /\ UNCHANGED <<ctcVars, cached, due, issued, aged, refused>>

-----------------------------------------------------------------------------
(* Sending, and what comes back. *)

Applies(r) == applied' = [applied EXCEPT ![r] = @ + 1]

\* CTC rejects a token before it does anything; a busy answer may come after the deed.
Handles(r) ==
    /\ at[r] = "sent" /\ reply[r] = "none"
    /\ \E status \in {"done", "conflict", "forbidden", "rejected", "busy", "unauthorized"} :
         /\ reply' = [reply EXCEPT ![r] = status]
         /\ (status = "unauthorized") <=> (token[r] \notin accepted)
         /\ \/ status \in {"done", "busy"} /\ Applies(r)
            \/ status # "done" /\ UNCHANGED applied
    /\ UNCHANGED <<tokenVars, accepted, at, token, replay, outcome, aged, refused>>

\* An answer is the caller's to sort.
Receives(r) ==
    /\ at[r] = "sent" /\ reply[r] \notin {"none", "unauthorized"}
    /\ Ends(r, OutcomeOf(r, reply[r]))
    /\ UNCHANGED <<tokenVars, ctcVars, aged, refused>>

Invalidated(rejected) == IF cached = rejected THEN NoToken ELSE cached

\* A first rejection: the token is given up and another one sought.
Replays(r) ==
    /\ at[r] = "sent" /\ reply[r] = "unauthorized" /\ ~replay[r]
    /\ refused' = refused \cup {token[r]}
    /\ cached' = Invalidated(token[r])
    /\ replay' = [replay EXCEPT ![r] = TRUE]
    /\ reply' = [reply EXCEPT ![r] = "none"]
    /\ Seeks(r, cached', due)
    /\ UNCHANGED <<ctcVars, due, issued, outcome, aged>>

\* A second one.
GivesUp(r) ==
    /\ at[r] = "sent" /\ reply[r] = "unauthorized" /\ replay[r]
    /\ refused' = refused \cup {token[r]}
    /\ Ends(r, "unavailable")
    /\ UNCHANGED <<tokenVars, ctcVars, aged>>

\* Fault: a request that got no answer is sent again like one that was rejected.
ReplaysUnanswered(r) ==
    /\ at[r] = "sent" /\ ~replay[r]
    /\ replay' = [replay EXCEPT ![r] = TRUE]
    /\ reply' = [reply EXCEPT ![r] = "none"]
    /\ UNCHANGED <<tokenVars, ctcVars, at, token, outcome, aged, refused>>

\* The request or its answer is lost.
Loses(r) ==
    /\ at[r] = "sent"
    /\ Ends(r, "unavailable")
    /\ UNCHANGED <<tokenVars, ctcVars, aged, refused>>

\* The delivery is cancelled; a lock that is held is released.
Cancelled(r) ==
    /\ at[r] \in {"queued", "fetching", "sent"}
    /\ Ends(r, "cancelled")
    /\ lock' = IF lock = r THEN NoRequest ELSE lock
    /\ UNCHANGED <<ctcVars, cached, due, issued, aged, refused>>

-----------------------------------------------------------------------------
(* Time, and the issuer. *)

\* Four fifths of the cached token's life are over.
Ages ==
    /\ Usable(cached, due) /\ Cardinality(aged) < MaxAged
    /\ due' = TRUE
    /\ aged' = aged \cup {cached}
    /\ UNCHANGED <<ctcVars, cached, lock, issued, requestVars, refused>>

\* A token expires, or is revoked before it does.
Expires(t) ==
    /\ t \in accepted
    /\ accepted' = accepted \ {t}
    /\ UNCHANGED <<tokenVars, applied, requestVars, aged, refused>>

Access(r) == Begins(r) \/ GetsLock(r) \/ Fetched(r) \/ FetchFails(r)
Exchange(r) ==
    Handles(r) \/ Receives(r) \/ Replays(r) \/ GivesUp(r) \/ Loses(r) \/ Cancelled(r)

Next ==
    \/ \E r \in Requests : Access(r) \/ Exchange(r)
    \/ Ages
    \/ \E t \in accepted : Expires(t)

Spec == Init /\ [][Next]_vars

-----------------------------------------------------------------------------
(* Types. *)

TypeOK ==
    /\ accepted \in SUBSET (1 .. issued) /\ issued \in 0 .. MaxTokens
    /\ cached \in 0 .. issued /\ due \in BOOLEAN
    /\ lock \in Requests \cup {NoRequest}
    /\ at \in [Requests -> {"new", "queued", "fetching", "sent", "ended"}]
    /\ token \in [Requests -> 0 .. issued]
    /\ replay \in [Requests -> BOOLEAN]
    /\ reply \in [Requests -> {"none", "done", "conflict", "forbidden", "rejected", "busy", "unauthorized"}]
    /\ applied \in [Requests -> Nat]
    /\ outcome \in [Requests -> {"none", "read", "written", "skipped", "unavailable", "invalid", "failed",
                                  "error", "cancelled"}]
    /\ aged \in SUBSET (1 .. issued) /\ refused \in SUBSET (1 .. issued)

-----------------------------------------------------------------------------
(* Correctness. *)

\* However many requests find no token, a due one or a rejected one at once, and
\* however late a rejection comes, there is at most one token for the start and one
\* for each that became due or was rejected.
TokensShared == issued <= 1 + Cardinality(aged \cup refused)

\* Whatever is rejected, sent again, lost or cancelled: CTC does what a request asks
\* for at most once, has done it if the caller is told so, and has not done it if
\* the caller is told that it was refused.
WrittenOnce ==
    \A r \in Requests :
        /\ applied[r] <= 1
        /\ outcome[r] \in {"written", "read"} => applied[r] = 1
        /\ outcome[r] \in {"skipped", "failed", "invalid"} => applied[r] = 0

=============================================================================
