-------------------------------- MODULE Outbox --------------------------------
(***************************************************************************)
(* The transactional outbox of the orchestrator: events committed with     *)
(* their investigation wait in a table; the publisher of each orchestrator *)
(* process locks a batch, publishes it to JetStream one by one, notes what *)
(* the broker answered, and commits the notes and the locks at the end.    *)
(*                                                                         *)
(* An event is its row's id, so that "<" is the order of the table.  What  *)
(* a transaction has written counts only when it commits: the notes of a   *)
(* pass live in "marked" until then.                                       *)
(***************************************************************************)
EXTENDS Naturals, FiniteSets

CONSTANTS
    Events,         \* ids of the outbox rows
    Publishers,     \* orchestrator processes
    NoPublisher,
    BatchSize,      \* outbox_batch_size, by process: each one reads its own settings
    Doubtful,       \* events the broker may answer with an error every time
    Fallible,       \* processes that may stop
    Timely,         \* events whose repetitions all fall into the duplicate window
    MaxLate,        \* bound: publications of one event that are still under way
    MaxCopies       \* bound: copies of one event before its id is forgotten

ASSUME EventsAssumption == Events \subseteq Nat
ASSUME PublishersAssumption == NoPublisher \notin Publishers
ASSUME BatchAssumption == BatchSize \in [Publishers -> Nat \ {0}]
ASSUME EnvironmentAssumption ==
    /\ Doubtful \subseteq Events
    /\ Fallible \subseteq Publishers
    /\ Timely \subseteq Events
    /\ MaxLate \in Nat /\ MaxCopies \in Nat

VARIABLES
    store,      \* the committed row of each event
    due,        \* next_attempt_at <= now()
    lock,       \* the transaction that holds the row FOR UPDATE
    up,         \* the publisher's loop runs
    batch,      \* the events its pass has selected
    todo,       \* those it has not published yet
    marked,     \* those it has marked as published, uncommitted
    lost,       \* publishers whose session has ended without their knowing
    copies,     \* messages of the event the stream has stored
    remembered, \* event ids the stream's duplicate window still holds
    late        \* publications given up by their sender and still under way

dbVars == <<store, due, lock>>
passVars == <<batch, todo, marked, lost>>
streamVars == <<copies, remembered, late>>
vars == <<store, due, lock, up, batch, todo, marked, lost, copies,
          remembered, late>>

Stored == {"published", "deleted"}

Init ==
    /\ store = [e \in Events |-> "none"]
    /\ due = [e \in Events |-> TRUE]
    /\ lock = [e \in Events |-> NoPublisher]
    /\ up = [p \in Publishers |-> TRUE]
    /\ batch = [p \in Publishers |-> {}]
    /\ todo = [p \in Publishers |-> {}]
    /\ marked = [p \in Publishers |-> {}]
    /\ lost = {}
    /\ copies = [e \in Events |-> 0]
    /\ remembered = {}
    /\ late = [e \in Events |-> 0]

-----------------------------------------------------------------------------
(* The stream. *)

\* Fault: a publication carries an id of its own.
StoreUnderNewId(e) ==
    /\ copies' = [copies EXCEPT ![e] = @ + 1]
    /\ remembered' = remembered \cup {e}

\* A publication arrives.  Its Nats-Msg-Id is the event's id, so that the stream
\* recognises a repetition while it remembers the id.
StreamStores(e) ==
    /\ copies' = IF e \in remembered THEN copies ELSE [copies EXCEPT ![e] = @ + 1]
    /\ remembered' = remembered \cup {e}

\* A publication whose sender did not see it stored: it was, it may be later, or
\* it never will.
Unheard(e) ==
    \/ StreamStores(e) /\ UNCHANGED late
    \/ /\ late[e] < MaxLate
       /\ late' = [late EXCEPT ![e] = @ + 1]
       /\ UNCHANGED <<copies, remembered>>
    \/ UNCHANGED streamVars

LandsLate(e) ==
    /\ late[e] > 0
    /\ late' = [late EXCEPT ![e] = @ - 1]
    /\ StreamStores(e)
    /\ UNCHANGED <<dbVars, up, passVars>>

\* The duplicate window of the event's last publication is over.
Forget(e) ==
    /\ e \notin Timely
    /\ e \in remembered
    /\ copies[e] < MaxCopies
    /\ remembered' = remembered \ {e}
    /\ UNCHANGED <<dbVars, up, passVars, copies, late>>

-----------------------------------------------------------------------------
(* The table. *)

\* A request's transaction commits an investigation and its event.
Append(e) ==
    /\ store[e] = "none"
    /\ store' = [store EXCEPT ![e] = "pending"]
    /\ UNCHANGED <<due, lock, up, passVars, streamVars>>

BackoffEnds(e) ==
    /\ ~due[e]
    /\ due' = [due EXCEPT ![e] = TRUE]
    /\ UNCHANGED <<store, lock, up, passVars, streamVars>>

\* The worker's retention deletes what was published long ago.
Retain(e) ==
    /\ store[e] = "published"
    /\ store' = [store EXCEPT ![e] = "deleted"]
    /\ UNCHANGED <<due, lock, up, passVars, streamVars>>

-----------------------------------------------------------------------------
(* A pass of a publisher: PublishOutbox.execute. *)

\* Fault: the rows other publishers have locked are not skipped.
AvailableDespiteLock(e) == store[e] = "pending" /\ due[e]

Available(e) == store[e] = "pending" /\ due[e] /\ lock[e] = NoPublisher

\* SELECT ... ORDER BY id LIMIT batch_size FOR UPDATE SKIP LOCKED.
Selectable(p, b) ==
    /\ b # {} /\ IsFiniteSet(b) /\ Cardinality(b) <= BatchSize[p]
    /\ \A e \in b : Available(e)
    /\ \A f \in Events \ b :
          Available(f) => Cardinality(b) = BatchSize[p] /\ \A e \in b : e < f

\* The event whose turn it is: a pass publishes its batch in the order of the table.
IsNext(p, e) == e \in todo[p] /\ \A f \in todo[p] : e <= f

\* The session is alive: the transaction still holds the rows it has selected.
Connected(p) == p \notin lost

Busy(p) == batch[p] # {}

Released(p) == [e \in Events |-> IF lock[e] = p THEN NoPublisher ELSE lock[e]]

PassEnds(p) ==
    /\ lock' = Released(p)
    /\ batch' = [batch EXCEPT ![p] = {}]
    /\ todo' = [todo EXCEPT ![p] = {}]
    /\ marked' = [marked EXCEPT ![p] = {}]
    /\ lost' = lost \ {p}

Claim(p) ==
    /\ up[p] /\ ~Busy(p)
    /\ \E b \in SUBSET Events :
          /\ Selectable(p, b)
          /\ lock' = [e \in Events |-> IF e \in b THEN p ELSE lock[e]]
          /\ batch' = [batch EXCEPT ![p] = b]
          /\ todo' = [todo EXCEPT ![p] = b]
    /\ UNCHANGED <<store, due, up, marked, lost, streamVars>>

\* The broker acknowledges the next event, and mark_published notes it.
Accepted(p, e) ==
    /\ IsNext(p, e) /\ Connected(p)
    /\ StreamStores(e)
    /\ todo' = [todo EXCEPT ![p] = @ \ {e}]
    /\ marked' = [marked EXCEPT ![p] = @ \cup {e}]
    /\ UNCHANGED <<dbVars, up, batch, lost, late>>

\* Fault: an event that was sent counts as published.
RefusedMarked(p, e) ==
    /\ IsNext(p, e) /\ Connected(p)
    /\ Unheard(e)
    /\ todo' = [todo EXCEPT ![p] = @ \ {e}]
    /\ marked' = [marked EXCEPT ![p] = @ \cup {e}]
    /\ UNCHANGED <<dbVars, up, batch, lost>>

\* EventPublishError (an error or no answer): mark_failed notes it.
Refused(p, e) ==
    /\ IsNext(p, e) /\ Connected(p)
    /\ Unheard(e)
    /\ todo' = [todo EXCEPT ![p] = @ \ {e}]
    /\ UNCHANGED <<dbVars, up, batch, marked, lost>>

\* A pass is cut short, perhaps while a publication is under way.
CutShort(p) ==
    /\ \/ UNCHANGED streamVars
       \/ \E e \in Events : IsNext(p, e) /\ Unheard(e)
    /\ PassEnds(p)

\* Any other error, the loss of the session noticed by the next statement, or a
\* cancellation ends the pass: the transaction is rolled back, whatever was sent.
PassFails(p) ==
    /\ Busy(p)
    /\ CutShort(p)
    /\ UNCHANGED <<store, due, up>>

\* Fault: a failed publication is due again at once.
NotedWithoutBackoff(p) ==
    /\ store' = [e \in Events |-> IF e \in marked[p] THEN "published" ELSE store[e]]
    /\ UNCHANGED due

\* What the pass has noted: published_at, or next_attempt_at in the future.
Noted(p) ==
    /\ store' = [e \in Events |-> IF e \in marked[p] THEN "published" ELSE store[e]]
    /\ due' = [e \in Events |-> IF e \in batch[p] \ marked[p] THEN FALSE ELSE due[e]]

\* The commit.  (Its answer may be lost: for the table that is the same; a commit
\* that had no effect is a pass that failed.)
Commit(p) ==
    /\ Busy(p) /\ todo[p] = {} /\ Connected(p)
    /\ Noted(p)
    /\ PassEnds(p)
    /\ UNCHANGED <<up, streamVars>>

\* The server ends the session (failover, network): the locks are free at once,
\* the publisher learns of it from its next statement.
SessionLost(p) ==
    /\ Busy(p) /\ Connected(p)
    /\ lost' = lost \cup {p}
    /\ lock' = Released(p)
    /\ UNCHANGED <<store, due, up, batch, todo, marked, streamVars>>

\* The process is killed, or its shutdown cancels the pass.
Stop(p) ==
    /\ p \in Fallible /\ up[p]
    /\ up' = [up EXCEPT ![p] = FALSE]
    /\ CutShort(p)
    /\ UNCHANGED <<store, due>>

Start(p) ==
    /\ ~up[p]
    /\ up' = [up EXCEPT ![p] = TRUE]
    /\ UNCHANGED <<dbVars, passVars, streamVars>>

-----------------------------------------------------------------------------
Pass(p) ==
    \/ \E e \in Events : Accepted(p, e) \/ Refused(p, e)
    \/ PassFails(p) \/ Commit(p)

Next ==
    \/ \E e \in Events : Append(e) \/ BackoffEnds(e) \/ Retain(e)
    \/ \E e \in Events : LandsLate(e) \/ Forget(e)
    \/ \E p \in Publishers : Claim(p) \/ Pass(p)
    \/ \E p \in Publishers : SessionLost(p) \/ Stop(p) \/ Start(p)

Spec == Init /\ [][Next]_vars

\* Fairness.  A publisher that is never stopped runs a pass whenever there is
\* something to select; passes and backoffs end.  A backoff is at least a second
\* and the loop goes on at once after a pass that selected something, so a waiting
\* event is selected while the failed ones before it are not due.  No error other
\* than a broker's answer hits the same event every time, whatever else its batch
\* holds, and of the commits that are tried again and again some succeed, whichever
\* process tries.
Fairness ==
    /\ \A e \in Events : WF_vars(BackoffEnds(e))
    /\ \A p \in Publishers : WF_vars(Pass(p))
    /\ \A p \in Publishers \ Fallible : WF_vars(Claim(p))
    /\ \A e \in Events :
         IF e \in Doubtful
         THEN /\ \A f \in Events : SF_vars(\E p \in Publishers : (Accepted(p, e) \/ Refused(p, e)) /\ f \in batch[p])
              /\ SF_vars(\E p \in Publishers : Commit(p) /\ e \in batch[p])
         ELSE /\ SF_vars(\E p \in Publishers : Claim(p) /\ e \in batch'[p])
              /\ SF_vars(\E p \in Publishers : Accepted(p, e))
              /\ SF_vars(\E p \in Publishers : Commit(p) /\ e \in marked[p])

FairSpec == Spec /\ Fairness

-----------------------------------------------------------------------------
(* Correctness. *)

\* The types of the table, the passes and the stream's view.
TypeOK ==
    /\ store \in [Events -> {"none", "pending"} \cup Stored]
    /\ due \in [Events -> BOOLEAN]
    /\ lock \in [Events -> Publishers \cup {NoPublisher}]
    /\ up \in [Publishers -> BOOLEAN]
    /\ batch \in [Publishers -> SUBSET Events]
    /\ todo \in [Publishers -> SUBSET Events]
    /\ marked \in [Publishers -> SUBSET Events]
    /\ lost \subseteq Publishers
    /\ copies \in [Events -> Nat]
    /\ remembered \subseteq Events
    /\ late \in [Events -> Nat]

\* An event the table calls published, or has deleted, is on the stream: neither
\* a refused publication, nor a lost session, nor retention drops an event.
PublishedIsStored ==
    \A e \in Events : store[e] \in Stored => copies[e] > 0

\* A publisher with a live session works on rows that are still unpublished: it
\* never repeats an event whose publication another process has committed.
NoStaleBatch ==
    \A p \in Publishers : Connected(p) => \A e \in batch[p] : store[e] = "pending"

\* The stream stores an event once if the duplicate window covers its repetitions,
\* however many passes, processes and late publications send it.
StoredOnce == \A e \in Timely : copies[e] <= 1

\* An event is published in the end, although processes stop and the broker
\* rejects another event for ever.
EventuallyPublished ==
    \A e \in Events \ Doubtful : store[e] = "pending" ~> store[e] \in Stored

-----------------------------------------------------------------------------
Relay == INSTANCE EventRelay

\* Passes that fail, sessions lost on the way and publications that arrive late come
\* to a relay: no event is sent before its investigation is committed, none counts
\* as published before it is there, and no commit takes back what another has done.
RelayImplemented == Relay!RelaySpec
=============================================================================
