------------------------------ MODULE Acceptance ------------------------------
(***************************************************************************)
(* How the orchestrator accepts requests for investigations.  A plain      *)
(* request names its exceptions; a filtered one selects them from CTC's    *)
(* backlog, page by page.  Either way one transaction then inserts a row   *)
(* and an event for each exception that is not under investigation, and    *)
(* attaches the request to the active row of each one that is.             *)
(*                                                                         *)
(* Transactions run at READ COMMITTED: every statement sees what has been  *)
(* committed and what its own transaction has written.  The partial unique *)
(* index on active rows makes an insert wait for the transaction that has  *)
(* inserted an active row for the same exception and has not ended.        *)
(***************************************************************************)
EXTENDS Naturals, Sequences

CONSTANTS
    Requests,
    Exceptions,
    Filtered,       \* the filtered requests
    NoRow,
    Input,          \* the ids a request names, or the backlog a selection scans
    PageSize,       \* page_size of the selection
    MaxExceptions   \* max_exceptions of a selection

ASSUME RequestsAssumption ==
    /\ Filtered \subseteq Requests
    /\ Input \in [Requests -> Seq(Exceptions)]
ASSUME LimitsAssumption == PageSize \in Nat \ {0} /\ MaxExceptions \in Nat \ {0}

\* A request inserts at most one row for an exception: that names the row.
Rows == [request: Requests, exception: Exceptions]
ASSUME NoRowAssumption == NoRow \notin Rows

VARIABLES
    status,     \* committed: the status of each row
    events,     \* committed: the rows with an outbox event
    members,    \* committed: the rows each request is attached to
    answer,     \* what the client has been told
    pc,         \* where each request is
    scan,       \* a request's selection
    item,       \* what it knows of the exception it is at
    tx          \* what its transaction has written and not committed

committed == <<status, events, members>>
vars == <<status, events, members, answer, pc, scan, item, tx>>

RowStatus == {"none", "active", "completed", "failed"}
Answer == {"none", "accepted", "failed"}
Stage == {"page", "scan", "begin", "check", "insert", "lookup", "recheck",
          "record", "commit", "done"}

Scan == [cursor: Nat,               \* ids examined
         end: Nat,                  \* ids read
         history: SUBSET Exceptions,\* completed_exception_ids of the page
         selected: Seq(Exceptions)]
Item == [position: Nat, tries: 0..1, row: Rows \cup {NoRow}, created: BOOLEAN]
Tx == [rows: SUBSET Rows, keys: SUBSET Exceptions, events: SUBSET Rows,
       members: SUBSET Rows]

NewItem(position) ==
    [position |-> position, tries |-> 0, row |-> NoRow, created |-> FALSE]
NoTx == [rows |-> {}, keys |-> {}, events |-> {}, members |-> {}]

Init ==
    /\ status = [row \in Rows |-> "none"]
    /\ events = {}
    /\ members = [r \in Requests |-> {}]
    /\ answer = [r \in Requests |-> "none"]
    /\ pc = [r \in Requests |-> IF r \in Filtered THEN "page" ELSE "scan"]
    /\ scan = [r \in Requests |->
                 [cursor |-> 0,
                  end |-> IF r \in Filtered THEN 0 ELSE Len(Input[r]),
                  history |-> {}, selected |-> <<>>]]
    /\ item = [r \in Requests |-> NewItem(1)]
    /\ tx = [r \in Requests |-> NoTx]

-----------------------------------------------------------------------------
(* What a statement of a request sees. *)

Completed(x) == \E row \in Rows : row.exception = x /\ status[row] = "completed"

\* The active row of an exception, committed or of the request itself.
ActiveFor(r, x) ==
    {row \in Rows : row.exception = x /\ (status[row] = "active" \/ row \in tx[r].rows)}

\* Another transaction has an active row for the exception and has not ended; a
\* row it has inserted and deleted again counts too.
HeldBy(q, x) == x \in tx[q].keys

-----------------------------------------------------------------------------
(* Selecting the exceptions. *)

\* _select reads a page of the backlog, then which of its exceptions are completed.
\* An empty page ends the selection.
ReadPage(r) ==
    /\ pc[r] = "page"
    /\ IF scan[r].cursor = Len(Input[r])
       THEN /\ pc' = [pc EXCEPT ![r] = "begin"]
            /\ UNCHANGED scan
       ELSE /\ pc' = [pc EXCEPT ![r] = "scan"]
            /\ scan' = [scan EXCEPT
                          ![r].end = IF @ + PageSize < Len(Input[r])
                                     THEN @ + PageSize ELSE Len(Input[r]),
                          ![r].history = {x \in Exceptions : Completed(x)}]
    /\ UNCHANGED <<committed, answer, item, tx>>

\* Fault: an id that occurs twice is kept twice.
SelectedWithRepeats(s, x) == IF x \in s.history THEN s.selected
                                                 ELSE Append(s.selected, x)

\* dict.fromkeys, and the dict of _select: the first occurrence counts.
Selected(s, x) ==
    IF x \in s.history \/ \E i \in 1..Len(s.selected) : s.selected[i] = x
    THEN s.selected
    ELSE Append(s.selected, x)

Full(r) == r \in Filtered /\ Len(scan[r].selected) >= MaxExceptions

\* One id of the page, or of the list the request came with.
Examine(r) ==
    /\ pc[r] = "scan"
    /\ scan[r].cursor < scan[r].end
    /\ scan[r].cursor < Len(Input[r])
    /\ ~Full(r)
    /\ scan' = [scan EXCEPT
                  ![r].cursor = @ + 1,
                  ![r].selected = Selected(scan[r], Input[r][scan[r].cursor + 1])]
    /\ UNCHANGED <<committed, answer, pc, item, tx>>

PageDone(r) ==
    /\ pc[r] = "scan"
    /\ scan[r].cursor = scan[r].end \/ Full(r)
    /\ pc' = [pc EXCEPT ![r] = IF r \in Filtered /\ ~Full(r) THEN "page" ELSE "begin"]
    /\ UNCHANGED <<committed, answer, scan, item, tx>>

-----------------------------------------------------------------------------
(* The transaction: one action for each statement. *)

\* The loop over the selection continues with the exception at a position.
GoOn(r, position) ==
    /\ item' = [item EXCEPT ![r] = NewItem(position)]
    /\ pc' = [pc EXCEPT ![r] = IF position > Len(scan[r].selected) THEN "commit"
                               ELSE IF r \in Filtered THEN "check" ELSE "insert"]

Exception(r) == scan[r].selected[item[r].position]

\* INSERT of the request's own row.
Begin(r) ==
    /\ pc[r] = "begin"
    /\ GoOn(r, 1)
    /\ UNCHANGED <<committed, answer, scan, tx>>

\* A filtered request leaves out an exception that has been completed.
Check(r) ==
    /\ pc[r] = "check"
    /\ IF Completed(Exception(r))
       THEN GoOn(r, item[r].position + 1)
       ELSE /\ pc' = [pc EXCEPT ![r] = "insert"]
            /\ UNCHANGED item
    /\ UNCHANGED <<committed, answer, scan, tx>>

\* The row is there: a filtered request looks at the history once more.
Found(r, row, created) ==
    /\ item' = [item EXCEPT ![r].row = row, ![r].created = created]
    /\ pc' = [pc EXCEPT ![r] = IF r \in Filtered THEN "recheck" ELSE "record"]

Conflict(r) ==
    /\ pc' = [pc EXCEPT ![r] = "lookup"]
    /\ UNCHANGED <<item, tx>>

Inserted(r, x) ==
    LET row == [request |-> r, exception |-> x]
    IN  /\ tx' = [tx EXCEPT ![r].rows = @ \cup {row}, ![r].keys = @ \cup {x}]
        /\ Found(r, row, TRUE)

\* Fault: the event is written with the row.
InsertWithEvent(r) ==
    /\ pc[r] = "insert"
    /\ \E x \in Exceptions :
          /\ x = Exception(r)
          /\ \A q \in Requests \ {r} : ~HeldBy(q, x)
          /\ IF ActiveFor(r, x) # {} THEN Conflict(r)
             ELSE LET row == [request |-> r, exception |-> x]
                  IN  /\ tx' = [tx EXCEPT ![r].rows = @ \cup {row},
                                          ![r].keys = @ \cup {x},
                                          ![r].events = @ \cup {row}]
                      /\ Found(r, row, TRUE)
    /\ UNCHANGED <<committed, answer, scan>>

\* INSERT ... ON CONFLICT DO NOTHING: waits for a transaction that holds the key.
Insert(r) ==
    /\ pc[r] = "insert"
    /\ \E x \in Exceptions :
          /\ x = Exception(r)
          /\ \A q \in Requests \ {r} : ~HeldBy(q, x)
          /\ IF ActiveFor(r, x) # {} THEN Conflict(r) ELSE Inserted(r, x)
    /\ UNCHANGED <<committed, answer, scan>>

\* The end of a transaction frees its keys.
Ends(r, told) ==
    /\ pc' = [pc EXCEPT ![r] = "done"]
    /\ answer' = [answer EXCEPT ![r] = told]
    /\ tx' = [tx EXCEPT ![r] = NoTx]
    /\ UNCHANGED <<scan, item>>

\* Fault: an error leaves the transaction open.
EndsOpen(r) ==
    /\ pc' = [pc EXCEPT ![r] = "done"]
    /\ answer' = [answer EXCEPT ![r] = "failed"]
    /\ UNCHANGED <<scan, item, tx>>

RolledBack(r) == Ends(r, "failed")

\* Fault: no row to attach to means that there is nothing to do.
LookupSkips(r) ==
    /\ pc[r] = "lookup"
    /\ \/ \E row \in ActiveFor(r, Exception(r)) : Found(r, row, FALSE) /\ UNCHANGED tx
       \/ ActiveFor(r, Exception(r)) = {} /\ GoOn(r, item[r].position + 1) /\ UNCHANGED tx
    /\ UNCHANGED <<committed, answer, scan>>

\* The row that was in the way may be finished by now: one more try, then an error.
Lookup(r) ==
    /\ pc[r] = "lookup"
    /\ \/ /\ \E row \in ActiveFor(r, Exception(r)) : Found(r, row, FALSE)
          /\ UNCHANGED <<answer, scan, tx>>
       \/ /\ ActiveFor(r, Exception(r)) = {} /\ item[r].tries = 0
          /\ item' = [item EXCEPT ![r].tries = 1]
          /\ pc' = [pc EXCEPT ![r] = "insert"]
          /\ UNCHANGED <<answer, scan, tx>>
       \/ /\ ActiveFor(r, Exception(r)) = {} /\ item[r].tries = 1
          /\ RolledBack(r)
    /\ UNCHANGED committed

\* Fault: the history is not read again.
RecheckNothing(r) ==
    /\ pc[r] = "recheck"
    /\ pc' = [pc EXCEPT ![r] = "record"]
    /\ UNCHANGED <<committed, answer, scan, item, tx>>

\* The exception was completed while this request waited for its row: the request
\* leaves it out and deletes a row of its own.
Recheck(r) ==
    /\ pc[r] = "recheck"
    /\ IF Completed(Exception(r))
       THEN /\ tx' = [tx EXCEPT ![r].rows =
                        IF item[r].created THEN @ \ {item[r].row} ELSE @]
            /\ GoOn(r, item[r].position + 1)
       ELSE /\ pc' = [pc EXCEPT ![r] = "record"]
            /\ UNCHANGED <<item, tx>>
    /\ UNCHANGED <<committed, answer, scan>>

\* Write the event of a new row and attach the request.  The membership's primary
\* key refuses a row the request is attached to already.
Record(r) ==
    /\ pc[r] = "record"
    /\ IF item[r].row \in tx[r].members
       THEN RolledBack(r)
       ELSE /\ tx' = [tx EXCEPT
                        ![r].events = IF item[r].created THEN @ \cup {item[r].row} ELSE @,
                        ![r].members = @ \cup {item[r].row}]
            /\ GoOn(r, item[r].position + 1)
            /\ UNCHANGED <<answer, scan>>
    /\ UNCHANGED committed

\* The commit; its answer may be lost on the way to the service.
Commit(r) ==
    /\ pc[r] = "commit"
    /\ status' = [row \in Rows |-> IF row \in tx[r].rows THEN "active" ELSE status[row]]
    /\ events' = events \cup tx[r].events
    /\ members' = [members EXCEPT ![r] = tx[r].members]
    /\ Ends(r, "accepted") \/ Ends(r, "failed")

\* A statement or the commit fails, the client disconnects, the process dies.
Fails(r) ==
    /\ pc[r] # "done"
    /\ RolledBack(r)
    /\ UNCHANGED committed

-----------------------------------------------------------------------------
(* The environment. *)

\* PostgreSQL breaks a cycle of waiting transactions by aborting one of them.
WaitsFor(r, q) == r # q /\ pc[r] = "insert" /\ HeldBy(q, Exception(r))

Deadlocked(r) ==
    \E cycle \in SUBSET Requests :
        r \in cycle /\ \A p \in cycle : \E q \in cycle : WaitsFor(p, q)

DeadlockAborts(r) ==
    /\ Deadlocked(r)
    /\ RolledBack(r)
    /\ UNCHANGED committed

\* The workers finish the investigation of a committed row.
Decide(row) ==
    /\ status[row] = "active"
    /\ \E outcome \in {"completed", "failed"} :
          status' = [status EXCEPT ![row] = outcome]
    /\ UNCHANGED <<events, members, answer, pc, scan, item, tx>>

Step(r) ==
    \/ ReadPage(r) \/ Examine(r) \/ PageDone(r) \/ Begin(r) \/ Check(r) \/ Insert(r)
    \/ Lookup(r) \/ Recheck(r) \/ Record(r) \/ Commit(r)

Next ==
    \/ \E r \in Requests : Step(r) \/ Fails(r) \/ DeadlockAborts(r)
    \/ \E row \in Rows : Decide(row)

Spec == Init /\ [][Next]_vars

\* A request goes on as soon as it need not wait, and the database's deadlock check
\* runs after deadlock_timeout.
Fairness ==
    /\ \A r \in Requests : WF_vars(Step(r))
    /\ WF_vars(\E r \in Requests : DeadlockAborts(r))

FairSpec == Spec /\ Fairness

-----------------------------------------------------------------------------
(* Correctness. *)

\* The types of the tables and of what each request keeps.
TypeOK ==
    /\ status \in [Rows -> RowStatus]
    /\ events \subseteq Rows
    /\ members \in [Requests -> SUBSET Rows]
    /\ answer \in [Requests -> Answer]
    /\ pc \in [Requests -> Stage]
    /\ scan \in [Requests -> Scan]
    /\ item \in [Requests -> Item]
    /\ tx \in [Requests -> Tx]

\* Every row the workers could be asked to run has its event, and no event names a
\* row that was never committed: also when a filtered request takes a row back.
EventForEveryRow == \A row \in Rows : status[row] # "none" <=> row \in events

\* Two requests never start two investigations of one exception: an active row,
\* committed or about to be, is the only one.
OneActivePerException ==
    \A row1, row2 \in {row \in Rows : status[row] = "active"
                                      \/ \E r \in Requests : row \in tx[r].rows} :
        row1.exception = row2.exception => row1 = row2

\* A filtered request creates no investigation of an exception that has been
\* completed, not even if that happened after it read the history first: from the
\* second look on nobody else can complete one.
FilteredSkipsHistory ==
    \A r \in Filtered : \A row \in tx[r].events : ~Completed(row.exception)

\* A batch never trips over itself: a request attaches each row once.
AttachedOnce ==
    \A r \in Requests : pc[r] = "record" => item[r].row \notin tx[r].members

\* An accepted request is attached to one committed row for each exception it asked
\* for (each it selected and did not leave out), whoever created the row.
AcceptedIsComplete ==
    \A r \in Requests : answer[r] = "accepted" =>
        /\ \A row \in members[r] : status[row] # "none"
        /\ \A row1, row2 \in members[r] : row1.exception = row2.exception => row1 = row2
        /\ LET asked == {Input[r][i] : i \in 1..Len(Input[r])}
               found == {row.exception : row \in members[r]}
           IN  IF r \in Filtered THEN found \subseteq asked ELSE found = asked

\* Every request is answered: requests that name the same exceptions in different
\* orders do not wait for each other for ever.
RequestsEnd == \A r \in Requests : <>(pc[r] = "done")

-----------------------------------------------------------------------------
Ledger == INSTANCE AcceptanceLedger

\* The statements of a transaction, the waits on the index, the rows taken back and
\* whatever fails amount to one step for each request: it is accepted with the rows
\* and events of all its exceptions, or refused with none.
LedgerImplemented == Ledger!LedgerSpec
=============================================================================
