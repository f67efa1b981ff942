--------------------------- MODULE AcceptanceLedger ---------------------------
(***************************************************************************)
(* What accepting requests comes to for everybody but the database: each   *)
(* request is accepted in one step or refused without a trace.  An         *)
(* accepted one is attached to an investigation of each exception it asked *)
(* for; it starts those that nobody else has under way, each with its      *)
(* event, and never one of an exception it should leave to its history.    *)
(***************************************************************************)
EXTENDS Naturals, Sequences, FiniteSets

CONSTANTS Requests, Exceptions, Filtered, Input, MaxExceptions

VARIABLES status, events, members, answer

ledger == <<status, events, members, answer>>

Rows == [request: Requests, exception: Exceptions]

Asked(r) == {Input[r][i] : i \in 1..Len(Input[r])}

\* Some investigation of the exception is there, with that status.
Has(x, s) == \E row \in Rows : row.exception = x /\ status[row] = s

LedgerInit ==
    /\ status = [row \in Rows |-> "none"]
    /\ events = {}
    /\ members = [r \in Requests |-> {}]
    /\ answer = [r \in Requests |-> "none"]

\* The rows are one for each exception asked for; a filtered request may leave some
\* out and takes a limited number.
Satisfies(r, rows) ==
    /\ \A row1, row2 \in rows : row1.exception = row2.exception => row1 = row2
    /\ LET found == {row.exception : row \in rows}
       IN  IF r \in Filtered
           THEN found \subseteq Asked(r) /\ Cardinality(rows) <= MaxExceptions
           ELSE found = Asked(r)

\* A request may start an investigation of its own of the exception.
MayStart(r, x) == ~Has(x, "active") /\ (r \in Filtered => ~Has(x, "completed"))

\* The client may never hear of it.
Accept(r, rows) ==
    LET started == {row \in rows : status[row] = "none"}
    IN  /\ answer[r] = "none"
        /\ members' = [members EXCEPT ![r] = rows]
        /\ Satisfies(r, rows)
        /\ \A row \in started : row.request = r /\ MayStart(r, row.exception)
        /\ status' = [row \in Rows |-> IF row \in started THEN "active" ELSE status[row]]
        /\ events' = events \cup started
        /\ \E told \in {"accepted", "failed"} : answer' = [answer EXCEPT ![r] = told]

Refuse(r) ==
    /\ answer[r] = "none"
    /\ answer' = [answer EXCEPT ![r] = "failed"]
    /\ UNCHANGED <<status, events, members>>

Decide(row) ==
    /\ status[row] = "active"
    /\ \E outcome \in {"completed", "failed"} :
          status' = [status EXCEPT ![row] = outcome]
    /\ UNCHANGED <<events, members, answer>>

LedgerNext ==
    \/ \E r \in Requests : Refuse(r) \/ \E rows \in SUBSET Rows : Accept(r, rows)
    \/ \E row \in Rows : Decide(row)

LedgerSpec == LedgerInit /\ [][LedgerNext]_ledger
=============================================================================
