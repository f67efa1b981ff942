-------------------------------- MODULE Analyst --------------------------------
(***************************************************************************)
(* One analysis of an exception by the worker's agent                      *)
(* (LLMExceptionAnalyst.analyze): the model asks for tools, several at a   *)
(* time; a query the CTC database refuses is handed to a second agent, the *)
(* SQL fixer, which has tools and limits of its own.  All of them spend    *)
(* one budget of tool calls.  Each call of a model goes through the retry  *)
(* of RetryingLLMClient, modelled in Admission, and is here one step with  *)
(* its three results.  What is asked and answered is abstracted to which   *)
(* call read the rows.                                                     *)
(*                                                                         *)
(* The agent graphs are LangChain's: the tool calls of one message run     *)
(* concurrently, an exception that a tool raises ends the run and cancels  *)
(* the other calls, and a run that reaches a limit ends without structured *)
(* output.  The fixer's calls of one message are taken one after another.  *)
(***************************************************************************)
EXTENDS Naturals

CONSTANTS
    Calls,          \* the tool calls one message may hold
    NoCall,
    ModelLimit,     \* analysis_model_call_limit
    ToolLimit,      \* analysis_tool_call_limit
    FixerLimit      \* sql_fixer_max_attempts

ASSUME CallsAssumption == NoCall \notin Calls
ASSUME LimitsAssumption ==
    ModelLimit \in Nat \ {0} /\ ToolLimit \in Nat \ {0} /\ FixerLimit \in Nat \ {0}

\* Of a statement that cannot be executed, only lost connections are tried again.
QueryAttempts == 3

VARIABLES
    outcome,        \* "running", or how the analysis ended
    modelCalls,     \* answers of the analysis model
    used,           \* the run's ToolCallBudget
    at,             \* where each tool call is
    tries,          \* executions of its statement that lost the connection
    fixerCalls,     \* answers of the fixer's model in its repair
    fixerTools,     \* statements its repair has executed
    read,           \* the last result of the list the ContextVar holds: who read it
    told,           \* the rows the call has answered with: who read them
    sent,           \* history: statements given to the database, not counting repetitions, not counting repetitions
    cut             \* history: a tool call met a limit or an unreachable database

repairVars == <<fixerCalls, fixerTools, read>>
vars == <<outcome, modelCalls, used, at, tries, repairVars, told, sent, cut>>

\* What ExceptionAnalyst.analyze ends with: an analysis, or one of its errors.
Outcomes == {"analysis", "invalid_output", "run_limit", "unavailable", "failed"}

\* A call is being decided on, waits for the database ("query"; "execute" under
\* the fixer), for the fixer's model, or has been answered.
Places == {"free", "asked", "query", "fixer", "execute", "answered"}

Init ==
    /\ outcome = "running" /\ modelCalls = 0 /\ used = 0
    /\ at = [c \in Calls |-> "free"]
    /\ tries = [c \in Calls |-> 0]
    /\ fixerCalls = [c \in Calls |-> 0]
    /\ fixerTools = [c \in Calls |-> 0]
    /\ read = [c \in Calls |-> NoCall]
    /\ told = [c \in Calls |-> NoCall]
    /\ sent = 0 /\ cut = FALSE

Running == outcome = "running"

\* The run ends; the calls that are still under way are cancelled.
Ends(o) ==
    /\ outcome' = o
    /\ at' = [c \in Calls |-> "free"]
    /\ told' = [c \in Calls |-> NoCall]
    /\ UNCHANGED <<tries, repairVars>>

-----------------------------------------------------------------------------
(* The analysis agent. *)

\* The model has the floor: no tool call is open.
ModelsTurn == Running /\ \A c \in Calls : at[c] = "free"

\* The graph ends at its limit, or on an answer without structured output.
NoOutput ==
    /\ ModelsTurn
    /\ modelCalls' \in {modelCalls, modelCalls + 1} \cap 0..ModelLimit
    /\ modelCalls' = modelCalls => modelCalls = ModelLimit
    /\ Ends("run_limit")
    /\ UNCHANGED <<used, sent, cut>>

\* The model asks for some tools.
AsksForTools ==
    /\ ModelsTurn /\ modelCalls < ModelLimit
    /\ modelCalls' = modelCalls + 1
    /\ \E asked \in SUBSET Calls \ {{}} :
          at' = [c \in Calls |-> IF c \in asked THEN "asked" ELSE "free"]
    /\ UNCHANGED <<outcome, used, tries, repairVars, told, sent, cut>>

\* The model's answer passes the schema and the checks after it, or does not.
GivesOutput ==
    /\ ModelsTurn /\ modelCalls < ModelLimit
    /\ modelCalls' = modelCalls + 1
    /\ \E o \in {"analysis", "invalid_output"} : Ends(o)
    /\ UNCHANGED <<used, sent, cut>>

\* The graph reports an output that fails the schema to the model.
InvalidAgain ==
    /\ ModelsTurn /\ modelCalls < ModelLimit
    /\ modelCalls' = modelCalls + 1
    /\ UNCHANGED <<outcome, used, at, tries, repairVars, told, sent, cut>>

\* Its retries are exhausted, or the provider refuses the call for good.
ModelFails ==
    /\ ModelsTurn /\ modelCalls < ModelLimit
    /\ \E o \in {"unavailable", "failed"} : Ends(o)
    /\ UNCHANGED <<modelCalls, used, sent, cut>>

\* All tool calls of the message are answered.
MessageDone ==
    /\ Running /\ ~ModelsTurn
    /\ \A c \in Calls : at[c] \in {"free", "answered"}
    /\ at' = [c \in Calls |-> "free"]
    /\ told' = [c \in Calls |-> NoCall]
    /\ UNCHANGED <<outcome, modelCalls, used, tries, repairVars, sent, cut>>

-----------------------------------------------------------------------------
(* The tools: each begins by spending one call of the budget. *)

Spend ==
    /\ used < ToolLimit
    /\ used' = used + 1

\* Fault: the fixer's calls are the fixer's own affair.
SpendNothing == UNCHANGED used

\* execute_sql is one of the fixer's tools and spends the same budget.
FixerSpends == Spend

\* The fixer's model answers once more than it may execute statements.
FixerHasCalls(c) == at[c] = "fixer" /\ fixerCalls[c] <= FixerLimit

\* A tool call beyond the budget raises, which ends the run.
OverBudget(c) ==
    /\ \/ at[c] = "asked"
       \/ FixerHasCalls(c) /\ fixerTools[c] < FixerLimit
    /\ used >= ToolLimit
    /\ cut' = TRUE
    /\ Ends("run_limit")
    /\ UNCHANGED <<modelCalls, used, sent>>

Answers(c, d) ==
    /\ at' = [at EXCEPT ![c] = "answered"]
    /\ told' = [told EXCEPT ![c] = d]

\* The calculator, or a statement that is not an allowed read query.
AnsweredAtOnce(c) ==
    /\ at[c] = "asked"
    /\ Spend
    /\ Answers(c, NoCall)
    /\ UNCHANGED <<outcome, modelCalls, tries, repairVars, sent, cut>>

\* A statement goes to the database.
Sends(c, place) ==
    /\ at' = [at EXCEPT ![c] = place]
    /\ tries' = [tries EXCEPT ![c] = 0]
    /\ sent' = sent + 1

RunSqlQuery(c) ==
    /\ at[c] = "asked"
    /\ Spend
    /\ Sends(c, "query")
    /\ UNCHANGED <<outcome, modelCalls, repairVars, told, cut>>

QueryAnswered(c) ==
    /\ at[c] = "query"
    /\ Answers(c, c)
    /\ UNCHANGED <<outcome, modelCalls, used, tries, repairVars, sent, cut>>

\* A lost connection is tried again while attempts are left.
Reconnects(c) ==
    /\ at[c] \in {"query", "execute"}
    /\ tries[c] + 1 < QueryAttempts
    /\ tries' = [tries EXCEPT ![c] = @ + 1]
    /\ UNCHANGED <<outcome, modelCalls, used, at, repairVars, told, sent, cut>>

\* Fault: the list belongs to the fixer, which all calls share.
ResultsOfFixer(c) == CHOOSE d \in Calls : TRUE

\* The list a repair appends to and answers from: a ContextVar, so its own.
ResultsOf(c) == c

\* The database refuses the statement: a repair begins with an empty list.
RepairBegins(c) ==
    /\ at' = [at EXCEPT ![c] = "fixer"]
    /\ fixerCalls' = [fixerCalls EXCEPT ![c] = 0]
    /\ fixerTools' = [fixerTools EXCEPT ![c] = 0]
    /\ read' = [read EXCEPT ![ResultsOf(c)] = NoCall]

QueryRefused(c) ==
    /\ at[c] = "query"
    /\ RepairBegins(c)
    /\ UNCHANGED <<outcome, modelCalls, used, tries, told, sent, cut>>

\* Fault: QueryUnavailableError is caught as the QueryExecutionError it is.
UnreachableRepaired(c) ==
    /\ at[c] = "query" /\ tries[c] + 1 = QueryAttempts
    /\ cut' = TRUE
    /\ RepairBegins(c)
    /\ UNCHANGED <<outcome, modelCalls, used, tries, told, sent>>

\* QueryUnavailableError passes through both tools and both agents.
Unreachable(c) ==
    /\ at[c] \in {"query", "execute"}
    /\ tries[c] + 1 = QueryAttempts
    /\ cut' = TRUE
    /\ Ends("unavailable")
    /\ UNCHANGED <<modelCalls, used, sent>>

-----------------------------------------------------------------------------
(* The SQL fixer. *)

FixerCounts(c) == fixerCalls' = [fixerCalls EXCEPT ![c] = @ + 1]

\* It executes a statement, or one that is turned down before it is executed.
FixerExecutes(c) ==
    /\ FixerHasCalls(c) /\ fixerTools[c] < FixerLimit
    /\ FixerCounts(c)
    /\ fixerTools' = [fixerTools EXCEPT ![c] = @ + 1]
    /\ FixerSpends
    /\ \/ Sends(c, "execute")
       \/ UNCHANGED <<at, tries, sent>>
    /\ UNCHANGED <<outcome, modelCalls, read, told, cut>>

\* Rows are appended to the list; an error is reported to the fixer's model.
ExecuteAnswered(c) ==
    /\ at[c] = "execute"
    /\ at' = [at EXCEPT ![c] = "fixer"]
    /\ read' \in {read, [read EXCEPT ![ResultsOf(c)] = c]}
    /\ UNCHANGED <<outcome, modelCalls, used, tries, fixerCalls, fixerTools, told, sent, cut>>

\* A structured answer returns the last result of the list, whatever it says itself.
FixerAnswers(c) ==
    /\ FixerHasCalls(c)
    /\ FixerCounts(c)
    /\ Answers(c, read[ResultsOf(c)])
    /\ UNCHANGED <<outcome, modelCalls, used, tries, fixerTools, read, sent, cut>>

FixerInvalidAgain(c) ==
    /\ FixerHasCalls(c)
    /\ FixerCounts(c)
    /\ UNCHANGED <<outcome, modelCalls, used, at, tries, fixerTools, read, told, sent, cut>>

\* SQLFixFailedError, at a limit of the fixer or for want of a structured answer:
\* the tool answers that the query failed.
FixerGivesUp(c) ==
    /\ at[c] = "fixer"
    /\ Answers(c, NoCall)
    /\ UNCHANGED <<outcome, modelCalls, used, tries, repairVars, sent, cut>>

FixerModelFails(c) ==
    /\ FixerHasCalls(c)
    /\ \E o \in {"unavailable", "failed"} : Ends(o)
    /\ UNCHANGED <<modelCalls, used, sent, cut>>

-----------------------------------------------------------------------------
Agent ==
    \/ NoOutput \/ AsksForTools \/ GivesOutput \/ InvalidAgain
    \/ ModelFails \/ MessageDone

Tool(c) ==
    \/ OverBudget(c) \/ AnsweredAtOnce(c) \/ RunSqlQuery(c)
    \/ QueryAnswered(c) \/ QueryRefused(c) \/ Reconnects(c) \/ Unreachable(c)

Fixer(c) ==
    \/ FixerExecutes(c) \/ ExecuteAnswered(c) \/ FixerAnswers(c)
    \/ FixerInvalidAgain(c) \/ FixerGivesUp(c) \/ FixerModelFails(c)

\* The analysis is over; anything else that cannot go on is a deadlock.
Over == ~Running /\ UNCHANGED vars

Next == Agent \/ Over \/ \E c \in Calls : Tool(c) \/ Fixer(c)

Spec == Init /\ [][Next]_vars

-----------------------------------------------------------------------------
(* Correctness. *)

\* The types of the run, its calls and the histories.
TypeOK ==
    /\ outcome \in Outcomes \cup {"running"}
    /\ modelCalls \in 0..ModelLimit
    /\ used \in Nat /\ sent \in Nat /\ cut \in BOOLEAN
    /\ at \in [Calls -> Places]
    /\ tries \in [Calls -> 0..QueryAttempts - 1]
    /\ fixerCalls \in [Calls -> Nat] /\ fixerTools \in [Calls -> Nat]
    /\ read \in [Calls -> Calls \cup {NoCall}]
    /\ told \in [Calls -> Calls \cup {NoCall}]

\* However many calls run at once and however many repairs they start, one run
\* gives the CTC database no more statements than its budget of tool calls.
StatementsWithinBudget == sent <= ToolLimit

\* A repaired query answers with rows that this repair has read, not with those
\* of another call that is being repaired at the same time.
RowsAreTheCallsOwn == \A c \in Calls : told[c] \in {c, NoCall}

\* An analysis is never made from what could be read before the database became
\* unreachable or the budget ran out: the run ends with an error instead.
NothingMissing == outcome = "analysis" => ~cut
=============================================================================
