----------------------------- MODULE AnalystProofs -----------------------------
(***************************************************************************)
(* Proofs about Analyst, for every number of concurrent calls and every    *)
(* setting of the limits.                                                  *)
(***************************************************************************)
EXTENDS Analyst, TLAPS

\* A step of a run that is over changes nothing, and while it runs nothing has been
\* cut short: the errors that say so end it.
EndsCleanly ==
    /\ ~Running => \A c \in Calls : at[c] = "free"
    /\ cut => outcome \in {"run_limit", "unavailable"}

\* Statements are paid for before they are sent.
Budget == sent <= used /\ used <= ToolLimit

\* Lists and answers hold rows of their own call.
OwnRows == \A c \in Calls : read[c] \in {c, NoCall} /\ told[c] \in {c, NoCall}

-----------------------------------------------------------------------------
\* The types hold initially.
LEMMA InitTyped == Init => TypeOK
<1> SUFFICES ASSUME Init PROVE TypeOK
  OBVIOUS
<1>1. /\ outcome \in Outcomes \cup {"running"}
      /\ modelCalls \in 0..ModelLimit
      /\ used \in Nat /\ sent \in Nat
  BY LimitsAssumption DEF Init
<1>0. cut \in BOOLEAN
  BY DEF Init
<1>2. at \in [Calls -> Places]
  BY DEF Init, Places
<1>3. /\ tries \in [Calls -> 0..QueryAttempts - 1]
      /\ fixerCalls \in [Calls -> Nat] /\ fixerTools \in [Calls -> Nat]
  BY DEF Init, QueryAttempts
<1>4. read \in [Calls -> Calls \cup {NoCall}] /\ told \in [Calls -> Calls \cup {NoCall}]
  BY DEF Init
<1> QED BY <1>0, <1>1, <1>2, <1>3, <1>4 DEF TypeOK

\* Ending the run keeps the types.
LEMMA EndsTyped ==
    ASSUME NEW o \in Outcomes, TypeOK, Ends(o),
           modelCalls' \in 0..ModelLimit, used' \in Nat, sent' \in Nat, cut' \in BOOLEAN
    PROVE  TypeOK'
<1>1. outcome' \in Outcomes \cup {"running"}
  BY DEF Ends
<1>2. at' \in [Calls -> Places]
  BY DEF Ends, Places
<1>3. told' \in [Calls -> Calls \cup {NoCall}]
  BY DEF Ends
<1>4. UNCHANGED <<tries, fixerCalls, fixerTools, read>>
  BY DEF Ends, repairVars
<1> QED BY <1>1, <1>2, <1>3, <1>4 DEF TypeOK

\* The steps of the analysis agent keep the types.
LEMMA AgentTyped == TypeOK /\ Agent => TypeOK'
<1> SUFFICES ASSUME TypeOK, Agent PROVE TypeOK'
  OBVIOUS
<1> USE LimitsAssumption
<1>1. CASE NoOutput
  <2>1. "run_limit" \in Outcomes
    BY DEF Outcomes
  <2>2. Ends("run_limit") /\ modelCalls' \in 0..ModelLimit
    BY <1>1 DEF NoOutput
  <2>3. UNCHANGED <<used, sent, cut>>
    BY <1>1 DEF NoOutput
  <2> QED BY <2>1, <2>2, <2>3, EndsTyped DEF TypeOK
<1>2. CASE AsksForTools
  <2>1. PICK asked \in SUBSET Calls :
          at' = [c \in Calls |-> IF c \in asked THEN "asked" ELSE "free"]
    BY <1>2 DEF AsksForTools
  <2>2. modelCalls' \in 0..ModelLimit
    BY <1>2 DEF AsksForTools, TypeOK
  <2> QED BY <1>2, <2>1, <2>2 DEF AsksForTools, TypeOK, Places, repairVars
<1>3. CASE GivesOutput
  <2>1. PICK o \in {"analysis", "invalid_output"} : Ends(o)
    BY <1>3 DEF GivesOutput
  <2>2. o \in Outcomes
    BY <2>1 DEF Outcomes
  <2>3. modelCalls' \in 0..ModelLimit /\ UNCHANGED <<used, sent, cut>>
    BY <1>3 DEF GivesOutput, TypeOK
  <2> QED BY <2>1, <2>2, <2>3, EndsTyped DEF TypeOK
<1>4. CASE InvalidAgain
  <2>1. modelCalls' \in 0..ModelLimit
    BY <1>4 DEF InvalidAgain, TypeOK
  <2> QED BY <1>4, <2>1 DEF InvalidAgain, TypeOK, repairVars
<1>5. CASE ModelFails
  <2>1. PICK o \in {"unavailable", "failed"} : Ends(o)
    BY <1>5 DEF ModelFails
  <2>2. o \in Outcomes
    BY <2>1 DEF Outcomes
  <2>3. UNCHANGED <<modelCalls, used, sent, cut>>
    BY <1>5 DEF ModelFails
  <2> QED BY <2>1, <2>2, <2>3, EndsTyped DEF TypeOK
<1>6. CASE MessageDone
  BY <1>6 DEF MessageDone, TypeOK, Places, repairVars
<1> QED BY <1>1, <1>2, <1>3, <1>4, <1>5, <1>6 DEF Agent

\* The steps of a tool call keep the types.
LEMMA ToolTyped == ASSUME NEW c \in Calls PROVE TypeOK /\ Tool(c) => TypeOK'
<1> SUFFICES ASSUME TypeOK, Tool(c) PROVE TypeOK'
  OBVIOUS
<1>1. CASE OverBudget(c)
  <2>1. "run_limit" \in Outcomes
    BY DEF Outcomes
  <2>2. Ends("run_limit") /\ cut' = TRUE /\ UNCHANGED <<modelCalls, used, sent>>
    BY <1>1 DEF OverBudget
  <2> QED BY <2>1, <2>2, EndsTyped DEF TypeOK
<1>2. CASE AnsweredAtOnce(c)
  BY <1>2 DEF AnsweredAtOnce, Spend, Answers, TypeOK, Places, repairVars
<1>3. CASE RunSqlQuery(c)
  BY <1>3 DEF RunSqlQuery, Spend, Sends, TypeOK, Places, repairVars, QueryAttempts
<1>4. CASE QueryAnswered(c)
  BY <1>4 DEF QueryAnswered, Answers, TypeOK, Places, repairVars
<1>5. CASE QueryRefused(c)
  BY <1>5 DEF QueryRefused, RepairBegins, ResultsOf, TypeOK, Places
<1>6. CASE Reconnects(c)
  BY <1>6 DEF Reconnects, TypeOK, repairVars, QueryAttempts
<1>7. CASE Unreachable(c)
  <2>1. "unavailable" \in Outcomes
    BY DEF Outcomes
  <2>2. Ends("unavailable") /\ cut' = TRUE /\ UNCHANGED <<modelCalls, used, sent>>
    BY <1>7 DEF Unreachable
  <2> QED BY <2>1, <2>2, EndsTyped DEF TypeOK
<1> QED BY <1>1, <1>2, <1>3, <1>4, <1>5, <1>6, <1>7 DEF Tool

\* The steps of a repair keep the types.
LEMMA FixerTyped == ASSUME NEW c \in Calls PROVE TypeOK /\ Fixer(c) => TypeOK'
<1> SUFFICES ASSUME TypeOK, Fixer(c) PROVE TypeOK'
  OBVIOUS
<1>1. CASE FixerExecutes(c)
  <2>1. used' \in Nat /\ fixerCalls' \in [Calls -> Nat] /\ fixerTools' \in [Calls -> Nat]
    BY <1>1 DEF FixerExecutes, FixerCounts, FixerSpends, Spend, TypeOK
  <2>2. at' \in [Calls -> Places] /\ tries' \in [Calls -> 0..QueryAttempts - 1] /\ sent' \in Nat
    BY <1>1 DEF FixerExecutes, Sends, TypeOK, Places, QueryAttempts
  <2> QED BY <1>1, <2>1, <2>2 DEF FixerExecutes, TypeOK
<1>2. CASE ExecuteAnswered(c)
  BY <1>2 DEF ExecuteAnswered, ResultsOf, TypeOK, Places
<1>3. CASE FixerAnswers(c)
  BY <1>3 DEF FixerAnswers, FixerCounts, Answers, ResultsOf, TypeOK, Places
<1>4. CASE FixerInvalidAgain(c)
  BY <1>4 DEF FixerInvalidAgain, FixerCounts, TypeOK
<1>5. CASE FixerGivesUp(c)
  <2>1. at' \in [Calls -> Places]
    BY <1>5 DEF FixerGivesUp, Answers, TypeOK, Places
  <2>2. told' \in [Calls -> Calls \cup {NoCall}]
    BY <1>5 DEF FixerGivesUp, Answers, TypeOK
  <2>3. UNCHANGED <<outcome, modelCalls, used, tries, fixerCalls, fixerTools, read, sent, cut>>
    BY <1>5 DEF FixerGivesUp, repairVars
  <2> QED BY <2>1, <2>2, <2>3 DEF TypeOK
<1>6. CASE FixerModelFails(c)
  <2>1. PICK o \in {"unavailable", "failed"} : Ends(o)
    BY <1>6 DEF FixerModelFails
  <2>2. o \in Outcomes
    BY <2>1 DEF Outcomes
  <2>3. UNCHANGED <<modelCalls, used, sent, cut>>
    BY <1>6 DEF FixerModelFails
  <2> QED BY <2>1, <2>2, <2>3, EndsTyped DEF TypeOK
<1> QED BY <1>1, <1>2, <1>3, <1>4, <1>5, <1>6 DEF Fixer

\* The types of the run, its calls and the histories are kept by every step.
LEMMA NextTyped == TypeOK /\ [Next]_vars => TypeOK'
<1> SUFFICES ASSUME TypeOK, [Next]_vars PROVE TypeOK'
  OBVIOUS
<1>1. CASE UNCHANGED vars
  BY <1>1 DEF TypeOK, vars, repairVars
<1> QED BY <1>1, AgentTyped, ToolTyped, FixerTyped DEF Next, Over

\* THEOREM: in every run of Analyst the state has its types.
THEOREM AnalystTypeCorrect == Spec => []TypeOK
BY InitTyped, NextTyped, PTL DEF Spec

-----------------------------------------------------------------------------
\* Statements never run ahead of the budget.
LEMMA NextBudget == TypeOK /\ Budget /\ [Next]_vars => Budget'
<1> SUFFICES ASSUME TypeOK, Budget, [Next]_vars PROVE Budget'
  OBVIOUS
<1> USE LimitsAssumption DEF TypeOK, Budget
<1>1. CASE UNCHANGED vars
  BY <1>1 DEF vars
<1>2. CASE Agent
  BY <1>2 DEF Agent, NoOutput, AsksForTools, GivesOutput, InvalidAgain, ModelFails, MessageDone
<1>3. ASSUME NEW c \in Calls, Tool(c) PROVE Budget'
  <2>1. CASE AnsweredAtOnce(c)
    BY <2>1 DEF AnsweredAtOnce, Spend
  <2>2. CASE RunSqlQuery(c)
    BY <2>2 DEF RunSqlQuery, Spend, Sends
  <2>3. CASE OverBudget(c) \/ QueryAnswered(c) \/ QueryRefused(c) \/ Reconnects(c) \/ Unreachable(c)
    BY <2>3 DEF OverBudget, QueryAnswered, QueryRefused, Reconnects, Unreachable
  <2> QED BY <1>3, <2>1, <2>2, <2>3 DEF Tool
<1>4. ASSUME NEW c \in Calls, Fixer(c) PROVE Budget'
  <2>1. CASE FixerExecutes(c)
    BY <2>1 DEF FixerExecutes, FixerSpends, Spend, Sends
  <2>2. CASE \/ ExecuteAnswered(c) \/ FixerAnswers(c) \/ FixerInvalidAgain(c)
             \/ FixerGivesUp(c) \/ FixerModelFails(c)
    BY <2>2 DEF ExecuteAnswered, FixerAnswers, FixerInvalidAgain, FixerGivesUp, FixerModelFails
  <2> QED BY <1>4, <2>1, <2>2 DEF Fixer
<1> QED BY <1>1, <1>2, <1>3, <1>4 DEF Next, Over, vars

\* THEOREM: however many calls and repairs are under way, a run sends no more
\* statements to CTC than its budget of tool calls.
THEOREM BudgetCorrect == Spec => []StatementsWithinBudget
<1>1. Init => Budget
  BY LimitsAssumption DEF Init, Budget
<1>2. TypeOK /\ Budget => StatementsWithinBudget
  BY LimitsAssumption DEF TypeOK, Budget, StatementsWithinBudget
<1> QED BY <1>1, <1>2, NextBudget, AnalystTypeCorrect, PTL DEF Spec

-----------------------------------------------------------------------------
\* A list and an answer are only ever given rows that their own call has read.
LEMMA NextOwnRows == TypeOK /\ OwnRows /\ [Next]_vars => OwnRows'
<1> SUFFICES ASSUME TypeOK, OwnRows, [Next]_vars PROVE OwnRows'
  OBVIOUS
<1>0. TypeOK'
  BY NextTyped
<1> USE <1>0 DEF OwnRows
<1>1. CASE UNCHANGED vars
  BY <1>1 DEF vars, repairVars
<1>2. CASE Agent
  BY <1>2 DEF Agent, NoOutput, AsksForTools, GivesOutput, InvalidAgain, ModelFails,
              MessageDone, Ends, repairVars
<1>3. ASSUME NEW c \in Calls, Tool(c) PROVE OwnRows'
  <2>1. CASE AnsweredAtOnce(c) \/ QueryAnswered(c)
    BY <2>1 DEF AnsweredAtOnce, QueryAnswered, Answers, repairVars, TypeOK
  <2>2. CASE RunSqlQuery(c) \/ Reconnects(c)
    BY <2>2 DEF RunSqlQuery, Reconnects, repairVars
  <2>3. CASE QueryRefused(c)
    BY <2>3 DEF QueryRefused, RepairBegins, ResultsOf, TypeOK
  <2>4. CASE OverBudget(c) \/ Unreachable(c)
    BY <2>4 DEF OverBudget, Unreachable, Ends, repairVars
  <2> QED BY <1>3, <2>1, <2>2, <2>3, <2>4 DEF Tool
<1>4. ASSUME NEW c \in Calls, Fixer(c) PROVE OwnRows'
  <2>1. CASE FixerExecutes(c) \/ FixerInvalidAgain(c)
    BY <2>1 DEF FixerExecutes, FixerInvalidAgain
  <2>2. CASE ExecuteAnswered(c)
    BY <2>2 DEF ExecuteAnswered, ResultsOf, TypeOK
  <2>3. CASE FixerAnswers(c) \/ FixerGivesUp(c)
    BY <2>3 DEF FixerAnswers, FixerGivesUp, Answers, ResultsOf, repairVars, TypeOK
  <2>4. CASE FixerModelFails(c)
    BY <2>4 DEF FixerModelFails, Ends, repairVars
  <2> QED BY <1>4, <2>1, <2>2, <2>3, <2>4 DEF Fixer
<1> QED BY <1>1, <1>2, <1>3, <1>4 DEF Next, Over

\* THEOREM: whichever repairs run at the same time, a query is answered with rows
\* that it has read itself.
THEOREM RowsCorrect == Spec => []RowsAreTheCallsOwn
<1>1. Init => OwnRows
  BY DEF Init, OwnRows
<1>2. OwnRows => RowsAreTheCallsOwn
  BY DEF OwnRows, RowsAreTheCallsOwn
<1> QED BY <1>1, <1>2, NextOwnRows, AnalystTypeCorrect, PTL DEF Spec

-----------------------------------------------------------------------------
\* What is cut short ends the run, and a run that has ended stays as it is.
LEMMA NextEndsCleanly == TypeOK /\ EndsCleanly /\ [Next]_vars => EndsCleanly'
<1> SUFFICES ASSUME TypeOK, EndsCleanly, [Next]_vars PROVE EndsCleanly'
  OBVIOUS
<1> USE DEF EndsCleanly, Running
<1>1. CASE UNCHANGED vars
  BY <1>1 DEF vars
<1>2. CASE Agent
  <2>1. CASE NoOutput \/ GivesOutput \/ ModelFails
    BY <2>1 DEF NoOutput, GivesOutput, ModelFails, ModelsTurn, Ends
  <2>2. CASE AsksForTools \/ InvalidAgain \/ MessageDone
    BY <2>2 DEF AsksForTools, InvalidAgain, MessageDone, ModelsTurn
  <2> QED BY <1>2, <2>1, <2>2 DEF Agent
<1>3. ASSUME NEW c \in Calls, Tool(c) PROVE EndsCleanly'
  <2>1. CASE OverBudget(c) \/ Unreachable(c)
    BY <2>1 DEF OverBudget, Unreachable, Ends
  <2>2. CASE AnsweredAtOnce(c) \/ RunSqlQuery(c) \/ QueryAnswered(c) \/ QueryRefused(c) \/ Reconnects(c)
    BY <2>2 DEF AnsweredAtOnce, RunSqlQuery, QueryAnswered, QueryRefused, Reconnects
  <2> QED BY <1>3, <2>1, <2>2 DEF Tool
<1>4. ASSUME NEW c \in Calls, Fixer(c) PROVE EndsCleanly'
  <2>1. CASE FixerModelFails(c)
    BY <2>1 DEF FixerModelFails, FixerHasCalls, Ends
  <2>2. CASE \/ FixerExecutes(c) \/ ExecuteAnswered(c) \/ FixerAnswers(c)
             \/ FixerInvalidAgain(c) \/ FixerGivesUp(c)
    BY <2>2 DEF FixerExecutes, ExecuteAnswered, FixerAnswers, FixerInvalidAgain,
                FixerGivesUp, FixerHasCalls
  <2> QED BY <1>4, <2>1, <2>2 DEF Fixer
<1> QED BY <1>1, <1>2, <1>3, <1>4 DEF Next, Over

\* THEOREM: an analysis is made only from a run in which every tool call was
\* answered; a limit or an unreachable database ends it with an error.
THEOREM NothingMissingCorrect == Spec => []NothingMissing
<1>1. Init => EndsCleanly
  <2> SUFFICES ASSUME Init PROVE EndsCleanly
    OBVIOUS
  <2>1. Running /\ ~cut
    BY DEF Init, Running
  <2> QED BY <2>1 DEF EndsCleanly
<1>2. EndsCleanly => NothingMissing
  BY DEF EndsCleanly, NothingMissing
<1> QED BY <1>1, <1>2, NextEndsCleanly, AnalystTypeCorrect, PTL DEF Spec
=============================================================================
