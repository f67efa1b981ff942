--------------------------- MODULE ContextAgreement ---------------------------
(***************************************************************************)
(* What the calls that resolve a control context agree on: of each release *)
(* and generation one context is chosen, once and for all, by a call that  *)
(* is under way, and each call that returns does so with the one of the    *)
(* generation it began in.                                                 *)
(***************************************************************************)
EXTENDS Naturals

CONSTANTS Calls, ReleaseOf, Generations, NoContext

VARIABLES generation, cache, gen, outcome, result

agreement == <<generation, cache, gen, outcome, result>>

Key(c) == <<ReleaseOf[c], gen[c]>>

AgreementInit ==
    /\ generation = 0
    /\ cache = [k \in {ReleaseOf[c] : c \in Calls} \X Generations |-> NoContext]
    /\ gen = [c \in Calls |-> 0]
    /\ outcome = [c \in Calls |-> "asked"]
    /\ result = [c \in Calls |-> NoContext]

Turns(c, from, to) == outcome[c] = from /\ outcome' = [outcome EXCEPT ![c] = to]

Begin(c) ==
    /\ Turns(c, "asked", "waiting")
    /\ gen' = [gen EXCEPT ![c] = generation]
    /\ UNCHANGED <<generation, cache, result>>

\* Whatever becomes of the call that has built it.
Choose(c, context) ==
    /\ outcome[c] = "waiting"
    /\ cache[Key(c)] = NoContext
    /\ cache' = [cache EXCEPT ![Key(c)] = context]
    /\ UNCHANGED <<generation, gen, outcome, result>>

Return(c) ==
    /\ Turns(c, "waiting", "returned")
    /\ cache[Key(c)] # NoContext
    /\ result' = [result EXCEPT ![c] = cache[Key(c)]]
    /\ UNCHANGED <<generation, cache, gen>>

GiveUp(c) ==
    /\ Turns(c, "asked", "failed") \/ Turns(c, "waiting", "failed")
    /\ UNCHANGED <<generation, cache, gen, result>>

Advance ==
    /\ generation' = generation + 1
    /\ UNCHANGED <<cache, gen, outcome, result>>

AgreementNext ==
    \/ \E c \in Calls :
          Begin(c) \/ Choose(c, cache'[Key(c)]) \/ Return(c) \/ GiveUp(c)
    \/ Advance

AgreementSpec == AgreementInit /\ [][AgreementNext]_agreement
===============================================================================
