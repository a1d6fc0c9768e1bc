-------------------------------- MODULE LlmCall --------------------------------
(* llm/ and utils/: a question to a language model, its retries, and what it *)
(* costs.  budget_guard.py counts in a ContextVar: a thread or an event loop *)
(* counts in a copy, which is dropped with it.                               *)
EXTENDS Integers

CONSTANTS
    Contexts,       \* copies of the ContextVar in which questions are put
    Threads,        \* those of them that end with their one question
    MaxTries,       \* stop_after_attempt of a chat()
    MaxTurns,       \* max_retries + 1 of a chat_json()
    Budget,         \* RUN_BUDGET_USD; 0 is no limit
    Costs           \* what one reply can cost

ASSUME LlmCallAssumption ==
    /\ Threads \subseteq Contexts
    /\ MaxTries \in Nat \ {0} /\ MaxTurns \in Nat \ {0}
    /\ Budget \in Nat /\ Costs \subseteq Nat

VARIABLES
    call,           \* per context: the question under way
    answer,         \* per context: what came of the last one
    spent,          \* per context: _RUN_SPENT, up to one above the budget
    keyed           \* both relay keys are configured

llm == <<call, answer, spent, keyed>>

Kinds == {"chat", "json", "embed"}
Idle == [kind |-> "none", tries |-> 0, turn |-> 0]
Calls == {Idle} \union [kind : Kinds, tries : 1..MaxTries, turn : 1..MaxTurns]
\* "failed" raises where the caller's try is; "bad" outside of it: no client,
\* or JSON of another shape than the code reads.
Answers == {"none", "ok", "failed", "bad"}

LlmOK ==
    /\ call \in [Contexts -> Calls]
    /\ answer \in [Contexts -> Answers]
    /\ spent \in [Contexts -> 0..Budget + 1]
    /\ keyed \in BOOLEAN

LlmInit ==
    /\ call = [c \in Contexts |-> Idle]
    /\ answer = [c \in Contexts |-> "none"]
    /\ spent = [c \in Contexts |-> 0]
    /\ keyed \in BOOLEAN

-----------------------------------------------------------------------------
\* get_llm and the call, in each of the contexts: without the keys there is no
\* client.  What earlier questions answered has been read.
AskAll(C, kind) ==
    /\ \A c \in C : call[c] = Idle
    /\ call' = [c \in Contexts |-> IF c \in C /\ keyed
          THEN [kind |-> kind, tries |-> 1, turn |-> 1] ELSE call[c]]
    /\ answer' = [c \in Contexts |-> IF c \in C /\ ~keyed THEN "bad" ELSE "none"]
    /\ UNCHANGED keyed
Ask(c, kind) == AskAll({c}, kind)

Got(c, results) == call[c] = Idle /\ answer[c] \in results

\* charge(): the run is charged after the fact, and then raises.
Exceeds(c, cost) == Budget > 0 /\ spent[c] + cost > Budget
Total(c, cost) ==
    IF Budget = 0 THEN 0 ELSE IF Exceeds(c, cost) THEN Budget + 1 ELSE spent[c] + cost

\* track() charges whatever came of an attempt.
Again(c, cost, next) ==
    /\ call' = [call EXCEPT ![c] = next]
    /\ spent' = [spent EXCEPT ![c] = Total(c, cost)]
    /\ UNCHANGED <<answer, keyed>>
Settle(c, cost, a) ==
    /\ call' = [call EXCEPT ![c] = Idle]
    /\ answer' = [answer EXCEPT ![c] = a]
    /\ spent' = [spent EXCEPT ![c] = IF c \in Threads THEN 0 ELSE Total(c, cost)]
    /\ UNCHANGED keyed

\* chat(): a rate limit is tried again, an embedding is not.
RateLimited(c) ==
    /\ call[c] # Idle
    /\ \/ /\ call[c].kind # "embed" /\ call[c].tries < MaxTries /\ ~Exceeds(c, 0)
          /\ Again(c, 0, [call[c] EXCEPT !.tries = @ + 1])
       \/ /\ call[c].kind = "embed" \/ call[c].tries = MaxTries \/ Exceeds(c, 0)
          /\ Settle(c, 0, "failed")

\* AuthenticationError, APIError: LLMAuthError or LLMError at once.
Fails(c) == call[c] # Idle /\ Settle(c, 0, "failed")

\* A reply past the budget is paid for and lost.
TooLate(c, cost) == call[c] # Idle /\ Exceeds(c, cost) /\ Settle(c, cost, "failed")

Replies(c, cost) ==
    /\ call[c] # Idle /\ ~Exceeds(c, cost)
    /\ \/ Settle(c, cost, "ok")
       \/ call[c].kind = "json" /\ Settle(c, cost, "bad")

\* chat_json(): what does not parse goes back to the model, in a new chat().
Garbled(c, cost) ==
    /\ call[c].kind = "json" /\ ~Exceeds(c, cost)
    /\ \/ /\ call[c].turn < MaxTurns
          /\ Again(c, cost, [call[c] EXCEPT !.turn = @ + 1, !.tries = 1])
       \/ call[c].turn = MaxTurns /\ Settle(c, cost, "failed")

Provider(c) ==
    \/ RateLimited(c) \/ Fails(c)
    \/ \E cost \in Costs : TooLate(c, cost) \/ Replies(c, cost) \/ Garbled(c, cost)
=============================================================================
