----------------------------- MODULE ModelClient -----------------------------
(***************************************************************************)
(* One client of the language model (llm/base.py) shared by the workers of *)
(* the pool.  A worker holds a tool conversation (llm/tools.py), asks for  *)
(* a verdict, and may do both again in a round of retrieval.  The provider *)
(* answers a request in any of the ways the code tells apart, or not at    *)
(* all, which the timeout turns into a transport error.                    *)
(***************************************************************************)
EXTENDS Naturals

CONSTANTS
  Workers,    \* threads of the pool
  MaxRetries, \* max_retries of the provider's profile
  MaxTurns,   \* of one tool conversation
  Rounds,     \* context_retrieval_rounds
  Ceiling     \* budget_usd, in the price of one answer

ASSUME ClientAssumption ==
  MaxRetries \in Nat /\ MaxTurns \in Nat \ {0} /\ Rounds \in Nat /\ Ceiling \in Nat

VARIABLES
  pc,       \* where a worker is
  entry,    \* the method its request came by: chat_tools or complete
  attempt,  \* of the retry loop
  longer,   \* the second call, with twice the output limit
  turns,    \* turns of the conversation
  rounds,   \* rounds of retrieval begun
  fatal,    \* fatal_error is set
  rejected, \* _native_tools_rejected
  spend,    \* spend_usd
  paid,     \* history: replies delivered, each of which the provider charges for
  late,     \* history: requests sent after the refusal, by worker
  over      \* history: turns answered after the ceiling was reached, by worker

vars == <<pc, entry, attempt, longer, turns, rounds, fatal, rejected, spend, paid, late, over>>
local  == <<turns, rounds>>
shared == <<fatal, rejected, spend, paid>>

Init ==
  /\ pc = [w \in Workers |-> "turn"] /\ entry = [w \in Workers |-> "none"]
  /\ attempt = [w \in Workers |-> 0] /\ longer = [w \in Workers |-> FALSE]
  /\ turns = [w \in Workers |-> 0] /\ rounds = [w \in Workers |-> 0]
  /\ fatal = FALSE /\ rejected = FALSE /\ spend = 0 /\ paid = 0
  /\ late = [w \in Workers |-> 0] /\ over = [w \in Workers |-> 0]

\* budget_left_usd <= 0.
Exhausted == spend >= Ceiling

Goto(w, place) == pc' = [pc EXCEPT ![w] = place]

-----------------------------------------------------------------------------
(* A request: _complete and _chat_tools, which differ in what they refuse. *)

\* complete and chat_tools: the first call, with the profile's output limit.
CallWith(w, method) ==
  /\ Goto(w, "call")
  /\ entry' = [entry EXCEPT ![w] = method]
  /\ longer' = [longer EXCEPT ![w] = FALSE]

\* The call returns or raises: its locals are gone.
Leave(w, place) ==
  /\ Goto(w, place)
  /\ entry' = [entry EXCEPT ![w] = "none"] /\ attempt' = [attempt EXCEPT ![w] = 0]
  /\ longer' = [longer EXCEPT ![w] = FALSE]

\* Where an exception takes the worker: a conversation keeps what it gathered and the
\* verdict is asked for; without a verdict the finding is over.
Fails(w) == Leave(w, IF entry[w] = "chat_tools" THEN "verdict" ELSE "done")

Attempts == MaxRetries + 1

Enter(w) ==
  /\ Goto(w, "post") /\ attempt' = [attempt EXCEPT ![w] = 1]
  /\ UNCHANGED <<entry, longer>>

RefuseOnlyTools(w) ==  \* fault
  /\ pc[w] = "call"
  /\ IF entry[w] = "chat_tools" /\ rejected THEN Fails(w) ELSE Enter(w)
  /\ UNCHANGED <<local, shared, late, over>>

\* supports_tools and _refuse_if_fatal, before the retry loop only.
Refusing(w) ==
  /\ pc[w] = "call"
  /\ IF fatal \/ (entry[w] = "chat_tools" /\ rejected) THEN Fails(w) ELSE Enter(w)
  /\ UNCHANGED <<local, shared, late, over>>

Post(w) ==
  /\ pc[w] = "post" /\ Goto(w, "wait")
  /\ late' = [late EXCEPT ![w] = IF fatal THEN @ + 1 ELSE @]
  /\ UNCHANGED <<entry, attempt, longer, local, shared, over>>

\* A reply that could be parsed: the only one whose price is added.
RecordSpend(w) ==
  /\ paid' = paid + 1 /\ spend' = spend + 1
  /\ over' = [over EXCEPT ![w] = IF Exhausted /\ entry[w] = "chat_tools" THEN @ + 1 ELSE @]

Answered(w) ==
  /\ pc[w] = "wait"
  /\ RecordSpend(w)
  /\ Leave(w, IF entry[w] = "chat_tools" THEN "calls" ELSE "judged")
  /\ turns' = [turns EXCEPT ![w] = IF entry[w] = "chat_tools" THEN @ + 1 ELSE @]
  /\ UNCHANGED <<rounds, fatal, rejected, late>>

\* LLMTruncated: once more with twice the limit; truncated again it goes to the caller.
Truncated(w) ==
  /\ pc[w] = "wait"
  /\ paid' = paid + 1
  /\ IF longer[w] THEN Fails(w)
                  ELSE /\ Goto(w, "call") /\ longer' = [longer EXCEPT ![w] = TRUE]
                       /\ attempt' = [attempt EXCEPT ![w] = 0] /\ UNCHANGED entry
  /\ UNCHANGED <<local, fatal, rejected, spend, late, over>>

RetryUncounted(w) ==  \* fault
  Goto(w, "post") /\ UNCHANGED <<entry, attempt, longer>>

\* The end of one attempt of the retry loop.
Retry(w) ==
  IF attempt[w] >= Attempts
    THEN Fails(w)
    ELSE /\ Goto(w, "post") /\ attempt' = [attempt EXCEPT ![w] = @ + 1]
         /\ UNCHANGED <<entry, longer>>

\* 408, 409, 425, 429, 5xx, a transport error or the timeout.
Retryable(w) ==
  /\ pc[w] = "wait" /\ Retry(w)
  /\ UNCHANGED <<local, shared, late, over>>

\* _UnparsableReply: delivered, and asked for again with a correction.
Unparsable(w) ==
  /\ pc[w] = "wait" /\ entry[w] = "complete" /\ Retry(w)
  /\ paid' = paid + 1
  /\ UNCHANGED <<local, fatal, rejected, spend, late, over>>

\* _auth_failure.
Unauthorized(w) ==
  /\ pc[w] = "wait" /\ Fails(w)
  /\ fatal' = TRUE
  /\ UNCHANGED <<local, rejected, spend, paid, late, over>>

\* A 400 that speaks of the tools.
ToolsRejected(w) ==
  /\ pc[w] = "wait" /\ entry[w] = "chat_tools" /\ Fails(w)
  /\ rejected' = TRUE
  /\ UNCHANGED <<local, fatal, spend, paid, late, over>>

\* Every other 4xx, or a body without choices.
Failed(w) ==
  /\ pc[w] = "wait" /\ Fails(w)
  /\ UNCHANGED <<local, shared, late, over>>

-----------------------------------------------------------------------------
(* run_tool_loop, the verdict and the rounds of _triage_one. *)

TurnGatedOnce(w) ==  \* fault
  /\ pc[w] = "turn"
  /\ IF Exhausted /\ turns[w] = 0
       THEN Goto(w, "verdict") /\ UNCHANGED <<entry, longer>>
       ELSE CallWith(w, "chat_tools")
  /\ UNCHANGED <<attempt, local, shared, late, over>>

\* The top of the loop, with turns left: what is left of the ceiling is read every time.
Turn(w) ==
  /\ pc[w] = "turn"
  /\ IF Exhausted
       THEN Goto(w, "verdict") /\ UNCHANGED <<entry, longer>>
       ELSE CallWith(w, "chat_tools")
  /\ UNCHANGED <<attempt, local, shared, late, over>>

\* run_calls, when the turn asks for any: the loop goes on, or its questions are used up.
Calls(w) ==
  /\ pc[w] = "calls"
  /\ \/ turns[w] < MaxTurns /\ Goto(w, "turn")
     \/ Goto(w, "verdict")
  /\ UNCHANGED <<entry, attempt, longer, local, shared, late, over>>

\* The verdict is asked for whatever is left of the ceiling.
Verdict(w) ==
  /\ pc[w] = "verdict"
  /\ CallWith(w, "complete")
  /\ UNCHANGED <<attempt, local, shared, late, over>>

\* A conversation that brought nothing and failed: in a round the last verdict stands,
\* and the refusal is passed on.
NotAsked(w) ==
  /\ pc[w] = "verdict" /\ (fatal \/ rounds[w] > 0)
  /\ Goto(w, "done")
  /\ UNCHANGED <<entry, attempt, longer, local, shared, late, over>>

\* The verdict is final, or unknown and another round is begun.
Judged(w) ==
  /\ pc[w] = "judged"
  /\ \/ /\ Goto(w, "done") /\ UNCHANGED local
     \/ /\ rounds[w] < Rounds /\ ~Exhausted
        /\ rounds' = [rounds EXCEPT ![w] = @ + 1] /\ turns' = [turns EXCEPT ![w] = 0]
        /\ Goto(w, "turn")
  /\ UNCHANGED <<entry, attempt, longer, shared, late, over>>

Rest == (\A w \in Workers : pc[w] = "done") /\ UNCHANGED vars

Step(w) ==
  \/ Refusing(w) \/ Post(w)
  \/ Answered(w) \/ Truncated(w) \/ Retryable(w) \/ Unparsable(w)
  \/ Unauthorized(w) \/ ToolsRejected(w) \/ Failed(w)
  \/ Turn(w) \/ Calls(w) \/ Verdict(w) \/ NotAsked(w) \/ Judged(w)

Next == Rest \/ \E w \in Workers : Step(w)

\* Every request has a timeout and every wait of the retry loop a length.
Spec == Init /\ [][Next]_vars /\ \A w \in Workers : WF_vars(Step(w))

-----------------------------------------------------------------------------
(* Properties. *)

Places == {"turn", "call", "post", "wait", "calls", "verdict", "judged", "done"}

TypeOK ==
  /\ pc \in [Workers -> Places]
  /\ entry \in [Workers -> {"none", "chat_tools", "complete"}]
  /\ attempt \in [Workers -> 0..Attempts]
  /\ longer \in [Workers -> BOOLEAN]
  /\ turns \in [Workers -> 0..MaxTurns] /\ rounds \in [Workers -> 0..Rounds]
  /\ fatal \in BOOLEAN /\ rejected \in BOOLEAN
  /\ spend \in Nat /\ paid \in Nat
  /\ late \in [Workers -> Nat] /\ over \in [Workers -> Nat]

\* After the provider refused the credentials a worker sends no more than what is left
\* of the retries of the one call it was in: no call begins, whatever the conversation,
\* the verdict or the longer second try would ask for next.
RefusalEndsCalls == \A w \in Workers : late[w] <= Attempts

\* When the ceiling is reached, each worker has at most one turn of a conversation
\* answered beyond it, however many workers read the ceiling at once.
OneTurnOver == \A w \in Workers : over[w] <= 1

\* Every finding is done with the model, whatever the provider answers or leaves out.
EveryFindingEnds == \A w \in Workers : <>(pc[w] = "done")

\* budget_left_usd is "what is left of the run's ceiling": nothing that was delivered
\* and charged for is missing from the total.
NothingUncounted == spend = paid
=============================================================================
