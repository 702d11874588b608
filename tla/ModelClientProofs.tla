-------------------------- MODULE ModelClientProofs --------------------------
(***************************************************************************)
(* What ModelClient keeps for any number of workers, retries, turns and    *)
(* rounds, and any ceiling.                                                *)
(***************************************************************************)
EXTENDS ModelClient, TLAPS

\* A worker is in a call from the check of the refusal to its end.
InCall(w) == pc[w] \in {"call", "post", "wait"}

\* What a worker is doing says which entry its request has and how many attempts it made.
CallInv ==
  \A w \in Workers :
    /\ InCall(w) => entry[w] \in {"chat_tools", "complete"}
    /\ ~InCall(w) => entry[w] = "none" /\ attempt[w] = 0
    /\ pc[w] \in {"post", "wait"} => attempt[w] \in 1..Attempts
    /\ entry[w] = "chat_tools" => turns[w] < MaxTurns
    /\ pc[w] = "turn" => turns[w] < MaxTurns

\* The requests sent after the refusal are attempts of the call it fell into.
LateInv ==
  /\ ~fatal => \A w \in Workers : late[w] = 0
  /\ \A w \in Workers :
       /\ pc[w] = "post" => late[w] < attempt[w]
       /\ pc[w] = "wait" => late[w] <= attempt[w]
       /\ late[w] <= Attempts

\* No turn begins once the ceiling is reached, so that one which is answered then is the last.
OverInv ==
  /\ ~Exhausted => \A w \in Workers : over[w] = 0
  /\ \A w \in Workers : over[w] <= 1 /\ (entry[w] = "chat_tools" => over[w] = 0)

ClientInv == TypeOK /\ CallInv /\ LateInv /\ OverInv

-----------------------------------------------------------------------------
(* One lemma for each part of the invariant. *)

LEMMA InitInv == Init => ClientInv
<1> SUFFICES ASSUME Init PROVE ClientInv
  OBVIOUS
<1> USE ClientAssumption DEF Init
<1>1. TypeOK
  <2>1. pc \in [Workers -> Places] /\ entry \in [Workers -> {"none", "chat_tools", "complete"}]
    BY DEF Places
  <2>2. attempt \in [Workers -> 0..Attempts] /\ longer \in [Workers -> BOOLEAN]
    BY DEF Attempts
  <2>3. turns \in [Workers -> 0..MaxTurns] /\ rounds \in [Workers -> 0..Rounds]
    BY DEF Attempts
  <2> QED
    BY <2>1, <2>2, <2>3 DEF TypeOK
<1>2. CallInv /\ LateInv /\ OverInv
  BY DEF CallInv, LateInv, OverInv, InCall, Attempts
<1> QED
  BY <1>1, <1>2 DEF ClientInv

LEMMA StepInv ==
  ASSUME ClientInv, NEW w \in Workers, Step(w)
  PROVE  ClientInv'
<1> USE ClientAssumption
<1>0. TypeOK /\ CallInv /\ LateInv /\ OverInv
  BY DEF ClientInv
<1> USE DEF TypeOK, CallInv, LateInv, OverInv, InCall, Places, Attempts, Exhausted,
            local, shared
<1>1. CASE Refusing(w)
  <2>1. TypeOK'
    <3>1. pc' \in [Workers -> Places]
      BY <1>0, <1>1 DEF Refusing, Fails, Leave, Goto, Enter
    <3>2. entry' \in [Workers -> {"none", "chat_tools", "complete"}]
      BY <1>0, <1>1 DEF Refusing, Fails, Leave, Goto, Enter
    <3>3. attempt' \in [Workers -> 0..Attempts]
      BY <1>0, <1>1 DEF Refusing, Fails, Leave, Goto, Enter
    <3>4. longer' \in [Workers -> BOOLEAN]
      BY <1>0, <1>1 DEF Refusing, Fails, Leave, Goto, Enter
    <3> QED
      BY <3>1, <3>2, <3>3, <3>4, <1>0, <1>1 DEF Refusing, Fails, Leave, Goto, Enter
  <2>2. CallInv'
    BY <1>0, <1>1 DEF Refusing, Fails, Leave, Goto, Enter
  <2>3. LateInv'
    BY <1>0, <1>1 DEF Refusing, Fails, Leave, Goto, Enter
  <2>4. OverInv'
    BY <1>0, <1>1 DEF Refusing, Fails, Leave, Goto, Enter
  <2> QED
    BY <2>1, <2>2, <2>3, <2>4 DEF ClientInv
<1>2. CASE Post(w)
  BY <1>0, <1>2 DEF ClientInv, Post, Goto
<1>3. CASE Answered(w)
  BY <1>0, <1>3 DEF ClientInv, Answered, RecordSpend, Leave, Goto
<1>4. CASE Truncated(w)
  <2>1. TypeOK'
    <3>1. pc' \in [Workers -> Places]
      BY <1>0, <1>4 DEF Truncated, Fails, Leave, Goto
    <3>2. entry' \in [Workers -> {"none", "chat_tools", "complete"}]
      BY <1>0, <1>4 DEF Truncated, Fails, Leave, Goto
    <3>3. attempt' \in [Workers -> 0..Attempts]
      BY <1>0, <1>4 DEF Truncated, Fails, Leave, Goto
    <3>4. longer' \in [Workers -> BOOLEAN]
      BY <1>0, <1>4 DEF Truncated, Fails, Leave, Goto
    <3> QED
      BY <3>1, <3>2, <3>3, <3>4, <1>0, <1>4 DEF Truncated, Fails, Leave, Goto
  <2>2. CallInv'
    BY <1>0, <1>4 DEF Truncated, Fails, Leave, Goto
  <2>3. LateInv'
    BY <1>0, <1>4 DEF Truncated, Fails, Leave, Goto
  <2>4. OverInv'
    BY <1>0, <1>4 DEF Truncated, Fails, Leave, Goto
  <2> QED
    BY <2>1, <2>2, <2>3, <2>4 DEF ClientInv
<1>5. CASE Retryable(w)
  <2>1. TypeOK'
    <3>1. pc' \in [Workers -> Places]
      BY <1>0, <1>5 DEF Retryable, Retry, Fails, Leave, Goto
    <3>2. entry' \in [Workers -> {"none", "chat_tools", "complete"}]
      BY <1>0, <1>5 DEF Retryable, Retry, Fails, Leave, Goto
    <3>3. attempt' \in [Workers -> 0..Attempts]
      BY <1>0, <1>5 DEF Retryable, Retry, Fails, Leave, Goto
    <3>4. longer' \in [Workers -> BOOLEAN]
      BY <1>0, <1>5 DEF Retryable, Retry, Fails, Leave, Goto
    <3> QED
      BY <3>1, <3>2, <3>3, <3>4, <1>0, <1>5 DEF Retryable, Retry, Fails, Leave, Goto
  <2>2. CallInv'
    BY <1>0, <1>5 DEF Retryable, Retry, Fails, Leave, Goto
  <2>3. LateInv'
    BY <1>0, <1>5 DEF Retryable, Retry, Fails, Leave, Goto
  <2>4. OverInv'
    BY <1>0, <1>5 DEF Retryable, Retry, Fails, Leave, Goto
  <2> QED
    BY <2>1, <2>2, <2>3, <2>4 DEF ClientInv
<1>6. CASE Unparsable(w)
  <2>1. TypeOK'
    <3>1. pc' \in [Workers -> Places]
      BY <1>0, <1>6 DEF Unparsable, Retry, Fails, Leave, Goto
    <3>2. entry' \in [Workers -> {"none", "chat_tools", "complete"}]
      BY <1>0, <1>6 DEF Unparsable, Retry, Fails, Leave, Goto
    <3>3. attempt' \in [Workers -> 0..Attempts]
      BY <1>0, <1>6 DEF Unparsable, Retry, Fails, Leave, Goto
    <3>4. longer' \in [Workers -> BOOLEAN]
      BY <1>0, <1>6 DEF Unparsable, Retry, Fails, Leave, Goto
    <3> QED
      BY <3>1, <3>2, <3>3, <3>4, <1>0, <1>6 DEF Unparsable, Retry, Fails, Leave, Goto
  <2>2. CallInv'
    BY <1>0, <1>6 DEF Unparsable, Retry, Fails, Leave, Goto
  <2>3. LateInv'
    BY <1>0, <1>6 DEF Unparsable, Retry, Fails, Leave, Goto
  <2>4. OverInv'
    BY <1>0, <1>6 DEF Unparsable, Retry, Fails, Leave, Goto
  <2> QED
    BY <2>1, <2>2, <2>3, <2>4 DEF ClientInv
<1>7. CASE Unauthorized(w)
  BY <1>0, <1>7 DEF ClientInv, Unauthorized, Fails, Leave, Goto
<1>8. CASE ToolsRejected(w)
  BY <1>0, <1>8 DEF ClientInv, ToolsRejected, Fails, Leave, Goto
<1>9. CASE Failed(w)
  BY <1>0, <1>9 DEF ClientInv, Failed, Fails, Leave, Goto
<1>10. CASE Turn(w)
  <2>1. TypeOK'
    <3>1. pc' \in [Workers -> Places]
      BY <1>0, <1>10 DEF Turn, CallWith, Goto
    <3>2. entry' \in [Workers -> {"none", "chat_tools", "complete"}]
      BY <1>0, <1>10 DEF Turn, CallWith, Goto
    <3>3. attempt' \in [Workers -> 0..Attempts]
      BY <1>0, <1>10 DEF Turn, CallWith, Goto
    <3>4. longer' \in [Workers -> BOOLEAN]
      BY <1>0, <1>10 DEF Turn, CallWith, Goto
    <3> QED
      BY <3>1, <3>2, <3>3, <3>4, <1>0, <1>10 DEF Turn, CallWith, Goto
  <2>2. CallInv'
    BY <1>0, <1>10 DEF Turn, CallWith, Goto
  <2>3. LateInv'
    BY <1>0, <1>10 DEF Turn, CallWith, Goto
  <2>4. OverInv'
    BY <1>0, <1>10 DEF Turn, CallWith, Goto
  <2> QED
    BY <2>1, <2>2, <2>3, <2>4 DEF ClientInv
<1>11. CASE Calls(w)
  BY <1>0, <1>11 DEF ClientInv, Calls, Goto
<1>12. CASE Verdict(w)
  BY <1>0, <1>12 DEF ClientInv, Verdict, CallWith, Goto
<1>13. CASE Judged(w)
  BY <1>0, <1>13 DEF ClientInv, Judged, Goto
<1>14. CASE NotAsked(w)
  BY <1>0, <1>14 DEF ClientInv, NotAsked, Goto
<1> QED
  BY <1>1, <1>2, <1>3, <1>4, <1>5, <1>6, <1>7, <1>8, <1>9, <1>10, <1>11, <1>12, <1>13, <1>14 DEF Step

LEMMA NextInv == ClientInv /\ [Next]_vars => ClientInv'
<1> SUFFICES ASSUME ClientInv, [Next]_vars PROVE ClientInv'
  OBVIOUS
<1>1. CASE \E w \in Workers : Step(w)
  BY <1>1, StepInv
<1>2. CASE UNCHANGED vars
  BY <1>2 DEF ClientInv, TypeOK, CallInv, LateInv, OverInv, InCall, Exhausted, vars, Places
<1> QED
  BY <1>1, <1>2 DEF Next, Rest

LEMMA Invariance == Spec => []ClientInv
BY InitInv, NextInv, PTL DEF Spec

-----------------------------------------------------------------------------
(* The theorems. *)

\* Every worker is somewhere in its conversation, with a number of attempts the retry loop allows.
THEOREM ClientTypes == Spec => []TypeOK
BY Invariance, PTL DEF ClientInv

\* Whatever the answers and whoever they reach, the refusal of the credentials (llm/base.py,
\* _auth_failure) leaves each worker only the attempts of the call it was in.
THEOREM RefusalSpreads == Spec => []RefusalEndsCalls
<1>1. ClientInv => RefusalEndsCalls
  BY DEF ClientInv, LateInv, RefusalEndsCalls
<1> QED
  BY <1>1, Invariance, PTL

\* The check of the ceiling before each turn (llm/tools.py, run_tool_loop) lets every worker pass it
\* by one turn at most.
THEOREM CeilingPassedOnce == Spec => []OneTurnOver
<1>1. ClientInv => OneTurnOver
  BY DEF ClientInv, OverInv, OneTurnOver
<1> QED
  BY <1>1, Invariance, PTL
=============================================================================
