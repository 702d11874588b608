------------------------------ MODULE SingleFlight ------------------------------
(***************************************************************************)
(* What ChainSupport._once (sca/chain/support.py) promises of a question   *)
(* that several findings ask at once: one of them works on it at a time,   *)
(* what it finds is kept, and everyone is given that.                      *)
(***************************************************************************)
CONSTANTS
  Askers,
  Keys,
  Values,   \* what a computation may come to
  NoValue   \* and what a key has before

VARIABLES
  value,   \* of each key, once somebody found it
  working, \* the askers that compute a key: never two
  given    \* what an asker was given last

flight == <<value, working, given>>

Init ==
  /\ value = [k \in Keys |-> NoValue]
  /\ working = [k \in Keys |-> {}]
  /\ given = [a \in Askers |-> NoValue]

Begin(a, k) ==
  /\ value[k] = NoValue /\ working[k] = {}
  /\ working' = [working EXCEPT ![k] = {a}]
  /\ UNCHANGED <<value, given>>

Settle(a, k, v) ==
  /\ working[k] = {a} /\ value[k] = NoValue
  /\ value' = [value EXCEPT ![k] = v]
  /\ working' = [working EXCEPT ![k] = {}]
  /\ UNCHANGED given

\* The computation raised: the next one who asks tries again.
Abandon(a, k) ==
  /\ working[k] = {a}
  /\ working' = [working EXCEPT ![k] = {}]
  /\ UNCHANGED <<value, given>>

Take(a, k) ==
  /\ value[k] # NoValue
  /\ given' = [given EXCEPT ![a] = value[k]]
  /\ UNCHANGED <<value, working>>

Forget(a) ==
  /\ given' = [given EXCEPT ![a] = NoValue]
  /\ UNCHANGED <<value, working>>

Next ==
  \E a \in Askers :
    \/ Forget(a)
    \/ \E k \in Keys :
         \/ Begin(a, k) \/ Abandon(a, k) \/ Take(a, k)
         \/ \E v \in Values : Settle(a, k, v)

Spec == Init /\ [][Next]_flight
=============================================================================
