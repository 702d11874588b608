------------------------------ MODULE MCPsalmApi ------------------------------
(* PsalmApi with two findings of one project. *)
EXTENDS PsalmApi

CONSTANTS a1, a2, m1, m2, u1

\* Both ask about m2, a function: a1 needs no call index.  a2 asks about m1 too, which is
\* a function or not.
MCWants == [t \in {a1, a2} |-> IF t = a1 THEN {m2} ELSE {m1, m2}]
=============================================================================
