---------------------------- MODULE MCTriageRun ----------------------------
(* TriageRun on a small input. *)
EXTENDS TriageRun

CONSTANTS f1, f2, f3

MCFindings == {f1, f2, f3}

\* Every finding its own id.
OwnName == [f \in MCFindings |-> f]

\* f1 and f2 are of one rule in one file.
OneFile == [f \in MCFindings |-> IF f = f3 THEN f3 ELSE f1]

\* The edit of f2 is beside its snippet, those of f1 and f3 are in it.
OwnSnippet == [f \in MCFindings |-> [n \in 0..1 |-> IF f = f2 THEN <<f>> ELSE <<f, n>>]]

\* Two findings the scanners gave one id.
SharedId == [OwnName EXCEPT ![f2] = f1]
=============================================================================
