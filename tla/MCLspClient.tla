----------------------------- MODULE MCLspClient -----------------------------
(* LspClient with two workers. *)
EXTENDS LspClient

CONSTANTS c1, c2, d

\* Both ask about one file.
OneDoc == [c \in {c1, c2} |-> d]
=============================================================================
