------------------------------ MODULE MCCodeWalk ------------------------------
(* Three windows, room for two of them: one the finding is at, and one a pattern matches; *)
(* another pattern matches none, and a third is refused.  Two questions to a turn, three  *)
(* in all.                                                                                *)
EXTENDS CodeWalk

MCWindows == {"w1", "w2", "w3"}
MCPatterns == {"p", "q", "empty"}
MCHits == [p |-> {"w1", "w2"}, q |-> {}, empty |-> {}]
MCRefusal == [empty |-> "rejected"]
MCLocated == {"w1"}
=============================================================================
