---------------------------- MODULE MCModelClient ----------------------------
(* Two workers, one retry, two turns, one round; the second answer reaches the ceiling. *)
EXTENDS ModelClient

CONSTANTS a, b
MCWorkers == {a, b}
=============================================================================
