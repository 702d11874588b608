------------------------------- MODULE MCEngine -------------------------------
EXTENDS Engine
CONSTANTS w1, w2, main
MCWorkers   == {w1, w2}
MCFunctions == {"load", "loadAll"}
MCResolved  == {"load"}
MCProjects  == {
  [imported |-> FALSE, called |-> {}, reached |-> {}],
  [imported |-> TRUE, called |-> {"load"}, reached |-> {}],
  [imported |-> TRUE, called |-> {"load", "loadAll"}, reached |-> {"loadAll"}]}
=============================================================================
