---------------------------- MODULE MCInvestigation ----------------------------
EXTENDS Investigation, TLC
CONSTANTS t1, t2
MCThreads    == {t1, t2}
MCSymmetry   == Permutations(MCThreads)
MCFunctions  == {"load", "loadAll", "safeLoad"}
MCEntries    == {"load", "loadAll", "safeLoad"}
MCUnaffected == {"safeLoad"}
Project(called, reached, used, framework) ==
  [called |-> called, reached |-> reached, used |-> used, framework |-> framework]
MCProjects == {
  Project({}, {}, "no", FALSE),
  Project({}, {}, "yes", TRUE),
  Project({"safeLoad"}, {"safeLoad"}, "yes", FALSE),
  Project({"load", "loadAll"}, {"loadAll"}, "yes", FALSE),
  Project({"loadAll"}, {}, "yes", FALSE)}
================================================================================
