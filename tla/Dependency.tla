------------------------------ MODULE Dependency ------------------------------
(***************************************************************************)
(* What a dependency finding comes to without the model: the outcome of    *)
(* the chain of checks (sca/chain/orchestration.py, sca/verdict.py) and    *)
(* the policy over it (sca/policy.py).  Both are pure: they take what the  *)
(* checks found, a record of Facts, to an outcome and a rule.  How a check *)
(* finds its fact (searches, CodeQL, the language server, the model) is    *)
(* outside; every answer it can give is a value of its field.              *)
(***************************************************************************)
EXTENDS Naturals

\* CVEVerdict.
Outcomes == {"infrastructure", "not_shipped", "unused", "condition_absent", "actual", "present",
             "only_in_tests", "test_only_import", "call_unconfirmed", "mentioned",
             "not_applicable", "no_direct_call", "wrong_receiver", "not_reached", "not_called",
             "version_unaffected", "undecided"}

Labels     == {"confirmed", "false_positive", "unknown"}
Priorities == {"critical", "high", "medium", "low", "none"}
Severities == {"critical", "high", "low"}  \* "low": every other one

FactRecords == [
  version   : {"unaffected", "affected", "unclear", "no_answer"}, \* no_answer: no database
  shipped   : {"unknown", "runtime", "build_only", "image_only"},
  excluded  : BOOLEAN,    \* a component the deployment owns
  graph     : {"none", "reached", "lowered", "unreached"}, \* the call graph; lowered: its call
  go        : BOOLEAN,    \* and it is Go's, with a trace
  audit     : {"passed", "reopened", "failed"}, \* of the closure's blind spot: failed, not run
  receiver  : BOOLEAN,    \* the language server put every call outside the package
  flow      : {"found", "absent", "open"}, \* input into the call
  driven    : BOOLEAN,    \* the flaw needs input
  used      : {"yes", "no", "tests", "open"},             \* the package is named in the code
  path      : {"unlisted", "imported", "absent", "open"}, \* the advisory's import paths
  direct    : BOOLEAN,
  condition : {"none", "holds", "text_absent", "absent", "infrastructure", "external"},
  uncalled  : BOOLEAN,    \* a resolving tool found no caller, and that held
  symbol    : {"undistributed", "unusable", "usable"},
  found     : {"unsearched", "absent", "unconfirmed", "referenced", "tests", "called"},
  reach     : BOOLEAN,    \* reachable from an entry point
  named     : BOOLEAN,    \* the vulnerable function's name is known
  bound     : BOOLEAN,    \* and what the code calls is it, or a public entry to it
  missing   : BOOLEAN,    \* it is not in the installed version
  evidence  : {"none", "name", "import", "engine"}, \* call_evidence
  resolved  : BOOLEAN,    \* not by a text search without a call site alone
  bridge    : {"none", "unchecked", "calls", "no"}, \* through a parent package
  build     : BOOLEAN,    \* is_build_risk
  gadget    : BOOLEAN]    \* needs_other_vulnerability

\* What one check leaves open for the next, or takes away from it.
Agree(c) ==
  /\ c.direct /\ c.path \in {"imported", "absent"} => c.used = "open"
  /\ c.reach => c.found = "called" /\ c.flow = "open" /\ c.driven
  /\ c.bridge # "none" => c.named /\ ~c.direct
  /\ c.bridge = "no" => c.found = "absent" /\ ~c.uncalled
  /\ c.bound => c.named
  /\ c.named => c.symbol # "unusable"
  /\ c.found \in {"unsearched", "absent"} => c.evidence = "none"
  /\ c.go => c.graph # "none"

Facts == {c \in FactRecords : Agree(c)}

-----------------------------------------------------------------------------
(* The chain. *)

\* Which closure the chain has its blind spot checked for, and by that check's kind.
Rechecked(c) ==
  IF c.graph = "unreached" THEN "not_reached"
  ELSE IF c.receiver THEN "wrong_receiver"
  ELSE IF c.shipped = "build_only" THEN "not_shipped"
  ELSE IF c.used = "tests" /\ c.direct THEN "test_only"
  ELSE IF c.graph = "none" /\ c.flow = "absent" /\ c.driven THEN "no_input_path"
  ELSE IF c.path = "absent" \/ c.used \in {"no", "tests"} THEN "unused"
  ELSE IF c.found = "tests" THEN "only_in_tests"
  ELSE "none"

Audited(c, kind) == c.audit = "passed" /\ Rechecked(c) = kind

CloseUnasked(c, outcome, kind) == IF c.audit # "reopened" THEN outcome ELSE "present" \* fault
\* _unchecked: the closure without its check is not one.
Closing(c, outcome, kind) == IF Audited(c, kind) THEN outcome ELSE "present"

\* verdict.decide, from its last questions to its first.  With a call graph's answer:
ByGraph(c) ==
  IF c.graph = "unreached" THEN Closing(c, "not_reached", "not_reached")
  ELSE IF c.graph = "lowered" /\ c.flow # "found" THEN "condition_absent"
  ELSE "actual"

BySymbol(c) ==
  IF c.symbol = "undistributed" THEN "not_applicable"
  ELSE IF c.symbol = "unusable" \/ c.found = "unsearched" THEN "undecided"
  ELSE IF c.found \in {"absent", "referenced"} /\ c.uncalled THEN "not_called"
  ELSE IF c.found = "absent" THEN "no_direct_call"
  ELSE IF c.found = "unconfirmed" THEN "call_unconfirmed"
  ELSE IF c.found = "referenced" THEN "mentioned"
  ELSE IF c.found = "tests" THEN Closing(c, "only_in_tests", "only_in_tests")
  ELSE IF c.reach THEN "actual"
  ELSE "present"

ByCondition(c) ==
  IF c.condition = "text_absent" THEN IF c.uncalled THEN "not_called" ELSE "present"
  ELSE IF c.condition = "absent" THEN "condition_absent"
  ELSE IF c.condition = "infrastructure" THEN "infrastructure"
  ELSE BySymbol(c)

ByUsage(c) ==
  IF c.used = "tests" /\ c.direct THEN Closing(c, "test_only_import", "test_only")
  ELSE IF c.flow = "absent" /\ c.driven THEN Closing(c, "condition_absent", "no_input_path")
  ELSE IF c.path = "absent" /\ c.direct THEN Closing(c, "unused", "unused")
  ELSE IF c.path = "imported" /\ c.symbol # "usable" THEN "actual"
  ELSE IF c.used \in {"no", "tests"}
         THEN IF c.direct THEN Closing(c, "unused", "unused") ELSE "no_direct_call"
  ELSE ByCondition(c)

Decide(c) ==
  IF c.graph # "none" THEN ByGraph(c)
  ELSE IF c.audit = "reopened" /\ Rechecked(c) # "none" THEN "present"
  ELSE IF c.receiver THEN Closing(c, "wrong_receiver", "wrong_receiver")
  ELSE IF c.shipped = "build_only" THEN Closing(c, "not_shipped", "not_shipped")
  ELSE IF c.flow = "found" THEN "actual"
  ELSE ByUsage(c)

\* _closed_without_model: what the scripts close under closures_final, before the rest is asked.
Early(c) ==
  IF c.graph = "unreached" THEN "not_reached"
  ELSE IF c.graph # "none" THEN "none"
  ELSE IF c.shipped = "build_only" THEN "not_shipped"
  ELSE IF ~c.direct THEN "none"
  ELSE IF c.path = "absent" \/ (c.path # "imported" /\ c.used = "no") THEN "unused"
  ELSE IF c.path # "imported" /\ c.used = "tests" THEN "test_only_import"
  ELSE "none"

\* A chain that ends before a check leaves no fact of it in its result.
Unasked(c) == [c EXCEPT !.condition = "none", !.missing = FALSE, !.named = FALSE, !.bound = FALSE,
                        !.flow = "open", !.receiver = FALSE, !.evidence = "none", !.bridge = "none",
                        !.resolved = TRUE]

\* And one that ends before the package is placed leaves nothing of how it ships either.
Unplaced(c) == [Unasked(c) EXCEPT !.version = "affected", !.shipped = "unknown",
                                  !.graph = "none", !.go = FALSE]

\* ChainResult: the outcome with the facts it leaves.  `final`: closures_final.
ChainRun(c, final) ==
  IF c.version = "no_answer"
    THEN [outcome |-> "undecided", facts |-> [Unplaced(c) EXCEPT !.build = FALSE, !.gadget = FALSE]]
  ELSE IF c.version = "unaffected"
    THEN [outcome |-> "version_unaffected", facts |-> Unplaced(c)]
  ELSE IF final /\ Early(c) # "none"
    THEN [outcome |-> Early(c), facts |-> [Unasked(c) EXCEPT !.audit = "passed"]]
  ELSE IF c.excluded
    THEN [outcome |-> "infrastructure", facts |-> Unplaced(c)]
  ELSE [outcome |-> Decide(c), facts |-> c]

\* CVEDecision.closes
Closes(outcome) ==
  outcome \notin {"actual", "present", "call_unconfirmed", "mentioned", "no_direct_call",
                  "undecided"}

\* calibrate_closure's _AUDIT_GATED
AuditGated == {"not_reached", "unused", "not_shipped", "test_only_import", "wrong_receiver",
               "not_called"}

-----------------------------------------------------------------------------
(* The policy. *)

Severe(severity) == severity \in {"critical", "high"}

\* DependencyPolicy
Rule(label, priority, person) == [label |-> label, priority |-> priority, person |-> person]

\* Input reaches the vulnerable function itself.
Proven(c) == c.bound /\ c.flow = "found"

\* The rules on what the project does with the package, after those on how it ships.
ByExposure(outcome, c, severity) ==
  IF c.bridge = "no" /\ Severe(severity) THEN Rule("unknown", "medium", TRUE)
  ELSE IF c.bridge = "no" THEN Rule("false_positive", "low", FALSE)
  ELSE IF c.bridge = "unchecked" THEN Rule("unknown", "low", TRUE)
  ELSE IF c.condition = "external" THEN Rule("unknown", "medium", TRUE)
  ELSE IF outcome = "actual"
         THEN Rule("", IF Severe(severity) THEN "high" ELSE "medium", FALSE)
  ELSE IF outcome = "no_direct_call" /\ c.bridge = "calls" THEN Rule("", "medium", FALSE)
  ELSE IF outcome = "no_direct_call" THEN Rule("unknown", "low", TRUE)
  ELSE IF outcome \in {"present", "call_unconfirmed", "mentioned", "undecided", "infrastructure"}
         THEN Rule("", "medium", FALSE)
  ELSE Rule("false_positive", "none", FALSE)

\* policy.decide
Policy(outcome, c, severity) ==
  LET buildOnly == outcome = "not_shipped" \/ c.shipped = "build_only"
      imageOnly == outcome # "not_shipped" /\ c.shipped = "image_only" IN
  IF c.version = "unclear" THEN Rule("unknown", "medium", TRUE)
  ELSE IF (buildOnly \/ imageOnly) /\ c.build THEN Rule("confirmed", "low", FALSE)
  ELSE IF imageOnly THEN Rule("false_positive", "low", FALSE)
  ELSE IF outcome = "not_called" THEN Rule("false_positive", "none", FALSE)
  ELSE IF c.gadget THEN Rule("false_positive", "low", FALSE)
  ELSE IF c.missing /\ outcome # "not_reached" THEN Rule("unknown", "medium", TRUE)
  ELSE IF outcome = "actual" /\ Proven(c) /\ c.condition = "external"
         THEN Rule("unknown", "medium", TRUE)
  ELSE IF outcome = "actual" /\ Proven(c)
         THEN Rule("confirmed", IF severity = "critical" THEN "critical" ELSE "high",
                   Severe(severity))
  ELSE IF buildOnly THEN Rule("false_positive", "low", FALSE)
  ELSE ByExposure(outcome, c, severity)

\* priority_for_model_verdict
PriorityOf(label, outcome, c, severity) ==
  IF label = "false_positive" THEN "none"
  ELSE IF label = "unknown" THEN "medium"
  ELSE IF outcome = "present" /\ c.evidence = "import"
         THEN IF Severe(severity) THEN "high" ELSE "medium"
  ELSE IF outcome \in {"call_unconfirmed", "mentioned"}
         THEN IF Severe(severity) THEN "medium" ELSE "low"
  ELSE "medium"
=============================================================================
