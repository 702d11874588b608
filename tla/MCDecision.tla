------------------------------ MODULE MCDecision ------------------------------
(* What comes up for Decision: findings of each kind, chains that differ from *)
(* a plain one in at most two facts, answers that differ from a plain one     *)
(* in one.                                                                    *)
EXTENDS Decision

\* [p EXCEPT the field d[1] is d[2]], for every d; and p itself.
Near(p, deviations) == {p} \cup {[p EXCEPT ![d[1]] = d[2]] : d \in deviations}

-----------------------------------------------------------------------------
Weakness ==
  [kind |-> "weakness", confirm |-> FALSE, value |-> "unclear", platform |-> FALSE,
   hardFp |-> FALSE, mismatch |-> "no", traced |-> FALSE, severity |-> "low", fix |-> FALSE,
   heavy |-> FALSE, signal |-> FALSE, blind |-> FALSE, lspNeeded |-> FALSE]
Vulnerable == [Weakness EXCEPT !.kind = "dependency"]

MCFindings ==
  Near(Weakness,
       {<<"kind", "license">>, <<"kind", "misconfiguration">>, <<"kind", "secret">>,
        <<"hardFp", TRUE>>, <<"mismatch", "title">>, <<"severity", "high">>, <<"heavy", TRUE>>,
        <<"signal", TRUE>>, <<"blind", TRUE>>, <<"lspNeeded", TRUE>>})
  \cup Near([Weakness EXCEPT !.kind = "secret"], {<<"value", "placeholder">>, <<"value", "real">>})
  \cup Near([Weakness EXCEPT !.kind = "misconfiguration"],
            {<<"confirm", TRUE>>, <<"platform", TRUE>>})
  \cup Near(Vulnerable,
            {<<"severity", "critical">>, <<"mismatch", "advisory">>, <<"traced", TRUE>>})
  \cup {[Vulnerable EXCEPT !.severity = "critical", !.fix = TRUE]}

-----------------------------------------------------------------------------
\* The package is used and in what is shipped; a call of it by name was found, and no more.
Plain ==
  [version |-> "affected", shipped |-> "runtime", excluded |-> FALSE, graph |-> "none",
   go |-> FALSE, audit |-> "passed", receiver |-> FALSE, flow |-> "open", driven |-> TRUE,
   used |-> "open", path |-> "open", direct |-> TRUE, condition |-> "none", uncalled |-> FALSE,
   symbol |-> "usable", found |-> "called", reach |-> FALSE, named |-> TRUE, bound |-> TRUE,
   missing |-> FALSE, evidence |-> "import", resolved |-> TRUE, bridge |-> "none",
   build |-> FALSE, gadget |-> FALSE]
Unfound == [Plain EXCEPT !.found = "absent", !.evidence = "none"]
Indirect == [Unfound EXCEPT !.direct = FALSE, !.bridge = "calls"]

Deviations ==
  {<<"version", "unaffected">>, <<"version", "unclear">>, <<"version", "no_answer">>,
   <<"shipped", "build_only">>, <<"shipped", "image_only">>, <<"excluded", TRUE>>,
   <<"graph", "reached">>, <<"graph", "lowered">>, <<"graph", "unreached">>, <<"go", TRUE>>,
   <<"audit", "reopened">>, <<"audit", "failed">>, <<"receiver", TRUE>>,
   <<"flow", "found">>, <<"flow", "absent">>, <<"driven", FALSE>>,
   <<"used", "no">>, <<"used", "tests">>, <<"path", "imported">>, <<"path", "absent">>,
   <<"condition", "holds">>, <<"condition", "text_absent">>, <<"condition", "absent">>,
   <<"condition", "infrastructure">>, <<"condition", "external">>,
   <<"uncalled", TRUE>>, <<"symbol", "undistributed">>, <<"found", "unconfirmed">>,
   <<"found", "referenced">>, <<"found", "tests">>, <<"reach", TRUE>>, <<"bound", FALSE>>,
   <<"missing", TRUE>>, <<"evidence", "name">>, <<"resolved", FALSE>>,
   <<"bridge", "unchecked">>, <<"bridge", "no">>, <<"build", TRUE>>, <<"gadget", TRUE>>}

MCChains ==
  LET once == Near(Plain, Deviations)
      all  == UNION {Near(c, Deviations) : c \in once}
              \cup Near(Unfound, Deviations) \cup Near(Indirect, Deviations)
              \cup {[Plain EXCEPT !.symbol = "unusable", !.named = FALSE, !.bound = FALSE,
                                  !.found = "unsearched", !.evidence = "none"]}
  IN {c \in all : c \in Facts}

-----------------------------------------------------------------------------
Confirms ==
  [label |-> "confirmed", class |-> "exploitable_dataflow", quotes |-> "shown",
   path |-> "traced", parent |-> "no", unshipped |-> FALSE, contradicts |-> FALSE,
   sure |-> TRUE, person |-> FALSE, question |-> ""]
Closed == [Confirms EXCEPT !.label = "false_positive", !.class = "sanitized_dataflow",
                           !.path = "none"]

MCAnswers ==
  Near(Confirms,
       {<<"class", "identifier_only">>, <<"quotes", "invented">>, <<"path", "clean">>,
        <<"parent", "package">>, <<"parent", "function">>, <<"contradicts", TRUE>>,
        <<"sure", FALSE>>, <<"question", "q1">>})
  \cup Near(Closed,
            {<<"class", "insufficient_context">>, <<"class", "test_placeholder">>,
             <<"class", "secret_value">>, <<"quotes", "none">>, <<"unshipped", TRUE>>,
             <<"sure", FALSE>>, <<"question", "q1">>})
  \cup Near([Confirms EXCEPT !.label = "unknown", !.class = "insufficient_context"],
            {<<"question", "q2">>})
=============================================================================
