------------------------------- MODULE Decision -------------------------------
(***************************************************************************)
(* The decision of one finding: TriagePipeline._triage_one, from the       *)
(* records written without the model through the dependency chain and its  *)
(* policy (Dependency), the walk over the code, the model's answer and the *)
(* rounds in which it asks for more, post-validation                       *)
(* (validate/postvalidation.py) and the second pass that tries to break    *)
(* the verdict (verify.py), under the default configuration of each.       *)
(*                                                                         *)
(* What the steps tell apart of a finding, of the chain's facts and of an  *)
(* answer are the fields of three kinds of records.  The material is a     *)
(* number: how many times something was added to what a quote may cite.    *)
(***************************************************************************)
EXTENDS Dependency

CONSTANTS
  Findings,          \* a subset of FindingFacts
  Chains,            \* what the checks may find, a subset of Facts
  Answers,           \* the model's answers that may come up, a subset of AnswerFacts
  Rounds,            \* context_retrieval_rounds
  ChallengeVerdicts, \* verification.challenge_verdicts
  ChallengeKinds,    \* verification.challenge_kinds, all of them listed; {}: not enabled
  Authoritative,     \* verification.mode is "authoritative"
  ClosuresFinal      \* the values of closures_final that come up

Classes == {"exploitable_dataflow", "sanitized_dataflow", "identifier_only",
            "test_placeholder", "secret_value", "insufficient_context"}

FindingFacts == {f \in [
  kind      : {"license", "misconfiguration", "secret", "weakness", "dependency"},
  confirm   : BOOLEAN,                         \* Opengrep's: the model must confirm it
  value     : {"placeholder", "real", "unclear"}, \* what a credential looks like
  platform  : BOOLEAN,                         \* the platform handles the misconfiguration
  hardFp    : BOOLEAN,                         \* a pre-check closes it
  mismatch  : {"no", "title", "advisory"},     \* impossible in this deployment, says which text
  traced    : BOOLEAN,                         \* govulncheck's, with source and sink
  severity  : Severities,                      \* the advisory's where it gives one
  fix       : BOOLEAN,                         \* dependency.upgrade_target
  heavy     : BOOLEAN,                         \* a class of high consequence
  signal    : BOOLEAN,                         \* a strong pre-check says it is real
  blind     : BOOLEAN,                         \* no code in the report
  lspNeeded : BOOLEAN] :                       \* dataflow class, its language server silent
  /\ f.traced \/ f.fix => f.kind = "dependency"
  /\ f.platform => f.kind = "misconfiguration"}

AnswerFacts == {a \in [
  label       : Labels,
  class       : Classes,
  quotes      : {"none", "shown", "some", "invented"},   \* which of the lines cited are real
  path        : {"none", "traced", "clean", "invented"}, \* its dataflow; clean at an end
  parent      : {"no", "package", "function"}, \* its path leads through a parent into it
  unshipped   : BOOLEAN,   \* its reason is that the package does not ship
  contradicts : BOOLEAN,   \* its prose argues the opposite
  sure        : BOOLEAN,   \* the confidence it states is above AUTO_APPLY_CONFIDENCE
  person      : BOOLEAN,   \* requires_human_review
  question    : {"", "q1", "q2"}] : \* blocking_question
  a.parent # "no" => a.path = "traced"}

ASSUME DecisionAssumption ==
  /\ Findings \subseteq FindingFacts
  /\ Chains \subseteq Facts
  /\ Answers \subseteq AnswerFacts
  /\ Rounds \in 0..3
  /\ ChallengeVerdicts \subseteq Labels
  /\ ChallengeKinds \subseteq {"dependency", "weakness"}
  /\ Authoritative \in BOOLEAN
  /\ ClosuresFinal \subseteq BOOLEAN

NoChain  == [outcome |-> "none"]
NoAnswer == [label |-> "none"]

VARIABLES
  pc,        \* where _triage_one is
  finding,
  chain,     \* the chain's result, when it ran
  raw,       \* raw_verdict: the model's last valid answer; at the gate, the candidate it accepts
  verdict,   \* the record's
  decidedBy, \* decided_by
  priority,  \* sca_summary.priority
  material,  \* additions to the package so far
  shown,     \* those among them the model had before it when it gave `raw`
  code,      \* repository_code_collected: code of the project's own is among them
  rounds,    \* rounds of retrieval begun
  asked,     \* the blocking questions taken to the code
  objection  \* a reviewer's objection taken to the code: raised there, or met by the reviewer

vars == <<pc, finding, chain, raw, verdict, decidedBy, priority,
          material, shown, code, rounds, asked, objection>>
ask  == <<material, shown, code, rounds, asked, objection>>

Init ==
  /\ pc = "start" /\ finding \in Findings /\ chain = NoChain
  /\ raw = NoAnswer /\ verdict = NoAnswer /\ decidedBy = "none" /\ priority = "none"
  /\ material = 0 /\ shown = 0 /\ code = FALSE /\ rounds = 0 /\ asked = {} /\ objection = "none"

IsDependency == finding.kind = "dependency"
\* TriageRecord.kind
Kind == IF IsDependency THEN "dependency" ELSE "weakness"

\* A record written without the model.
Write(label, class, person, by) ==
  /\ verdict' = [label |-> label, class |-> class, person |-> person]
  /\ decidedBy' = by
  /\ pc' = "done"

-----------------------------------------------------------------------------
(* Before the chain. *)

License ==
  /\ pc = "start" /\ finding.kind = "license"
  /\ Write("confirmed", "identifier_only", FALSE, "heuristics")
  /\ UNCHANGED <<finding, chain, raw, priority, ask>>

Misconfiguration ==
  /\ pc = "start" /\ finding.kind = "misconfiguration" /\ ~finding.confirm
  /\ Write(IF finding.platform THEN "false_positive" ELSE "confirmed",
           "identifier_only", FALSE, "heuristics")
  /\ UNCHANGED <<finding, chain, raw, priority, ask>>

Secret ==
  /\ pc = "start" /\ finding.kind = "secret" /\ ~finding.confirm /\ finding.value # "unclear"
  /\ IF finding.value = "placeholder"
       THEN Write("false_positive", "test_placeholder", FALSE, "heuristics")
       ELSE Write("confirmed", "secret_value", TRUE, "heuristics")
  /\ UNCHANGED <<finding, chain, raw, priority, ask>>

\* None of the above: the evidence package is built.
Built ==
  /\ pc = "start" /\ finding.kind # "license"
  /\ finding.confirm \/ (finding.kind # "misconfiguration"
                          /\ (finding.kind = "secret" => finding.value = "unclear"))

HardFp == finding.hardFp /\ ~finding.traced /\ ~finding.confirm

Precheck ==
  /\ Built /\ HardFp
  /\ Write("false_positive", "test_placeholder", FALSE, "heuristics")
  /\ UNCHANGED <<finding, chain, raw, priority, ask>>

HasChain == IsDependency /\ ~finding.traced

\* check_deployment_mismatch, of the report and then of the advisory.
Mismatch ==
  \/ finding.mismatch = "title" /\ ~finding.confirm
  \/ finding.mismatch # "no" /\ HasChain

Undeployed ==
  /\ Built /\ ~HardFp /\ Mismatch
  /\ Write("false_positive", "identifier_only", FALSE, "post_validation")
  /\ UNCHANGED <<finding, chain, raw, priority, ask>>

Open == Built /\ ~HardFp /\ ~Mismatch

\* govulncheck's trace stands unless the model refutes it with exact quotes and a reason.  Its
\* refutation is the verdict, and its own word on a person with it, at any confidence: neither
\* validate nor apply_confidence_policy is asked here.
Gate ==
  /\ Open /\ finding.traced
  /\ \/ Write("confirmed", "exploitable_dataflow", FALSE, "llm") /\ UNCHANGED raw
     \/ \E a \in Answers :
          /\ a.label = "false_positive" /\ a.quotes = "shown"
          /\ Write("false_positive", a.class, a.person, "post_validation")
          /\ raw' = a
  /\ UNCHANGED <<finding, chain, priority, ask>>

\* What is neither a dependency nor closed goes to the model.
NoChainAsked ==
  /\ Open /\ ~finding.traced /\ ~HasChain
  /\ pc' = "walk"
  /\ UNCHANGED <<finding, chain, raw, verdict, decidedBy, priority, ask>>

-----------------------------------------------------------------------------
(* The chain and its policy. *)

\* calibrate_closure's lowest band: a closure whose blind spot was not checked.
Unsure(ch) == ch.outcome \in AuditGated \ {"not_called"} /\ ch.facts.audit # "passed"

\* The chain's closure is the finding's when the policy agrees, or may not ask any more.
RuleOf(ch) == Policy(ch.outcome, ch.facts, finding.severity)
ClosedBy(ch, final) ==
  /\ Closes(ch.outcome)
  /\ RuleOf(ch).label = "false_positive" \/ (final /\ RuleOf(ch).label # "confirmed")

ChainCloses ==
  /\ Open /\ HasChain
  /\ \E c \in Chains, final \in ClosuresFinal :
       LET ch == ChainRun(c, final)  rule == RuleOf(ch) IN
         /\ ClosedBy(ch, final)
         /\ chain' = ch
         /\ priority' = IF rule.label = "false_positive" THEN rule.priority ELSE "none"
         /\ Write("false_positive", "identifier_only", Unsure(ch), "heuristics")
  /\ UNCHANGED <<finding, raw, ask>>

ChainDecides ==
  /\ Open /\ HasChain
  /\ \E c \in Chains, final \in ClosuresFinal :
       LET ch == ChainRun(c, final)  rule == RuleOf(ch) IN
         /\ ~ClosedBy(ch, final) /\ rule.label \in {"confirmed", "false_positive"}
         /\ chain' = ch /\ priority' = rule.priority
         /\ Write(rule.label, IF rule.priority \in {"critical", "high"}
                               THEN "exploitable_dataflow" ELSE "identifier_only",
                  rule.person, "policy")
  /\ UNCHANGED <<finding, raw, ask>>

\* needs_model: what the policy leaves open, and what it calls unknown.
ChainAsks ==
  /\ Open /\ HasChain
  /\ \E c \in Chains, final \in ClosuresFinal :
       LET ch == ChainRun(c, final)  rule == RuleOf(ch) IN
         /\ ~ClosedBy(ch, final) /\ rule.label \in {"", "unknown"}
         /\ chain' = ch /\ priority' = rule.priority
  /\ pc' = "walk"
  /\ UNCHANGED <<finding, raw, verdict, decidedBy, ask>>

ChainFails ==
  /\ Open /\ HasChain
  /\ pc' = "walk"
  /\ UNCHANGED <<finding, chain, raw, verdict, decidedBy, priority, ask>>

\* The provider has failed for good, or fail_fast is set.
Raise ==
  /\ pc \in {"walk", "ask", "challenge"} \/ (Open /\ IsDependency)
  /\ pc' = "raised"
  /\ UNCHANGED <<finding, chain, raw, verdict, decidedBy, priority, ask>>

-----------------------------------------------------------------------------
(* The walk and the answer. *)

\* RepositoryEvidence.enrich, and the walk: it adds nothing, adds to the prompt too, or breaks
\* off with its additions in the package and the prompt rendered before.
Walk ==
  /\ pc = "walk" /\ pc' = "ask" /\ code' \in BOOLEAN
  /\ UNCHANGED <<material, shown>> \/ (material' = 1 /\ shown' \in {0, 1})
  /\ UNCHANGED <<finding, chain, raw, verdict, decidedBy, priority, rounds, asked, objection>>

\* The answer, or that to the one request to correct its schema or to quote (_with_quotes).
Ask ==
  /\ pc = "ask" /\ pc' = "retrieve"
  /\ raw' \in Answers
  /\ UNCHANGED <<finding, chain, verdict, decidedBy, priority, ask>>

AskFails ==
  /\ pc = "ask" /\ Write("unknown", "insufficient_context", TRUE, "error")
  /\ UNCHANGED <<finding, chain, raw, priority, ask>>

\* Whether the answer asks for more, and something it has not had yet.
Asks ==
  /\ rounds < Rounds
  /\ raw.label = "unknown" \/ raw.question # ""
  /\ raw.question \notin asked \ {""}

\* What was added to the copy becomes the package's once it was judged.
KeepLate == UNCHANGED material /\ shown' = material + 1 \* fault: the copy is dropped
Keep == material' = material + 1 /\ shown' = material'

\* A round: retrieval into a copy of the package and a judgement of it, or neither.
Retrieve ==
  /\ pc = "retrieve" /\ Asks
  /\ rounds' = rounds + 1 /\ asked' = asked \cup {raw.question}
  /\ \/ raw' \in Answers /\ Keep /\ code' \in {code, TRUE} /\ UNCHANGED pc
     \/ pc' = "validate" /\ UNCHANGED <<raw, material, shown, code>>
  /\ UNCHANGED <<finding, chain, verdict, decidedBy, priority, objection>>

Enough ==
  /\ pc = "retrieve" /\ ~Asks /\ pc' = "validate"
  /\ UNCHANGED <<finding, chain, raw, verdict, decidedBy, priority, ask>>

-----------------------------------------------------------------------------
(* Post-validation. *)

\* _to_unknown.  (The class of an undecided verdict, which some checks keep, is not followed.)
DoubtAsNoFlaw(v) == [v EXCEPT !.label = "false_positive", !.person = TRUE] \* fault
Doubt(v) == [v EXCEPT !.label = "unknown", !.class = "insufficient_context", !.person = TRUE]

Unread == finding.blind /\ ~code

\* Why a decisive answer does not stand: the checks of validate, in its order.
Refused(a) ==
  \/ a.quotes \in {"none", "invented"}
  \/ a.contradicts
  \/ a.class \in {"exploitable_dataflow", "sanitized_dataflow"} /\ Unread
  \/ /\ a.label = "confirmed"
     /\ \/ a.class = "exploitable_dataflow" /\ a.path = "invented"
        \/ ~IsDependency /\ (a.path = "clean" \/ a.class = "insufficient_context")
  \/ /\ a.label = "false_positive"
     /\ \/ finding.signal
        \/ finding.heavy
             /\ a.class \notin {"sanitized_dataflow", "identifier_only", "test_placeholder"}
        \/ finding.lspNeeded
        \/ a.class = "insufficient_context"

\* calibrate: what is judged on the description alone always falls below the floor.
LowByChance == BOOLEAN \* fault: description_only is not looked at
Low == IF Unread /\ ~IsDependency THEN {TRUE} ELSE BOOLEAN

\* apply_confidence_policy, the escalation of severities, and the patch task.
ReviewedBySure(v, sure) == [v EXCEPT !.person = v.label = "unknown" \/ ~sure] \* fault
Reviewed(v, sure) ==
  LET unsure    == v.label = "unknown" \/ ~sure
      escalated == v.label = "confirmed" /\ Severe(finding.severity)
      mechanical == /\ v.label = "confirmed" /\ finding.fix
                    /\ ~(finding.severity = "critical" /\ v.class = "exploitable_dataflow")
  IN [v EXCEPT !.person = (unsure \/ escalated) /\ ~mechanical]

\* validate
Validated(a, low) ==
  LET class == IF finding.signal /\ a.class = "test_placeholder" THEN "secret_value" ELSE a.class
      v     == [label |-> a.label, class |-> class, person |-> a.person]
  IN Reviewed(IF a.label # "unknown" /\ (Refused(a) \/ low) THEN Doubt(v) ELSE v, a.sure)

\* cap_unproven_call and cap_unproven_dependency_confirmation: what a confirmation lacks.
UnprovenByName(ch, a) == \* fault: any quoted path through a parent is one to the function
  LET c == ch.facts IN
  \/ c.missing \/ c.condition = "external"
  \/ a.parent = "no" /\ c.flow # "found" /\ ~(c.go /\ c.graph \in {"reached", "lowered"})
Unproven(ch, a) ==
  LET c == ch.facts
      through == a.parent = "function" \/ (c.go /\ c.graph \in {"reached", "lowered"}) IN
  \/ a.parent = "no" /\ (ch.outcome \in {"call_unconfirmed", "mentioned"} \/ ~c.resolved)
  \/ c.missing
  \/ c.named /\ ~c.bound /\ ~through
  \/ c.condition = "external"
  \/ c.flow # "found" /\ ~through

\* guard_dependency_verdict: what a closure argues against.
Conflicts(ch, a) ==
  \/ ch.facts.shipped = "runtime" /\ a.unshipped
  \/ /\ ch.outcome \in {"present", "actual"} /\ ch.facts.evidence \in {"import", "engine"}
     /\ a.class \notin {"sanitized_dataflow", "identifier_only"}

Guarded(v, ch, a) ==
  IF \/ v.label = "confirmed" /\ Unproven(ch, a)
     \/ v.label = "false_positive" /\ Conflicts(ch, a)
    THEN Doubt(v) ELSE v

\* settle_dependency_review: it takes the decision on a person anew.
SettledByRank(v, rank, sure) == \* fault: priority and the fix alone
  [v EXCEPT !.person = \/ rank \in {"critical", "high"} /\ Severe(finding.severity)
                       \/ ~finding.fix /\ rank \in {"critical", "high", "medium"}]
Settled(v, rank, sure) ==
  LET wanted == CASE v.label = "unknown" -> TRUE
                  [] v.label = "confirmed" ->
                       \/ rank \in {"critical", "high"} /\ Severe(finding.severity)
                       \/ ~finding.fix /\ rank \in {"critical", "high", "medium"}
                  [] v.label = "false_positive" -> ~sure
  IN [v EXCEPT !.person = wanted]

ShouldChallenge(v) ==
  /\ Kind \in ChallengeKinds
  /\ v.label \in ChallengeVerdicts \/ (v.label = "false_positive" /\ finding.heavy)

\* validate and, with a chain, its caps and guards, the priority and the review; then the
\* record so far, which says whether the second pass is due.  ("llm" stands for
\* "post_validation" too, which only says that something was changed.)
Validate ==
  /\ pc = "validate" /\ decidedBy' = "llm"
  /\ \E low \in Low :
       LET v == Validated(raw, low)
           g == Guarded(v, chain, raw)
           rank == PriorityOf(g.label, chain.outcome, chain.facts, finding.severity) IN
         /\ verdict' = IF chain = NoChain THEN v ELSE Settled(g, rank, raw.sure)
         /\ priority' = IF chain = NoChain THEN priority ELSE rank
  /\ pc' = IF ShouldChallenge(verdict') THEN "challenge" ELSE "done"
  /\ UNCHANGED <<finding, chain, raw, ask>>

-----------------------------------------------------------------------------
(* The second pass. *)

\* The reviewer finds that the verdict survives.
Survives ==
  /\ pc = "challenge" /\ pc' = "done"
  /\ objection' = IF objection = "raised" THEN "met" ELSE objection
  /\ UNCHANGED <<finding, chain, raw, verdict, decidedBy, priority,
                 material, shown, code, rounds, asked>>

\* The call fails or its answer can't be read: challenge calls that surviving, too.
ChallengeFails ==
  /\ pc = "challenge" /\ pc' = "done"
  /\ UNCHANGED <<finding, chain, raw, verdict, decidedBy, priority, ask>>

\* An objection, with a quoted line, is taken to the code once, and judged again.
Reread ==
  /\ pc = "challenge" /\ objection = "none"
  /\ objection' = "raised" /\ material' = material + 1 /\ code' \in {code, TRUE}
  /\ UNCHANGED <<pc, finding, chain, raw, verdict, decidedBy, priority, shown, rounds, asked>>

\* verify.apply
Refuted(v) == Authoritative \/ (v.label = "confirmed" /\ ~IsDependency)
Objects ==
  /\ pc = "challenge" /\ pc' = "done"
  /\ verdict' = IF Refuted(verdict)
                  THEN [verdict EXCEPT !.label = "unknown", !.person = TRUE] ELSE verdict
  /\ decidedBy' = IF Authoritative THEN "challenged" ELSE decidedBy
  /\ UNCHANGED <<finding, chain, raw, priority, ask>>

Next ==
  \/ License \/ Misconfiguration \/ Secret \/ Precheck \/ Undeployed \/ Gate \/ NoChainAsked
  \/ ChainCloses \/ ChainDecides \/ ChainAsks \/ ChainFails \/ Raise
  \/ Walk \/ Ask \/ AskFails \/ Retrieve \/ Enough
  \/ Validate \/ Survives \/ ChallengeFails \/ Reread \/ Objects

Spec == Init /\ [][Next]_vars

-----------------------------------------------------------------------------
(* Properties. *)

Verdicts == [label : Labels, class : Classes, person : BOOLEAN]

\* Every variable has its type.
TypeOK ==
  /\ pc \in {"start", "walk", "ask", "retrieve", "validate", "challenge", "done", "raised"}
  /\ finding \in Findings
  /\ chain = NoChain \/ (chain.outcome \in Outcomes /\ chain.facts \in Facts)
  /\ raw \in Answers \cup {NoAnswer}
  /\ verdict \in Verdicts \cup {NoAnswer}
  /\ decidedBy \in {"none", "heuristics", "post_validation", "llm", "policy", "error", "challenged"}
  /\ priority \in Priorities
  /\ material \in Nat /\ shown \in Nat /\ code \in BOOLEAN
  /\ rounds \in 0..Rounds /\ asked \subseteq {"", "q1", "q2"}
  /\ objection \in {"none", "raised", "met"}

Judged == raw # NoAnswer /\ verdict # NoAnswer

\* Whatever post-validation, the dependency caps and the second pass make of the model's
\* last answer, they only cast doubt on it: none turns it into another decision.  (At the gate
\* govulncheck's own verdict stands against an answer that is not taken.)
OnlyDoubtAdded == Judged => verdict.label \in {raw.label, "unknown"}

\* Whoever left it open, and whatever was decided about a person before, an undecided
\* finding goes to a person.
UnknownGoesToPerson == pc = "done" /\ verdict.label = "unknown" => verdict.person

\* A vulnerable dependency the chain looked at is confirmed, by the policy or by the model,
\* only on a path to the flaw: the build is at risk itself, or the function is in the
\* installed version, what it needs of the environment is not open, and input reaches it,
\* a quoted path leads through a parent into it, or Go's call graph does.
ConfirmedOnPath ==
  pc = "done" /\ chain # NoChain /\ verdict.label = "confirmed" =>
    LET c == chain.facts
        called == (Judged /\ raw.parent = "function") \/ (c.go /\ c.graph # "none") IN
      \/ c.build /\ c.shipped \in {"build_only", "image_only"}
      \/ /\ ~c.missing /\ c.condition # "external"
         /\ called \/ (c.flow = "found" /\ (c.named => c.bound))

\* What no person looks at.  The model closes a finding alone only when it is sure of it, or
\* when it refutes a traced one with exact quotes and itself asks for no person: the gate looks
\* at no confidence.  A confirmed one of high severity stays without a person only as a patch
\* task: a dependency with a fix, or a risk of the build alone.
DecidedAlone ==
  pc = "done" /\ ~verdict.person =>
    /\ Judged /\ verdict.label = "false_positive" =>
         raw.sure \/ (finding.traced /\ raw.quotes = "shown" /\ ~raw.person)
    /\ /\ verdict.label = "confirmed" /\ Severe(finding.severity)
       /\ decidedBy \in {"llm", "policy"} /\ ~finding.traced
       => IsDependency /\ (finding.fix \/ (chain # NoChain /\ chain.facts.build))

\* apply_confidence_policy: "Apply a verdict without a person only when the model itself is above
\* the threshold."  What the model closes without a person it is sure of.
AppliedWhenSure ==
  pc = "done" /\ Judged /\ verdict.label = "false_positive" /\ ~verdict.person => raw.sure

\* Quotes are looked for in all the model had before it when it gave the answer: no round
\* of retrieval, failed or not, leaves the answer of one package with the material of another.
MaterialChecked == pc = "validate" => shown <= material

\* A weakness nobody's code was read for is not decided on its description.
NoCodeNoDecision ==
  pc = "done" /\ Judged /\ finding.blind /\ ~code /\ ~IsDependency => verdict.label = "unknown"

\* What the chain closes on a check with a blind spot had that very blind spot looked at, or
\* the profile takes the closure as final (the language server's answer is a check of its own).
ClosedOnAudit ==
  pc = "done" /\ decidedBy = "heuristics" /\ chain # NoChain /\ chain.outcome \in AuditGated =>
    \/ chain.outcome = "not_called" /\ chain.facts.uncalled
    \/ /\ chain.facts.audit = "passed"
       /\ \/ Rechecked(chain.facts) = chain.outcome
          \/ chain.outcome = "test_only_import" /\ Rechecked(chain.facts) = "test_only"

\* README.md: a mechanical closure of a package that is for the build only goes to a person
\* when the check of its blind spot could not be made.  (A gadget is closed for what it is.)
UncheckedClosureSeen ==
  /\ pc = "done" /\ chain # NoChain /\ ~Judged /\ verdict.label = "false_positive"
  /\ Rechecked(chain.facts) = "not_shipped" /\ chain.facts.audit = "failed"
  /\ ~chain.facts.gadget
  => verdict.person

\* verify.apply's comment: a confirmation that an objection refutes with a line of the code
\* becomes unknown, unless the reviewer takes the objection back.
ObjectionKept ==
  pc = "done" /\ objection = "raised" /\ ~IsDependency => verdict.label # "confirmed"
=============================================================================
