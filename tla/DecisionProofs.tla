---------------------------- MODULE DecisionProofs ----------------------------
(***************************************************************************)
(* Theorems about the decision of one finding, for any findings, chains,   *)
(* answers and settings.  The first ones share one inductive invariant:    *)
(* what the steps before the verdict leave empty, and what every verdict,  *)
(* final or not, has in common.  The later ones put on top of it what a    *)
(* closure, a confirmation and the absence of a person rest on.            *)
(***************************************************************************)
EXTENDS Decision, TLAPS

\* The verdict is written once all answers are in; the answers come after the walk.
Staged ==
  /\ pc \in {"start", "walk", "ask"} => raw = NoAnswer
  /\ pc \in {"retrieve", "validate"} => raw \in Answers
  /\ pc \in {"start", "walk", "ask", "retrieve", "validate"} => verdict = NoAnswer
  /\ pc = "challenge" => verdict \in Verdicts

Shapes ==
  /\ finding \in Findings
  /\ raw \in Answers \cup {NoAnswer}
  /\ verdict \in Verdicts \cup {NoAnswer}

Read == material \in Nat /\ shown \in Nat /\ shown <= material

\* Undecided is never without a person, on the way to the end either.
Watched == verdict # NoAnswer /\ verdict.label = "unknown" => verdict.person

Grounded ==
  Judged /\ finding.blind /\ ~code /\ ~IsDependency => verdict.label = "unknown"

DecisionInv == Staged /\ Shapes /\ Read /\ Watched /\ OnlyDoubtAdded /\ Grounded

-----------------------------------------------------------------------------
(* What each part of post-validation may do to a verdict. *)

\* _to_unknown sends the finding to a person.
LEMMA DoubtDoubts ==
  ASSUME NEW v \in Verdicts
  PROVE  Doubt(v) \in Verdicts /\ Doubt(v).label = "unknown" /\ Doubt(v).person
BY DEF Doubt, Verdicts, Labels, Classes

\* Undecided for a person, or the answer's own label; undecided when its certainty is low.
LEMMA ValidatedVerdict ==
  ASSUME NEW a \in AnswerFacts, NEW low \in BOOLEAN
  PROVE  /\ Validated(a, low) \in Verdicts
         /\ Validated(a, low).label \in {a.label, "unknown"}
         /\ Validated(a, low).label = "unknown" => Validated(a, low).person
         /\ low => Validated(a, low).label = "unknown"
<1> DEFINE class == IF finding.signal /\ a.class = "test_placeholder" THEN "secret_value" ELSE a.class
           v == [label |-> a.label, class |-> class, person |-> a.person]
           w == IF a.label # "unknown" /\ (Refused(a) \/ low) THEN Doubt(v) ELSE v
<1>1. a.label \in Labels /\ a.class \in Classes /\ a.person \in BOOLEAN
  BY DEF AnswerFacts
<1>2. v \in Verdicts
  BY <1>1 DEF Verdicts, Classes
<1>3. w \in Verdicts /\ w.label \in {a.label, "unknown"} /\ (low => w.label = "unknown")
  <2>1. CASE a.label # "unknown" /\ (Refused(a) \/ low)
    BY <1>2, <2>1, DoubtDoubts
  <2>2. CASE ~(a.label # "unknown" /\ (Refused(a) \/ low))
    <3>1. w = v
      BY <2>2
    <3> QED BY <1>2, <2>2, <3>1
  <2> QED BY <2>1, <2>2
<1>4. Validated(a, low) = Reviewed(w, a.sure)
  BY DEF Validated
<1> HIDE DEF w
<1>5. /\ Reviewed(w, a.sure) \in Verdicts
      /\ Reviewed(w, a.sure).label = w.label
      /\ w.label = "unknown" => Reviewed(w, a.sure).person
  BY <1>3 DEF Reviewed, Verdicts
<1> QED BY <1>3, <1>4, <1>5

\* The caps of dependencies leave a verdict or doubt it.
LEMMA GuardedVerdict ==
  ASSUME NEW v \in Verdicts, NEW ch, NEW a
  PROVE  /\ Guarded(v, ch, a) \in Verdicts
         /\ Guarded(v, ch, a).label \in {v.label, "unknown"}
         /\ (v.label = "unknown" => v.person) /\ Guarded(v, ch, a).label = "unknown"
              => Guarded(v, ch, a).person
BY DoubtDoubts DEF Guarded

\* The last review only says who looks at it, and somebody does when it is undecided.
LEMMA SettledVerdict ==
  ASSUME NEW v \in Verdicts, NEW rank, NEW sure \in BOOLEAN
  PROVE  /\ Settled(v, rank, sure) \in Verdicts
         /\ Settled(v, rank, sure).label = v.label
         /\ v.label = "unknown" => Settled(v, rank, sure).person
BY DEF Settled, Verdicts, Labels

-----------------------------------------------------------------------------
\* The policy always gives a rule.
LEMMA PolicyRule ==
  ASSUME NEW outcome, NEW c, NEW severity
  PROVE  /\ Policy(outcome, c, severity).label \in Labels \cup {""}
         /\ Policy(outcome, c, severity).priority \in Priorities
         /\ Policy(outcome, c, severity).person \in BOOLEAN
<1> DEFINE Good(r) == r.label \in Labels \cup {""} /\ r.priority \in Priorities /\ r.person \in BOOLEAN
<1>1. ASSUME NEW l \in Labels \cup {""}, NEW p \in Priorities, NEW b \in BOOLEAN
      PROVE  Good(Rule(l, p, b))
  BY DEF Rule
<1>2. Severe(severity) \in BOOLEAN
  BY DEF Severe
<1> HIDE DEF Good
<1>3. Good(ByExposure(outcome, c, severity))
  BY <1>1 DEF ByExposure, Labels, Priorities
<1>4. /\ Good(Rule("unknown", "medium", TRUE)) /\ Good(Rule("confirmed", "low", FALSE))
      /\ Good(Rule("false_positive", "low", FALSE)) /\ Good(Rule("false_positive", "none", FALSE))
  BY <1>1 DEF Labels, Priorities
<1>5. /\ Good(Rule("confirmed", "critical", Severe(severity)))
      /\ Good(Rule("confirmed", "high", Severe(severity)))
  BY <1>1, <1>2 DEF Labels, Priorities
<1>6. Good(Policy(outcome, c, severity))
  BY <1>3, <1>4, <1>5 DEF Policy
<1> QED BY <1>6 DEF Good

-----------------------------------------------------------------------------
\* Nothing has been judged of a finding that _triage_one has just taken up.
THEOREM InitDecision == Init => DecisionInv
BY DEF Init, DecisionInv, Staged, Shapes, Read, Watched, Judged, OnlyDoubtAdded, Grounded

\* A record written before the model answered.
LEMMA Unjudged ==
  ASSUME DecisionInv, pc \in {"start", "ask"}, pc' = "done",
         verdict' \in Verdicts, verdict'.label = "unknown" => verdict'.person,
         UNCHANGED <<finding, raw>>, UNCHANGED ask
  PROVE  DecisionInv'
BY DEF DecisionInv, Staged, Shapes, Read, Watched, Judged, OnlyDoubtAdded, Grounded, ask

\* The verdict after the model: what validate and, with a chain, the caps make of its answer.
LEMMA JudgedVerdict ==
  ASSUME DecisionInv, Validate, DecisionAssumption
  PROVE  /\ verdict' \in Verdicts
         /\ verdict'.label \in {raw.label, "unknown"}
         /\ verdict'.label = "unknown" => verdict'.person
         /\ finding.blind /\ ~code /\ ~IsDependency => verdict'.label = "unknown"
<1>1. raw \in AnswerFacts /\ raw.sure \in BOOLEAN
  BY DEF DecisionInv, Staged, Validate, DecisionAssumption, AnswerFacts
<1>2. PICK low \in Low :
        verdict' = IF chain = NoChain THEN Validated(raw, low)
                   ELSE Settled(Guarded(Validated(raw, low), chain, raw),
                                PriorityOf(Guarded(Validated(raw, low), chain, raw).label,
                                           chain.outcome, chain.facts, finding.severity),
                                raw.sure)
  BY DEF Validate
<1> DEFINE v == Validated(raw, low)
           g == Guarded(v, chain, raw)
           rank == PriorityOf(g.label, chain.outcome, chain.facts, finding.severity)
<1>3. low \in BOOLEAN /\ (finding.blind /\ ~code /\ ~IsDependency => low)
  BY <1>2 DEF Low, Unread
<1>4. /\ v \in Verdicts /\ v.label \in {raw.label, "unknown"}
      /\ v.label = "unknown" => v.person
      /\ low => v.label = "unknown"
  BY <1>1, <1>3, ValidatedVerdict
<1> HIDE DEF v
<1>5. /\ g \in Verdicts /\ g.label \in {v.label, "unknown"}
  BY <1>4, GuardedVerdict
<1> HIDE DEF g, rank
<1>6. /\ Settled(g, rank, raw.sure) \in Verdicts
      /\ Settled(g, rank, raw.sure).label = g.label
      /\ g.label = "unknown" => Settled(g, rank, raw.sure).person
  BY <1>1, <1>5, SettledVerdict
<1>7. verdict' = v \/ verdict' = Settled(g, rank, raw.sure)
  BY <1>2 DEF v, g, rank
<1> QED BY <1>3, <1>4, <1>5, <1>6, <1>7

\* No step of _triage_one breaks the invariant.
THEOREM NextDecision == DecisionInv /\ [Next]_vars => DecisionInv'
<1> SUFFICES ASSUME DecisionInv, [Next]_vars PROVE DecisionInv'
  OBVIOUS
<1> USE DecisionAssumption
<1>0. CASE UNCHANGED vars
  BY <1>0 DEF DecisionInv, Staged, Shapes, Read, Watched, Judged, OnlyDoubtAdded, Grounded,
              IsDependency, vars
<1>2. CASE License
  <2>1. /\ pc' = "done" /\ verdict' \in Verdicts
        /\ verdict'.label = "unknown" => verdict'.person
    BY <1>2 DEF License, Write, Verdicts, Labels, Classes
  <2> QED BY <1>2, <2>1, Unjudged DEF License
<1>3. CASE Misconfiguration
  <2>1. /\ pc' = "done" /\ verdict' \in Verdicts
        /\ verdict'.label = "unknown" => verdict'.person
    BY <1>3 DEF Misconfiguration, Write, Verdicts, Labels, Classes
  <2> QED BY <1>3, <2>1, Unjudged DEF Misconfiguration
<1>4. CASE Secret
  <2>1. \/ Write("false_positive", "test_placeholder", FALSE, "heuristics")
        \/ Write("confirmed", "secret_value", TRUE, "heuristics")
    BY <1>4 DEF Secret
  <2>2. /\ pc' = "done" /\ verdict' \in Verdicts
        /\ verdict'.label = "unknown" => verdict'.person
    <3>1. CASE Write("false_positive", "test_placeholder", FALSE, "heuristics")
      BY <3>1 DEF Write, Verdicts, Labels, Classes
    <3>2. CASE Write("confirmed", "secret_value", TRUE, "heuristics")
      BY <3>2 DEF Write, Verdicts, Labels, Classes
    <3> QED BY <2>1, <3>1, <3>2
  <2>3. pc = "start" /\ UNCHANGED <<finding, chain, raw, priority, ask>>
    BY <1>4, Zenon DEF Secret
  <2> QED BY <2>2, <2>3, Unjudged
<1>5. CASE Precheck
  <2>1. /\ pc' = "done" /\ verdict' \in Verdicts
        /\ verdict'.label = "unknown" => verdict'.person
    BY <1>5 DEF Precheck, Write, Verdicts, Labels, Classes
  <2> QED BY <1>5, <2>1, Unjudged DEF Precheck, Built
<1>6. CASE Undeployed
  <2>1. /\ pc' = "done" /\ verdict' \in Verdicts
        /\ verdict'.label = "unknown" => verdict'.person
    BY <1>6 DEF Undeployed, Write, Verdicts, Labels, Classes
  <2> QED BY <1>6, <2>1, Unjudged DEF Undeployed, Built
<1>7. CASE AskFails
  <2>1. /\ pc' = "done" /\ verdict' \in Verdicts
        /\ verdict'.label = "unknown" => verdict'.person
    BY <1>7 DEF AskFails, Write, Verdicts, Labels, Classes
  <2> QED BY <1>7, <2>1, Unjudged DEF AskFails
<1>8. CASE Gate
  <2>1. CASE Write("confirmed", "exploitable_dataflow", FALSE, "llm") /\ UNCHANGED raw
    BY <2>1, <1>8, Unjudged DEF Gate, Open, Built, Write, Verdicts, Labels, Classes
  <2>2. ASSUME NEW a \in Answers, a.label = "false_positive", raw' = a,
               Write("false_positive", a.class, a.person, "post_validation")
        PROVE  DecisionInv'
    <3>1. a.class \in Classes /\ a.person \in BOOLEAN /\ "false_positive" \in Labels
      BY <2>2 DEF DecisionAssumption, AnswerFacts, Labels
    <3>2. /\ pc' = "done" /\ verdict' \in Verdicts
          /\ verdict'.label = "false_positive"
      BY <2>2, <3>1 DEF Write, Verdicts
    <3>3. finding \in Findings /\ finding.traced /\ UNCHANGED <<finding, ask>>
      BY <1>8 DEF Gate, DecisionInv, Shapes
    <3>4. IsDependency
      BY <3>3 DEF DecisionAssumption, FindingFacts, IsDependency
    <3>5. Staged' /\ Shapes' /\ Watched' /\ OnlyDoubtAdded'
      BY <2>2, <3>2, <3>3 DEF DecisionInv, Staged, Shapes, Watched, OnlyDoubtAdded
    <3>6. Read' /\ Grounded'
      BY <3>3, <3>4 DEF DecisionInv, Read, Grounded, IsDependency, ask
    <3> QED BY <3>5, <3>6 DEF DecisionInv
  <2> QED BY <1>8, <2>1, <2>2 DEF Gate
<1>9. CASE ChainCloses
  <2>1. PICK ch : Write("false_positive", "identifier_only", Unsure(ch), "heuristics")
    BY <1>9 DEF ChainCloses
  <2>2. /\ pc' = "done" /\ verdict' \in Verdicts
        /\ verdict'.label = "unknown" => verdict'.person
    BY <2>1 DEF Write, Verdicts, Labels, Classes, Unsure
  <2> QED BY <1>9, <2>2, Unjudged DEF ChainCloses, Open, Built
<1>10. CASE ChainDecides
  <2>1. PICK c \in Chains, final \in ClosuresFinal :
          /\ RuleOf(ChainRun(c, final)).label \in {"confirmed", "false_positive"}
          /\ Write(RuleOf(ChainRun(c, final)).label,
                   IF RuleOf(ChainRun(c, final)).priority \in {"critical", "high"}
                     THEN "exploitable_dataflow" ELSE "identifier_only",
                   RuleOf(ChainRun(c, final)).person, "policy")
    BY <1>10 DEF ChainDecides
  <2> DEFINE rule == RuleOf(ChainRun(c, final))
             class == IF rule.priority \in {"critical", "high"}
                        THEN "exploitable_dataflow" ELSE "identifier_only"
  <2>2. rule.person \in BOOLEAN
    BY PolicyRule DEF RuleOf
  <2>3. class \in Classes /\ rule.label \in Labels /\ rule.label # "unknown"
    BY <2>1 DEF Classes, Labels
  <2>4. Write(rule.label, class, rule.person, "policy")
    BY <2>1
  <2> HIDE DEF rule, class
  <2>5. /\ pc' = "done" /\ verdict' \in Verdicts
        /\ verdict'.label = "unknown" => verdict'.person
    BY <2>2, <2>3, <2>4 DEF Write, Verdicts
  <2> QED BY <1>10, <2>5, Unjudged DEF ChainDecides, Open, Built
<1>11. CASE NoChainAsked \/ ChainAsks \/ ChainFails \/ Raise \/ Enough \/ ChallengeFails
  BY <1>11 DEF NoChainAsked, ChainAsks, ChainFails, Raise, Enough, ChallengeFails, Open, Built,
       DecisionInv, Staged, Shapes, Read, Watched, Judged, OnlyDoubtAdded, Grounded,
       IsDependency, ask
<1>12. CASE Walk
  BY <1>12 DEF Walk, DecisionInv, Staged, Shapes, Read, Watched, Judged, OnlyDoubtAdded, Grounded,
       IsDependency
<1>13. CASE Ask
  BY <1>13 DEF Ask, DecisionInv, Staged, Shapes, Read, Watched, Judged, OnlyDoubtAdded, Grounded,
       IsDependency, ask
<1>14. CASE Retrieve
  <2>1. /\ raw' \in Answers /\ pc' \in {"retrieve", "validate"}
        /\ verdict' = NoAnswer /\ finding' = finding
    BY <1>14 DEF Retrieve, DecisionInv, Staged
  <2>2. Staged' /\ Shapes' /\ Watched' /\ OnlyDoubtAdded' /\ Grounded'
    BY <2>1 DEF DecisionInv, Staged, Shapes, Watched, Judged, OnlyDoubtAdded, Grounded
  <2>3. Keep \/ UNCHANGED <<material, shown>>
    BY <1>14 DEF Retrieve
  <2>4. Read'
    BY <2>3 DEF Keep, DecisionInv, Read
  <2> QED BY <2>2, <2>4 DEF DecisionInv
<1>15. CASE Validate
  BY <1>15, JudgedVerdict DEF Validate, DecisionInv, Staged, Shapes, Read, Watched, Judged,
       OnlyDoubtAdded, Grounded, IsDependency, ask
<1>16. CASE Survives
  BY <1>16 DEF Survives, DecisionInv, Staged, Shapes, Read, Watched, Judged, OnlyDoubtAdded,
       Grounded, IsDependency
<1>17. CASE Reread
  <2>1. Staged' /\ Shapes' /\ Watched' /\ OnlyDoubtAdded'
    BY <1>17 DEF Reread, DecisionInv, Staged, Shapes, Watched, Judged, OnlyDoubtAdded
  <2>2. Read'
    BY <1>17 DEF Reread, DecisionInv, Read
  <2>3. Grounded'
    <3>1. ~code' => ~code
      BY <1>17, Zenon DEF Reread
    <3> QED BY <1>17, <3>1 DEF Reread, DecisionInv, Grounded, Judged, IsDependency
  <2> QED BY <2>1, <2>2, <2>3 DEF DecisionInv
<1>18. CASE Objects
  <2>1. \/ verdict' = verdict
        \/ /\ verdict' \in Verdicts
           /\ verdict'.label = "unknown" /\ verdict'.person
    BY <1>18 DEF Objects, DecisionInv, Staged, Verdicts, Labels
  <2> QED BY <1>18, <2>1 DEF Objects, DecisionInv, Staged, Shapes, Read, Watched, Judged,
             OnlyDoubtAdded, Grounded, IsDependency, ask
<1> QED BY <1>0, <1>2, <1>3, <1>4, <1>5, <1>6, <1>7, <1>8, <1>9, <1>10, <1>11, <1>12, <1>13,
           <1>14, <1>15, <1>16, <1>17, <1>18 DEF Next

\* It holds throughout the decision of a finding.
THEOREM DecisionInvariant == Spec => []DecisionInv
BY InitDecision, NextDecision, PTL DEF Spec

-----------------------------------------------------------------------------
\* Whatever post-validation, the caps of dependencies and the second pass do to the answer of
\* the model, they never turn it into another decision.
THEOREM NeverTurned == Spec => []OnlyDoubtAdded
<1>1. DecisionInv => OnlyDoubtAdded
  BY DEF DecisionInv
<1> QED BY <1>1, DecisionInvariant, PTL

\* An undecided finding goes to a person.
THEOREM UndecidedSeen == Spec => []UnknownGoesToPerson
<1>1. DecisionInv => UnknownGoesToPerson
  BY DEF DecisionInv, Watched, UnknownGoesToPerson, NoAnswer
<1> QED BY <1>1, DecisionInvariant, PTL

\* Quotes are checked against everything the model was shown.
THEOREM QuotesChecked == Spec => []MaterialChecked
<1>1. DecisionInv => MaterialChecked
  BY DEF DecisionInv, Read, MaterialChecked
<1> QED BY <1>1, DecisionInvariant, PTL

\* No decision about a weakness whose code nobody read.
THEOREM NothingUnread == Spec => []NoCodeNoDecision
<1>1. DecisionInv => NoCodeNoDecision
  BY DEF DecisionInv, Grounded, NoCodeNoDecision
<1> QED BY <1>1, DecisionInvariant, PTL

-----------------------------------------------------------------------------
(* The closures of the chain. *)

\* What ClosedOnAudit asks of a result of the chain.
Backed(ch) ==
  ch.outcome \in AuditGated =>
    \/ ch.outcome = "not_called" /\ ch.facts.uncalled
    \/ /\ ch.facts.audit = "passed"
       /\ \/ Rechecked(ch.facts) = ch.outcome
          \/ ch.outcome = "test_only_import" /\ Rechecked(ch.facts) = "test_only"

\* verdict.decide closes on a blind spot only when that was looked at.
LEMMA DecideBacked ==
  ASSUME NEW c \in Facts
  PROVE  Backed([outcome |-> Decide(c), facts |-> c])
<1> DEFINE ch(o) == [outcome |-> o, facts |-> c]
<1>1. ASSUME NEW o, NEW k, o = k \/ (o = "test_only_import" /\ k = "test_only")
      PROVE  Backed(ch(Closing(c, o, k)))
  BY <1>1 DEF Backed, Closing, Audited, AuditGated
<1>2. \A o : o \notin AuditGated => Backed(ch(o))
  BY DEF Backed
<1>3. c.uncalled => Backed(ch("not_called"))
  BY DEF Backed
<1> HIDE DEF ch
<1>4. Backed(ch(BySymbol(c)))
  BY <1>1, <1>2, <1>3 DEF BySymbol, AuditGated
<1>5. Backed(ch(ByCondition(c)))
  BY <1>2, <1>3, <1>4 DEF ByCondition, AuditGated
<1>6. Backed(ch(Closing(c, "condition_absent", "no_input_path")))
  BY <1>2 DEF Closing, AuditGated
<1>7. Backed(ch(ByUsage(c)))
  BY <1>1, <1>2, <1>5, <1>6 DEF ByUsage, AuditGated
<1>8. Backed(ch(ByGraph(c)))
  BY <1>1, <1>2 DEF ByGraph, AuditGated
<1>9. Backed(ch(Decide(c)))
  BY <1>1, <1>2, <1>7, <1>8 DEF Decide, AuditGated
<1> QED BY <1>9 DEF ch

\* The short cut of closures_final waives the look, for the closures decide would take.
LEMMA EarlyBacked ==
  ASSUME NEW c \in Facts, Early(c) # "none"
  PROVE  Backed([outcome |-> Early(c), facts |-> [Unasked(c) EXCEPT !.audit = "passed"]])
<1> DEFINE f == [Unasked(c) EXCEPT !.audit = "passed"]
<1>1. /\ f.audit = "passed" /\ ~f.receiver /\ f.flow = "open"
      /\ f.graph = c.graph /\ f.shipped = c.shipped /\ f.used = c.used
      /\ f.path = c.path /\ f.direct = c.direct
  BY DEF Unasked, Facts, FactRecords, Agree
<1>2. c.direct /\ c.path \in {"imported", "absent"} => c.used = "open"
  BY DEF Facts, FactRecords, Agree
<1>3. /\ c.graph \in {"none", "reached", "lowered", "unreached"}
      /\ c.used \in {"yes", "no", "tests", "open"}
      /\ c.direct \in BOOLEAN
  BY DEF Facts, FactRecords, Agree
<1> HIDE DEF f
<1>4. \/ Rechecked(f) = Early(c)
      \/ Early(c) = "test_only_import" /\ Rechecked(f) = "test_only"
  BY <1>1, <1>2, <1>3 DEF Rechecked, Early
<1>5. Backed([outcome |-> Early(c), facts |-> f])
  BY <1>1, <1>4 DEF Backed
<1> QED BY <1>5 DEF f

\* So does every result of the chain.
LEMMA ChainBacked ==
  ASSUME NEW c \in Facts, NEW final
  PROVE  Backed(ChainRun(c, final))
<1>1. ASSUME NEW o, NEW f, o \in {"undecided", "version_unaffected", "infrastructure"}
      PROVE  Backed([outcome |-> o, facts |-> f])
  BY <1>1 DEF Backed, AuditGated
<1> QED BY <1>1, DecideBacked, EarlyBacked DEF ChainRun

ChainsBacked == chain # NoChain => Backed(chain)

\* What the chain closes on a check with a blind spot had that very blind spot looked at,
\* whichever of the two ways to close it took.
THEOREM ClosuresAudited == Spec => []ClosedOnAudit
<1>1. Init => ChainsBacked
  BY DEF Init, ChainsBacked
<1>2. ChainsBacked /\ [Next]_vars => ChainsBacked'
  <2> SUFFICES ASSUME ChainsBacked, [Next]_vars PROVE ChainsBacked'
    OBVIOUS
  <2>1. CASE UNCHANGED chain
    BY <2>1 DEF ChainsBacked, Backed
  <2>2. CASE \E c \in Chains, final \in ClosuresFinal : chain' = ChainRun(c, final)
    BY <2>2, ChainBacked, DecisionAssumption DEF DecisionAssumption, ChainsBacked
  <2>3. \/ UNCHANGED chain
        \/ \E c \in Chains, final \in ClosuresFinal : chain' = ChainRun(c, final)
    BY Zenon DEF Next, vars, License, Misconfiguration, Secret, Precheck, Undeployed, Gate,
         NoChainAsked, ChainCloses, ChainDecides, ChainAsks, ChainFails, Raise, Walk, Ask,
         AskFails, Retrieve, Enough, Validate, Survives, ChallengeFails, Reread, Objects
  <2> QED BY <2>1, <2>2, <2>3
<1>3. ChainsBacked => ClosedOnAudit
  BY DEF ChainsBacked, Backed, ClosedOnAudit
<1> QED BY <1>1, <1>2, <1>3, PTL DEF Spec

-----------------------------------------------------------------------------
(* What a confirmation rests on. *)

\* What ConfirmedOnPath asks of a result of the chain and of an answer, if there is one.
OnPath(ch, answered, a) ==
  LET c == ch.facts
      called == (answered /\ a.parent = "function") \/ (c.go /\ c.graph # "none") IN
    \/ c.build /\ c.shipped \in {"build_only", "image_only"}
    \/ /\ ~c.missing /\ c.condition # "external"
       /\ called \/ (c.flow = "found" /\ (c.named => c.bound))

\* A closure for the build only is one of a package that ships so.
LEMMA NotShipped ==
  ASSUME NEW c \in Facts, NEW final, ChainRun(c, final).outcome = "not_shipped"
  PROVE  ChainRun(c, final).facts.shipped = "build_only"
<1>1. Decide(c) = "not_shipped" => c.shipped = "build_only"
  BY DEF Decide, ByGraph, ByUsage, ByCondition, BySymbol, Closing
<1>2. Early(c) = "not_shipped" => c.shipped = "build_only"
  BY DEF Early
<1>3. c.shipped = [Unasked(c) EXCEPT !.audit = "passed"].shipped
  BY DEF Unasked, Facts, FactRecords, Agree
<1> HIDE DEF Decide, Early
<1> QED BY <1>1, <1>2, <1>3 DEF ChainRun

\* The policy confirms nothing else.
LEMMA PolicyOnPath ==
  ASSUME NEW ch, NEW severity, NEW answered \in BOOLEAN, NEW a,
         ch.outcome = "not_shipped" => ch.facts.shipped = "build_only",
         Policy(ch.outcome, ch.facts, severity).label = "confirmed"
  PROVE  OnPath(ch, answered, a)
<1>1. ByExposure(ch.outcome, ch.facts, severity).label # "confirmed"
  BY DEF ByExposure, Rule
<1> HIDE DEF ByExposure
<1> QED BY <1>1 DEF Policy, Rule, Proven, OnPath

\* Nor does post-validation let anything else pass.
LEMMA GuardedOnPath ==
  ASSUME NEW v \in Verdicts, NEW ch, NEW a, Guarded(v, ch, a).label = "confirmed"
  PROVE  OnPath(ch, TRUE, a)
<1>1. v.label = "confirmed" /\ ~Unproven(ch, a)
  BY DoubtDoubts DEF Guarded
<1> QED BY <1>1 DEF Unproven, OnPath

PathInv ==
  /\ pc = "start" => chain = NoChain
  /\ chain # NoChain /\ verdict # NoAnswer /\ verdict.label = "confirmed"
       => OnPath(chain, raw # NoAnswer, raw)

\* A step that leaves the verdict confirmed had it confirmed on the same answer and chain.
LEMMA PathKept ==
  ASSUME DecisionInv, PathInv, pc' # "start", UNCHANGED chain,
         \/ verdict' = NoAnswer
         \/ verdict'.label # "confirmed"
         \/ UNCHANGED <<verdict, raw>>
  PROVE  PathInv'
BY DEF PathInv, OnPath

\* What validate leaves confirmed has a path.
LEMMA ValidateOnPath ==
  ASSUME DecisionInv, Validate, chain # NoChain, verdict'.label = "confirmed"
  PROVE  OnPath(chain, TRUE, raw)
<1>1. raw \in AnswerFacts /\ raw.sure \in BOOLEAN
  BY DecisionAssumption DEF DecisionInv, Staged, Validate, DecisionAssumption, AnswerFacts
<1>2. PICK low \in Low :
        verdict' = Settled(Guarded(Validated(raw, low), chain, raw),
                           PriorityOf(Guarded(Validated(raw, low), chain, raw).label,
                                      chain.outcome, chain.facts, finding.severity),
                           raw.sure)
  BY DEF Validate
<1> DEFINE v == Validated(raw, low)
           g == Guarded(v, chain, raw)
           rank == PriorityOf(g.label, chain.outcome, chain.facts, finding.severity)
<1>3. v \in Verdicts
  BY <1>1, <1>2, ValidatedVerdict DEF Low
<1> HIDE DEF v
<1>4. g \in Verdicts /\ (g.label = "confirmed" => OnPath(chain, TRUE, raw))
  BY <1>3, GuardedVerdict, GuardedOnPath
<1>5. verdict' = Settled(g, rank, raw.sure)
  BY <1>2 DEF v
<1> HIDE DEF g, rank
<1> QED BY <1>1, <1>4, <1>5, SettledVerdict

\* No step leaves a confirmed verdict without its path.
LEMMA PathNext == DecisionInv /\ DecisionInv' /\ PathInv /\ [Next]_vars => PathInv'
<1> SUFFICES ASSUME DecisionInv, DecisionInv', PathInv, [Next]_vars PROVE PathInv'
  OBVIOUS
<1>0. CASE UNCHANGED vars
  BY <1>0 DEF PathInv, OnPath, vars
<1>1. CASE /\ pc = "start" /\ UNCHANGED chain
  BY <1>1 DEF PathInv
<1>2. CASE ChainCloses
  BY <1>2 DEF ChainCloses, Write, PathInv
<1>3. CASE ChainDecides
  <2>1. PICK c \in Chains, final \in ClosuresFinal :
          /\ chain' = ChainRun(c, final)
          /\ RuleOf(ChainRun(c, final)).label \in {"confirmed", "false_positive"}
          /\ verdict'.label = RuleOf(ChainRun(c, final)).label
    BY <1>3 DEF ChainDecides, Write
  <2>2. c \in Facts
    BY DecisionAssumption DEF DecisionAssumption
  <2>3. chain'.outcome = "not_shipped" => chain'.facts.shipped = "build_only"
    BY <2>1, <2>2, NotShipped
  <2>4. verdict'.label = "confirmed" => OnPath(chain', raw' # NoAnswer, raw')
    BY <2>1, <2>3, PolicyOnPath DEF RuleOf
  <2>5. pc' = "done"
    BY <1>3 DEF ChainDecides, Write
  <2> QED BY <2>4, <2>5 DEF PathInv
<1>4. CASE ChainAsks
  BY <1>4 DEF ChainAsks, Open, Built, PathInv, DecisionInv, Staged
<1>5. CASE Walk \/ Ask \/ AskFails \/ Retrieve \/ Enough
  <2>1. pc' # "start" /\ UNCHANGED chain
    BY <1>5 DEF Walk, Ask, AskFails, Retrieve, Enough, Write
  <2>2. verdict' = NoAnswer \/ verdict'.label # "confirmed"
    <3>1. CASE AskFails
      BY <3>1 DEF AskFails, Write
    <3>2. CASE Walk \/ Ask \/ Retrieve \/ Enough
      BY <3>2 DEF Walk, Ask, Retrieve, Enough, DecisionInv, Staged
    <3> QED BY <1>5, <3>1, <3>2
  <2> QED BY <2>1, <2>2, PathKept
<1>6. CASE Validate
  <2>1. pc' # "start" /\ UNCHANGED <<chain, raw>>
    BY <1>6 DEF Validate
  <2>2. raw # NoAnswer
    <3>1. raw \in AnswerFacts
      BY <1>6, DecisionAssumption DEF Validate, DecisionInv, Staged, DecisionAssumption
    <3>2. raw.label \in Labels
      BY <3>1 DEF AnswerFacts
    <3>3. NoAnswer.label \notin Labels
      BY DEF NoAnswer, Labels
    <3> QED BY <3>2, <3>3
  <2>3. chain # NoChain /\ verdict'.label = "confirmed" => OnPath(chain, TRUE, raw)
    BY <1>6, ValidateOnPath
  <2> QED BY <2>1, <2>2, <2>3 DEF PathInv
<1>7. CASE Survives \/ ChallengeFails \/ Reread
  BY <1>7, PathKept DEF Survives, ChallengeFails, Reread
<1>8. CASE Objects
  <2>1. verdict' = verdict \/ verdict'.label = "unknown"
    BY <1>8 DEF Objects, DecisionInv, Staged, Verdicts
  <2> QED BY <1>8, <2>1, PathKept DEF Objects
<1>9. CASE Raise
  BY <1>9, PathKept DEF Raise, DecisionInv, Staged
<1>10. CASE \/ License \/ Misconfiguration \/ Secret \/ Precheck \/ Undeployed \/ Gate
            \/ NoChainAsked \/ ChainFails
  <2>1. pc = "start" /\ UNCHANGED chain
    BY <1>10, Zenon DEF License, Misconfiguration, Secret, Precheck, Undeployed, Gate,
         NoChainAsked, ChainFails, Open, Built
  <2> QED BY <1>1, <2>1
<1> QED BY <1>0, <1>2, <1>3, <1>4, <1>5, <1>6, <1>7, <1>8, <1>9, <1>10 DEF Next

\* A vulnerable dependency the chain looked at is confirmed, by the policy or by the model, only
\* on a path to the flaw, or as a risk of the build.
THEOREM ConfirmedReached == Spec => []ConfirmedOnPath
<1>1. Init => PathInv
  BY DEF Init, PathInv
<1>2. DecisionInv /\ PathInv => ConfirmedOnPath
  BY DEF DecisionInv, PathInv, OnPath, ConfirmedOnPath, Judged, NoAnswer
<1> QED BY <1>1, <1>2, PathNext, DecisionInvariant, PTL DEF Spec

-----------------------------------------------------------------------------
(* What no person looks at. *)

Trusted ==
  raw # NoAnswer /\ verdict.label = "false_positive" =>
    raw.sure \/ (finding.traced /\ raw.quotes = "shown" /\ ~raw.person)

PatchTask ==
  /\ verdict.label = "confirmed" /\ Severe(finding.severity)
  /\ decidedBy \in {"llm", "policy"} /\ ~finding.traced
  => IsDependency /\ (finding.fix \/ (chain # NoChain /\ chain.facts.build))

AloneInv ==
  /\ pc = "start" => chain = NoChain
  /\ chain # NoChain => IsDependency
  /\ verdict # NoAnswer /\ ~verdict.person => Trusted /\ PatchTask

\* The review by confidence alone, and the one that takes the priority into account.
LEMMA ReviewedAlone ==
  ASSUME NEW v \in Verdicts, NEW sure \in BOOLEAN, ~Reviewed(v, sure).person
  PROVE  /\ Reviewed(v, sure).label = v.label
         /\ v.label = "false_positive" => sure
         /\ v.label = "confirmed" /\ Severe(finding.severity) => finding.fix
<1>1. Reviewed(v, sure).label = v.label
  BY DEF Reviewed, Verdicts
<1>2. \/ ~((v.label = "unknown" \/ ~sure) \/ (v.label = "confirmed" /\ Severe(finding.severity)))
      \/ v.label = "confirmed" /\ finding.fix
  BY DEF Reviewed, Verdicts
<1> QED BY <1>1, <1>2

\* After the review by priority, too.
LEMMA SettledAlone ==
  ASSUME NEW v \in Verdicts, NEW ch, NEW sure \in BOOLEAN,
         ~Settled(v, PriorityOf(v.label, ch.outcome, ch.facts, finding.severity), sure).person
  PROVE  /\ v.label = "false_positive" => sure
         /\ v.label = "confirmed" /\ Severe(finding.severity) => finding.fix
<1> DEFINE rank == PriorityOf(v.label, ch.outcome, ch.facts, finding.severity)
<1>1. v.label = "confirmed" /\ Severe(finding.severity) => rank \in {"high", "medium"}
  BY DEF PriorityOf
<1> HIDE DEF rank
<1>2. /\ v.label = "false_positive" => sure
      /\ v.label = "confirmed" => ~(\/ rank \in {"critical", "high"} /\ Severe(finding.severity)
                                    \/ ~finding.fix /\ rank \in {"critical", "high", "medium"})
  <2>1. ~Settled(v, rank, sure).person
    BY DEF rank
  <2> QED BY <2>1 DEF Settled, Verdicts
<1> QED BY <1>1, <1>2

\* A fix is one of a dependency.
LEMMA FixOfDependency ==
  ASSUME finding \in Findings, finding.fix
  PROVE  IsDependency
BY DecisionAssumption DEF DecisionAssumption, FindingFacts, IsDependency

\* What validate answers was reviewed last.
LEMMA ReviewedAnswer ==
  ASSUME NEW a \in AnswerFacts, NEW low \in BOOLEAN
  PROVE  \E v \in Verdicts : Validated(a, low) = Reviewed(v, a.sure)
<1> DEFINE class == IF finding.signal /\ a.class = "test_placeholder" THEN "secret_value" ELSE a.class
           v == [label |-> a.label, class |-> class, person |-> a.person]
           w == IF a.label # "unknown" /\ (Refused(a) \/ low) THEN Doubt(v) ELSE v
<1>1. v \in Verdicts
  BY DEF AnswerFacts, Verdicts, Classes
<1>2. w \in Verdicts
  <2> HIDE DEF v
  <2> QED BY <1>1, DoubtDoubts
<1>3. Validated(a, low) = Reviewed(w, a.sure)
  BY DEF Validated
<1> HIDE DEF w
<1> QED BY <1>2, <1>3

\* The policy leaves a severe flaw without a person only as a risk of the build.
LEMMA PolicyAlone ==
  ASSUME NEW outcome, NEW c, NEW severity, Severe(severity),
         Policy(outcome, c, severity).label = "confirmed", ~Policy(outcome, c, severity).person
  PROVE  c.build
<1>1. ByExposure(outcome, c, severity).label # "confirmed"
  BY DEF ByExposure, Rule
<1> HIDE DEF ByExposure
<1> QED BY <1>1 DEF Policy, Rule

\* What validate leaves without a person is trusted, or a patch task.
LEMMA ValidateAlone ==
  ASSUME DecisionInv, Validate, ~verdict'.person
  PROVE  Trusted' /\ PatchTask'
<1>1. raw \in AnswerFacts /\ raw.sure \in BOOLEAN /\ finding \in Findings
  BY DecisionAssumption DEF DecisionInv, Staged, Shapes, Validate, DecisionAssumption, AnswerFacts
<1>2. PICK low \in Low :
        verdict' = IF chain = NoChain THEN Validated(raw, low)
                   ELSE Settled(Guarded(Validated(raw, low), chain, raw),
                                PriorityOf(Guarded(Validated(raw, low), chain, raw).label,
                                           chain.outcome, chain.facts, finding.severity),
                                raw.sure)
  BY DEF Validate
<1>3. UNCHANGED <<raw, finding, chain>>
  BY DEF Validate
<1>4. /\ verdict'.label = "false_positive" => raw.sure
      /\ verdict'.label = "confirmed" /\ Severe(finding.severity) => finding.fix
  <2>1. CASE chain = NoChain
    <3>1. PICK v \in Verdicts : verdict' = Reviewed(v, raw.sure)
      BY <1>1, <1>2, <2>1, ReviewedAnswer DEF Low
    <3> QED BY <1>1, <3>1, ReviewedAlone
  <2>2. CASE chain # NoChain
    <3> DEFINE g == Guarded(Validated(raw, low), chain, raw)
               rank == PriorityOf(g.label, chain.outcome, chain.facts, finding.severity)
    <3>1. g \in Verdicts
      BY <1>1, <1>2, ValidatedVerdict, GuardedVerdict DEF Low
    <3>2. verdict' = Settled(g, rank, raw.sure)
      BY <1>2, <2>2
    <3> HIDE DEF g
    <3>3. verdict'.label = g.label
      BY <1>1, <3>1, <3>2, SettledVerdict
    <3> QED BY <1>1, <3>1, <3>2, <3>3, SettledAlone
  <2> QED BY <2>1, <2>2
<1>5. Trusted'
  BY <1>3, <1>4 DEF Trusted
<1>6. PatchTask'
  BY <1>1, <1>3, <1>4, FixOfDependency DEF PatchTask, IsDependency
<1> QED BY <1>5, <1>6

\* No later step sends less to a person.
LEMMA AloneNext == DecisionInv /\ AloneInv /\ [Next]_vars => AloneInv'
<1> SUFFICES ASSUME DecisionInv, AloneInv, [Next]_vars PROVE AloneInv'
  OBVIOUS
<1>0. CASE UNCHANGED <<pc, verdict, raw, finding, chain, decidedBy>>
  BY <1>0 DEF AloneInv, Trusted, PatchTask, IsDependency
<1>1. ASSUME pc = "start", UNCHANGED <<finding, chain, raw>>,
             verdict' = verdict \/ decidedBy' \notin {"llm", "policy"} \/ finding.traced
      PROVE  AloneInv'
  BY <1>1 DEF AloneInv, Trusted, PatchTask, IsDependency, DecisionInv, Staged
<1>2. CASE License \/ Misconfiguration \/ Secret \/ Precheck \/ Undeployed
  <2>1. pc = "start" /\ UNCHANGED <<finding, chain, raw, priority, ask>>
    BY <1>2, Zenon DEF License, Misconfiguration, Secret, Precheck, Undeployed, Built
  <2>2. decidedBy' \in {"heuristics", "post_validation"}
    BY <1>2, Zenon DEF License, Misconfiguration, Secret, Precheck, Undeployed, Write
  <2> QED BY <1>1, <2>1, <2>2
<1>3. CASE Gate
  <2>1. pc = "start" /\ finding.traced /\ UNCHANGED <<finding, chain>> /\ pc' = "done"
    BY <1>3 DEF Gate, Open, Built, Write
  <2>2. CASE UNCHANGED raw
    BY <1>1, <2>1, <2>2
  <2>3. CASE \E a \in Answers :
               /\ a.label = "false_positive" /\ a.quotes = "shown" /\ raw' = a
               /\ Write("false_positive", a.class, a.person, "post_validation")
    <3>1. verdict'.label = "false_positive" /\ raw'.quotes = "shown" /\ verdict'.person = raw'.person
      BY <2>3 DEF Write
    <3> QED BY <2>1, <3>1 DEF AloneInv, Trusted, PatchTask, IsDependency
  <2> QED BY <1>3, <2>2, <2>3 DEF Gate
<1>4. CASE NoChainAsked \/ ChainFails
  <2>1. pc = "start" /\ UNCHANGED <<verdict, finding, chain, raw>>
    BY <1>4, Zenon DEF NoChainAsked, ChainFails, Open, Built
  <2> QED BY <1>1, <2>1
<1>5. CASE ChainCloses
  <2>1. /\ pc' = "done" /\ decidedBy' = "heuristics" /\ UNCHANGED <<finding, raw>>
        /\ IsDependency /\ raw = NoAnswer
    BY <1>5 DEF ChainCloses, Write, Open, Built, HasChain, DecisionInv, Staged
  <2> QED BY <2>1 DEF AloneInv, Trusted, PatchTask, IsDependency
<1>6. CASE ChainDecides
  <2>1. PICK c \in Chains, final \in ClosuresFinal :
          /\ chain' = ChainRun(c, final)
          /\ verdict'.label = RuleOf(ChainRun(c, final)).label
          /\ verdict'.person = RuleOf(ChainRun(c, final)).person
    BY <1>6 DEF ChainDecides, Write
  <2>2. /\ pc' = "done" /\ UNCHANGED <<finding, raw>> /\ IsDependency /\ raw = NoAnswer
    BY <1>6 DEF ChainDecides, Write, Open, Built, HasChain, DecisionInv, Staged
  <2>3. RuleOf(ChainRun(c, final)).label = "confirmed" /\ ~RuleOf(ChainRun(c, final)).person
        /\ Severe(finding.severity) => ChainRun(c, final).facts.build
    BY PolicyAlone DEF RuleOf
  <2>4. verdict'.label = "confirmed" /\ Severe(finding.severity) /\ ~verdict'.person
          => chain'.facts.build
    BY <2>1, <2>3
  <2>5. chain' # NoChain
    BY <2>1 DEF ChainRun, NoChain
  <2> QED BY <2>2, <2>4, <2>5 DEF AloneInv, Trusted, PatchTask, IsDependency
<1>7. CASE ChainAsks
  BY <1>7 DEF ChainAsks, Open, Built, HasChain, AloneInv, DecisionInv, Staged, IsDependency
<1>8. CASE Raise
  BY <1>8 DEF Raise, AloneInv, Trusted, PatchTask, IsDependency
<1>9. CASE Walk \/ Ask \/ Retrieve \/ Enough
  <2>1. pc' # "start" /\ UNCHANGED <<finding, chain>> /\ verdict' = NoAnswer
    BY <1>9 DEF Walk, Ask, Retrieve, Enough, DecisionInv, Staged
  <2> QED BY <2>1 DEF AloneInv, IsDependency
<1>10. CASE AskFails
  BY <1>10 DEF AskFails, Write, AloneInv, IsDependency
<1>11. CASE Validate
  <2>1. pc' # "start" /\ UNCHANGED <<finding, chain>>
    BY <1>11 DEF Validate
  <2> QED BY <1>11, <2>1, ValidateAlone DEF AloneInv, IsDependency
<1>12. CASE Survives \/ ChallengeFails \/ Reread
  <2>1. pc' # "start" /\ UNCHANGED <<verdict, raw, finding, chain, decidedBy>>
    BY <1>12 DEF Survives, ChallengeFails, Reread
  <2> QED BY <2>1 DEF AloneInv, Trusted, PatchTask, IsDependency
<1>13. CASE Objects
  <2>1. /\ pc' # "start" /\ UNCHANGED <<raw, finding, chain>>
        /\ decidedBy' \in {decidedBy, "challenged"}
        /\ verdict' = verdict \/ verdict'.person
    BY <1>13 DEF Objects, DecisionInv, Staged, Verdicts
  <2> QED BY <2>1 DEF AloneInv, Trusted, PatchTask, IsDependency
<1> QED BY <1>0, <1>2, <1>3, <1>4, <1>5, <1>6, <1>7, <1>8, <1>9, <1>10, <1>11, <1>12, <1>13
        DEF Next, vars

\* What no person looks at: a finding the model closes is one it is sure of, or a traced one it
\* refutes with exact quotes and without asking for a person; and a flaw of high severity is a
\* patch task, a dependency with a fix or a risk of the build alone.
THEOREM NobodyNeeded == Spec => []DecidedAlone
<1>1. Init => AloneInv
  BY DEF Init, AloneInv
<1>2. DecisionInv /\ AloneInv => DecidedAlone
  BY DEF DecisionInv, AloneInv, Trusted, PatchTask, DecidedAlone, Judged, NoAnswer
<1> QED BY <1>1, <1>2, AloneNext, DecisionInvariant, PTL DEF Spec
=============================================================================
