--------------------------------- MODULE Chain ---------------------------------
(***************************************************************************)
(* The chain of checks over one dependency finding, run of                 *)
(* sca/chain/orchestration.py: the call graph, the advisory, the version,  *)
(* how the package ships, what the deployment owns, the vulnerable         *)
(* function, the calls of it, their receiver, input into them, the         *)
(* condition, whether the package is used, and the check of what would     *)
(* close the finding.                                                      *)
(*                                                                         *)
(* A world is the project as it really is; each step asks a tool or the    *)
(* model about it, and gets what that tool can see of it or no answer.     *)
(* What the model says counts only with a quote the code finds in what it  *)
(* was shown: such an answer is taken to be right about what is quoted, a  *)
(* refused one is no answer.  Decide and Policy (Dependency) turn the      *)
(* facts gathered into an outcome.                                         *)
(***************************************************************************)
EXTENDS Dependency, Packages, Resolve, FiniteSets

CONSTANTS Worlds,  \* projects and advisories
          Setups   \* what the run has: tools and settings

VARIABLES pc, w, s, c, x, result
vars == <<pc, w, s, c, x, result>>

\* What really calls the flaw: the project, through packages that are loaded and lead to it, the
\* framework or the package itself (framework, registered), or a form no check sees (hidden).
Calls(v, p)  == v.own[p] = "plain" \/ (v.own[p] = "unbound" /\ v.receiver # "other")
Called(v)    == \E p \in PackageSet : Loaded(v.g, p) /\ Calls(v, p) /\ LeadsTo(v.b, p)
Reached(v)   == Called(v) \/ ((v.framework \/ v.registered) /\ Loaded(v.g, Flawed))
InputReaches(v) == v.driven => v.input # "none"
Exploitable(v) ==
  /\ Affected(v.adv, v.version) /\ ~v.excluded
  /\ v.hidden \/ Reached(v)
  /\ InputReaches(v) /\ (v.condition # "none" => v.met)

\* A world w: the graph g and the code b of its packages (Packages); own, how the project's
\* production code calls the function of a package that leads to the flaw, and the packages where that
\* function has a name like get or parse (common); the advisory, as its versions (adv), its text (a),
\* whether its fix can be read, whether it hurts the build by itself or where that runs foreign
\* code (build) and whether the flaw needs another one (gadget: its text says so, or only its
\* condition); the call graph a scanner brings.
Uses == {"no", "plain", "unbound", "mention", "tests"}
World(v) ==
  /\ Versions(v.adv) /\ v.version \in 0..Unread /\ v.a \in Advisories
  /\ Project(v.g) /\ CodeOf(v.g, v.b) /\ v.own \in [PackageSet -> Uses]
  /\ v.input \in {"none", "flows", "elsewhere", "reads"} \* elsewhere: into another call of it
  /\ v.receiver \in {"flawed", "other", "late"} \* of unbound calls; late: after MaxHits others
  /\ v.condition \in {"none", "text", "detector", "external"} /\ v.common \subseteq PackageSet
  /\ v.build \in {"no", "package", "execution"} /\ v.gadget \in {"no", "text", "condition"}
  /\ v.graph \in {"none", "scanner", "go"} /\ v.modules \in Seq({"called", "imported", "absent"})
  /\ \A p \in PackageSet : v.own[p] \in {"plain", "unbound"} => p \in v.g.imports
  /\ v.graph = "go" => /\ ~v.g.js /\ v.modules # << >>
                       /\ Reached(v) <=> \E i \in DOMAIN v.modules : v.modules[i] = "called"
  /\ {v.driven, v.met, v.words, v.excluded, v.framework, v.registered, v.hidden,
      v.stem, v.klass, v.internal, v.renamed} \subseteq BOOLEAN
  /\ v.renamed => ~v.g.js /\ Flawed \notin v.b.sources

ASSUME ChainAssumption ==
  /\ \A v \in Worlds : World(v)
  /\ \A t \in Setups : /\ {t.model, t.engine, t.lsp, t.final, t.untrusted} \subseteq BOOLEAN
                       /\ t.answers \subseteq ModelAnswers

-----------------------------------------------------------------------------
Facts0(v) ==
  [version |-> "affected", shipped |-> "unknown", excluded |-> FALSE, graph |-> "none",
   go |-> FALSE, audit |-> "failed", receiver |-> FALSE, flow |-> "open", driven |-> v.driven,
   used |-> "open", path |-> "unlisted", direct |-> Flawed \in Starts(v.g), condition |-> "none",
   uncalled |-> FALSE, symbol |-> "unusable", found |-> "unsearched", reach |-> FALSE,
   named |-> FALSE, bound |-> FALSE, missing |-> FALSE, evidence |-> "none", resolved |-> TRUE,
   bridge |-> "none", build |-> FALSE, gadget |-> FALSE]

\* x: the advisory as it was read, the symbol, the package whose functions are searched for, the
\* claim that nothing calls them, whether an engine or the model's own search answered, the name
\* that matched.
Locals0(v) == [a |-> v.a, symbol |-> NoSymbol, through |-> Flawed,
               claim |-> "none", api |-> FALSE, reached |-> FALSE, matched |-> "none"]

Init == /\ pc = "graph" /\ result = << >> /\ w \in Worlds /\ s \in Setups
        /\ c = Facts0(w) /\ x = Locals0(w)

Step(from, to) == pc = from /\ pc' = to /\ UNCHANGED <<w, s>>
Note(from, to, facts) == Step(from, to) /\ c' = facts /\ UNCHANGED <<x, result>>
End(from, outcome, facts) ==
  Step(from, "done") /\ result' = <<[outcome |-> outcome, facts |-> facts]>> /\ UNCHANGED <<c, x>>

ModelSays == s.model \* a question to the model may be answered

-----------------------------------------------------------------------------
(* Before the chain looks at the code. *)

\* govulncheck: of the modules that could be checked, the strongest answer; _reachability_for takes
\* it, else the scanner's own, else there is no call graph.
Checks(modules) == SUBSET DOMAIN modules \* a module whose check fails is left out
Strongest(modules, checked) ==
  IF \E i \in checked : modules[i] = "called" THEN "reached"
  ELSE IF \E i \in checked : modules[i] = "imported" THEN "unreached" ELSE "none"

CallGraph ==
  \/ /\ w.graph = "go"
     /\ \E checked \in Checks(w.modules) : LET answer == Strongest(w.modules, checked) IN
          Note("graph", "advisory", [c EXCEPT !.graph = answer, !.go = answer # "none"])
  \/ /\ w.graph = "scanner"
     /\ Note("graph", "advisory", [c EXCEPT !.graph = IF Reached(w) THEN "reached" ELSE "unreached"])
  \/ w.graph = "none" /\ Note("graph", "advisory", c)

\* The databases, of which any may not answer, however often it is asked.  OSV is asked what
\* affects the installed version, GHSA and NVD for the advisory; NVD knows no function, path or range.
Databases   == {"osv", "ghsa", "nvd"}
FromOsv(v)  == IF Affected(v.adv, v.version) THEN {v.a} ELSE {}
FromGhsa(v) == {v.a}
FromNvd(v)  == {[v.a EXCEPT !.symbols = "none", !.paths = FALSE]}
Nothing(v)  == [v.a EXCEPT !.symbols = "none", !.paths = FALSE, !.fixes = FALSE, !.named = << >>,
                           !.changed = << >>, !.text = FALSE]

\* adv.collect: NVD is asked only where no other database has a text.
Whole(v, answered) ==
  (IF "osv" \in answered THEN FromOsv(v) ELSE {}) \cup (IF "ghsa" \in answered THEN FromGhsa(v) ELSE {})
Known(v, answered) ==
  IF Whole(v, answered) # {} THEN v.a
  ELSE IF "nvd" \in answered THEN CHOOSE a \in FromNvd(v) : TRUE ELSE Nothing(v)

\* What the policy reads in the advisory: that it hurts the build, that the flaw needs another one.
TextRead(answered) == Whole(w, answered) # {} \/ ("nvd" \in answered /\ w.a.text)
IsBuildRisk(answered) ==
  TextRead(answered) /\ (w.build = "package" \/ (w.build = "execution" /\ s.untrusted))
NeedsOther(answered) == TextRead(answered) /\ w.a.text /\ w.gadget = "text"

\* versions.check: a version outside every range ends the chain.
Version ==
  pc = "advisory" /\
  \E answered \in SUBSET Databases :
    LET state == IF Whole(w, answered) # {} THEN VersionState(w.adv, w.version) ELSE "unclear"
        read  == [c EXCEPT !.version = state, !.build = IsBuildRisk(answered),
                           !.gadget = NeedsOther(answered)] IN
    IF state = "unaffected"
      THEN End("advisory", "version_unaffected", Unplaced(read))
      ELSE /\ Step("advisory", "ship") /\ c' = read
           /\ x' = [x EXCEPT !.a = Known(w, answered)] /\ UNCHANGED result

\* package_usage, import_path_used: is a package, or the advisory's path, named in the code?  An
\* import in production code that CodeQL sees counts before the text.
\* Code may call a package by another name than its manifests do: only a PHP package that is
\* installed says so itself (package_namespaces, installed_namespaces).
Nameable(p) == ~(w.renamed /\ p = Flawed)
TextUsage(p) ==
  IF Nameable(p) /\ (p \in w.g.imports \/ w.own[p] = "mention") THEN "yes"
  ELSE IF Nameable(p) /\ p \in w.g.tests THEN "tests" ELSE "no"
Usage(p) == IF s.engine /\ Nameable(p) /\ p \in w.g.imports THEN "yes" ELSE TextUsage(p)
PathUsed(paths) ==
  IF ~paths THEN "unlisted" ELSE IF w.internal THEN "open"
  ELSE IF Flawed \in w.g.imports THEN "imported" ELSE "absent"

\* _framework_invoked: then "nothing names it" says nothing.
Opened(value) == IF w.framework /\ value \in {"no", "tests", "absent"} THEN "open" ELSE value

\* Shipping, and under closures_final what the scripts close by themselves.
Ship ==
  pc = "ship" /\
  LET placed == [c EXCEPT !.shipped = Shipped(w.g, Flawed)]
      path   == Opened(PathUsed(x.a.paths))
      seen   == [placed EXCEPT !.path = path,
                               !.used = IF path \in {"imported", "absent"} THEN "open"
                                        ELSE Opened(Usage(Flawed))]
  IN IF s.final /\ Early(seen) # "none"
       THEN End("ship", Early(seen), [Unasked(seen) EXCEPT !.audit = "passed"])
       ELSE Note("ship", "exclude", placed)

\* components.classify: a component the platform does not run, quoted from the advisory.
Exclude ==
  \/ ModelSays /\ w.excluded /\ End("exclude", "infrastructure", Unplaced([c EXCEPT !.excluded = TRUE]))
  \/ Note("exclude", "resolve", c)

\* _resolve_symbol: the fix may not be fetched, the model may fail at any prompt or not be there.
Answers == IF s.model THEN s.answers
           ELSE {[first |-> Failed, second |-> Failed, context |-> Failed, guess |-> "none"]}
Resolve ==
  pc = "resolve" /\
  \E m \in Answers, fetched \in BOOLEAN :
    LET diff   == Diff(x.a, fetched)
        symbol == Resolved(x.a, diff, Flawed \in w.b.sources, m) IN
    /\ Step("resolve", "callsite")
    /\ x' = [x EXCEPT !.symbol = symbol]
    /\ c' = [c EXCEPT !.named = symbol.fn # "none", !.missing = symbol.missing,
                      !.symbol = IF ~symbol.distributed THEN "undistributed"
                                 ELSE IF Usable(symbol) THEN "usable" ELSE "unusable"]
    /\ UNCHANGED result

\* The check of a closure's blind spot: the model searches for what it cannot see, and is taken to
\* find it where it is.  The profile may accept the closure without.
AuditAnswers(kind) ==
  IF kind \in s.skip THEN {"passed"}
  ELSE {"failed"} \cup (IF ModelSays THEN {"reopened"} \cup (IF w.hidden THEN {} ELSE {"passed"})
                        ELSE {})

\* exploitable.assess reads the call sites of a traced path: a quoted reason lowers the finding,
\* unless a call on the path reads the request itself.  unreached.audit checks an untraced one.
Untraced == AuditAnswers("not_reached")
Lowered ==
  w.input # "reads" /\ ((w.driven /\ w.input = "none") \/ (w.condition # "none" /\ ~w.met))
CallSite ==
  \/ c.graph = "reached" /\ ModelSays /\ Lowered
     /\ Note("callsite", "bridge", [c EXCEPT !.graph = "lowered"])
  \/ c.graph # "unreached" /\ Note("callsite", "bridge", c)
  \/ c.graph = "unreached"
     /\ \E answer \in Untraced :
          Note("callsite", "bridge", [c EXCEPT !.audit = answer])

-----------------------------------------------------------------------------
(* The calls. *)

\* _bridge: do the packages that brought it here lead to the function?  A name that is not the
\* flaw's is called by no package.
BridgeSays(symbol) ==
  IF symbol.fn = "none" \/ ~symbol.distributed THEN {[says |-> "none", through |-> Flawed]}
  ELSE LET bridge == Bridge(w.g, w.b) IN
       IF symbol.fn = "flaw" \/ bridge.says = "none" THEN {bridge}
       ELSE {[says |-> says, through |-> Flawed] : says \in {"no", "unchecked"}}

AskBridge ==
  /\ Step("bridge", "investigate") /\ UNCHANGED result
  /\ \E bridge \in BridgeSays(x.symbol) :
    /\ c' = [c EXCEPT !.bridge = bridge.says,
                      !.found = IF bridge.says = "no" THEN "absent" ELSE @]
    /\ x' = [x EXCEPT !.through = bridge.through]

\* What was found, by what: an engine's answer or the model's, `matched` the name it was found under.
Find(from, to, found, evidence, api, matched) ==
  /\ Step(from, to) /\ UNCHANGED result
  /\ c' = [c EXCEPT !.found = found, !.evidence = evidence]
  /\ x' = [x EXCEPT !.api = api, !.matched = matched]

\* The model's own questions (Investigation): a call that was found, or no caller at all.
Investigates ==
  /\ ModelSays /\ x.symbol.fn # "none" /\ (s.engine \/ s.lsp) /\ c.bridge # "no"
  /\ c.symbol # "undistributed" /\ c.shipped \notin {"build_only", "image_only"}
Investigate ==
  \/ /\ Investigates /\ x.symbol.fn = "flaw" /\ w.own[x.through] = "plain"
     /\ \E byEngine \in {s.engine, FALSE} :
          /\ byEngine \/ s.lsp
          /\ Find("investigate", "search", "called", IF byEngine THEN "engine" ELSE "import",
                  byEngine, IF x.through = Flawed THEN "flaw" ELSE "parent")
  \/ /\ Investigates /\ s.lsp /\ Flawed \in w.b.sources
     /\ x.symbol.fn = "flaw" => ~Calls(w, x.through)
     /\ Step("investigate", "search") /\ x' = [x EXCEPT !.claim = "closed"] /\ UNCHANGED <<c, result>>
  \/ Note("investigate", "search", c)
  \/ /\ Investigates /\ s.engine /\ w.own[x.through] = "plain" /\ w.input = "flows"
     /\ Step("investigate", "search") /\ x' = [x EXCEPT !.reached = TRUE] /\ UNCHANGED <<c, result>>

\* search: the engine first, then the text.  The text is read for calls bound to the package of the
\* finding, also when the functions are a parent's.  A call that is not bound counts only where its
\* name is not a common one (is_ubiquitous).
Targets == IF x.through # Flawed THEN {"parent"}
           ELSE {x.symbol.names[i] : i \in DOMAIN x.symbol.names} \ {"none"}
BoundTo(p) == w.own[p] = "plain" /\ p = Flawed /\ Nameable(p)
Unbound(p) == IF p \in w.common THEN "absent" ELSE "unconfirmed"
TextFinds(p) ==
  CASE BoundTo(p) -> "called"
    [] w.own[p] \in {"plain", "unbound"} /\ ~BoundTo(p) -> Unbound(p)
    [] w.own[p] = "tests" -> IF p = Flawed THEN "tests" ELSE Unbound(p)
    [] w.own[p] = "mention" -> "referenced"
    [] OTHER -> "absent"
EvidenceOf(found) ==
  IF found \in {"absent", "unsearched"} THEN "none" ELSE IF found = "unconfirmed" THEN "name" ELSE "import"

Looks(from, to, targets, lead) ==
  LET name == IF x.through # Flawed THEN "parent" ELSE "flaw"
      text == IF ~x.symbol.distributed /\ ~lead THEN "unsearched"
              ELSE IF name \in targets THEN TextFinds(x.through) ELSE "absent" IN
  \/ /\ s.engine /\ name \in targets /\ w.own[x.through] = "plain" /\ text # "unsearched"
     /\ Find(from, to, "called", "engine", TRUE, name)
  \/ Find(from, to, text, EvidenceOf(text), FALSE,
          IF text \in {"unsearched", "absent"} THEN x.matched ELSE name)

Search ==
  \/ /\ c.found = "unsearched" /\ Targets # {} /\ Looks("search", "lastresort", Targets, FALSE)
  \/ /\ c.found # "unsearched" \/ Targets = {}
     /\ Note("search", "lastresort", c)

\* _last_resort: entry points the model names, as a lead.
LastResort ==
  \/ /\ c.found = "absent" /\ c.bridge # "no" /\ c.direct /\ c.symbol = "usable" /\ ModelSays
     /\ ~x.symbol.guess /\ ~x.symbol.listed
     /\ Looks("lastresort", "entries", {"flaw"}, TRUE)
  \/ Note("lastresort", "entries", c)

\* _entry_point_check: every public entry to the function, asked of the engine at once.
Entries(symbol) == symbol.fn \in {"flaw", "bypassed"} /\ Flawed \in w.b.sources /\ w.b.entry
EntryCheck ==
  \/ /\ c.found = "absent" /\ c.named /\ x.symbol.distributed /\ x.through = Flawed
     /\ c.bridge # "no" /\ s.engine /\ Entries(x.symbol)
     /\ IF x.symbol.fn = "flaw" /\ w.own[Flawed] = "plain"
          THEN Find("entries", "invisible", "called", "engine", TRUE, "flaw")
          ELSE /\ Step("entries", "invisible") /\ UNCHANGED <<c, result>>
               /\ x' = [x EXCEPT !.claim = "closed"]
  \/ Note("entries", "invisible", c)

\* What may call it and is no code of the project: the framework, the package itself, another one.
ReopenedBySelf ==
  \/ w.framework
  \/ w.registered /\ x.symbol.fn = "flaw" /\ Flawed \in w.b.sources
Reopened == ReopenedBySelf \/ (c.bridge # "no" /\ Dependents(w.g, Flawed) # {})
Invisible ==
  Note("invisible", "receiver", [c EXCEPT !.uncalled = x.claim = "closed" /\ ~Reopened])

-----------------------------------------------------------------------------
(* Calls of the name whose receiver is not known. *)

\* Whose definition do they have?  One inside the package of the finding, or in a file named after
\* the class, is a call of it.  Only the first MaxHits calls are looked at.
Real    == w.own[x.through] = "plain" \/ w.receiver = "flawed"
Matches == Real /\ (x.through = Flawed \/ w.stem)

\* Every one of them leads elsewhere: without a definition for each, an argument and no proof.
Disproves == s.lsp /\ ~Matches /\ Flawed \in w.b.sources

\* The class the container's configuration gives the receiver.  The model quotes what it is.
Configured     == Real
ModelDisagrees == ModelSays /\ ~Real

Receiver ==
  \/ Note("receiver", "flow", c)
  \/ /\ c.found = "unconfirmed" /\ w.klass
     /\ \/ /\ Matches \/ Configured
           /\ Note("receiver", "flow", [c EXCEPT !.found = "called", !.evidence = "import"])
        \/ /\ Disproves
           /\ Note("receiver", "flow", [c EXCEPT !.found = "absent", !.evidence = "none",
                                                 !.receiver = TRUE])
        \/ /\ ModelDisagrees
           /\ Note("receiver", "flow", [c EXCEPT !.found = "absent", !.evidence = "none"])

\* Input into the call: the engine's flow for the name that matched, else CodeQL's for the places
\* found; the code of a test gets none.  A call that reads the request itself makes an absence say
\* nothing.
FlowAnswer ==
  IF w.input = "flows" /\ w.own[x.through] # "tests" THEN "found" ELSE "absent"
Withdrawn(flow) == IF flow = "absent" /\ w.input = "reads" THEN "open" ELSE flow
Flow ==
  pc = "flow" /\
  LET places == c.found \in {"called", "tests"}
      asked  == IF s.engine /\ places THEN {"open", FlowAnswer} ELSE {"open"} IN
  \E answer \in asked :
    Note("flow", "reach", [c EXCEPT !.flow = Withdrawn(IF x.reached THEN "found" ELSE answer)])

\* reach.assess: an entry point above the call and a path of input into it.
EntryAbove == s.lsp
InputSeen  == w.input # "none"
Reach ==
  \/ /\ c.found = "called" /\ c.driven /\ c.flow = "open"
     /\ EntryAbove /\ InputSeen /\ Note("reach", "condition", [c EXCEPT !.reach = TRUE])
  \/ Note("reach", "condition", c)

-----------------------------------------------------------------------------
(* The condition, the use of the package, the check of the closure. *)

\* conditions.check and, for what the code cannot tell, the deployment's declared facts.
DeploymentAnswers ==
  IF ~ModelSays THEN {} ELSE IF w.met THEN {"holds"} ELSE {"absent", "infrastructure"}
ConditionAnswers ==
  IF ~x.symbol.condition THEN {"none"}
  ELSE CASE w.condition = "none"     -> {"none"}
         [] w.condition = "text"     -> {"none", IF w.words THEN "holds" ELSE "text_absent"}
         [] w.condition = "detector" -> {"none", IF w.met THEN "holds" ELSE "absent"}
         [] OTHER -> {"none", "external"} \cup DeploymentAnswers
\* The statement of the condition may say, or not, that another flaw has to come first.
Condition ==
  \E answer \in ConditionAnswers, says \in BOOLEAN :
    Note("condition", "usage",
         [c EXCEPT !.condition = answer,
                   !.gadget = @ \/ (says /\ answer # "none" /\ w.gadget = "condition")])

\* A finding that is settled already is not asked about; where the advisory's path of a direct
\* package decides, its name is not.
UsageAlways(settled, path, used) == [c EXCEPT !.path = path, !.used = used] \* fault: both are asked
UsageOf(settled, path, used) ==
  LET asked == IF settled /\ path # "unlisted" THEN "open" ELSE path IN
  [c EXCEPT !.path = Opened(asked),
            !.used = IF settled \/ (c.direct /\ asked \in {"imported", "absent"}) THEN "open"
                     ELSE Opened(used)]
UsageStep ==
  pc = "usage" /\
  LET settled == c.receiver \/ c.shipped = "build_only" IN
  Note("usage", "audit", UsageOf(settled, PathUsed(x.symbol.paths), Usage(x.through)))

\* audit_closure
Audit ==
  pc = "audit" /\
  LET kind == Rechecked(c) IN
  \/ kind \in {"none", "not_reached"} /\ Note("audit", "decide", c)
  \/ /\ kind \notin {"none", "not_reached"}
     /\ \E answer \in AuditAnswers(kind) : Note("audit", "decide", [c EXCEPT !.audit = answer])

\* verdict.decide, over what was found.
Bound == x.matched = x.symbol.fn \/ (x.matched = "flaw" /\ Entries(x.symbol) /\ x.api)
TextRoute == c.graph = "none" /\ ~x.api /\ c.flow = "open" /\ c.symbol = "usable"
Conclude ==
  pc = "decide" /\
  LET facts == [c EXCEPT !.bound = c.named /\ x.matched # "none" /\ Bound,
                         !.resolved = ~TextRoute \/ c.evidence \in {"import", "engine"}] IN
  End("decide", Decide(facts), facts)

Done == pc = "done" /\ UNCHANGED vars

Next == \/ CallGraph \/ Version \/ Ship \/ Exclude \/ Resolve \/ CallSite \/ AskBridge
        \/ Investigate \/ Search \/ LastResort \/ EntryCheck \/ Invisible \/ Receiver \/ Flow
        \/ Reach \/ Condition \/ UsageStep \/ Audit \/ Conclude \/ Done

Spec == Init /\ [][Next]_vars

-----------------------------------------------------------------------------
(* What the chain is blind to: the ways in which it closes what is exploitable. *)

Facts1  == result[1].facts
Ended1(outcomes) == result # << >> /\ result[1].outcome \in outcomes

\* The application runs what its manifests declare for it, and its lock file tells the peers.
PeersRead(g)  == \A p \in PackageSet : g.peers[p] \subseteq Requires(g, p)
AsDeclared(g) ==
  /\ PeersRead(g) /\ Entered(g) \subseteq Starts(g)
  /\ \A p \in PackageSet : Loaded(g, p) => Scope(g, p) # "dev"

\* The closure rests on the project's own calls of one function, and another package that is loaded
\* leads to the flaw; to one that is not called only where more is loaded than was asked about.
OwnCalls == {"condition_absent", "unused", "test_only_import", "wrong_receiver", "only_in_tests"}
ByAnother ==
  /\ Ended1(OwnCalls) \/ (Ended1({"not_called"}) /\ ~AsDeclared(w.g))
  /\ \E p \in PackageSet \ {x.through} : Loaded(w.g, p) /\ Calls(w, p) /\ LeadsTo(w.b, p)
\* Or the framework or the package itself runs it: only "not called" is reopened for both, and "not
\* named" for the framework.
BySelf ==
  \/ /\ w.framework \/ w.registered
     /\ Facts1.bridge = "no" \/ Ended1({"condition_absent", "wrong_receiver", "only_in_tests"})
  \/ w.registered /\ Ended1({"unused", "test_only_import"})
\* placement keeps one way to each requirement, the bridge reads no other.
ByAnotherWay ==
  LET ways == Introductions(w.g, Flawed) IN
  Facts1.bridge = "no" /\ Called(w) /\ \A i \in DOMAIN ways : Broken(w.b, ways[i])
\* Everything the application imports or starts is read, and every requirement.
AllRead == Entered(w.g) = Scanned(w.g) \cup Started(w.g) /\ PeersRead(w.g)
\* roots_of stops at a package the project also requires itself; a lock file that is not npm's has
\* no peers; a file may be too large, or a script too deep, to be read; without a Dockerfile nothing
\* says what is started; the imports of some ecosystems, and those of packages no manifest asks for,
\* lead nowhere.
ByAnotherRoot ==
  /\ Facts1.shipped \in {"build_only", "image_only"} /\ Loaded(w.g, Flawed)
  /\ \/ ~w.g.js \/ ~AllRead \/ ~(Entered(w.g) \subseteq Starts(w.g))
     \/ \E r \in RootsOf(w.g, Flawed) : Loaded(w.g, r) /\ r \notin Entered(w.g)
\* The code imports it under a name that is not its own.
Unnamed1 == ~Nameable(Flawed) /\ Ended1({"unused", "test_only_import"})
\* A call no check sees, and nobody was asked about it.
Unasked1 == w.hidden /\ (s.final \/ Rechecked(Facts1) \in s.skip \/ Rechecked(Facts1) = "none"
                         \/ ~Ended1(AuditGated \ {"not_called"}))
\* The function that was searched for is not the flaw's, or the file of the flaw is said, without a
\* quote, to be one that is not installed.
Misnamed == x.symbol.fn \notin {"flaw", "none"} \/ ~x.symbol.distributed
\* A Go module that calls it could not be checked, and another one that imports it was.
OtherModule ==
  /\ Facts1.go /\ Facts1.graph = "unreached"
  /\ {"called", "imported"} \subseteq {w.modules[i] : i \in DOMAIN w.modules}
\* The calls resolved are not all there are, or are of a parent's function.
OtherReceiver == Facts1.receiver /\ (w.receiver = "late" \/ x.through # Flawed)
\* Input goes into another call of the function than the first one that matched.
OtherCall == w.input = "elsewhere" /\ Facts1.flow = "absent"

\* The flaw needs another one: nobody asks whether the project has it.  Exploitable does not either:
\* it counts such a flaw as exploitable, as if the other one were there.
ByModel == {"actual", "present", "call_unconfirmed", "mentioned", "no_direct_call", "undecided",
            "infrastructure"}
Gadget == Facts1.gadget /\ Ended1(ByModel)
\* The project's call is not bound to the package, and its name is too common for the text to count.
CommonName == w.own[Flawed] = "unbound" /\ Flawed \in w.common
CommonCall == CommonName /\ Ended1({"not_called"})

Blind == ByAnother \/ BySelf \/ ByAnotherWay \/ ByAnotherRoot \/ Unasked1 \/ Misnamed \/ OtherModule
         \/ OtherReceiver \/ OtherCall \/ Unnamed1 \/ Gadget \/ CommonCall

Label(severity) == Policy(result[1].outcome, Facts1, severity).label

\* What is exploitable is closed by the scripts, whatever tool, database or model does not answer,
\* only through one of the blind spots above: verdict.decide and policy.decide over every fact this
\* chain can gather of a world.
NothingExploitableCloses ==
  result # << >> /\ (\E severity \in Severities : Label(severity) = "false_positive")
    /\ Exploitable(w) => Blind

\* Where what runs is what was declared, "not called" is said only when no one calls it: not the
\* framework, not the package by itself, no package that runs (the three reopenings before decide),
\* and the project only where the name of the function is too common for a call of it to count
\* (presence.py:555).
NotCalledIsWhole ==
  Ended1({"not_called"}) /\ ~Misnamed /\ ~w.hidden /\ AsDeclared(w.g) =>
    /\ ~w.framework /\ ~(w.registered /\ Flawed \in w.b.sources)
    /\ \A p \in PackageSet : Loaded(w.g, p) /\ Calls(w, p) /\ LeadsTo(w.b, p) => p = Flawed /\ CommonName

\* What the policy confirms on its own is so: the installed version has the flaw, and either the
\* application calls it and input reaches it, or the flaw is one of the build (policy.py:150-159) and
\* the package was found to be there for the build or the image alone; then no call is asked for.
ConfirmedIsReal ==
  result # << >> /\ (\E severity \in Severities : Label(severity) = "confirmed") =>
    /\ Affected(w.adv, w.version)
    /\ \/ Reached(w) /\ InputReaches(w)
       \/ w.build # "no" /\ Shipped(w.g, Flawed) \in {"build_only", "image_only"}

\* Decision starts from facts alone; these are among them (what Decision assumes of the chain).
FactsAreFacts == result # << >> => Facts1 \in Facts

\* shipping.py: image_only means that nothing the application runs loads the package; here where
\* all there is to read was read.
UnshippedIsUnloaded ==
  result # << >> /\ AllRead /\ Facts1.shipped \in {"build_only", "image_only"} => ~Loaded(w.g, Flawed)

\* resolve.py: a name the model thinks of is only a lead to search by, and closes nothing.
GuessClosesNothing == Ended1({"not_called"}) => ~x.symbol.guess
=============================================================================
