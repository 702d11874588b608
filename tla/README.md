# AppSec triage agent: a verification project

The program takes the findings of security scanners, gathers facts about each of them from
the code (a language server, CodeQL, Psalm, plain text search), asks a language model, checks
the answer against the facts and writes one verdict per finding. Nothing of that is a service:
it is one command, run for hours, interrupted and started again, with a pool of threads that
share every slow engine. These modules model the parts where that sharing, and the interruption,
can go wrong, and the chain of checks that closes or confirms a finding without anybody reading it.

All paths below are under `src/appsec_triage/`.

## Inventory

| Component | State it keeps | Operations | What is hard | What makes it correct |
|---|---|---|---|---|
| Triage run and resume: `cli/common.py`, `reuse.py`, `report/audit.py`, `scope.py`, pool of `pipeline.py` | journal `*.jsonl.partial`, verdicts file, reused and recovered records, futures, `fatal_error` of the client | plan, recover, scope filter, prepare, pool, journal a verdict, write the report, unlink | kill at any point, torn rows, refusal of the credentials while others work, code edited between attempts | every finding answered once; nothing paid for twice; nothing lost; no verdict of a refused model |
| Language model client and tool loop: `llm/base.py`, `llm/tools.py`, `llm/openai_compat.py`, `llm/ollama.py` | `fatal_error`, `_tools_rejected`, spend | `complete`, `chat_tools`, retries, turns | refusal while calls are in flight, several spenders, replies cut off | after a refusal the calls run out, the ceiling holds but for what is in flight, every finding ends |
| Code walk: `codewalk.py`, `context/evidence.py` | evidence blocks, `code_facts`, notes, slots of the loop | read, search, look up a usage, several at once | one flag and one list written by several handlers, facts read outside the lock | the limit holds; what grew is said to have grown; what is denied is on record |
| Decision of one finding: `pipeline.py` `_triage_one`, `records.py`, `validate/`, `verify.py`, `calibration.py`, `review.py` | the record being built | closures without the model, the verdict, validation, challenge, downgrade, calibration | order of the steps, several overrides of one verdict | a later step never makes a verdict more certain than its evidence |
| Dependency chain: `sca/chain/`, `sca/verdict.py`, `sca/policy.py`, `sca/reach.py`, `sca/exploitable.py` | the facts gathered, single-flight caches of engine answers | checks in order, decide, policy | every check has a blind spot and may fail; later checks reopen earlier answers | a closure rests on what is so, a confirmation too |
| Packages of a project: `sca/graph.py`, `sca/shipping.py`, `sca/bridge.py`, `sca/versions.py` | none (read once) | graph of the lock file, ways to a package, is it loaded, do its parents lead to the flaw, is the version affected | cycles, diamonds, several roots, stages of an image, bounds of ranges | what is said of a package is so |
| Resolving an advisory: `sca/resolve.py`, `sca/advisories.py` | a file cache keyed by its inputs | collect, resolve, ask again, keep what is declared | the model names functions; the fix has added ones | the function searched for is the flaw's |
| Questions to CodeQL: `sca/codeql_runner.py`, `sca/codeql_api.py`, `sca/codeql_reach.py`, `sca/chain/support.py` | server process, its queue, `_broken`, locks, caches, pending events | sequences of commands, one server for all, a process each when it is broken, `_once` | output of a dead server in the queue of the next, no exit status, late answers | an answer belongs to its question and everyone is given it |
| Investigation: `sca/codeql_agent.py`, `sca/lsp_tools.py`, end of `orchestration.py` | session of questions, `Investigation` | turns of tools or rounds of JSON, the chain's search, the check of entries, the scrutiny of a closure | the model chooses what to ask, in any order; threads write one result | what is found is a call; what closes for want of callers is true of what was asked about |
| Psalm: `sca/psalm_api.py` | call index, searches, taint analyses, files left out, slots, measured memory | `run`, `prefetch`, `_call_index`, `_references`, `_join_taint`, `_take_part`, `_slot` | threads join each other's work, a file crashes the analyser, a condition variable, memory as a limit | an answer rests on an analysis of that method; one analysis per method; everybody is answered |
| Language server client: `lsp/client.py` | process, marks (`_broken`, `started`, `disabled`, pauses, restarts), `_opened`, lock, restart lock | `open_document`, `_request`, `_notify`, `_pause`, `_drop`, `_reconnect`, `_restart`, `start`, `stop` | checks made without the lock, a restart beside the callers, timeouts everywhere | no orphan process or dead end but by a restart begun late, no endless wait |
| Language server service: `lsp/service.py`, `lsp/code_tools.py` | one client per language | lazy start, questions, stop | check and store are two steps | one server per language |
| Context, prompts, ingest, conditions, entry points, registries, SBOM | caches of pure results | read files, parse, assemble text | mostly none | what they return |
| Command line, scanners, installation, reports, evaluation | none that outlives a call | run programs, lay out pages | none | - |

How they interact: `run_triage` calls `TriagePipeline.run`, whose pool calls `_triage_one` for each
finding. That calls the chain, the language server, CodeQL and Psalm, and the model through one
client shared by all workers; `fatal_error` of that client is the only thing the workers tell the
main thread besides their results. The disk is touched by the main thread alone. Within one finding
the tool loop answers the questions of a turn in threads of its own, which write to one package of
evidence or to one investigation; across findings the chain's `_once`, the index of Psalm and the
server of CodeQL make many askers wait for one.

The hazards, each at the line where it bites, with the properties that cover it or the reason none
does, are in `PROJECT.json`.

## Modules

| Module | Models | Lines of the source |
|---|---|---|
| `TriageRun` | one output directory, attempt after attempt | `cli/common.py` `run_triage`, `reuse.py`, `report/audit.py`, `pipeline.py` `run`, `scope.py` |
| `ModelClient` | workers and one client of the provider | `llm/base.py`, `llm/tools.py` `run_tool_loop`, the calls of `_triage_one` |
| `CodeWalk` | one walk of the model over the code | `codewalk.py`, `llm/tools.py` `run_calls`, `context/evidence.py` |
| `PsalmApi` | threads asking Psalm | `sca/psalm_api.py` |
| `LspClient` | workers and one language server | `lsp/client.py` |
| `SingleFlight` | what a cache of computations promises (abstract) | `sca/chain/support.py` `_once` |
| `Engine` | findings asking CodeQL; implements `SingleFlight` | `sca/codeql_runner.py`, `sca/codeql_api.py`, `sca/codeql_reach.py`, `sca/chain/support.py`, `prepare` of `orchestration.py` |
| `Investigation` | the model asking engines about one package, and what the chain makes of it | `sca/codeql_agent.py`, `sca/lsp_tools.py`, `sca/chain/orchestration.py` |
| `Packages` | the graph, shipping, the bridge, versions, as operators beside what is really so | `sca/graph.py`, `sca/shipping.py`, `sca/bridge.py`, `sca/versions.py` |
| `Resolve` | the function an advisory is about, as operators | `sca/resolve.py` |
| `Dependency` | the outcome of the chain over its facts, and the policy, as operators | `sca/verdict.py` `decide`, `sca/policy.py`, `calibration.py` |
| `Chain` | the checks of the chain over a project; extends `Dependency`, `Packages`, `Resolve` | `sca/chain/orchestration.py` `run`, `sca/chain/support.py`, `sca/presence.py`, `sca/receiver.py`, `sca/reach.py`, `sca/unreached.py`, `sca/conditions.py`, `sca/govulncheck.py`, `sca/advisories.py` |
| `Decision` | one finding from the first record without the model to the second pass; extends `Dependency` | `pipeline.py` `_triage_one`, `records.py`, `validate/postvalidation.py`, `verify.py`, `calibration.py` |
| `TriageRunProofs`, `DecisionProofs`, `ModelClientProofs`, `EngineProofs`, `PsalmProofs`, `InvestigationProofs`, `CodeWalkProofs`, `ChainProofs` | theorems about them | |
| `MC...` | the instances the runs check | |

How they compose. What `Finish` of `TriageRun` takes for "a verdict" is what a behaviour of
`Decision` ends with, and its `Refuse` is `Unauthorized` of `ModelClient`. `Decision` takes the
facts of a dependency as any member of `Facts`; `Chain` extends the same `Dependency` and shows
that what it gathers from a project is one (`FactsAreFacts`), and what that means of the project.
`Chain` in turn takes an engine's answer to be true or absent, which `Engine` is about, and the
investigation by its outcome, which `Investigation` is about.

### TriageRun

The disk (`journal`, `tail`, `loose`, `garbled`, `report`, `readable`) survives `Crash`, the rest
is the memory of the process. A verdict is a record of the finding it was made about, the revision
of the code it saw, whether `--redo` asks for it again and whether a refusal had a part in it; what
the verdict says is left out. `journal` is the set of rows a parser takes. `tail` is what follows
the last newline: nothing, a cut row, or a row that lacks its newline only (`loose`), which
`recover` accepts but to which the next row is glued. `Start` is `run_triage` from the reading of
the earlier report to the making of the pipeline (`Construct`, or `Unavailable`); `Decline` is every
return before that. After the unlink `Present` lays out the pages, which may fail, and sets the exit code. `Begin`, `Refuse` and `Finish` are the workers;
`Yield`, `Check`, `Journal` are the loop over `as_completed`, in the order of the code: a future is
taken, *then* `fatal_error` is looked at, *then* the row is appended. The interleaving of a refusal
with these three steps is the point of the module.

Assumed: the default of `--redo`; the process is killed, the machine is not (what was written is on
the disk); the code is not edited while it is triaged; the text of a verdict has no character at
which `splitlines` splits but `json` does not escape (see the hazard at `report/audit.py:150`). When
two earlier verdicts have one fingerprint the code takes the first of the file and the model any
one of them, always the same for the same set.

A fingerprint sees the rule, the path and the scanner's snippet (`Snippet[f][n]`, the snippet after `n` edits), and nothing
else of the code a verdict rests on: an edit may leave it as it was (`MCTriageRun` has a finding of each kind).

### PsalmApi

A thread is in one place of `run`/`_run_once` (`pc`) with its local variables; `prefetch` is a
thread like the others that only wants the index (`Prefetch`). Builds of the index and taint analyses are kept
in sequences, so that properties can speak of those that are over. The gap between the config file
(`Build`, `Search`, `WriteConfig`) and the process that reads it (`Psalm`, after `Queue`) is kept,
since other threads may leave a file out meanwhile. `_GATE` is a condition variable: a thread that
finds no room goes into `asleep` and only a notification takes it out. `Telling` says whether the
problem that names the file also contains the phrase by which `crash_cause` knows a crash: with
`FALSE`, which is how the phrase and the `Uncaught` line are separate lines of Psalm's output, the
index is kept although it crashed and the methods are searched one by one; with `TRUE` the index is
built again. `MCPsalmApi.cfg` has `TRUE`, `MCPsalmApiPlain.cfg` `FALSE`.

Not modelled: what Psalm reports, the stripped copies that stand for unreadable files, `usages`,
and `APPSEC_PSALM_PARALLEL`, which sets the limit by hand.

### LspClient

The actions of a caller follow `open_document` and `_request` label by label; those of the restart
thread follow `_restart` and `start`. `_reconnect` is two steps, as in the code: `FindBroken` reads `_broken`, `Reconnect`
takes the restart lock and does not read it again. A caller that lingers between the two until another's restart is over
restarts a healthy server: `Popen` takes its place and nobody stops it, and a start that fails then puts back a reason there is none of
(`reason`). `late` counts such restarts; `NoOrphan` and `NeverWedged` say that nothing else does such harm.
`broken`, `started` and `off` are read without the lock where the code does so. A write has three ends: taken whole (`Heard`, or into
the pipe of a dead server), not taken at all (a pause), taken in part (a drop). Answers may come at any time or never; a
timeout needs no clock, since whatever has a deadline may end by it. `row` counts the silences.

Not modelled: the document that warms the index, the statistics, `stop` at the end of the command.

### ModelClient

A worker is in one place of its finding (`pc`): a turn of the tool loop, a call, a request on its way
(`post`, `wait`), the verdict, a round. `entry` says whether the call is `complete` or `chat_tools`, which
differ in what they refuse and in which replies they try again (`Unparsable` is `complete`'s alone, `ToolsRejected`
the other's). The ends of a request are actions: answered and charged, cut off (once more with a
longer limit, `Truncated`), a status that is retried, the refusal of the credentials, which sets
`fatal` for all, any other error. `_refuse_if_fatal` is looked at in `Refusing`, before the
retry loop and not in it; the ceiling in `Turn` and between rounds, and never before the verdict. One answer
costs one unit, `Ceiling` of them exhaust the budget; an endpoint without prices, which has no ceiling, is
not in the bounds. `late` and `over` are histories, of requests sent after the refusal and of turns answered
beyond the ceiling.

Not modelled: the slots of parallel requests and the pauses between retries, which delay only.

### CodeWalk

The repository is a set of windows of lines, a pattern is known by the windows that match it.
`Ask` is a turn of the model with any questions, which take their slots before one of them starts;
the handlers (`Begin`, `Retrieve`, `Show`, `Log`) interleave, `Retrieve` alone being under the lock
`writing`. `before` is the number of facts a search remembers, read outside it. `Room` is the limit of
evidence; `Full` is the state in which a search may have matched what there was no room for. A search the package refuses
(`Refusal`, by pattern: empty, too long, of several lines, in what is no package) leaves a note and no fact, and no note is made twice: asked
again it is answered with "no match", though it was never made. A search of
lines the walk has seen gives no new evidence and its line is on record all the same, which is what `DenialOnRecord` asks.

### Dependency

The chain is a fixed order of checks over one advisory; each check may close the finding, and what
it finds is kept for later ones. `Facts` is the record of what the checks find, one field for each
question a later line asks; a conjunct of `Facts` says which answers exclude each other (a function
found to be called has a call site, an input path makes no sense without a call). `ChainRun` takes
the facts to the outcome and to what the result still knows when the chain ended early
(`Unasked`, `Unplaced`): the policy reads the facts of a chain that stopped before it asked, and they
are then those of the dataclass' defaults. `Decide` and its parts are `verdict.decide` in its order,
`Early` is the short cut of profiles with `closures_final`, `Policy` and `PriorityOf` are
`sca/policy.py`. `Closing` is `_unchecked`: a closure whose blind spot was not looked at is `present`.

How a fact is found (searches, CodeQL, the language server, a question to the model) is outside;
each is free, so that an engine which fails, or answers wrongly, is among the facts.

### Decision

`pc` is where `_triage_one` is: `start` (records without the model, the chain and its policy), `walk`
(the material is collected), `ask`, `retrieve` (the rounds in which the model asks for more),
`validate`, `challenge`, and the ends `done` and `raised`. The actions before the model write a
record and end; `Open`, `Built` are the conjunctions of the conditions before them that did not hold,
as the code's early returns have it. `Validate` is one action, as no other thread and no call of the model
comes between `validate`, the caps of dependencies, the priority, the review and the decision to challenge;
`Validated`, `Guarded`, `PriorityOf`, `Settled` are its parts in their order. The second pass is
`Reread`, `Survives`, `Objects`, `ChallengeFails`.

`Gate` is the way of a finding with a trace of govulncheck: the trace stands, or an answer with exact quotes refutes it and keeps its own
word on a person. No confidence is asked for on that way, which `DecidedAlone` names as its one exception.

What a text says is reduced to what the code asks of it: of the quotes, whether all, some or none are
found; of the stated dataflow, whether its places exist and an end of it is clean; of the prose,
whether it argues against its own label. The material is a number, how many times something was added
to what a quote may cite: `shown` is how much of it the model had when it answered. The findings,
the chains' facts and the answers are sets given by constants, subsets of `FindingFacts`, `Facts` and
`AnswerFacts`, for the theorems any subsets.

Assumed: the default configuration of post-validation and of the second pass
(`challenge_on_override` and `challenge_cwes` empty, `downgrade_confirmed` set); sources and the
chain are configured; the severity of a finding and that of its advisory are one. `decided_by` does
not tell `llm` from `post_validation` when a verdict went through `validate`. The class of an undecided
verdict, which some checks keep and some replace, is not followed: nothing later reads it. The
confidence of an answer is free (`Low` is any value) except where the finding is judged on its
description alone. The cache of walks, costs and timings are left out.

### SingleFlight and Engine

`SingleFlight` is the promise of `ChainSupport._once`: of each key at most one asker works, what it finds is kept,
everybody is given what is kept. `Engine` has what is below it. A question is a sequence of
commands (`Commands`), of which those that evaluate take the lock of the database and those that decode
print the result; each goes to the server (`Send`, `Receive`, `Timeout`) or, once it is `broken`, to a
process of its own (`Process`). The protocol between them is a NUL at the end of an output: a command
that failed ends like one that succeeded (`did` is in the reply for the properties alone), a dead
server leaves a reader that puts its end of stream into whatever queue there is then. Success is the
file a command had to write, or, for a decode, the output as it is: that a decode which failed on the server gives
an empty answer is recorded (`excused`), and is the one thing `AnswersTrue` excuses. The refinement is
`Flight == INSTANCE SingleFlight WITH ...`: the value of a key is the cache, its workers are those
who ask it between `Join` and the end of `Publish`
(`Working`), what an asker was given is `got` while it is `answered` (`Given`).
Keys are the questions of the findings and that for the imports, which the main thread asks before the pool.

Two commands are left out: the building of the database, and the text of the queries.

### Investigation

The model is free: in each turn it asks anything (`Turn`), or answers in JSON a round (`Round`), and
marks functions as vulnerable at will. Threads take questions in any order (`Ordered`,
`Free`: the package first, and nothing more when it is unused), and each writes `label`, `found` and `reached` of the
one `result` in three steps (`KeepLabel`, `KeepFound`, `KeepReached`), each behind the test made when
`Judge` looked. Afterwards `Search`, `CheckEntries` and `Scrutinise` are the chain's: its own search, the
question about every public entry, and the recheck of a closure by framework, registration and the
model. A closure says one of two things, which `ClosureHolds` keeps apart: after the engine, that no entry the advisory leaves open is
called; after the language server, that none of the names it lists is. Those names are the model's choice, and one of them may be called after all
if some of its declarations had no answer. Engines tell the truth, or nothing (`partial`: some declarations of a name had no answer).

### Packages and Resolve

A project `g` is what its files say: what the manifests ask for, what the lock file has, what is imported
where, what the start command runs, the Dockerfile; `b` says which functions of packages lead to
which. Beside each operator of the code stands what is really so (`Loaded`, `LeadsTo`,
`Affected`), defined as a closure and not by the code's search. `Introductions` is the breadth-first search of `placement`
with its cuts (`MaxPaths`, a package seen on another way, `MaxDepth`); `Shipped` the classification
of `shipping.py`; `Bridge` and `WalkBridge` the walk from parent to parent; `Inside` and `VersionState`
the events of ranges in OSV's form, a version being its rank.

`Resolve` tells functions apart by what speaks for them: the flaw's own, one the fix shows as context only, one the
fix adds, one nothing names. `FromAdvisory`, `FromAnswer`, `FromContext`, `Carry`, `Fallback` and
`KeepDeclared` are the ways `_resolve` comes to a name, in their order; the answers of the model are a
set, each any record of `SymbolAnswers`.

What starts is known from the last stage of a Dockerfile that is read (`Started`); a start command that stands elsewhere is not seen.

### Chain

A state of `Chain` is a check of `run` (`pc`), the world `w`, what the run has (`s`: engine,
model, language server, `closures_final`, audits to skip), the facts so far (`c`) and locals (`x`). Each
action asks about the world and gets what that tool can see of it, or no answer; the actions are in
the order of the code. `Conclude` is `decide` (of `Dependency`).

Assumed: a model's answer that the code accepts, because its quote is in what was shown, is right about what it
quotes (a refused one is no answer); a model that audits a closure, and is shown the code, finds a call of
a form no check sees (`hidden`). Closures for which no audit is foreseen, or which the profile takes without one, and
those of `not_called` are listed as blind to such a call (`Unasked1`). Without the first assumption nothing could be said: a
model that lies with true quotes closes anything.

And of the world: an advisory has its events in the order of their versions, by turns one that introduces and one that ends
(`InOrder`, as OSV defines it; the loop of `versions.py` goes wrong on others); the code of a package calls only what it
requires (`CodeOf`), and the project only what it imports; what calls the flaw by govulncheck is in some module.

The policy's own questions to the advisory are in it: whether it hurts the build (`IsBuildRisk`), and whether the flaw needs
another one (`NeedsOther`, and the condition's text). Left out is the text on an advisory that the model supplies when no database has one
and the call graph says "reached" (`llm_advisory.lookup`, `orchestration.py:291`): such an advisory stays without a text here.

`Blind` lists what the code cannot see, each with its conditions, and `NothingExploitableCloses`
says that the chain, as it is modelled and under these assumptions, closes what is exploitable in no other way:

| | |
|---|---|
| `ByAnother` | the package is judged by the project's own calls of one function, and the code of another loaded package leads to the flaw; to one said to be "not called" only where more runs than the manifests declare (`~AsDeclared`) |
| `BySelf` | the framework, or a registration in the package itself, runs it: a closed bridge, an absent condition, a wrong receiver and calls in tests alone are not asked about either, a package that is not named not about the registration (`orchestration.py:595`) |
| `ByAnotherWay` | of ways that meet, one is kept (`graph.py:597`), each as far as `walk_bridge` goes |
| `ByAnotherRoot` | `roots_of` stops at a requirement of the project (`graph.py:515`); yarn's lock file has no peers (`graph.py:245`); a file over 600 kB is not read (`shipping.py:236`), a script of a script not followed (`shipping.py:252`), a start command in no Dockerfile not seen (`shipping.py:254`); outside JavaScript imports are not read; an import no manifest declares has no root |
| `Unnamed1` | a package whose code has another name than its distribution (`presence.py:40`) is not found to be named |
| `Unasked1` | a call of a form no check sees where the audit is skipped or not foreseen, or the closure is `not_called` |
| `Misnamed` | another function than the flaw's: a guess (`resolve.py:577`), or a file said without a quote not to be installed (`resolve.py:882`) |
| `OtherModule` | a Go module that calls it could not be checked (`govulncheck.py:234`) while one that only imports it was |
| `OtherReceiver` | the receivers of the first calls only (`receiver.py:246`), or of a parent's function |
| `OtherCall` | input goes into another call than the one asked about |
| `Gadget` | the flaw needs another one (`policy.py:172`); nobody asks whether the project has that. `Exploitable` counts such a flaw as if it had |
| `CommonCall` | the project's call is not bound to the package and has a name too common to count (`presence.py:555`): "not called" |

## Runs

| Run | Bounds | Shows |
|---|---|---|
| `triage_run` | 3 findings, one out of scope; 2 workers; 1 kill; 1 edit of each finding | three invariants of the disk, two action properties and the end of every attempt |
| `resume_torn` | the same | found violated: a kill inside a character makes the journal undecodable, and the next attempt ends in a traceback |
| `model_client` | 2 workers, 1 retry, 2 turns, 1 round, a ceiling of two answers | calls run out after a refusal, the ceiling is passed by one turn of each, every finding ends |
| `code_walk` | 3 windows, room for 2; 3 patterns, one of them without a match and one refused; 2 questions in a turn, 3 in all, 3 turns | the limit of questions, what is said to have grown, what is denied, the end of the walk |
| `psalm` | 2 findings (a function; the function and a method), prefetch, 1 unreadable file, 1 timeout, `Telling` | three invariants; every ask ends |
| `psalm_stale_analysis` | 2 findings (a function; that and another one), no timeout, not `Telling` | found violated: a finding that asks after the file was left out gets the crash of an older analysis and gives up |
| `lsp` | 2 callers of one file, 4 questions in all, silences 2, pauses 1, restarts 2, one death | two invariants, two liveness properties |
| `decision` | 20 findings; chains up to two facts from a plain one; answers up to one field from a plain one; 2 rounds; both values of `closures_final` | seven invariants of the record |
| `engine` | 2 workers and the preparation; 2 functions, 1 resolved; 3 projects; 2 questions, 1 fault | answers are true, one evaluation, `FlightKept` (the refinement), every question ends |
| `investigation` | 2 threads; 3 functions, all of them entries, one declared unaffected; 5 projects; 3 questions, 2 in a turn, 2 rounds | three invariants, one action property |
| `chain` | every world up to two respects from a plain one, and others around a transitive and a Go project (8620 initial states); 4 setups | four invariants over what the project really is |
| `chain_unshipped` | the same | found violated: a package that the project also requires itself is said not to be loaded |

Why these bounds are enough. Three findings are one more than the workers, so that one is queued
while one is refused and one is taken by the main thread; one of them is excluded. One kill and any
number of attempts give every state of the disk a kill can leave and the resume that follows; after
a refusal an attempt follows too, without counting. One edit distinguishes verdicts about the code
as it is from older ones, and is in the snippet of one finding and beside that of another. Two askers of Psalm are a leader and one who joins; that both
want `m2` and one `m1` gives methods that are pending, answered and new in one join. One bad file with two
askers and the prefetch gives all three views of an exclusion: made, found made, made before the
question. Two callers of a language server hold and miss the lock; with one pause its end is reached, and two restarts (the
default of the code) are one that is due and one begun late.
Two workers of one client are one that is refused or spends and one in flight; one retry and two turns
leave each loop a first, a repeated and a last pass. Of a walk, one window too many for the
room, a pattern with a match already told and one without any, and one question too many are the cases its
handlers tell apart. One fault of CodeQL lets each command fail in each of its ways with the next one after it: a dead server's
reader is still there when the next server is up. Of an investigation, three functions
are the symbol, an entry to it and one that is exempt.

Of a finding, a chain and an answer the code asks independent questions one by one, and every rule of the
post-validation and of the policy needs at most two facts other than the plain ones (the rules of
`sca/policy.py` on a build risk need `shipped` and `build`; a confirmation without a path needs
`named` and `bound`), given that three plain chains stand for a function that is called, one that was
not found and a package that only a dependency brings. The same holds of the worlds of `chain`, where what needs
more (two ways to a package; an image with a stage that installs and one that copies) is a shape of its own. Each kind of finding and
each of its flags comes up in one of the findings, with every answer. Two rounds let one fail after one succeeded.

`UnreadableFileCostsNobody` fails whenever a thread that asks after the file was left out is answered
by a process whose config was written before: by an analysis it joined (`psalm_stale_analysis`) or,
with `Telling`, by a build of the index. The crash is then neither new nor excludable.

`CHECK_DEADLOCK FALSE` is set for `LspClient` and `Engine`, where the questions are bounded, and for
`Decision` and `Investigation`, which end with the record and the audit (their only loops are bounded; they state no liveness and need no
fairness). In the others the end is an action (`Rest`, `Done`) or there is none, and any other
standstill is an error; `TriageRun` may always be started again.

Fairness. `TriageRun`: weak fairness of the main thread's step (it blocks on nothing but a future)
and of `Begin` and `Finish` of each finding (the pool runs a queued task when a thread is free, and
every call a worker makes has a timeout); none of `Start`, `Crash`, `Refuse`, `Edit`. `ModelClient`: weak
fairness of each worker, whose requests have a timeout and whose pauses a length; none of any particular
answer. `CodeWalk`: weak fairness of the walk as a whole, as the pool runs what is queued. `PsalmApi`:
weak fairness of each thread, as every process has a timeout and events and the condition variable
wake their waiters; a sleeper has no enabled step, so a lost wakeup would show. `LspClient`: weak
fairness of callers and of the restart thread, whose every wait has a deadline; none of the
server's answers, its death, or the end of a pause. `Engine`: weak fairness of the preparation and of
the workers between commands; strong fairness of each actor's command, since the two locks are taken by turns and whoever waits gets
them in the end (each is held for no longer than a command's time limit); none of the server's replies.

## Findings

Three runs are expected to be violated, each quoting the line it contradicts; see `findings` in
`PROJECT.json`: the undecodable journal, the crash of an older analysis, and the package that is said not to be loaded.

Further divergences that the models reach, each with a configuration of its own:

| Configuration | Property | What happens |
|---|---|---|
| `MCTriageRunSharedId` | `EveryFindingAnswered` | two findings of one id: a resumed run leaves one of them out of the report |
| `MCPsalmApiIndex` | `PrefetchBuildsAgain` | prefetch says that it builds the index again and gets the failed one |
| `MCTriageRunBeside` | `ReusedIsCurrent` | code beside the snippet was edited: the earlier report's verdict is reused (`reuse.py:23`) |
| `MCLspClientReplaced` | `InPlaceOfDropped` | a restart begun late starts a server in place of a healthy one, which runs on |
| `MCLspClientPaused` | `NotSentWhilePaused` | a `didOpen` goes to a server paused while it waited for the lock |
| `MCDecisionUnsure` | `AppliedWhenSure` | a trace of govulncheck is refuted, for nobody to look at, by an answer that is not sure |
| `MCDecisionUnaudited` | `UncheckedClosureSeen` | a build-only package is closed, for nobody to look at, though the check of that closure failed |
| `MCDecisionObjection` | `ObjectionKept` | a quoted objection to a confirmation is forgotten when the call that judges it again fails |
| `MCModelClientUncounted` | `NothingUncounted` | replies that were delivered and cut off, or could not be parsed, are missing from the spend |
| `MCCodeWalkRepeated` | `NoFalseAbsence` | a search whose matches were told before is answered with "no match" |
| `MCInvestigationListed` | `NobodyCallsIt` | with the language server a closure rests on the names the model chose, not on every entry |
| `MCChainGuess` | `GuessClosesNothing` | a name that the model only guesses closes the finding as not called |

`MCPsalmApiPlain` is an instance that passes: not `Telling`, two functions, so that three processes
compete for two slots; it checks `NoLostWakeup` and `MeasuredAlone` as well.

## What is proved

`TriageRunProofs` proves, for any findings, workers, revisions and kills that satisfy
`RunAssumption`:

- `TypeCorrect`: `Spec => []TypeOK`.
- `RefusalKeptOut`: `Spec => []NoRefusedVerdict`. The inductive invariant `RefusalInv` says that
  a refused verdict exists only while `fatal` is set and sits in a future not taken yet, so that the
  result the main thread has let through is none, and that the records kept from before are none.
  It is needed since the property speaks of the disk only, and what gets there was decided two steps
  of another thread earlier.
- `PaidOnce`: `Spec => DecidedOnce`, from `UndecidedInv`: a finding that is queued, running,
  refused, done or yielded has no row in the journal.
- `AllAnswered`, `JournalSafe`: under `NamesDistinct` (an id and a fingerprint name one finding;
  `MCTriageRunSharedId` shows it is needed). `AnswerInv` says that the findings
  which are not in the pool are answered by reused, recovered or excluded records, those that are
  done by results, and that before the journal is unlinked the report holds the whole outcome.
- `StaleBound`: under `NamesDistinct`, a stale verdict in a finished report came by the journal, or was reused
  where the snippet is what it was; `CurrentInv`: while a process runs, results and excluded records are about the code
  as it is, and reused ones about a revision with the snippet it has.

`DecisionProofs` proves, for any findings, chains and answers, any number of rounds up to three and any
settings of the second pass that satisfy `DecisionAssumption`:

- `NeverTurned`: `Spec => []OnlyDoubtAdded`; `UndecidedSeen`: `Spec => []UnknownGoesToPerson`;
  `QuotesChecked`: `Spec => []MaterialChecked`; `NothingUnread`: `Spec => []NoCodeNoDecision`.

They share the inductive invariant `DecisionInv`. `Staged` says what is still empty at each `pc`: the
properties speak of a verdict and the answer it came from, and without it a record written before the
model was asked could not be told from one written after. `Watched` is `UnknownGoesToPerson` without
`pc = "done"`, needed since the second pass ends what post-validation began; `Read` and `Grounded`
are the last two properties, the former at every `pc`. The lemmas say of each part of the
post-validation (`ValidatedVerdict`, `GuardedVerdict`, `SettledVerdict`) that it leaves the label or makes
it `unknown`, and of the policy (`PolicyRule`) that some rule applies, whatever the facts;
`JudgedVerdict` puts them together for `Validate`, `Unjudged` covers every record without the model.

- `ClosuresAudited`: `Spec => []ClosedOnAudit`. `ChainBacked` says it of every result of the chain, by cases
  over `decide` and over the short cut; the invariant `ChainsBacked` only carries it to the record.
- `ConfirmedReached`: `Spec => []ConfirmedOnPath`. `PolicyOnPath` and `GuardedOnPath` say that the policy and
  the caps let no confirmation pass without a path, `PathInv` (on top of `DecisionInv`) that no later
  step exchanges the chain or the answer under a confirmed verdict.
- `NobodyNeeded`: `Spec => []DecidedAlone`: sure, or refuted with exact quotes at the gate. Both reviews (`ReviewedAlone`, `SettledAlone`) and the policy
  (`PolicyAlone`) are taken one by one; `AloneInv` also says that a chain belongs to a dependency, and
  `FixOfDependency` that a fix does, which is what makes of a patch task one.

`ModelClientProofs` proves, for any workers, retries, turns, rounds and ceiling that satisfy `ClientAssumption`:

- `ClientTypes`: `Spec => []TypeOK`.
- `RefusalSpreads`: `Spec => []RefusalEndsCalls`. A request is sent after the refusal only from inside a retry
  loop; `LateInv` ties the number of those requests to the attempts of the call a worker is in, since the property alone does not
  say that a worker which left that call never comes to send another.
- `CeilingPassedOnce`: `Spec => []OneTurnOver`. `OverInv` says that a worker in a turn has had none answered beyond the
  ceiling, which holds because the ceiling, once reached, stays so, and `Turn` reads it.

`EngineProofs` proves, for any workers, functions, projects and bounds that satisfy `EngineAssumption`:

- `OnceIsKept`: `Spec => FlightKept`, the refinement: initial states map to initial states of `SingleFlight`, every step to one
  of its steps or to a stutter. `FlightInv` is what that needs: who computes a question has its pending mark and nothing
  is kept of it yet (`WorkerFlight`), and the main thread, which publishes without a mark, does so before any worker begins
  (`MainFlight`).
- `EvaluationsApart`: `Spec => []OneEvaluation`. `LocksInv` says who has which lock, `QueueInv` that a server
  which is trusted works for whoever waits for it or has answered that one, and that the rest of its queue
  are ends of streams; this is what `Disable` at the first end of stream or timeout is for.
- `AnswersAreTrue`: `Spec => []AnswersTrue`. By `QueueInv` a reply that is read is one's own; `TrueInv` then says that
  rows are missing only where that is excused, that an answer is right before it is published, and that all that is kept is.

At the end of `CodeWalkProofs` is proved of `LspClient`, which a walk asks for usages, for any callers, documents and bounds that satisfy `LspAssumption`:

- `NoneLeftBehind`: `LspSpec => []NoOrphan`, and `WayBack`: `LspSpec => []NeverWedged`. Both with what a restart begun late does excepted: one server is left for each, and a
  client at a dead end had no reason for its last one. `LinkInv` says that a client which is marked for a restart has no server, but
  while a late restart is on its way, and ties the marks to the place of the restart that is on its
  way: a caller whose write fails meanwhile sets `broken` again, so `started /\ up` alone is not inductive.

`PsalmProofs` proves, for any askers, methods, unreadable files, slots and failures that satisfy `PsalmAssumption`:

- `NobodyForgotten` (`NoLostWakeup`) and `FirstAlone` (`MeasuredAlone`), from `GateInv` on the slots. They are checked
  by `MCPsalmApiPlain.cfg`, which is not among the runs.
- `IndexBuiltOnce`: `Spec => []OneIndex`. `IndexInv`: one thread at most has the index built, and every build but the
  current one crashed.
- `AnalysedOnce`: `Spec => []OneAnalysisPerMethod`, and `NotReachedMeansLooked`: `Spec => []AnswersRestOnAnalysis`. Three
  parts hold each other up. `RunsInv`: a pending analysis answers its methods and only the last one begun gathers more.
  `LeadInv`: an analysis has one leader, and from the detaching on its sinks are its methods and nobody joins. `AskInv`: each
  method an asker wants has a result or is among the methods of an analysis the asker takes part in.

`InvestigationProofs` proves, for any functions, projects, marks and limits that satisfy `InvestigationAssumption`:

- `ReportedIsReal`: `Spec => []FoundIsReal`, `ClosesOnAnswers`: `Spec => []ClosureHolds`, `PackageGoesFirst`:
  `Spec => PackageFirst`. The second has two halves: every entry where the engine answered, the listed names where the
  language server did. `IInv` says that a thread goes on to write only what it has judged itself, that a name which is
  listed as not called was answered wholly or is marked as answered in part, and that no thread works outside a turn.

- `StaysWithinLimit`: `Spec => []WithinLimit`. `LimitInv` counts: the questions asked, and those of the turn nobody has taken,
  are no more than were counted when the turn was cut; the property alone says nothing of those in the queue. That a
  turn does not grow when it is sorted (`Ordered`, a stable sort that puts the package first) is a lemma on sequences.

`ChainProofs` proves, for any packages, projects, advisories, tools and answers of the model that satisfy `PackagesAssumption` and
`ChainAssumption`, `Spec => []I` for each invariant of the run `chain`:

- `FactsAlwaysFacts` (`FactsAreFacts`), `ConfirmedAlwaysReal` (`ConfirmedIsReal`), `NotCalledAlwaysWhole` (`NotCalledIsWhole`),
  `NothingExploitableEverCloses` (`NothingExploitableCloses`).

The four speak of a result, which says nothing of the twenty checks it came from, so none is inductive. `IInv` has three parts.
`Typed` are the types. `Told` says of each fact what it tells of the world once it is there, one conjunct for each group:
"unreached" that nothing reaches the flaw or that a Go module was left out (`TellsGraph`), a closed bridge that every way kept is
broken and that nobody searched on (`TellsBridge`), "tests" that the calls are in tests (`TellsCalls`), the claim that nobody
calls it and what must still hold of it when it is final (`TellsClaim`), a passed audit that it was not asked about the hidden call
(`TellsAudit`), and so on. `Ending` says by which of four ways the chain ended (the version, the owner, the scripts, `decide`) and
from which facts. `NextTells` and `NextEnds` take the actions one by one. The rest are implications about a state:
`DecideSays`, `EarlySays`, `PolicyCloses` and `PolicyConfirms` go from a label and an outcome back to facts, `Told` from these to the
world, and a lemma for each kind of closure (`ShippedIsBlind`, `BridgeIsBlind`, `NotCalledIsBlind`, ...) ends in its blind spot.
A confirmation is one of two, proved apart: of a call that is reached and fed with input, or of a flaw of the build in a package
that is there for the build or the image alone.

Two of the lemmas under it are results of their own. `VersionTells`: the version check says "affected" and "unaffected" only when it
is so. `ShippedIsUnloaded`: when a package is said not to be part of what runs, it is not, where four conditions hold, which are
the four parts of `ByAnotherRoot`; `chain_unshipped` shows what happens without the last one.

These loops (`VersionState`, `Within`, `WalkBridge`, `KeepDeclared`) are recursive functions over a sequence. The induction
theorems of the library take a predicate as parameter; `UptoInduction` states induction up to a bound for a *set* of numbers instead,
from the well-foundedness of the natural numbers, and `StepByStep` from it that a function given step by step exists, which is what a
recursive definition means. Of `Introductions`, which folds over paths, nothing is proved but what `Bridge` reads off it.

What the proofs found. Four statements the run had passed were false in larger worlds, and are corrected: an advisory whose events
are out of order is judged wrongly by `versions.py` (hence `InOrder`); several blind spots named a shape of the world the run
happened to have and not its cause (now `ByAnother` and `BySelf`); "not called" leaves out a caller where a package runs that no
manifest declares, or that is declared for development only (hence `AsDeclared`); and a package imported without being declared
is said not to be loaded (now in `ByAnotherRoot`).

`CodeWalkProofs` proves, for any windows, patterns, budgets and number of handlers that satisfy `WalkAssumption`:

- `BudgetKept`: `Spec => []QuestionsBounded`. `CallsInv`: the handlers called and those still queued together are no more
  than the slots taken; that a turn takes as many slots as it queues handlers is an argument on cardinalities.
- `GrowthIsTold`: `Spec => []AddedMeansGrown`. `GrowInv`: what is covered and the facts only grow, and `added` says that they
  are not what the walk began with.
- `DenialsOnRecord`: `Spec => []DenialOnRecord`, the record being the fact, or for a refused search its note. `DenialInv` says it of the search before it is answered.

Only model-checked: liveness (`AttemptEnds`, `EveryFindingEnds`, `WalkEnds`, `EveryAskEnds`, `RestartEnds`, `QuestionsEnd`,
`EveryQuestionEnds`), which needs `ENABLED`. Every invariant and every action property of the passing runs is also proved.
Whether the model is right about the code is neither checked nor proved but read: `map` in `PROJECT.json` has the lines.

## Not modelled

- What the engines compute (CodeQL's queries, Psalm's taint, a language server's references), the
  parsers of languages, manifests and scanner reports, prompts and pages: functions from text to text. A model would
  repeat them; what their answers may be is in the sets the modules choose from.
- `usages()` of Psalm and the stripped copies of files it cannot read, the document that warms a language server: they
  add to an answer and share no state.
- `LspService`: its one race, two starts of the server of one language, is a hazard at `lsp/service.py:125`; it costs a
  process and no answer.
- The weights of the queue (`prioritize.py`), counters, timings, masking: nothing reads them back.
- The command line apart from `run_triage`, scanners and installation: they run programs one after the other.
- The building of a CodeQL database, the downloads of advisories and their caches on the disk, which
  are keyed by all that they depend on.
- Several processes on one output directory: the program keeps no lock against it and nothing says it may be done.
