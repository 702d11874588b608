---------------------------- MODULE Investigation ----------------------------
(***************************************************************************)
(* One dependency's investigation: the model puts questions to CodeQL and  *)
(* to the language server about the vulnerable function's package          *)
(* (sca/codeql_agent.py, sca/lsp_tools.py), several at once in a pool of   *)
(* threads, and what they establish, with the chain's own search after     *)
(* them, becomes the fact that the function is called, or that nobody      *)
(* calls it (sca/chain/orchestration.py, sca/chain/support.py).            *)
(*                                                                         *)
(* The model is free: it asks anything, in any order, with any mark.  The  *)
(* engines tell the truth, or nothing.                                     *)
(***************************************************************************)
EXTENDS Naturals, Sequences, FiniteSets, SequencesExt

CONSTANTS
  Threads,    \* of the pool for one turn's questions
  Functions,  \* of the package
  Symbol,     \* the vulnerable one
  Entries,    \* the public entries to it (sca/entrypoints.py)
  Unaffected, \* those the advisory itself calls unaffected
  Projects,   \* what the project may be
  MaxCalls,   \* max_tool_calls
  MaxTurn,    \* bound: questions of one turn
  Rounds      \* of the JSON protocol

ASSUME InvestigationAssumption ==
  /\ Symbol \in Entries /\ Entries \subseteq Functions /\ Unaffected \subseteq Functions
  /\ {"none", "absent"} \cap Functions = {}
  /\ \A p \in Projects :
       /\ p.called \subseteq Functions /\ p.reached \subseteq p.called
       /\ p.used \in {"yes", "no", "open"}  \* what check_package comes to
       /\ p.framework \in BOOLEAN           \* invoked or registered by a framework, or by
                                            \* other installed packages
  /\ IsFiniteSet(Threads) /\ MaxCalls \in Nat \ {0} /\ MaxTurn \in Nat \ {0} /\ Rounds \in Nat

None == "none"
Mark == [of : Functions, vulnerable : BOOLEAN]
Call(tool, names) == [tool |-> tool, names |-> names]
Package == Call("check_package", <<>>)
Calls == {Package, Call("lsp_read", <<>>)}
           \cup {Call(tool, <<m>>) : tool \in {"find_calls", "find_usages"}, m \in Mark}
           \cup {Call("check_call_site", <<m>>) : m \in [of : Functions, vulnerable : {FALSE}]}

VARIABLES
  project,
  protocol, \* "tools" or "json"
  rounds,   \* of the latter that are left
  stage,    \* "ask", "answer", "search", "entries", "scrutiny" or "done"
  turn,     \* the questions nobody has taken yet
  at, task, \* what each thread does: "free", "ask", "judge", "label", "found", "reached"
  asked, usages, checked, \* the session: asked_functions, asked_usages, package_checked
  news,     \* a round of the JSON protocol has asked something
  result,   \* Investigation
  partial,  \* history: names of whose declarations some had no answer
  found,    \* the chain's: None, a function that is called, or "absent"
  audit     \* of "nobody calls it": None, "closes" or "reopened"

session == <<asked, usages, checked, news>>
chain   == <<found, audit>>
vars == <<project, protocol, rounds, stage, turn, at, task, session, result, partial, chain>>

Init ==
  /\ project \in Projects
  /\ protocol \in {"tools", "json"}
  /\ rounds = Rounds /\ stage = "ask" /\ turn = <<>>
  /\ at = [t \in Threads |-> "free"] /\ task = [t \in Threads |-> Package]
  /\ asked = {} /\ usages = {} /\ checked = FALSE /\ news = FALSE
  /\ result = [label |-> None, found |-> None, reached |-> None, used |-> "open", calls |-> 0,
               called |-> {}, uncalled |-> {}]
  /\ partial = {} /\ found = None /\ audit = None

AllFree == \A t \in Threads : at[t] = "free"

-----------------------------------------------------------------------------
(* The model's turn: _investigate_with_tools and _investigate_with_json. *)

IsPackage(call) == call.tool = "check_package"
NotPackage(call) == ~IsPackage(call)
\* What asks for the package goes before the rest, each in the turn's order.
Ordered(calls) ==
  LET Before(i, j) == IF IsPackage(calls[i]) = IsPackage(calls[j]) THEN i < j ELSE IsPackage(calls[i])
      order == CHOOSE p \in [DOMAIN calls -> DOMAIN calls] :
                 \A i, j \in DOMAIN calls : i < j => Before(p[i], p[j])
  IN [i \in DOMAIN calls |-> calls[order[i]]]

AllowedAll(calls) == calls  \* fault: a turn is not cut at the limit
\* The questions the limit still allows.
Allowed(calls) ==
  LET left == MaxCalls - result.calls IN SubSeq(calls, 1, IF Len(calls) < left THEN Len(calls) ELSE left)

Turn(calls) ==
  /\ stage = "ask" /\ protocol = "tools"
  /\ turn' = Ordered(Allowed(calls))
  /\ result' = [result EXCEPT !.calls = @ + Len(Allowed(calls))]
  /\ stage' = "answer"
  /\ UNCHANGED <<project, protocol, rounds, at, task, session, partial, chain>>

\* One reply of the JSON protocol: the package, functions and a position, in this order.
Round(package, functions, sites) ==
  /\ stage = "ask" /\ protocol = "json" /\ rounds > 0
  /\ rounds' = rounds - 1
  /\ turn' = package \o <<Call("find_calls", functions)>> \o sites
  /\ news' = (package # <<>> /\ ~checked)
  /\ stage' = "answer"
  /\ UNCHANGED <<project, protocol, at, task, asked, usages, checked, result, partial, chain>>

\* The provider takes no tools after all.
Rejected ==
  /\ stage = "ask" /\ protocol = "tools"
  /\ protocol' = "json"
  /\ UNCHANGED <<project, rounds, stage, turn, at, task, session, result, partial, chain>>

\* No more questions, the budget is spent, or the call failed.
GiveUp ==
  /\ stage = "ask"
  /\ stage' = "search"
  /\ UNCHANGED <<project, protocol, rounds, turn, at, task, session, result, partial, chain>>

\* A package nobody uses ends the investigation, and its turn.
Unused ==
  /\ stage = "answer" /\ AllFree /\ result.used = "no"
  /\ (turn # <<>> => NotPackage(Head(turn)))
  /\ turn' = <<>> /\ stage' = "search"
  /\ UNCHANGED <<project, protocol, rounds, at, task, session, result, partial, chain>>

Answered ==
  /\ stage = "answer" /\ AllFree /\ turn = <<>> /\ result.used # "no"
  /\ stage' = IF IF protocol = "tools" THEN result.calls >= MaxCalls ELSE ~news
                THEN "search" ELSE "ask"
  /\ UNCHANGED <<project, protocol, rounds, turn, at, task, session, result, partial, chain>>

-----------------------------------------------------------------------------
(* A question: _run_tool and the _Session. *)

\* The package alone, in the turn's own thread; the rest in the pool, of one thread in JSON.
Free(t) ==
  /\ stage = "answer" /\ turn # <<>> /\ at[t] = "free"
  /\ (IsPackage(Head(turn)) \/ protocol = "json" => AllFree)
  /\ (NotPackage(Head(turn)) => result.used # "no")
  /\ \A u \in Threads : at[u] # "free" => NotPackage(task[u])

Go(t, place, call) == at' = [at EXCEPT ![t] = place] /\ task' = [task EXCEPT ![t] = call]
Skip(t) == Go(t, "free", Package)

New(names, known) == SelectSeq(names, LAMBDA m : m.of \notin known)
Named(names) == {m.of : m \in ToSet(names)}

\* find_calls is for what was not asked yet, and notes under its guard that it now is.
BeginCalls(t, call) ==
  LET fresh == New(call.names, asked) IN
  /\ asked' = asked \cup Named(fresh)
  /\ news' = (news \/ fresh # <<>>)
  /\ IF fresh = <<>> THEN Skip(t) ELSE Go(t, "ask", Call("find_calls", fresh))
  /\ UNCHANGED <<usages, checked>>

BeginUsages(t, call) ==
  LET fresh == New(call.names, usages) IN
  /\ usages' = usages \cup Named(fresh)
  /\ IF fresh = <<>> THEN Skip(t) ELSE Go(t, "ask", Call("find_usages", fresh))
  /\ UNCHANGED <<asked, checked, news>>

BeginUnordered(t) ==  \* fault: the package does not go first
  LET call == Head(turn) IN
  /\ Free(t)
  /\ turn' = Tail(turn)
  /\ IF IsPackage(call)
       THEN /\ IF checked THEN Skip(t) ELSE Go(t, "ask", call)
            /\ checked' = TRUE /\ UNCHANGED <<asked, usages, news>>
     ELSE IF call.tool = "find_calls" THEN BeginCalls(t, call)
     ELSE IF call.tool = "find_usages" THEN BeginUsages(t, call)
     ELSE Go(t, "ask", call) /\ news' = TRUE /\ UNCHANGED <<asked, usages, checked>>
  /\ UNCHANGED <<project, protocol, rounds, stage, result, partial, chain>>

Begin(t) ==
  LET call == Head(turn) IN
  /\ Free(t)
  /\ turn' = Tail(turn)
  /\ IF IsPackage(call)
       THEN /\ IF checked THEN Skip(t) ELSE Go(t, "ask", call)
            /\ checked' = TRUE /\ UNCHANGED <<asked, usages, news>>
     ELSE IF protocol = "tools" /\ ~checked THEN Skip(t) /\ UNCHANGED session
     ELSE IF call.tool = "find_calls" THEN BeginCalls(t, call)
     ELSE IF call.tool = "find_usages" THEN BeginUsages(t, call)
     ELSE Go(t, "ask", call) /\ news' = TRUE /\ UNCHANGED <<asked, usages, checked>>
  /\ UNCHANGED <<project, protocol, rounds, stage, result, partial, chain>>

Asking(t, tool) == at[t] = "ask" /\ task[t].tool = tool
Subject(t) == Head(task[t].names)
Next1(t) == Call(task[t].tool, Tail(task[t].names))

CheckPackage(t) ==
  /\ Asking(t, "check_package")
  /\ \E says \in {project.used, "open"} : result' = [result EXCEPT !.used = says]
  /\ Skip(t)
  /\ UNCHANGED <<project, protocol, rounds, stage, turn, session, partial, chain>>

\* A declaration or a file is read: nothing that the result keeps.
ReadCode(t) ==
  /\ Asking(t, "lsp_read")
  /\ Skip(t)
  /\ UNCHANGED <<project, protocol, rounds, stage, turn, session, result, partial, chain>>

\* CodeQL has no answer, or the calls of each function it was asked about.
AskFunctions(t) ==
  /\ Asking(t, "find_calls")
  /\ Skip(t) \/ Go(t, "judge", task[t])
  /\ UNCHANGED <<project, protocol, rounds, stage, turn, session, result, partial, chain>>

ReallyMarked(m) == m.vulnerable  \* fault: the advisory's own words are not read
\* Marked by the model, and the advisory does not say otherwise.
Really(m) == m.vulnerable /\ m.of \notin Unaffected

\* What is tested here is written below, with no lock in between.
Judge(t) ==
  LET m == Subject(t) IN
  /\ at[t] = "judge"
  /\ IF task[t].names = <<>> THEN Skip(t)
     ELSE IF /\ m.of \in project.called /\ Really(m)
             /\ \/ result.found = None
                \/ m.of \in project.reached /\ result.reached = None
       THEN Go(t, "label", task[t])
     ELSE Go(t, "judge", Next1(t))
  /\ UNCHANGED <<project, protocol, rounds, stage, turn, session, result, partial, chain>>

KeepLabel(t) ==
  /\ at[t] = "label"
  /\ result' = [result EXCEPT !.label = Subject(t).of]
  /\ Go(t, "found", task[t])
  /\ UNCHANGED <<project, protocol, rounds, stage, turn, session, partial, chain>>

KeepFound(t) ==
  /\ at[t] = "found"
  /\ result' = [result EXCEPT !.found = Subject(t).of]
  /\ IF Subject(t).of \in project.reached THEN Go(t, "reached", task[t])
     ELSE Go(t, "judge", Next1(t))
  /\ UNCHANGED <<project, protocol, rounds, stage, turn, session, partial, chain>>

KeepReached(t) ==
  /\ at[t] = "reached"
  /\ result' = [result EXCEPT !.reached = Subject(t).of]
  /\ Go(t, "judge", Next1(t))
  /\ UNCHANGED <<project, protocol, rounds, stage, turn, session, partial, chain>>

\* A path to one position counts when the position is a call that was found.
AskSite(t) ==
  /\ Asking(t, "check_call_site")
  /\ \/ /\ Subject(t).of \in project.reached /\ result.found = Subject(t).of
        /\ result' = [result EXCEPT !.reached = IF @ = None THEN Subject(t).of ELSE @]
     \/ UNCHANGED result
  /\ Skip(t)
  /\ UNCHANGED <<project, protocol, rounds, stage, turn, session, partial, chain>>

\* LSPTools.usages: no answer at all, or that of some declarations of the function.
AskUsages(t) ==
  LET m == Subject(t) IN
  /\ Asking(t, "find_usages")
  /\ \/ UNCHANGED <<result, partial>>
     \/ \E whole \in BOOLEAN :
          LET seen == whole /\ m.of \in project.called IN
          /\ partial' = IF whole THEN partial ELSE partial \cup {m.of}
          /\ result' = IF ~Really(m) THEN result
                       ELSE IF seen THEN [result EXCEPT !.called = @ \cup {m.of}]
                       ELSE [result EXCEPT !.uncalled = @ \cup {m.of}]
  /\ Skip(t)
  /\ UNCHANGED <<project, protocol, rounds, stage, turn, session, chain>>

-----------------------------------------------------------------------------
(* The chain goes on with what the investigation has: ChainOrchestration.run. *)

\* A name that some tool resolved is not called.
OfModel ==
  IF result.called = {} /\ result.uncalled # {} THEN "closes" ELSE None

\* Its own search for the symbol, unless the model found a call: by CodeQL, or by the text, which
\* may miss a call or take another for it; in the last resort, for names the model proposes.
Search ==
  /\ stage = "search" /\ stage' = "entries"
  /\ audit' = OfModel
  /\ IF result.found # None THEN found' = result.found
     ELSE found' \in {Symbol, "absent"} \cup project.called
  /\ UNCHANGED <<project, protocol, rounds, turn, at, task, session, result, partial>>

Safe == Entries \ Unaffected

CheckSymbol ==  \* fault: the function the advisory names is asked about alone
  /\ stage = "entries" /\ stage' = "scrutiny"
  /\ IF found = "absent" /\ Safe # {}
       THEN \/ UNCHANGED chain
            \/ LET calls == project.called \cap {Symbol} IN
               IF calls = {} THEN audit' = "closes" /\ UNCHANGED found
               ELSE found' \in calls /\ UNCHANGED audit
       ELSE UNCHANGED chain
  /\ UNCHANGED <<project, protocol, rounds, turn, at, task, session, result, partial>>

\* _entry_point_check: CodeQL about every public entry at once, if it answers.  What it says is
\* taken where the language server has not closed already.
CheckEntries ==
  /\ stage = "entries" /\ stage' = "scrutiny"
  /\ IF found = "absent" /\ Safe # {}
       THEN \/ UNCHANGED chain
            \/ LET calls == project.called \cap Safe IN
               IF calls = {} THEN audit' = "closes" /\ UNCHANGED found
               ELSE found' \in calls /\ UNCHANGED audit
       ELSE UNCHANGED chain
  /\ UNCHANGED <<project, protocol, rounds, turn, at, task, session, result, partial>>

\* Nobody in the project calls it, but a framework or another package may.
Scrutinise ==
  /\ stage = "scrutiny" /\ stage' = "done"
  /\ audit' = IF audit = "closes" /\ project.framework THEN "reopened" ELSE audit
  /\ UNCHANGED <<project, protocol, rounds, turn, at, task, session, result, partial, found>>

Thread(t) ==
  \/ Begin(t) \/ CheckPackage(t) \/ ReadCode(t) \/ AskFunctions(t) \/ Judge(t) \/ KeepLabel(t)
  \/ KeepFound(t) \/ KeepReached(t) \/ AskSite(t) \/ AskUsages(t)

Replies ==
  \/ \E n \in 1..MaxTurn : \E calls \in [1..n -> Calls] : Turn(calls)
  \/ \E package \in {<<>>, <<Package>>} :
     \E functions \in UNION {[1..n -> Mark] : n \in 0..MaxTurn} :
     \E sites \in {<<>>} \cup {<<Call("check_call_site", <<[of |-> f, vulnerable |-> FALSE]>>)>> : f \in Functions} :
       Round(package, functions, sites)

Next ==
  \/ Replies \/ Rejected \/ GiveUp \/ Unused \/ Answered
  \/ \E t \in Threads : Thread(t)
  \/ Search \/ CheckEntries \/ Scrutinise

Spec == Init /\ [][Next]_vars

-----------------------------------------------------------------------------
(* Properties. *)

TypeOK ==
  /\ stage \in {"ask", "answer", "search", "entries", "scrutiny", "done"}
  /\ at \in [Threads -> {"free", "ask", "judge", "label", "found", "reached"}]
  /\ asked \subseteq Functions /\ usages \subseteq Functions /\ checked \in BOOLEAN
  /\ result.found \in Functions \cup {None} /\ found \in Functions \cup {None, "absent"}
  /\ audit \in {None, "closes", "reopened"}

\* Whatever the model marks, and however the threads' writes fall, what is reported as found is
\* a call the project makes to a function the advisory does not exempt, and the path that is
\* reported leads to such a call.
FoundIsReal ==
  /\ {result.label, result.found} \subseteq (project.called \ Unaffected) \cup {None}
  /\ result.reached \in (project.reached \ Unaffected) \cup {None}

\* The questions put to the engines stay within the limit, those under way included.
Answering == Cardinality({t \in Threads : at[t] # "free"})
WithinLimit ==
  protocol = "tools" => result.calls <= MaxCalls /\ Len(turn) + Answering <= result.calls

\* With tools, no function is asked about before the package is, and the investigation of a
\* package that turned out unused asks nothing more.
PackageFirst ==
  [][asked' # asked \/ usages' # usages => (protocol = "tools" => checked) /\ result.used # "no"]_vars

\* What a checked closure "nobody calls it" says is so, and it stands against no call that was found
\* and no framework or other package.  It says one of two things.  By the engine: no public entry
\* that the advisory does not exempt is called, whatever the model asked and got in part before.  By
\* the language server, of less: none of the names it lists is called.  The model chose those names,
\* none that the advisory exempts, and one of them may be called after all if some of its
\* declarations had no answer (lsp_tools.py:215-217).
EntriesUncalled == project.called \cap Safe = {}
ListedUncalled  ==
  result.uncalled \cap Unaffected = {} /\ result.uncalled \cap project.called \subseteq partial
ClosureHolds ==
  stage = "done" /\ audit = "closes" /\ found = "absent" =>
    /\ result.found = None /\ ~project.framework
    /\ IF OfModel = "closes" THEN ListedUncalled ELSE EntriesUncalled

\* sca/chain/support.py: only zero calls of every public entry is a checked fact.  (Not so where
\* the language server was asked for the names the model chose.)
NobodyCallsIt ==
  stage = "done" /\ audit = "closes" /\ found = "absent" /\ partial = {} =>
    project.called \cap Safe = {}
=============================================================================
