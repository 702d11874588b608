------------------------------- MODULE CodeWalk -------------------------------
(***************************************************************************)
(* One walk of the model over the code: CodeWalk.retrieve (codewalk.py),   *)
(* the tool loop that drives it (llm/tools.py) and the evidence it         *)
(* collects (context/evidence.py).  The questions of one turn are answered *)
(* side by side; the package they write to is under a lock, the facts a    *)
(* search shows are read outside it.                                       *)
(*                                                                         *)
(* Lines come in windows; a pattern is known by the windows that match it, *)
(* whether it is looked for in the project or in one package (in one that  *)
(* is not installed it matches none), or by the note that refuses it.      *)
(***************************************************************************)
EXTENDS Naturals, Sequences, FiniteSets

CONSTANTS
  Windows,   \* windows of lines of the repository
  Patterns,  \* what is searched for
  Hits,      \* the windows a pattern matches
  Refusal,   \* the note on a pattern that is no search: empty, too long, of several lines, or in
             \* what is no package name; by pattern
  Located,   \* the windows of the finding itself: its trace, flow and call sites
  Room,      \* max_chars of evidence, in windows
  MaxCalls,  \* max_tool_calls
  MaxTurns,  \* max_turns: four more in the code
  MaxAsked,  \* questions in one turn
  Parallel   \* parallel_llm

ASSUME WalkAssumption ==
  /\ Hits \in [Patterns -> SUBSET Windows] /\ Located \subseteq Windows
  /\ IsFiniteSet(Windows)
  /\ DOMAIN Refusal \subseteq Patterns
  /\ Room \in Nat /\ MaxCalls \in Nat /\ MaxTurns \in Nat \ {0}
  /\ MaxAsked \in Nat \ {0} /\ Parallel \in Nat \ {0}

Missing == "missing"  \* a path that is not there, or may not be read
Questions ==
  [tool : {"search_code", "lsp_find_usages"}, of : Patterns]
  \cup [tool : {"read_file"}, of : Windows \cup {Missing}]
  \cup {[tool |-> "unknown", of |-> Missing]}

Rejected == DOMAIN Refusal
RefusalNotes == {Refusal[p] : p \in Rejected}

\* code_facts: one line for a search or a lookup, its answer included.
Facts == [tool : {"search_code", "lsp_find_usages"}, of : Patterns]

VARIABLES
  place,   \* of the walk: enrich, ask, answer, and the ends returned and raised
  asked,   \* the questions of this turn
  stage,   \* where the handler of each of them is
  before,  \* the number of facts a search saw when it began
  text,    \* what its retrieve came back with
  answers, \* of this turn, in the order asked
  covered, \* windows in evidence_blocks
  facts,   \* code_facts
  notes,   \* context_notes
  calls,   \* loop.calls
  turns,   \* len(loop.turns)
  added,   \* what retrieve returns
  error,   \* loop.error is set
  given,   \* history: the package when the walk began
  invoked  \* history: handlers called

vars == <<place, asked, stage, before, text, answers, covered, facts, notes, calls, turns,
          added, error, given, invoked>>
package  == <<covered, facts, notes>>
handlers == <<stage, before, text, answers>>
loop     == <<calls, turns, error>>
history  == <<given, invoked>>

Unanswered == [of |-> Missing, shows |-> {}, absent |-> FALSE]

Init ==
  /\ place = "enrich" /\ asked = <<>> /\ stage = <<>> /\ before = <<>> /\ text = <<>> /\ answers = <<>>
  /\ covered = {} /\ facts = <<>> /\ notes = {}
  /\ calls = 0 /\ turns = 0 /\ added = FALSE /\ error = FALSE
  /\ given = <<{}, <<>>>> /\ invoked = 0

Told(f) == \E i \in 1..Len(facts) : facts[i] = f
FactOfNewLines(f) ==  \* fault
  IF Told(f) \/ (f.tool = "search_code" /\ Hits[f.of] \subseteq covered) THEN facts ELSE Append(facts, f)
WithFact(f) == IF Told(f) THEN facts ELSE Append(facts, f)

\* _add: the lines not yet covered, as many as there is room for.
Taken(new, room) ==
  {t \in SUBSET new : /\ Cardinality(covered \cup t) <= room
                      /\ t = new \/ Cardinality(covered \cup new) > room}

\* RepositoryEvidence.enrich, before any question: up to three quarters of the room.
Enrich ==
  /\ place = "enrich" /\ place' = "ask"
  /\ \E t \in Taken(Located, (Room * 3) \div 4) :
       /\ covered' = t
       /\ notes' = {"static"} \cup (IF t = Located THEN {} ELSE {"truncated"})
       /\ given' = <<t, facts>>
  /\ UNCHANGED <<asked, handlers, facts, loop, added, invoked>>

-----------------------------------------------------------------------------
(* A turn: run_tool_loop and run_calls. *)

Finish(failed) == place' = IF failed /\ ~added THEN "raised" ELSE "returned"

SlotsByTurn(questions) ==  \* fault
  [i \in DOMAIN questions |-> calls < MaxCalls /\ questions[i].tool # "unknown"]

\* Which of the questions get a slot: taken in their order, before any of them is started.
Slots(questions) ==
  [i \in DOMAIN questions |->
     /\ questions[i].tool # "unknown"
     /\ calls + Cardinality({j \in 1..(i - 1) : questions[j].tool # "unknown"}) < MaxCalls]

Granted(questions) == {i \in DOMAIN questions : Slots(questions)[i]}

TurnsOfCalls(questions) == IF Granted(questions) = {} THEN turns ELSE turns + 1  \* fault
TurnsWith(questions) == turns + 1

\* The model's turn asks for something.
Ask ==
  /\ place = "ask" /\ turns < MaxTurns
  /\ \E n \in 1..MaxAsked : \E questions \in [1..n -> Questions] :
       /\ asked' = questions
       /\ stage' = [i \in 1..n |-> IF Slots(questions)[i] THEN "queued" ELSE "done"]
       /\ before' = [i \in 1..n |-> 0] /\ text' = [i \in 1..n |-> ""]
       /\ answers' = [i \in 1..n |-> IF Slots(questions)[i] THEN Unanswered
                                       ELSE [Unanswered EXCEPT !.of = questions[i].of]]
       /\ calls' = calls + Cardinality(Granted(questions))
       /\ turns' = TurnsWith(questions)
  /\ place' = "answer"
  /\ UNCHANGED <<package, added, error, history>>

\* It asks for nothing, or the client failed or spent the ceiling, or the turns are over.
Stop ==
  /\ place = "ask"
  /\ \E failed \in BOOLEAN :
       /\ turns = MaxTurns => ~failed
       /\ error' = failed /\ Finish(failed)
  /\ UNCHANGED <<asked, handlers, package, calls, turns, added, history>>

\* The turn is answered: the next one, unless the questions are used up.
NextTurn ==
  IF calls >= MaxCalls THEN Finish(FALSE) ELSE place' = "ask"

TurnOver ==
  /\ place = "answer" /\ \A i \in DOMAIN asked : stage[i] = "done"
  /\ NextTurn
  /\ asked' = <<>> /\ stage' = <<>> /\ before' = <<>> /\ text' = <<>> /\ answers' = <<>>
  /\ UNCHANGED <<package, loop, added, history>>

-----------------------------------------------------------------------------
(* A handler. *)

Move(i, to) == stage' = [stage EXCEPT ![i] = to]
Running == {i \in DOMAIN asked : stage[i] \notin {"queued", "done"}}

\* The pool takes the questions in their order, Parallel of them at a time.  A search notes
\* how many facts there are.
Begin(i) ==
  /\ place = "answer" /\ stage[i] = "queued"
  /\ \A j \in 1..(i - 1) : stage[j] # "queued"
  /\ Cardinality(Running) < Parallel
  /\ before' = [before EXCEPT ![i] = Len(facts)]
  /\ Move(i, IF asked[i].tool = "lsp_find_usages" THEN "log" ELSE "run")
  /\ invoked' = invoked + 1
  /\ UNCHANGED <<place, asked, text, answers, package, loop, added, given>>

Full == Cardinality(covered) >= Room
Refused(q) == q.tool = "search_code" /\ q.of \in Rejected
Wanted(q) ==
  IF q.tool = "search_code" THEN IF Refused(q) THEN {} ELSE Hits[q.of] ELSE {q.of} \ {Missing}

GrownByBlocks(t, fs) == added \/ t # {}  \* fault
Grown(t, fs) == added \/ t # {} \/ Len(fs) > Len(facts)

\* RepositoryEvidence.retrieve of one request, under the lock `writing`.  A search that is
\* refused leaves a note and no fact; no note is made twice.
Retrieve(i) ==
  LET q == asked[i] IN
  /\ place = "answer" /\ stage[i] = "run"
  /\ \E t \in IF Full THEN {{}} ELSE Taken(Wanted(q) \ covered, Room) :
       LET cut == Full \/ t # Wanted(q) \ covered
           new == (IF cut THEN {"truncated"} ELSE {})
                  \cup (IF q.of = Missing /\ ~Full THEN {"unavailable"} ELSE {})
                  \cup (IF Refused(q) /\ ~Full THEN {Refusal[q.of]} ELSE {})
           fs  == IF q.tool = "search_code" /\ ~Refused(q) /\ ~Full THEN WithFact(q) ELSE facts
       IN /\ covered' = covered \cup t
          /\ facts' = fs
          /\ notes' = notes \cup new
          /\ added' = Grown(t, fs)
          /\ text' = [text EXCEPT ![i] = IF t # {} THEN "blocks"
                                          ELSE IF new \subseteq notes THEN "nothing" ELSE "notes"]
  /\ Move(i, "show")
  /\ UNCHANGED <<place, asked, before, answers, loop, history>>

\* The facts there are by now beyond those it saw: its own, and what others added since.
Shown(i) == {facts[n] : n \in (before[i] + 1)..Len(facts)}

\* The answer to a read or a search.  A window the package already holds is shown again; a
\* search that brought neither lines nor notes nor facts says that there is no match.
Show(i) ==
  LET search == asked[i].tool = "search_code" IN
  /\ place = "answer" /\ stage[i] = "show"
  /\ answers' = [answers EXCEPT ![i] =
       [of |-> asked[i].of, shows |-> IF search THEN Shown(i) ELSE {},
        absent |-> text[i] = "nothing"
                    /\ IF search THEN Shown(i) = {} ELSE asked[i].of = Missing]]
  /\ Move(i, "log")
  /\ UNCHANGED <<place, asked, before, text, package, loop, added, history>>

\* logged: code_questions, and the fact of a lookup, under the lock.
Log(i) ==
  LET fs == IF asked[i].tool = "lsp_find_usages" THEN WithFact(asked[i]) ELSE facts IN
  /\ place = "answer" /\ stage[i] = "log"
  /\ facts' = fs /\ added' = Grown({}, fs)
  /\ answers' = [answers EXCEPT ![i].of = asked[i].of]
  /\ Move(i, "done")
  /\ UNCHANGED <<place, asked, before, text, covered, notes, loop, history>>

Rest == place \in {"returned", "raised"} /\ UNCHANGED vars

Handler(i) == Begin(i) \/ Retrieve(i) \/ Show(i) \/ Log(i)
Walk == Enrich \/ Ask \/ Stop \/ TurnOver \/ \E i \in DOMAIN asked : Handler(i)
Next == Walk \/ Rest

\* Every handler ends: searches read files, lookups have the timeouts of LspClient.
Spec == Init /\ [][Next]_vars /\ WF_vars(Walk)

-----------------------------------------------------------------------------
(* Properties. *)

TypeOK ==
  /\ place \in {"enrich", "ask", "answer", "returned", "raised"}
  /\ asked \in Seq(Questions)
  /\ covered \subseteq Windows /\ facts \in Seq(Facts)
  /\ notes \subseteq {"static", "truncated", "unavailable"} \cup RefusalNotes
  /\ calls \in 0..MaxCalls /\ turns \in 0..MaxTurns
  /\ added \in BOOLEAN /\ error \in BOOLEAN

\* PARALLEL_EXECUTION.md: the budget is taken before a call starts, so that two calls side
\* by side do not both see the last slot.
QuestionsBounded == invoked <= MaxCalls

\* retrieve says that the material grew exactly when it did, though several handlers write
\* both: the caller renders the prompt again, or gives the round up, by it.
AddedMeansGrown ==
  place \in {"ask", "returned", "raised"} => (added <=> given # <<covered, facts>>)

\* What the package holds about a search.
Recorded(q) == Told(q) \/ (q.of \in Rejected /\ Refusal[q.of] \in notes)

\* What an answer denies the judge can check: "no match" is said only of a search whose own
\* line, with what it matched, is among the facts, for which there was no room, or which was
\* refused, with the refusal among the notes.  (That search was not made: the first time its
\* answer is the refusal; asked again, when the note is there already, it is "no match".)
DenialOnRecord ==
  \A i \in DOMAIN answers :
    answers[i].absent /\ asked[i].tool = "search_code" => Recorded(asked[i]) \/ Full

\* An answer says "no match" only of what a search of the whole project did not find.
NoFalseAbsence ==
  \A i \in DOMAIN answers :
    answers[i].absent /\ asked[i].tool = "search_code" => Hits[asked[i].of] = {}

\* The walk ends, however many turns ask for tools that do not exist.
WalkEnds == <>(place \in {"returned", "raised"})
=============================================================================
