-------------------------------- MODULE Resolve --------------------------------
(***************************************************************************)
(* Which function an advisory's flaw sits in (sca/resolve.py): what the    *)
(* advisory lists, what the fix changed, what the model names and what is  *)
(* done with a name that does not hold.  A function of the advisory, of    *)
(* the fix as it was fetched and of the model's answers, one to a prompt.  *)
(*                                                                         *)
(* Functions of the package are told apart by what speaks for them:        *)
(* "flaw" is the vulnerable one, changed by the fix and declared in the    *)
(* installed version; "bypassed" is declared too, but the fix shows it     *)
(* only as context; "added" is new in the fix; "alien" is named by nothing.*)
(***************************************************************************)
EXTENDS Naturals, Sequences

FunctionNames == {"flaw", "bypassed", "added", "alien"}
Failed        == [fn |-> "failed"] \* an answer that did not come

\* An answer to "symbol": the function, whether its quote is a line the fix changed, whether it is
\* no function but a type or a constant, and the file, named or not shipped to an installation.
SymbolAnswers ==
  [fn : FunctionNames \cup {"none"}, changed : BOOLEAN, kind : {"callable", "type"},
   file : {"none", "shipped", "unshipped"}]

\* VulnerableSymbol.  names: its candidates, in the order they are searched for.
NoSymbol == [fn |-> "none", names |-> << >>, file |-> FALSE, listed |-> FALSE, guess |-> FALSE,
             distributed |-> TRUE, paths |-> FALSE, condition |-> FALSE, missing |-> FALSE]
Named(fns) == [NoSymbol EXCEPT !.fn = Head(fns), !.names = fns]

\* VulnerableSymbol.usable
Usable(symbol) == (symbol.fn # "none" \/ symbol.file) /\ symbol.distributed

\* An advisory a: the functions it lists as vulnerable and whether any is the package's own, whether
\* it lists import paths, links a fix, has a text, the functions its text names, in order, and those
\* that _diff_symbols finds in the fix; php: whether its ecosystem is PHP's.
Advisories ==
  [symbols : {"ours", "foreign", "none"}, paths : BOOLEAN, fixes : BOOLEAN, text : BOOLEAN,
   named : Seq(FunctionNames), changed : Seq(FunctionNames), php : BOOLEAN]
Listed(a)     == a.symbols = "ours"
AdvisoryUsable(a) == a.text \/ a.fixes

\* fix_diff: the first linked fix that can be fetched and has source in it.
Diff(a, fetched) == fetched /\ a.fixes

\* _diff_symbols: the functions the fix touches, as they are declared in it.
Touched(a, diff) == IF diff THEN a.changed ELSE << >>

\* _existed_before_fix, _declaration_state: no where that can be told, else unknown counts as yes.
Existed(diff, fn)           == ~(diff /\ fn = "added")
Declared(installed, fn)     == ~(installed /\ fn \in {"added", "alien"})
Grounded(a, diff, fn)       == (diff /\ fn # "alien") \/ \E i \in DOMAIN a.named : a.named[i] = fn
QuotesChange(diff, answer)  == ~diff \/ answer.changed

\* The name is asked for again, once, when it is not grounded in the fix or its quote is not.
Again(a, diff, answer) ==
  /\ answer # Failed /\ answer.fn # "none" /\ diff
  /\ ~(Grounded(a, diff, answer.fn) /\ QuotesChange(diff, answer))

Keeps(a, diff, installed, answer) ==
  /\ answer.fn # "none"
  /\ Existed(diff, answer.fn)
  /\ Declared(installed, answer.fn)
  /\ diff => Grounded(a, diff, answer.fn) /\ QuotesChange(diff, answer)

\* _users_of: a type or a constant is never called; the functions of the package that use it are.
Callable(answer, installed) == answer.kind = "callable" \/ installed

\* What the last answer makes of the advisory: a type is replaced by the functions that use it, a
\* file that no installation receives means the flaw is not distributed.
FromAnswer(a, diff, installed, answer) ==
  IF answer = Failed THEN NoSymbol
  ELSE [NoSymbol EXCEPT
         !.fn = IF Keeps(a, diff, installed, answer) /\ Callable(answer, installed)
                  THEN answer.fn ELSE "none",
         !.names = <<answer.fn>> \o Touched(a, diff),
         !.file = answer.file # "none",
         !.distributed = ~(answer.fn = "none" /\ answer.file = "unshipped"),
         !.condition = TRUE,
         !.missing = answer.fn # "none" /\ ~Declared(installed, answer.fn)]

\* _context_resort: the functions, the file or the scope of the advisory, taken as named.
FromContext(answer) ==
  [NoSymbol EXCEPT !.fn = answer.fn, !.names = <<answer.fn>>, !.file = answer.file # "none"]

\* _carry_context: what was established before the name was replaced stays.
Carry(base, other) == [other EXCEPT !.condition = base.condition, !.missing = base.missing]

\* Without a name: the model's context, then the names of the text and of the fix (_candidate_symbol,
\* _named_candidates), then those the model thinks of (_last_resort).
Fallback(a, diff, base, context, guess) ==
  LET spoken == a.named \o Touched(a, diff) IN
  IF base.fn # "none" \/ ~base.distributed THEN base
  ELSE IF context # Failed /\ (context.fn # "none" \/ context.file # "none" \/ context.scope)
         THEN Carry(base, FromContext(context))
  ELSE IF spoken # << >> THEN Carry(base, Named(spoken))
  ELSE IF guess # "none" THEN Carry(base, [Named(<<guess>>) EXCEPT !.guess = TRUE])
  ELSE base

\* _resolve.  m: the answers to "symbol", to its correction, to the context and to the last resort.
FromAdvisory(a, diff, installed, m) ==
  LET alone  == IF m.context = Failed THEN NoSymbol ELSE FromContext(m.context)
      answer == IF Again(a, diff, m.first) THEN m.second ELSE m.first
  IN IF Listed(a) THEN [Named(<<"flaw">>) EXCEPT !.listed = TRUE]
     ELSE IF (a.paths /\ a.symbols = "none" /\ ~a.fixes) \/ ~AdvisoryUsable(a) THEN alone
     ELSE Fallback(a, diff, FromAnswer(a, diff, installed, answer), m.context, m.guess)

\* _keep_what_the_package_declares
KeepDeclared(symbol) ==
  LET names == symbol.names
      found[i \in 0..Len(names)] ==
        IF i = 0 THEN << >>
        ELSE IF names[i] # "none" /\ Declared(TRUE, names[i]) THEN Append(found[i - 1], names[i])
        ELSE found[i - 1]
      kept == found[Len(names)] IN
  IF symbol.fn = "none" THEN symbol
  ELSE IF Declared(TRUE, symbol.fn) THEN [symbol EXCEPT !.names = kept]
  ELSE [symbol EXCEPT !.names = kept, !.fn = IF kept = << >> THEN "none" ELSE Head(kept)]

Resolved(a, diff, installed, m) ==
  LET symbol == [FromAdvisory(a, diff, installed, m) EXCEPT !.paths = a.paths] IN
  IF a.php /\ installed THEN KeepDeclared(symbol) ELSE symbol

ContextAnswers == [fn : {"flaw", "bypassed", "alien", "none"}, file : {"none", "shipped"}, scope : BOOLEAN]
ModelAnswers ==
  [first   : SymbolAnswers \cup {Failed}, second : SymbolAnswers \cup {Failed},
   context : ContextAnswers \cup {Failed}, guess : {"flaw", "bypassed", "alien", "none"}]
=============================================================================
