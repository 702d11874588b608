-------------------------- MODULE InvestigationProofs --------------------------
(***************************************************************************)
(* What an investigation reports, for any threads, functions, projects and *)
(* limits: a call the project makes, and "nobody calls it" only where the  *)
(* answers it rests on say so.                                             *)
(***************************************************************************)
EXTENDS Investigation, FiniteSetTheorems, SequenceTheorems, TLAPS

\* A call of f is one the project makes and the advisory does not exempt.
Counts(f) == f \in project.called \ Unaffected
Keeping == {"label", "found", "reached"}

\* A thread that has judged a call goes on to write what it judged; outside a turn none is at work.
ThreadInv ==
  /\ DOMAIN result = {"label", "found", "reached", "used", "calls", "called", "uncalled"}
  /\ DOMAIN at = Threads /\ DOMAIN task = Threads
  /\ \A t \in Threads : at[t] \in Keeping => Counts(Subject(t).of)
  /\ \A t \in Threads : at[t] = "reached" => Subject(t).of \in project.reached
  /\ stage # "answer" => AllFree

\* What the closure rests on, from the search on.
AuditInv ==
  /\ stage \in {"ask", "answer", "search"} => audit = None
  /\ stage \in {"entries", "scrutiny", "done"} /\ found = "absent" => result.found = None
  /\ audit = "closes" /\ found = "absent" => OfModel = "closes" \/ EntriesUncalled
  /\ stage = "done" /\ audit = "closes" => ~project.framework

IInv == project \in Projects /\ ThreadInv /\ FoundIsReal /\ ListedUncalled /\ AuditInv

LEMMA InitHolds == Init => IInv
BY DEF Init, IInv, ThreadInv, FoundIsReal, ListedUncalled, AuditInv, EntriesUncalled, AllFree, Keeping

\* A step of the turn that the threads have no part in.
LEMMA TurnStep ==
  ASSUME IInv, UNCHANGED <<project, at, task, partial, chain>>,
         DOMAIN result' = DOMAIN result,
         result'.label = result.label, result'.found = result.found,
         result'.reached = result.reached, result'.uncalled = result.uncalled,
         stage \in {"ask", "answer"}, stage' \in {"ask", "answer", "search"},
         stage' # "answer" => AllFree
  PROVE  IInv'
BY DEF IInv, ThreadInv, FoundIsReal, ListedUncalled, AuditInv, EntriesUncalled, AllFree, Subject, Counts, chain, None

LEMMA TurnKeeps ==
  ASSUME IInv, Replies \/ Rejected \/ GiveUp \/ Unused \/ Answered
  PROVE  IInv'
<1>0. DOMAIN result = {"label", "found", "reached", "used", "calls", "called", "uncalled"}
  BY DEF IInv, ThreadInv
<1>1. CASE Replies
  <2>1. ASSUME NEW calls, Turn(calls) PROVE IInv'
    BY <1>0, <2>1, TurnStep DEF Turn
  <2>2. ASSUME NEW package, NEW functions, NEW sites, Round(package, functions, sites) PROVE IInv'
    BY <1>0, <2>2, TurnStep DEF Round
  <2> QED
    BY <1>1, <2>1, <2>2 DEF Replies
<1>2. CASE Rejected \/ GiveUp
  <2>1. stage = "ask" => AllFree
    BY DEF IInv, ThreadInv
  <2> QED
    BY <1>2, <2>1, TurnStep DEF Rejected, GiveUp
<1>3. CASE Unused \/ Answered
  BY <1>3, TurnStep DEF Unused, Answered
<1> QED
  BY <1>1, <1>2, <1>3

LEMMA AtWork == ASSUME IInv, NEW t \in Threads, at[t] # "free" PROVE stage = "answer"
BY DEF IInv, ThreadInv, AllFree

\* A thread that moves without writing anything.
LEMMA MoveKeeps ==
  ASSUME IInv, NEW t \in Threads, NEW place, NEW call, Go(t, place, call),
         UNCHANGED <<project, result, partial, chain>>, stage = "answer", stage' = stage,
         place \in Keeping => Counts(Head(call.names).of),
         place = "reached" => Head(call.names).of \in project.reached
  PROVE  IInv'
<1>1. /\ at' = [at EXCEPT ![t] = place] /\ task' = [task EXCEPT ![t] = call]
      /\ UNCHANGED <<project, result, partial, audit, found, stage>>
  BY DEF Go, chain
<1>2. ThreadInv'
  BY <1>1 DEF IInv, ThreadInv, AllFree, Subject, Counts
<1> QED
  BY <1>1, <1>2 DEF IInv, FoundIsReal, ListedUncalled, AuditInv, EntriesUncalled, None

\* A thread that only goes through its question.
LEMMA IdleKeeps ==
  ASSUME IInv, NEW t \in Threads, Begin(t) \/ ReadCode(t) \/ AskFunctions(t) \/ Judge(t)
  PROVE  IInv'
<1> USE DEF Keeping, Skip
<1>1. CASE Begin(t)
  <2>1. UNCHANGED <<project, stage, result, partial, chain>> /\ stage = "answer"
    BY <1>1 DEF Begin, Free
  <2>2. PICK call : Go(t, "ask", call) \/ Go(t, "free", call)
    BY <1>1 DEF Begin, BeginCalls, BeginUsages
  <2> QED
    BY <2>1, <2>2, MoveKeeps
<1>2. CASE ReadCode(t) \/ AskFunctions(t)
  <2>1. UNCHANGED <<project, stage, result, partial, chain>> /\ at[t] # "free"
    BY <1>2 DEF ReadCode, AskFunctions, Asking
  <2>2. PICK place \in {"free", "judge"} : \E call : Go(t, place, call)
    BY <1>2 DEF ReadCode, AskFunctions
  <2> QED
    BY <2>1, <2>2, MoveKeeps, AtWork
<1>3. CASE Judge(t)
  <2>1. UNCHANGED <<project, stage, result, partial, chain>> /\ stage = "answer"
    BY <1>3, AtWork DEF Judge
  <2>2. CASE \E place \in {"free", "judge"} : \E call : Go(t, place, call)
    BY <2>1, <2>2, MoveKeeps
  <2>3. CASE Go(t, "label", task[t]) /\ Counts(Subject(t).of)
    BY <2>1, <2>3, MoveKeeps DEF Subject
  <2> QED
    BY <1>3, <2>2, <2>3 DEF Judge, Really, Counts
<1> QED
  BY <1>1, <1>2, <1>3

\* A thread that writes something into the result, and goes on.
LEMMA WriteKeeps ==
  ASSUME IInv, NEW t \in Threads, NEW place, NEW call, Go(t, place, call),
         UNCHANGED <<project, chain>>, stage = "answer", stage' = stage,
         place \in Keeping => Counts(Head(call.names).of),
         place = "reached" => Head(call.names).of \in project.reached,
         DOMAIN result' = DOMAIN result, FoundIsReal', ListedUncalled'
  PROVE  IInv'
<1>1. /\ at' = [at EXCEPT ![t] = place] /\ task' = [task EXCEPT ![t] = call]
      /\ UNCHANGED <<project, audit, found, stage>> /\ audit = None
  BY DEF Go, chain, IInv, AuditInv
<1>2. ThreadInv'
  BY <1>1 DEF IInv, ThreadInv, AllFree, Subject, Counts
<1> QED
  BY <1>1, <1>2 DEF IInv, AuditInv, EntriesUncalled, None

\* What a thread writes is a call it has judged, or what an engine answered.
LEMMA ResultKeeps ==
  ASSUME IInv, NEW t \in Threads,
         KeepLabel(t) \/ KeepFound(t) \/ KeepReached(t) \/ CheckPackage(t) \/ AskSite(t) \/ AskUsages(t)
  PROVE  IInv'
<1>1. UNCHANGED <<project, stage, chain>> /\ stage = "answer"
  BY AtWork DEF KeepLabel, KeepFound, KeepReached, CheckPackage, AskSite, AskUsages, Asking
<1>2. DOMAIN result = {"label", "found", "reached", "used", "calls", "called", "uncalled"}
  BY DEF IInv, ThreadInv
<1>3. DOMAIN result' = DOMAIN result
  BY <1>2 DEF KeepLabel, KeepFound, KeepReached, CheckPackage, AskSite, AskUsages
<1>4. at[t] \in Keeping => Counts(Subject(t).of)
  BY DEF IInv, ThreadInv
<1>5. FoundIsReal /\ ListedUncalled
  BY DEF IInv
<1>6. CASE KeepLabel(t)
  <2>1. /\ Go(t, "found", task[t]) /\ Counts(Subject(t).of) /\ partial' = partial
        /\ result' = [result EXCEPT !.label = Subject(t).of]
    BY <1>4, <1>6 DEF KeepLabel, Keeping
  <2>2. FoundIsReal' /\ ListedUncalled'
    BY <1>1, <1>2, <1>5, <2>1 DEF FoundIsReal, ListedUncalled, Counts
  <2> QED
    BY <1>1, <1>3, <2>1, <2>2, WriteKeeps DEF Subject
<1>7. CASE KeepFound(t)
  <2>1. /\ Counts(Subject(t).of) /\ partial' = partial
        /\ result' = [result EXCEPT !.found = Subject(t).of]
    BY <1>4, <1>7 DEF KeepFound, Keeping
  <2>2. FoundIsReal' /\ ListedUncalled'
    BY <1>1, <1>2, <1>5, <2>1 DEF FoundIsReal, ListedUncalled, Counts
  <2>3. CASE Subject(t).of \in project.reached /\ Go(t, "reached", task[t])
    BY <1>1, <1>3, <2>1, <2>2, <2>3, WriteKeeps DEF Subject
  <2>4. CASE Go(t, "judge", Next1(t))
    BY <1>1, <1>3, <2>2, <2>4, WriteKeeps DEF Keeping
  <2> QED
    BY <1>7, <2>3, <2>4 DEF KeepFound
<1>8. CASE KeepReached(t)
  <2>1. /\ Counts(Subject(t).of) /\ Subject(t).of \in project.reached /\ partial' = partial
        /\ result' = [result EXCEPT !.reached = Subject(t).of] /\ Go(t, "judge", Next1(t))
    BY <1>4, <1>8 DEF KeepReached, Keeping, IInv, ThreadInv
  <2>2. FoundIsReal' /\ ListedUncalled'
    BY <1>1, <1>2, <1>5, <2>1 DEF FoundIsReal, ListedUncalled, Counts
  <2> QED
    BY <1>1, <1>3, <2>1, <2>2, WriteKeeps DEF Keeping
<1>9. CASE CheckPackage(t)
  <2>1. PICK says : result' = [result EXCEPT !.used = says]
    BY <1>9 DEF CheckPackage
  <2>2. FoundIsReal' /\ ListedUncalled'
    BY <1>1, <1>2, <1>5, <1>9, <2>1 DEF CheckPackage, FoundIsReal, ListedUncalled
  <2> QED
    BY <1>1, <1>3, <1>9, <2>2, WriteKeeps DEF Keeping, CheckPackage, Skip
<1>10. CASE AskSite(t)
  <2>1. FoundIsReal'
    <3>1. CASE UNCHANGED result
      BY <1>1, <1>5, <3>1 DEF FoundIsReal
    <3>2. CASE /\ Subject(t).of \in project.reached /\ result.found = Subject(t).of
               /\ result' = [result EXCEPT !.reached = IF @ = None THEN Subject(t).of ELSE @]
      BY <1>1, <1>2, <1>5, <3>2 DEF FoundIsReal
    <3> QED
      BY <1>10, <3>1, <3>2 DEF AskSite
  <2>2. ListedUncalled'
    BY <1>1, <1>2, <1>5, <1>10 DEF ListedUncalled, AskSite
  <2> QED
    BY <1>1, <1>3, <1>10, <2>1, <2>2, WriteKeeps DEF Keeping, AskSite, Skip
<1>11. CASE AskUsages(t)
  <2> DEFINE m == Subject(t)
  <2>1. CASE UNCHANGED <<result, partial>>
    BY <1>1, <1>3, <1>5, <1>11, <2>1, WriteKeeps DEF Keeping, AskUsages, Skip, FoundIsReal, ListedUncalled
  <2>2. ASSUME NEW whole \in BOOLEAN,
               partial' = IF whole THEN partial ELSE partial \cup {m.of},
               \/ result' = result
               \/ result' = [result EXCEPT !.called = @ \cup {m.of}]
               \/ /\ ~(whole /\ m.of \in project.called) /\ m.of \notin Unaffected
                  /\ result' = [result EXCEPT !.uncalled = @ \cup {m.of}]
        PROVE  IInv'
    <3>1. FoundIsReal'
      BY <1>1, <1>2, <1>5, <2>2 DEF FoundIsReal
    <3>2. partial \subseteq partial' /\ (~whole => m.of \in partial')
      BY <2>2
    <3>3. /\ result'.uncalled \subseteq result.uncalled \cup {m.of}
          /\ whole /\ m.of \in project.called => result'.uncalled = result.uncalled
          /\ m.of \in Unaffected => result'.uncalled = result.uncalled
      BY <1>2, <2>2
    <3>4. ListedUncalled'
      BY <1>1, <1>5, <3>2, <3>3 DEF ListedUncalled
    <3> QED
      BY <1>1, <1>3, <1>11, <3>1, <3>4, WriteKeeps DEF Keeping, AskUsages, Skip
  <2> QED
    BY <1>11, <2>1, <2>2 DEF AskUsages, Really
<1> QED
  BY <1>6, <1>7, <1>8, <1>9, <1>10, <1>11

\* The chain's part: the search, the public entries, the frameworks.
LEMMA ChainKeeps ==
  ASSUME IInv, Search \/ CheckEntries \/ Scrutinise
  PROVE  IInv'
<1>1. UNCHANGED <<project, at, task, result, partial>> /\ stage # "answer" /\ AllFree
  BY DEF Search, CheckEntries, Scrutinise, IInv, ThreadInv
<1>2. ThreadInv' /\ FoundIsReal' /\ ListedUncalled' /\ OfModel' = OfModel
  BY <1>1 DEF IInv, ThreadInv, FoundIsReal, ListedUncalled, AllFree, Subject, Counts, OfModel
<1>3. AuditInv'
  <2>1. CASE Search
    <3>1. result.found \in Functions \cup {None} /\ "absent" \notin Functions /\ None # "absent"
      BY InvestigationAssumption DEF IInv, FoundIsReal, None
    <3>2. found' = "absent" => result.found = None
      BY <2>1, <3>1 DEF Search
    <3>3. audit' = OfModel /\ stage' = "entries" /\ OfModel \in {"closes", None}
      BY <2>1 DEF Search, OfModel
    <3> QED
      BY <1>1, <1>2, <3>2, <3>3 DEF AuditInv, None
  <2>2. CASE CheckEntries
    BY <1>1, <1>2, <2>2 DEF CheckEntries, AuditInv, EntriesUncalled, chain, IInv
  <2>3. CASE Scrutinise
    BY <1>1, <1>2, <2>3 DEF Scrutinise, AuditInv, EntriesUncalled, IInv
  <2> QED
    BY <2>1, <2>2, <2>3
<1> QED
  BY <1>1, <1>2, <1>3 DEF IInv

LEMMA StepKeeps == IInv /\ [Next]_vars => IInv'
<1> SUFFICES ASSUME IInv, [Next]_vars PROVE IInv'
  OBVIOUS
<1>1. CASE UNCHANGED vars
  BY <1>1 DEF vars, session, chain, IInv, ThreadInv, FoundIsReal, ListedUncalled, AuditInv, EntriesUncalled, AllFree,
              Subject, Counts, OfModel
<1> QED
  BY <1>1, TurnKeeps, IdleKeeps, ResultKeeps, ChainKeeps DEF Next, Thread

LEMMA Invariance == Spec => []IInv
BY InitHolds, StepKeeps, PTL DEF Spec

\* Whatever the model marks, and however the threads' writes to the one result fall, what is
\* reported as found is a call the project makes to a function the advisory does not exempt, and
\* the path reported leads to such a call (_Session.find_calls, check_call_site).
THEOREM ReportedIsReal == Spec => []FoundIsReal
<1>1. IInv => FoundIsReal
  BY DEF IInv
<1> QED
  BY <1>1, Invariance, PTL

\* "Nobody calls it" closes against no call that was found and no framework or other package, and what
\* it says is so: by the engine, that no entry the advisory leaves open is called; by the language
\* server, that none of the names it lists is, but for one whose declarations were answered in part
\* (_entry_point_check, _framework_invoked, usages).
THEOREM ClosesOnAnswers == Spec => []ClosureHolds
<1>1. IInv => ClosureHolds
  BY DEF IInv, AuditInv, EntriesUncalled, ListedUncalled, ClosureHolds
<1> QED
  BY <1>1, Invariance, PTL

\* With tools, no function is asked about before the package is, and once the package turned out
\* unused nothing more is (_run_tool, _Session).
THEOREM PackageGoesFirst == Spec => PackageFirst
<1>1. ASSUME NEW t \in Threads, Thread(t), asked' # asked \/ usages' # usages
      PROVE  (protocol = "tools" => checked) /\ result.used # "no"
  <2>1. Begin(t)
    BY <1>1 DEF Thread, CheckPackage, ReadCode, AskFunctions, Judge, KeepLabel, KeepFound, KeepReached,
                AskSite, AskUsages, session
  <2>2. NotPackage(Head(turn)) /\ (protocol = "tools" => checked)
    BY <1>1, <2>1 DEF Begin, session, NotPackage
  <2> QED
    BY <2>1, <2>2 DEF Begin, Free
<1>2. ASSUME [Next]_vars, asked' # asked \/ usages' # usages PROVE \E t \in Threads : Thread(t)
  BY <1>2 DEF Next, Replies, Turn, Round, Rejected, GiveUp, Unused, Answered, Search, CheckEntries,
              Scrutinise, session, vars
<1>3. [Next]_vars => [asked' # asked \/ usages' # usages => (protocol = "tools" => checked) /\ result.used # "no"]_vars
  BY <1>1, <1>2
<1> QED
  BY <1>3, PTL DEF Spec, PackageFirst

-----------------------------------------------------------------------------
(* The limit on the questions. *)

IsSeq(s) == \E n \in Nat : \E S : s \in [1..n -> S]
Busy == {t \in Threads : at[t] # "free"}

\* The questions nobody has taken and those under way were all counted.
LimitInv ==
  /\ DOMAIN result = {"label", "found", "reached", "used", "calls", "called", "uncalled"}
  /\ at \in [Threads -> {"free", "ask", "judge", "label", "found", "reached"}]
  /\ protocol \in {"tools", "json"}
  /\ protocol = "tools" =>
       /\ result.calls \in 0..MaxCalls
       /\ IsSeq(turn)
       /\ Len(turn) + Cardinality(Busy) <= result.calls

\* A turn keeps its questions when the package goes first.
LEMMA OrderedKeeps ==
  ASSUME NEW n \in Nat, NEW S, NEW calls \in [1..n -> S]
  PROVE  IsSeq(Ordered(calls)) /\ Len(Ordered(calls)) = n
<1> DEFINE Before(i, j) == IF IsPackage(calls[i]) = IsPackage(calls[j]) THEN i < j ELSE IsPackage(calls[i])
           order == CHOOSE p \in [DOMAIN calls -> DOMAIN calls] :
                      \A i, j \in DOMAIN calls : i < j => Before(p[i], p[j])
<1> HIDE DEF order
<1>1. Ordered(calls) = [i \in 1..n |-> calls[order[i]]]
  <2>1. Ordered(calls) = [i \in DOMAIN calls |-> calls[order[i]]]
    BY Zenon DEF Ordered, order
  <2>2. DOMAIN calls = 1..n
    OBVIOUS
  <2> QED
    BY <2>1, <2>2, Zenon
<1> DEFINE T == {calls[order[i]] : i \in 1..n}
<1>2. Ordered(calls) \in [1..n -> T]
  BY <1>1
<1> HIDE DEF T
<1>3. Ordered(calls) \in Seq(T)
  BY <1>2
<1>4. Len(Ordered(calls)) = n
  BY <1>2, <1>3
<1> QED
  BY <1>2, <1>4 DEF IsSeq

LEMMA SeqIsSeq == ASSUME NEW S, NEW s \in Seq(S) PROVE IsSeq(s)
BY LenProperties DEF IsSeq

LEMMA TailKeeps ==
  ASSUME NEW s, IsSeq(s), s # <<>>
  PROVE  IsSeq(Tail(s)) /\ Len(s) \in Nat /\ Len(Tail(s)) = Len(s) - 1
<1>1. PICK n \in Nat : \E S : s \in [1..n -> S]
  BY DEF IsSeq
<1>2. PICK S : s \in [1..n -> S]
  BY <1>1
<1>3. s \in Seq(S) /\ Len(s) = n /\ n # 0
  BY <1>2
<1>4. Tail(s) \in Seq(S) /\ Len(Tail(s)) = n - 1
  BY <1>3
<1> QED
  BY <1>3, <1>4, SeqIsSeq

LEMMA LengthIsNat == ASSUME NEW s, IsSeq(s) PROVE Len(s) \in Nat
BY DEF IsSeq

LEMMA BusyIsFinite ==
  ASSUME NEW B \in SUBSET Threads
  PROVE  IsFiniteSet(B) /\ Cardinality(B) \in Nat
BY FS_Subset, FS_CardinalityType, InvestigationAssumption

\* A thread that goes somewhere: at most one more is at work, and no more if it was already.
LEMMA GoingCounts ==
  ASSUME NEW t \in Threads, NEW place, NEW call, Go(t, place, call), DOMAIN at = Threads
  PROVE  /\ Cardinality(Busy') <= Cardinality(Busy) + 1
         /\ at[t] # "free" \/ place = "free" => Cardinality(Busy') <= Cardinality(Busy)
         /\ Cardinality(Busy') \in Nat /\ Cardinality(Busy) \in Nat
<1>1. Busy' \subseteq Busy \cup {t} /\ (at[t] # "free" \/ place = "free" => Busy' \subseteq Busy)
  BY DEF Go, Busy
<1>2. Busy \in SUBSET Threads /\ Busy' \in SUBSET Threads
  BY DEF Busy
<1>3. IsFiniteSet(Busy \cup {t}) /\ Cardinality(Busy \cup {t}) <= Cardinality(Busy) + 1
  BY <1>2, BusyIsFinite, FS_AddElement
<1> HIDE DEF Busy
<1>4. Cardinality(Busy') <= Cardinality(Busy \cup {t})
  BY <1>1, <1>3, FS_Subset
<1>5. at[t] # "free" \/ place = "free" => Cardinality(Busy') <= Cardinality(Busy)
  BY <1>1, <1>2, BusyIsFinite, FS_Subset
<1>6. Cardinality(Busy') \in Nat /\ Cardinality(Busy) \in Nat
  BY <1>2, BusyIsFinite
<1>7. Cardinality(Busy \cup {t}) \in Nat
  BY <1>3, FS_CardinalityType
<1> QED
  BY <1>3, <1>4, <1>5, <1>6, <1>7

LEMMA LimitInit == Init => LimitInv
<1> SUFFICES ASSUME Init PROVE LimitInv
  OBVIOUS
<1>1. Busy = {} /\ Cardinality({}) = 0
  BY FS_EmptySet DEF Init, Busy
<1>2. turn = <<>> /\ IsSeq(<<>>) /\ Len(<<>>) = 0
  <2>1. <<>> \in [1..0 -> {}]
    OBVIOUS
  <2> QED
    BY <2>1 DEF Init, IsSeq
<1> QED
  BY <1>1, <1>2, InvestigationAssumption DEF Init, LimitInv

\* A question goes from the turn to a thread, or comes to its end.
LEMMA GoingKeeps ==
  ASSUME LimitInv, NEW t \in Threads, NEW place \in {"free", "ask", "judge", "label", "found", "reached"},
         NEW call, Go(t, place, call), UNCHANGED protocol,
         DOMAIN result' = DOMAIN result, result'.calls = result.calls,
         \/ turn # <<>> /\ turn' = Tail(turn)
         \/ at[t] # "free" /\ turn' = turn
  PROVE  LimitInv'
<1>1. at' = [at EXCEPT ![t] = place] /\ DOMAIN at = Threads
  BY DEF Go, LimitInv
<1>2. /\ Cardinality(Busy') <= Cardinality(Busy) + 1
      /\ at[t] # "free" => Cardinality(Busy') <= Cardinality(Busy)
      /\ Cardinality(Busy') \in Nat /\ Cardinality(Busy) \in Nat
  BY <1>1, GoingCounts
<1>3. ASSUME protocol = "tools"
      PROVE  IsSeq(turn') /\ Len(turn') + Cardinality(Busy') <= result.calls
  <2>1. IsSeq(turn) /\ Len(turn) + Cardinality(Busy) <= result.calls /\ result.calls \in Nat
    BY <1>3, InvestigationAssumption DEF LimitInv
  <2>2. CASE turn # <<>> /\ turn' = Tail(turn)
    BY <1>2, <2>1, <2>2, TailKeeps
  <2>3. CASE at[t] # "free" /\ turn' = turn
    BY <1>2, <2>1, <2>3, LengthIsNat
  <2> QED
    BY <2>2, <2>3
<1> QED
  BY <1>1, <1>3 DEF LimitInv

LEMMA ThreadKeepsLimit == ASSUME LimitInv, NEW t \in Threads, Thread(t) PROVE LimitInv'
<1> USE DEF Skip
<1>1. CASE Begin(t)
  <2>1. UNCHANGED <<protocol, result>> /\ turn # <<>> /\ turn' = Tail(turn)
    BY <1>1 DEF Begin, Free
  <2>2. PICK call : Go(t, "ask", call) \/ Go(t, "free", call)
    BY <1>1 DEF Begin, BeginCalls, BeginUsages
  <2> QED
    BY <2>1, <2>2, GoingKeeps
<1>2. CASE ~Begin(t)
  <2>1. UNCHANGED <<protocol, turn>> /\ at[t] # "free"
    BY <1>2 DEF Thread, CheckPackage, ReadCode, AskFunctions, Judge, KeepLabel, KeepFound, KeepReached,
                AskSite, AskUsages, Asking
  <2>2. PICK place \in {"free", "judge", "label", "found", "reached"} : \E call : Go(t, place, call)
    BY <1>2 DEF Thread, CheckPackage, ReadCode, AskFunctions, Judge, KeepLabel, KeepFound, KeepReached,
                AskSite, AskUsages
  <2>3. DOMAIN result' = DOMAIN result /\ result'.calls = result.calls
    <3>1. DOMAIN result = {"label", "found", "reached", "used", "calls", "called", "uncalled"}
      BY DEF LimitInv
    <3>2. CASE CheckPackage(t) \/ ReadCode(t) \/ AskFunctions(t) \/ Judge(t) \/ KeepLabel(t)
      BY <3>1, <3>2 DEF CheckPackage, ReadCode, AskFunctions, Judge, KeepLabel
    <3>3. CASE KeepFound(t) \/ KeepReached(t) \/ AskSite(t)
      BY <3>1, <3>3 DEF KeepFound, KeepReached, AskSite
    <3>4. CASE AskUsages(t)
      BY <3>1, <3>4 DEF AskUsages
    <3> QED
      BY <1>2, <3>2, <3>3, <3>4 DEF Thread
  <2> QED
    BY <2>1, <2>2, <2>3, GoingKeeps
<1> QED
  BY <1>1, <1>2

LEMMA TurnKeepsLimit ==
  ASSUME LimitInv, NEW n \in 1..MaxTurn, NEW calls \in [1..n -> Calls], Turn(calls)
  PROVE  LimitInv'
<1> DEFINE left == MaxCalls - result.calls
           m == IF Len(calls) < left THEN Len(calls) ELSE left
<1>1. /\ protocol = "tools" /\ result.calls \in 0..MaxCalls /\ MaxCalls \in Nat /\ n \in Nat
      /\ IsSeq(turn) /\ Len(turn) + Cardinality(Busy) <= result.calls
  BY InvestigationAssumption DEF LimitInv, Turn
<1>2. calls \in Seq(Calls) /\ Len(calls) = n
  BY <1>1
<1>3. m \in Nat /\ m <= n /\ m <= left
  BY <1>1, <1>2
<1>4. Allowed(calls) \in [1..m -> Calls] /\ Len(Allowed(calls)) = m
  <2>1. Allowed(calls) = SubSeq(calls, 1, m)
    BY DEF Allowed
  <2> HIDE DEF m
  <2>2. SubSeq(calls, 1, m) \in Seq(Calls) /\ Len(SubSeq(calls, 1, m)) = m
    BY <1>1, <1>2, <1>3
  <2> QED
    BY <2>1, <2>2, LenProperties
<1> HIDE DEF m
<1>5. IsSeq(turn') /\ Len(turn') = m
  BY <1>3, <1>4, OrderedKeeps DEF Turn
<1>6. result' = [result EXCEPT !.calls = @ + m] /\ UNCHANGED <<protocol, at>>
  BY <1>4 DEF Turn
<1>7. Cardinality(Busy) \in Nat /\ Len(turn) \in Nat
  BY <1>1, BusyIsFinite, LengthIsNat DEF Busy
<1>8. Busy' = Busy
  BY <1>6 DEF Busy
<1>9. DOMAIN result' = DOMAIN result /\ result'.calls = result.calls + m
  BY <1>6 DEF LimitInv
<1> QED
  BY <1>1, <1>3, <1>5, <1>6, <1>7, <1>8, <1>9 DEF LimitInv

LEMMA LimitStep == LimitInv /\ [Next]_vars => LimitInv'
<1> SUFFICES ASSUME LimitInv, [Next]_vars PROVE LimitInv'
  OBVIOUS
<1>1. CASE \E n \in 1..MaxTurn : \E calls \in [1..n -> Calls] : Turn(calls)
  BY <1>1, TurnKeepsLimit
<1>2. CASE \E t \in Threads : Thread(t)
  BY <1>2, ThreadKeepsLimit
<1>3. CASE Unused
  <2>1. UNCHANGED <<protocol, at, result>> /\ turn' = <<>> /\ Busy' = Busy
    BY <1>3 DEF Unused, session, Busy
  <2>2. IsSeq(<<>>) /\ Len(<<>>) = 0
    <3>1. <<>> \in [1..0 -> {}]
      OBVIOUS
    <3> QED
      BY <3>1 DEF IsSeq
  <2>3. IsSeq(turn) => Len(turn) \in Nat /\ Cardinality(Busy) \in Nat
    BY LengthIsNat, BusyIsFinite DEF Busy
  <2>4. MaxCalls \in Nat
    BY InvestigationAssumption
  <2> QED
    BY <2>1, <2>2, <2>3, <2>4 DEF LimitInv
<1>4. CASE \E package, functions, sites : Round(package, functions, sites)
  BY <1>4 DEF Round, LimitInv
<1>5. CASE Rejected \/ GiveUp \/ Answered \/ Search \/ CheckEntries \/ Scrutinise \/ UNCHANGED vars
  <2>1. UNCHANGED <<turn, at, result>> /\ protocol' \in {protocol, "json"} /\ Busy' = Busy
    BY <1>5 DEF Rejected, GiveUp, Answered, Search, CheckEntries, Scrutinise, vars, Busy
  <2> QED
    BY <2>1 DEF LimitInv
<1> QED
  BY <1>1, <1>2, <1>3, <1>4, <1>5 DEF Next, Replies

\* With tools, the questions put to the engines stay within max_tool_calls: those the turn still
\* holds and those its threads are at were all counted when the turn was cut (_investigate_with_tools).
THEOREM StaysWithinLimit == Spec => []WithinLimit
<1>1. LimitInv => WithinLimit
  <2>1. MaxCalls \in Nat
    BY InvestigationAssumption
  <2> QED
    BY <2>1 DEF LimitInv, WithinLimit, Answering, Busy
<1> QED
  BY <1>1, LimitInit, LimitStep, PTL DEF Spec
================================================================================
