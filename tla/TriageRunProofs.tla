--------------------------- MODULE TriageRunProofs ---------------------------
(***************************************************************************)
(* What holds of TriageRun for every input, pool, number of edits and      *)
(* number of kills.                                                        *)
(***************************************************************************)
EXTENDS TriageRun, TLAPS

-----------------------------------------------------------------------------
(* Lemmas on the helpers of the module. *)

\* What reuse.plan takes for a finding is a verdict of the earlier report with the
\* fingerprint the finding has now.
LEMMA EarlierMatches ==
  ASSUME NEW use \in BOOLEAN, NEW f \in Reusable(use)
  PROVE  /\ Earlier(f) \in report
         /\ Fingerprint(Earlier(f).by, Earlier(f).rev) = Fingerprint(f, rev[f])
<1>1. f \in Findings /\ Matching(f) # {}
  BY DEF Reusable
<1>2. Earlier(f) \in Matching(f)
  BY <1>1 DEF Earlier
<1> QED
  BY <1>2 DEF Matching

\* Writing a row, or failing to, adds no verdict to the disk but those of that row.
LEMMA AppendKeeps ==
  ASSUME NEW S, Append(S) \/ AppendTorn(S)
  PROVE  /\ journal \subseteq journal'
         /\ journal' \subseteq journal \cup S
         /\ loose' \subseteq loose \cup S
BY DEF Append, AppendTorn

\* A finished future holds one verdict more: about its finding, on the code as it is, and
\* refused only if a call of that finding was.
LEMMA FinishAdds ==
  ASSUME NEW f \in Findings, Finish(f)
  PROVE  \E r \in results' :
           /\ results' = results \cup {r}
           /\ r.by = f /\ r.rev = rev[f]
           /\ work[f] # "refused" => ~r.refused
<1>1. PICK again \in BOOLEAN :
        results' = results \cup {[by |-> f, rev |-> rev[f], redo |-> again,
                                  refused |-> work[f] = "refused"]}
  BY DEF Finish
<1>2. PICK no \in BOOLEAN :
        /\ no = (work[f] = "refused")
        /\ results' = results \cup {[by |-> f, rev |-> rev[f], redo |-> again, refused |-> no]}
  BY <1>1
<1> DEFINE new == [by |-> f, rev |-> rev[f], redo |-> again, refused |-> no]
<1>3. new \in results' /\ results' = results \cup {new}
  BY <1>2
<1>4. new.by = f /\ new.rev = rev[f] /\ new.refused = no
  OBVIOUS
<1>5. work[f] # "refused" => ~new.refused
  BY <1>2, <1>4
<1> QED
  BY <1>3, <1>4, <1>5

-----------------------------------------------------------------------------
(* Type correctness. *)

\* Every state of the run has the declared shape.
THEOREM TypeCorrect == Spec => []TypeOK
<1>1. Init => TypeOK
  <2>1. 0 \in 0..MaxRev /\ 0 \in 0..MaxCrashes
    BY RunAssumption DEF RunAssumption
  <2> QED
    BY <2>1 DEF Init, TypeOK
<1>2. TypeOK /\ [Next]_vars => TypeOK'
  <2> SUFFICES ASSUME TypeOK, [Next]_vars PROVE TypeOK'
    OBVIOUS
  <2> USE RunAssumption DEF RunAssumption
  <2>1. ASSUME NEW use \in BOOLEAN, Start(use) PROVE TypeOK'
    <3>1. \A f \in Reusable(use) : Earlier(f) \in Rec
      BY EarlierMatches DEF TypeOK
    <3>2. reused' \subseteq Rec
      BY <2>1, <3>1 DEF Start
    <3>3. recovered' \subseteq Rec
      BY <2>1 DEF Start, Recoverable, TypeOK
    <3>4. excluded' \subseteq Rec
      <4>1. \A f \in Findings : ScopeVerdict(f) \in Rec
        BY DEF ScopeVerdict, Rec, TypeOK
      <4>2. \A r \in excluded' : \E f \in Findings : r = ScopeVerdict(f)
        BY <2>1 DEF Start, OutOfScope
      <4> QED
        BY <4>1, <4>2
    <3>5. work' \in [Findings -> {"out", "queued", "running", "refused", "done", "yielded", "taken"}]
      BY <2>1 DEF Start
    <3> QED
      BY <2>1, <3>2, <3>3, <3>4, <3>5 DEF Start, TypeOK, disk
  <2>2. ASSUME Decline \/ StartUndecodable PROVE TypeOK'
    BY <2>2 DEF Decline, StartUndecodable, TypeOK, disk, plan
  <2>3. ASSUME MainStep PROVE TypeOK'
    <3>1. ASSUME \/ Construct \/ Unavailable \/ Present
                 \/ Prepare \/ PrepareRefused \/ Check \/ CheckFatal
          PROVE TypeOK'
      BY <3>1 DEF Construct, Unavailable, Present, Prepare, PrepareRefused, Check, CheckFatal, Stop, TypeOK, disk, plan
    <3>2. ASSUME NEW f \in Findings, Yield(f) PROVE TypeOK'
      BY <3>2 DEF Yield, TypeOK, disk, plan
    <3>3. ASSUME NEW f \in Findings, Journal(f) PROVE TypeOK'
      BY <3>3 DEF Journal, Append, Of, TypeOK, plan
    <3>4. ASSUME NEW f \in Findings, JournalFails(f) PROVE TypeOK'
      BY <3>4 DEF JournalFails, AppendTorn, Of, TypeOK, plan
    <3>5. ASSUME OpenReport \/ CloseReport \/ Unlink PROVE TypeOK'
      BY <3>5 DEF OpenReport, CloseReport, Unlink, Stop, TypeOK, disk, plan
    <3>6. ASSUME NEW r \in Outcome, WriteRow(r) PROVE TypeOK'
      BY <3>6 DEF WriteRow, Outcome, TypeOK, plan
    <3> QED
      BY <2>3, <3>1, <3>2, <3>3, <3>4, <3>5, <3>6 DEF MainStep
  <2>4. ASSUME NEW f \in Findings, WorkerStep(f) PROVE TypeOK'
    <3>1. CASE Begin(f)
      BY <3>1 DEF Begin, TypeOK, disk, plan
    <3>3. CASE Refuse(f)
      BY <3>3 DEF Refuse, TypeOK, disk, plan
    <3>2. CASE Finish(f)
      <4>1. rev[f] \in 0..MaxRev
        BY DEF TypeOK
      <4>2. \A again \in BOOLEAN :
              [by |-> f, rev |-> rev[f], redo |-> again, refused |-> work[f] = "refused"] \in Rec
        BY <4>1 DEF Rec
      <4>3. results' \subseteq Rec
        BY <3>2, <4>2 DEF Finish, TypeOK
      <4> QED
        BY <3>2, <4>3 DEF Finish, TypeOK, disk, plan
    <3> QED
      BY <2>4, <3>1, <3>2, <3>3 DEF WorkerStep
  <2>5. ASSUME Crash PROVE TypeOK'
    <3>1. journal' \subseteq Rec /\ loose' \subseteq Rec
          /\ tail' \in {"nothing", "cut", "row"} /\ garbled' \in BOOLEAN
      BY <2>5 DEF Crash, AppendTorn, Of, TypeOK
    <3>2. crashes' \in 0..MaxCrashes
      BY <2>5 DEF Crash, TypeOK
    <3> QED
      BY <2>5, <3>1, <3>2 DEF Crash, Stop, TypeOK
  <2>6. ASSUME NEW f \in Findings, Edit(f) PROVE TypeOK'
    BY <2>6 DEF Edit, TypeOK, disk, plan
  <2>7. CASE UNCHANGED vars
    BY <2>7 DEF vars, disk, plan, TypeOK
  <2> QED
    BY <2>1, <2>2, <2>3, <2>4, <2>5, <2>6, <2>7 DEF Next
<1> QED
  BY <1>1, <1>2, PTL DEF Spec

-----------------------------------------------------------------------------
(* A credentials refusal never reaches the disk. *)

\* A refused verdict exists only while fatal_error is set, sits in a future that was not
\* taken yet, and is not the one the main thread has already let through.
RefusalInv ==
  /\ NoRefusedVerdict
  /\ \A r \in recovered \cup reused \cup excluded : ~r.refused
  /\ \A f \in Findings : work[f] = "refused" => fatal
  /\ \A r \in results : r.refused => fatal /\ work[r.by] \in {"done", "yielded"}
  /\ main = "journal" => \A r \in results : r.refused => work[r.by] # "yielded"
  /\ main \in {"write", "unlink"} => AllTaken

\* No behaviour writes a verdict that a 401 or 403 had a part in, although the workers run
\* on while the main thread looks at fatal_error.
THEOREM RefusalKeptOut == Spec => []NoRefusedVerdict
<1>1. Init => RefusalInv
  BY DEF Init, RefusalInv, NoRefusedVerdict, AllTaken
<1>2. TypeOK /\ RefusalInv /\ [Next]_vars => RefusalInv'
  <2> SUFFICES ASSUME TypeOK, RefusalInv, [Next]_vars PROVE RefusalInv'
    OBVIOUS
  <2>1. ASSUME NEW use \in BOOLEAN, Start(use) PROVE RefusalInv'
    <3>1. \A r \in reused' : ~r.refused
      BY <2>1, EarlierMatches DEF Start, RefusalInv, NoRefusedVerdict
    <3>2. \A r \in recovered' : ~r.refused
      BY <2>1 DEF Start, Recoverable, RefusalInv, NoRefusedVerdict
    <3>3. \A r \in excluded' : ~r.refused
      BY <2>1 DEF Start, OutOfScope, ScopeVerdict
    <3>4. \A f \in Findings : work'[f] # "refused"
      BY <2>1 DEF Start
    <3> QED
      BY <2>1, <3>1, <3>2, <3>3, <3>4 DEF Start, RefusalInv, NoRefusedVerdict, disk
  <2>2. ASSUME Decline \/ StartUndecodable PROVE RefusalInv'
    BY <2>2 DEF Decline, StartUndecodable, RefusalInv, NoRefusedVerdict, AllTaken, disk, plan
  <2>3. ASSUME MainStep PROVE RefusalInv'
    <3>1. ASSUME Construct \/ Prepare PROVE RefusalInv'
      BY <3>1 DEF Construct, Prepare, RefusalInv, NoRefusedVerdict, AllTaken, disk, plan
    <3>2. ASSUME Unavailable \/ PrepareRefused \/ CheckFatal \/ Present PROVE RefusalInv'
      BY <3>2 DEF Unavailable, Present, PrepareRefused, CheckFatal, Stop, RefusalInv, NoRefusedVerdict, disk
    <3>3. ASSUME Check PROVE RefusalInv'
      BY <3>3 DEF Check, RefusalInv, NoRefusedVerdict, AllTaken, disk, plan
    <3>4. ASSUME NEW f \in Findings, Yield(f) PROVE RefusalInv'
      BY <3>4 DEF Yield, RefusalInv, NoRefusedVerdict, AllTaken, TypeOK, Rec, disk, plan
    <3>5. ASSUME NEW f \in Findings, Journal(f) \/ JournalFails(f) PROVE RefusalInv'
      <4>1. \A r \in Of(f) : ~r.refused
        BY <3>5 DEF Journal, JournalFails, Of, RefusalInv
      <4>2. Append(Of(f)) \/ AppendTorn(Of(f))
        BY <3>5 DEF Journal, JournalFails
      <4>3. NoRefusedVerdict'
        BY <3>5, <4>1, <4>2, AppendKeeps DEF Journal, JournalFails, RefusalInv, NoRefusedVerdict
      <4> QED
        BY <3>5, <4>1, <4>3 DEF Journal, JournalFails, Of, RefusalInv, AllTaken, TypeOK, Rec, plan
    <3>6. ASSUME OpenReport PROVE RefusalInv'
      BY <3>6 DEF OpenReport, RefusalInv, NoRefusedVerdict, AllTaken, TypeOK, plan
    <3>7. ASSUME NEW r \in Outcome, WriteRow(r) PROVE RefusalInv'
      <4>1. ~r.refused
        BY <3>7 DEF WriteRow, Outcome, RefusalInv, AllTaken, TypeOK, Rec
      <4> QED
        BY <3>7, <4>1 DEF WriteRow, RefusalInv, NoRefusedVerdict, AllTaken, plan
    <3>8. ASSUME CloseReport \/ Unlink PROVE RefusalInv'
      BY <3>8 DEF CloseReport, Unlink, Stop, RefusalInv, NoRefusedVerdict, AllTaken, disk, plan
    <3> QED
      BY <2>3, <3>1, <3>2, <3>3, <3>4, <3>5, <3>6, <3>7, <3>8 DEF MainStep
  <2>4. ASSUME NEW f \in Findings, WorkerStep(f) PROVE RefusalInv'
    <3>1. ASSUME Begin(f) \/ Refuse(f) PROVE RefusalInv'
      BY <3>1 DEF Begin, Refuse, RefusalInv, NoRefusedVerdict, AllTaken, TypeOK, Rec, disk, plan
    <3>2. ASSUME Finish(f) PROVE RefusalInv'
      <4>1. main \notin {"write", "unlink"}
        BY <3>2 DEF Finish, Running, RefusalInv, AllTaken
      <4>2. \A r \in results' \ results : r.by = f /\ (r.refused => work[f] = "refused")
        BY <3>2, FinishAdds
      <4>3. /\ work[f] \in {"running", "refused"}
            /\ work' = [work EXCEPT ![f] = "done"]
            /\ UNCHANGED <<disk, main, plan, fatal>>
        BY <3>2 DEF Finish, Running
      <4>4. \A r \in results' : r.refused => fatal /\ work'[r.by] \in {"done", "yielded"}
        BY <4>2, <4>3 DEF RefusalInv, TypeOK, Rec
      <4>5. main = "journal" => \A r \in results' : r.refused => work'[r.by] # "yielded"
        BY <4>2, <4>3 DEF RefusalInv, TypeOK, Rec
      <4>6. \A g \in Findings : work'[g] = "refused" => fatal
        BY <4>3 DEF RefusalInv, TypeOK
      <4> QED
        BY <4>1, <4>3, <4>4, <4>5, <4>6 DEF RefusalInv, NoRefusedVerdict, disk, plan
    <3> QED
      BY <2>4, <3>1, <3>2 DEF WorkerStep
  <2>5. ASSUME Crash PROVE RefusalInv'
    <3>1. NoRefusedVerdict'
      <4>1. CASE main = "journal"
        <5>1. PICK f \in Findings : work[f] = "yielded" /\ AppendTorn(Of(f))
          BY <2>5, <4>1 DEF Crash
        <5>2. \A r \in Of(f) : ~r.refused
          BY <4>1, <5>1 DEF Of, RefusalInv
        <5> QED
          BY <2>5, <5>1, <5>2, AppendKeeps DEF Crash, RefusalInv, NoRefusedVerdict
      <4>2. CASE main # "journal"
        BY <2>5, <4>2 DEF Crash, RefusalInv, NoRefusedVerdict
      <4> QED
        BY <4>1, <4>2
    <3> QED
      BY <2>5, <3>1 DEF Crash, Stop, RefusalInv
  <2>6. ASSUME NEW f \in Findings, Edit(f) PROVE RefusalInv'
    BY <2>6 DEF Edit, RefusalInv, NoRefusedVerdict, AllTaken, disk, plan
  <2>7. CASE UNCHANGED vars
    BY <2>7 DEF vars, disk, plan, RefusalInv, NoRefusedVerdict, AllTaken
  <2> QED
    BY <2>1, <2>2, <2>3, <2>4, <2>5, <2>6, <2>7 DEF Next
<1>3. RefusalInv => NoRefusedVerdict
  BY DEF RefusalInv
<1> QED
  BY <1>1, <1>2, <1>3, TypeCorrect, PTL DEF Spec

-----------------------------------------------------------------------------
(* A journaled verdict is not paid for again. *)

\* A finding that waits, runs or is about to be journaled has no row in the journal.
UndecidedInv ==
  \A f \in Findings :
    work[f] \in {"queued", "running", "refused", "done", "yielded"} => f \notin Answered(journal)

\* No attempt starts the triage of a finding the journal answers.
THEOREM PaidOnce == Spec => DecidedOnce
<1>1. Init => UndecidedInv
  BY DEF Init, UndecidedInv
<1>2. TypeOK /\ UndecidedInv /\ [Next]_vars => UndecidedInv'
  <2> SUFFICES ASSUME TypeOK, UndecidedInv, [Next]_vars PROVE UndecidedInv'
    OBVIOUS
  <2>1. ASSUME NEW use \in BOOLEAN, Start(use) PROVE UndecidedInv'
    <3> SUFFICES ASSUME NEW f \in Findings, work'[f] # "out", NEW r \in journal, r.by = f
                 PROVE FALSE
      BY <2>1 DEF Start, UndecidedInv, Answered, disk
    <3> DEFINE fresh == Findings \ Reusable(use)
               left  == {g \in fresh : \A q \in Recoverable(fresh) : Id[q.by] # Id[g]}
    <3>1. work' = [g \in Findings |-> IF g \in left \cap InScope THEN "queued" ELSE "out"]
      BY <2>1 DEF Start
    <3>2. f \in left
      BY <3>1
    <3>3. r \in Recoverable(fresh)
      BY <3>2 DEF Recoverable
    <3> QED
      BY <3>2, <3>3
  <2>2. ASSUME MainStep PROVE UndecidedInv'
    <3>1. ASSUME Construct \/ Prepare \/ Check \/ CloseReport \/ OpenReport PROVE UndecidedInv'
      BY <3>1 DEF Construct, Prepare, Check, CloseReport, OpenReport, UndecidedInv, Answered, disk, plan
    <3>2. ASSUME Unavailable \/ PrepareRefused \/ CheckFatal \/ Present PROVE UndecidedInv'
      BY <3>2 DEF Unavailable, Present, PrepareRefused, CheckFatal, Stop, UndecidedInv
    <3>3. ASSUME NEW f \in Findings, Yield(f) PROVE UndecidedInv'
      BY <3>3 DEF Yield, UndecidedInv, Answered, TypeOK, disk, plan
    <3>4. ASSUME NEW f \in Findings, Journal(f) \/ JournalFails(f) PROVE UndecidedInv'
      <4>1. \A r \in journal' \ journal : r.by = f
        BY <3>4, AppendKeeps DEF Journal, JournalFails, Of
      <4> QED
        BY <3>4, <4>1 DEF Journal, JournalFails, UndecidedInv, Answered, TypeOK
    <3>5. ASSUME NEW r \in Outcome, WriteRow(r) PROVE UndecidedInv'
      BY <3>5 DEF WriteRow, UndecidedInv, Answered, plan
    <3>6. ASSUME Unlink PROVE UndecidedInv'
      BY <3>6 DEF Unlink, UndecidedInv, Answered, plan
    <3> QED
      BY <2>2, <3>1, <3>2, <3>3, <3>4, <3>5, <3>6 DEF MainStep
  <2>3. ASSUME NEW f \in Findings, WorkerStep(f) PROVE UndecidedInv'
    BY <2>3 DEF WorkerStep, Begin, Refuse, Finish, Running, UndecidedInv, Answered, TypeOK, disk, plan
  <2>4. ASSUME Crash PROVE UndecidedInv'
    BY <2>4 DEF Crash, Stop, UndecidedInv
  <2>5. CASE Decline \/ StartUndecodable \/ (\E f \in Findings : Edit(f)) \/ UNCHANGED vars
    BY <2>5 DEF Decline, StartUndecodable, Edit, vars, disk, plan, UndecidedInv, Answered
  <2> QED
    BY <2>1, <2>2, <2>3, <2>4, <2>5 DEF Next
<1>3. UndecidedInv =>
        [\A f \in Findings :
          work[f] = "queued" /\ work'[f] = "running" => f \notin Answered(journal)]_vars
  BY DEF UndecidedInv
<1> QED
  BY <1>1, <1>2, <1>3, TypeCorrect, PTL DEF Spec, DecidedOnce

-----------------------------------------------------------------------------
(* The report answers the input, where ids and fingerprints tell findings apart. *)

\* While a process runs, a finding that was not given to the pool is answered by what was
\* reused, recovered or excluded; one whose future is done, by the future.
AnswerInv ==
  /\ main # "idle" =>
       \A f \in Findings :
         work[f] = "out" => f \in Answered(recovered \cup reused \cup excluded)
  /\ \A f \in Findings :
       work[f] \in {"done", "yielded", "taken"} => f \in Answered(results)
  /\ main \in {"write", "unlink"} => AllTaken /\ readable = "yes"
  /\ main = "unlink" => Outcome \subseteq report

LEMMA StartAnswers ==
  ASSUME TypeOK, NamesDistinct, NEW use \in BOOLEAN, Start(use),
         NEW f \in Findings, work'[f] = "out"
  PROVE  f \in Answered(recovered' \cup reused' \cup excluded')
<1> DEFINE fresh == Findings \ Reusable(use)
           left  == {g \in fresh : \A q \in Recoverable(fresh) : Id[q.by] # Id[g]}
<1>1. /\ work' = [g \in Findings |-> IF g \in left \cap InScope THEN "queued" ELSE "out"]
      /\ reused' = {Earlier(g) : g \in Reusable(use)}
      /\ recovered' = Recoverable(fresh)
      /\ excluded' = {ScopeVerdict(g) : g \in left \ InScope}
  BY DEF Start, OutOfScope
<1>2. CASE f \in Reusable(use)
  <2>1. Earlier(f) \in report /\ Fingerprint(Earlier(f).by, Earlier(f).rev) = Fingerprint(f, rev[f])
    BY <1>2, EarlierMatches
  <2>2. Earlier(f).by \in Findings /\ Earlier(f).rev \in 0..MaxRev /\ rev[f] \in 0..MaxRev
    BY <2>1 DEF TypeOK, Rec
  <2>3. Earlier(f).by = f
    BY <2>1, <2>2 DEF NamesDistinct
  <2> QED
    BY <1>1, <1>2, <2>3 DEF Answered
<1>3. CASE f \in fresh \ left
  <2>1. PICK q \in Recoverable(fresh) : Id[q.by] = Id[f]
    BY <1>3
  <2>2. q.by \in Findings
    BY DEF Recoverable, TypeOK, Rec
  <2>3. q.by = f
    BY <2>1, <2>2 DEF NamesDistinct
  <2> QED
    BY <1>1, <2>3 DEF Answered
<1>4. CASE f \in left
  <2>1. ScopeVerdict(f) \in excluded'
    BY <1>1, <1>4
  <2>2. ScopeVerdict(f).by = f
    BY DEF ScopeVerdict
  <2> QED
    BY <2>1, <2>2 DEF Answered
<1> QED
  BY <1>2, <1>3, <1>4

\* The strengthening is inductive.
LEMMA AnswerInductive ==
  ASSUME NamesDistinct
  PROVE  Spec => []AnswerInv
<1>1. Init => AnswerInv
  BY DEF Init, AnswerInv
<1>2. TypeOK /\ AnswerInv /\ [Next]_vars => AnswerInv'
  <2> SUFFICES ASSUME TypeOK, AnswerInv, [Next]_vars PROVE AnswerInv'
    OBVIOUS
  <2>1. ASSUME NEW use \in BOOLEAN, Start(use) PROVE AnswerInv'
    <3>1. \A f \in Findings : work'[f] \in {"queued", "out"}
      BY <2>1 DEF Start
    <3>2. main' = "construct"
      BY <2>1 DEF Start
    <3> QED
      BY <2>1, <3>1, <3>2, StartAnswers DEF AnswerInv
  <2>2. ASSUME MainStep PROVE AnswerInv'
    <3>1. ASSUME Construct \/ Prepare \/ Check PROVE AnswerInv'
      BY <3>1 DEF Construct, Prepare, Check, AnswerInv, AllTaken, Answered, Outcome, disk, plan
    <3>2. ASSUME Unavailable \/ PrepareRefused \/ CheckFatal \/ Present PROVE AnswerInv'
      BY <3>2 DEF Unavailable, Present, PrepareRefused, CheckFatal, Stop, AnswerInv, Answered
    <3>3. ASSUME NEW f \in Findings, Yield(f) \/ Journal(f) \/ JournalFails(f)
          PROVE AnswerInv'
      BY <3>3 DEF Yield, Journal, JournalFails, AnswerInv, Answered, TypeOK, plan
    <3>4. ASSUME OpenReport PROVE AnswerInv'
      BY <3>4 DEF OpenReport, AnswerInv, AllTaken, Answered, plan
    <3>5. ASSUME NEW r \in Outcome, WriteRow(r) PROVE AnswerInv'
      BY <3>5 DEF WriteRow, AnswerInv, AllTaken, Answered, plan
    <3>6. ASSUME CloseReport PROVE AnswerInv'
      BY <3>6 DEF CloseReport, AnswerInv, AllTaken, Answered, Outcome, disk, plan
    <3>7. ASSUME Unlink PROVE AnswerInv'
      BY <3>7 DEF Unlink, AnswerInv, AllTaken, Answered, plan
    <3> QED
      BY <2>2, <3>1, <3>2, <3>3, <3>4, <3>5, <3>6, <3>7 DEF MainStep
  <2>3. ASSUME NEW f \in Findings, WorkerStep(f) PROVE AnswerInv'
    <3>1. work[f] \in {"queued", "running", "refused"}
      BY <2>3 DEF WorkerStep, Begin, Refuse, Finish, Running
    <3>2. main \notin {"write", "unlink"}
      BY <3>1 DEF AnswerInv, AllTaken
    <3>3. CASE Begin(f) \/ Refuse(f)
      BY <3>1, <3>2, <3>3 DEF Begin, Refuse, AnswerInv, Answered, TypeOK, disk, plan
    <3>4. CASE Finish(f)
      <4>1. \E r \in results' : r.by = f
        BY <3>4, FinishAdds
      <4>2. results \subseteq results'
        BY <3>4 DEF Finish
      <4> QED
        BY <3>1, <3>2, <3>4, <4>1, <4>2 DEF Finish, AnswerInv, Answered, TypeOK, disk, plan
    <3> QED
      BY <2>3, <3>3, <3>4 DEF WorkerStep
  <2>4. ASSUME Crash PROVE AnswerInv'
    BY <2>4 DEF Crash, Stop, AnswerInv
  <2>5. CASE Decline \/ StartUndecodable \/ (\E f \in Findings : Edit(f)) \/ UNCHANGED vars
    BY <2>5 DEF Decline, StartUndecodable, Edit, vars, disk, plan, AnswerInv, AllTaken, Answered, Outcome
  <2> QED
    BY <2>1, <2>2, <2>3, <2>4, <2>5 DEF Next
<1> QED
  BY <1>1, <1>2, TypeCorrect, PTL DEF Spec

\* If no two findings share an id or a fingerprint, no finding is missing from the report,
\* after any number of kills, refusals and edits.
THEOREM AllAnswered ==
  ASSUME NamesDistinct
  PROVE  Spec => []EveryFindingAnswered
<1>1. AnswerInv => EveryFindingAnswered
  BY DEF AnswerInv, EveryFindingAnswered, AllTaken, Answered, Outcome
<1> QED
  BY <1>1, AnswerInductive, PTL

\* Under the same condition the journal is only ever given up for a complete report.
THEOREM JournalSafe ==
  ASSUME NamesDistinct
  PROVE  Spec => JournalOutlivesReport
<1>1. TypeOK /\ AnswerInv /\ [Next]_vars =>
        \/ journal \subseteq journal'
        \/ readable = "yes" /\ Findings \subseteq Answered(report)
  <2> SUFFICES ASSUME TypeOK, AnswerInv, [Next]_vars, ~(journal \subseteq journal')
               PROVE  readable = "yes" /\ Findings \subseteq Answered(report)
    OBVIOUS
  <2>1. Unlink
    BY AppendKeeps
    DEF Next, MainStep, WorkerStep, Decline, Start, StartUndecodable, Construct, Unavailable,
        Prepare, PrepareRefused, Begin, Refuse, Finish, Yield, Check, CheckFatal, Journal,
        JournalFails, OpenReport, WriteRow, CloseReport, Present, Crash, AppendTorn, Edit, vars,
        disk
  <2> QED
    BY <2>1 DEF Unlink, AnswerInv, AllTaken, Answered, Outcome
<1> QED
  BY <1>1, AnswerInductive, TypeCorrect, PTL DEF Spec, JournalOutlivesReport

-----------------------------------------------------------------------------
(* Where a verdict about old code can come from. *)

\* Nothing edits the code while a process runs, so what it decided or excluded is about the
\* code as it is, and what it reused about code with the snippet as it is; the journal's ids
\* say nothing of it.
CurrentInv ==
  main # "idle" =>
    /\ \A r \in results \cup excluded : r.rev = rev[r.by]
    /\ \A r \in reused : Snippet[r.by][r.rev] = Snippet[r.by][rev[r.by]]
    /\ main \in {"write", "unlink"} => AllTaken /\ report \subseteq Outcome

\* If no two findings share a fingerprint, a verdict in the report that is about an earlier
\* revision of the code came through the journal of an interrupted attempt, or from an earlier
\* report on code whose snippet was the one it is now: reuse.py compares no more of it.
THEOREM StaleBound ==
  ASSUME NamesDistinct
  PROVE  Spec => []StaleOnlyUnseen
<1>1. Init => CurrentInv
  BY DEF Init, CurrentInv
<1>2. TypeOK /\ CurrentInv /\ [Next]_vars => CurrentInv'
  <2> SUFFICES ASSUME TypeOK, CurrentInv, [Next]_vars PROVE CurrentInv'
    OBVIOUS
  <2>1. ASSUME NEW use \in BOOLEAN, Start(use) PROVE CurrentInv'
    <3>1. \A r \in reused' : Snippet[r.by][r.rev] = Snippet[r.by][rev[r.by]]
      <4> SUFFICES ASSUME NEW f \in Reusable(use)
                   PROVE Snippet[Earlier(f).by][Earlier(f).rev]
                           = Snippet[Earlier(f).by][rev[Earlier(f).by]]
        BY <2>1 DEF Start
      <4>1. /\ Earlier(f) \in report /\ f \in Findings
            /\ Fingerprint(Earlier(f).by, Earlier(f).rev) = Fingerprint(f, rev[f])
        BY EarlierMatches DEF Reusable
      <4>2. /\ Earlier(f).by \in Findings
            /\ Earlier(f).rev \in 0..MaxRev /\ rev[f] \in 0..MaxRev
        BY <4>1 DEF TypeOK, Rec
      <4>3. Earlier(f).by = f
        BY <4>1, <4>2 DEF NamesDistinct
      <4> QED
        BY <4>1, <4>3 DEF Fingerprint
    <3>2. \A r \in excluded' : r.rev = rev[r.by]
      BY <2>1 DEF Start, OutOfScope, ScopeVerdict
    <3> QED
      BY <2>1, <3>1, <3>2 DEF Start, CurrentInv
  <2>2. ASSUME MainStep PROVE CurrentInv'
    <3>1. ASSUME Construct \/ Prepare \/ Check \/ CloseReport PROVE CurrentInv'
      BY <3>1 DEF Construct, Prepare, Check, CloseReport, CurrentInv, AllTaken, Outcome, disk, plan
    <3>2. ASSUME Unavailable \/ PrepareRefused \/ CheckFatal \/ Present PROVE CurrentInv'
      BY <3>2 DEF Unavailable, Present, PrepareRefused, CheckFatal, Stop, CurrentInv
    <3>3. ASSUME NEW f \in Findings, Yield(f) \/ Journal(f) \/ JournalFails(f)
          PROVE CurrentInv'
      BY <3>3 DEF Yield, Journal, JournalFails, CurrentInv, plan
    <3>4. ASSUME OpenReport PROVE CurrentInv'
      BY <3>4 DEF OpenReport, CurrentInv, AllTaken, Outcome, plan
    <3>5. ASSUME NEW r \in Outcome, WriteRow(r) PROVE CurrentInv'
      BY <3>5 DEF WriteRow, CurrentInv, AllTaken, Outcome, plan
    <3>6. ASSUME Unlink PROVE CurrentInv'
      BY <3>6 DEF Unlink, CurrentInv, AllTaken, Outcome, plan
    <3> QED
      BY <2>2, <3>1, <3>2, <3>3, <3>4, <3>5, <3>6 DEF MainStep
  <2>3. ASSUME NEW f \in Findings, WorkerStep(f) PROVE CurrentInv'
    <3>1. CASE Begin(f) \/ Refuse(f)
      BY <3>1 DEF Begin, Refuse, CurrentInv, AllTaken, Outcome, TypeOK, disk, plan
    <3>2. CASE Finish(f)
      <4>1. main \in {"write", "unlink"} => main = "idle"
        BY <3>2 DEF Finish, Running, CurrentInv, AllTaken
      <4> QED
        BY <3>2, <4>1, FinishAdds DEF Finish, CurrentInv, disk, plan
    <3> QED
      BY <2>3, <3>1, <3>2 DEF WorkerStep
  <2>4. ASSUME Crash PROVE CurrentInv'
    BY <2>4 DEF Crash, Stop, CurrentInv
  <2>5. CASE Decline \/ StartUndecodable \/ (\E f \in Findings : Edit(f))
    BY <2>5 DEF Decline, StartUndecodable, Edit, CurrentInv, disk, plan
  <2>6. CASE UNCHANGED vars
    BY <2>6 DEF vars, disk, plan, CurrentInv, AllTaken, Outcome
  <2> QED
    BY <2>1, <2>2, <2>3, <2>4, <2>5, <2>6 DEF Next
<1>3. CurrentInv => StaleOnlyUnseen
  BY DEF CurrentInv, StaleOnlyUnseen, Outcome
<1> QED
  BY <1>1, <1>2, <1>3, TypeCorrect, PTL DEF Spec
=============================================================================
